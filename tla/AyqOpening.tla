----------------------------- MODULE AyqOpening -----------------------------
(* Several requests want the budget open: the first of them opens it, or      *)
(* makes one, the others wait for that.  Opening gives the budget the starter *)
(* categories, once: on a budget just made in place of Actual's own, on one   *)
(* that was there beside what it has.  Any step fails, AYQ dies at any step.  *)
EXTENDS Integers, FiniteSets

CONSTANTS
  Requests,     \* requests the window has at a time
  Starter,      \* AYQ_STARTER_TAXONOMY, as names
  Placeholder,  \* the categories Actual makes a budget with
  MaxFailures,  \* bound: openings that fail
  MaxDeaths,    \* bound: the process dies
  None

(* Assumed where the module is used. *)
NamesDiffer == Starter \cap Placeholder = {}
NoneIsNone == None \notin Requests
Assumed == NamesDiffer /\ NoneIsNone

VARIABLES
  budgets,      \* how many budgets are called AYQ
  names,        \* the categories of the first
  used,         \* those with transactions in them
  marked,       \* the store: starterTaxonomyVersion
  opened,       \* the process: opened is set
  opening,      \* the process: whose run opening is, or None
  run,          \* where each run of openBudgetOnce is
  asked,        \* what became of each request
  made,         \* history: AYQ made the budget
  dropped,      \* history: categories the owner removed
  failures, deaths

disk == <<budgets, names, used, marked>>
process == <<opened, opening, run, asked>>
vars == <<disk, process, made, dropped, failures, deaths>>

Names == Starter \cup Placeholder
Idle == [at |-> "none", fresh |-> FALSE, todo |-> {}]

(* No budget, or one AYQ or somebody else made, of any age.                  *)
Init ==
  /\ \/ budgets = 0 /\ names = {} /\ used = {} /\ marked = FALSE
     \/ /\ budgets = 1 /\ names \in SUBSET Names /\ used \in SUBSET names
        /\ marked \in BOOLEAN
  /\ opened = FALSE /\ opening = None
  /\ run = [r \in Requests |-> Idle]
  /\ asked = [r \in Requests |-> "idle"]
  /\ made = FALSE
  /\ dropped = IF marked THEN Starter \ names ELSE {}
  /\ failures = 0 /\ deaths = 0

-----------------------------------------------------------------------------
(* openBudget *)
AskOpened(r) ==
  /\ asked[r] = "idle" /\ opened
  /\ asked' = [asked EXCEPT ![r] = "answered"]
  /\ UNCHANGED <<disk, opened, opening, run, made, dropped, failures, deaths>>

Begin(r) ==
  /\ opening' = r
  /\ run' = [run EXCEPT ![r] = [Idle EXCEPT !.at = "find"]]
  /\ asked' = [asked EXCEPT ![r] = "waiting"]
  /\ UNCHANGED <<disk, opened, made, dropped, failures, deaths>>

(* Mutant: whoever finds it closed opens it. *)
AskEach(r) == asked[r] = "idle" /\ ~opened /\ Begin(r)

AskFirst(r) == asked[r] = "idle" /\ ~opened /\ opening = None /\ Begin(r)

AskNext(r) ==
  /\ asked[r] = "idle" /\ ~opened /\ opening # None
  /\ asked' = [asked EXCEPT ![r] = "waiting"]
  /\ UNCHANGED <<disk, opened, opening, run, made, dropped, failures, deaths>>

(* The window asks something else.                                           *)
AskAgain(r) ==
  /\ asked[r] \in {"answered", "failed"}
  /\ asked' = [asked EXCEPT ![r] = "idle"]
  /\ UNCHANGED <<disk, opened, opening, run, made, dropped, failures, deaths>>

-----------------------------------------------------------------------------
(* openBudgetOnce *)
At(r, at) == run[r].at = at
To(r, at) == run' = [run EXCEPT ![r].at = at]
Only(r) == UNCHANGED <<opened, opening, asked, dropped, failures, deaths>>

Find(r) ==
  /\ At(r, "find")
  /\ IF budgets > 0 THEN To(r, "load") ELSE To(r, "create")
  /\ Only(r) /\ UNCHANGED <<disk, made>>

Create(r) ==
  /\ At(r, "create")
  /\ budgets' = budgets + 1
  /\ names' = Placeholder /\ made' = TRUE
  /\ run' = [run EXCEPT ![r] = [@ EXCEPT !.at = "load", !.fresh = TRUE]]
  /\ Only(r) /\ UNCHANGED <<used, marked>>

(* Mutant: the marker is not looked at. *)
LoadSeeds(r) ==
  /\ At(r, "load")
  /\ run' = [run EXCEPT ![r] = [@ EXCEPT !.at = "seed", !.todo = Starter]]
  /\ Only(r) /\ UNCHANGED <<disk, made>>

(* loadBudget, then ayqProvisionTaxonomy, which the marker ends at once.     *)
Load(r) ==
  /\ At(r, "load")
  /\ IF marked THEN To(r, "rest")
     ELSE run' = [run EXCEPT ![r] = [@ EXCEPT !.at = "seed", !.todo = Starter]]
  /\ Only(r) /\ UNCHANGED <<disk, made>>

Seed(r) ==
  /\ At(r, "seed") /\ run[r].todo # {}
  /\ \E name \in run[r].todo :
       /\ names' = names \cup {name}
       /\ run' = [run EXCEPT ![r].todo = @ \ {name}]
  /\ Only(r) /\ UNCHANGED <<budgets, used, marked, made>>

(* removePlaceholders *)
Clear(r) ==
  /\ At(r, "seed") /\ run[r].todo = {} /\ run[r].fresh
  /\ \E name \in names \cap Placeholder :
       names' = names \ {name} /\ used' = used \ {name}
  /\ Only(r) /\ UNCHANGED <<run, budgets, marked, made>>

Mark(r) ==
  /\ At(r, "seed") /\ run[r].todo = {}
  /\ run[r].fresh => names \cap Placeholder = {}
  /\ marked' = TRUE
  /\ To(r, "rest")
  /\ Only(r) /\ UNCHANGED <<budgets, names, used, made>>

(* The promise settles; everybody who has it goes on.                        *)
Settle(r, how) ==
  /\ run' = [run EXCEPT ![r] = Idle]
  /\ asked' = [q \in Requests |-> IF asked[q] = "waiting" THEN how ELSE asked[q]]
  /\ UNCHANGED <<disk, made, dropped, deaths>>

(* The passes on a budget that was there, then opened is set.                *)
Finish(r) ==
  /\ At(r, "rest")
  /\ opened' = TRUE /\ opening' = None
  /\ Settle(r, "answered")
  /\ UNCHANGED failures

(* Mutant: a failed opening is what everybody after it gets. *)
FailForGood(r) ==
  /\ ~At(r, "none") /\ failures < MaxFailures
  /\ failures' = failures + 1
  /\ Settle(r, "failed")
  /\ UNCHANGED <<opened, opening>>

Fail(r) ==
  /\ ~At(r, "none") /\ failures < MaxFailures
  /\ failures' = failures + 1
  /\ opening' = None
  /\ Settle(r, "failed")
  /\ UNCHANGED opened

Die ==
  /\ deaths < MaxDeaths
  /\ deaths' = deaths + 1
  /\ opened' = FALSE /\ opening' = None
  /\ run' = [r \in Requests |-> Idle]
  /\ asked' = [r \in Requests |-> "idle"]
  /\ UNCHANGED <<disk, made, dropped, failures>>

-----------------------------------------------------------------------------
(* What the owner does with the categories of an open budget.                *)
File(name) ==
  /\ opened /\ name \in names
  /\ used' = used \cup {name}
  /\ UNCHANGED <<budgets, names, marked, process, made, dropped, failures, deaths>>

Remove(name) ==
  /\ opened /\ name \in names
  /\ names' = names \ {name} /\ used' = used \ {name}
  /\ dropped' = dropped \cup {name}
  /\ UNCHANGED <<budgets, marked, process, made, failures, deaths>>

Add(name) ==
  /\ opened /\ name \notin names
  /\ names' = names \cup {name}
  /\ dropped' = dropped \ {name}
  /\ UNCHANGED <<budgets, used, marked, process, made, failures, deaths>>

(* The host gives the request up; the opening goes on.                       *)
Timeout(r) ==
  /\ asked[r] = "waiting"
  /\ asked' = [asked EXCEPT ![r] = "failed"]
  /\ UNCHANGED <<disk, opened, opening, run, made, dropped, failures, deaths>>

Step(r) == Find(r) \/ Create(r) \/ Load(r) \/ Seed(r) \/ Clear(r) \/ Mark(r) \/ Finish(r)
Ask(r) == AskOpened(r) \/ AskFirst(r) \/ AskNext(r) \/ AskAgain(r)

Next ==
  \/ \E r \in Requests : Ask(r) \/ Step(r) \/ Fail(r) \/ Timeout(r)
  \/ \E name \in Names : File(name) \/ Remove(name) \/ Add(name)
  \/ Die

Spec == Init /\ [][Next]_vars

(* The engine goes on with what it began, and the window goes on asking.     *)
FairSpec == Spec /\ \A r \in Requests : WF_vars(Step(r)) /\ WF_vars(Ask(r))

-----------------------------------------------------------------------------
TypeOK ==
  /\ budgets \in 0..1
  /\ names \subseteq Names /\ used \subseteq names
  /\ marked \in BOOLEAN /\ opened \in BOOLEAN /\ made \in BOOLEAN
  /\ opening \in Requests \cup {None}
  /\ run \in [Requests -> [at : {"none", "find", "create", "load", "seed", "rest"},
                           fresh : BOOLEAN, todo : SUBSET Starter]]
  /\ asked \in [Requests -> {"idle", "waiting", "answered", "failed"}]

(* However many ask at once, one opens the budget and no second is made      *)
(* (ayq-engine.ts:196-207).                                                  *)
OneBudget ==
  /\ budgets <= 1
  /\ \A q, r \in Requests : ~At(q, "none") /\ ~At(r, "none") => q = r

(* The marker says that every starter category is there or was removed by    *)
(* the owner, wherever an earlier launch stopped (ayq-taxonomy.ts:26-28).    *)
AllThere == marked => Starter \subseteq names \cup dropped

(* A category the owner removed does not come back by itself                 *)
(* (ayq-taxonomy.ts:29-31).                                                  *)
NeverComesBack == dropped \cap names = {}

(* Opening never takes a category that transactions are filed in.            *)
TheirsStays == [][opened \/ used \subseteq names']_vars

(* An opening that failed does not stop the next from succeeding, and nobody *)
(* waits for ever.                                                           *)
Opens == []<>opened

(* A budget AYQ made has none of Actual's placeholders once its categories   *)
(* are provisioned (ayq-taxonomy.ts:16-18).                                  *)
PlaceholdersGone == [][made /\ ~marked /\ marked' => names' \cap Placeholder = {}]_vars
=============================================================================
