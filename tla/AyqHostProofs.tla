---------------------------- MODULE AyqHostProofs ----------------------------
(* What carries AYQ, from its start to its end: the opening of the budget,    *)
(* the relay its requests come through, the file of AYQ's own data and the    *)
(* backups, for any requests, categories and bounds, and either host.         *)
(*                                                                            *)
(* However many requests want the budget open, and wherever an opening fails  *)
(* or AYQ dies, one budget is made, and the starter categories are what they  *)
(* were said to be: once the marker is set each is there or was removed by    *)
(* its owner, and none that was removed comes back.  The promise is what it   *)
(* rests on: a run that is under way is the one the promise stands for, so no *)
(* other looks for a budget, makes one or seeds it meanwhile.                 *)
EXTENDS MCAyqHost, FiniteSetTheorems, TLAPS

Runs == [at : {"none", "find", "create", "load", "seed", "rest"},
         fresh : BOOLEAN, todo : SUBSET Starter]

(* The one run there is, and what each of its steps may rely on.             *)
RunOK(r) ==
  ~Opening!At(r, "none") =>
    /\ opening = r
    /\ ~opened
    /\ Opening!At(r, "create") => budgets = 0
    /\ run[r].at \in {"load", "seed", "rest"} => budgets = 1
    /\ Opening!At(r, "seed") => ~marked /\ Starter \ run[r].todo \subseteq names
    /\ Opening!At(r, "rest") => marked

OpeningInv ==
  /\ Opening!TypeOK
  /\ \A r \in Requests : RunOK(r)
  /\ opened => opening = None /\ marked /\ budgets = 1
  /\ budgets = 0 => names = {} /\ ~marked
  /\ ~marked => dropped = {}
  /\ dropped \subseteq Opening!Names
  /\ Opening!AllThere
  /\ Opening!NeverComesBack

LEMMA OpeningNames == Starter \cap Placeholder = {} /\ None \notin Requests
BY HostAssumed DEF Opening!Assumed, Opening!NamesDiffer, Opening!NoneIsNone

-----------------------------------------------------------------------------
LEMMA OpeningInit == Opening!Init => OpeningInv
<1> SUFFICES ASSUME Opening!Init PROVE OpeningInv
  OBVIOUS
<1>1. run \in [Requests -> Runs] /\ \A r \in Requests : Opening!At(r, "none")
  BY DEF Opening!Init, Runs, Opening!Idle, Opening!At
<1>2. /\ opened = FALSE /\ opening = None /\ made = FALSE
      /\ asked \in [Requests -> {"idle", "waiting", "answered", "failed"}]
  BY DEF Opening!Init
<1>3. \/ budgets = 0 /\ names = {} /\ used = {} /\ marked = FALSE
      \/ budgets = 1 /\ names \in SUBSET Opening!Names /\ used \in SUBSET names /\ marked \in BOOLEAN
  BY DEF Opening!Init
<1>4. names \subseteq Opening!Names /\ used \subseteq names /\ budgets \in 0..1
  BY <1>3
<1>5. marked \in BOOLEAN
  BY <1>3, Zenon
<1>6. budgets = 0 => names = {} /\ ~marked
  BY <1>3
<1>7. dropped = IF marked THEN Starter \ names ELSE {}
  BY DEF Opening!Init
<1>8. Opening!TypeOK
  BY <1>1, <1>2, <1>4, <1>5 DEF Opening!TypeOK, Runs
<1> QED BY <1>1, <1>2, <1>7, <1>8, <1>4, <1>6 DEF OpeningInv, RunOK, Opening!AllThere, Opening!NeverComesBack, Opening!Names

(* No other run is under way beside one that is.                             *)
LEMMA SoleRun ==
  ASSUME OpeningInv, NEW r \in Requests, ~Opening!At(r, "none"), NEW q \in Requests, q # r
  PROVE  Opening!At(q, "none")
BY DEF OpeningInv, RunOK

(* A run goes on: the others stay what they are, none.                       *)
LEMMA RunGoesOn ==
  ASSUME OpeningInv, NEW r \in Requests, ~Opening!At(r, "none"),
         NEW step \in Runs, step.at # "none",
         run' = [run EXCEPT ![r] = step],
         opening' = opening, opened' = opened,
         step.at = "create" => budgets' = 0,
         step.at \in {"load", "seed", "rest"} => budgets' = 1,
         step.at = "seed" => ~marked' /\ Starter \ step.todo \subseteq names',
         step.at = "rest" => marked'
  PROVE  run' \in [Requests -> Runs] /\ \A q \in Requests : RunOK(q)'
<1>1. run \in [Requests -> Runs] /\ RunOK(r)
  BY DEF OpeningInv, Opening!TypeOK, Runs
<1>2. run' \in [Requests -> Runs] /\ run'[r] = step
  BY <1>1
<1>3. RunOK(r)'
  BY <1>1, <1>2 DEF RunOK, Opening!At
<1>4. ASSUME NEW q \in Requests, q # r PROVE RunOK(q)'
  <2>1. run'[q] = run[q]
    BY <1>1, <1>4
  <2>2. run[q].at = "none"
    BY <1>4, SoleRun DEF Opening!At
  <2> QED BY <2>1, <2>2 DEF RunOK, Opening!At
<1> QED BY <1>2, <1>3, <1>4

(* Where no run is under way, nothing more is to be said of them.            *)
LEMMA NoRun ==
  ASSUME run' = [r \in Requests |-> Opening!Idle]
  PROVE  run' \in [Requests -> Runs] /\ \A q \in Requests : RunOK(q)'
BY DEF Runs, RunOK, Opening!At, Opening!Idle

(* The run that ends was the only one.                                       *)
LEMMA Settles ==
  ASSUME OpeningInv, NEW r \in Requests, ~Opening!At(r, "none"), run' = [run EXCEPT ![r] = Opening!Idle]
  PROVE  run' \in [Requests -> Runs] /\ \A q \in Requests : RunOK(q)'
<1>1. run \in [Requests -> Runs]
  BY DEF OpeningInv, Opening!TypeOK, Runs
<1>2. Opening!Idle \in Runs /\ Opening!Idle.at = "none"
  BY DEF Opening!Idle, Runs
<1>3. run' \in [Requests -> Runs]
  BY <1>1, <1>2
<1>4. ASSUME NEW q \in Requests PROVE run'[q].at = "none"
  <2>1. CASE q = r
    BY <1>1, <1>2, <2>1
  <2>2. CASE q # r
    <3>1. run'[q] = run[q]
      BY <1>1, <2>2
    <3> QED BY <3>1, <2>2, SoleRun DEF Opening!At
  <2> QED BY <2>1, <2>2
<1> QED BY <1>3, <1>4 DEF RunOK, Opening!At

(* What is under way stays in order where none of it changes.                *)
LEMMA RunsStay ==
  ASSUME OpeningInv, UNCHANGED <<run, opening, opened, budgets, names, marked>>
  PROVE  \A q \in Requests : RunOK(q)'
BY DEF OpeningInv, RunOK, Opening!At

-----------------------------------------------------------------------------
LEMMA AskStep ==
  ASSUME OpeningInv, NEW r \in Requests, Opening!Ask(r)
  PROVE  OpeningInv'
<1>1. asked' \in [Requests -> {"idle", "waiting", "answered", "failed"}]
  BY DEF Opening!Ask, Opening!AskOpened, Opening!AskFirst, Opening!Begin, Opening!AskNext, Opening!AskAgain, OpeningInv, Opening!TypeOK
<1>2. UNCHANGED <<Opening!disk, opened, made, dropped>>
  BY DEF Opening!Ask, Opening!AskOpened, Opening!AskFirst, Opening!Begin, Opening!AskNext, Opening!AskAgain
<1>3. CASE UNCHANGED <<opening, run>>
  <2>1. \A q \in Requests : RunOK(q)'
    BY <1>2, <1>3, RunsStay DEF Opening!disk
  <2> QED BY <1>1, <1>2, <1>3, <2>1 DEF OpeningInv, Opening!TypeOK, Opening!AllThere, Opening!NeverComesBack, Opening!disk
<1>4. CASE Opening!AskFirst(r)
  <2>1. \A q \in Requests : Opening!At(q, "none")
    BY <1>4, OpeningNames DEF Opening!AskFirst, OpeningInv, RunOK
  <2>2. opening' = r /\ ~opened /\ run' = [run EXCEPT ![r] = [Opening!Idle EXCEPT !.at = "find"]]
    BY <1>4 DEF Opening!AskFirst, Opening!Begin
  <2>3. [Opening!Idle EXCEPT !.at = "find"] \in Runs /\ [Opening!Idle EXCEPT !.at = "find"].at = "find"
    BY DEF Opening!Idle, Runs
  <2>4. run' \in [Requests -> Runs] /\ run'[r].at = "find"
        /\ \A q \in Requests : q # r => run'[q] = run[q]
    <3>1. run \in [Requests -> Runs]
      BY DEF OpeningInv, Opening!TypeOK, Runs
    <3> QED BY <2>2, <2>3, <3>1
  <2>5. \A q \in Requests : RunOK(q)'
    BY <1>2, <2>1, <2>2, <2>4 DEF RunOK, Opening!At
  <2> QED BY <1>1, <1>2, <2>2, <2>4, <2>5 DEF OpeningInv, Opening!TypeOK, Runs, Opening!AllThere, Opening!NeverComesBack, Opening!disk
<1> QED BY <1>3, <1>4 DEF Opening!Ask, Opening!AskOpened, Opening!AskNext, Opening!AskAgain

LEMMA RunStep ==
  ASSUME OpeningInv, NEW r \in Requests, Opening!Step(r)
  PROVE  OpeningInv'
<1> DEFINE it == run[r]
<1>1. /\ it \in Runs /\ RunOK(r) /\ run \in [Requests -> Runs]
  BY DEF OpeningInv, Opening!TypeOK, Runs
<1>2. CASE Opening!Find(r)
  <2>1. ~Opening!At(r, "none") /\ UNCHANGED <<Opening!disk, opened, opening, asked, made, dropped>>
    BY <1>2 DEF Opening!Find, Opening!At, Opening!Only
  <2>2. PICK next \in {"load", "create"} :
          /\ budgets > 0 => next = "load"
          /\ ~(budgets > 0) => next = "create"
          /\ run' = [run EXCEPT ![r] = [it EXCEPT !.at = next]]
    BY <1>2 DEF Opening!Find, Opening!To
  <2>3. PICK step : step = [it EXCEPT !.at = next]
    OBVIOUS
  <2>4. step \in Runs /\ step.at = next
    BY <1>1, <2>3 DEF Runs
  <2>5. (budgets > 0 => budgets' = 1) /\ (~(budgets > 0) => budgets' = 0)
    BY <2>1 DEF OpeningInv, Opening!TypeOK, Opening!disk
  <2>6. run' \in [Requests -> Runs] /\ \A q \in Requests : RunOK(q)'
    <3>1. CASE budgets > 0
      BY <2>1, <2>2, <2>3, <2>4, <2>5, <3>1, RunGoesOn DEF Opening!disk
    <3>2. CASE ~(budgets > 0)
      BY <2>1, <2>2, <2>3, <2>4, <2>5, <3>2, RunGoesOn DEF Opening!disk
    <3> QED BY <3>1, <3>2
  <2> QED BY <2>1, <2>6 DEF OpeningInv, Opening!TypeOK, Runs, Opening!AllThere, Opening!NeverComesBack, Opening!disk
<1>3. CASE Opening!Create(r)
  <2>1. Opening!At(r, "create") /\ ~Opening!At(r, "none") /\ UNCHANGED <<used, marked, opened, opening, asked, dropped>>
    BY <1>3 DEF Opening!Create, Opening!At, Opening!Only
  <2>2. budgets' = budgets + 1 /\ names' = Placeholder /\ made' = TRUE
    BY <1>3 DEF Opening!Create
  <2>3. PICK step : /\ step = [it EXCEPT !.at = "load", !.fresh = TRUE]
                    /\ run' = [run EXCEPT ![r] = step]
    BY <1>3 DEF Opening!Create
  <2>4. step \in Runs /\ step.at = "load"
    BY <1>1, <2>3 DEF Runs
  <2>5. /\ budgets = 0 /\ budgets' = 1 /\ names = {} /\ used = {} /\ ~marked /\ dropped = {}
        /\ ~opened
    BY <1>1, <2>1, <2>2 DEF OpeningInv, RunOK, Opening!TypeOK
  <2>6. run' \in [Requests -> Runs] /\ \A q \in Requests : RunOK(q)'
    BY <2>1, <2>3, <2>4, <2>5, RunGoesOn
  <2> QED BY <2>1, <2>2, <2>5, <2>6 DEF OpeningInv, Opening!TypeOK, Runs, Opening!AllThere, Opening!NeverComesBack, Opening!Names
<1>4. CASE Opening!Load(r)
  <2>1. Opening!At(r, "load") /\ ~Opening!At(r, "none") /\ UNCHANGED <<Opening!disk, opened, opening, asked, made, dropped>>
    BY <1>4 DEF Opening!Load, Opening!At, Opening!Only
  <2>2. budgets = 1
    BY <1>1, <2>1 DEF RunOK, Opening!At
  <2>3. PICK step : /\ step = IF marked THEN [it EXCEPT !.at = "rest"]
                              ELSE [it EXCEPT !.at = "seed", !.todo = Starter]
                    /\ run' = [run EXCEPT ![r] = step]
    BY <1>4 DEF Opening!Load, Opening!To
  <2>4. step \in Runs /\ IF marked THEN step.at = "rest" ELSE step.at = "seed" /\ step.todo = Starter
    BY <1>1, <2>3 DEF Runs
  <2>5. run' \in [Requests -> Runs] /\ \A q \in Requests : RunOK(q)'
    BY <2>1, <2>2, <2>3, <2>4, RunGoesOn DEF Opening!disk
  <2> QED BY <2>1, <2>5 DEF OpeningInv, Opening!TypeOK, Runs, Opening!AllThere, Opening!NeverComesBack, Opening!disk
<1>5. CASE Opening!Seed(r)
  <2>1. /\ Opening!At(r, "seed") /\ ~Opening!At(r, "none")
        /\ UNCHANGED <<budgets, used, marked, opened, opening, asked, made, dropped>>
    BY <1>5 DEF Opening!Seed, Opening!At, Opening!Only
  <2>2. budgets = 1 /\ ~marked /\ dropped = {} /\ ~opened /\ Starter \ it.todo \subseteq names
    BY <1>1, <2>1 DEF RunOK, Opening!At, OpeningInv
  <2>3. PICK name \in it.todo : /\ names' = names \cup {name}
                                /\ run' = [run EXCEPT ![r].todo = @ \ {name}]
    BY <1>5 DEF Opening!Seed
  <2>4. PICK step : /\ step = [it EXCEPT !.todo = @ \ {name}]
                    /\ run' = [run EXCEPT ![r] = step]
    BY <2>3
  <2>5. step \in Runs /\ step.at = "seed" /\ step.todo = it.todo \ {name} /\ name \in Starter
    BY <1>1, <2>1, <2>4 DEF Runs, Opening!At
  <2>6. run' \in [Requests -> Runs] /\ \A q \in Requests : RunOK(q)'
    BY <2>1, <2>2, <2>3, <2>4, <2>5, RunGoesOn
  <2> QED BY <2>1, <2>2, <2>3, <2>5, <2>6 DEF OpeningInv, Opening!TypeOK, Runs, Opening!AllThere, Opening!NeverComesBack, Opening!Names
<1>6. CASE Opening!Clear(r)
  <2>1. /\ Opening!At(r, "seed") /\ ~Opening!At(r, "none") /\ it.todo = {}
        /\ UNCHANGED <<run, budgets, marked, opened, opening, asked, made, dropped>>
    BY <1>6 DEF Opening!Clear, Opening!At, Opening!Only
  <2>2. budgets = 1 /\ ~marked /\ dropped = {} /\ ~opened /\ Starter \subseteq names
    BY <1>1, <2>1 DEF RunOK, Opening!At, OpeningInv
  <2>3. PICK name \in names \cap Placeholder : names' = names \ {name} /\ used' = used \ {name}
    BY <1>6 DEF Opening!Clear
  <2>4. Starter \subseteq names'
    BY <2>2, <2>3, OpeningNames
  <2>5. \A q \in Requests : RunOK(q)'
    BY <2>1, <2>4 DEF OpeningInv, RunOK, Opening!At
  <2> QED BY <2>1, <2>2, <2>3, <2>5 DEF OpeningInv, Opening!TypeOK, Opening!AllThere, Opening!NeverComesBack
<1>7. CASE Opening!Mark(r)
  <2>1. /\ Opening!At(r, "seed") /\ ~Opening!At(r, "none") /\ it.todo = {} /\ marked' = TRUE
        /\ UNCHANGED <<budgets, names, used, opened, opening, asked, made, dropped>>
    BY <1>7 DEF Opening!Mark, Opening!At, Opening!Only
  <2>2. budgets = 1 /\ dropped = {} /\ ~opened /\ Starter \subseteq names
    BY <1>1, <2>1 DEF RunOK, Opening!At, OpeningInv
  <2>3. PICK step : step = [it EXCEPT !.at = "rest"] /\ run' = [run EXCEPT ![r] = step]
    BY <1>7 DEF Opening!Mark, Opening!To
  <2>4. step \in Runs /\ step.at = "rest"
    BY <1>1, <2>3 DEF Runs
  <2>5. run' \in [Requests -> Runs] /\ \A q \in Requests : RunOK(q)'
    BY <2>1, <2>2, <2>3, <2>4, RunGoesOn
  <2> QED BY <2>1, <2>2, <2>5 DEF OpeningInv, Opening!TypeOK, Runs, Opening!AllThere, Opening!NeverComesBack
<1>8. CASE Opening!Finish(r)
  <2>1. /\ Opening!At(r, "rest") /\ ~Opening!At(r, "none") /\ opened' = TRUE /\ opening' = None
        /\ run' = [run EXCEPT ![r] = Opening!Idle] /\ UNCHANGED <<Opening!disk, made, dropped>>
        /\ asked' = [q \in Requests |-> IF asked[q] = "waiting" THEN "answered" ELSE asked[q]]
    BY <1>8 DEF Opening!Finish, Opening!Settle, Opening!At
  <2>2. budgets = 1 /\ marked
    BY <1>1, <2>1 DEF RunOK, Opening!At
  <2>3. run' \in [Requests -> Runs] /\ \A q \in Requests : RunOK(q)'
    BY <2>1, Settles
  <2>4. asked' \in [Requests -> {"idle", "waiting", "answered", "failed"}]
    BY <2>1 DEF OpeningInv, Opening!TypeOK
  <2> QED BY <2>1, <2>2, <2>3, <2>4 DEF OpeningInv, Opening!TypeOK, Runs, Opening!AllThere, Opening!NeverComesBack, Opening!disk
<1> QED BY <1>2, <1>3, <1>4, <1>5, <1>6, <1>7, <1>8 DEF Opening!Step

LEMMA OpeningStep ==
  ASSUME OpeningInv, [Opening!Next]_Opening!vars
  PROVE  OpeningInv'
<1>1. ASSUME NEW r \in Requests, Opening!Fail(r)
      PROVE  OpeningInv'
  <2>1. /\ ~Opening!At(r, "none") /\ opened' = opened /\ opening' = None
        /\ run' = [run EXCEPT ![r] = Opening!Idle] /\ UNCHANGED <<Opening!disk, made, dropped>>
        /\ asked' = [q \in Requests |-> IF asked[q] = "waiting" THEN "failed" ELSE asked[q]]
    BY <1>1 DEF Opening!Fail, Opening!Settle
  <2>2. run' \in [Requests -> Runs] /\ \A q \in Requests : RunOK(q)'
    BY <2>1, Settles
  <2>3. asked' \in [Requests -> {"idle", "waiting", "answered", "failed"}]
    BY <2>1 DEF OpeningInv, Opening!TypeOK
  <2> QED BY <2>1, <2>2, <2>3 DEF OpeningInv, Opening!TypeOK, Runs, Opening!AllThere, Opening!NeverComesBack, Opening!disk
<1>2. ASSUME NEW r \in Requests, Opening!Timeout(r)
      PROVE  OpeningInv'
  <2>1. /\ asked' \in [Requests -> {"idle", "waiting", "answered", "failed"}]
        /\ UNCHANGED <<Opening!disk, opened, opening, run, made, dropped>>
    BY <1>2 DEF Opening!Timeout, OpeningInv, Opening!TypeOK
  <2>2. \A q \in Requests : RunOK(q)'
    BY <2>1, RunsStay DEF Opening!disk
  <2> QED BY <2>1, <2>2 DEF OpeningInv, Opening!TypeOK, Opening!AllThere, Opening!NeverComesBack, Opening!disk
<1>3. ASSUME NEW name \in Opening!Names, Opening!File(name) \/ Opening!Remove(name) \/ Opening!Add(name)
      PROVE  OpeningInv'
  <2>1. /\ opened /\ UNCHANGED <<budgets, marked, Opening!process, made>>
        /\ UNCHANGED dropped \/ dropped' = dropped \cup {name} \/ dropped' = dropped \ {name}
    BY <1>3 DEF Opening!File, Opening!Remove, Opening!Add
  <2>2. opening = None /\ marked /\ budgets = 1
    BY <2>1 DEF OpeningInv
  <2>3. \A q \in Requests : Opening!At(q, "none")
    BY <2>2, OpeningNames DEF OpeningInv, RunOK
  <2>4. \A q \in Requests : RunOK(q)'
    BY <2>1, <2>3 DEF RunOK, Opening!At, Opening!process
  <2>5. names' \subseteq Opening!Names /\ used' \subseteq names' /\ dropped' \subseteq Opening!Names
        /\ Opening!AllThere' /\ Opening!NeverComesBack'
    <3>1. CASE Opening!File(name)
      BY <3>1 DEF Opening!File, OpeningInv, Opening!TypeOK, Opening!AllThere, Opening!NeverComesBack
    <3>2. CASE Opening!Remove(name)
      BY <3>2 DEF Opening!Remove, OpeningInv, Opening!TypeOK, Opening!AllThere, Opening!NeverComesBack
    <3>3. CASE Opening!Add(name)
      BY <3>3 DEF Opening!Add, OpeningInv, Opening!TypeOK, Opening!AllThere, Opening!NeverComesBack
    <3> QED BY <1>3, <3>1, <3>2, <3>3
  <2> QED BY <2>1, <2>2, <2>4, <2>5 DEF OpeningInv, Opening!TypeOK, Opening!process
<1>4. CASE Opening!Die
  <2>1. /\ opened' = FALSE /\ opening' = None /\ run' = [r \in Requests |-> Opening!Idle]
        /\ asked' = [r \in Requests |-> "idle"] /\ UNCHANGED <<Opening!disk, made, dropped>>
    BY <1>4 DEF Opening!Die
  <2>2. run' \in [Requests -> Runs] /\ \A q \in Requests : RunOK(q)'
    BY <2>1, NoRun
  <2> QED BY <2>1, <2>2 DEF OpeningInv, Opening!TypeOK, Runs, Opening!AllThere, Opening!NeverComesBack, Opening!disk
<1>5. CASE UNCHANGED Opening!vars
  <2>1. \A q \in Requests : RunOK(q)'
    BY <1>5, RunsStay DEF Opening!vars, Opening!disk, Opening!process
  <2> QED BY <1>5, <2>1 DEF Opening!vars, Opening!disk, Opening!process, OpeningInv, Opening!TypeOK, Opening!AllThere, Opening!NeverComesBack
<1> QED BY <1>1, <1>2, <1>3, <1>4, <1>5, AskStep, RunStep DEF Opening!Next

-----------------------------------------------------------------------------
LEMMA OpeningInvariant == Opening!Spec => []OpeningInv
<1>1. OpeningInv /\ [Opening!Next]_Opening!vars => OpeningInv'
  BY OpeningStep
<1> QED BY OpeningInit, <1>1, PTL DEF Opening!Spec

(* The promise, the runs and the budget are of their types.                  *)
THEOREM OpeningTypes == Opening!Spec => []Opening!TypeOK
<1>1. OpeningInv => Opening!TypeOK
  BY DEF OpeningInv
<1> QED BY OpeningInvariant, <1>1, PTL

(* However many requests come first, one run opens the budget and no second  *)
(* budget is made, whatever fails or dies on the way.                        *)
THEOREM OpeningOneBudget == Opening!Spec => []OneBudget
<1>1. OpeningInv => OneBudget
  <2> SUFFICES ASSUME OpeningInv PROVE OneBudget
    OBVIOUS
  <2>1. budgets <= 1
    BY DEF OpeningInv, Opening!TypeOK
  <2>2. \A q, r \in Requests : ~Opening!At(q, "none") /\ ~Opening!At(r, "none") => q = r
    BY SoleRun
  <2> QED BY <2>1, <2>2 DEF OneBudget, Opening!OneBudget
<1> QED BY OpeningInvariant, <1>1, PTL

(* A category its owner removed stays removed, although provisioning goes on *)
(* where an earlier launch stopped.                                          *)
THEOREM OpeningNeverComesBack == Opening!Spec => []NeverComesBack
<1>1. OpeningInv => NeverComesBack
  BY DEF OpeningInv, NeverComesBack
<1> QED BY OpeningInvariant, <1>1, PTL

(* The marker is never ahead of the categories it stands for.                *)
THEOREM OpeningAllThere == Opening!Spec => []Opening!AllThere
<1>1. OpeningInv => Opening!AllThere
  BY DEF OpeningInv
<1> QED BY OpeningInvariant, <1>1, PTL

-----------------------------------------------------------------------------
(* For any requests and either host: the window hears of a request once, and *)
(* who waits is who is pending and has a timer.                              *)
What == {"answer", "engine-timeout", "engine-stopped"}

(* A request that waits was told nothing yet, any other at most one thing.   *)
NothingYet == \A id \in waits : told[id] = <<>>
OnceTold == told \in [Ids -> {<<>>} \cup {<<w>> : w \in What}]

RelayInv == OneWait /\ waits \subseteq Ids /\ NothingYet /\ OnceTold

(* Telling the ones that wait tells each once.                               *)
LEMMA TellOnce ==
  ASSUME RelayInv, NEW ids \in SUBSET waits, NEW w \in What, Tell(ids, w)
  PROVE  /\ waits' = waits \ ids
         /\ \A id \in waits' : told'[id] = <<>>
         /\ told' \in [Ids -> {<<>>} \cup {<<v>> : v \in What}]
  <1> USE DEF What
  <1>1. waits' = waits \ ids
    BY DEF Tell
  <1>2. \A id \in Ids : told'[id] = IF id \in ids THEN <<w>> ELSE told[id]
    <2>1. \A id \in ids : Append(told[id], w) = <<w>>
      <3>1. \A id \in ids : told[id] = <<>>
        BY DEF RelayInv, NothingYet
      <3>2. Append(<<>>, w) = <<w>>
        OBVIOUS
      <3>3. QED
        BY <3>1, <3>2, Zenon
    <2>2. QED
      BY <2>1 DEF Tell
  <1>3. \A id \in waits' : told'[id] = <<>>
    BY <1>1, <1>2 DEF RelayInv, NothingYet
  <1>4. \A id \in Ids : told'[id] \in {<<>>} \cup {<<v>> : v \in What}
    BY <1>2 DEF RelayInv, OnceTold
  <1>5. told' = [id \in Ids |-> told'[id]]
    BY DEF Tell
  <1>6. QED
    BY <1>1, <1>3, <1>4, <1>5

LEMMA RelayInit == Init => RelayInv
  BY DEF Init, RelayInv, OneWait, NothingYet, OnceTold

LEMMA RelayNext == RelayInv /\ [Next]_vars => RelayInv'
  <1> USE DEF What
  <1> SUFFICES ASSUME RelayInv, [Next]_vars PROVE RelayInv'
    OBVIOUS
  <1>1. ASSUME NEW id \in Ids, Ask(id) PROVE RelayInv'
    BY <1>1 DEF Ask, RelayInv, OneWait, NothingYet, OnceTold
  <1>2. ASSUME NEW id \in Ids, Answer(id) PROVE RelayInv'
    BY <1>2 DEF Answer, RelayInv, OneWait, NothingYet, OnceTold
  <1>3. ASSUME NEW id \in Ids, Deliver(id) PROVE RelayInv'
    <2>1. CASE id \in pending
      <3>1. {id} \in SUBSET waits /\ "answer" \in What /\ Tell({id}, "answer")
        BY <1>3, <2>1 DEF Deliver, RelayInv, OneWait
      <3>2. QED
        BY <3>1, <1>3, <2>1, TellOnce DEF Deliver, RelayInv, OneWait, NothingYet, OnceTold
    <2>2. CASE id \notin pending
      BY <1>3, <2>2 DEF Deliver, RelayInv, OneWait, NothingYet, OnceTold
    <2>3. QED
      BY <2>1, <2>2
  <1>4. ASSUME NEW id \in Ids, Timeout(id) PROVE RelayInv'
    <2>1. {id} \in SUBSET waits /\ "engine-timeout" \in What /\ Tell({id}, "engine-timeout")
      BY <1>4 DEF Timeout, RelayInv, OneWait
    <2>2. QED
      BY <2>1, <1>4, TellOnce DEF Timeout, RelayInv, OneWait, NothingYet, OnceTold
  <1>5. ASSUME Crash PROVE RelayInv'
    BY <1>5 DEF Crash, RelayInv, OneWait, NothingYet, OnceTold
  <1>6. ASSUME NEW new, Died(new) PROVE RelayInv'
    <2>1. pending \in SUBSET waits /\ "engine-stopped" \in What /\ Tell(pending, "engine-stopped")
      BY <1>6 DEF Died, RelayInv, OneWait
    <2>2. QED
      BY <2>1, <1>6, TellOnce DEF Died, RelayInv, OneWait, NothingYet, OnceTold
  <1>7. ASSUME Notice PROVE RelayInv'
    BY <1>6, <1>7 DEF Notice
  <1>8. ASSUME SendFailed PROVE RelayInv'
    BY <1>6, <1>8 DEF SendFailed
  <1>9. CASE UNCHANGED vars
    BY <1>9 DEF vars, RelayInv, OneWait, NothingYet, OnceTold
  <1>10. QED
    BY <1>1, <1>2, <1>3, <1>4, <1>5, <1>7, <1>8, <1>9 DEF Next

(* Whatever comes first, and whatever comes late, the window is told once of *)
(* a request (deliver, died and the timer of ask).                           *)
THEOREM ToldOnceHolds == Spec => []ToldOnce
  <1>1. RelayInv => ToldOnce
    <2>1. ASSUME RelayInv, NEW id \in Ids PROVE told[id] = <<>> \/ \E w : told[id] = <<w>>
      BY <2>1 DEF RelayInv, OnceTold
    <2>2. ASSUME RelayInv, NEW id \in Ids PROVE Len(told[id]) <= 1
      <3>1. CASE told[id] = <<>>
        BY <3>1
      <3>2. ASSUME NEW w, told[id] = <<w>> PROVE Len(told[id]) <= 1
        BY <3>2
      <3> QED BY <2>1, <2>2, <3>1, <3>2
    <2> QED BY <2>2 DEF ToldOnce
  <1>2. QED
    BY <1>1, RelayInit, RelayNext, PTL DEF Spec

(* Nothing waits without being pending with a timer, and nothing else is.    *)
THEOREM OneWaitHolds == Spec => []OneWait
  <1>1. RelayInv => OneWait
    BY DEF RelayInv
  <1>2. QED
    BY <1>1, RelayInit, RelayNext, PTL DEF Spec

-----------------------------------------------------------------------------
(* The store's file.  While something read is at hand, the file it came from *)
(* may be written over: it was moved aside, or could not be, is of this      *)
(* version, or there is a whole copy of it.                                  *)
StoreInv ==
  /\ Store!TypeOK
  /\ stamp \in 0..MaxStamp
  /\ \A c \in copies : c.name[2] <= stamp
  /\ Store!NeverTorn /\ damages \in Nat /\ restores \in Nat
  /\ at = "copying" =>
       /\ Store!Old
       /\ target \in (1..Current) \X (0..MaxStamp) /\ target[2] <= stamp
       /\ \A c \in Store!Copied(target) : ~c.data.whole
  /\ at \in {"read", "writing", "written"} =>
       /\ held.whole /\ held.version = Current
       /\ Store!Whole(file) => file.version <= Current
       /\ Store!Damaged(file) => stuck
       /\ Store!Old => \E c \in Store!WholeCopies : c.data = file
  /\ at = "written" => temporary = held

LEMMA StoreTypes ==
  ASSUME Store!Assumed
  PROVE  /\ \A version \in 1..Current + 1, body \in Bodies :
              /\ Store!Store(version, body) \in Store!Stores
              /\ Store!Store(version, body).version = version
              /\ Store!Store(version, body).whole = TRUE
         /\ \A data \in Store!Stores :
              /\ data # Missing
              /\ Store!Part(data) \in Store!Stores
              /\ Store!Part(data).whole = FALSE
              /\ [data EXCEPT !.version = Current] \in Store!Stores
              /\ [data EXCEPT !.version = Current].version = Current
              /\ [data EXCEPT !.version = Current].whole = data.whole
              /\ \A body \in Bodies :
                   /\ [data EXCEPT !.body = body] \in Store!Stores
                   /\ [data EXCEPT !.body = body].version = data.version
                   /\ [data EXCEPT !.body = body].whole = data.whole
<1> USE DEF Store!Assumed, Store!VersionNat, Store!NotAStore
<1>1. Current \in Nat \ {0} /\ Missing \notin Store!Stores
  OBVIOUS
<1>2. \A version \in 1..Current + 1, body \in Bodies :
              /\ Store!Store(version, body) \in Store!Stores
              /\ Store!Store(version, body).version = version
              /\ Store!Store(version, body).whole = TRUE
  BY DEF Store!Store, Store!Stores
<1>3. ASSUME NEW data \in Store!Stores
      PROVE  data # Missing /\ Store!Part(data) \in Store!Stores
  BY <1>1, <1>3 DEF Store!Stores, Store!Part
<1>4. ASSUME NEW data \in Store!Stores PROVE Store!Part(data).whole = FALSE
  BY <1>1, <1>4 DEF Store!Stores, Store!Part
<1>5. ASSUME NEW data \in Store!Stores
      PROVE  [data EXCEPT !.version = Current] \in Store!Stores
  BY <1>1, <1>5 DEF Store!Stores
<1>6. ASSUME NEW data \in Store!Stores
      PROVE  [data EXCEPT !.version = Current].version = Current
  BY <1>1, <1>6 DEF Store!Stores
<1>7. ASSUME NEW data \in Store!Stores
      PROVE  [data EXCEPT !.version = Current].whole = data.whole
  BY <1>1, <1>7 DEF Store!Stores
<1>8. ASSUME NEW data \in Store!Stores, NEW body \in Bodies
      PROVE  /\ [data EXCEPT !.body = body] \in Store!Stores
             /\ [data EXCEPT !.body = body].version = data.version
             /\ [data EXCEPT !.body = body].whole = data.whole
  BY <1>1, <1>8 DEF Store!Stores
<1> QED BY <1>2, <1>3, <1>4, <1>5, <1>6, <1>7, <1>8

LEMMA StoreInit == ASSUME Store!Assumed PROVE Store!Init => StoreInv
  BY StoreTypes DEF Store!Init, StoreInv, Store!TypeOK, Store!NeverTorn, Store!Damaged,
     Store!Assumed, Store!VersionNat, Store!FreshBody, Store!NotAStore

LEMMA StoreNext == ASSUME Store!Assumed PROVE StoreInv /\ [Store!Next]_Store!vars => StoreInv'
<1> SUFFICES ASSUME StoreInv, [Store!Next]_Store!vars PROVE StoreInv'
  OBVIOUS
<1>0. /\ Current \in Nat \ {0} /\ MaxStamp \in Nat /\ Fresh \in Bodies
      /\ Current \in 1..Current + 1 /\ 1..Current \subseteq 1..Current + 1
  BY DEF Store!Assumed, Store!VersionNat, Store!FreshBody
<1> USE <1>0 DEF StoreInv, Store!TypeOK, Store!NeverTorn, Store!Damaged, Store!Whole, Store!Old,
      Store!Copied, Store!WholeCopies
<1>1. ASSUME Store!ReadMissing PROVE StoreInv'
  BY <1>1, StoreTypes DEF Store!ReadMissing, Store!Empty
<1>2. ASSUME Store!ReadDamaged PROVE StoreInv'
  <2>1. file \in Store!Stores /\ held' = Store!Store(Current, Fresh) /\ at' = "read"
    BY <1>2 DEF Store!ReadDamaged, Store!Empty
  <2>2. held' \in Store!Stores /\ held' # Missing /\ held'.whole /\ held'.version = Current
    BY <2>1, StoreTypes
  <2>3. /\ UNCHANGED <<temporary, copies, target, stamp, restores, damages>>
        /\ aside' \subseteq Store!Stores
        /\ file' = Missing \/ (file' = file /\ stuck')
    BY <1>2, <2>1 DEF Store!ReadDamaged
  <2>4. ~file.whole
    BY <1>2 DEF Store!ReadDamaged
  <2> QED BY <2>1, <2>2, <2>3, <2>4
<1>3. ASSUME Store!ReadCurrent PROVE StoreInv'
  BY <1>3, StoreTypes DEF Store!ReadCurrent
<1>4. ASSUME Store!ReadKept PROVE StoreInv'
  <2>1. held' = [file EXCEPT !.version = Current] /\ file \in Store!Stores /\ file.whole
    BY <1>4 DEF Store!ReadKept
  <2>2. held' \in Store!Stores /\ held' # Missing /\ held'.whole /\ held'.version = Current
    BY <2>1, StoreTypes
  <2>3. /\ UNCHANGED <<file, temporary, copies, aside, target, stamp, restores, damages, stuck>>
        /\ at' = "read" /\ Store!Old
        /\ \E c \in Store!WholeCopies : c.data = file
    BY <1>4 DEF Store!ReadKept, Store!Kept
  <2>4. file.version \in 1..Current + 1
    BY <2>1 DEF Store!Stores
  <2> QED BY <2>1, <2>2, <2>3, <2>4
<1>5. ASSUME Store!Copy PROVE StoreInv'
  <2>1. file \in Store!Stores /\ file.version \in 1..Current /\ Store!Old
    BY <1>5 DEF Store!Copy, Store!Stores
  <2>2. Store!Part(file) \in Store!Stores /\ Store!Part(file).whole = FALSE
    BY <2>1, StoreTypes
  <2>3. PICK n \in 0..MaxStamp :
          /\ target' = <<file.version, n>> /\ n <= stamp' /\ stamp <= stamp'
          /\ stamp' \in 0..MaxStamp /\ Store!Copied(target') = {}
    <3>1. CASE Store!Copied(Store!Plain(file.version)) = {} /\ stamp' = stamp
               /\ target' = Store!Plain(file.version)
      BY <3>1 DEF Store!Plain
    <3>2. CASE stamp < MaxStamp /\ stamp' = stamp + 1 /\ target' = Store!Stamped(file.version)
      <4>1. target' = <<file.version, stamp + 1>>
        BY <3>2 DEF Store!Stamped
      <4>2. \A c \in copies : c.name # <<file.version, stamp + 1>>
        <5> SUFFICES ASSUME NEW c \in copies, c.name = <<file.version, stamp + 1>> PROVE FALSE
          OBVIOUS
        <5> QED OBVIOUS
      <4> QED BY <3>2, <4>1, <4>2
    <3> QED BY <1>5, <3>1, <3>2 DEF Store!Copy
  <2>4. /\ copies' = copies \cup {[name |-> target', data |-> Store!Part(file)]}
        /\ at' = "copying"
        /\ UNCHANGED <<file, temporary, aside, held, restores, damages, stuck>>
        /\ at = "idle"
    BY <1>5 DEF Store!Copy
  <2>5. target' \in (1..Current) \X (0..MaxStamp) /\ target'[2] = n
    BY <2>1, <2>3
  <2>6. copies' \subseteq [name : (1..Current) \X (0..MaxStamp), data : Store!Stores]
    BY <2>2, <2>4, <2>5
  <2>7. \A c \in copies' : c.name[2] <= stamp'
    BY <2>3, <2>4, <2>5
  <2>8. \A c \in copies' : c.name = target' => ~c.data.whole
    BY <2>2, <2>3, <2>4
  <2> QED BY <2>1, <2>3, <2>4, <2>5, <2>6, <2>7, <2>8
<1>6. ASSUME Store!CopyDone PROVE StoreInv'
  <2>1. held' = [file EXCEPT !.version = Current] /\ file \in Store!Stores /\ file.whole
    BY <1>6 DEF Store!CopyDone
  <2>2. held' \in Store!Stores /\ held' # Missing /\ held'.whole /\ held'.version = Current
    BY <2>1, StoreTypes
  <2>3. /\ UNCHANGED <<file, temporary, aside, stamp, restores, damages, stuck>>
        /\ at' = "read" /\ Store!Old
        /\ copies' = (copies \ Store!Copied(target)) \cup {[name |-> target, data |-> file]}
    BY <1>6 DEF Store!CopyDone
  <2>4. copies' \subseteq [name : (1..Current) \X (0..MaxStamp), data : Store!Stores]
    BY <1>6, <2>1, <2>3 DEF Store!CopyDone
  <2>5. \A c \in copies' : c.name[2] <= stamp
    BY <1>6, <2>3 DEF Store!CopyDone
  <2>6. \E c \in Store!WholeCopies' : c.data = file
    <3>1. [name |-> target, data |-> file] \in copies'
      BY <2>3
    <3> QED BY <2>1, <3>1
  <2>7. file.version <= Current
    BY <2>1, <2>3 DEF Store!Stores
  <2> QED BY <2>1, <2>2, <2>3, <2>4, <2>5, <2>6, <2>7
<1>7. ASSUME Store!CopyFails PROVE StoreInv'
  BY <1>7, StoreTypes DEF Store!CopyFails
<1>8. ASSUME Store!Drop PROVE StoreInv'
  BY <1>8, StoreTypes DEF Store!Drop
<1>9. ASSUME Store!Write PROVE StoreInv'
  <2>1. PICK body \in Bodies : held' = [held EXCEPT !.body = body]
    BY <1>9 DEF Store!Write
  <2>2. held \in Store!Stores /\ held.whole /\ held.version = Current /\ at = "read"
    BY <1>9 DEF Store!Write
  <2>3. held' \in Store!Stores /\ held' # Missing /\ held'.whole /\ held'.version = Current
    <3>1. ASSUME NEW data \in Store!Stores, NEW h, h = [data EXCEPT !.body = body]
          PROVE  h \in Store!Stores /\ h.version = data.version /\ h.whole = data.whole
      BY <3>1, StoreTypes
    <3>2. held' \in Store!Stores /\ held'.version = held.version /\ held'.whole = held.whole
      BY <2>1, <2>2, <3>1
    <3> QED BY <2>2, <3>2, StoreTypes
  <2>4. temporary' \in Store!Stores
    BY <1>9, <2>3, StoreTypes DEF Store!Write
  <2>5. /\ at' = "writing"
        /\ UNCHANGED <<file, copies, aside, target, stamp, restores, damages, stuck>>
    BY <1>9 DEF Store!Write
  <2> QED BY <2>2, <2>3, <2>4, <2>5
<1>10. ASSUME Store!WriteDone PROVE StoreInv'
  BY <1>10, StoreTypes DEF Store!WriteDone
<1>11. ASSUME Store!Rename PROVE StoreInv'
  BY <1>11, StoreTypes DEF Store!Rename
<1>12. ASSUME Store!Die PROVE StoreInv'
  BY <1>12, StoreTypes DEF Store!Die
<1>13. ASSUME Store!Restore PROVE StoreInv'
  <2>1. file' \in Store!Stores /\ file'.whole /\ file' # Missing
    <3>1. PICK version \in 1..Current, body \in Bodies : file' = Store!Store(version, body)
      BY <1>13 DEF Store!Restore
    <3> QED BY <3>1, StoreTypes
  <2>2. /\ UNCHANGED <<temporary, copies, aside, at, held, target, stamp, damages, stuck>>
        /\ at = "idle" /\ restores' = restores + 1
    BY <1>13 DEF Store!Restore
  <2> QED BY <2>1, <2>2
<1>14. ASSUME Store!Damage PROVE StoreInv'
  <2>1. file' \in Store!Stores /\ damages' = damages + 1
    BY <1>14, StoreTypes DEF Store!Damage
  <2>2. UNCHANGED <<temporary, copies, aside, at, held, target, stamp, restores, stuck>> /\ at = "idle"
    BY <1>14 DEF Store!Damage
  <2> QED BY <2>1, <2>2
<1>15. CASE UNCHANGED Store!vars
  BY <1>15 DEF Store!vars
<1> QED BY <1>1, <1>2, <1>3, <1>4, <1>5, <1>6, <1>7, <1>8, <1>9, <1>10, <1>11, <1>12,
           <1>13, <1>14, <1>15 DEF Store!Next

(* What the store's properties say of a step.                                *)
LEMMA StoreStep ==
  ASSUME Store!Assumed, StoreInv, [Store!Next]_Store!vars
  PROVE  /\ Store!Rename /\ Store!Old => \E c \in Store!WholeCopies : c.data = file
         /\ Store!WholeCopies \subseteq copies'
         /\ Store!Damaged(file) /\ file' # file /\ restores' = restores =>
              file \in aside' \/ stuck
         /\ Store!Whole(file) /\ file.version > Current =>
              file' = file \/ restores' # restores \/ damages' # damages
<1>1. Store!Rename /\ Store!Old => \E c \in Store!WholeCopies : c.data = file
  BY DEF StoreInv, Store!Rename
<1>2. Store!WholeCopies \subseteq copies'
  <2>1. CASE Store!CopyDone
    BY <2>1 DEF StoreInv, Store!CopyDone, Store!WholeCopies, Store!Copied
  <2>2. CASE Store!Copy
    BY <2>2 DEF Store!Copy, Store!WholeCopies
  <2>3. CASE copies' = copies
    BY <2>3 DEF Store!WholeCopies
  <2> QED BY <2>1, <2>2, <2>3 DEF Store!Next, Store!vars, Store!ReadMissing, Store!ReadDamaged,
       Store!ReadCurrent, Store!ReadKept, Store!CopyFails, Store!Drop, Store!Write,
       Store!WriteDone, Store!Rename, Store!Die, Store!Restore, Store!Damage
<1>3. file' = file \/ Store!ReadDamaged \/ Store!Rename \/ Store!Restore \/ Store!Damage
  BY DEF Store!Next, Store!vars, Store!ReadMissing, Store!ReadCurrent, Store!ReadKept, Store!Copy,
     Store!CopyDone, Store!CopyFails, Store!Drop, Store!Write, Store!WriteDone, Store!Die
<1>4. CASE Store!ReadDamaged
  BY <1>1, <1>2, <1>4 DEF Store!ReadDamaged, Store!Damaged, Store!Whole
<1>5. CASE Store!Rename
  <2>1. /\ file = Missing \/ (file.version \in Int /\ Current \in Int)
        /\ Store!Whole(file) => file.version <= Current
    BY <1>5 DEF Store!Rename, StoreInv, Store!TypeOK, Store!Stores, Store!Assumed, Store!VersionNat
  <2> QED BY <1>1, <1>2, <1>5, <2>1 DEF Store!Rename, StoreInv, Store!Whole, Store!Damaged
<1>6. CASE Store!Restore \/ Store!Damage
  <2>1. restores' = restores + 1 \/ (damages' = damages + 1 /\ Store!Whole(file))
    BY <1>6 DEF Store!Restore, Store!Damage
  <2>2. restores \in Nat /\ damages \in Nat
    BY DEF StoreInv
  <2> QED BY <1>1, <1>2, <2>1, <2>2 DEF Store!Whole, Store!Damaged
<1> QED BY <1>1, <1>2, <1>3, <1>4, <1>5, <1>6

(* A store of an older shape is written over only after a whole copy of it,  *)
(* copies stay, and no damaged or newer store is written over, wherever a    *)
(* read or a write of it stops (ayqReadStore, ayqKeepBeforeMigrating).       *)
THEOREM StoreKeptHolds == Store!Spec => StoreKept
<1>0. Store!Assumed
  BY HostAssumed
<1>1. ASSUME StoreInv, [Store!Next]_Store!vars
      PROVE  /\ [Store!Rename /\ Store!Old => \E c \in Store!WholeCopies : c.data = file]_Store!vars
             /\ [Store!WholeCopies \subseteq copies']_Store!vars
             /\ [Store!Damaged(file) /\ file' # file /\ restores' = restores =>
                  file \in aside' \/ stuck]_Store!vars
             /\ [Store!Whole(file) /\ file.version > Current =>
                  file' = file \/ restores' # restores \/ damages' # damages]_Store!vars
  BY <1>0, <1>1, StoreStep
<1> QED BY <1>0, <1>1, StoreInit, StoreNext, PTL
     DEF Store!Spec, StoreKept, Store!StoreKept, Store!CopiedFirst, Store!CopiesStay, Store!DamagedKept,
         Store!NewerStays

(* AYQ's own writing leaves no file that does not parse, wherever it dies    *)
(* (ayqWriteStore writes beside the file and renames).                       *)
THEOREM NeverTornHolds == Store!Spec => []Store!NeverTorn
<1>0. Store!Assumed
  BY HostAssumed
<1>1. StoreInv => Store!NeverTorn
  BY DEF StoreInv
<1> QED BY <1>0, <1>1, StoreInit, StoreNext, PTL DEF Store!Spec

-----------------------------------------------------------------------------
(* Backups.  Among finitely many dated things one has the latest date: of    *)
(* the sets of what is later than one of them, a smallest is empty.          *)
LEMMA Latest ==
  ASSUME NEW S, IsFiniteSet(S), S # {}, \A b \in S : b.at \in Nat
  PROVE  \E b \in S : \A c \in S : c.at <= b.at
<1> DEFINE After(b) == {c \in S : c.at > b.at}
           T == {After(b) : b \in S}
<1>1. T \subseteq FiniteSubsetsOf(S) /\ T # {}
  <2>1. FiniteSubsetsOf(S) = SUBSET S
    BY FS_FiniteSubsetsOfFinite
  <2>2. PICK b : b \in S
    OBVIOUS
  <2>3. After(b) \in T
    BY <2>2
  <2>4. T \subseteq SUBSET S
    OBVIOUS
  <2> QED BY <2>1, <2>3, <2>4
<1>2. IsWellFoundedOn(StrictSubsetOrdering(S), FiniteSubsetsOf(S))
  BY FS_StrictSubsetOrderingWellFounded
<1>3. PICK U \in T : \A V \in T : <<V, U>> \notin StrictSubsetOrdering(S)
  BY <1>1, <1>2, WFMin
<1>4. PICK b \in S : U = After(b)
  BY <1>3
<1>5. ASSUME NEW c \in S, c.at > b.at PROVE FALSE
  <2>1. After(c) \in T /\ After(c) \subseteq U /\ c \in U /\ c \notin After(c)
    BY <1>4, <1>5
  <2>2. After(c) \in SUBSET S /\ U \in SUBSET S
    BY <1>4
  <2> QED BY <1>3, <2>1, <2>2 DEF StrictSubsetOrdering
<1> QED BY <1>4, <1>5

(* If k of some things are later than b, then k of those that are later than *)
(* b have fewer than k later ones themselves.                                *)
LEMMA EnoughStay ==
  ASSUME NEW S, IsFiniteSet(S), \A b \in S : b.at \in Nat, NEW b \in S, NEW k \in Nat,
         Cardinality({c \in S : c.at > b.at}) >= k
  PROVE  Cardinality({c \in S : c.at > b.at /\ Cardinality({d \in S : d.at > c.at}) < k}) >= k
<1> DEFINE After(c) == {d \in S : d.at > c.at}
           Stay == {c \in S : c.at > b.at /\ Cardinality(After(c)) < k}
           Go == After(b) \ Stay
<1>1. \A c \in S : IsFiniteSet(After(c)) /\ Cardinality(After(c)) \in Nat
  <2> TAKE c \in S
  <2>1. IsFiniteSet(After(c))
    BY FS_Subset
  <2> QED BY <2>1, FS_CardinalityType
<1>2. IsFiniteSet(Stay) /\ IsFiniteSet(Go) /\ Cardinality(Stay) \in Nat
  <2>1. Stay \in SUBSET S /\ Go \in SUBSET S
    OBVIOUS
  <2>2. IsFiniteSet(Stay) /\ IsFiniteSet(Go)
    BY <2>1, FS_Subset
  <2> QED BY <2>2, FS_CardinalityType
<1>3. CASE Go = {}
  <2>1. Stay = After(b)
    BY <1>3
  <2> QED BY <2>1
<1>4. CASE Go # {}
  <2>1. PICK c \in Go : \A d \in Go : d.at <= c.at
    BY <1>2, <1>4, Latest
  <2>2. c \in S /\ c.at > b.at /\ Cardinality(After(c)) >= k
    <3>1. c \in S /\ c.at > b.at /\ ~(Cardinality(After(c)) < k)
      BY <2>1
    <3>2. Cardinality(After(c)) \in Nat
      BY <1>1, <3>1
    <3> HIDE DEF After
    <3> QED BY <3>1, <3>2
  <2>3. After(c) \subseteq Stay
    BY <2>1, <2>2
  <2>4. Cardinality(After(c)) <= Cardinality(Stay)
    BY <1>2, <2>3, FS_Subset
  <2> HIDE DEF After, Stay
  <2>5. Cardinality(After(c)) \in Nat
    BY <1>1, <2>2
  <2>6. Cardinality(Stay) >= k
    BY <1>2, <2>2, <2>4, <2>5
  <2> QED BY <2>6 DEF Stay, After
<1> QED BY <1>3, <1>4

(* With a clock that is not set back, backups are dated in the order they    *)
(* were written in, each at a time of its own, and when older ones are about *)
(* to be removed the one just written is there, dated now.                   *)
SetsInv ==
  /\ Sets!TypeOK
  /\ IsFiniteSet(sets)
  /\ \A b \in sets : b.at <= now
  /\ \A b, c \in sets : b.n < c.n => b.at < c.at
  /\ pc \in {"copy", "rename", "prune"} => trigger \in Sets!Triggers
  /\ pc = "rename" => written < MaxMade /\ \A b \in sets : b.at < now
  /\ pc = "prune" => \E b \in Sets!Automatic : b.n = written - 1 /\ b.at = now

LEMMA SetsInit == ASSUME Sets!Assumed PROVE Sets!Init => SetsInv
<1> SUFFICES ASSUME Sets!Init PROVE SetsInv
  OBVIOUS
<1>1. /\ now = 0 /\ sets = {} /\ written = 0 /\ partial = FALSE /\ budget = FALSE
      /\ pc = "off" /\ trigger = None
  BY DEF Sets!Init
<1>2. 0 \in 0..MaxNow /\ 0 \in 0..MaxMade
  BY DEF Sets!Assumed, Sets!BoundsNat
<1>3. partial \in BOOLEAN /\ budget \in BOOLEAN
  BY <1>1, Zenon
<1>4. Sets!TypeOK
  BY <1>1, <1>2, <1>3 DEF Sets!TypeOK
<1> QED BY <1>1, <1>4, FS_EmptySet DEF SetsInv

LEMMA SetsNext ==
  ASSUME Sets!Assumed, ~SetBack PROVE SetsInv /\ [Sets!Next]_Sets!vars => SetsInv'
<1> SUFFICES ASSUME SetsInv, [Sets!Next]_Sets!vars PROVE SetsInv'
  OBVIOUS
<1>0. MaxNow \in Nat /\ MaxMade \in Nat
  BY DEF Sets!Assumed, Sets!BoundsNat
<1> USE <1>0 DEF SetsInv, Sets!TypeOK, Sets!Automatic, Sets!Listed, Sets!Backup
<1>1. ASSUME Sets!Start PROVE SetsInv'
  BY <1>1 DEF Sets!Start, Sets!Triggers
<1>2. ASSUME Sets!Open PROVE SetsInv'
  BY <1>2 DEF Sets!Open
<1>3. ASSUME NEW t \in Sets!Triggers, Sets!Ask(t) PROVE SetsInv'
  BY <1>3 DEF Sets!Ask
<1>4. ASSUME Sets!Copy PROVE SetsInv'
  BY <1>4 DEF Sets!Copy
<1>5. ASSUME Sets!Rename PROVE SetsInv'
  <2> DEFINE b0 == [n |-> written, at |-> now, trigger |-> trigger, reads |-> TRUE]
  <2>1. sets' = sets \cup {b0} /\ b0 \in Sets!Backup /\ written' = written + 1
    BY <1>5 DEF Sets!Rename
  <2>11. b0.n = written /\ b0.at = now /\ b0.trigger = trigger /\ b0.reads
    OBVIOUS
  <2> HIDE DEF b0
  <2>2. IsFiniteSet(sets')
    BY <2>1, FS_AddElement
  <2>3. \A b \in sets' : b = b0 \/ (b \in sets /\ b.n < written /\ b.at < now /\ b.n \in Nat /\ b.at \in Nat)
    BY <1>5, <2>1 DEF Sets!Rename
  <2>4. UNCHANGED <<now, trigger, budget>> /\ partial' = FALSE /\ pc' \in {"prune", "up"}
        /\ trigger \in Sets!Triggers /\ written' \in 0..MaxMade
        /\ (pc' = "prune" => trigger = "automatic")
    BY <1>5 DEF Sets!Rename
  <2>5. \A b, c \in sets' : b.n = c.n => b = c
    BY <2>3, <2>11
  <2>6. \A b, c \in sets' : b.n < c.n => b.at < c.at
    BY <2>3, <2>11
  <2>7. \A b \in sets' : b.n < written' /\ b.at <= now
    BY <2>1, <2>3, <2>11
  <2>8. pc' = "prune" => \E b \in sets' : b.reads /\ b.trigger = "automatic" /\ b.n = written' - 1 /\ b.at = now
    BY <2>1, <2>4, <2>11
  <2> QED BY <2>1, <2>2, <2>4, <2>5, <2>6, <2>7, <2>8
<1>6. ASSUME Sets!Fail PROVE SetsInv'
  BY <1>6 DEF Sets!Fail
<1>7. ASSUME Sets!Prune PROVE SetsInv'
  <2>1. sets' \subseteq sets /\ UNCHANGED <<now, written, partial, trigger, budget>> /\ pc' = "up"
    BY <1>7 DEF Sets!Prune
  <2>2. IsFiniteSet(sets')
    BY <2>1, FS_Subset
  <2> QED BY <2>1, <2>2
<1>8. ASSUME Sets!Tick PROVE SetsInv'
  BY <1>8 DEF Sets!Tick
<1>9. ASSUME Sets!Rot PROVE SetsInv'
  <2>1. PICK b \in sets : sets' = (sets \ {b}) \cup {[b EXCEPT !.reads = FALSE]}
    BY <1>9 DEF Sets!Rot
  <2>2. PICK b1 \in Sets!Backup : sets' = (sets \ {b}) \cup {b1} /\ b1.n = b.n /\ b1.at = b.at
    <3>1. ASSUME NEW x \in Sets!Backup
          PROVE  /\ [x EXCEPT !.reads = FALSE] \in Sets!Backup
                 /\ [x EXCEPT !.reads = FALSE].n = x.n
                 /\ [x EXCEPT !.reads = FALSE].at = x.at
      BY <3>1
    <3> QED BY <2>1, <3>1
  <2>3. IsFiniteSet(sets')
    BY <2>2, FS_RemoveElement, FS_AddElement
  <2>4. UNCHANGED <<now, written, partial, pc, trigger, budget>> /\ pc = "off"
    BY <1>9 DEF Sets!Rot
  <2> QED BY <2>2, <2>3, <2>4
<1>10. ASSUME Sets!Stop PROVE SetsInv'
  BY <1>10 DEF Sets!Stop
<1>11. CASE UNCHANGED Sets!vars
  BY <1>11 DEF Sets!vars
<1> QED BY <1>1, <1>2, <1>3, <1>4, <1>5, <1>6, <1>7, <1>8, <1>9, <1>10, <1>11 DEF Sets!Next

(* Both modules count with the same operator.                                *)
LEMMA SameCount == \A S : Sets!Cardinality(S) = Cardinality(S)
  BY DEF Cardinality, Sets!Cardinality

(* Only the removal after an automatic backup takes backups away.            *)
LEMMA SetsGo ==
  ASSUME SetsInv, [Sets!Next]_Sets!vars, NEW b \in sets, \A c \in sets' : c.n # b.n
  PROVE  Sets!Prune /\ b \in Sets!Pruned
<1>1. CASE Sets!Prune
  <2>1. b \notin sets'
    OBVIOUS
  <2> QED BY <1>1, <2>1 DEF Sets!Prune
<1>2. CASE Sets!Rot
  <2>1. PICK c \in sets : sets' = (sets \ {c}) \cup {[c EXCEPT !.reads = FALSE]}
    BY <1>2 DEF Sets!Rot, Sets!Listed
  <2>2. [c EXCEPT !.reads = FALSE].n = c.n
    BY DEF SetsInv, Sets!TypeOK, Sets!Backup
  <2> QED BY <2>1, <2>2
<1>3. CASE sets \subseteq sets'
  BY <1>3
<1> QED BY <1>1, <1>2, <1>3 DEF Sets!Next, Sets!vars, Sets!Start, Sets!Open, Sets!Ask,
           Sets!Copy, Sets!Rename, Sets!Fail, Sets!Tick, Sets!Stop

LEMMA SetsOlder ==
  ASSUME Sets!Assumed, SetsInv, [Sets!Next]_Sets!vars,
         NEW b \in sets, \A c \in sets' : c.n # b.n
  PROVE  b.trigger = "automatic" /\ Cardinality(Sets!Later(b, sets')) >= KeptSets
<1> DEFINE A == Sets!Automatic
           Stay == {c \in A : c.at > b.at /\ Cardinality({d \in A : d.at > c.at}) < KeptSets}
<1>1. Sets!Prune /\ b \in A /\ Cardinality({c \in A : c.at > b.at}) >= KeptSets
  <2>1. Sets!Prune /\ b \in Sets!Automatic /\ Sets!Older(b)
    BY SetsGo DEF Sets!Pruned
  <2> QED BY <2>1, SameCount DEF Sets!Older
<1>2. IsFiniteSet(A) /\ A \subseteq sets /\ \A c \in A : c.at \in Nat /\ c.n \in Nat
  <2>1. A \in SUBSET sets
    BY DEF Sets!Automatic, Sets!Listed
  <2>2. \A c \in sets : c.at \in Nat /\ c.n \in Nat
    BY DEF SetsInv, Sets!TypeOK, Sets!Backup
  <2> QED BY <2>1, <2>2, FS_Subset DEF SetsInv
<1>3. KeptSets \in Nat
  BY DEF Sets!Assumed, Sets!PolicyNat
<1>4. Cardinality(Stay) >= KeptSets
  <2> HIDE DEF A
  <2> QED BY <1>1, <1>2, <1>3, EnoughStay
<1>5. Stay \subseteq Sets!Later(b, sets')
  <2> SUFFICES ASSUME NEW c \in Stay PROVE c \in Sets!Later(b, sets')
    OBVIOUS
  <2>1. c \in A /\ c.at > b.at /\ Cardinality({d \in A : d.at > c.at}) < KeptSets
    OBVIOUS
  <2>2. Cardinality({d \in A : d.at > c.at}) \in Nat
    <3>1. IsFiniteSet({d \in A : d.at > c.at})
      <4> HIDE DEF A
      <4> QED BY <1>2, FS_Subset
    <3> QED BY <3>1, FS_CardinalityType
  <2>3. ~(Cardinality({d \in A : d.at > c.at}) >= KeptSets)
    <3> HIDE DEF A
    <3> QED BY <1>3, <2>1, <2>2
  <2>4. c \in sets'
    <3>1. ~Sets!Older(c)
      BY <2>3, SameCount DEF Sets!Older
    <3> QED BY <1>1, <1>2, <2>1, <3>1 DEF Sets!Prune, Sets!Pruned
  <2>5. c.trigger = "automatic"
    BY <2>1 DEF Sets!Automatic
  <2>6. c.n > b.n
    BY <1>1, <1>2, <2>1 DEF SetsInv, Sets!TypeOK
  <2> QED BY <2>4, <2>5, <2>6 DEF Sets!Later
<1>6. IsFiniteSet(Sets!Later(b, sets'))
  <2>1. IsFiniteSet(sets')
    BY <1>1, FS_Subset DEF SetsInv, Sets!Prune
  <2> QED BY <2>1, FS_Subset DEF Sets!Later
<1>7. Cardinality(Stay) <= Cardinality(Sets!Later(b, sets')) /\ Cardinality(Stay) \in Nat
      /\ Cardinality(Sets!Later(b, sets')) \in Nat
  <2>1. IsFiniteSet(Stay)
    BY <1>5, <1>6, FS_Subset
  <2> QED BY <1>5, <1>6, <2>1, FS_Subset, FS_CardinalityType
<1> HIDE DEF Stay
<1> QED BY <1>1, <1>3, <1>4, <1>7 DEF Sets!Automatic

(* What is about to be removed has later ones; the one just written has none. *)
LEMMA SetsWritten ==
  ASSUME Sets!Assumed, SetsInv, Sets!Prune
  PROVE  \E b \in sets' : b.n = written - 1 /\ b.at = now /\ b.reads
<1>1. PICK b \in Sets!Automatic : b.n = written - 1 /\ b.at = now
  BY DEF SetsInv, Sets!Prune
<1>2. {c \in Sets!Automatic : c.at > b.at} = {}
  BY <1>1 DEF SetsInv, Sets!TypeOK, Sets!Automatic, Sets!Listed, Sets!Backup
<1>3. ~Sets!Older(b)
  <2>1. Cardinality({c \in Sets!Automatic : c.at > b.at}) = 0
    BY <1>2, FS_EmptySet
  <2>2. ~(0 >= KeptSets)
    BY DEF Sets!Assumed, Sets!PolicyNat
  <2> QED BY <2>1, <2>2, SameCount DEF Sets!Older
<1> QED BY <1>1, <1>3 DEF Sets!Prune, Sets!Pruned, Sets!Automatic, Sets!Listed

LEMMA SetsStart ==
  ASSUME Sets!Assumed, SetsInv, [Sets!Next]_Sets!vars,
         pc \in {"off", "prune"}, pc' = "up", budget
  PROVE  Sets!Recent(sets')
<1>0. Every \in Nat \ {0} /\ now \in Nat
  BY DEF Sets!Assumed, Sets!PolicyNat, SetsInv, Sets!TypeOK
<1>1. Sets!Start \/ Sets!Prune
  BY DEF Sets!Next, Sets!vars, Sets!Open, Sets!Ask, Sets!Copy, Sets!Rename, Sets!Fail,
     Sets!Tick, Sets!Rot, Sets!Stop
<1>2. CASE Sets!Prune
  <2>1. PICK b \in sets' : b.at = now /\ b.reads
    BY <1>2, SetsWritten
  <2>2. now - b.at \in 0..(Every - 1)
    BY <1>0, <2>1
  <2> QED BY <2>1, <2>2 DEF Sets!Recent
<1>3. CASE Sets!Start
  <2>1. sets' = sets /\ Sets!Listed # {} /\ now - Sets!Newest.at \in 0..(Every - 1)
    BY <1>3 DEF Sets!Start, Sets!Due
  <2>2. IsFiniteSet(Sets!Listed) /\ \A b \in Sets!Listed : b.at \in Nat
    <3>1. IsFiniteSet(Sets!Listed)
      BY FS_Subset DEF SetsInv, Sets!Listed
    <3> QED BY <3>1 DEF SetsInv, Sets!TypeOK, Sets!Backup, Sets!Listed
  <2>3. \E b \in Sets!Listed : \A c \in Sets!Listed : c.at <= b.at
    BY <2>1, <2>2, Latest
  <2>4. Sets!Newest \in Sets!Listed
    BY <2>3 DEF Sets!Newest
  <2> QED BY <2>1, <2>4 DEF Sets!Recent, Sets!Listed
<1> QED BY <1>1, <1>2, <1>3

(* If nobody sets the clock back, a backup goes only when it is automatic    *)
(* and as many as are kept were written after it, never the one just         *)
(* written; and a start ends with a recent one (pruneAutomatic and           *)
(* ayqAutomaticBackupDue).                                                   *)
THEOREM BackupsKeptHolds ==
  ASSUME ~SetBack PROVE Sets!Spec => BackupsKept
<1>0. Sets!Assumed
  BY HostAssumed
<1>1. ASSUME SetsInv, [Sets!Next]_Sets!vars
      PROVE  [\A b \in sets : (\A c \in sets' : c.n # b.n) =>
                b.trigger = "automatic" /\ Sets!Cardinality(Sets!Later(b, sets')) >= KeptSets]_Sets!vars
  BY <1>0, <1>1, SetsOlder, SameCount
<1>2. ASSUME SetsInv, [Sets!Next]_Sets!vars
      PROVE  [(pc = "prune" /\ pc' = "up") => \E b \in sets' : b.n = written - 1]_Sets!vars
  <2>1. ASSUME pc = "prune", pc' = "up" PROVE Sets!Prune
    BY <1>2, <2>1 DEF Sets!Next, Sets!vars, Sets!Start, Sets!Open, Sets!Ask, Sets!Copy,
       Sets!Rename, Sets!Fail, Sets!Tick, Sets!Rot, Sets!Stop
  <2> QED BY <1>0, <1>2, <2>1, SetsWritten
<1>3. ASSUME SetsInv, [Sets!Next]_Sets!vars
      PROVE  [(pc \in {"off", "prune"} /\ pc' = "up" /\ budget) => Sets!Recent(sets')]_Sets!vars
  BY <1>0, <1>3, SetsStart
<1>4. Sets!Spec => Sets!OlderGoes
  BY <1>0, <1>1, SetsInit, SetsNext, PTL DEF Sets!Spec, Sets!OlderGoes
<1>5. Sets!Spec => Sets!JustWrittenStays
  BY <1>0, <1>2, SetsInit, SetsNext, PTL DEF Sets!Spec, Sets!JustWrittenStays
<1>6. Sets!Spec => Sets!StartLeavesRecent
  BY <1>0, <1>3, SetsInit, SetsNext, PTL DEF Sets!Spec, Sets!StartLeavesRecent
<1> QED BY <1>4, <1>5, <1>6 DEF BackupsKept, Sets!BackupsKept
=============================================================================
