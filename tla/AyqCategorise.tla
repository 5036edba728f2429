--------------------------- MODULE AyqCategorise ---------------------------
(* Who decides a transaction's category: a person, one row or many at once, *)
(* a rule about a counterparty, or AYQ's own reading of the evidence.  The  *)
(* category is in the budget, the record of who decided it in the store,    *)
(* and a request writes the one, waits, and writes the other from the copy  *)
(* of the store it read before.                                             *)
EXTENDS Integers, Sequences, FiniteSets

CONSTANTS
  Slots,       \* how many requests the engine may be answering at a time
  Txns,        \* the transactions
  Parties,     \* the canonical counterparties
  Categories,
  PartyOf,     \* the counterparty of each transaction, None without one
  Guesses,     \* what the evidence says of each one, in each version of AYQ
  Behind,      \* bound: how many calls the budget may be behind with
  None

ASSUME TxnsFinite == IsFiniteSet(Txns)
ASSUME PartiesKnown == PartyOf \in [Txns -> Parties \cup {None}]
ASSUME GuessesKnown == Guesses \subseteq [Txns -> Categories \cup {None}]
ASSUME NoneIsNone == None \notin Parties \cup Categories \cup Slots
ASSUME BehindNat == Behind \in Nat \ {0}

VARIABLES
  cat,         \* the budget: what a query answers
  writes,      \* changes handed to the budget that no query shows yet
  decisions,   \* the store: the decision that stands for each transaction
  rules,       \* the store: the category each counterparty's rule names
  guess,       \* what this version of AYQ concludes from the evidence
  run,         \* what each slot is doing
  smooth       \* history: no crash so far, and no request given up on

store == <<decisions, rules>>
budget == <<cat, writes>>
vars == <<budget, store, guess, run, smooth>>

Filed == Categories \cup {None}
Nobody == [source |-> "nobody", category |-> None]
Manual(c) == [source |-> "manual", category |-> c]
Decisions ==
  {Nobody} \cup [source : {"manual"}, category : Filed]
           \cup [source : {"rule", "auto"}, category : Categories]

Idle == [pc |-> "idle", kind |-> "none", next |-> "none", txns |-> {}, to |-> None,
         learn |-> FALSE, over |-> FALSE, read |-> <<>>, rows |-> <<>>, new |-> <<>>, left |-> 0]

Unfiled(c) == {t \in Txns : c[t] = None}

(* What a budget holds before AYQ decided anything came from elsewhere.     *)
Init ==
  /\ cat \in [Txns -> Filed]
  /\ writes = <<>>
  /\ decisions = [t \in Txns |-> Nobody]
  /\ rules = [p \in Parties |-> None]
  /\ guess \in Guesses
  /\ run = [s \in Slots |-> Idle]
  /\ smooth = TRUE

-----------------------------------------------------------------------------
(* Which rows each pass decides, from the store it read and the rows it    *)
(* then read, and what it decides.                                         *)

By(job, t) == job.read.decisions[t].source

Rule(job, t) == IF PartyOf[t] = None THEN None ELSE job.read.rules[PartyOf[t]]

(* Mutant: a rule may touch what a person filed. *)
RuleRowsByHandToo(job) ==
  {t \in Txns : /\ Rule(job, t) \notin {None, job.rows[t]}
                /\ job.rows[t] # None => By(job, t) # "nobody"}

(* ayqApplyRules *)
RuleRows(job) ==
  {t \in Txns : /\ By(job, t) # "manual"
                /\ Rule(job, t) \notin {None, job.rows[t]}
                /\ job.rows[t] # None => By(job, t) \in {"rule", "auto"}}

(* ayqApplyFiling *)
AutoRows(job) ==
  {t \in Txns : /\ By(job, t) \notin {"manual", "rule"}
                /\ job.rows[t] # None => By(job, t) = "auto"
                /\ guess[t] \notin {None, job.rows[t]}}

(* ayqFileCounterparty: by hand, but not over another choice by hand. *)
PartyRows(job) ==
  {t \in job.txns : /\ job.rows[t] # job.to
                    /\ ~(By(job, t) = "manual" /\ job.rows[t] # None)}

(* ayqCategoriseScope: over another choice by hand only when told so. *)
ScopeRows(job) ==
  {t \in job.txns : /\ job.rows[t] # job.to
                    /\ By(job, t) = "manual" => job.over}

Decided(job) ==
  CASE job.kind = "rules" ->
         [t \in RuleRows(job) |-> [source |-> "rule", category |-> Rule(job, t)]]
    [] job.kind = "auto" ->
         [t \in AutoRows(job) |-> [source |-> "auto", category |-> guess[t]]]
    [] job.kind = "party" -> [t \in PartyRows(job) |-> Manual(job.to)]
    [] job.kind = "scope" -> [t \in ScopeRows(job) |-> Manual(job.to)]

-----------------------------------------------------------------------------
(* The requests as they come in. *)

Go(s, job) == run' = [run EXCEPT ![s] = job]
Free(s) == run[s] = Idle
StoreNow == [decisions |-> decisions', rules |-> rules']

(* transaction.categorise: one row, or none of the categories, by hand. *)
AskOne(s, t, c, learn) ==
  /\ Free(s)
  /\ Go(s, [Idle EXCEPT !.pc = "update", !.txns = {t}, !.to = c, !.learn = learn])
  /\ UNCHANGED <<budget, store, guess, smooth>>

(* transaction.categoriseCounterparty without a rule. *)
AskParty(s, p, c) ==
  /\ Free(s)
  /\ UNCHANGED <<budget, store, guess, smooth>>
  /\ Go(s, [Idle EXCEPT !.pc = "rows", !.kind = "party", !.to = c, !.read = StoreNow,
                        !.txns = {t \in Txns : PartyOf[t] = p}])

(* Mutant: the rule is written, and left for the next import to apply. *)
LearnOnly(s, p, c) ==
  /\ Free(s)
  /\ rules' = [rules EXCEPT ![p] = c]
  /\ UNCHANGED <<budget, decisions, guess, run, smooth>>

(* The same with a rule, and rules.correct: the rule is written, and the   *)
(* rules are applied to a store read in the same step.                     *)
Learn(s, p, c) ==
  /\ Free(s)
  /\ rules' = [rules EXCEPT ![p] = c]
  /\ UNCHANGED <<budget, decisions, guess, smooth>>
  /\ Go(s, [Idle EXCEPT !.pc = "rows", !.kind = "rules", !.read = StoreNow])

(* transactions.categoriseMany: the rows first, the store right after. *)
AskScope(s, T, c, byHand) ==
  /\ Free(s)
  /\ UNCHANGED <<budget, store, guess, smooth>>
  /\ Go(s, [Idle EXCEPT !.pc = "count", !.kind = "scope", !.txns = T, !.to = c,
                        !.over = byHand, !.read = StoreNow, !.rows = cat])

(* rules.apply: the rules, and then AYQ's own reading of what they left. *)
Apply(s) ==
  /\ Free(s)
  /\ UNCHANGED <<budget, store, guess, smooth>>
  /\ Go(s, [Idle EXCEPT !.pc = "rows", !.kind = "rules", !.next = "auto",
                        !.read = StoreNow])

(* openBudgetOnce ends with AYQ's own reading alone. *)
Open(s) ==
  /\ Free(s)
  /\ UNCHANGED <<budget, store, guess, smooth>>
  /\ Go(s, [Idle EXCEPT !.pc = "rows", !.kind = "auto", !.read = StoreNow])

(* rules.remove: what the rule filed stays as it is. *)
Forget(s, p) ==
  /\ Free(s)
  /\ rules' = [rules EXCEPT ![p] = None]
  /\ UNCHANGED <<budget, decisions, guess, run, smooth>>

-----------------------------------------------------------------------------
(* The steps of a request between two awaits. *)

(* api.updateTransaction returns, and the change lands after it. *)
Update(s) ==
  /\ run[s].pc = "update"
  /\ Len(writes) < Behind
  /\ writes' = Append(writes, [of |-> s, by |-> "person",
                               to |-> [t \in run[s].txns |-> run[s].to]])
  /\ Go(s, [run[s] EXCEPT !.pc = "record"])
  /\ UNCHANGED <<cat, store, guess, smooth>>

(* ayqRecordDecision, and a rule where one was asked for, in one step.     *)
Record(s) ==
  LET job == run[s]
      told == job.learn /\ job.to # None
      parties == {PartyOf[t] : t \in job.txns} \ {None}
  IN
  /\ job.pc = "record"
  /\ decisions' = [t \in Txns |-> IF t \in job.txns THEN Manual(job.to)
                                                    ELSE decisions[t]]
  /\ IF told /\ parties # {}
       THEN /\ rules' = [p \in Parties |-> IF p \in parties THEN job.to ELSE rules[p]]
            /\ Go(s, [job EXCEPT !.pc = "rows", !.kind = "rules", !.next = "one",
                                 !.read = StoreNow])
       ELSE /\ UNCHANGED rules
            /\ Go(s, [job EXCEPT !.pc = "one"])
  /\ UNCHANGED <<budget, guess, smooth>>

(* A pass is over: the request goes on with the next one, or is answered.  *)
Done(s) ==
  Go(s, CASE run[s].next = "one" ->
               [Idle EXCEPT !.pc = "one", !.txns = run[s].txns, !.to = run[s].to]
          [] run[s].next = "auto" ->
               [Idle EXCEPT !.pc = "rows", !.kind = "auto", !.read = StoreNow]
          [] OTHER -> Idle)

(* Mutant: all it files is counted, what was filed elsewhere before too. *)
FillsAll(job, new) == DOMAIN new

(* Of what it files, what was unfiled.                                     *)
Fills(job, new) == {t \in DOMAIN new : job.rows[t] = None}

(* The rows are there: what is to change is decided, counted and sent.     *)
Decide(s, job) ==
  LET new == Decided(job)
      emptied == {t \in DOMAIN new : new[t].category = None}
  IN
  /\ UNCHANGED <<cat, store, guess, smooth>>
  /\ IF DOMAIN new = {}
       THEN Done(s) /\ UNCHANGED writes
       ELSE /\ Len(writes) < Behind
            /\ writes' = Append(writes,
                 [of |-> s, by |-> IF job.kind \in {"rules", "auto"} THEN job.kind
                                                                    ELSE "person",
                  to |-> [t \in DOMAIN new |-> new[t].category]])
            /\ Go(s, [job EXCEPT !.pc = "save", !.new = new,
                        !.left = job.left - Cardinality(Fills(job, new)) + Cardinality(emptied)])

Rows(s) ==
  /\ run[s].pc = "rows"
  /\ Decide(s, [run[s] EXCEPT !.rows = cat, !.left = Cardinality(Unfiled(cat))])

(* The rows of a scope were read before the unfiled were counted. *)
Count(s) ==
  /\ run[s].pc = "count"
  /\ Decide(s, [run[s] EXCEPT !.left = Cardinality(Unfiled(cat))])

Pending(s) == \E i \in DOMAIN writes : writes[i].of = s

(* transactions-batch-update returns once its changes have landed, unless   *)
(* it was taken into the batch of another call.                            *)
Returned(s) == Pending(s) => \E r \in Slots \ {s} : Pending(r)

(* ayqWriteStore: the whole store as it was read, with the new decisions.  *)
Save(s) ==
  LET job == run[s] IN
  /\ job.pc = "save"
  /\ Returned(s)
  /\ decisions' = [t \in Txns |-> IF t \in DOMAIN job.new THEN job.new[t]
                                  ELSE job.read.decisions[t]]
  /\ rules' = job.read.rules
  /\ Go(s, [job EXCEPT !.pc = "settle"])
  /\ UNCHANGED <<budget, guess, smooth>>

(* What ayqSettle waits for: the row itself, or the number of the unfiled. *)
Agrees(s) ==
  LET job == run[s] IN
  CASE job.pc = "one" -> \A t \in job.txns : cat[t] = job.to
    [] job.pc = "settle" /\ job.kind = "scope" -> Cardinality(Unfiled(cat)) = job.left
    [] OTHER -> Cardinality(Unfiled(cat)) <= job.left

Settle(s) ==
  /\ run[s].pc \in {"settle", "one"}
  /\ Agrees(s)
  /\ UNCHANGED <<budget, store, guess, smooth>>
  /\ Done(s)

(* Sixty readings that did not agree: the request fails. *)
GiveUp(s) ==
  /\ run[s].pc \in {"settle", "one"}
  /\ ~Agrees(s)
  /\ Go(s, Idle)
  /\ smooth' = FALSE
  /\ UNCHANGED <<budget, store, guess>>

-----------------------------------------------------------------------------
(* The budget's own message layer, in the order it was given the changes.  *)
Land ==
  /\ writes # <<>>
  /\ cat' = [t \in Txns |-> IF t \in DOMAIN Head(writes).to THEN Head(writes).to[t]
                                                            ELSE cat[t]]
  /\ writes' = Tail(writes)
  /\ UNCHANGED <<store, guess, run, smooth>>

(* The process dies; what is started next may be another version. *)
Crash ==
  /\ writes' = <<>>
  /\ run' = [s \in Slots |-> Idle]
  /\ guess' \in Guesses
  /\ smooth' = FALSE
  /\ UNCHANGED <<cat, store>>

Ask(s) ==
  \/ \E t \in Txns, c \in Filed, learn \in BOOLEAN : AskOne(s, t, c, learn)
  \/ \E p \in Parties, c \in Categories : AskParty(s, p, c) \/ Learn(s, p, c)
  \/ \E T \in SUBSET Txns, c \in Filed, byHand \in BOOLEAN : AskScope(s, T, c, byHand)
  \/ Apply(s)
  \/ Open(s)
  \/ \E p \in Parties : Forget(s, p)

Step(s) ==
  \/ Update(s) \/ Record(s) \/ Rows(s) \/ Count(s) \/ Save(s)
  \/ Settle(s) \/ GiveUp(s)

Next ==
  \/ \E s \in Slots : Ask(s) \/ Step(s)
  \/ Land
  \/ Crash

Spec == Init /\ [][Next]_vars

-----------------------------------------------------------------------------
Copy == [decisions : [Txns -> Decisions], rules : [Parties -> Filed]]
Rowset == [Txns -> Filed]
New == UNION {[T -> Decisions] : T \in SUBSET Txns}

Job == [pc : {"idle", "update", "record", "rows", "count", "save", "settle", "one"},
        kind : {"none", "rules", "auto", "party", "scope"},
        next : {"none", "one", "auto"}, txns : SUBSET Txns, to : Filed,
        learn : BOOLEAN, over : BOOLEAN, read : {<<>>} \cup Copy,
        rows : {<<>>} \cup Rowset, new : {<<>>} \cup New, left : Int]

Write == [of : Slots, by : {"person", "rules", "auto"},
          to : UNION {[T -> Filed] : T \in SUBSET Txns}]

(* A decision that stands names a category, unless a person chose none; the *)
(* budget and the rules name categories there are.                         *)
TypeOK ==
  /\ cat \in Rowset
  /\ writes \in Seq(Write)
  /\ decisions \in [Txns -> Decisions]
  /\ rules \in [Parties -> Filed]
  /\ guess \in Guesses
  /\ run \in [Slots -> Job]
  /\ smooth \in BOOLEAN

Quiet == writes = <<>> /\ \A s \in Slots : Free(s)

(* A manual choice is the last word (ayq-rules.ts:8): once a person's       *)
(* decision stands, only another decision of a person takes its place,     *)
(* whatever crashed or was given up on in between.                         *)
ManualStands ==
  [][\A t \in Txns : decisions[t].source = "manual"
                        => decisions'[t].source = "manual"]_vars

(* What is filed and carries no decision came some other way and is left   *)
(* alone (ayq-rules.ts:259): only a person's request changes it.           *)
ForeignStays ==
  [][\A t \in Txns : (/\ cat'[t] # cat[t]
                      /\ cat[t] # None
                      /\ decisions[t] = Nobody)
                        => Head(writes).by = "person"]_vars

(* A rule outranks AYQ's own reading (ayq-rules.ts:439): the reading never  *)
(* takes a row out of the category the rule of its counterparty names.     *)
RuleOutranksAuto ==
  [][\A t \in Txns : (/\ cat'[t] # cat[t]
                      /\ PartyOf[t] # None
                      /\ cat[t] # None
                      /\ rules[PartyOf[t]] = cat[t])
                        => Head(writes).by # "auto"]_vars

(* Where no process died and no request was given up on: once everything    *)
(* is answered, the category the budget shows is the one that was decided. *)
Agreement ==
  smooth /\ Quiet =>
    \A t \in Txns : decisions[t] # Nobody => cat[t] = decisions[t].category

(* And every rule has been applied to all it may touch: changing a rule     *)
(* leaves no old answer behind (ayq-rules.ts:222).                         *)
RulesObeyed ==
  smooth /\ Quiet =>
    \A t \in Txns :
      (/\ PartyOf[t] # None
       /\ decisions[t].source # "manual"
       /\ cat[t] # None => decisions[t] # Nobody)
         => rules[PartyOf[t]] \in {None, cat[t]}

(* No request waits for a number that the budget, with everything landed,  *)
(* will never show (ayq-settle.ts:21).                                     *)
NoFalseAlarm ==
  smooth /\ writes = <<>> =>
    \A s \in Slots : run[s].pc \in {"settle", "one"} => Agrees(s)

(* Nothing proceeds on an answer that does not yet reflect the change       *)
(* (ayq-settle.ts:13): what a request reads back as done has landed.       *)
AnswersReflect ==
  smooth =>
    \A s \in Slots : run[s].pc \in {"settle", "one"} /\ Agrees(s)
      => \A i \in DOMAIN writes, t \in Txns :
           writes[i].of = s /\ t \in DOMAIN writes[i].to => cat[t] = writes[i].to[t]
=============================================================================
