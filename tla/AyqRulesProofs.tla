--------------------------- MODULE AyqRulesProofs ---------------------------
(* Filing, for any transactions, counterparties, categories and readings of *)
(* the evidence: the types, for any number of requests at a time; and, where *)
(* the engine answers one at a time, that a manual choice is the last word, *)
(* that the rules are obeyed and that no request waits for a number that    *)
(* never comes.  And the categories themselves: a removal is not refused    *)
(* half-way whatever crosses and, where one request is answered at a time,  *)
(* what is filed keeps a category unless its owner said otherwise, and      *)
(* every rule names a category there is.                                   *)
EXTENDS MCAyqRules, FiniteSetTheorems, TLAPS

(* A request has what its next step works from. *)
JobSound(job) ==
  /\ job.pc \in {"rows", "count", "save"} => job.kind # "none" /\ job.read \in Copy
  /\ job.pc = "count" => job.rows \in Rowset
  /\ job.pc = "save" => job.new \in New

CategoriseInv == TypeOK /\ \A s \in Slots : JobSound(run[s])

(* A decision over one a person made is a decision of a person. *)
Respects(new, old) ==
  \A t \in DOMAIN new : new[t].source = "manual" \/ old[t].source # "manual"

(* While a request works on its copy of the store, nobody writes the store, *)
(* and what it is about to save takes no person's decision away.           *)
Current(job, stored) ==
  /\ job.pc \in {"rows", "count", "save"} => job.read.decisions = stored
  /\ job.pc = "save" => Respects(job.new, stored)

LastWordInv == CategoriseInv /\ \A s \in Slots : Current(run[s], decisions)

(* What a step of one request shows of it, if its copy was current. *)
ManualKept ==
  \A t \in Txns : decisions[t].source = "manual" => decisions'[t].source = "manual"

StepSound(s) ==
  /\ CategoriseInv'
  /\ Current(run[s], decisions) => Current(run'[s], decisions') /\ ManualKept

USE DEF store, budget, Filed

-----------------------------------------------------------------------------
(* What a pass decides are decisions about transactions, and none of them  *)
(* is automation's over a person's.                                        *)
LEMMA DecidedSound ==
  ASSUME NEW job, job \in Job, job.kind # "none", job.read \in Copy,
         job.rows \in Rowset, guess \in Guesses
  PROVE  Decided(job) \in New /\ Respects(Decided(job), job.read.decisions)
<1> USE PartiesKnown, GuessesKnown, NoneIsNone DEF Job, Copy, Rowset, New, Decisions
<1>1. CASE job.kind = "rules"
  <2> DEFINE f == [t \in RuleRows(job) |-> [source |-> "rule", category |-> Rule(job, t)]]
  <2>1. Decided(job) = f
    BY <1>1 DEF Decided
  <2>2. RuleRows(job) \subseteq Txns
    BY DEF RuleRows
  <2>3. ASSUME NEW t \in RuleRows(job)
        PROVE  f[t] \in Decisions /\ job.read.decisions[t].source # "manual"
    <3>1. t \in Txns /\ Rule(job, t) # None /\ By(job, t) # "manual"
      BY <2>3 DEF RuleRows
    <3>2. Rule(job, t) \in Categories
      BY <3>1 DEF Rule
    <3> QED BY <3>1, <3>2 DEF By
  <2>4. f \in [RuleRows(job) -> Decisions]
    BY <2>3
  <2> QED BY <2>1, <2>2, <2>3, <2>4 DEF Respects
<1>2. CASE job.kind = "auto"
  <2> DEFINE f == [t \in AutoRows(job) |-> [source |-> "auto", category |-> guess[t]]]
  <2>1. Decided(job) = f
    BY <1>2 DEF Decided
  <2>2. AutoRows(job) \subseteq Txns
    BY DEF AutoRows
  <2>3. ASSUME NEW t \in AutoRows(job)
        PROVE  f[t] \in Decisions /\ job.read.decisions[t].source # "manual"
    <3>1. t \in Txns /\ guess[t] # None /\ By(job, t) # "manual"
      BY <2>3 DEF AutoRows
    <3>2. guess[t] \in Categories
      BY <3>1
    <3> QED BY <3>1, <3>2 DEF By
  <2>4. f \in [AutoRows(job) -> Decisions]
    BY <2>3
  <2> QED BY <2>1, <2>2, <2>3, <2>4 DEF Respects
<1>3. CASE job.kind = "party"
  <2>1. Decided(job) = [t \in PartyRows(job) |-> Manual(job.to)]
    BY <1>3 DEF Decided
  <2>2. PartyRows(job) \subseteq Txns /\ Manual(job.to) \in Decisions
    BY DEF PartyRows, Manual
  <2> QED BY <2>1, <2>2 DEF Respects, Manual
<1>4. CASE job.kind = "scope"
  <2>1. Decided(job) = [t \in ScopeRows(job) |-> Manual(job.to)]
    BY <1>4 DEF Decided
  <2>2. ScopeRows(job) \subseteq Txns /\ Manual(job.to) \in Decisions
    BY DEF ScopeRows, Manual
  <2> QED BY <2>1, <2>2 DEF Respects, Manual
<1> QED BY <1>1, <1>2, <1>3, <1>4

(* A request that goes on leaves the others where they are. *)
LEMMA GoSound ==
  ASSUME CategoriseInv, NEW s \in Slots, NEW job \in Job, JobSound(job), Go(s, job)
  PROVE  /\ run' \in [Slots -> Job]
         /\ run'[s] = job
         /\ \A r \in Slots : JobSound(run'[r])
BY DEF Go, CategoriseInv, TypeOK

(* A free slot is one that a request may come in on. *)
LEMMA IdleSound == Idle \in Job /\ JobSound(Idle)
BY NoneIsNone DEF Idle, Job, JobSound

(* The unfiled are a number. *)
LEMMA UnfiledCounted == ASSUME NEW c PROVE Cardinality(Unfiled(c)) \in Int
<1>1. Unfiled(c) \subseteq Txns
  BY DEF Unfiled
<1>2. IsFiniteSet(Unfiled(c))
  BY <1>1, TxnsFinite, FS_Subset
<1> QED BY <1>2, FS_CardinalityType

(* One row by hand: nothing is read yet.                                   *)
LEMMA AskOneSound ==
  ASSUME CategoriseInv, NEW s \in Slots, NEW t \in Txns, NEW c \in Filed, NEW learn \in BOOLEAN, AskOne(s, t, c, learn)
  PROVE  StepSound(s)
<1> DEFINE job == [Idle EXCEPT !.pc = "update", !.txns = {t}, !.to = c, !.learn = learn]
<1>1. job \in Job /\ JobSound(job) /\ Go(s, job)
  <2>1. Go(s, job)
    BY DEF AskOne
  <2>2. StoreNow \in Copy /\ cat \in Rowset
    BY DEF AskOne, CategoriseInv, TypeOK, StoreNow, Copy
  <2>3. job \in Job
    BY <2>2, IdleSound, NoneIsNone DEF Idle, Job
  <2>4. JobSound(job)
    BY <2>2 DEF JobSound, Idle
  <2> QED BY <2>1, <2>3, <2>4
<1>2. run' \in [Slots -> Job] /\ run'[s] = job /\ \A r \in Slots : JobSound(run'[r])
  BY <1>1, GoSound
<1>3. CategoriseInv'
  BY <1>2 DEF AskOne, CategoriseInv, TypeOK
<1>4. Current(run'[s], decisions') /\ ManualKept
  BY <1>2 DEF AskOne, Current, ManualKept, StoreNow, Idle
<1> QED BY <1>3, <1>4 DEF StepSound

(* A counterparty by hand starts from the store as it is.                  *)
LEMMA AskPartySound ==
  ASSUME CategoriseInv, NEW s \in Slots, NEW p \in Parties, NEW c \in Categories, AskParty(s, p, c)
  PROVE  StepSound(s)
<1> DEFINE job == [Idle EXCEPT !.pc = "rows", !.kind = "party", !.to = c,
     !.read = StoreNow, !.txns = {t \in Txns : PartyOf[t] = p}]
<1>1. job \in Job /\ JobSound(job) /\ Go(s, job)
  BY IdleSound, NoneIsNone DEF AskParty, CategoriseInv, TypeOK, Idle, Job, JobSound, Copy, Rowset, StoreNow, Free
<1>2. run' \in [Slots -> Job] /\ run'[s] = job /\ \A r \in Slots : JobSound(run'[r])
  BY <1>1, GoSound
<1>3. CategoriseInv'
  BY <1>2 DEF AskParty, CategoriseInv, TypeOK
<1>4. Current(run'[s], decisions') /\ ManualKept
  BY <1>2 DEF AskParty, Current, ManualKept, StoreNow, Idle
<1> QED BY <1>3, <1>4 DEF StepSound

(* A rule is applied from the store it was just written to.                *)
LEMMA LearnSound ==
  ASSUME CategoriseInv, NEW s \in Slots, NEW p \in Parties, NEW c \in Categories, Learn(s, p, c)
  PROVE  StepSound(s)
<1> DEFINE job == [Idle EXCEPT !.pc = "rows", !.kind = "rules", !.read = StoreNow]
<1>1. job \in Job /\ JobSound(job) /\ Go(s, job)
  BY IdleSound, NoneIsNone DEF Learn, CategoriseInv, TypeOK, Idle, Job, JobSound, Copy, Rowset, StoreNow, Free
<1>2. run' \in [Slots -> Job] /\ run'[s] = job /\ \A r \in Slots : JobSound(run'[r])
  BY <1>1, GoSound
<1>3. CategoriseInv'
  BY <1>2 DEF Learn, CategoriseInv, TypeOK
<1>4. Current(run'[s], decisions') /\ ManualKept
  BY <1>2 DEF Learn, Current, ManualKept, StoreNow, Idle
<1> QED BY <1>3, <1>4 DEF StepSound

(* A scope starts from the store as it is.                                 *)
LEMMA AskScopeSound ==
  ASSUME CategoriseInv, NEW s \in Slots, NEW T \in SUBSET Txns, NEW c \in Filed,
         NEW byHand \in BOOLEAN, AskScope(s, T, c, byHand)
  PROVE  StepSound(s)
<1> DEFINE job == [Idle EXCEPT !.pc = "count", !.kind = "scope", !.txns = T, !.to = c,
     !.over = byHand, !.read = StoreNow, !.rows = cat]
<1>1. job \in Job /\ JobSound(job) /\ Go(s, job)
  <2>1. Go(s, job)
    BY DEF AskScope
  <2>2. StoreNow \in Copy /\ cat \in Rowset
    BY DEF AskScope, CategoriseInv, TypeOK, StoreNow, Copy
  <2>3. job \in Job
    BY <2>2, IdleSound, NoneIsNone DEF Idle, Job
  <2>4. JobSound(job)
    BY <2>2 DEF JobSound, Idle
  <2> QED BY <2>1, <2>3, <2>4
<1>2. run' \in [Slots -> Job] /\ run'[s] = job /\ \A r \in Slots : JobSound(run'[r])
  BY <1>1, GoSound
<1>3. CategoriseInv'
  BY <1>2 DEF AskScope, CategoriseInv, TypeOK
<1>4. Current(run'[s], decisions') /\ ManualKept
  BY <1>2 DEF AskScope, Current, ManualKept, StoreNow, Idle
<1> QED BY <1>3, <1>4 DEF StepSound

(* Applying the rules starts from the store as it is.                      *)
LEMMA ApplySound ==
  ASSUME CategoriseInv, NEW s \in Slots, Apply(s)
  PROVE  StepSound(s)
<1> DEFINE job == [Idle EXCEPT !.pc = "rows", !.kind = "rules", !.next = "auto",
     !.read = StoreNow]
<1>1. job \in Job /\ JobSound(job) /\ Go(s, job)
  BY IdleSound, NoneIsNone DEF Apply, CategoriseInv, TypeOK, Idle, Job, JobSound, Copy, Rowset, StoreNow, Free
<1>2. run' \in [Slots -> Job] /\ run'[s] = job /\ \A r \in Slots : JobSound(run'[r])
  BY <1>1, GoSound
<1>3. CategoriseInv'
  BY <1>2 DEF Apply, CategoriseInv, TypeOK
<1>4. Current(run'[s], decisions') /\ ManualKept
  BY <1>2 DEF Apply, Current, ManualKept, StoreNow, Idle
<1> QED BY <1>3, <1>4 DEF StepSound

(* AYQ's own reading starts from the store as it is.                       *)
LEMMA OpenSound ==
  ASSUME CategoriseInv, NEW s \in Slots, Open(s)
  PROVE  StepSound(s)
<1> DEFINE job == [Idle EXCEPT !.pc = "rows", !.kind = "auto", !.read = StoreNow]
<1>1. job \in Job /\ JobSound(job) /\ Go(s, job)
  BY IdleSound, NoneIsNone DEF Open, CategoriseInv, TypeOK, Idle, Job, JobSound, Copy, Rowset, StoreNow, Free
<1>2. run' \in [Slots -> Job] /\ run'[s] = job /\ \A r \in Slots : JobSound(run'[r])
  BY <1>1, GoSound
<1>3. CategoriseInv'
  BY <1>2 DEF Open, CategoriseInv, TypeOK
<1>4. Current(run'[s], decisions') /\ ManualKept
  BY <1>2 DEF Open, Current, ManualKept, StoreNow, Idle
<1> QED BY <1>3, <1>4 DEF StepSound

(* Forgetting a rule decides nothing.                                      *)
LEMMA ForgetSound ==
  ASSUME CategoriseInv, NEW s \in Slots, NEW p \in Parties, Forget(s, p)
  PROVE  StepSound(s)
<1>1. CategoriseInv'
  BY DEF Forget, CategoriseInv, TypeOK
<1>2. Current(run[s], decisions) => Current(run'[s], decisions') /\ ManualKept
  BY DEF Forget, Current, ManualKept
<1> QED BY <1>1, <1>2 DEF StepSound

(* The change to one row goes to the budget; the store is not touched. *)
LEMMA UpdateSound ==
  ASSUME CategoriseInv, NEW s \in Slots, Update(s)
  PROVE  StepSound(s)
<1> DEFINE job == [run[s] EXCEPT !.pc = "record"]
           change == [of |-> s, by |-> "person", to |-> [t \in run[s].txns |-> run[s].to]]
<1>1. job \in Job /\ JobSound(job) /\ Go(s, job)
  BY DEF Update, CategoriseInv, TypeOK, Job, JobSound
<1>2. run' \in [Slots -> Job] /\ run'[s] = job /\ \A r \in Slots : JobSound(run'[r])
  BY <1>1, GoSound
<1>3. run[s].txns \in SUBSET Txns /\ run[s].to \in Categories \cup {None}
  BY DEF CategoriseInv, TypeOK, Job
<1>4. change \in Write
  BY <1>3 DEF Write
<1>5. writes' \in Seq(Write)
  BY <1>4 DEF Update, CategoriseInv, TypeOK
<1>6. CategoriseInv'
  BY <1>2, <1>5 DEF Update, CategoriseInv, TypeOK
<1>7. Current(run'[s], decisions') /\ ManualKept
  BY <1>2 DEF Update, Current, ManualKept, CategoriseInv, TypeOK, Job
<1> QED BY <1>6, <1>7 DEF StepSound

(* A person's decision, and the rule that came with it, are the newest.    *)
LEMMA RecordSound ==
  ASSUME CategoriseInv, NEW s \in Slots, Record(s)
  PROVE  StepSound(s)
<1> DEFINE job == run[s]
           parties == {PartyOf[t] : t \in job.txns} \ {None}
           more == job.learn /\ job.to # None /\ parties # {}
           after == IF more THEN [job EXCEPT !.pc = "rows", !.kind = "rules",
                                             !.next = "one", !.read = StoreNow]
                            ELSE [job EXCEPT !.pc = "one"]
<1>1. job \in Job /\ parties \subseteq Parties
  BY PartiesKnown DEF CategoriseInv, TypeOK, Job
<1>2. decisions' \in [Txns -> Decisions] /\ ManualKept
  BY <1>1 DEF Record, CategoriseInv, TypeOK, Decisions, Manual, Job, ManualKept
<1>3. rules' \in [Parties -> Filed]
  BY <1>1 DEF Record, CategoriseInv, TypeOK, Job
<1>4. StoreNow \in Copy
  BY <1>2, <1>3 DEF StoreNow, Copy
<1>5. after \in Job /\ JobSound(after)
  BY <1>1, <1>4 DEF Job, JobSound
<1>6. Go(s, after)
  BY DEF Record
<1>7. run' \in [Slots -> Job] /\ run'[s] = after /\ \A r \in Slots : JobSound(run'[r])
  BY <1>5, <1>6, GoSound
<1>8. CategoriseInv'
  BY <1>2, <1>3, <1>7 DEF Record, CategoriseInv, TypeOK
<1>9. Current(run'[s], decisions')
  BY <1>1, <1>7 DEF Current, StoreNow, Job
<1> QED BY <1>2, <1>8, <1>9 DEF StepSound

(* After a pass the request is answered or starts from the store as it is. *)
LEMMA DoneSound ==
  ASSUME CategoriseInv, NEW s \in Slots, Done(s), UNCHANGED store
  PROVE  /\ run' \in [Slots -> Job]
         /\ \A r \in Slots : JobSound(run'[r])
         /\ Current(run'[s], decisions')
<1> DEFINE one == [Idle EXCEPT !.pc = "one", !.txns = run[s].txns, !.to = run[s].to]
           auto == [Idle EXCEPT !.pc = "rows", !.kind = "auto", !.read = StoreNow]
<1>1. one \in Job /\ JobSound(one) /\ Current(one, decisions')
  BY IdleSound DEF CategoriseInv, TypeOK, Job, JobSound, Current, Idle
<1>2. auto \in Job /\ JobSound(auto) /\ Current(auto, decisions')
  BY IdleSound DEF CategoriseInv, TypeOK, Job, JobSound, Current, Idle, StoreNow, Copy
<1>3. Current(Idle, decisions')
  BY DEF Current, Idle
<1>4. Go(s, one) \/ Go(s, auto) \/ Go(s, Idle)
  BY DEF Done
<1>5. CASE Go(s, one)
  BY <1>1, <1>5, GoSound
<1>6. CASE Go(s, auto)
  BY <1>2, <1>6, GoSound
<1>7. CASE Go(s, Idle)
  BY <1>3, <1>7, GoSound, IdleSound
<1> QED BY <1>4, <1>5, <1>6, <1>7

(* What is sent to the budget is what will be recorded: decisions that take *)
(* nothing from a person, as far as the copy knows.                        *)
LEMMA DecideSound ==
  ASSUME CategoriseInv, NEW s \in Slots, NEW job \in Job, job.kind # "none",
         job.read \in Copy, job.rows \in Rowset, Decide(s, job),
         job.read = run[s].read, run[s].pc \in {"rows", "count"}
  PROVE  StepSound(s)
<1> DEFINE new == Decided(job)
           filled == Fills(job, new)
           emptied == {t \in DOMAIN new : new[t].category = None}
           change == [of |-> s, by |-> IF job.kind \in {"rules", "auto"} THEN job.kind
                                                                     ELSE "person",
                      to |-> [t \in DOMAIN new |-> new[t].category]]
           left == job.left - Cardinality(filled) + Cardinality(emptied)
           after == [job EXCEPT !.pc = "save", !.new = new, !.left = left]
<1> HIDE DEF new
<1>1. new \in New /\ Respects(new, job.read.decisions)
  BY DecidedSound DEF CategoriseInv, TypeOK, new
<1>2. ManualKept
  BY DEF Decide, ManualKept
<1>3. UNCHANGED <<cat, decisions, rules, guess, smooth>>
  BY DEF Decide
<1>4. CASE Done(s) /\ UNCHANGED writes
  <2>1. CategoriseInv' /\ Current(run'[s], decisions')
    BY <1>3, <1>4, DoneSound DEF CategoriseInv, TypeOK
  <2> QED BY <1>2, <2>1 DEF StepSound
<1>5. CASE Go(s, after) /\ writes' = Append(writes, change)
  <2>1. DOMAIN new \subseteq Txns /\ new \in [DOMAIN new -> Decisions]
    BY <1>1 DEF New
  <2>2. \A t \in DOMAIN new : new[t].category \in Filed
    BY <2>1 DEF Decisions, Nobody
  <2>3. change \in Write
    BY <2>1, <2>2 DEF Write, Job
  <2>4. writes' \in Seq(Write)
    BY <1>5, <2>3 DEF CategoriseInv, TypeOK
  <2>5. Cardinality(filled) \in Int /\ Cardinality(emptied) \in Int
    <3>1. IsFiniteSet(DOMAIN new)
      BY <2>1, TxnsFinite, FS_Subset
    <3>2. filled \subseteq DOMAIN new /\ emptied \subseteq DOMAIN new
      BY DEF Fills
    <3>3. IsFiniteSet(filled) /\ IsFiniteSet(emptied)
      BY <3>1, <3>2, FS_Subset
    <3> HIDE DEF filled, emptied
    <3> QED BY <3>3, FS_CardinalityType
  <2>6. left \in Int
    <3> HIDE DEF filled, emptied
    <3> QED BY <2>5 DEF Job
  <2>7. Go(s, after)
    BY <1>5
  <2> HIDE DEF left
  <2>8. after \in Job
    BY <1>1, <2>6 DEF Job
  <2>9. JobSound(after)
    BY <1>1 DEF Job, JobSound
  <2>10. run' \in [Slots -> Job] /\ run'[s] = after /\ \A r \in Slots : JobSound(run'[r])
    BY <2>7, <2>8, <2>9, GoSound
  <2>11. CategoriseInv'
    BY <1>3, <2>4, <2>10 DEF CategoriseInv, TypeOK
  <2>12. after.read = run[s].read /\ after.new = new
    BY DEF Job
  <2>13. Current(run[s], decisions) => Current(run'[s], decisions')
    BY <1>1, <1>3, <2>10, <2>12 DEF Current
  <2> QED BY <1>2, <2>11, <2>13 DEF StepSound
<1> QED BY <1>4, <1>5 DEF Decide, new

(* The rows are read, and decided from the copy of the store. *)
LEMMA RowsSound ==
  ASSUME CategoriseInv, NEW s \in Slots, Rows(s)
  PROVE  StepSound(s)
<1> DEFINE job == [run[s] EXCEPT !.rows = cat, !.left = Cardinality(Unfiled(cat))]
<1>1. Cardinality(Unfiled(cat)) \in Int
  BY UnfiledCounted
<1>2. job \in Job /\ job.kind # "none" /\ job.read \in Copy /\ job.rows \in Rowset
  BY <1>1 DEF Rows, CategoriseInv, TypeOK, Job, JobSound
<1>3. job.read = run[s].read /\ run[s].pc \in {"rows", "count"} /\ Decide(s, job)
  BY DEF Rows, CategoriseInv, TypeOK, Job
<1> HIDE DEF job
<1> QED BY <1>2, <1>3, DecideSound

(* The rows of a scope were read with the copy of the store. *)
LEMMA CountSound ==
  ASSUME CategoriseInv, NEW s \in Slots, Count(s)
  PROVE  StepSound(s)
<1> DEFINE job == [run[s] EXCEPT !.left = Cardinality(Unfiled(cat))]
<1>1. Cardinality(Unfiled(cat)) \in Int
  BY UnfiledCounted
<1>2. job \in Job /\ job.kind # "none" /\ job.read \in Copy /\ job.rows \in Rowset
  BY <1>1 DEF Count, CategoriseInv, TypeOK, Job, JobSound
<1>3. job.read = run[s].read /\ run[s].pc \in {"rows", "count"} /\ Decide(s, job)
  BY DEF Count, CategoriseInv, TypeOK, Job
<1> HIDE DEF job
<1> QED BY <1>2, <1>3, DecideSound

(* The copy goes back over the store: if it was current, a person's         *)
(* decisions are all still there.                                          *)
LEMMA SaveSound ==
  ASSUME CategoriseInv, NEW s \in Slots, Save(s)
  PROVE  StepSound(s)
<1> DEFINE job == run[s]
           after == [job EXCEPT !.pc = "settle"]
<1>1. job \in Job /\ job.read \in Copy /\ job.new \in New
  BY DEF Save, CategoriseInv, TypeOK, JobSound
<1>2. after \in Job /\ JobSound(after) /\ Go(s, after)
  BY <1>1 DEF Save, Job, JobSound
<1>3. run' \in [Slots -> Job] /\ run'[s] = after /\ \A r \in Slots : JobSound(run'[r])
  BY <1>2, GoSound
<1>4. rules' \in [Parties -> Filed]
  BY <1>1 DEF Save, Copy
<1>5. decisions' \in [Txns -> Decisions]
  BY <1>1 DEF Save, Copy, New
<1>6. CategoriseInv'
  BY <1>3, <1>4, <1>5 DEF Save, CategoriseInv, TypeOK
<1>7. Current(run'[s], decisions')
  BY <1>1, <1>3 DEF Current, Job
<1>8. Current(run[s], decisions) => ManualKept
  BY DEF Save, Current, Respects, ManualKept
<1> QED BY <1>6, <1>7, <1>8 DEF StepSound

(* Reading back writes nothing. *)
LEMMA SettleSound ==
  ASSUME CategoriseInv, NEW s \in Slots, Settle(s)
  PROVE  StepSound(s)
<1>1. UNCHANGED <<cat, writes, decisions, rules, guess, smooth>> /\ Done(s)
  BY DEF Settle
<1>2. CategoriseInv' /\ Current(run'[s], decisions')
  BY <1>1, DoneSound DEF CategoriseInv, TypeOK
<1> QED BY <1>1, <1>2 DEF StepSound, ManualKept

(* Neither does giving up. *)
LEMMA GiveUpSound ==
  ASSUME CategoriseInv, NEW s \in Slots, GiveUp(s)
  PROVE  StepSound(s)
<1>1. UNCHANGED <<cat, writes, decisions, rules, guess>> /\ smooth' = FALSE /\ Go(s, Idle)
  BY DEF GiveUp
<1>2. run' \in [Slots -> Job] /\ run'[s] = Idle /\ \A r \in Slots : JobSound(run'[r])
  BY <1>1, GoSound, IdleSound
<1>3. CategoriseInv'
  BY <1>1, <1>2 DEF CategoriseInv, TypeOK
<1> QED BY <1>1, <1>2, <1>3 DEF StepSound, ManualKept, Current, Idle

(* Whatever a request does next. *)
LEMMA RequestSound ==
  ASSUME CategoriseInv, NEW s \in Slots, Ask(s) \/ Step(s)
  PROVE  StepSound(s)
<1>1. CASE Ask(s)
  BY <1>1, AskOneSound, AskPartySound, LearnSound, AskScopeSound, ApplySound,
     OpenSound, ForgetSound DEF Ask
<1>2. CASE Step(s)
  BY <1>2, UpdateSound, RecordSound, RowsSound, CountSound, SaveSound, SettleSound,
     GiveUpSound DEF Step
<1> QED BY <1>1, <1>2

(* The budget catching up, a crash and a stutter decide nothing.           *)
LEMMA ElseSound ==
  ASSUME CategoriseInv, Land \/ Crash \/ UNCHANGED vars
  PROVE  /\ CategoriseInv'
         /\ decisions' = decisions
         /\ run' = run \/ run' = [s \in Slots |-> Idle]
<1>1. CASE Land
  <2>1. Head(writes) \in Write /\ writes' \in Seq(Write)
    BY <1>1 DEF Land, CategoriseInv, TypeOK
  <2>2. cat' \in Rowset
    BY <1>1, <2>1 DEF Land, Write, Rowset, CategoriseInv, TypeOK
  <2> QED BY <1>1, <2>1, <2>2 DEF Land, CategoriseInv, TypeOK
<1>2. CASE Crash
  <2>1. writes' \in Seq(Write)
    BY <1>2 DEF Crash
  <2>2. run' \in [Slots -> Job] /\ \A s \in Slots : JobSound(run'[s])
    BY <1>2, IdleSound DEF Crash
  <2> QED BY <1>2, <2>1, <2>2 DEF Crash, CategoriseInv, TypeOK
<1>3. CASE UNCHANGED vars
  BY <1>3 DEF vars, CategoriseInv, TypeOK
<1> QED BY <1>1, <1>2, <1>3

(* A fresh data directory is in order. *)
LEMMA InitSound == Init => CategoriseInv
<1> SUFFICES ASSUME Init PROVE CategoriseInv
  OBVIOUS
<1>1. writes \in Seq(Write)
  BY DEF Init
<1>2. run \in [Slots -> Job] /\ \A s \in Slots : JobSound(run[s])
  BY IdleSound DEF Init
<1> QED BY <1>1, <1>2, NoneIsNone DEF Init, CategoriseInv, TypeOK, Rowset, Decisions

-----------------------------------------------------------------------------
(* However many requests the engine answers at a time, the budget, the      *)
(* store and every copy of it hold decisions and categories of the right    *)
(* kind: automation never decides "no category".                           *)
THEOREM CategoriseTypes == Spec => []TypeOK
<1>1. Init => CategoriseInv
  BY InitSound
<1>2. CategoriseInv /\ [Next]_vars => CategoriseInv'
  BY RequestSound, ElseSound DEF Next, StepSound
<1>3. CategoriseInv => TypeOK
  BY DEF CategoriseInv
<1> QED BY <1>1, <1>2, <1>3, PTL DEF Spec

(* With one request answered at a time, what a person decided about a       *)
(* transaction is only ever replaced by what a person decides: no rule, no *)
(* reading of the evidence and no crash between two writes undoes it.      *)
THEOREM CategoriseManualStands ==
  ASSUME NEW only, Slots = {only}
  PROVE  Spec => ManualStands
<1>1. Init => LastWordInv
  BY InitSound DEF Init, LastWordInv, Current, Idle
<1>2. ASSUME LastWordInv, [Next]_vars
      PROVE  LastWordInv' /\ ManualKept
  <2>1. CASE Ask(only) \/ Step(only)
    BY <1>2, <2>1, RequestSound DEF StepSound, LastWordInv
  <2>2. CASE Land \/ Crash \/ UNCHANGED vars
    BY <1>2, <2>2, ElseSound DEF LastWordInv, ManualKept, Current, Idle
  <2> QED BY <1>2, <2>1, <2>2 DEF Next
<1>3. ManualKept => (\A t \in Txns : decisions[t].source = "manual"
                                       => decisions'[t].source = "manual")
  BY DEF ManualKept
<1> QED BY <1>1, <1>2, <1>3, PTL DEF Spec, ManualStands

-----------------------------------------------------------------------------
(* Where one request is answered at a time and nothing was given up on: what  *)
(* is on its way to the budget, what the store says of it, and what a rule is *)
(* still owed.                                                                *)

(* A person's choice of rows is with the budget, or about to be read back.   *)
ByHand(job) ==
  \/ job.pc \in {"record", "one"}
  \/ job.next = "one" /\ job.pc \in {"rows", "save", "settle"}

(* The category a row will have once everything has landed.                  *)
Aim(job, c, t) ==
  IF ByHand(job) /\ t \in job.txns THEN job.to
  ELSE IF job.pc = "save" /\ t \in DOMAIN job.new THEN job.new[t].category
  ELSE c[t]

(* The budget was told, the store was not.                                   *)
InHand(job, t) ==
  \/ job.pc = "record" /\ t \in job.txns
  \/ job.pc = "save" /\ t \in DOMAIN job.new

(* What is on its way takes t from x to a, and not back.                     *)
Way(a, x, w, t) ==
  /\ \A i \in DOMAIN w : t \in DOMAIN w[i].to => w[i].to[t] \in {x, a}
  /\ \A i, j \in DOMAIN w :
       (i < j /\ t \in DOMAIN w[i].to /\ t \in DOMAIN w[j].to /\ w[i].to[t] = a)
         => w[j].to[t] = a
  /\ x # a => \E i \in DOMAIN w : t \in DOMAIN w[i].to /\ w[i].to[t] = a

(* A rule may touch the row and has not.                                     *)
Owed(t) ==
  /\ PartyOf[t] # None
  /\ decisions[t].source # "manual"
  /\ cat[t] # None => decisions[t] # Nobody
  /\ rules[PartyOf[t]] \notin {None, cat[t]}

CopyCurrent(job) ==
  job.pc \in {"rows", "count", "save"} =>
    job.read.decisions = decisions /\ job.read.rules = rules

OneAfterRules(job) ==
  /\ job.pc \in {"rows", "save", "settle"} /\ job.next = "one" => job.kind = "rules"
  /\ job.pc = "count" => job.kind = "scope" /\ job.next # "one"
  /\ ByHand(job) /\ job.pc # "record" =>
       \A t \in job.txns : decisions[t].source = "manual"

(* What a pass is about to record: a rule's category, the evidence's where   *)
(* there is no rule, or a person's.                                          *)
Fits(job, t, d) ==
  /\ job.kind = "rules" =>
       PartyOf[t] # None /\ d = [source |-> "rule", category |-> rules[PartyOf[t]]]
  /\ job.kind = "auto" =>
       /\ d = [source |-> "auto", category |-> guess[t]]
       /\ PartyOf[t] # None => rules[PartyOf[t]] = None
  /\ job.kind \notin {"rules", "auto"} => d.source = "manual"

NewFits(job) ==
  job.pc = "save" => \A t \in DOMAIN job.new :
    Fits(job, t, job.new[t]) /\ ~(job.next = "one" /\ t \in job.txns)

RowInv(job, t) ==
  /\ Way(Aim(job, cat, t), cat[t], writes, t)
  /\ decisions[t] # Nobody /\ ~InHand(job, t) => decisions[t].category = Aim(job, cat, t)
  /\ decisions[t].source = "auto" => decisions[t].category = guess[t]
  /\ Owed(t) => InHand(job, t) \/ (job.pc = "rows" /\ job.kind = "rules")

(* The rows that will have no category once everything has landed.           *)
Empty(job, c) == {t \in Txns : Aim(job, c, t) = None}

(* The rows of a scope are still as they were read, and the number a request *)
(* will wait for is the one there will be.                                   *)
Counted(job) ==
  /\ job.pc = "count" => job.rows = cat
  /\ job.pc \in {"rows", "save", "settle"} /\ job.next = "one" => job.to # None
  /\ job.pc \in {"save", "settle"} =>
       /\ Cardinality(Empty(job, cat)) <= job.left
       /\ job.kind = "scope" => Cardinality(Empty(job, cat)) = job.left

SmoothInv(job) ==
  /\ CopyCurrent(job) /\ OneAfterRules(job) /\ NewFits(job) /\ Counted(job)
  /\ job.pc = "settle" => writes = <<>>
  /\ \A t \in Txns : RowInv(job, t)

(* The next change lands: nothing on its way points elsewhere.               *)
LEMMA WayLand ==
  ASSUME NEW w \in Seq(Write), w # <<>>, NEW a, NEW x, NEW y, NEW t, Way(a, x, w, t),
         y = IF t \in DOMAIN Head(w).to THEN Head(w).to[t] ELSE x
  PROVE  Way(a, y, Tail(w), t) /\ (a = x => y = x)
<1>1. /\ Len(w) \in Nat /\ Len(w) >= 1 /\ DOMAIN w = 1..Len(w) /\ Head(w) = w[1]
      /\ DOMAIN Tail(w) = 1..(Len(w) - 1)
      /\ \A i \in 1..(Len(w) - 1) : Tail(w)[i] = w[i + 1] /\ i + 1 \in DOMAIN w
  OBVIOUS
<1>2. y \in {x, a}
  BY <1>1 DEF Way
<1>3. ASSUME NEW i \in DOMAIN Tail(w), t \in DOMAIN Tail(w)[i].to
      PROVE  Tail(w)[i].to[t] \in {y, a}
  <2>1. i + 1 \in DOMAIN w /\ 1 \in DOMAIN w /\ 1 < i + 1 /\ Tail(w)[i] = w[i + 1]
    BY <1>1
  <2> QED BY <1>1, <1>3, <2>1 DEF Way
<1>4. ASSUME NEW i \in DOMAIN Tail(w), NEW j \in DOMAIN Tail(w), i < j,
             t \in DOMAIN Tail(w)[i].to, t \in DOMAIN Tail(w)[j].to, Tail(w)[i].to[t] = a
      PROVE  Tail(w)[j].to[t] = a
  <2>1. /\ i + 1 \in DOMAIN w /\ j + 1 \in DOMAIN w /\ i + 1 < j + 1
        /\ Tail(w)[i] = w[i + 1] /\ Tail(w)[j] = w[j + 1]
    BY <1>1, <1>4
  <2> QED BY <1>4, <2>1 DEF Way
<1>5. ASSUME y # a PROVE \E i \in DOMAIN Tail(w) : t \in DOMAIN Tail(w)[i].to /\ Tail(w)[i].to[t] = a
  <2>1. x # a
    BY <1>2, <1>5
  <2>2. PICK i \in DOMAIN w : t \in DOMAIN w[i].to /\ w[i].to[t] = a
    BY <2>1 DEF Way
  <2>3. i # 1
    BY <1>1, <1>5, <2>2
  <2>4. i - 1 \in DOMAIN Tail(w) /\ Tail(w)[i - 1] = w[i]
    BY <1>1, <2>3
  <2> QED BY <2>2, <2>4
<1> QED BY <1>2, <1>3, <1>4, <1>5 DEF Way

(* A change is sent after what is on its way.                                *)
LEMMA WaySend ==
  ASSUME NEW w \in Seq(Write), NEW m \in Write, NEW x, NEW t
  PROVE  /\ Way(x, x, w, t) /\ t \in DOMAIN m.to => Way(m.to[t], x, Append(w, m), t)
         /\ \A a : Way(a, x, w, t) /\ t \notin DOMAIN m.to => Way(a, x, Append(w, m), t)
<1> DEFINE v == Append(w, m)
<1>1. /\ Len(w) \in Nat /\ DOMAIN w = 1..Len(w) /\ DOMAIN v = 1..(Len(w) + 1)
      /\ v[Len(w) + 1] = m /\ \A i \in DOMAIN w : v[i] = w[i] /\ i \in DOMAIN v
      /\ \A i \in DOMAIN v : i \in DOMAIN w \/ i = Len(w) + 1
      /\ \A i \in DOMAIN w : i \in Int /\ i < Len(w) + 1
  OBVIOUS
<1> HIDE DEF v
<1>2. ASSUME Way(x, x, w, t), t \in DOMAIN m.to PROVE Way(m.to[t], x, v, t)
  <2>1. \A i \in DOMAIN w : t \in DOMAIN w[i].to => w[i].to[t] = x
    BY <1>2 DEF Way
  <2>2. Len(w) + 1 \in DOMAIN v
    BY <1>1
  <2> QED BY <1>1, <1>2, <2>1, <2>2 DEF Way
<1>3. ASSUME NEW a, Way(a, x, w, t), t \notin DOMAIN m.to PROVE Way(a, x, v, t)
  <2>1. \A i, j \in DOMAIN v :
          (t \in DOMAIN v[i].to => i \in DOMAIN w /\ v[i] = w[i])
    BY <1>1, <1>3
  <2> QED BY <1>1, <1>3, <2>1 DEF Way
<1> QED BY <1>2, <1>3 DEF v

(* What the pass reckons to be left of U, when the rows D get a category, but *)
(* for E.                                                                    *)
Reckoned(U, D, E) == Cardinality(U) - Cardinality(U \cap D) + Cardinality(E)

LEMMA Recount ==
  ASSUME NEW U, IsFiniteSet(U), NEW D, IsFiniteSet(D), NEW E \in SUBSET D, NEW A \in SUBSET U
  PROVE  /\ Cardinality((A \ D) \cup E) <= Reckoned(U, D, E)
         /\ A = U => Cardinality((A \ D) \cup E) = Reckoned(U, D, E)
<1>1. IsFiniteSet(E) /\ IsFiniteSet(A)
  BY FS_Subset
<1>2. ASSUME NEW B \in SUBSET U
      PROVE  IsFiniteSet(B \ D) /\ Cardinality((B \ D) \cup E) = Cardinality(B \ D) + Cardinality(E)
  <2>1. IsFiniteSet(B \ D)
    BY FS_Subset
  <2>2. (B \ D) \cap E = {}
    OBVIOUS
  <2>3. Cardinality((B \ D) \cup E)
          = Cardinality(B \ D) + Cardinality(E) - Cardinality((B \ D) \cap E)
    BY <1>1, <2>1, FS_Union
  <2>4. Cardinality(B \ D) \in Nat /\ Cardinality(E) \in Nat /\ Cardinality((B \ D) \cap E) = 0
    BY <1>1, <2>1, <2>2, FS_CardinalityType, FS_EmptySet
  <2> DEFINE b == Cardinality(B \ D)
             e == Cardinality(E)
             z == Cardinality((B \ D) \cap E)
             u == Cardinality((B \ D) \cup E)
  <2>5. u = b + e - z /\ b \in Nat /\ e \in Nat /\ z = 0
    BY <2>3, <2>4
  <2> HIDE DEF b, e, z, u
  <2>6. u = b + e
    BY <2>5
  <2> QED BY <2>1, <2>6 DEF u, b, e
<1>3. Cardinality(U \ D) = Cardinality(U) - Cardinality(U \cap D)
  BY FS_Difference
<1>4. Cardinality(A \ D) <= Cardinality(U \ D)
  <2>1. IsFiniteSet(U \ D) /\ A \ D \in SUBSET (U \ D)
    BY FS_Subset
  <2> QED BY <2>1, FS_Subset
<1>5. /\ Cardinality(A \ D) \in Nat /\ Cardinality(U \ D) \in Nat /\ Cardinality(E) \in Nat
      /\ Cardinality(U) \in Nat /\ Cardinality(U \cap D) \in Nat
  <2>1. IsFiniteSet(A \ D) /\ IsFiniteSet(U \ D) /\ IsFiniteSet(U \cap D)
    BY FS_Subset
  <2> QED BY <1>1, <2>1, FS_CardinalityType
<1>6. /\ Cardinality((A \ D) \cup E) = Cardinality(A \ D) + Cardinality(E)
      /\ Cardinality((U \ D) \cup E) = Cardinality(U \ D) + Cardinality(E)
  BY <1>2
<1> DEFINE a == Cardinality(A \ D)
           u == Cardinality(U \ D)
           e == Cardinality(E)
           all == Cardinality(U)
           both == Cardinality(U \cap D)
           then == Cardinality((A \ D) \cup E)
<1>7. /\ u = all - both /\ a <= u /\ then = a + e
      /\ a \in Nat /\ u \in Nat /\ e \in Nat /\ all \in Nat /\ both \in Nat
  BY <1>3, <1>4, <1>5, <1>6
<1>8. A = U => a = u
  OBVIOUS
<1> HIDE DEF a, u, e, all, both, then
<1>9. then <= all - both + e /\ (A = U => then = all - both + e)
  BY <1>7, <1>8
<1> QED BY <1>9 DEF e, all, both, then, Reckoned

(* One request at a time: what its step leads to.                            *)
SmoothStep(s) == SmoothInv(run[s]) /\ smooth' => SmoothInv(run[s])'

(* A request turns to its next pass, or to the next request, and every row is *)
(* to be where it was to be.                                                 *)
LEMMA Onward ==
  ASSUME NEW s \in Slots, SmoothInv(run[s]), NEW job \in Job, run'[s] = job,
         UNCHANGED <<cat, writes, decisions, guess>>,
         job.pc \in {"idle", "update", "rows", "count", "one"},
         job.pc \in {"rows", "count"} => job.read = StoreNow /\ job.next # "one",
         job.pc = "count" => job.kind = "scope" /\ job.rows = cat,
         job.pc = "one" => \A t \in job.txns : decisions[t].source = "manual",
         \A t \in Txns : ~InHand(run[s], t) /\ Aim(job, cat, t) = Aim(run[s], cat, t),
         \A t \in Txns : Owed(t)' => job.pc = "rows" /\ job.kind = "rules"
  PROVE  SmoothInv(run[s])'
<1>1. CopyCurrent(run[s])'
  BY DEF CopyCurrent, StoreNow
<1>2. OneAfterRules(run[s])' /\ NewFits(run[s])'
  BY DEF OneAfterRules, NewFits, ByHand
<1>3. ASSUME NEW t \in Txns PROVE RowInv(run[s], t)'
  <2>1. RowInv(run[s], t)
    BY DEF SmoothInv
  <2>2. Aim(run[s], cat, t)' = Aim(run[s], cat, t)
    BY DEF Aim, ByHand
  <2>3. Way(Aim(run[s], cat, t), cat[t], writes, t)'
    BY <2>1, <2>2 DEF RowInv, Way
  <2> QED BY <2>1, <2>2, <2>3 DEF RowInv
<1>4. run'[s].pc # "settle"
  OBVIOUS
<1>5. Counted(run[s])'
  BY DEF Counted
<1> QED BY <1>1, <1>2, <1>3, <1>4, <1>5 DEF SmoothInv

(* Nothing is under way.                                                     *)
LEMMA AtRest ==
  ASSUME NEW s \in Slots, SmoothInv(run[s]), Free(s), NEW t \in Txns
  PROVE  ~InHand(run[s], t) /\ Aim(run[s], cat, t) = cat[t] /\ ~Owed(t)
BY DEF Free, Idle, SmoothInv, RowInv, InHand, Aim, ByHand

(* A request comes in, and a rule may have been written with it.             *)
LEMMA Begins ==
  ASSUME CategoriseInv, NEW s \in Slots, SmoothInv(run[s]), Free(s), NEW job \in Job,
         Go(s, job), UNCHANGED <<cat, writes, decisions, guess>>,
         \/ job.pc = "update" /\ UNCHANGED rules
         \/ job.pc = "count" /\ job.kind = "scope" /\ job.rows = cat /\ UNCHANGED rules
         \/ job.pc = "rows" /\ (job.kind = "rules" \/ UNCHANGED rules),
         job.pc \in {"rows", "count"} => job.read = StoreNow,
         job.next # "one"
  PROVE  SmoothInv(run[s])'
<1>1. run'[s] = job
  BY DEF Go, CategoriseInv, TypeOK
<1>2. ASSUME NEW t \in Txns
      PROVE  /\ ~InHand(run[s], t) /\ Aim(job, cat, t) = Aim(run[s], cat, t)
             /\ Owed(t)' => job.pc = "rows" /\ job.kind = "rules"
  <2>1. ~InHand(run[s], t) /\ Aim(run[s], cat, t) = cat[t] /\ ~Owed(t)
    BY AtRest
  <2>2. Aim(job, cat, t) = cat[t]
    BY DEF Aim, ByHand
  <2>3. UNCHANGED rules => ~Owed(t)'
    BY <2>1 DEF Owed
  <2> QED BY <2>1, <2>2, <2>3
<1> HIDE DEF Idle
<1> QED BY <1>1, <1>2, Onward

(* Every request that may come in, begins so.                                *)
LEMMA AskSmooth ==
  ASSUME CategoriseInv, NEW s \in Slots, SmoothInv(run[s]), Ask(s)
  PROVE  SmoothInv(run[s])'
<1>1. CategoriseInv'
  BY RequestSound DEF StepSound
<1>2. StoreNow \in Copy
  BY <1>1 DEF CategoriseInv, TypeOK, StoreNow, Copy
<1>3. ASSUME NEW t \in Txns, NEW c \in Filed, NEW learn \in BOOLEAN, AskOne(s, t, c, learn)
      PROVE  SmoothInv(run[s])'
  <2> DEFINE job == [Idle EXCEPT !.pc = "update", !.txns = {t}, !.to = c, !.learn = learn]
  <2>1. job \in Job /\ job.pc = "update" /\ job.next # "one"
    BY <1>2, IdleSound, NoneIsNone DEF CategoriseInv, TypeOK, Idle, Job
  <2>2. Free(s) /\ Go(s, job) /\ UNCHANGED <<cat, writes, decisions, rules, guess>>
    BY <1>3 DEF AskOne
  <2> HIDE DEF job
  <2> QED BY <2>1, <2>2, Begins
<1>4. ASSUME NEW p \in Parties, NEW c \in Categories, AskParty(s, p, c)
      PROVE  SmoothInv(run[s])'
  <2> DEFINE job == [Idle EXCEPT !.pc = "rows", !.kind = "party", !.to = c, !.read = StoreNow,
                                !.txns = {t \in Txns : PartyOf[t] = p}]
  <2>1. job \in Job /\ job.pc = "rows" /\ job.next # "one" /\ job.read = StoreNow
    BY <1>2, IdleSound, NoneIsNone DEF CategoriseInv, TypeOK, Idle, Job
  <2>2. Free(s) /\ Go(s, job) /\ UNCHANGED <<cat, writes, decisions, rules, guess>>
    BY <1>4 DEF AskParty
  <2> HIDE DEF job
  <2> QED BY <2>1, <2>2, Begins
<1>5. ASSUME NEW p \in Parties, NEW c \in Categories, Learn(s, p, c)
      PROVE  SmoothInv(run[s])'
  <2> DEFINE job == [Idle EXCEPT !.pc = "rows", !.kind = "rules", !.read = StoreNow]
  <2>1. job \in Job /\ job.pc = "rows" /\ job.kind = "rules" /\ job.next # "one" /\ job.read = StoreNow
    BY <1>2, IdleSound, NoneIsNone DEF CategoriseInv, TypeOK, Idle, Job
  <2>2. Free(s) /\ Go(s, job) /\ UNCHANGED <<cat, writes, decisions, guess>>
    BY <1>5 DEF Learn
  <2> HIDE DEF job
  <2> QED BY <2>1, <2>2, Begins
<1>6. ASSUME NEW T \in SUBSET Txns, NEW c \in Filed, NEW byHand \in BOOLEAN,
             AskScope(s, T, c, byHand)
      PROVE  SmoothInv(run[s])'
  <2> DEFINE job == [Idle EXCEPT !.pc = "count", !.kind = "scope", !.txns = T, !.to = c,
                                !.over = byHand, !.read = StoreNow, !.rows = cat]
  <2>1. /\ job \in Job /\ job.pc = "count" /\ job.kind = "scope" /\ job.next # "one"
        /\ job.read = StoreNow /\ job.rows = cat
    BY <1>2, IdleSound, NoneIsNone DEF CategoriseInv, TypeOK, Idle, Job
  <2>2. Free(s) /\ Go(s, job) /\ UNCHANGED <<cat, writes, decisions, rules, guess>>
    BY <1>6 DEF AskScope
  <2> HIDE DEF job
  <2> QED BY <2>1, <2>2, Begins
<1>7. ASSUME Apply(s)
      PROVE  SmoothInv(run[s])'
  <2> DEFINE job == [Idle EXCEPT !.pc = "rows", !.kind = "rules", !.next = "auto",
                                !.read = StoreNow]
  <2>1. job \in Job /\ job.pc = "rows" /\ job.kind = "rules" /\ job.next # "one" /\ job.read = StoreNow
    BY <1>2, IdleSound, NoneIsNone DEF CategoriseInv, TypeOK, Idle, Job
  <2>2. Free(s) /\ Go(s, job) /\ UNCHANGED <<cat, writes, decisions, rules, guess>>
    BY <1>7 DEF Apply
  <2> HIDE DEF job
  <2> QED BY <2>1, <2>2, Begins
<1>8. ASSUME Open(s)
      PROVE  SmoothInv(run[s])'
  <2> DEFINE job == [Idle EXCEPT !.pc = "rows", !.kind = "auto", !.read = StoreNow]
  <2>1. job \in Job /\ job.pc = "rows" /\ job.next # "one" /\ job.read = StoreNow
    BY <1>2, IdleSound, NoneIsNone DEF CategoriseInv, TypeOK, Idle, Job
  <2>2. Free(s) /\ Go(s, job) /\ UNCHANGED <<cat, writes, decisions, rules, guess>>
    BY <1>8 DEF Open
  <2> HIDE DEF job
  <2> QED BY <2>1, <2>2, Begins
<1>9. ASSUME NEW p \in Parties, Forget(s, p)
      PROVE  SmoothInv(run[s])'
  <2>1. Free(s) /\ UNCHANGED <<cat, writes, decisions, guess>> /\ run'[s] = run[s]
        /\ rules' = [rules EXCEPT ![p] = None]
    BY <1>9 DEF Forget
  <2>2. ASSUME NEW t \in Txns
        PROVE  ~InHand(run[s], t) /\ ~Owed(t)'
    <3>1. ~InHand(run[s], t) /\ ~Owed(t)
      BY <2>1, AtRest
    <3> QED BY <2>1, <3>1, PartiesKnown DEF Owed, CategoriseInv, TypeOK
  <2>3. run[s] \in Job
    BY DEF CategoriseInv, TypeOK
  <2>4. run[s].pc = "idle"
    BY <2>1 DEF Free, Idle
  <2> QED BY <2>1, <2>2, <2>3, <2>4, Onward
<1> QED BY <1>3, <1>4, <1>5, <1>6, <1>7, <1>8, <1>9 DEF Ask
(* The change to one row is on its way; the store is told next.              *)
LEMMA UpdateSmooth ==
  ASSUME CategoriseInv, NEW s \in Slots, SmoothInv(run[s]), Update(s)
  PROVE  SmoothInv(run[s])'
<1> DEFINE old == run[s]
           m == [of |-> s, by |-> "person", to |-> [t \in old.txns |-> old.to]]
<1>1. old \in Job /\ old.pc = "update" /\ old.txns \subseteq Txns /\ old.to \in Filed
  BY DEF Update, CategoriseInv, TypeOK, Job
<1>2. run'[s] = [old EXCEPT !.pc = "record"]
  BY DEF Update, Go, CategoriseInv, TypeOK
<1>3. run'[s].pc = "record" /\ run'[s].txns = old.txns /\ run'[s].to = old.to
  BY <1>1, <1>2 DEF Job
<1>4. /\ writes' = Append(writes, m) /\ writes \in Seq(Write)
      /\ UNCHANGED <<cat, decisions, rules, guess>>
  BY DEF Update, CategoriseInv, TypeOK
<1>5. m \in Write /\ DOMAIN m.to = old.txns /\ \A t \in old.txns : m.to[t] = old.to
  BY <1>1 DEF Write
<1> HIDE DEF m
<1>6. ASSUME NEW t \in Txns PROVE RowInv(run[s], t)'
  <2>1. RowInv(old, t) /\ Aim(old, cat, t) = cat[t] /\ ~Owed(t) /\ ~InHand(old, t)
    BY <1>1 DEF SmoothInv, Aim, ByHand, RowInv, InHand
  <2>2. Aim(run[s], cat, t)' = IF t \in old.txns THEN old.to ELSE cat[t]
    BY <1>3, <1>4 DEF Aim, ByHand
  <2>3. Way(cat[t], cat[t], writes, t)
    BY <2>1 DEF RowInv
  <2>4. Way(Aim(run[s], cat, t)', cat[t], Append(writes, m), t)
    BY <1>4, <1>5, <2>2, <2>3, WaySend
  <2>5. Way(Aim(run[s], cat, t), cat[t], writes, t)'
    BY <1>4, <2>4 DEF Way
  <2>6. (Owed(t)' <=> Owed(t)) /\ (InHand(run[s], t)' <=> t \in old.txns)
    BY <1>3, <1>4 DEF Owed, InHand
  <2>7. decisions[t] # Nobody => decisions[t].category = cat[t]
    BY <2>1 DEF RowInv
  <2>8. decisions[t].source = "auto" => decisions[t].category = guess[t]
    BY <2>1 DEF RowInv
  <2>9. (decisions[t] # Nobody /\ ~InHand(run[s], t) => decisions[t].category = Aim(run[s], cat, t))'
    BY <1>4, <2>2, <2>6, <2>7
  <2> QED BY <1>4, <2>1, <2>5, <2>6, <2>8, <2>9 DEF RowInv
<1> QED BY <1>3, <1>6 DEF SmoothInv, CopyCurrent, OneAfterRules, NewFits, Counted

(* A person's decision is recorded as it was sent, with the rule or without. *)
LEMMA RecordSmooth ==
  ASSUME CategoriseInv, NEW s \in Slots, SmoothInv(run[s]), Record(s)
  PROVE  SmoothInv(run[s])'
<1> DEFINE old == run[s]
           parties == {PartyOf[t] : t \in old.txns} \ {None}
           more == old.learn /\ old.to # None /\ parties # {}
<1>1. old \in Job /\ old.pc = "record" /\ old.txns \subseteq Txns /\ old.to \in Filed
  BY DEF Record, CategoriseInv, TypeOK, Job
<1>2. /\ UNCHANGED <<cat, writes, guess>> /\ decisions \in [Txns -> Decisions]
      /\ decisions' = [t \in Txns |-> IF t \in old.txns THEN Manual(old.to) ELSE decisions[t]]
  BY DEF Record, CategoriseInv, TypeOK
<1>3. \/ /\ run'[s] = [old EXCEPT !.pc = "rows", !.kind = "rules", !.next = "one",
                                  !.read = StoreNow]
         /\ old.to # None
      \/ /\ run'[s] = [old EXCEPT !.pc = "one"]
         /\ rules' = rules
  BY DEF Record, Go, CategoriseInv, TypeOK
<1>4. /\ run'[s].txns = old.txns /\ run'[s].to = old.to
      /\ \/ /\ run'[s].pc = "rows" /\ run'[s].kind = "rules" /\ run'[s].next = "one"
            /\ run'[s].read = StoreNow /\ run'[s].to # None
         \/ run'[s].pc = "one" /\ rules' = rules
  BY <1>1, <1>3 DEF Job
<1>5. ByHand(run[s])' /\ \A t \in Txns : ~InHand(run[s], t)'
  BY <1>4 DEF ByHand, InHand
<1>6. \A t \in old.txns : decisions'[t] = Manual(old.to)
  BY <1>1, <1>2
<1>7. ASSUME NEW t \in Txns PROVE RowInv(run[s], t)'
  <2>1. RowInv(old, t) /\ (InHand(old, t) <=> t \in old.txns)
    BY <1>1 DEF SmoothInv, InHand
  <2>2. /\ Aim(old, cat, t) = IF t \in old.txns THEN old.to ELSE cat[t]
        /\ Aim(run[s], cat, t)' = Aim(old, cat, t)
    BY <1>1, <1>2, <1>4, <1>5 DEF Aim, ByHand
  <2>3. Way(Aim(run[s], cat, t), cat[t], writes, t)'
    BY <1>2, <2>1, <2>2 DEF RowInv, Way
  <2>4. decisions'[t] = IF t \in old.txns THEN Manual(old.to) ELSE decisions[t]
    BY <1>2
  <2>5. decisions'[t] # Nobody => decisions'[t].category = Aim(run[s], cat, t)'
    BY <2>1, <2>2, <2>4 DEF RowInv, Manual
  <2>6. decisions'[t].source = "auto" => decisions'[t].category = guess'[t]
    BY <1>2, <2>1, <2>4 DEF RowInv, Manual
  <2>7. Owed(t)' => run'[s].pc = "rows" /\ run'[s].kind = "rules"
    <3>1. SUFFICES ASSUME run'[s].pc = "one", rules' = rules, Owed(t)' PROVE FALSE
      BY <1>4
    <3>2. t \notin old.txns
      BY <2>4, <3>1 DEF Owed, Manual
    <3>3. Owed(t)
      BY <1>2, <2>4, <3>1, <3>2 DEF Owed
    <3> QED BY <1>1, <2>1, <3>2, <3>3 DEF RowInv
  <2> QED BY <1>5, <2>3, <2>5, <2>6, <2>7 DEF RowInv
<1>8. OneAfterRules(run[s])'
  BY <1>4, <1>6 DEF OneAfterRules, Manual
<1>9. CopyCurrent(run[s])'
  BY <1>4 DEF CopyCurrent, StoreNow
<1> QED BY <1>4, <1>7, <1>8, <1>9 DEF SmoothInv, NewFits, Counted

(* A pass that is over, with every row where it was to be.                   *)
LEMMA DoneSmooth ==
  ASSUME CategoriseInv, CategoriseInv', NEW s \in Slots, SmoothInv(run[s]), Done(s),
         UNCHANGED <<cat, writes, decisions, rules, guess>>,
         run[s].pc \in {"rows", "settle", "one", "count"},
         \A t \in Txns : ~InHand(run[s], t) /\ ~Owed(t),
         run[s].pc = "one" => \A t \in run[s].txns : cat[t] = run[s].to,
         run[s].pc = "settle" => \A t \in Txns : Aim(run[s], cat, t) = cat[t]
  PROVE  SmoothInv(run[s])'
<1> DEFINE old == run[s]
           one == [Idle EXCEPT !.pc = "one", !.txns = old.txns, !.to = old.to]
           auto == [Idle EXCEPT !.pc = "rows", !.kind = "auto", !.read = StoreNow]
<1>1. \A t \in Txns : ~Owed(t)'
  BY DEF Owed
<1>2. old \in Job /\ run' \in [Slots -> Job] /\ run'[s] \in Job
  BY DEF CategoriseInv, TypeOK
<1>3. CASE old.next = "one"
  <2>1. run'[s] = one
    BY <1>3 DEF Done, Go, CategoriseInv, TypeOK
  <2>2. /\ run'[s].pc = "one" /\ run'[s].kind = "none" /\ run'[s].next = "none"
        /\ run'[s].txns = old.txns /\ run'[s].to = old.to
    BY <2>1 DEF Idle
  <2>3. ByHand(old) /\ old.pc # "record"
    BY <1>3 DEF ByHand, SmoothInv, OneAfterRules
  <2>4. \A t \in old.txns : decisions[t].source = "manual"
    BY <2>3 DEF SmoothInv, OneAfterRules
  <2>5. \A t \in Txns : Aim(run'[s], cat, t) = Aim(old, cat, t)
    BY <2>2, <2>3 DEF Aim, ByHand, InHand
  <2> HIDE DEF one
  <2> QED BY <1>1, <1>2, <2>2, <2>4, <2>5, Onward
<1>4. CASE old.next # "one"
  <2>1. run'[s] \in {auto, Idle}
    BY <1>4 DEF Done, Go, CategoriseInv, TypeOK
  <2>2. /\ \/ run'[s].pc = "rows" /\ run'[s].read = StoreNow
           \/ run'[s].pc = "idle"
        /\ run'[s].next = "none"
    <3>1. auto.pc = "rows" /\ auto.read = StoreNow /\ auto.next = "none"
      BY DEF Idle
    <3>2. Idle.pc = "idle" /\ Idle.next = "none"
      BY DEF Idle
    <3> QED BY <2>1, <3>1, <3>2
  <2>3. \A t \in Txns : Aim(old, cat, t) = cat[t]
    BY <1>4 DEF Aim, ByHand, InHand
  <2>4. \A t \in Txns : Aim(run'[s], cat, t) = cat[t]
    BY <2>2 DEF Aim, ByHand
  <2> HIDE DEF auto
  <2> QED BY <1>1, <1>2, <2>2, <2>3, <2>4, Onward
<1> QED BY <1>3, <1>4

(* What is read back as done has landed, and the request goes on.            *)
LEMMA SettleSmooth ==
  ASSUME CategoriseInv, CategoriseInv', NEW s \in Slots, SmoothInv(run[s]), Settle(s)
  PROVE  SmoothInv(run[s])'
<1>1. run[s].pc \in {"settle", "one"} /\ Agrees(s) /\ Done(s)
      /\ UNCHANGED <<cat, writes, decisions, rules, guess>>
  BY DEF Settle
<1>2. ASSUME NEW t \in Txns PROVE ~InHand(run[s], t) /\ ~Owed(t)
  BY <1>1 DEF SmoothInv, RowInv, InHand
<1>3. run[s].pc = "one" => \A t \in run[s].txns : cat[t] = run[s].to
  BY <1>1 DEF Agrees
<1>4. ASSUME run[s].pc = "settle", NEW t \in Txns PROVE Aim(run[s], cat, t) = cat[t]
  BY <1>4 DEF SmoothInv, RowInv, Way
<1> QED BY <1>1, <1>2, <1>3, <1>4, DoneSmooth
(* With the copy as the store is and the rows as the budget is, a pass of the *)
(* rules decides exactly what is owed, and AYQ's own reading decides nothing  *)
(* a rule is there for.                                                      *)
LEMMA DecidedFits ==
  ASSUME CategoriseInv, NEW job \in Job, job.kind # "none", job.read \in Copy,
         job.rows \in Rowset, job.read.decisions = decisions, job.read.rules = rules,
         job.pc = "rows" => job.rows = cat,
         job.pc \in {"rows", "count"}, job.pc = "count" => job.kind = "scope",
         \A t \in Txns : Owed(t) => job.kind = "rules",
         \A t \in Txns : decisions[t].source = "auto" => decisions[t].category = cat[t],
         \A t \in Txns : decisions[t].source = "auto" => decisions[t].category = guess[t]
  PROVE  /\ \A t \in DOMAIN Decided(job) : t \in Txns /\ Fits(job, t, Decided(job)[t])
         /\ job.kind = "rules" =>
              DOMAIN Decided(job) = {t \in Txns : Owed(t)}
<1> USE PartiesKnown, GuessesKnown, NoneIsNone DEF Job, Copy, Rowset, CategoriseInv, TypeOK
<1>1. CASE job.kind = "rules"
  <2>1. Decided(job) = [t \in RuleRows(job) |-> [source |-> "rule", category |-> Rule(job, t)]]
    BY <1>1 DEF Decided
  <2>2. ASSUME NEW t \in Txns PROVE t \in RuleRows(job) <=> Owed(t)
    <3>1. Rule(job, t) = IF PartyOf[t] = None THEN None ELSE rules[PartyOf[t]]
      BY DEF Rule
    <3>2. job.rows[t] = cat[t] /\ By(job, t) = decisions[t].source
      BY <1>1 DEF By
    <3>3. decisions[t] # Nobody /\ decisions[t].source # "manual"
            <=> decisions[t].source \in {"rule", "auto"}
      BY DEF Decisions, Nobody
    <3> QED BY <3>1, <3>2, <3>3 DEF RuleRows, Owed
  <2>3. \A t \in RuleRows(job) : t \in Txns /\ PartyOf[t] # None /\ Rule(job, t) = rules[PartyOf[t]]
    BY DEF RuleRows, Rule
  <2>4. RuleRows(job) = {t \in Txns : Owed(t)}
    BY <2>2, <2>3
  <2> QED BY <1>1, <2>1, <2>3, <2>4 DEF Fits
<1>2. CASE job.kind = "auto"
  <2>1. Decided(job) = [t \in AutoRows(job) |-> [source |-> "auto", category |-> guess[t]]]
    BY <1>2 DEF Decided
  <2>2. ASSUME NEW t \in AutoRows(job) PROVE t \in Txns /\ (PartyOf[t] # None => rules[PartyOf[t]] = None)
    <3>1. /\ t \in Txns /\ decisions[t].source \notin {"manual", "rule"}
          /\ cat[t] # None => decisions[t].source = "auto"
          /\ guess[t] # cat[t]
      BY <1>2 DEF AutoRows, By
    <3>2. cat[t] = None
      BY <3>1
    <3>3. ~Owed(t)
      BY <1>2, <3>1
    <3> QED BY <3>1, <3>2, <3>3 DEF Owed
  <2> QED BY <1>2, <2>1, <2>2 DEF Fits
<1>3. CASE job.kind = "party"
  <2>1. Decided(job) = [t \in PartyRows(job) |-> Manual(job.to)]
    BY <1>3 DEF Decided
  <2>2. PartyRows(job) \subseteq Txns
    BY DEF PartyRows
  <2> QED BY <1>3, <2>1, <2>2 DEF Fits, Manual
<1>4. CASE job.kind = "scope"
  <2>1. Decided(job) = [t \in ScopeRows(job) |-> Manual(job.to)]
    BY <1>4 DEF Decided
  <2>2. ScopeRows(job) \subseteq Txns
    BY DEF ScopeRows
  <2> QED BY <1>4, <2>1, <2>2 DEF Fits, Manual
<1> QED BY <1>1, <1>2, <1>3, <1>4

(* What is decided goes to the budget before the store hears of it.          *)
LEMMA DecideSmooth ==
  ASSUME CategoriseInv, CategoriseInv', NEW s \in Slots, SmoothInv(run[s]), NEW job \in Job,
         job.kind # "none", job.read \in Copy, job.rows \in Rowset, Decide(s, job),
         job.pc = run[s].pc, job.kind = run[s].kind, job.read = run[s].read,
         job.next = run[s].next, job.txns = run[s].txns, job.to = run[s].to,
         job.pc \in {"rows", "count"}, job.rows = cat, job.left = Cardinality(Unfiled(cat))
  PROVE  SmoothInv(run[s])'
<1> DEFINE old == run[s]
           new == Decided(job)
           m == [of |-> s, by |-> IF job.kind \in {"rules", "auto"} THEN job.kind
                                                                    ELSE "person",
                 to |-> [t \in DOMAIN new |-> new[t].category]]
           emptied == {t \in DOMAIN new : new[t].category = None}
           left == job.left - Cardinality(Fills(job, new)) + Cardinality(emptied)
<1> HIDE DEF new
<1>1. ASSUME NEW t \in Txns
      PROVE  /\ RowInv(old, t) /\ ~InHand(old, t)
             /\ Aim(old, cat, t) = IF ByHand(old) /\ t \in old.txns THEN old.to ELSE cat[t]
             /\ Owed(t) => old.kind = "rules" /\ old.pc = "rows"
             /\ ByHand(old) /\ t \in old.txns => decisions[t].source = "manual"
  BY DEF SmoothInv, RowInv, InHand, Aim, OneAfterRules
<1>2. /\ job.read.decisions = decisions /\ job.read.rules = rules
      /\ job.pc = "count" => job.kind = "scope" /\ job.next # "one"
      /\ job.next = "one" => job.kind = "rules"
      /\ ByHand(old) <=> job.next = "one"
  BY DEF SmoothInv, CopyCurrent, OneAfterRules, ByHand
<1>3. /\ decisions \in [Txns -> Decisions] /\ writes \in Seq(Write)
      /\ UNCHANGED <<cat, decisions, rules, guess>>
  BY DEF CategoriseInv, TypeOK, Decide
<1>4. ASSUME NEW t \in Txns, decisions[t].source = "auto"
      PROVE  decisions[t].category = cat[t] /\ decisions[t].category = guess[t]
  BY <1>1, <1>4 DEF RowInv, Nobody
<1>5. /\ \A t \in DOMAIN new : t \in Txns /\ Fits(job, t, new[t])
      /\ job.kind = "rules" => DOMAIN new = {t \in Txns : Owed(t)}
  BY <1>1, <1>2, <1>4, DecidedFits DEF new
<1>6. CASE DOMAIN new = {}
  <2>1. Done(s) /\ UNCHANGED writes
    BY <1>6 DEF Decide, new
  <2>2. \A t \in Txns : ~Owed(t)
    BY <1>1, <1>5, <1>6
  <2> QED BY <1>1, <1>3, <2>1, <2>2, DoneSmooth
<1>7. CASE DOMAIN new # {}
  <2>1. /\ writes' = Append(writes, m)
        /\ Go(s, [job EXCEPT !.pc = "save", !.new = new, !.left = left])
    BY <1>7 DEF Decide, new
  <2> HIDE DEF left
  <2>2. run'[s] = [job EXCEPT !.pc = "save", !.new = new, !.left = left]
    BY <2>1 DEF Go, CategoriseInv, TypeOK
  <2>3. /\ run'[s].pc = "save" /\ run'[s].new = new /\ run'[s].kind = job.kind
        /\ run'[s].next = job.next /\ run'[s].txns = job.txns /\ run'[s].to = job.to
        /\ run'[s].read = job.read /\ run'[s].left = left
    BY <2>2 DEF Job
  <2>4. new \in New /\ DOMAIN new \subseteq Txns /\ \A t \in DOMAIN new : new[t] \in Decisions
    BY DecidedSound DEF CategoriseInv, TypeOK, new, New
  <2>5. \A t \in DOMAIN new : new[t].category \in Filed
    BY <2>4 DEF Decisions, Nobody
  <2>6. m \in Write /\ DOMAIN m.to = DOMAIN new /\ \A t \in DOMAIN new : m.to[t] = new[t].category
    BY <2>4, <2>5 DEF Write, Job
  <2> HIDE DEF m
  <2>7. ASSUME NEW t \in DOMAIN new PROVE ~(ByHand(old) /\ t \in old.txns)
    <3>1. SUFFICES ASSUME ByHand(old), t \in old.txns PROVE FALSE
      OBVIOUS
    <3>2. Owed(t) /\ t \in Txns
      BY <1>2, <1>5, <3>1
    <3> QED BY <1>1, <3>1, <3>2 DEF Owed
  <2>8. ByHand(run[s])' <=> ByHand(old)
    BY <1>2, <2>3 DEF ByHand
  <2>9. ASSUME NEW t \in Txns PROVE RowInv(run[s], t)'
    <3>1. /\ t \in DOMAIN new => Aim(run[s], cat, t)' = new[t].category /\ Aim(old, cat, t) = cat[t]
          /\ t \notin DOMAIN new => Aim(run[s], cat, t)' = Aim(old, cat, t)
      BY <1>1, <1>3, <2>3, <2>7, <2>8 DEF Aim
    <3>2. Way(Aim(old, cat, t), cat[t], writes, t)
      BY <1>1 DEF RowInv
    <3>3. Way(Aim(run[s], cat, t)', cat[t], Append(writes, m), t)
      BY <1>3, <2>6, <3>1, <3>2, WaySend
    <3>4. Way(Aim(run[s], cat, t), cat[t], writes, t)'
      BY <1>3, <2>1, <3>3
    <3>5. InHand(run[s], t)' <=> t \in DOMAIN new
      BY <2>3 DEF InHand
    <3>6. (Owed(t) => InHand(run[s], t))'
      <4>1. Owed(t)' <=> Owed(t)
        BY <1>3 DEF Owed
      <4> QED BY <1>1, <1>5, <3>5, <4>1
    <3>7. (decisions[t] # Nobody /\ ~InHand(run[s], t) => decisions[t].category = Aim(run[s], cat, t))'
      BY <1>1, <1>3, <3>1, <3>5 DEF RowInv
    <3>8. (decisions[t].source = "auto" => decisions[t].category = guess[t])'
      BY <1>1, <1>3 DEF RowInv
    <3> QED BY <3>4, <3>6, <3>7, <3>8 DEF RowInv
  <2>10. CopyCurrent(run[s])'
    BY <1>2, <1>3, <2>3 DEF CopyCurrent
  <2>11. NewFits(run[s])'
    BY <1>2, <1>3, <1>5, <2>3, <2>7 DEF NewFits, Fits
  <2>12. OneAfterRules(run[s])'
    BY <1>1, <1>2, <1>3, <2>3, <2>8 DEF OneAfterRules, CategoriseInv, TypeOK, Job
  <2>13. ASSUME NEW t \in Txns
         PROVE  Aim(run[s], cat, t)' = IF t \in DOMAIN new THEN new[t].category ELSE Aim(old, cat, t)
    BY <1>1, <1>3, <2>3, <2>7, <2>8 DEF Aim
  <2>14. Empty(run[s], cat)' = (Empty(old, cat) \ DOMAIN new) \cup emptied
    BY <2>4, <2>13 DEF Empty
  <2>15. Fills(job, new) = Unfiled(cat) \cap DOMAIN new
    BY <2>4 DEF Fills, Unfiled
  <2>16. Empty(old, cat) \subseteq Unfiled(cat)
    BY <1>1, <1>2 DEF Empty, Unfiled, SmoothInv, Counted
  <2>17. job.kind = "scope" => Empty(old, cat) = Unfiled(cat)
    BY <1>1, <1>2 DEF Empty, Unfiled
  <2>18. IsFiniteSet(Unfiled(cat)) /\ IsFiniteSet(DOMAIN new)
    BY <2>4, TxnsFinite, FS_Subset DEF Unfiled
  <2>19. /\ Cardinality(Empty(run[s], cat)') <= left
         /\ job.kind = "scope" => Cardinality(Empty(run[s], cat)') = left
    <3> DEFINE D == DOMAIN new
               A == Empty(old, cat)
               U == Unfiled(cat)
    <3>1. /\ emptied \in SUBSET D /\ IsFiniteSet(D) /\ IsFiniteSet(U) /\ A \in SUBSET U
          /\ Fills(job, new) = U \cap D /\ Empty(run[s], cat)' = (A \ D) \cup emptied
          /\ (job.kind = "scope" => A = U)
          /\ left = Reckoned(U, D, emptied)
      BY <2>14, <2>15, <2>16, <2>17, <2>18 DEF left, Reckoned
    <3> HIDE DEF emptied, D, A, U, left
    <3>2. /\ Cardinality((A \ D) \cup emptied) <= Reckoned(U, D, emptied)
          /\ A = U => Cardinality((A \ D) \cup emptied) = Reckoned(U, D, emptied)
      BY <3>1, Recount
    <3> QED BY <3>1, <3>2
  <2>20. Counted(run[s])'
    BY <1>2, <2>3, <2>19 DEF SmoothInv, Counted
  <2> QED BY <2>3, <2>9, <2>10, <2>11, <2>12, <2>20 DEF SmoothInv
<1> QED BY <1>6, <1>7
(* The rows are read as they are now, ...                                    *)
LEMMA RowsSmooth ==
  ASSUME CategoriseInv, CategoriseInv', NEW s \in Slots, SmoothInv(run[s]), Rows(s)
  PROVE  SmoothInv(run[s])'
<1> DEFINE job == [run[s] EXCEPT !.rows = cat, !.left = Cardinality(Unfiled(cat))]
<1>1. Cardinality(Unfiled(cat)) \in Int
  BY UnfiledCounted
<1>2. run[s] \in Job /\ run[s].pc = "rows" /\ run[s].kind # "none" /\ run[s].read \in Copy
      /\ cat \in Rowset /\ Decide(s, job)
  BY DEF Rows, CategoriseInv, TypeOK, JobSound
<1>3. job \in Job /\ job.rows = cat /\ job.left = Cardinality(Unfiled(cat))
  BY <1>1, <1>2 DEF Job
<1>4. /\ job.pc = run[s].pc /\ job.kind = run[s].kind /\ job.read = run[s].read
      /\ job.next = run[s].next /\ job.txns = run[s].txns /\ job.to = run[s].to
  BY <1>2 DEF Job
<1> HIDE DEF job
<1> QED BY <1>2, <1>3, <1>4, DecideSmooth

(* ... or were read with the copy.                                           *)
LEMMA CountSmooth ==
  ASSUME CategoriseInv, CategoriseInv', NEW s \in Slots, SmoothInv(run[s]), Count(s)
  PROVE  SmoothInv(run[s])'
<1> DEFINE job == [run[s] EXCEPT !.left = Cardinality(Unfiled(cat))]
<1>1. Cardinality(Unfiled(cat)) \in Int
  BY UnfiledCounted
<1>2. run[s] \in Job /\ run[s].pc = "count" /\ run[s].kind # "none" /\ run[s].read \in Copy
      /\ run[s].rows \in Rowset /\ Decide(s, job)
  BY DEF Count, CategoriseInv, TypeOK, JobSound
<1>3. job \in Job /\ job.left = Cardinality(Unfiled(cat))
  BY <1>1, <1>2 DEF Job
<1>4. /\ job.pc = run[s].pc /\ job.kind = run[s].kind /\ job.read = run[s].read
      /\ job.next = run[s].next /\ job.txns = run[s].txns /\ job.to = run[s].to
      /\ job.rows = cat /\ job.rows = run[s].rows
  BY <1>2 DEF Job, SmoothInv, Counted
<1> HIDE DEF job
<1> QED BY <1>2, <1>3, <1>4, DecideSmooth

(* The copy goes back over the store it still is, once what it says has      *)
(* landed.                                                                   *)
LEMMA SaveSmooth ==
  ASSUME CategoriseInv, NEW s \in Slots, Slots = {s}, SmoothInv(run[s]), Save(s)
  PROVE  SmoothInv(run[s])'
<1> DEFINE old == run[s]
<1>1. /\ old \in Job /\ old.pc = "save" /\ old.read \in Copy /\ old.new \in New
      /\ UNCHANGED <<cat, writes, guess>> /\ decisions \in [Txns -> Decisions]
      /\ writes \in Seq(Write)
      /\ run'[s] = [old EXCEPT !.pc = "settle"]
  BY DEF Save, Go, CategoriseInv, TypeOK, JobSound
<1>2. /\ old.read.decisions = decisions /\ old.read.rules = rules
  BY <1>1 DEF SmoothInv, CopyCurrent
<1>3. /\ decisions' = [t \in Txns |-> IF t \in DOMAIN old.new THEN old.new[t] ELSE decisions[t]]
      /\ rules' = rules
  BY <1>2 DEF Save
<1>4. /\ run'[s].pc = "settle" /\ run'[s].kind = old.kind /\ run'[s].next = old.next
      /\ run'[s].txns = old.txns /\ run'[s].to = old.to /\ run'[s].left = old.left
  BY <1>1 DEF Job
<1>5. writes = <<>>
  <2>1. ~Pending(s)
    BY DEF Save, Returned
  <2>2. \A i \in DOMAIN writes : writes[i] \in Write
    BY <1>1
  <2>3. \A i \in DOMAIN writes : writes[i].of = s
    BY <2>2 DEF Write
  <2> QED BY <1>1, <2>1, <2>3 DEF Pending
<1>6. /\ ByHand(run[s])' <=> ByHand(old)
      /\ ByHand(old) <=> old.next = "one"
  BY <1>1, <1>4 DEF ByHand
<1>7. \A t \in DOMAIN old.new : Fits(old, t, old.new[t]) /\ ~(old.next = "one" /\ t \in old.txns)
  BY <1>1 DEF SmoothInv, NewFits
<1>8. ASSUME NEW t \in Txns
      PROVE  RowInv(run[s], t)' /\ (ByHand(old) /\ t \in old.txns => decisions'[t] = decisions[t])
  <2>1. RowInv(old, t) /\ Aim(old, cat, t) = cat[t]
    BY <1>5 DEF SmoothInv, RowInv, Way
  <2>2. Aim(run[s], cat, t)' = cat[t]
    BY <1>1, <1>4, <1>6, <2>1 DEF Aim
  <2>3. Way(Aim(run[s], cat, t), cat[t], writes, t)'
    BY <1>1, <1>5, <2>2 DEF Way
  <2>4. CASE t \in DOMAIN old.new
    <3>1. decisions'[t] = old.new[t] /\ Fits(old, t, old.new[t])
      BY <1>3, <1>7, <2>4
    <3>2. old.new[t].category = cat[t]
      BY <1>1, <1>6, <1>7, <2>1, <2>4 DEF Aim
    <3>3. (decisions[t].source = "auto" => decisions[t].category = guess[t])'
      BY <1>1, <3>1 DEF Fits
    <3>4. ~Owed(t)'
      BY <1>1, <1>3, <3>1, <3>2 DEF Owed, Fits
    <3> QED BY <1>1, <1>6, <1>7, <2>2, <2>3, <2>4, <3>1, <3>2, <3>3, <3>4 DEF RowInv
  <2>5. CASE t \notin DOMAIN old.new
    <3>1. decisions'[t] = decisions[t]
      BY <1>3, <2>5
    <3>2. Owed(t)' <=> Owed(t)
      BY <1>1, <1>3, <3>1 DEF Owed
    <3>3. ~InHand(old, t)
      BY <1>1, <2>5 DEF InHand
    <3> QED BY <1>1, <2>1, <2>2, <2>3, <3>1, <3>2, <3>3 DEF RowInv
  <2> QED BY <2>4, <2>5
<1>9. OneAfterRules(run[s])'
  BY <1>1, <1>4, <1>6, <1>8 DEF OneAfterRules, SmoothInv, Job
<1>10. Counted(run[s])'
  <2>1. ASSUME NEW t \in Txns PROVE Aim(old, cat, t) = cat[t] /\ Aim(run[s], cat, t)' = cat[t]
    <3>1. Aim(old, cat, t) = cat[t]
      BY <1>5 DEF SmoothInv, RowInv, Way
    <3> QED BY <1>1, <1>4, <1>6, <3>1 DEF Aim
  <2>2. Empty(run[s], cat)' = Empty(old, cat)
    BY <2>1 DEF Empty
  <2> QED BY <1>1, <1>4, <2>2 DEF SmoothInv, Counted
<1> QED BY <1>1, <1>4, <1>5, <1>8, <1>9, <1>10 DEF SmoothInv, CopyCurrent, NewFits

(* What lands was on its way.                                                *)
LEMMA LandSmooth ==
  ASSUME CategoriseInv, NEW s \in Slots, SmoothInv(run[s]), Land
  PROVE  SmoothInv(run[s])'
<1> DEFINE job == run[s]
<1>1. /\ writes # <<>> /\ writes \in Seq(Write) /\ writes' = Tail(writes)
      /\ UNCHANGED <<decisions, rules, guess, run>>
  BY DEF Land, CategoriseInv, TypeOK
<1>2. \A t \in Txns : cat'[t] = IF t \in DOMAIN Head(writes).to THEN Head(writes).to[t] ELSE cat[t]
  BY DEF Land
<1>3. ASSUME NEW t \in Txns PROVE RowInv(run[s], t)' /\ Aim(run[s], cat, t)' = Aim(job, cat, t)
  <2>1. RowInv(job, t)
    BY DEF SmoothInv
  <2>2. PICK a : a = Aim(job, cat, t)
    OBVIOUS
  <2>3. Way(a, cat'[t], Tail(writes), t) /\ (a = cat[t] => cat'[t] = cat[t])
    BY <1>1, <1>2, <2>1, <2>2, WayLand DEF RowInv
  <2>4. Aim(run[s], cat, t)' = a
    BY <1>1, <2>2, <2>3 DEF Aim, ByHand
  <2>5. Way(Aim(run[s], cat, t), cat[t], writes, t)'
    BY <1>1, <2>3, <2>4
  <2>6. InHand(run[s], t)' <=> InHand(job, t)
    BY <1>1 DEF InHand
  <2>7. (Owed(t) => InHand(run[s], t) \/ (run[s].pc = "rows" /\ run[s].kind = "rules"))'
    <3>1. SUFFICES ASSUME Owed(t)', ~InHand(job, t) PROVE job.pc = "rows" /\ job.kind = "rules"
      BY <1>1, <2>6
    <3>2. CASE cat'[t] = cat[t]
      BY <1>1, <2>1, <3>1, <3>2 DEF Owed, RowInv
    <3>3. CASE cat'[t] # cat[t]
      <4>1. ByHand(job) /\ t \in job.txns /\ job.pc # "record"
        BY <2>2, <2>3, <3>1, <3>3 DEF Aim, InHand
      <4>2. decisions[t].source = "manual"
        BY <4>1 DEF SmoothInv, OneAfterRules
      <4> QED BY <1>1, <3>1, <4>2 DEF Owed
    <3> QED BY <3>2, <3>3
  <2> QED BY <1>1, <2>1, <2>2, <2>4, <2>5, <2>6, <2>7 DEF RowInv
<1>4. CopyCurrent(run[s])' /\ OneAfterRules(run[s])' /\ NewFits(run[s])'
  BY <1>1 DEF SmoothInv, CopyCurrent, OneAfterRules, NewFits, ByHand, Fits
<1>5. run'[s].pc # "settle"
  BY <1>1 DEF SmoothInv
<1>6. Counted(run[s])'
  <2>1. Empty(run[s], cat)' = Empty(job, cat)
    BY <1>3 DEF Empty
  <2>2. job.pc = "count" => cat' = cat
    <3>1. SUFFICES ASSUME job.pc = "count", NEW t \in Txns PROVE cat'[t] = cat[t]
      BY DEF Land, CategoriseInv, TypeOK, Rowset
    <3>2. Aim(job, cat, t) = cat[t] /\ Aim(job, cat', t) = cat'[t]
      BY <3>1 DEF SmoothInv, OneAfterRules, Aim, ByHand
    <3> QED BY <1>1, <1>3, <3>2
  <2> QED BY <1>1, <2>1, <2>2 DEF SmoothInv, Counted
<1> QED BY <1>3, <1>4, <1>5, <1>6 DEF SmoothInv

(* The first state: nothing was decided, and no rule was written.            *)
LEMMA InitSmooth == ASSUME Init, NEW s \in Slots PROVE SmoothInv(run[s])
<1>1. run[s].pc = "idle" /\ writes = <<>> /\ \A t \in Txns : decisions[t] = Nobody
  BY DEF Init, Idle
<1>2. ASSUME NEW t \in Txns PROVE RowInv(run[s], t)
  <2>1. Way(cat[t], cat[t], writes, t) /\ Aim(run[s], cat, t) = cat[t]
    BY <1>1 DEF Way, Aim, ByHand
  <2>2. ~Owed(t)
    BY PartiesKnown DEF Init, Owed
  <2> QED BY <1>1, <2>1, <2>2 DEF RowInv, Nobody
<1> QED BY <1>1, <1>2 DEF SmoothInv, CopyCurrent, OneAfterRules, NewFits, ByHand, Counted

(* With one request at a time, every step that is not a crash or a failure.  *)
LEMMA StepSmooth ==
  ASSUME CategoriseInv, NEW s \in Slots, Slots = {s}, smooth => SmoothInv(run[s]), [Next]_vars
  PROVE  CategoriseInv' /\ (smooth' => SmoothInv(run[s])')
<1>1. CategoriseInv'
  BY RequestSound, ElseSound DEF Next, StepSound
<1>2. CASE Ask(s)
  <2>1. smooth' = smooth
    BY <1>2 DEF Ask, AskOne, AskParty, Learn, AskScope, Apply, Open, Forget
  <2> QED BY <1>1, <1>2, <2>1, AskSmooth
<1>3. CASE Step(s)
  <2>1. GiveUp(s) => ~smooth'
    BY DEF GiveUp
  <2>2. Step(s) => GiveUp(s) \/ smooth' = smooth
    BY DEF Step, Update, Record, Rows, Count, Save, Settle, Decide
  <2> QED BY <1>1, <1>3, <2>1, <2>2, UpdateSmooth, RecordSmooth, RowsSmooth, CountSmooth,
             SaveSmooth, SettleSmooth DEF Step
<1>4. CASE Land
  BY <1>1, <1>4, LandSmooth DEF Land
<1>5. CASE Crash
  BY <1>1, <1>5 DEF Crash
<1>6. CASE UNCHANGED vars
  <2>1. smooth' = smooth
    BY <1>6 DEF vars
  <2>2. SmoothInv(run[s])' <=> SmoothInv(run[s])
    BY <1>6 DEF vars, SmoothInv, CopyCurrent, OneAfterRules, NewFits, RowInv, Fits, ByHand,
                InHand, Owed, Way, Aim, Counted, Empty
  <2> QED BY <1>1, <2>1, <2>2
<1> QED BY <1>2, <1>3, <1>4, <1>5, <1>6 DEF Next

-----------------------------------------------------------------------------
(* With one request at a time, and where no process died and no request was  *)
(* given up on: once everything is answered, every rule has been applied to  *)
(* all it may touch.                                                         *)
THEOREM RulesObeyedHolds ==
  ASSUME NEW only, Slots = {only}
  PROVE  Spec => []RulesObeyed
<1> DEFINE IInv == CategoriseInv /\ (smooth => SmoothInv(run[only]))
<1>1. Init => IInv
  BY InitSound, InitSmooth
<1>2. IInv /\ [Next]_vars => IInv'
  BY StepSmooth
<1>3. IInv => RulesObeyed
  <2> SUFFICES ASSUME IInv, smooth, Quiet, NEW t \in Txns PROVE ~Owed(t)
    BY DEF RulesObeyed, Owed
  <2> QED BY AtRest DEF Quiet
<1> QED BY <1>1, <1>2, <1>3, PTL DEF Spec

(* ... and the category the budget shows is the one that was decided.        *)
THEOREM AgreementHolds ==
  ASSUME NEW only, Slots = {only}
  PROVE  Spec => []Agreement
<1> DEFINE IInv == CategoriseInv /\ (smooth => SmoothInv(run[only]))
<1>1. Init => IInv
  BY InitSound, InitSmooth
<1>2. IInv /\ [Next]_vars => IInv'
  BY StepSmooth
<1>3. IInv => Agreement
  <2> SUFFICES ASSUME IInv, smooth, Quiet, NEW t \in Txns, decisions[t] # Nobody
               PROVE  cat[t] = decisions[t].category
    BY DEF Agreement
  <2> QED BY AtRest DEF Quiet, SmoothInv, RowInv
<1> QED BY <1>1, <1>2, <1>3, PTL DEF Spec

(* No request waits for a number the budget, with everything landed, does    *)
(* not show: what it counted from the rows it read is what there will be.    *)
THEOREM NoFalseAlarmHolds ==
  ASSUME NEW only, Slots = {only}
  PROVE  Spec => []NoFalseAlarm
<1> DEFINE IInv == CategoriseInv /\ (smooth => SmoothInv(run[only]))
<1>1. Init => IInv
  BY InitSound, InitSmooth
<1>2. IInv /\ [Next]_vars => IInv'
  BY StepSmooth
<1>3. IInv => NoFalseAlarm
  <2> SUFFICES ASSUME IInv, smooth, writes = <<>>, run[only].pc \in {"settle", "one"}
               PROVE  Agrees(only)
    BY DEF NoFalseAlarm
  <2> DEFINE job == run[only]
  <2>1. job \in Job /\ cat \in Rowset
    BY DEF CategoriseInv, TypeOK
  <2>2. ASSUME NEW t \in Txns PROVE Aim(job, cat, t) = cat[t]
    BY DEF SmoothInv, RowInv, Way
  <2>3. CASE job.pc = "one"
    <3>1. \A t \in job.txns : t \in Txns /\ cat[t] = job.to
      BY <2>1, <2>2, <2>3 DEF Job, Aim, ByHand
    <3> QED BY <2>3, <3>1 DEF Agrees
  <2>4. CASE job.pc = "settle"
    <3>1. Empty(job, cat) = Unfiled(cat)
      BY <2>2 DEF Empty, Unfiled
    <3> QED BY <2>4, <3>1 DEF SmoothInv, Counted, Agrees
  <2> QED BY <2>3, <2>4
<1> QED BY <1>1, <1>2, <1>3, PTL DEF Spec

-----------------------------------------------------------------------------
(* Categories, with requests about them that may cross and a process that may *)
(* die.                                                                      *)

(* What a request has read when it comes to each of its steps.               *)
LEMMA StepShape ==
  ASSUME NEW d \in Cats!Step
  PROVE  /\ d.at = "idle" => d = Cats!Idle
         /\ d.at \in {"rename", "renamed"} => d.id \in Ids /\ d.was \in Names /\ d.name \in Names
         /\ d.at = "move" => d.id \in Ids /\ d.name \in Names /\ d.group \in Groups
         /\ d.at \in {"remove", "removing"} =>
              d.id \in Ids /\ d.name \in Names /\ d.income \in BOOLEAN
         /\ d.at \in {"categorise", "learn"} =>
              d.id \in Ids /\ d.name \in Names /\ d.row \in Entries /\ d.key \in Keys \cup {None}
         /\ d.at = "learn" => d.key \in Keys
         /\ d.at \in {"idle", "rename", "renamed", "move", "remove", "removing",
                      "categorise", "learn"}
BY DEF Cats!Step, Cats!Idle

(* A request that goes on keeps what it read.                                *)
LEMMA StepOn ==
  ASSUME NEW d \in Cats!Step
  PROVE  /\ d.at = "rename" => /\ [d EXCEPT !.at = "renamed"] \in Cats!Step
                               /\ [d EXCEPT !.at = "renamed"].at = "renamed"
                               /\ [d EXCEPT !.at = "renamed"].id = d.id
                               /\ [d EXCEPT !.at = "renamed"].was = d.was
                               /\ [d EXCEPT !.at = "renamed"].name = d.name
         /\ d.at = "remove" => /\ [d EXCEPT !.at = "removing"] \in Cats!Step
                               /\ [d EXCEPT !.at = "removing"].at = "removing"
                               /\ [d EXCEPT !.at = "removing"].id = d.id
                               /\ [d EXCEPT !.at = "removing"].name = d.name
                               /\ [d EXCEPT !.at = "removing"].income = d.income
                               /\ [d EXCEPT !.at = "removing"].to = d.to
         /\ d.at = "categorise" /\ d.key # None =>
                                   /\ [d EXCEPT !.at = "learn"] \in Cats!Step
                                   /\ [d EXCEPT !.at = "learn"].at = "learn"
                                   /\ [d EXCEPT !.at = "learn"].id = d.id
                                   /\ [d EXCEPT !.at = "learn"].name = d.name
                                   /\ [d EXCEPT !.at = "learn"].key = d.key
<1>1. CASE d.at = "rename"
  <2>1. d \in [at : {"rename", "renamed"}, id : Ids, was : Names, name : Names]
    BY <1>1 DEF Cats!Step, Cats!Idle
  <2> QED BY <1>1, <2>1 DEF Cats!Step
<1>2. CASE d.at = "remove"
  <2>1. d \in [at : {"remove", "removing"}, id : Ids, name : Names, income : BOOLEAN,
               to : Ids \cup {"uncategorised", "unsaid"}]
    BY <1>2 DEF Cats!Step, Cats!Idle
  <2> QED BY <1>2, <2>1 DEF Cats!Step
<1>3. CASE d.at = "categorise" /\ d.key # None
  <2>1. d \in [at : {"categorise"}, id : Ids, name : Names, row : Entries, key : Keys \cup {None}]
    BY <1>3 DEF Cats!Step, Cats!Idle
  <2> QED BY <1>3, <2>1 DEF Cats!Step
<1> QED BY <1>1, <1>2, <1>3

LEMMA NowSound ==
  ASSUME Cats!TypeOK, NEW q \in Requests, NEW d \in Cats!Step, Cats!Now(q, d)
  PROVE  /\ doing' \in [Requests -> Cats!Step] /\ doing'[q] = d
         /\ \A o \in Requests \ {q} : doing'[o] = doing[o]
BY DEF Cats!Now, Cats!TypeOK

LEMMA IdleIsStep == Cats!Idle \in Cats!Step /\ Cats!Idle.at = "idle"
BY DEF Cats!Idle, Cats!Step

(* A request that comes in. *)
CatBegins(q) ==
  \/ \E name \in Names, group \in Groups : Cats!Create(q, name, group)
  \/ \E c \in Ids, name \in Names : Cats!RenameRead(q, c, name)
  \/ \E c \in Ids, group \in Groups : Cats!MoveRead(q, c, group)
  \/ \E c \in Ids, to \in Ids \cup {"uncategorised", "unsaid"} : Cats!RemoveCount(q, c, to)
  \/ \E c \in Ids, r \in Entries, k \in Keys \cup {None} : Cats!CategoriseRead(q, c, r, k)
  \/ \E rule \in named : Cats!Forget(q, rule)
  \/ \E p \in Records, c \in Ids : Cats!SavePlan(q, p, c)
  \/ \E c \in Ids : Cats!SetAmount(q, c)

(* A request that goes on. *)
CatGoesOn(q) ==
  \/ Cats!RenameBudget(q) \/ Cats!RenameRules(q) \/ Cats!MoveBudget(q)
  \/ Cats!RemoveRefused(q) \/ Cats!RemoveStore(q) \/ Cats!RemoveBudget(q)
  \/ Cats!CategoriseFile(q) \/ Cats!Learn(q)

LEMMA CatNext ==
  Cats!Next <=> (\E q \in Requests : CatBegins(q) \/ CatGoesOn(q)) \/ Cats!Die
BY DEF Cats!Next, Cats!Request, CatBegins, CatGoesOn

LEMMA BeginsSound ==
  ASSUME Cats!TypeOK, Cats!NoneIsNone, NEW q \in Requests, CatBegins(q)
  PROVE  Cats!TypeOK'
<1> USE DEF Cats!TypeOK
<1>0. asked' \in Nat /\ deaths' \in Nat /\ doing[q] = Cats!Idle
  <2>1. Cats!Begin(q)
    BY DEF CatBegins, Cats!Create, Cats!RenameRead, Cats!MoveRead, Cats!RemoveCount,
           Cats!CategoriseRead, Cats!Forget, Cats!SavePlan, Cats!SetAmount
  <2> QED BY <2>1 DEF Cats!Begin
<1>1. ASSUME NEW name \in Names, NEW group \in Groups, Cats!Create(q, name, group)
      PROVE  Cats!TypeOK'
  <2>1. /\ \E c \in Ids : /\ category' = [category EXCEPT ![c] = [name |-> name, group |-> group]]
                          /\ income' = income \ {c}
        /\ UNCHANGED <<forward, filed, plan, named, records, meant, doing>>
    BY <1>1 DEF Cats!Create
  <2>2. category' \in [Ids -> [name : Names, group : Groups] \cup {None}]
    BY <2>1
  <2> QED BY <1>0, <2>1, <2>2
<1>2. ASSUME NEW c \in Ids, NEW name \in Names, Cats!RenameRead(q, c, name)
      PROVE  Cats!TypeOK'
  <2> DEFINE d == [at |-> "rename", id |-> c, was |-> category[c].name, name |-> name]
  <2>1. category[c].name \in Names
    BY <1>2 DEF Cats!RenameRead, Cats!Alive
  <2>2. d \in Cats!Step
    BY <2>1 DEF Cats!Step
  <2>3. Cats!Now(q, d)
    BY <1>2 DEF Cats!RenameRead
  <2>4. doing' \in [Requests -> Cats!Step]
    BY <2>2, <2>3, NowSound
  <2> QED BY <1>0, <1>2, <2>4 DEF Cats!RenameRead
<1>3. ASSUME NEW c \in Ids, NEW group \in Groups, Cats!MoveRead(q, c, group)
      PROVE  Cats!TypeOK'
  <2> DEFINE d == [at |-> "move", id |-> c, name |-> category[c].name, group |-> group]
  <2>1. category[c].name \in Names
    BY <1>3 DEF Cats!MoveRead, Cats!Alive
  <2>2. d \in Cats!Step
    BY <2>1 DEF Cats!Step
  <2>3. Cats!Now(q, d)
    BY <1>3 DEF Cats!MoveRead
  <2>4. doing' \in [Requests -> Cats!Step]
    BY <2>2, <2>3, NowSound
  <2> QED BY <1>0, <1>3, <2>4 DEF Cats!MoveRead
<1>4. ASSUME NEW c \in Ids, NEW to \in Ids \cup {"uncategorised", "unsaid"},
             Cats!RemoveCount(q, c, to)
      PROVE  Cats!TypeOK'
  <2> DEFINE d == [at |-> "remove", id |-> c, name |-> category[c].name,
                   income |-> Cats!IsIncome(c), to |-> to]
  <2>1. category[c].name \in Names /\ Cats!IsIncome(c) \in BOOLEAN
    BY <1>4 DEF Cats!RemoveCount, Cats!Alive, Cats!IsIncome
  <2>2. d \in Cats!Step
    BY <2>1 DEF Cats!Step
  <2>3. Cats!Now(q, d)
    BY <1>4 DEF Cats!RemoveCount
  <2>4. doing' \in [Requests -> Cats!Step]
    BY <2>2, <2>3, NowSound
  <2> QED BY <1>0, <1>4, <2>4 DEF Cats!RemoveCount
<1>5. ASSUME NEW c \in Ids, NEW r \in Entries, NEW k \in Keys \cup {None},
             Cats!CategoriseRead(q, c, r, k)
      PROVE  Cats!TypeOK'
  <2> DEFINE d == [at |-> "categorise", id |-> c, name |-> category[c].name, row |-> r, key |-> k]
  <2>1. category[c].name \in Names
    BY <1>5 DEF Cats!CategoriseRead, Cats!Alive
  <2>2. d \in Cats!Step
    BY <2>1 DEF Cats!Step
  <2>3. Cats!Now(q, d)
    BY <1>5 DEF Cats!CategoriseRead
  <2>4. doing' \in [Requests -> Cats!Step]
    BY <2>2, <2>3, NowSound
  <2> QED BY <1>0, <1>5, <2>4 DEF Cats!CategoriseRead
<1>6. ASSUME NEW rule \in named, Cats!Forget(q, rule)
      PROVE  Cats!TypeOK'
  BY <1>0, <1>6 DEF Cats!Forget
<1>7. ASSUME NEW p \in Records, NEW c \in Ids, Cats!SavePlan(q, p, c)
      PROVE  Cats!TypeOK'
  <2>1. category[c].name \in Names
    BY <1>7 DEF Cats!SavePlan, Cats!Alive
  <2> QED BY <1>0, <1>7, <2>1 DEF Cats!SavePlan
<1>8. ASSUME NEW c \in Ids, Cats!SetAmount(q, c)
      PROVE  Cats!TypeOK'
  BY <1>0, <1>8 DEF Cats!SetAmount
<1> QED BY <1>1, <1>2, <1>3, <1>4, <1>5, <1>6, <1>7, <1>8 DEF CatBegins

LEMMA GoesOnSound ==
  ASSUME Cats!TypeOK, Cats!NoneIsNone, NEW q \in Requests, CatGoesOn(q)
  PROVE  Cats!TypeOK'
<1> DEFINE d == doing[q]
<1>0. d \in Cats!Step /\ UNCHANGED <<asked, deaths>>
  BY DEF Cats!TypeOK, CatGoesOn, Cats!RenameBudget, Cats!RenameRules, Cats!MoveBudget,
         Cats!RemoveRefused, Cats!RemoveStore, Cats!RemoveBudget, Cats!CategoriseFile,
         Cats!Learn, Cats!Goes
<1>a. Cats!Done(q) => doing' \in [Requests -> Cats!Step]
  BY IdleIsStep, NowSound DEF Cats!Done
<1>1. CASE Cats!RenameBudget(q)
  <2>1. d.at = "rename" /\ Cats!Now(q, [d EXCEPT !.at = "renamed"])
    BY <1>1 DEF Cats!RenameBudget, Cats!Goes, Cats!Then
  <2>2. doing' \in [Requests -> Cats!Step]
    BY <1>0, <2>1, StepOn, NowSound
  <2>3. category' \in [Ids -> [name : Names, group : Groups] \cup {None}]
    BY <1>0, <1>1, <2>1, StepShape DEF Cats!RenameBudget, Cats!TypeOK, Cats!Alive
  <2> QED BY <1>0, <1>1, <2>2, <2>3 DEF Cats!RenameBudget, Cats!TypeOK
<1>2. CASE Cats!RenameRules(q)
  <2>1. d.at = "renamed" /\ d.name \in Names
    BY <1>0, <1>2, StepShape DEF Cats!RenameRules, Cats!Goes
  <2>2. \A rule \in named : Cats!Renamed(rule, d.was, d.name) \in [key : Keys, name : Names]
    BY <2>1 DEF Cats!Renamed, Cats!TypeOK
  <2> QED BY <1>0, <1>a, <1>2, <2>2 DEF Cats!RenameRules, Cats!TypeOK
<1>3. CASE Cats!MoveBudget(q)
  <2>1. d.at = "move" /\ d.name \in Names /\ d.group \in Groups
    BY <1>0, <1>3, StepShape DEF Cats!MoveBudget, Cats!Goes
  <2> QED BY <1>0, <1>a, <1>3, <2>1 DEF Cats!MoveBudget, Cats!TypeOK
<1>4. CASE Cats!RemoveRefused(q)
  BY <1>0, <1>a, <1>4 DEF Cats!RemoveRefused, Cats!TypeOK
<1>5. CASE Cats!RemoveStore(q)
  <2>1. d.at = "remove" /\ Cats!Now(q, [d EXCEPT !.at = "removing"])
    BY <1>5 DEF Cats!RemoveStore, Cats!Goes, Cats!Then
  <2>2. doing' \in [Requests -> Cats!Step]
    BY <1>0, <2>1, StepOn, NowSound
  <2>3. Cats!ToCategory(q) => Cats!Target(q) \in Ids /\ Cats!TargetName(q) \in Names
    BY <1>5 DEF Cats!RemoveStore, Cats!Accepts, Cats!ToCategory, Cats!TargetName, Cats!TypeOK,
                Cats!Alive
  <2>4. Cats!TargetName(q) \in Names \cup {None}
    BY <2>3 DEF Cats!TargetName
  <2>5. named' \subseteq [key : Keys, name : Names]
    BY <1>5, <2>3 DEF Cats!RemoveStore, Cats!Moved, Cats!TypeOK
  <2>6. records' \in [Records -> Names \cup {None}] /\ meant' \in [Records -> Ids \cup {None}]
    BY <1>5, <2>3, <2>4 DEF Cats!RemoveStore, Cats!TypeOK
  <2> QED BY <1>0, <1>5, <2>2, <2>5, <2>6 DEF Cats!RemoveStore, Cats!TypeOK
<1>6. CASE Cats!RemoveBudget(q)
  <2>1. /\ category' \in {category, [category EXCEPT ![d.id] = None]}
        /\ \/ UNCHANGED <<forward, plan>>
           \/ /\ Cats!ToCategory(q) /\ forward' = Cats!Forwarded(d.id, Cats!Target(q))
              /\ plan' \subseteq plan \cup {Cats!Target(q)}
        /\ Cats!Done(q) /\ UNCHANGED <<income, filed, named, records, meant>>
    BY <1>6 DEF Cats!RemoveBudget
  <2>2. Cats!ToCategory(q) => Cats!Target(q) \in Ids
    BY DEF Cats!ToCategory
  <2>3. forward' \in [Ids -> Ids] /\ plan' \subseteq Ids
    BY <2>1, <2>2 DEF Cats!TypeOK, Cats!Forwarded
  <2>4. category' \in [Ids -> [name : Names, group : Groups] \cup {None}]
    BY <2>1 DEF Cats!TypeOK
  <2> QED BY <1>0, <1>a, <2>1, <2>3, <2>4 DEF Cats!TypeOK
<1>7. CASE Cats!CategoriseFile(q)
  <2>1. d.at = "categorise" /\ d.id \in Ids /\ d.row \in Entries
    BY <1>0, <1>7, StepShape DEF Cats!CategoriseFile, Cats!Goes
  <2>2. d.key # None /\ Cats!Then(q, "learn") => doing' \in [Requests -> Cats!Step]
    BY <1>0, <2>1, StepOn, NowSound DEF Cats!Then
  <2>3. filed' \in [Entries -> Ids \cup {None}]
    BY <1>7, <2>1 DEF Cats!CategoriseFile, Cats!TypeOK
  <2> QED BY <1>0, <1>a, <1>7, <2>2, <2>3 DEF Cats!CategoriseFile, Cats!TypeOK
<1>8. CASE Cats!Learn(q)
  <2>1. d.at = "learn" /\ d.name \in Names /\ d.key \in Keys
    BY <1>0, <1>8, StepShape DEF Cats!Learn, Cats!Goes
  <2> QED BY <1>0, <1>a, <1>8, <2>1 DEF Cats!Learn, Cats!Remember, Cats!TypeOK
<1> QED BY <1>1, <1>2, <1>3, <1>4, <1>5, <1>6, <1>7, <1>8 DEF CatGoesOn

(* A death leaves the budget and the store as they are. *)
LEMMA DieSound ==
  ASSUME Cats!TypeOK, Cats!Die
  PROVE  Cats!TypeOK'
BY IdleIsStep DEF Cats!Die, Cats!TypeOK

LEMMA CatsInit == ASSUME Cats!Init, Cats!NoneIsNone PROVE Cats!TypeOK
<1>1. category \in [Ids -> [name : Names, group : Groups] \cup {None}]
  BY DEF Cats!Init
<1>2. income \subseteq Ids
  BY DEF Cats!Init, Cats!Alive
<1> QED BY <1>1, <1>2, IdleIsStep DEF Cats!Init, Cats!TypeOK

LEMMA CatsNext ==
  ASSUME Cats!TypeOK, Cats!NoneIsNone, [Cats!Next]_(Cats!vars)
  PROVE  Cats!TypeOK'
<1>1. CASE Cats!Next
  BY <1>1, CatNext, BeginsSound, GoesOnSound, DieSound
<1>2. CASE UNCHANGED Cats!vars
  BY <1>2 DEF Cats!vars, Cats!TypeOK
<1> QED BY <1>1, <1>2

(* What each removal under way read of money in and money out: a mark never  *)
(* changes, and no new category has an id a removal knows.                   *)
ReadSides(d) ==
  /\ d.at \in {"remove", "removing"} => (d.income <=> d.id \in income)
  /\ d.at = "removing" /\ d.to \in Ids => (d.to \in income <=> d.id \in income)

SidesInv == Cats!TypeOK /\ \A q \in Requests : ReadSides(doing[q])

(* A request that goes on, or begins, leaves what the others read true.      *)
LEMMA SidesOn ==
  ASSUME SidesInv, NEW q \in Requests, UNCHANGED income, NEW d \in Cats!Step, Cats!Now(q, d),
         ReadSides(d)
  PROVE  \A o \in Requests : ReadSides(doing[o])'
<1>1. doing'[q] = d /\ \A o \in Requests \ {q} : doing'[o] = doing[o]
  BY NowSound DEF SidesInv
<1> QED BY <1>1 DEF SidesInv, ReadSides

LEMMA SidesDone ==
  ASSUME SidesInv, NEW q \in Requests, UNCHANGED income, Cats!Done(q)
  PROVE  \A o \in Requests : ReadSides(doing[o])'
<1>1. ReadSides(Cats!Idle)
  BY IdleIsStep DEF ReadSides
<1> QED BY <1>1, IdleIsStep, SidesOn DEF Cats!Done

LEMMA SidesBegin ==
  ASSUME SidesInv, Cats!NoneIsNone, NEW q \in Requests, CatBegins(q)
  PROVE  \A o \in Requests : ReadSides(doing[o])'
<1> USE DEF SidesInv
<1>1. ASSUME NEW name \in Names, NEW group \in Groups, Cats!Create(q, name, group),
             NEW o \in Requests
      PROVE  ReadSides(doing[o])'
  <2>1. PICK c \in Ids : Cats!New(c) /\ income' = income \ {c} /\ UNCHANGED doing
    BY <1>1 DEF Cats!Create
  <2>2. CASE doing[o] = Cats!Idle
    BY <2>1, <2>2, IdleIsStep DEF ReadSides
  <2>3. CASE doing[o] # Cats!Idle
    <3>1. doing[o].id # c /\ (doing[o].at \in {"remove", "removing"} => doing[o].to # c)
      BY <2>1, <2>3 DEF Cats!New
    <3>2. ReadSides(doing[o])
      OBVIOUS
    <3> QED BY <2>1, <3>1, <3>2 DEF ReadSides
  <2> QED BY <2>2, <2>3
<1>2. ASSUME NEW c \in Ids, NEW to \in Ids \cup {"uncategorised", "unsaid"},
             Cats!RemoveCount(q, c, to)
      PROVE  \A o \in Requests : ReadSides(doing[o])'
  <2> DEFINE d == [at |-> "remove", id |-> c, name |-> category[c].name,
                   income |-> Cats!IsIncome(c), to |-> to]
  <2>1. category[c].name \in Names /\ Cats!IsIncome(c) \in BOOLEAN
    BY <1>2 DEF Cats!RemoveCount, Cats!Alive, Cats!IsIncome, Cats!TypeOK
  <2>2. d \in Cats!Step
    BY <2>1 DEF Cats!Step
  <2>3. ReadSides(d)
    BY DEF ReadSides, Cats!IsIncome
  <2>4. Cats!Now(q, d) /\ UNCHANGED income
    BY <1>2 DEF Cats!RemoveCount
  <2> HIDE DEF d
  <2> QED BY <2>2, <2>3, <2>4, SidesOn
<1>3. ASSUME UNCHANGED income, Cats!TypeOK', doing'[q].at \notin {"remove", "removing"},
             \A o \in Requests \ {q} : doing'[o] = doing[o]
      PROVE  \A o \in Requests : ReadSides(doing[o])'
  BY <1>3 DEF ReadSides
<1>4. doing[q] = Cats!Idle /\ Cats!TypeOK'
  <2>1. Cats!Begin(q)
    BY DEF CatBegins, Cats!Create, Cats!RenameRead, Cats!MoveRead, Cats!RemoveCount,
           Cats!CategoriseRead, Cats!Forget, Cats!SavePlan, Cats!SetAmount
  <2> QED BY <2>1, BeginsSound DEF Cats!Begin
<1>5. ASSUME UNCHANGED <<income, doing>>
      PROVE  \A o \in Requests : ReadSides(doing[o])'
  BY <1>5 DEF ReadSides
<1>6. ASSUME NEW d, Cats!Now(q, d), d.at \notin {"remove", "removing"}, UNCHANGED income
      PROVE  \A o \in Requests : ReadSides(doing[o])'
  BY <1>3, <1>4, <1>6 DEF Cats!Now, Cats!TypeOK
<1>7. ASSUME NEW c \in Ids, NEW name \in Names, Cats!RenameRead(q, c, name)
      PROVE  \A o \in Requests : ReadSides(doing[o])'
  BY <1>6, <1>7 DEF Cats!RenameRead
<1>8. ASSUME NEW c \in Ids, NEW group \in Groups, Cats!MoveRead(q, c, group)
      PROVE  \A o \in Requests : ReadSides(doing[o])'
  BY <1>6, <1>8 DEF Cats!MoveRead
<1>9. ASSUME NEW c \in Ids, NEW r \in Entries, NEW k \in Keys \cup {None},
             Cats!CategoriseRead(q, c, r, k)
      PROVE  \A o \in Requests : ReadSides(doing[o])'
  BY <1>6, <1>9 DEF Cats!CategoriseRead
<1> QED BY <1>1, <1>2, <1>5, <1>7, <1>8, <1>9
        DEF CatBegins, Cats!Forget, Cats!SavePlan, Cats!SetAmount

LEMMA SidesGoOn ==
  ASSUME SidesInv, Cats!NoneIsNone, NEW q \in Requests, CatGoesOn(q)
  PROVE  \A o \in Requests : ReadSides(doing[o])'
<1> DEFINE d == doing[q]
<1>0. d \in Cats!Step /\ ReadSides(d)
  BY DEF SidesInv, Cats!TypeOK
<1>1. UNCHANGED income
  BY DEF CatGoesOn, Cats!RenameBudget, Cats!RenameRules, Cats!MoveBudget, Cats!RemoveRefused,
         Cats!RemoveStore, Cats!RemoveBudget, Cats!CategoriseFile, Cats!Learn
<1>2. CASE Cats!RemoveStore(q)
  <2>1. d.at = "remove" /\ Cats!Accepts(q) /\ Cats!Now(q, [d EXCEPT !.at = "removing"])
    BY <1>2 DEF Cats!RemoveStore, Cats!Goes, Cats!Then
  <2>2. PICK e : e = [d EXCEPT !.at = "removing"]
    OBVIOUS
  <2>3. e \in Cats!Step /\ e.at = "removing" /\ e.id = d.id /\ e.income = d.income /\ e.to = d.to
    BY <1>0, <2>1, <2>2, StepOn
  <2>4. ReadSides(e)
    BY <1>0, <2>1, <2>3 DEF ReadSides, Cats!Accepts, Cats!ToCategory, Cats!Target, Cats!IsIncome
  <2> QED BY <1>1, <2>1, <2>2, <2>3, <2>4, SidesOn
<1>3. CASE Cats!RenameBudget(q)
  <2>1. d.at = "rename" /\ Cats!Now(q, [d EXCEPT !.at = "renamed"])
    BY <1>3 DEF Cats!RenameBudget, Cats!Goes, Cats!Then
  <2>2. PICK e : e = [d EXCEPT !.at = "renamed"]
    OBVIOUS
  <2>3. e \in Cats!Step /\ e.at = "renamed"
    BY <1>0, <2>1, <2>2, StepOn
  <2>4. ReadSides(e)
    BY <2>3 DEF ReadSides
  <2> QED BY <1>1, <2>1, <2>2, <2>3, <2>4, SidesOn
<1>4. CASE Cats!CategoriseFile(q) /\ ~Cats!Done(q)
  <2>1. d.at = "categorise" /\ d.key # None /\ Cats!Now(q, [d EXCEPT !.at = "learn"])
    BY <1>4 DEF Cats!CategoriseFile, Cats!Goes, Cats!Then
  <2>2. PICK e : e = [d EXCEPT !.at = "learn"]
    OBVIOUS
  <2>3. e \in Cats!Step /\ e.at = "learn"
    BY <1>0, <2>1, <2>2, StepOn
  <2>4. ReadSides(e)
    BY <2>3 DEF ReadSides
  <2> QED BY <1>1, <2>1, <2>2, <2>3, <2>4, SidesOn
<1>5. CASE Cats!Done(q)
  BY <1>1, <1>5, SidesDone
<1> QED BY <1>2, <1>3, <1>4, <1>5 DEF CatGoesOn, Cats!RenameRules, Cats!MoveBudget,
       Cats!RemoveRefused, Cats!RemoveBudget, Cats!Learn

-----------------------------------------------------------------------------
(* Whatever requests cross and wherever AYQ dies: what the store has moved   *)
(* for a removal, the budget does not refuse to move.                        *)
THEOREM RemovalNotRefusedHolds == Cats!Spec => []RemovalNotRefused
<1>0. Cats!NoneIsNone
  BY CatsAssumed DEF Cats!Assumed
<1>1. Cats!Init => SidesInv
  BY <1>0, CatsInit, IdleIsStep DEF Cats!Init, SidesInv, ReadSides
<1>2. SidesInv /\ [Cats!Next]_(Cats!vars) => SidesInv'
  <2> SUFFICES ASSUME SidesInv, [Cats!Next]_(Cats!vars) PROVE SidesInv'
    OBVIOUS
  <2>1. Cats!TypeOK'
    BY <1>0, CatsNext DEF SidesInv
  <2>2. CASE Cats!Die \/ UNCHANGED Cats!vars
    BY <2>1, <2>2, IdleIsStep DEF Cats!Die, Cats!vars, SidesInv, ReadSides
  <2>3. CASE \E q \in Requests : CatBegins(q) \/ CatGoesOn(q)
    BY <1>0, <2>1, <2>3, SidesBegin, SidesGoOn DEF SidesInv
  <2> QED BY <2>2, <2>3, CatNext
<1>3. SidesInv => RemovalNotRefused
  BY DEF SidesInv, ReadSides, RemovalNotRefused, Cats!RemovalNotRefused, Cats!Refuses,
         Cats!ToCategory, Cats!Target, Cats!IsIncome
<1> QED BY <1>1, <1>2, <1>3, PTL DEF Cats!Spec

(* A category has the name. *)
Has(c, name) == c \in Ids /\ category[c] # None /\ category[c].name = name

(* One request at a time: what it read is still so, and the rules it is about *)
(* to rename or take along are all that name no other category.              *)
Read(d) ==
  /\ d.at \in {"move", "remove", "removing", "renamed", "categorise", "learn"} => Has(d.id, d.name)
  /\ d.at = "rename" => Has(d.id, d.was)
  /\ d.at = "removing" /\ d.to \in Ids => category[d.to] # None /\ d.to # d.id

RuleHeld(d, rule) ==
  \/ \E c : Has(c, rule.name) /\ ~(d.at = "removing" /\ c = d.id)
  \/ d.at = "renamed" /\ rule.name = d.was

HeldInv(q) == Read(doing[q]) /\ \A rule \in named : RuleHeld(doing[q], rule)

LEMMA HeldBegins ==
  ASSUME Cats!TypeOK, Cats!NoneIsNone, NEW q \in Requests, HeldInv(q), CatBegins(q)
  PROVE  HeldInv(q)'
<1>0. doing[q] = Cats!Idle /\ doing[q].at = "idle"
  <2>1. Cats!Begin(q)
    BY DEF CatBegins, Cats!Create, Cats!RenameRead, Cats!MoveRead, Cats!RemoveCount,
           Cats!CategoriseRead, Cats!Forget, Cats!SavePlan, Cats!SetAmount
  <2> QED BY <2>1, IdleIsStep DEF Cats!Begin
<1>1. \A rule \in named : \E c : Has(c, rule.name)
  BY <1>0 DEF HeldInv, RuleHeld
<1>2. ASSUME NEW name \in Names, NEW group \in Groups, Cats!Create(q, name, group)
      PROVE  HeldInv(q)'
  <2>1. PICK c \in Ids \ Cats!Alive :
          category' = [category EXCEPT ![c] = [name |-> name, group |-> group]]
    BY <1>2 DEF Cats!Create
  <2>2. UNCHANGED <<named, doing>>
    BY <1>2 DEF Cats!Create
  <2>3. ASSUME NEW e, NEW n, Has(e, n) PROVE Has(e, n)'
    <3>1. e # c /\ e \in Ids
      BY <2>1, <2>3 DEF Has, Cats!Alive
    <3>2. category'[e] = category[e]
      BY <2>1, <3>1 DEF Cats!TypeOK
    <3> QED BY <2>3, <3>2 DEF Has
  <2> QED BY <1>0, <1>1, <2>2, <2>3 DEF HeldInv, Read, RuleHeld
<1>3. ASSUME UNCHANGED category, named' \subseteq named, doing' = doing
      PROVE  HeldInv(q)'
  BY <1>0, <1>1, <1>3 DEF HeldInv, Read, RuleHeld, Has
<1>4. ASSUME UNCHANGED <<category, named>>, NEW d \in Cats!Step, Cats!Now(q, d), Read(d),
             d.at \notin {"removing", "renamed"}
      PROVE  HeldInv(q)'
  <2>1. doing'[q] = d
    BY <1>4, NowSound
  <2> QED BY <1>1, <1>4, <2>1 DEF HeldInv, Read, RuleHeld, Has
<1>5. ASSUME NEW c \in Ids, NEW name \in Names, Cats!RenameRead(q, c, name)
      PROVE  HeldInv(q)'
  <2> DEFINE d == [at |-> "rename", id |-> c, was |-> category[c].name, name |-> name]
  <2>1. category[c].name \in Names /\ category[c] # None
    BY <1>5 DEF Cats!RenameRead, Cats!Alive, Cats!TypeOK
  <2>2. d \in Cats!Step /\ Read(d) /\ d.at \notin {"removing", "renamed"}
    BY <2>1 DEF Cats!Step, Read, Has
  <2> QED BY <1>4, <1>5, <2>2 DEF Cats!RenameRead
<1>6. ASSUME NEW c \in Ids, NEW group \in Groups, Cats!MoveRead(q, c, group)
      PROVE  HeldInv(q)'
  <2> DEFINE d == [at |-> "move", id |-> c, name |-> category[c].name, group |-> group]
  <2>1. category[c].name \in Names /\ category[c] # None
    BY <1>6 DEF Cats!MoveRead, Cats!Alive, Cats!TypeOK
  <2>2. d \in Cats!Step /\ Read(d) /\ d.at \notin {"removing", "renamed"}
    BY <2>1 DEF Cats!Step, Read, Has
  <2> QED BY <1>4, <1>6, <2>2 DEF Cats!MoveRead
<1>7. ASSUME NEW c \in Ids, NEW to \in Ids \cup {"uncategorised", "unsaid"},
             Cats!RemoveCount(q, c, to)
      PROVE  HeldInv(q)'
  <2> DEFINE d == [at |-> "remove", id |-> c, name |-> category[c].name,
                   income |-> Cats!IsIncome(c), to |-> to]
  <2>1. category[c].name \in Names /\ category[c] # None /\ Cats!IsIncome(c) \in BOOLEAN
    BY <1>7 DEF Cats!RemoveCount, Cats!Alive, Cats!IsIncome, Cats!TypeOK
  <2>2. d \in Cats!Step
    BY <2>1 DEF Cats!Step
  <2>3. Read(d) /\ d.at \notin {"removing", "renamed"}
    BY <2>1 DEF Read, Has
  <2> QED BY <1>4, <1>7, <2>2, <2>3 DEF Cats!RemoveCount
<1>8. ASSUME NEW c \in Ids, NEW r \in Entries, NEW k \in Keys \cup {None},
             Cats!CategoriseRead(q, c, r, k)
      PROVE  HeldInv(q)'
  <2> DEFINE d == [at |-> "categorise", id |-> c, name |-> category[c].name, row |-> r, key |-> k]
  <2>1. category[c].name \in Names /\ category[c] # None
    BY <1>8 DEF Cats!CategoriseRead, Cats!Alive, Cats!TypeOK
  <2>2. d \in Cats!Step /\ Read(d) /\ d.at \notin {"removing", "renamed"}
    BY <2>1 DEF Cats!Step, Read, Has
  <2> QED BY <1>4, <1>8, <2>2 DEF Cats!CategoriseRead
<1> QED BY <1>2, <1>3, <1>5, <1>6, <1>7, <1>8
        DEF CatBegins, Cats!Forget, Cats!SavePlan, Cats!SetAmount

LEMMA HeldGoesOn ==
  ASSUME Cats!TypeOK, Cats!NoneIsNone, NEW q \in Requests, HeldInv(q), CatGoesOn(q)
  PROVE  HeldInv(q)'
<1> DEFINE d == doing[q]
<1>0. d \in Cats!Step /\ Read(d) /\ \A rule \in named : RuleHeld(d, rule)
  BY DEF Cats!TypeOK, HeldInv
<1>1. Cats!Done(q) => doing'[q] = Cats!Idle /\ doing'[q].at = "idle"
  BY IdleIsStep, NowSound DEF Cats!Done
<1>2. CASE Cats!RenameBudget(q)
  <2>1. /\ d.at = "rename" /\ UNCHANGED named /\ Cats!Now(q, [d EXCEPT !.at = "renamed"])
        /\ category' = [c \in Ids |-> IF c = d.id /\ c \in Cats!Alive
                                THEN [category[c] EXCEPT !.name = d.name] ELSE category[c]]
    BY <1>2 DEF Cats!RenameBudget, Cats!Goes, Cats!Then
  <2>2. PICK e : e = [d EXCEPT !.at = "renamed"]
    OBVIOUS
  <2>3. e \in Cats!Step /\ e.at = "renamed" /\ e.id = d.id /\ e.was = d.was /\ e.name = d.name
    BY <1>0, <2>1, <2>2, StepOn
  <2>4. doing'[q] = e
    BY <2>1, <2>2, <2>3, NowSound
  <2>5. Has(d.id, d.was)
    BY <1>0, <2>1 DEF Read
  <2>6. Has(e.id, e.name)'
    <3>1. category[d.id] \in [name : Names, group : Groups] /\ d.id \in Ids /\ d.id \in Cats!Alive
          /\ d.name \in Names
      BY <1>0, <2>1, <2>5, StepShape DEF Has, Cats!TypeOK, Cats!Alive
    <3>2. category'[d.id] = [category[d.id] EXCEPT !.name = d.name]
      BY <2>1, <3>1
    <3>3. category'[d.id].name = d.name /\ category'[d.id] \in [name : Names, group : Groups]
      BY <3>1, <3>2
    <3> QED BY <2>3, <3>1, <3>3 DEF Has, Cats!NoneIsNone
  <2>7. ASSUME NEW rule \in named PROVE RuleHeld(e, rule)'
    <3>1. PICK c : Has(c, rule.name)
      BY <1>0, <2>1 DEF RuleHeld
    <3>2. CASE c = d.id
      BY <2>3, <2>5, <3>1, <3>2 DEF RuleHeld, Has
    <3>3. CASE c # d.id
      <4>1. category'[c] = category[c]
        BY <2>1, <3>1, <3>3 DEF Has
      <4> QED BY <2>3, <3>1, <4>1 DEF RuleHeld, Has
    <3> QED BY <3>2, <3>3
  <2>8. Read(e)'
    BY <2>3, <2>6 DEF Read, Has
  <2> QED BY <2>1, <2>4, <2>7, <2>8 DEF HeldInv, Read, RuleHeld, Has
<1>3. CASE Cats!RenameRules(q)
  <2>1. /\ d.at = "renamed" /\ UNCHANGED category /\ Cats!Done(q)
        /\ named' = {Cats!Renamed(rule, d.was, d.name) : rule \in named}
    BY <1>3 DEF Cats!RenameRules, Cats!Goes
  <2>2. Has(d.id, d.name)
    BY <1>0, <2>1 DEF Read
  <2>3. ASSUME NEW rule \in named PROVE \E c : Has(c, Cats!Renamed(rule, d.was, d.name).name)
    <3>1. rule \in [key : Keys, name : Names]
      BY DEF Cats!TypeOK
    <3>2. CASE rule.name = d.was
      BY <2>2, <3>1, <3>2 DEF Cats!Renamed
    <3>3. CASE rule.name # d.was
      BY <1>0, <2>1, <3>3 DEF Cats!Renamed, RuleHeld
    <3> QED BY <3>2, <3>3
  <2> QED BY <1>1, <2>1, <2>3 DEF HeldInv, Read, RuleHeld, Has
<1>4. CASE Cats!MoveBudget(q)
  <2>1. /\ d.at = "move" /\ UNCHANGED named /\ Cats!Done(q)
        /\ category' = [c \in Ids |-> IF c = d.id /\ c \in Cats!Alive
                                THEN [name |-> d.name, group |-> d.group] ELSE category[c]]
        /\ d.name \in Names /\ d.group \in Groups
    BY <1>0, <1>4, StepShape DEF Cats!MoveBudget, Cats!Goes
  <2>2. Has(d.id, d.name)
    BY <1>0, <2>1 DEF Read
  <2>3. ASSUME NEW c, NEW n, Has(c, n) PROVE Has(c, n)'
    <3>1. CASE c = d.id
      <4>1. category'[c] = [name |-> d.name, group |-> d.group]
        BY <2>1, <2>3, <3>1 DEF Has, Cats!Alive
      <4>2. category'[c] \in [name : Names, group : Groups]
        BY <2>1, <4>1
      <4> QED BY <2>2, <2>3, <3>1, <4>1, <4>2 DEF Has, Cats!NoneIsNone
    <3>2. CASE c # d.id
      BY <2>1, <2>3, <3>2 DEF Has
    <3> QED BY <3>1, <3>2
  <2>4. \A rule \in named : \E c : Has(c, rule.name)
    BY <1>0, <2>1 DEF RuleHeld
  <2> QED BY <1>1, <2>1, <2>3, <2>4 DEF HeldInv, Read, RuleHeld
<1>5. CASE Cats!RemoveRefused(q)
  <2>1. d.at = "remove" /\ UNCHANGED <<category, named>> /\ Cats!Done(q)
    BY <1>5 DEF Cats!RemoveRefused, Cats!Goes
  <2> QED BY <1>0, <1>1, <2>1 DEF HeldInv, Read, RuleHeld, Has
<1>6. CASE Cats!RemoveStore(q)
  <2>1. /\ d.at = "remove" /\ UNCHANGED category /\ Cats!Accepts(q)
        /\ Cats!Now(q, [d EXCEPT !.at = "removing"]) /\ named' = Cats!Moved(q)
    BY <1>6 DEF Cats!RemoveStore, Cats!Goes, Cats!Then
  <2>2. PICK e : e = [d EXCEPT !.at = "removing"]
    OBVIOUS
  <2>3. /\ e \in Cats!Step /\ e.at = "removing" /\ e.id = d.id /\ e.name = d.name
        /\ e.to = d.to
    BY <1>0, <2>1, <2>2, StepOn
  <2>4. doing'[q] = e
    BY <2>1, <2>2, <2>3, NowSound
  <2>5. Has(d.id, d.name)
    BY <1>0, <2>1 DEF Read
  <2>6. d.to \in Ids =>
          /\ category[d.to] # None /\ d.to # d.id /\ Cats!TargetName(q) = category[d.to].name
          /\ category[d.to].name \in Names
    BY <2>1 DEF Cats!Accepts, Cats!ToCategory, Cats!Target, Cats!TargetName, Cats!Alive, Cats!TypeOK
  <2>7. ASSUME NEW rule \in named'
        PROVE  \/ rule \in named /\ rule.name # d.name
               \/ d.to \in Ids /\ rule.name = category[d.to].name
    <3>1. CASE rule \in named /\ rule.name # d.name
      BY <3>1
    <3>2. CASE ~(rule \in named /\ rule.name # d.name)
      <4>1. d.to \in Ids
        BY <2>1, <2>7, <3>2 DEF Cats!Moved, Cats!ToCategory, Cats!Target
      <4>2. PICK old \in named : rule = [old EXCEPT !.name = Cats!TargetName(q)]
        BY <2>1, <2>7, <3>2, <4>1 DEF Cats!Moved, Cats!ToCategory, Cats!Target
      <4>3. old \in [key : Keys, name : Names]
        BY DEF Cats!TypeOK
      <4>4. rule.name = Cats!TargetName(q)
        BY <4>2, <4>3
      <4> QED BY <2>6, <4>1, <4>4
    <3> QED BY <3>1, <3>2
  <2>8. ASSUME NEW rule \in named' PROVE RuleHeld(e, rule)
    <3>1. CASE rule \in named /\ rule.name # d.name
      <4>1. PICK c : Has(c, rule.name)
        BY <1>0, <2>1, <3>1 DEF RuleHeld
      <4>2. c # d.id
        BY <2>5, <3>1, <4>1 DEF Has
      <4> QED BY <2>3, <4>1, <4>2 DEF RuleHeld
    <3>2. CASE d.to \in Ids /\ rule.name = category[d.to].name
      BY <2>3, <2>6, <3>2 DEF RuleHeld, Has
    <3> QED BY <2>7, <3>1, <3>2
  <2>9. Read(e)
    BY <2>3, <2>5, <2>6 DEF Read
  <2> QED BY <2>1, <2>4, <2>8, <2>9 DEF HeldInv, Read, RuleHeld, Has
<1>7. CASE Cats!RemoveBudget(q)
  <2>1. /\ d.at = "removing" /\ UNCHANGED named /\ Cats!Done(q)
        /\ category' \in {category, [category EXCEPT ![d.id] = None]}
    BY <1>7 DEF Cats!RemoveBudget, Cats!Goes
  <2>2. ASSUME NEW rule \in named PROVE \E c : Has(c, rule.name)'
    <3>1. PICK c : Has(c, rule.name) /\ c # d.id
      BY <1>0, <2>1 DEF RuleHeld
    <3>2. category'[c] = category[c]
      BY <2>1, <3>1 DEF Has, Cats!TypeOK
    <3> QED BY <3>1, <3>2 DEF Has
  <2> QED BY <1>1, <2>1, <2>2 DEF HeldInv, Read, RuleHeld
<1>8. CASE Cats!CategoriseFile(q)
  <2>1. /\ d.at = "categorise" /\ UNCHANGED <<category, named>>
        /\ (Cats!Done(q) \/ (d.key # None /\ Cats!Now(q, [d EXCEPT !.at = "learn"])))
    BY <1>8 DEF Cats!CategoriseFile, Cats!Goes, Cats!Then
  <2>2. \A rule \in named : \E c : Has(c, rule.name)
    BY <1>0, <2>1 DEF RuleHeld
  <2>3. CASE Cats!Done(q)
    BY <1>1, <2>1, <2>2, <2>3 DEF HeldInv, Read, RuleHeld, Has
  <2>4. CASE d.key # None /\ Cats!Now(q, [d EXCEPT !.at = "learn"])
    <3>1. PICK e : e = [d EXCEPT !.at = "learn"]
      OBVIOUS
    <3>2. e \in Cats!Step /\ e.at = "learn" /\ e.id = d.id /\ e.name = d.name
      BY <1>0, <2>1, <2>4, <3>1, StepOn
    <3>3. doing'[q] = e
      BY <2>4, <3>1, <3>2, NowSound
    <3>4. Has(d.id, d.name)
      BY <1>0, <2>1 DEF Read
    <3> QED BY <2>1, <2>2, <3>2, <3>3, <3>4 DEF HeldInv, Read, RuleHeld, Has
  <2> QED BY <2>1, <2>3, <2>4
<1>9. CASE Cats!Learn(q)
  <2>1. /\ d.at = "learn" /\ UNCHANGED category /\ Cats!Done(q)
        /\ named' = Cats!Remember(d.key, d.name)
    BY <1>9 DEF Cats!Learn, Cats!Goes
  <2>2. Has(d.id, d.name)
    BY <1>0, <2>1 DEF Read
  <2>3. \A rule \in named : \E c : Has(c, rule.name)
    BY <1>0, <2>1 DEF RuleHeld
  <2>4. \A rule \in named' : \E c : Has(c, rule.name)
    BY <2>1, <2>2, <2>3 DEF Cats!Remember
  <2> QED BY <1>1, <2>1, <2>4 DEF HeldInv, Read, RuleHeld, Has
<1> QED BY <1>2, <1>3, <1>4, <1>5, <1>6, <1>7, <1>8, <1>9 DEF CatGoesOn

(* Where one request is answered at a time and nothing dies in the middle:   *)
(* once it has ended, every rule names a category there is.                  *)
THEOREM RulesLiveHolds ==
  ASSUME NEW only, Requests = {only}, MaxDeaths = 0
  PROVE  Cats!Spec => []RulesLive
<1>0. Cats!NoneIsNone
  BY CatsAssumed DEF Cats!Assumed
<1> DEFINE IInv == Cats!TypeOK /\ HeldInv(only)
<1>1. Cats!Init => IInv
  BY <1>0, CatsInit, IdleIsStep DEF Cats!Init, HeldInv, Read
<1>2. IInv /\ [Cats!Next]_(Cats!vars) => IInv'
  <2> SUFFICES ASSUME IInv, [Cats!Next]_(Cats!vars) PROVE IInv'
    OBVIOUS
  <2>1. Cats!TypeOK'
    BY <1>0, CatsNext
  <2>2. ~Cats!Die
    BY DEF Cats!Die, Cats!TypeOK
  <2>3. CASE UNCHANGED Cats!vars
    BY <2>1, <2>3 DEF Cats!vars, HeldInv, Read, RuleHeld, Has
  <2> QED BY <1>0, <2>1, <2>2, <2>3, CatNext, HeldBegins, HeldGoesOn
<1>3. IInv => RulesLive
  BY IdleIsStep DEF RulesLive, Cats!RulesLive, Cats!Quiet, HeldInv, RuleHeld, Has, Cats!Named, Cats!Alive
<1> QED BY <1>1, <1>2, <1>3, PTL DEF Cats!Spec

(* One request at a time: nothing is filed in what is removed without a word. *)
UnsaidUnused(q) ==
  doing[q].at \in {"remove", "removing"} /\ doing[q].to = "unsaid" =>
    \A r \in Entries : Cats!Shown(r) # doing[q].id

(* What was filed in a category that stays is shown as it was.               *)
LEMMA StaysShown ==
  ASSUME Cats!TypeOK, Cats!NoneIsNone, NEW r \in Entries, UNCHANGED forward, filed'[r] = filed[r],
         Cats!Shown(r) # None, category'[Cats!Shown(r)] # None
  PROVE  Cats!Shown(r)' = Cats!Shown(r)
<1>1. /\ filed[r] # None /\ Cats!Shown(r) = forward[filed[r]]
      /\ Cats!Shown(r) \in Ids /\ category[Cats!Shown(r)] # None
  BY DEF Cats!Shown, Cats!Alive
<1>2. forward[filed[r]] \in Cats!Alive'
  BY <1>1 DEF Cats!Alive
<1> QED BY <1>1, <1>2 DEF Cats!Shown

(* A category that is shown is one there is.                                 *)
LEMMA ShownThere ==
  ASSUME Cats!NoneIsNone, NEW r \in Entries, Cats!Shown(r) # None
  PROVE  /\ filed[r] # None /\ Cats!Shown(r) = forward[filed[r]]
         /\ Cats!Shown(r) \in Ids /\ category[Cats!Shown(r)] # None
BY DEF Cats!Shown, Cats!Alive

LEMMA SaidBegins ==
  ASSUME Cats!TypeOK, Cats!NoneIsNone, NEW q \in Requests, CatBegins(q)
  PROVE  UnsaidUnused(q)' /\ Cats!KeepsUnlessSaid
<1>0. doing[q].at = "idle"
  <2>1. Cats!Begin(q)
    BY DEF CatBegins, Cats!Create, Cats!RenameRead, Cats!MoveRead, Cats!RemoveCount,
           Cats!CategoriseRead, Cats!Forget, Cats!SavePlan, Cats!SetAmount
  <2> QED BY <2>1, IdleIsStep DEF Cats!Begin
<1>1. /\ UNCHANGED <<filed, forward>>
      /\ \A c \in Ids : category[c] # None => category'[c] # None
  <2>1. ASSUME NEW name \in Names, NEW group \in Groups, Cats!Create(q, name, group)
        PROVE  /\ UNCHANGED <<filed, forward>>
               /\ \A c \in Ids : category[c] # None => category'[c] # None
    BY <2>1 DEF Cats!Create, Cats!Alive, Cats!TypeOK
  <2> QED BY <2>1 DEF CatBegins, Cats!RenameRead, Cats!MoveRead, Cats!RemoveCount,
           Cats!CategoriseRead, Cats!Forget, Cats!SavePlan, Cats!SetAmount
<1>2. Cats!KeepsUnlessSaid
  BY <1>1, StaysShown, ShownThere DEF Cats!KeepsUnlessSaid
<1>3. UnsaidUnused(q)'
  <2>1. ASSUME NEW c \in Ids, NEW to \in Ids \cup {"uncategorised", "unsaid"},
               Cats!RemoveCount(q, c, to)
        PROVE  UnsaidUnused(q)'
    <3>1. doing'[q].id = c /\ doing'[q].to = to /\ UNCHANGED <<filed, forward, category>>
      BY <2>1 DEF Cats!RemoveCount, Cats!Now, Cats!TypeOK
    <3>2. to = "unsaid" => \A r \in Entries : Cats!Shown(r) # c
      BY <2>1 DEF Cats!RemoveCount, Cats!Unused
    <3>3. \A r \in Entries : Cats!Shown(r)' = Cats!Shown(r)
      BY <3>1 DEF Cats!Shown, Cats!Alive
    <3> QED BY <3>1, <3>2, <3>3 DEF UnsaidUnused
  <2>2. ASSUME NEW d, Cats!Now(q, d), d.at \notin {"remove", "removing"}
        PROVE  UnsaidUnused(q)'
    BY <2>2 DEF Cats!Now, Cats!TypeOK, UnsaidUnused
  <2>3. ASSUME UNCHANGED doing PROVE UnsaidUnused(q)'
    BY <1>0, <2>3 DEF UnsaidUnused
  <2>4. ASSUME NEW c \in Ids, NEW name \in Names, Cats!RenameRead(q, c, name)
        PROVE  UnsaidUnused(q)'
    BY <2>2, <2>4 DEF Cats!RenameRead
  <2>5. ASSUME NEW c \in Ids, NEW group \in Groups, Cats!MoveRead(q, c, group)
        PROVE  UnsaidUnused(q)'
    BY <2>2, <2>5 DEF Cats!MoveRead
  <2>6. ASSUME NEW c \in Ids, NEW r \in Entries, NEW k \in Keys \cup {None},
               Cats!CategoriseRead(q, c, r, k)
        PROVE  UnsaidUnused(q)'
    BY <2>2, <2>6 DEF Cats!CategoriseRead
  <2> QED BY <2>1, <2>3, <2>4, <2>5, <2>6
          DEF CatBegins, Cats!Create, Cats!Forget, Cats!SavePlan, Cats!SetAmount
<1> QED BY <1>2, <1>3

LEMMA SaidGoesOn ==
  ASSUME Cats!TypeOK, Cats!NoneIsNone, NEW q \in Requests, HeldInv(q), UnsaidUnused(q), CatGoesOn(q)
  PROVE  UnsaidUnused(q)' /\ Cats!KeepsUnlessSaid
<1> DEFINE d == doing[q]
<1>0. d \in Cats!Step /\ Read(d)
  BY DEF Cats!TypeOK, HeldInv
<1>1. ASSUME doing'[q].at \notin {"remove", "removing"} PROVE UnsaidUnused(q)'
  BY <1>1 DEF UnsaidUnused
<1>2. Cats!Done(q) => doing'[q].at = "idle"
  BY IdleIsStep, NowSound DEF Cats!Done
<1>3. ASSUME UNCHANGED forward, \A c \in Ids : category[c] # None => category'[c] # None,
             NEW r \in Entries, filed'[r] = filed[r], Cats!Shown(r) # None
      PROVE  Cats!Shown(r)' # None
  BY <1>3, StaysShown, ShownThere
<1>4. CASE Cats!RenameBudget(q)
  <2>1. /\ d.at = "rename" /\ Cats!Now(q, [d EXCEPT !.at = "renamed"])
        /\ UNCHANGED <<forward, filed>>
        /\ category' = [c \in Ids |-> IF c = d.id /\ c \in Cats!Alive
                                THEN [category[c] EXCEPT !.name = d.name] ELSE category[c]]
    BY <1>4 DEF Cats!RenameBudget, Cats!Goes, Cats!Then
  <2>2. d.name \in Names
    BY <1>0, <2>1, StepShape
  <2>3. \A c \in Ids : category[c] # None => category'[c] # None
    BY <2>1, <2>2 DEF Cats!TypeOK, Cats!NoneIsNone
  <2>4. doing'[q].at = "renamed"
    <3>1. PICK e : e = [d EXCEPT !.at = "renamed"]
      OBVIOUS
    <3>2. e \in Cats!Step /\ e.at = "renamed"
      BY <1>0, <2>1, <3>1, StepOn
    <3> QED BY <2>1, <3>1, <3>2, NowSound
  <2> QED BY <1>1, <1>3, <2>1, <2>3, <2>4 DEF Cats!KeepsUnlessSaid
<1>5. CASE Cats!MoveBudget(q)
  <2>1. /\ d.at = "move" /\ Cats!Done(q) /\ UNCHANGED <<forward, filed>>
        /\ category' = [c \in Ids |-> IF c = d.id /\ c \in Cats!Alive
                                THEN [name |-> d.name, group |-> d.group] ELSE category[c]]
    BY <1>5 DEF Cats!MoveBudget, Cats!Goes
  <2>2. [name |-> d.name, group |-> d.group] \in [name : Names, group : Groups]
    BY <1>0, <2>1, StepShape
  <2>3. \A c \in Ids : category[c] # None => category'[c] # None
    BY <2>1, <2>2 DEF Cats!TypeOK, Cats!NoneIsNone
  <2> QED BY <1>1, <1>2, <1>3, <2>1, <2>3 DEF Cats!KeepsUnlessSaid
<1>6. CASE Cats!RenameRules(q) \/ Cats!RemoveRefused(q) \/ Cats!Learn(q)
  <2>1. Cats!Done(q) /\ UNCHANGED <<category, forward>>
    BY <1>6 DEF Cats!RenameRules, Cats!RemoveRefused, Cats!Learn
  <2> QED BY <1>1, <1>2, <1>3, <2>1 DEF Cats!KeepsUnlessSaid
<1>7. CASE Cats!CategoriseFile(q)
  <2>1. /\ d.at = "categorise" /\ UNCHANGED <<category, forward>>
        /\ (Cats!Done(q) \/ (d.key # None /\ Cats!Now(q, [d EXCEPT !.at = "learn"])))
    BY <1>7 DEF Cats!CategoriseFile, Cats!Goes, Cats!Then
  <2>2. doing'[q].at \in {"idle", "learn"}
    <3>1. CASE Cats!Done(q)
      BY <1>2, <3>1
    <3>2. CASE d.key # None /\ Cats!Now(q, [d EXCEPT !.at = "learn"])
      <4>1. PICK e : e = [d EXCEPT !.at = "learn"]
        OBVIOUS
      <4>2. e \in Cats!Step /\ e.at = "learn"
        BY <1>0, <2>1, <3>2, <4>1, StepOn
      <4> QED BY <3>2, <4>1, <4>2, NowSound
    <3> QED BY <2>1, <3>1, <3>2
  <2> QED BY <1>1, <1>3, <2>1, <2>2 DEF Cats!KeepsUnlessSaid
<1>8. CASE Cats!RemoveStore(q)
  <2>1. d.at = "remove" /\ UNCHANGED <<category, forward, filed>>
        /\ Cats!Now(q, [d EXCEPT !.at = "removing"])
    BY <1>8 DEF Cats!RemoveStore, Cats!Goes, Cats!Then
  <2>2. doing'[q].to = d.to /\ doing'[q].id = d.id
    <3>1. PICK e : e = [d EXCEPT !.at = "removing"]
      OBVIOUS
    <3>2. e \in Cats!Step /\ e.to = d.to /\ e.id = d.id
      BY <1>0, <2>1, <3>1, StepOn
    <3> QED BY <2>1, <3>1, <3>2, NowSound
  <2>3. \A r \in Entries : Cats!Shown(r)' = Cats!Shown(r)
    BY <2>1 DEF Cats!Shown, Cats!Alive
  <2> QED BY <2>1, <2>2, <2>3 DEF UnsaidUnused, Cats!KeepsUnlessSaid
<1>9. CASE Cats!RemoveBudget(q)
  <2>1. /\ d.at = "removing" /\ Cats!Done(q) /\ UNCHANGED filed /\ d.id \in Ids
        /\ d.to \in Ids \cup {"uncategorised", "unsaid"}
    BY <1>0, <1>9 DEF Cats!RemoveBudget, Cats!Goes, Cats!Step, Cats!Idle
  <2>2. \/ UNCHANGED <<category, forward>>
        \/ /\ category' = [category EXCEPT ![d.id] = None]
           /\ IF d.to \in Ids THEN forward' = Cats!Forwarded(d.id, d.to) ELSE UNCHANGED forward
    BY <1>9 DEF Cats!RemoveBudget, Cats!ToCategory, Cats!Target
  <2>3. ASSUME NEW r \in Entries, Cats!Shown(r) # None, d.to # "uncategorised" \/ d.to \in Ids
        PROVE  Cats!Shown(r)' # None
    <3>1. /\ filed[r] \in Ids /\ filed[r] # None /\ Cats!Shown(r) = forward[filed[r]]
          /\ Cats!Shown(r) \in Ids /\ category[Cats!Shown(r)] # None
      BY <2>3, ShownThere DEF Cats!TypeOK
    <3>2. CASE UNCHANGED <<category, forward>>
      BY <1>3, <2>1, <2>3, <3>2
    <3>3. CASE /\ d.to \in Ids /\ category' = [category EXCEPT ![d.id] = None]
               /\ forward' = Cats!Forwarded(d.id, d.to)
      <4>1. category[d.to] # None /\ d.to # d.id
        BY <1>0, <2>1, <3>3 DEF Read
      <4>2. forward'[filed[r]] = d.to \/ (forward'[filed[r]] = forward[filed[r]] /\ forward[filed[r]] # d.id)
        BY <3>1, <3>3 DEF Cats!Forwarded
      <4>3. forward'[filed[r]] \in Ids /\ category'[forward'[filed[r]]] # None
        BY <3>1, <3>3, <4>1, <4>2 DEF Cats!TypeOK
      <4>4. Cats!Shown(r)' = forward'[filed[r]]
        BY <2>1, <3>1, <4>3 DEF Cats!Shown, Cats!Alive
      <4> QED BY <4>3, <4>4 DEF Cats!NoneIsNone
    <3>4. CASE /\ d.to = "unsaid" /\ category' = [category EXCEPT ![d.id] = None]
               /\ UNCHANGED forward
      <4>1. Cats!Shown(r) # d.id
        BY <2>1, <3>4 DEF UnsaidUnused
      <4>2. category'[Cats!Shown(r)] # None
        BY <3>1, <3>4, <4>1 DEF Cats!TypeOK
      <4> QED BY <2>1, <2>3, <3>4, <4>2, StaysShown
    <3> QED BY <2>1, <2>2, <2>3, <3>2, <3>3, <3>4
  <2> QED BY <1>1, <1>2, <2>1, <2>3 DEF Cats!KeepsUnlessSaid
<1> QED BY <1>4, <1>5, <1>6, <1>7, <1>8, <1>9 DEF CatGoesOn

(* Under the same conditions, a transaction loses its category only where    *)
(* its owner said so, however often what it was filed in was moved along.    *)
THEOREM SaidSoHolds ==
  ASSUME NEW only, Requests = {only}, MaxDeaths = 0
  PROVE  Cats!Spec => SaidSo
<1>0. Cats!NoneIsNone
  BY CatsAssumed DEF Cats!Assumed
<1> DEFINE IInv == Cats!TypeOK /\ HeldInv(only) /\ UnsaidUnused(only)
<1>1. Cats!Init => IInv
  BY <1>0, CatsInit, IdleIsStep DEF Cats!Init, HeldInv, Read, UnsaidUnused
<1>2. ASSUME IInv, [Cats!Next]_(Cats!vars)
      PROVE  IInv' /\ (part = "alone" => Cats!KeepsUnlessSaid)
  <2>1. Cats!TypeOK'
    BY <1>0, <1>2, CatsNext
  <2>2. ~Cats!Die
    BY <1>2 DEF Cats!Die, Cats!TypeOK
  <2>3. CASE UNCHANGED Cats!vars
    BY <1>2, <2>1, <2>3 DEF Cats!vars, HeldInv, Read, RuleHeld, Has, UnsaidUnused,
       Cats!KeepsUnlessSaid, Cats!Shown, Cats!Alive
  <2> QED BY <1>0, <1>2, <2>1, <2>2, <2>3, CatNext, HeldBegins, HeldGoesOn, SaidBegins, SaidGoesOn
<1> QED BY <1>1, <1>2, PTL DEF Cats!Spec, SaidSo

(* Whatever requests cross and wherever AYQ dies, a counterparty has one rule. *)
THEOREM OneRuleEachHolds == Cats!Spec => []Cats!OneRuleEach
<1>0. Cats!NoneIsNone
  BY CatsAssumed DEF Cats!Assumed
<1> DEFINE IInv == Cats!TypeOK /\ Cats!OneRuleEach
<1>1. Cats!Init => IInv
  BY <1>0, CatsInit DEF Cats!Init, Cats!OneRuleEach
<1>2. IInv /\ [Cats!Next]_(Cats!vars) => IInv'
  <2> SUFFICES ASSUME IInv, [Cats!Next]_(Cats!vars) PROVE IInv'
    OBVIOUS
  <2>1. Cats!TypeOK'
    BY <1>0, CatsNext
  <2>2. named \subseteq [key : Keys, name : Names]
    BY DEF Cats!TypeOK
  <2>3. CASE named' \subseteq named
    BY <2>1, <2>3 DEF Cats!OneRuleEach
  <2>4. ASSUME NEW q \in Requests, Cats!RenameRules(q) PROVE Cats!OneRuleEach'
    <3>1. named' = {Cats!Renamed(rule, doing[q].was, doing[q].name) : rule \in named}
      BY <2>4 DEF Cats!RenameRules
    <3>2. \A rule \in named : Cats!Renamed(rule, doing[q].was, doing[q].name).key = rule.key
      BY <2>2 DEF Cats!Renamed
    <3> QED BY <3>1, <3>2 DEF Cats!OneRuleEach
  <2>5. ASSUME NEW q \in Requests, Cats!RemoveStore(q) PROVE Cats!OneRuleEach'
    <3> DEFINE mine == {rule \in named : rule.name = doing[q].name}
               to(rule) == [rule EXCEPT !.name = Cats!TargetName(q)]
    <3>1. named' \subseteq (named \ mine) \cup {to(rule) : rule \in mine}
      BY <2>5 DEF Cats!RemoveStore, Cats!Moved
    <3>2. \A rule \in mine : to(rule).key = rule.key
      BY <2>2
    <3> HIDE DEF to
    <3> QED BY <3>1, <3>2 DEF Cats!OneRuleEach
  <2>6. ASSUME NEW q \in Requests, Cats!Learn(q) PROVE Cats!OneRuleEach'
    BY <2>6 DEF Cats!Learn, Cats!Remember, Cats!OneRuleEach
  <2>7. \/ named' \subseteq named
        \/ \E q \in Requests : Cats!RenameRules(q) \/ Cats!RemoveStore(q) \/ Cats!Learn(q)
    BY DEF Cats!Next, Cats!Request, Cats!vars, Cats!Create, Cats!RenameRead, Cats!RenameBudget, Cats!MoveRead,
           Cats!MoveBudget, Cats!RemoveCount, Cats!RemoveRefused, Cats!RemoveBudget,
           Cats!CategoriseRead, Cats!CategoriseFile, Cats!Forget, Cats!SavePlan,
           Cats!SetAmount, Cats!Die
  <2> QED BY <2>1, <2>3, <2>4, <2>5, <2>6, <2>7
<1>3. IInv => Cats!OneRuleEach
  OBVIOUS
<1> QED BY <1>1, <1>2, <1>3, PTL DEF Cats!Spec
=============================================================================
