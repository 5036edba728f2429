-------------------------- MODULE AyqIdentityProofs --------------------------
(* The alias table stays flat and no counterparty has two rules, for any     *)
(* keys, rows, folding rule and number of requests at a time: a copy of the  *)
(* store that is written back late is old, and was sound when it was read.   *)
(* Where requests do not cross, every payee follows from the identities.     *)
EXTENDS MCAyqIdentity, FiniteSetTheorems, SequenceTheorems, TLAPS

Sound(st) == st \in Stores /\ FlatTable(st) /\ OneRuleEach(st)

JobSound(job) ==
  JobOK(job) /\ (job.pc \in {"wanted", "move", "settle", "rules"} => Sound(job.read))

IdentityInv == TypeOK /\ Sound(store) /\ \A s \in Slots : JobSound(run[s])

-----------------------------------------------------------------------------
(* Writing an alias keeps the table flat. *)
LEMMA TableFlat ==
  ASSUME NEW st, st \in Stores, FlatTable(st), NEW v \in Keys, NEW t \in Keys,
         ~Refused(st, v, t)
  PROVE  /\ Target(st, t) \in Keys
         /\ WithAlias(st, v, t).alias = Table(st, v, Target(st, t))
         /\ Table(st, v, Target(st, t)) \in [Keys -> Keys \cup {None}]
         /\ FlatTable(WithAlias(st, v, t))
<1> DEFINE c == Target(st, t)
           new == Table(st, v, c)
<1> USE NoneIsNone
<1>1. c \in Keys /\ c # v /\ st.alias[c] = None
  BY DEF Target, Refused, Stores, FlatTable
<1>2. new \in [Keys -> Keys \cup {None}]
  BY <1>1 DEF Table, Stores
<1>3. new[c] = None
  BY <1>1 DEF Table
<1>4. ASSUME NEW k \in Keys, new[k] # None
      PROVE  new[k] # k /\ new[new[k]] = None
  <2>1. CASE k = v \/ st.alias[k] = v
    <3>1. new[k] = c
      BY <2>1 DEF Table
    <3>2. k # c
      BY <2>1, <1>1, NoneIsNone
    <3> QED BY <3>1, <3>2, <1>3
  <2>2. CASE k # v /\ st.alias[k] # v
    <3>1. new[k] = st.alias[k]
      BY <2>2 DEF Table
    <3>2. st.alias[k] \in Keys /\ st.alias[k] # k /\ st.alias[st.alias[k]] = None
      BY <3>1, <1>4 DEF FlatTable, Stores
    <3>3. new[st.alias[k]] = None
      BY <3>2, <2>2 DEF Table
    <3> QED BY <3>1, <3>2, <3>3
  <2> QED BY <2>1, <2>2
<1>5. WithAlias(st, v, t).alias = new
  BY DEF WithAlias, Stores
<1> QED BY <1>1, <1>2, <1>4, <1>5 DEF FlatTable

(* Nor do two rules meet on one counterparty. *)
LEMMA RulesSingle ==
  ASSUME NEW st, st \in Stores, OneRuleEach(st), NEW v \in Keys, NEW c \in Keys
  PROVE  /\ MovedRules(st, v, c) \subseteq Rule
         /\ \A r, q \in MovedRules(st, v, c) : r.key = q.key => r = q
<1>0. st.rules \subseteq Rule
  BY DEF Stores
<1>1. CASE \E r \in st.rules : r.key = c
  <2>1. MovedRules(st, v, c) = {r \in st.rules : r.key # v}
    BY <1>1 DEF MovedRules
  <2> QED BY <2>1, <1>0 DEF OneRuleEach
<1>2. CASE ~\E r \in st.rules : r.key = c
  <2> DEFINE moved(r) == [r EXCEPT !.key = IF r.key = v THEN c ELSE r.key]
  <2>1. MovedRules(st, v, c) = {moved(r) : r \in st.rules}
    BY <1>2 DEF MovedRules
  <2>2. ASSUME NEW r \in st.rules
        PROVE  /\ moved(r) \in Rule
               /\ moved(r).key = IF r.key = v THEN c ELSE r.key
    BY <1>0 DEF Rule
  <2>3. ASSUME NEW r \in st.rules, NEW q \in st.rules, moved(r).key = moved(q).key
        PROVE  moved(r) = moved(q)
    <3>1. r.key # c /\ q.key # c
      BY <1>2
    <3>2. r.key = q.key
      BY <2>2, <2>3, <3>1
    <3>3. r = q
      BY <3>2 DEF OneRuleEach
    <3> QED BY <3>3
  <2>4. MovedRules(st, v, c) \subseteq Rule
    BY <2>1, <2>2
  <2>5. ASSUME NEW m \in MovedRules(st, v, c), NEW n \in MovedRules(st, v, c), m.key = n.key
        PROVE  m = n
    <3>1. PICK r \in st.rules : m = moved(r)
      BY <2>1
    <3>2. PICK q \in st.rules : n = moved(q)
      BY <2>1
    <3> QED BY <3>1, <3>2, <2>3, <2>5
  <2> QED BY <2>4, <2>5
<1> QED BY <1>1, <1>2

(* So an alias leaves a sound store sound. *)
LEMMA AliasSound ==
  ASSUME NEW st, Sound(st), NEW v \in Keys, NEW t \in Keys, ~Refused(st, v, t)
  PROVE  Sound(WithAlias(st, v, t))
<1> DEFINE c == Target(st, t)
           new == WithAlias(st, v, t)
<1>0. st \in Stores /\ FlatTable(st) /\ OneRuleEach(st)
  BY DEF Sound
<1>1. c \in Keys /\ Table(st, v, c) \in [Keys -> Keys \cup {None}] /\ FlatTable(new)
  BY <1>0, TableFlat
<1>2. /\ MovedRules(st, v, c) \subseteq Rule
      /\ \A r, q \in MovedRules(st, v, c) : r.key = q.key => r = q
  BY <1>0, <1>1, RulesSingle
<1>3. CarriedNames(st, v, c) \in [Keys -> Titles \cup {None}]
  BY <1>0, <1>1 DEF CarriedNames, Stores
<1>4. new.rules = MovedRules(st, v, c)
  BY <1>0 DEF WithAlias, Stores
<1>5. new \in Stores
  BY <1>0, <1>1, <1>2, <1>3 DEF WithAlias, Stores
<1> QED BY <1>1, <1>2, <1>4, <1>5 DEF Sound, OneRuleEach

-----------------------------------------------------------------------------
(* A request that goes on leaves the others where they are. *)
LEMMA GoSound ==
  ASSUME IdentityInv, NEW s \in Slots, NEW job \in Job, JobSound(job), Go(s, job),
         Sound(store'), payee' \in [Rows -> Keys], open' \in BOOLEAN, smooth' \in BOOLEAN
  PROVE  IdentityInv'
<1>1. run' \in [Slots -> Job]
  BY DEF Go, IdentityInv, TypeOK
<1>2. \A q \in Slots : JobSound(run'[q])
  BY DEF Go, IdentityInv, TypeOK
<1>3. \A q \in Slots : JobOK(run'[q])
  BY <1>2 DEF JobSound
<1> QED BY <1>1, <1>2, <1>3 DEF IdentityInv, TypeOK, Sound

(* Taking keys off a list one by one. *)
LEMMA ListStep ==
  ASSUME NEW list \in Seq(Keys), list # <<>>
  PROVE  /\ Head(list) \in Keys
         /\ Tail(list) \in Seq(Keys)
         /\ Len(list) > 1 => Tail(list) # <<>>
<1>1. Head(list) \in Keys /\ Tail(list) \in Seq(Keys) /\ Len(Tail(list)) = Len(list) - 1
  BY HeadTailProperties
<1>2. Len(list) \in Nat /\ Len(<<>>) = 0
  BY LenProperties, EmptySeq
<1>3. Len(list) > 1 => Len(Tail(list)) # Len(<<>>)
  BY <1>1, <1>2
<1>4. Len(list) > 1 => Tail(list) # <<>>
  BY <1>3, Zenon
<1> QED BY <1>1, <1>4

LEMMA ListOne ==
  ASSUME NEW v \in Keys
  PROVE  <<v>> \in Seq(Keys) /\ <<v>> # <<>> /\ <<>> \in Seq(Keys)
OBVIOUS

LEMMA IdleSound == Idle \in Job /\ JobSound(Idle)
BY NoneIsNone DEF Idle, Job, JobSound, JobOK

(* The variants of a counterparty in some order are a list of keys. *)
LEMMA OrderTyped ==
  ASSUME NEW S, S \subseteq Keys, NEW order \in SetToSeqs(S)
  PROVE  order \in Seq(Keys) /\ (S # {} => order # <<>>)
<1>1. IsFiniteSet(S)
  BY RowsFinite, FS_Subset
<1>2. Cardinality(S) \in Nat /\ (Cardinality(S) = 0 <=> S = {})
  BY <1>1, FS_CardinalityType, FS_EmptySet
<1>3. order \in [1..Cardinality(S) -> S]
  BY DEF SetToSeqs
<1>4. order \in Seq(S) /\ Len(order) = Cardinality(S)
  BY <1>2, <1>3
<1>5. order \in Seq(Keys)
  BY <1>2, <1>3
<1> QED BY <1>2, <1>4, <1>5

LEMMA AskSound ==
  ASSUME IdentityInv, NEW s \in Slots, Ask(s)
  PROVE  IdentityInv'
<1> USE KeysRecorded DEF IdentityInv, TypeOK
<1>0. run[s] = Idle
  BY DEF Ask, AskAlias, AskMerge, AskScope, RemoveAlias, Learn, SetName, Free
<1>1. ASSUME NEW v \in Keys, NEW t \in Keys, AskAlias(s, v, t)
      PROVE  IdentityInv'
  <2> DEFINE job == [Idle EXCEPT !.pc = "look", !.kind = "alias", !.todo = <<v>>, !.to = t]
  <2>0. <<v>> \in Seq(Keys) /\ <<v>> # <<>>
    BY ListOne
  <2>1. job \in Job
    BY <2>0, IdleSound DEF Idle, Job
  <2>2. JobSound(job)
    BY <2>0 DEF Idle, JobSound, JobOK
  <2> QED BY <2>1, <2>2, <1>1, GoSound DEF AskAlias
<1>2. ASSUME NEW k \in Keys, NEW t \in Keys, AskMerge(s, k, t)
      PROVE  IdentityInv'
  <2>1. PICK order \in SetToSeqs(Variants(store, k)) :
          Go(s, [Idle EXCEPT !.pc = "look", !.kind = "merge", !.todo = order,
                             !.from = k, !.to = t])
    BY <1>2 DEF AskMerge
  <2> DEFINE job == [Idle EXCEPT !.pc = "look", !.kind = "merge", !.todo = order,
                             !.from = k, !.to = t]
  <2>2. Variants(store, k) \subseteq Keys /\ Variants(store, k) # {}
    BY <1>2 DEF Variants, AskMerge
  <2>3. order \in Seq(Keys) /\ order # <<>>
    BY <2>2, OrderTyped
  <2>4. job \in Job /\ JobSound(job)
    BY <2>3, IdleSound DEF Idle, Job, JobSound, JobOK
  <2> QED BY <2>1, <2>4, <1>2, GoSound DEF AskMerge
<1>3. ASSUME NEW T \in SUBSET Rows, NEW t \in Keys, AskScope(s, T, t)
      PROVE  IdentityInv'
  <2> DEFINE job == [Idle EXCEPT !.pc = "look", !.kind = "scope", !.rows = T, !.to = t]
  <2>1. job \in Job /\ JobSound(job)
    BY IdleSound DEF Idle, Job, JobSound, JobOK
  <2> QED BY <2>1, <1>3, GoSound DEF AskScope
<1>4. ASSUME NEW v \in Keys, RemoveAlias(s, v)
      PROVE  IdentityInv'
  <2> DEFINE job == [Idle EXCEPT !.pc = "wanted", !.kind = "remove", !.read = store']
  <2>1. Sound(store')
    BY <1>4, NoneIsNone DEF RemoveAlias, Sound, Stores, FlatTable, OneRuleEach
  <2>2. job \in Job /\ JobSound(job)
    BY <2>1, IdleSound DEF Idle, Job, JobSound, JobOK, Sound
  <2> QED BY <2>1, <2>2, <1>4, GoSound DEF RemoveAlias
<1>5. ASSUME NEW k \in Keys, NEW c \in Categories, Learn(s, k, c)
      PROVE  IdentityInv'
  <2> DEFINE job == [Idle EXCEPT !.pc = "rules", !.read = store']
             rules == {r \in store.rules : r.key # k} \cup {[key |-> k, category |-> c]}
  <2>1. store' = [store EXCEPT !.rules = rules]
    BY <1>5 DEF Learn
  <2>2. rules \subseteq Rule /\ \A r, q \in rules : r.key = q.key => r = q
    BY DEF Sound, Stores, OneRuleEach, Rule
  <2>3. Sound(store')
    BY <2>1, <2>2 DEF Sound, Stores, FlatTable, OneRuleEach
  <2>4. job \in Job /\ JobSound(job)
    BY <2>3, IdleSound DEF Idle, Job, JobSound, JobOK, Sound
  <2> QED BY <2>3, <2>4, <1>5, GoSound DEF Learn
<1>6. ASSUME NEW k \in Keys, NEW title \in Titles \cup {None}, SetName(s, k, title)
      PROVE  IdentityInv'
  <2>1. Sound(store')
    BY <1>6 DEF SetName, Sound, Stores, FlatTable, OneRuleEach
  <2> QED BY <2>1, <1>6 DEF SetName, Sound
<1> QED BY <1>1, <1>2, <1>3, <1>4, <1>5, <1>6 DEF Ask

(* The details are read; what is to be aliased are keys that were recorded. *)
LEMMA LookSound ==
  ASSUME IdentityInv, NEW s \in Slots, Look(s)
  PROVE  IdentityInv'
<1> USE DEF IdentityInv, TypeOK
<1> DEFINE job == run[s]
           moving == {RecordedKey[row] : row \in {r \in job.rows : Party(store, r) # job.to}}
           some == moving \ {job.to}
<1>0. job \in Job /\ JobSound(job) /\ job.pc = "look"
  BY DEF Look
<1>1. CASE job.kind = "alias"
  <2> DEFINE next == [job EXCEPT !.pc = "remember"]
  <2>1. next \in Job /\ JobSound(next) /\ Go(s, next)
    BY <1>0, <1>1 DEF Look, Job, JobSound, JobOK
  <2> QED BY <2>1, GoSound DEF Look
<1>2. CASE job.kind = "merge"
  <2> DEFINE next == [job EXCEPT !.pc = "remember", !.had = Had(store, job.from)]
  <2>1. Had(store, job.from) \in SUBSET (Rows \X {"rule", "name"})
    BY DEF Had
  <2>2. next \in Job /\ JobSound(next)
    BY <1>0, <1>2, <2>1 DEF Job, JobSound, JobOK
  <2>3. Go(s, next) \/ Go(s, Idle)
    BY <1>2 DEF Look
  <2> QED BY <2>2, <2>3, IdleSound, GoSound DEF Look
<1>3. CASE job.kind = "scope"
  <2>1. some \subseteq Keys
    BY <1>0, KeysRecorded DEF Job
  <2>2. CASE some = {}
    <3>1. Go(s, Idle)
      BY <1>3, <2>2 DEF Look
    <3> QED BY <3>1, IdleSound, GoSound DEF Look
  <2>3. CASE some # {}
    <3>1. PICK order \in SetToSeqs(some) :
            Go(s, [job EXCEPT !.pc = "remember", !.todo = order])
      BY <1>3, <2>3 DEF Look
    <3> DEFINE next == [job EXCEPT !.pc = "remember", !.todo = order]
    <3>2. order \in Seq(Keys) /\ order # <<>>
      BY <2>1, <2>3, OrderTyped
    <3>3. next \in Job /\ JobSound(next)
      BY <1>0, <3>2 DEF Job, JobSound, JobOK
    <3> QED BY <3>1, <3>3, GoSound DEF Look
  <2> QED BY <2>2, <2>3
<1> QED BY <1>0, <1>1, <1>2, <1>3 DEF JobSound, JobOK

LEMMA RememberSound ==
  ASSUME IdentityInv, NEW s \in Slots, Remember(s)
  PROVE  IdentityInv'
<1> USE DEF IdentityInv, TypeOK
<1> DEFINE job == run[s]
           v == Head(job.todo)
<1>1. job \in Job /\ job.pc = "remember" /\ job.to \in Keys /\ job.todo \in Seq(Keys)
      /\ job.todo # <<>>
  BY DEF Remember, JobOK, Job
<1>2. v \in Keys /\ Tail(job.todo) \in Seq(Keys) /\ (Len(job.todo) > 1 => Tail(job.todo) # <<>>)
  BY <1>1, ListStep
<1>3. CASE Refused(store, v, job.to)
  <2>1. UNCHANGED store /\ Go(s, Idle) /\ smooth' = FALSE
    BY <1>3 DEF Remember
  <2> QED BY <2>1, IdleSound, GoSound DEF Remember
<1>4. CASE ~Refused(store, v, job.to)
  <2>1. store' = WithAlias(store, v, job.to) /\ UNCHANGED smooth
    BY <1>4 DEF Remember
  <2>2. Sound(store')
    <3>1. Sound(WithAlias(store, v, job.to))
      BY <1>1, <1>2, <1>4, AliasSound
    <3> QED BY <2>1, <3>1
  <2>3. CASE Len(job.todo) > 1
    <3> DEFINE next == [job EXCEPT !.todo = Tail(job.todo)]
    <3>1. Go(s, next)
      BY <1>4, <2>3 DEF Remember
    <3>2. next \in Job /\ JobSound(next)
      BY <1>1, <1>2, <2>3 DEF Job, JobSound, JobOK
    <3> QED BY <2>1, <2>2, <3>1, <3>2, GoSound DEF Remember
  <2>4. CASE ~(Len(job.todo) > 1)
    <3> DEFINE next == [job EXCEPT !.pc = "wanted", !.todo = <<>>, !.read = store']
    <3>1. Go(s, next)
      BY <1>4, <2>4 DEF Remember
    <3>2. <<>> \in Seq(Keys) /\ store' \in Stores
      BY <1>2, <2>2, ListOne DEF Sound
    <3>3. next \in Job
      BY <1>1, <3>2 DEF Job
    <3>4. JobSound(next)
      BY <1>1, <2>2, <3>2 DEF Job, JobSound, JobOK
    <3> QED BY <2>1, <2>2, <3>1, <3>3, <3>4, GoSound DEF Remember
  <2> QED BY <2>3, <2>4
<1> QED BY <1>3, <1>4

(* After the payees: the marker, or the rules from a store read afresh. *)
LEMMA AppliedSound ==
  ASSUME IdentityInv, NEW s \in Slots, run[s].pc \in {"wanted", "settle"},
         Applied(s), smooth' \in BOOLEAN, UNCHANGED payee
  PROVE  IdentityInv'
<1> USE DEF IdentityInv, TypeOK
<1>1. CASE run[s].kind = "fold"
  <2>1. Go(s, Idle) /\ open' = TRUE /\ store' = [store EXCEPT !.folded = TRUE]
    BY <1>1 DEF Applied
  <2>2. Sound(store')
    BY <2>1 DEF Sound, Stores, FlatTable, OneRuleEach
  <2> QED BY <2>1, <2>2, IdleSound, GoSound
<1>2. CASE run[s].kind # "fold"
  <2> DEFINE next == [run[s] EXCEPT !.pc = "rules", !.read = store]
  <2>1. Go(s, next) /\ UNCHANGED <<store, open>>
    BY <1>2 DEF Applied
  <2>2. next \in Job /\ JobSound(next)
    BY DEF Job, JobSound, JobOK, Sound
  <2> QED BY <2>1, <2>2, GoSound
<1> QED BY <1>1, <1>2

(* The counterparty of a row is a key. *)
LEMMA PartyTyped ==
  ASSUME NEW st \in Stores, NEW row \in Rows
  PROVE  Party(st, row) \in Keys
BY KeysRecorded, FoldFolds DEF Party, Canonical, Stores

LEMMA PassSound ==
  ASSUME IdentityInv, NEW s \in Slots,
         Wanted(s) \/ Move(s) \/ Settle(s) \/ GiveUp(s) \/ ApplyRules(s)
  PROVE  IdentityInv'
<1> USE DEF IdentityInv, TypeOK
<1> DEFINE job == run[s]
<1>0. job \in Job /\ JobSound(job)
  OBVIOUS
<1>1. CASE Wanted(s)
  <2>1. CASE Outstanding(s) = {}
    BY <1>1, <2>1, AppliedSound DEF Wanted
  <2>2. CASE Outstanding(s) # {}
    <3> DEFINE next == [job EXCEPT !.pc = "move", !.rows = Outstanding(s)]
    <3>1. Go(s, next) /\ UNCHANGED <<store, open, smooth, payee>>
      BY <1>1, <2>2 DEF Wanted
    <3>2. Outstanding(s) \subseteq Rows
      BY DEF Outstanding
    <3>3. next \in Job /\ JobSound(next)
      BY <1>0, <1>1, <3>2 DEF Wanted, Job, JobSound, JobOK
    <3> QED BY <3>1, <3>3, GoSound
  <2> QED BY <2>1, <2>2
<1>2. CASE Move(s)
  <2> DEFINE next == [job EXCEPT !.pc = "settle", !.rows = {}]
  <2>1. job.read \in Stores
    BY <1>0, <1>2 DEF Move, JobSound, JobOK
  <2>2. payee' \in [Rows -> Keys]
    BY <1>2, <2>1, PartyTyped DEF Move
  <2>3. next \in Job /\ JobSound(next)
    BY <1>0, <1>2 DEF Move, Job, JobSound, JobOK
  <2> QED BY <1>2, <2>2, <2>3, GoSound DEF Move
<1>3. CASE Settle(s)
  BY <1>3, AppliedSound DEF Settle
<1>4. CASE GiveUp(s)
  BY <1>4, IdleSound, GoSound DEF GiveUp
<1>5. CASE ApplyRules(s)
  <2>1. Sound(store')
    BY <1>0, <1>5 DEF ApplyRules, JobSound
  <2> QED BY <1>5, <2>1, IdleSound, GoSound DEF ApplyRules
<1> QED BY <1>1, <1>2, <1>3, <1>4, <1>5

LEMMA LaunchSound ==
  ASSUME IdentityInv, NEW s \in Slots, Launch(s)
  PROVE  IdentityInv'
<1> USE DEF IdentityInv, TypeOK
<1> DEFINE next == [Idle EXCEPT !.pc = "wanted", !.kind = "fold", !.read = store]
<1>1. next \in Job /\ JobSound(next)
  BY IdleSound DEF Idle, Job, JobSound, JobOK, Sound
<1>2. CASE store.folded
  BY <1>2 DEF Launch
<1>3. CASE ~store.folded
  BY <1>1, <1>3, GoSound DEF Launch
<1> QED BY <1>2, <1>3

LEMMA CrashSound ==
  ASSUME IdentityInv, Crash
  PROVE  IdentityInv'
<1>1. run' \in [Slots -> Job] /\ \A s \in Slots : JobSound(run'[s])
  BY IdleSound DEF Crash
<1> QED BY <1>1 DEF Crash, IdentityInv, TypeOK, JobSound

LEMMA InitSound == Init => IdentityInv
<1> SUFFICES ASSUME Init PROVE IdentityInv
  OBVIOUS
<1>1. Sound(store)
  BY NoneIsNone DEF Init, Sound, Stores, FlatTable, OneRuleEach
<1>2. run \in [Slots -> Job] /\ \A s \in Slots : JobSound(run[s])
  BY IdleSound DEF Init
<1> QED BY <1>1, <1>2, KeysRecorded DEF Init, IdentityInv, TypeOK, JobSound, Sound

(* Every step keeps the store sound, and every copy of it a request holds.  *)
THEOREM IdentityInvariant == Spec => []IdentityInv
<1>1. ASSUME IdentityInv, [Next]_vars PROVE IdentityInv'
  <2>1. CASE UNCHANGED vars
    BY <1>1, <2>1 DEF vars, IdentityInv, TypeOK, Sound, JobSound
  <2>2. ASSUME NEW s \in Slots, Ask(s) PROVE IdentityInv'
    BY <1>1, <2>2, AskSound
  <2>3. ASSUME NEW s \in Slots, Step(s) PROVE IdentityInv'
    BY <1>1, <2>3, LookSound, RememberSound, PassSound DEF Step
  <2>4. ASSUME NEW s \in Slots, Launch(s) PROVE IdentityInv'
    BY <1>1, <2>4, LaunchSound
  <2>5. CASE Crash
    BY <1>1, <2>5, CrashSound
  <2> QED BY <1>1, <2>1, <2>2, <2>3, <2>4, <2>5 DEF Next
<1> QED BY InitSound, <1>1, PTL DEF Spec

(* Types, for any number of requests at a time. *)
THEOREM IdentityTypes == Spec => []TypeOK
<1>1. IdentityInv => TypeOK
  BY DEF IdentityInv
<1> QED BY <1>1, IdentityInvariant, PTL

(* One lookup answers who a counterparty is, whatever requests there were,  *)
(* side by side, interrupted or written back late.                          *)
THEOREM IdentityFlat == Spec => []Flat
<1>1. IdentityInv => Flat
  BY DEF IdentityInv, Sound, Flat
<1> QED BY <1>1, IdentityInvariant, PTL

(* And no counterparty ever has two rules. *)
THEOREM IdentityOneRule == Spec => []OneRule
<1>1. IdentityInv => OneRule
  BY DEF IdentityInv, Sound, OneRule
<1> QED BY <1>1, IdentityInvariant, PTL

-----------------------------------------------------------------------------
(* Requests that do not cross, in the part "alone": only s1 ever answers. *)

Follows(st) == \A row \in Rows : payee[row] = Party(st, row)

(* What the one request read is still the store, and the payees follow from  *)
(* it except while they are being moved or after an interruption.            *)
AloneInv ==
  /\ \A q \in Slots \ {s1} : run[q] = Idle
  /\ run[s1].pc \in {"wanted", "move", "settle", "rules"} => run[s1].read = store
  /\ run[s1].pc \in {"idle", "look", "rules"} /\ smooth => Follows(store)
  /\ smooth => open
  /\ run[s1].pc # "idle" /\ run[s1].kind # "fold" => open

(* The step of one request: what it becomes is what s1 is doing. *)
LEMMA GoAlone ==
  ASSUME s1 \in Slots, IdentityInv, AloneInv, NEW job, Go(s1, job),
         job.pc \in {"wanted", "move", "settle", "rules"} => job.read = store',
         job.pc \in {"idle", "look", "rules"} /\ smooth' => Follows(store)',
         smooth' => open',
         job.pc # "idle" /\ job.kind # "fold" => open'
  PROVE  AloneInv'
<1>1. run'[s1] = job /\ \A q \in Slots \ {s1} : run'[q] = run[q]
  BY DEF Go, IdentityInv, TypeOK
<1> QED BY <1>1 DEF AloneInv

LEMMA IdleFields == Idle.pc = "idle" /\ Idle.kind = "none"
BY DEF Idle

(* Who is who hangs on the aliases alone. *)
LEMMA SameAliases ==
  ASSUME NEW st, NEW new, new.alias = st.alias, NEW row \in Rows
  PROVE  Party(new, row) = Party(st, row)
BY DEF Party, Canonical

LEMMA AskAlone ==
  ASSUME s1 \in Slots, IdentityInv, AloneInv, Ask(s1)
  PROVE  AloneInv'
<1> USE DEF IdentityInv, TypeOK
<1>0. run[s1] = Idle /\ open /\ run[s1].pc = "idle" /\ run[s1].kind = "none"
      /\ (smooth => Follows(store))
  BY IdleFields DEF Ask, AskAlias, AskMerge, AskScope, RemoveAlias, Learn, SetName, Free, AloneInv
<1>1. ASSUME NEW v \in Keys, NEW t \in Keys, AskAlias(s1, v, t)
      PROVE  AloneInv'
  <2> DEFINE job == [Idle EXCEPT !.pc = "look", !.kind = "alias", !.todo = <<v>>, !.to = t]
  <2>1. job.pc = "look"
    BY DEF Idle
  <2>2. Go(s1, job) /\ UNCHANGED <<store, payee, open, smooth>>
    BY <1>1 DEF AskAlias
  <2>3. smooth' => Follows(store)'
    BY <1>0, <2>2 DEF Follows
  <2> HIDE DEF job
  <2> QED BY <1>0, <2>1, <2>2, <2>3, GoAlone
<1>2. ASSUME NEW k \in Keys, NEW t \in Keys, AskMerge(s1, k, t)
      PROVE  AloneInv'
  <2>1. PICK order \in SetToSeqs(Variants(store, k)) :
          Go(s1, [Idle EXCEPT !.pc = "look", !.kind = "merge", !.todo = order,
                             !.from = k, !.to = t])
    BY <1>2 DEF AskMerge
  <2> DEFINE job == [Idle EXCEPT !.pc = "look", !.kind = "merge", !.todo = order,
                             !.from = k, !.to = t]
  <2>2. job.pc = "look"
    BY DEF Idle
  <2>3. Go(s1, job) /\ UNCHANGED <<store, payee, open, smooth>>
    BY <1>2, <2>1 DEF AskMerge
  <2>4. smooth' => Follows(store)'
    BY <1>0, <2>3 DEF Follows
  <2> HIDE DEF job
  <2> QED BY <1>0, <2>2, <2>3, <2>4, GoAlone
<1>3. ASSUME NEW T \in SUBSET Rows, NEW t \in Keys, AskScope(s1, T, t)
      PROVE  AloneInv'
  <2> DEFINE job == [Idle EXCEPT !.pc = "look", !.kind = "scope", !.rows = T, !.to = t]
  <2>1. job.pc = "look"
    BY DEF Idle
  <2>2. Go(s1, job) /\ UNCHANGED <<store, payee, open, smooth>>
    BY <1>3 DEF AskScope
  <2>3. smooth' => Follows(store)'
    BY <1>0, <2>2 DEF Follows
  <2> HIDE DEF job
  <2> QED BY <1>0, <2>1, <2>2, <2>3, GoAlone
<1>4. ASSUME NEW v \in Keys, RemoveAlias(s1, v)
      PROVE  AloneInv'
  <2> DEFINE job == [Idle EXCEPT !.pc = "wanted", !.kind = "remove", !.read = store']
  <2>1. job.pc = "wanted" /\ job.read = store'
    BY DEF Idle
  <2>2. Go(s1, job) /\ UNCHANGED <<payee, open, smooth>>
    BY <1>4 DEF RemoveAlias
  <2> HIDE DEF job
  <2> QED BY <1>0, <2>1, <2>2, GoAlone
<1>5. ASSUME NEW k \in Keys, NEW c \in Categories, Learn(s1, k, c)
      PROVE  AloneInv'
  <2> DEFINE job == [Idle EXCEPT !.pc = "rules", !.read = store']
  <2>1. job.pc = "rules" /\ job.read = store'
    BY DEF Idle
  <2>2. Go(s1, job) /\ UNCHANGED <<payee, open, smooth>>
    BY <1>5 DEF Learn
  <2>3. store'.alias = store.alias
    BY <1>5 DEF Learn, Stores
  <2>4. smooth' => Follows(store)'
    BY <1>0, <2>2, <2>3, SameAliases DEF Follows
  <2> HIDE DEF job
  <2> QED BY <1>0, <2>1, <2>2, <2>4, GoAlone
<1>6. ASSUME NEW k \in Keys, NEW title \in Titles \cup {None}, SetName(s1, k, title)
      PROVE  AloneInv'
  <2>1. store'.alias = store.alias /\ UNCHANGED <<payee, open, run, smooth>>
    BY <1>6 DEF SetName, Stores
  <2>2. smooth' => Follows(store)'
    BY <1>0, <2>1, SameAliases DEF Follows
  <2> QED BY <1>0, <2>1, <2>2 DEF AloneInv
<1> QED BY <1>1, <1>2, <1>3, <1>4, <1>5, <1>6 DEF Ask

LEMMA LookAlone ==
  ASSUME s1 \in Slots, IdentityInv, AloneInv, Look(s1)
  PROVE  AloneInv'
<1> DEFINE job == run[s1]
           moving == {RecordedKey[row] : row \in {r \in job.rows : Party(store, r) # job.to}}
           some == moving \ {job.to}
           Onward(next) == Go(s1, next) /\ next.pc = "remember"
<1>0. job \in Job /\ JobOK(job) /\ job.pc = "look" /\ UNCHANGED <<store, payee, open, smooth>>
  BY DEF Look, IdentityInv, TypeOK
<1>1. job.kind \in {"alias", "merge", "scope"} /\ open /\ (smooth' => Follows(store)')
  BY <1>0 DEF JobOK, AloneInv, Follows
<1>2. Go(s1, Idle) \/ \E next : Onward(next)
  <2>1. CASE job.kind = "alias"
    <3> DEFINE next == [job EXCEPT !.pc = "remember"]
    <3>1. Go(s1, next) /\ next.pc = "remember"
      BY <1>0, <2>1 DEF Look, Job
    <3> QED BY <3>1
  <2>2. CASE job.kind = "merge"
    <3> DEFINE next == [job EXCEPT !.pc = "remember", !.had = Had(store, job.from)]
    <3>1. next.pc = "remember"
      BY <1>0 DEF Job
    <3>2. Go(s1, next) \/ Go(s1, Idle)
      BY <2>2 DEF Look
    <3> HIDE DEF next
    <3> QED BY <3>1, <3>2
  <2>3. CASE job.kind = "scope"
    <3>1. CASE some = {}
      BY <2>3, <3>1 DEF Look
    <3>2. CASE some # {}
      <4>1. PICK order \in SetToSeqs(some) :
              Go(s1, [job EXCEPT !.pc = "remember", !.todo = order])
        BY <2>3, <3>2 DEF Look
      <4> DEFINE next == [job EXCEPT !.pc = "remember", !.todo = order]
      <4>2. next.pc = "remember"
        BY <1>0 DEF Job
      <4>3. Go(s1, next)
        BY <4>1
      <4> HIDE DEF next
      <4> QED BY <4>2, <4>3
    <3> QED BY <3>1, <3>2
  <2> QED BY <1>1, <2>1, <2>2, <2>3
<1>3. CASE Go(s1, Idle)
  <2>1. smooth' => open'
    BY <1>0, <1>1
  <2> QED BY <1>1, <1>3, <2>1, IdleFields, GoAlone
<1>4. ASSUME NEW next, Onward(next) PROVE AloneInv'
  <2>1. open'
    BY <1>0, <1>1
  <2> QED BY <1>4, <2>1, GoAlone
<1> QED BY <1>2, <1>3, <1>4

(* While aliases are written the payees wait for the pass that follows.      *)
LEMMA RememberAlone ==
  ASSUME s1 \in Slots, IdentityInv, AloneInv, Remember(s1)
  PROVE  AloneInv'
<1> DEFINE job == run[s1]
           v == Head(job.todo)
           longer == [job EXCEPT !.todo = Tail(job.todo)]
           last == [job EXCEPT !.pc = "wanted", !.todo = <<>>, !.read = store']
<1>0. job \in Job /\ job.pc = "remember" /\ UNCHANGED <<payee, open>>
  BY DEF Remember, IdentityInv, TypeOK
<1>1. (job.kind # "fold" => open) /\ (smooth => open)
  BY <1>0 DEF AloneInv
<1>2. longer.pc = "remember" /\ longer.kind = job.kind
      /\ last.pc = "wanted" /\ last.read = store' /\ last.kind = job.kind
  BY <1>0 DEF Job
<1>3. \/ Go(s1, Idle) /\ smooth' = FALSE
      \/ (Go(s1, longer) \/ Go(s1, last)) /\ UNCHANGED smooth
  BY DEF Remember
<1> HIDE DEF longer, last
<1>4. CASE Go(s1, Idle) /\ smooth' = FALSE
  BY <1>4, IdleFields, GoAlone
<1>5. CASE Go(s1, longer) /\ UNCHANGED smooth
  BY <1>0, <1>1, <1>2, <1>5, GoAlone
<1>6. CASE Go(s1, last) /\ UNCHANGED smooth
  BY <1>0, <1>1, <1>2, <1>6, GoAlone
<1> QED BY <1>3, <1>4, <1>5, <1>6

(* A pass ends where no row is outstanding from the store as it is.         *)
LEMMA AppliedAlone ==
  ASSUME s1 \in Slots, IdentityInv, AloneInv, run[s1].pc \in {"wanted", "settle"},
         Outstanding(s1) = {}, Applied(s1), UNCHANGED payee, smooth' = TRUE
  PROVE  AloneInv'
<1>0. run[s1] \in Job /\ run[s1].read = store /\ store \in Stores
  BY DEF AloneInv, IdentityInv, TypeOK
<1>1. Follows(store)
  BY <1>0 DEF Outstanding, Follows
<1>2. store'.alias = store.alias
  BY <1>0 DEF Applied, Stores
<1>3. Follows(store)'
  BY <1>1, <1>2, SameAliases DEF Follows
<1>4. CASE run[s1].kind = "fold"
  <2>1. Go(s1, Idle) /\ open' = TRUE
    BY <1>4 DEF Applied
  <2> QED BY <1>3, <2>1, IdleFields, GoAlone
<1>5. CASE run[s1].kind # "fold"
  <2> DEFINE next == [run[s1] EXCEPT !.pc = "rules", !.read = store]
  <2>1. Go(s1, next) /\ UNCHANGED <<store, open>>
    BY <1>5 DEF Applied
  <2>2. next.pc = "rules" /\ next.read = store' /\ next.kind = run[s1].kind
    BY <1>0, <2>1 DEF Job
  <2>3. open'
    BY <1>5, <2>1 DEF AloneInv
  <2> HIDE DEF next
  <2> QED BY <1>3, <2>1, <2>2, <2>3, GoAlone
<1> QED BY <1>4, <1>5

LEMMA PassAlone ==
  ASSUME s1 \in Slots, IdentityInv, AloneInv,
         Wanted(s1) \/ Move(s1) \/ Settle(s1) \/ GiveUp(s1) \/ ApplyRules(s1)
  PROVE  AloneInv'
<1> DEFINE job == run[s1]
<1>0. job \in Job /\ (smooth => open) /\ (job.pc # "idle" /\ job.kind # "fold" => open)
      /\ (job.pc \in {"wanted", "move", "settle", "rules"} => job.read = store)
  BY DEF AloneInv, IdentityInv, TypeOK
<1>1. CASE Wanted(s1)
  <2>0. UNCHANGED payee /\ job.pc = "wanted"
    BY <1>1 DEF Wanted
  <2>1. CASE Outstanding(s1) = {}
    <3>1. Applied(s1) /\ smooth' = TRUE
      BY <1>1, <2>1 DEF Wanted
    <3> QED BY <2>0, <2>1, <3>1, AppliedAlone
  <2>2. CASE Outstanding(s1) # {}
    <3> DEFINE next == [job EXCEPT !.pc = "move", !.rows = Outstanding(s1)]
    <3>1. Go(s1, next) /\ UNCHANGED <<store, open, smooth>>
      BY <1>1, <2>2 DEF Wanted
    <3>2. next.pc = "move" /\ next.read = job.read /\ next.kind = job.kind
      BY <1>0 DEF Job
    <3> HIDE DEF next
    <3> QED BY <1>0, <2>0, <3>1, <3>2, GoAlone
  <2> QED BY <2>1, <2>2
<1>2. CASE Move(s1)
  <2> DEFINE next == [job EXCEPT !.pc = "settle", !.rows = {}]
  <2>1. Go(s1, next) /\ UNCHANGED <<store, open, smooth>> /\ job.pc = "move"
    BY <1>2 DEF Move
  <2>2. next.pc = "settle" /\ next.read = job.read /\ next.kind = job.kind
    BY <1>0 DEF Job
  <2> HIDE DEF next
  <2> QED BY <1>0, <2>1, <2>2, GoAlone
<1>3. CASE Settle(s1)
  BY <1>3, AppliedAlone DEF Settle
<1>4. CASE GiveUp(s1)
  BY <1>4, IdleFields, GoAlone DEF GiveUp
<1>5. CASE ApplyRules(s1)
  <2>1. Go(s1, Idle) /\ UNCHANGED <<payee, open, smooth>> /\ job.pc = "rules"
    BY <1>5 DEF ApplyRules
  <2>2. store' = store
    BY <1>0, <1>5, <2>1 DEF ApplyRules
  <2>3. smooth' => Follows(store)'
    BY <2>1, <2>2 DEF AloneInv, Follows
  <2>4. smooth' => open'
    BY <1>0, <2>1
  <2> QED BY <2>1, <2>3, <2>4, IdleFields, GoAlone
<1> QED BY <1>1, <1>2, <1>3, <1>4, <1>5

(* The pass of a launch works before the budget is open; nothing is smooth.  *)
LEMMA LaunchAlone ==
  ASSUME s1 \in Slots, IdentityInv, AloneInv, Launch(s1)
  PROVE  AloneInv'
<1> DEFINE next == [Idle EXCEPT !.pc = "wanted", !.kind = "fold", !.read = store]
<1>0. ~open /\ run[s1] = Idle /\ UNCHANGED <<store, payee, smooth>>
  BY DEF Launch
<1>1. smooth = FALSE
  BY <1>0 DEF AloneInv, IdentityInv, TypeOK
<1>2. CASE store.folded
  <2>1. open' = TRUE /\ UNCHANGED run
    BY <1>2 DEF Launch
  <2> QED BY <1>0, <1>1, <2>1, IdleFields DEF AloneInv
<1>3. CASE ~store.folded
  <2>1. Go(s1, next)
    BY <1>3 DEF Launch
  <2>2. next.pc = "wanted" /\ next.kind = "fold" /\ next.read = store
    BY DEF Idle
  <2> HIDE DEF next
  <2> QED BY <1>0, <1>1, <2>1, <2>2, GoAlone
<1> QED BY <1>2, <1>3

LEMMA CrashAlone ==
  ASSUME s1 \in Slots, Crash
  PROVE  AloneInv'
<1>1. smooth' = FALSE /\ run' = [q \in Slots |-> Idle]
  BY DEF Crash
<1> QED BY <1>1, IdleFields DEF AloneInv

(* Where requests do not cross and none was interrupted, every transaction   *)
(* carries the payee its identity implies: for any keys, rows and folding    *)
(* rule, and after any requests.                                             *)
THEOREM PayeesFollowHolds ==
  ASSUME s1 \in Slots
  PROVE  MCSpec => []AlonePayeesFollow
<1> DEFINE Held == IdentityInv /\ AloneInv
           Inv == part = "alone" => Held
<1>1. MCInit => Inv
  <2> SUFFICES ASSUME Init PROVE Held
    BY DEF MCInit
  <2>1. smooth = FALSE /\ run = [q \in Slots |-> Idle]
    BY DEF Init
  <2> QED BY <2>1, IdleFields, InitSound DEF AloneInv
<1>2. ASSUME Inv, [MCNext]_<<vars, part>> PROVE Inv'
  <2> SUFFICES ASSUME part' = "alone" PROVE Held'
    OBVIOUS
  <2>1. part = "alone" /\ Held
    BY <1>2 DEF MCNext
  <2>2. CASE UNCHANGED <<vars, part>>
    BY <2>1, <2>2 DEF vars, IdentityInv, TypeOK, Sound, JobSound, AloneInv, Follows
  <2>3. CASE Ask(s1)
    BY <2>1, <2>3, AskSound, AskAlone
  <2>4. CASE Step(s1)
    BY <2>1, <2>4, LookSound, RememberSound, PassSound, LookAlone, RememberAlone, PassAlone
       DEF Step
  <2>5. CASE Launch(s1)
    BY <2>1, <2>5, LaunchSound, LaunchAlone
  <2>6. CASE Crash
    BY <2>1, <2>6, CrashSound, CrashAlone
  <2> QED BY <1>2, <2>1, <2>2, <2>3, <2>4, <2>5, <2>6 DEF MCNext
<1>3. Inv => AlonePayeesFollow
  <2> SUFFICES ASSUME part = "alone", Held, smooth, open, \A q \in Slots : run[q] = Idle
               PROVE  \A row \in Rows : payee[row] = Party(store, row)
    BY DEF AlonePayeesFollow, PayeesFollow
  <2> QED BY IdleFields DEF AloneInv, Follows
<1> QED BY <1>1, <1>2, <1>3, PTL DEF MCSpec
=============================================================================
