---------------------------- MODULE AyqPlanProofs ----------------------------
(* The plan: a transaction settles one payment, what is expected is not      *)
(* forgotten, and what AYQ matches by itself is beyond doubt and leaves      *)
(* alone what a person decided, for any records, transactions and rhythms.   *)
(* The forecast: the lowest position is the lowest there can be, the months  *)
(* close at what they take in and pay, and nothing spent counts twice, for   *)
(* any payments, plans and balances.                                         *)
EXTENDS MCAyqPlan, FiniteSetTheorems, NaturalsInduction, WellFoundedInduction, TLAPS

Plans == [Records -> Record \cup {None}]
Decisions == [Occurrences -> Decision]

Unshared(decisions) == \A o, p \in Occurrences :
  (o # p /\ decisions[o].match # None) => decisions[o].match # decisions[p].match

(* What the store holds, and what was read from it.                          *)
Sound(plan, decisions) ==
  /\ plan \in Plans
  /\ decisions \in Decisions
  /\ \A r \in Records : (plan[r] # None /\ plan[r].state = "confirmed") => plan[r].confirmed # None
  /\ \A o \in Occurrences : /\ (decisions[o].match = None) <=> (decisions[o].by = None)
                            /\ decisions[o].match \notin decisions[o].rejected
  /\ Unshared(decisions)

(* A decision that may be taken of a date.                                   *)
Takes(decisions, o, d) ==
  /\ d \in Decision
  /\ (d.match = None) <=> (d.by = None)
  /\ d.match \notin d.rejected
  /\ d.match # None => \A p \in Occurrences \ {o} : decisions[p].match # d.match

Learning(it) ==
  /\ it.at = "learn" /\ it.of \in Occurrences /\ it.with \in Transactions
  /\ it.planned[it.of[1]] # None
  /\ Takes(it.decided, it.of, it.decision) /\ it.decision.by = "manual"

TaskOK(it) ==
  \/ it = Idle
  \/ /\ Sound(it.planned, it.decided)
     /\ {"at", "planned", "decided"} \subseteq DOMAIN it
     /\ \/ Learning(it)
        \/ it.at \in {"retire", "detect"}
        \/ it.at = "match" /\ it.day \in Days

PlanInv ==
  /\ today \in Days /\ held \subseteq Transactions
  /\ Sound(planned, decided)
  /\ task = [q \in Tasks |-> task[q]]
  /\ \A q \in Tasks : TaskOK(task[q])

-----------------------------------------------------------------------------
(* The window begins with the earliest date any record may be expected on.    *)
LEMMA Least ==
  ASSUME NEW S \in SUBSET Nat, S # {}
  PROVE  \E m \in S : \A n \in S : m <= n
<1>1. PICK R : R = OpToRel(<, Nat)
  OBVIOUS
<1>2. \A n, m \in Nat : n < m => <<n, m>> \in R
  <2>1. R = {ss \in Nat \X Nat : ss[1] < ss[2]}
    BY <1>1, Zenon DEF OpToRel
  <2> QED BY <2>1
<1>3. IsWellFoundedOn(R, Nat)
  BY <1>1, NatLessThanWellFounded, Zenon
<1>4. PICK m \in S : \A n \in S : <<n, m>> \notin R
  BY <1>3, WFMin
<1>5. ASSUME NEW n \in S PROVE m <= n
  <2>1. ~(n < m) /\ n \in Nat /\ m \in Nat
    BY <1>2, <1>4
  <2> QED BY <2>1
<1> QED BY <1>5

LEMMA ExpectedFromDay ==
  ASSUME NEW plan \in Plans, NEW r \in Records, plan[r] # None
  PROVE  ExpectedFrom(plan[r]) \in Days /\ ExpectedFrom(plan[r]) >= plan[r].start
<1>1. plan[r] \in Record
  BY DEF Plans
<1>2. /\ plan[r].start \in Days /\ plan[r].suggested \in Days
      /\ plan[r].confirmed \in Days \cup {None}
  BY <1>1 DEF Record
<1> QED BY <1>2, DaysOfThePlan DEF ExpectedFrom, LaterOf, Days

LEMMA WindowHolds ==
  ASSUME NEW plan \in Plans, NEW day \in Days
  PROVE  /\ PlanWindow(plan, day).from \in Nat /\ PlanWindow(plan, day).from <= day
         /\ PlanWindow(plan, day).to = day + Horizon
         /\ \A r \in Records : plan[r] # None => PlanWindow(plan, day).from <= ExpectedFrom(plan[r])
<1> DEFINE firsts == {day} \cup {ExpectedFrom(plan[r]) : r \in {r \in Records : plan[r] # None}}
           from == CHOOSE d \in firsts : \A e \in firsts : d <= e
<1>1. firsts \in SUBSET Nat /\ firsts # {}
  BY ExpectedFromDay, DaysOfThePlan DEF Days
<1>2. \E d \in firsts : \A e \in firsts : d <= e
  <2> HIDE DEF firsts
  <2> QED BY <1>1, Least
<1>3. from \in firsts /\ \A e \in firsts : from <= e
  <2> HIDE DEF firsts
  <2> QED BY <1>2
<1>4. PlanWindow(plan, day).from = from /\ PlanWindow(plan, day).to = day + Horizon
  BY DEF PlanWindow
<1>5. day \in firsts /\ \A r \in Records : plan[r] # None => ExpectedFrom(plan[r]) \in firsts
  OBVIOUS
<1> HIDE DEF firsts, from
<1> QED BY <1>1, <1>3, <1>4, <1>5

(* What counts as expected, without the window.                              *)
Counts(plan, decisions, day, o) ==
  /\ plan[o[1]] # None /\ plan[o[1]].state \notin {"retired", "dismissed"}
  /\ o[2] >= ExpectedFrom(plan[o[1]]) /\ (o[2] - plan[o[1]].start) % Period = 0
  /\ o[2] <= day + Horizon
  /\ ~decisions[o].dismissed /\ decisions[o].match = None

LEMMA OpenIs ==
  ASSUME NEW plan \in Plans, NEW decisions, NEW day \in Days, NEW o \in Occurrences
  PROVE  o \in Open(plan, decisions, day) <=> Counts(plan, decisions, day, o)
<1>1. o[1] \in Records /\ o[2] \in Days
  BY DEF Occurrences
<1> DEFINE w == PlanWindow(plan, day)
<1>2. o \in Open(plan, decisions, day) <=>
        /\ plan[o[1]] # None /\ plan[o[1]].state \notin {"retired", "dismissed"}
        /\ o[2] \in Dates(plan[o[1]], w.from, w.to)
        /\ ~decisions[o].dismissed /\ decisions[o].match = None
  BY DEF Open
<1>3. /\ w.from \in Nat /\ w.to = day + Horizon
      /\ plan[o[1]] # None => w.from <= ExpectedFrom(plan[o[1]])
  BY <1>1, WindowHolds
<1>4. plan[o[1]] # None => ExpectedFrom(plan[o[1]]) \in Days
  BY <1>1, ExpectedFromDay
<1> HIDE DEF w
<1>5. plan[o[1]] # None =>
        (o[2] \in Dates(plan[o[1]], w.from, w.to) <=>
           /\ o[2] >= ExpectedFrom(plan[o[1]]) /\ o[2] <= day + Horizon
           /\ (o[2] - plan[o[1]].start) % Period = 0)
  BY <1>1, <1>3, <1>4, DaysOfThePlan DEF Dates, Days
<1> QED BY <1>2, <1>5 DEF Counts

-----------------------------------------------------------------------------
(* What a pass proposes.                                                     *)
LEMMA OccurrencesFinite ==
  /\ IsFiniteSet(Occurrences)
  /\ \A o \in Occurrences : /\ o[1] \in Records /\ o[2] \in Days /\ o = <<o[1], o[2]>>
                           /\ o[1] \in Nat /\ o[2] \in Nat
<1>1. LastDay \in Int /\ 1 \in Int
  BY DaysOfThePlan
<1>2. IsFiniteSet(Days)
  BY <1>1, FS_Interval DEF Days
<1>3. IsFiniteSet(Occurrences)
  BY <1>2, FS_Product, IdsAreOrdered DEF Occurrences
<1>4. Days \subseteq Nat
  BY DaysOfThePlan DEF Days
<1>5. Records \subseteq Nat
  BY IdsAreOrdered
<1>6. \A o \in Occurrences : o[1] \in Records /\ o[2] \in Days /\ o = <<o[1], o[2]>>
  BY DEF Occurrences
<1>7. \A o \in Occurrences : o[1] \in Nat /\ o[2] \in Nat
  BY <1>4, <1>5, <1>6
<1> QED BY <1>3, <1>6, <1>7

LEMMA BeforeIsAnOrder ==
  ASSUME NEW decisions \in Decisions
  PROVE  /\ \A o \in Occurrences : ~Before(decisions, o, o)
         /\ \A o, p \in Occurrences : o = p \/ Before(decisions, o, p) \/ Before(decisions, p, o)
         /\ \A o, p, x \in Occurrences :
              Before(decisions, o, p) /\ Before(decisions, p, x) => Before(decisions, o, x)
<1>1. \A o \in Occurrences : Effective(decisions, o) \in Nat
  <2> TAKE o \in Occurrences
  <2>1. decisions[o].to \in Days \cup {None}
    BY DEF Decisions, Decision
  <2>2. Days \subseteq Nat
    BY DaysOfThePlan DEF Days
  <2> QED BY <2>1, <2>2, OccurrencesFinite DEF Effective
<1>2. \A o \in Occurrences : ~Before(decisions, o, o)
  BY <1>1, OccurrencesFinite DEF Before
<1>3. \A o, p \in Occurrences : o = p \/ Before(decisions, o, p) \/ Before(decisions, p, o)
  <2> TAKE o, p \in Occurrences
  <2>1. o[1] = p[1] /\ o[2] = p[2] => o = p
    BY OccurrencesFinite
  <2>2. /\ Effective(decisions, o) \in Nat /\ Effective(decisions, p) \in Nat
        /\ o[1] \in Nat /\ o[2] \in Nat /\ p[1] \in Nat /\ p[2] \in Nat
    BY <1>1, OccurrencesFinite
  <2> QED BY <2>1, <2>2 DEF Before
<1>4. \A o, p, x \in Occurrences :
        Before(decisions, o, p) /\ Before(decisions, p, x) => Before(decisions, o, x)
  <2> TAKE o, p, x \in Occurrences
  <2>1. /\ Effective(decisions, o) \in Nat /\ Effective(decisions, p) \in Nat
        /\ Effective(decisions, x) \in Nat
        /\ o[1] \in Nat /\ o[2] \in Nat /\ p[1] \in Nat /\ p[2] \in Nat
        /\ x[1] \in Nat /\ x[2] \in Nat
    BY <1>1, OccurrencesFinite
  <2> QED BY <2>1 DEF Before
<1> QED BY <1>2, <1>3, <1>4

(* Of what fails for a subset, there is a smallest.                          *)
LEMMA SmallestSubset ==
  ASSUME NEW S, IsFiniteSet(S), NEW Bad \in SUBSET SUBSET S, Bad # {}
  PROVE  \E T \in Bad : \A U \in Bad : U \subseteq T => U = T
<1>1. FiniteSubsetsOf(S) = SUBSET S
  BY FS_FiniteSubsetsOfFinite
<1>2. IsWellFoundedOn(StrictSubsetOrdering(S), SUBSET S)
  BY <1>1, FS_StrictSubsetOrderingWellFounded
<1>3. PICK T \in Bad : \A U \in Bad : <<U, T>> \notin StrictSubsetOrdering(S)
  BY <1>2, WFMin
<1> QED BY <1>3 DEF StrictSubsetOrdering

LEMMA LastIsThere ==
  ASSUME NEW decisions \in Decisions, NEW S \in SUBSET Occurrences, S # {}
  PROVE  LastOf(decisions, S) \in S
<1> DEFINE After(b) == {c \in S : Before(decisions, b, c)}
           T == {After(b) : b \in S}
<1>1. T \in SUBSET SUBSET S /\ T # {} /\ IsFiniteSet(S)
  <2>1. IsFiniteSet(S)
    BY OccurrencesFinite, FS_Subset
  <2>2. PICK b : b \in S
    OBVIOUS
  <2>3. After(b) \in T
    BY <2>2
  <2>4. \A c \in S : After(c) \in SUBSET S
    OBVIOUS
  <2> QED BY <2>1, <2>3, <2>4
<1>2. PICK U \in T : \A V \in T : V \subseteq U => V = U
  <2> HIDE DEF T
  <2> QED BY <1>1, SmallestSubset
<1>3. PICK b \in S : U = After(b)
  BY <1>2
<1>4. ASSUME NEW c \in S, Before(decisions, b, c) PROVE FALSE
  <2>1. After(c) \in T /\ After(c) \subseteq U /\ c \in U /\ c \notin After(c)
    BY <1>3, <1>4, BeforeIsAnOrder
  <2> QED BY <1>2, <2>1
<1>5. \A p \in S \ {b} : Before(decisions, p, b)
  BY <1>4, BeforeIsAnOrder
<1> QED BY <1>5 DEF LastOf

(* The pass goes from date to date: what it proposes is defined by a          *)
(* recursive function, and there is one.                                     *)
Recursion(plan, decisions, rows, open, S, f) == f = [T \in SUBSET S |->
  IF T = {} THEN {}
  ELSE Propose(plan, decisions, rows, open, f[T \ {LastOf(decisions, T)}], LastOf(decisions, T))]

OneByOne(plan, decisions, rows, open, S, f) ==
  /\ f[{}] = {}
  /\ \A T \in SUBSET S : T # {} =>
       f[T] = Propose(plan, decisions, rows, open, f[T \ {LastOf(decisions, T)}], LastOf(decisions, T))

LEMMA RecursionDefines ==
  ASSUME NEW plan, NEW decisions, NEW rows, NEW day,
         NEW open, open = Open(plan, decisions, day)
  PROVE  \E f : /\ f = CHOOSE g : Recursion(plan, decisions, rows, open, open, g)
               /\ Proposals(plan, decisions, rows, day) = f[open]
<1> DEFINE found[dates \in SUBSET open] ==
      IF dates = {} THEN {}
      ELSE Propose(plan, decisions, rows, open,
                   found[dates \ {LastOf(decisions, dates)}], LastOf(decisions, dates))
<1>1. Proposals(plan, decisions, rows, day) = found[open]
  BY DEF Proposals
<1>2. found = CHOOSE g : Recursion(plan, decisions, rows, open, open, g)
  BY DEF Recursion
<1> QED BY <1>1, <1>2

LEMMA RecursionStep ==
  ASSUME NEW plan, NEW decisions, NEW rows, NEW open, NEW S, NEW f,
         Recursion(plan, decisions, rows, open, S, f)
  PROVE  OneByOne(plan, decisions, rows, open, S, f)
<1>1. f = [T \in SUBSET S |->
        IF T = {} THEN {}
        ELSE Propose(plan, decisions, rows, open, f[T \ {LastOf(decisions, T)}], LastOf(decisions, T))]
  BY DEF Recursion
<1>2. {} \in SUBSET S
  OBVIOUS
<1> QED BY <1>1, <1>2 DEF OneByOne

LEMMA RecursionOnce ==
  ASSUME NEW plan, NEW decisions \in Decisions, NEW rows, NEW open,
         NEW S \in SUBSET Occurrences, NEW f, NEW g,
         Recursion(plan, decisions, rows, open, S, f),
         NEW R \in SUBSET S, Recursion(plan, decisions, rows, open, R, g)
  PROVE  \A T \in SUBSET R : f[T] = g[T]
<1> DEFINE Bad == {T \in SUBSET R : f[T] # g[T]}
<1>1. SUFFICES ASSUME Bad # {} PROVE FALSE
  OBVIOUS
<1>2. IsFiniteSet(R)
  BY FS_Subset, OccurrencesFinite
<1>3. PICK T \in Bad : \A U \in Bad : U \subseteq T => U = T
  <2>1. Bad \in SUBSET SUBSET R
    OBVIOUS
  <2> HIDE DEF Bad
  <2> QED BY <1>1, <1>2, <2>1, SmallestSubset
<1>4. T \in SUBSET R /\ T \in SUBSET S /\ T \in SUBSET Occurrences /\ f[T] # g[T]
  BY <1>3
<1>f. OneByOne(plan, decisions, rows, open, S, f)
  BY RecursionStep
<1>g. OneByOne(plan, decisions, rows, open, R, g)
  BY RecursionStep
<1>5. T # {}
  BY <1>4, <1>f, <1>g DEF OneByOne
<1> DEFINE l == LastOf(decisions, T)
           U == T \ {l}
<1>6. U \in SUBSET R /\ U \subseteq T /\ U # T
  BY <1>4, <1>5, LastIsThere
<1>7. f[U] = g[U]
  BY <1>3, <1>6
<1>8. f[T] = Propose(plan, decisions, rows, open, f[U], l)
  BY <1>4, <1>5, <1>f DEF OneByOne
<1>9. g[T] = Propose(plan, decisions, rows, open, g[U], l)
  BY <1>4, <1>5, <1>g DEF OneByOne
<1> HIDE DEF U, l
<1> QED BY <1>4, <1>7, <1>8, <1>9

LEMMA RecursionIsThere ==
  ASSUME NEW plan, NEW decisions \in Decisions, NEW rows, NEW open,
         NEW S \in SUBSET Occurrences
  PROVE  \E f : Recursion(plan, decisions, rows, open, S, f)
<1> DEFINE Rec(T, f) == Recursion(plan, decisions, rows, open, T, f)
           Bad == {T \in SUBSET S : ~\E f : Rec(T, f)}
<1>1. SUFFICES ASSUME Bad # {} PROVE FALSE
  <2>1. S \in SUBSET S
    OBVIOUS
  <2> HIDE DEF Rec
  <2>2. \E f : Rec(S, f)
    BY <2>1
  <2> QED BY <2>2 DEF Rec
<1>2. PICK R \in Bad : \A U \in Bad : U \subseteq R => U = R
  <2>1. Bad \in SUBSET SUBSET S /\ IsFiniteSet(S)
    BY FS_Subset, OccurrencesFinite
  <2> HIDE DEF Bad
  <2> QED BY <1>1, <2>1, SmallestSubset
<1>3. R \in SUBSET S /\ R \in SUBSET Occurrences /\ ~\E f : Rec(R, f)
  BY <1>2
<1> DEFINE F(U) == CHOOSE f : Rec(U, f)
           Rest(U) == U \ {LastOf(decisions, U)}
           V(U) == IF U = {} THEN {}
                   ELSE Propose(plan, decisions, rows, open, F(Rest(U))[Rest(U)], LastOf(decisions, U))
           g == [U \in SUBSET R |-> V(U)]
<1>4. ASSUME NEW U \in SUBSET R, U # R PROVE Rec(U, F(U))
  <2> HIDE DEF Rec
  <2>1. \E f : Rec(U, f)
    BY <1>2, <1>3, <1>4
  <2> QED BY <2>1
<1>5. ASSUME NEW U \in SUBSET R, U # {}
      PROVE  Rest(U) \in SUBSET R /\ Rest(U) # R /\ Rest(U) \in SUBSET U
  <2>1. LastOf(decisions, U) \in U
    BY <1>3, <1>5, LastIsThere
  <2> QED BY <2>1
<1>6. ASSUME NEW U \in SUBSET R, U # R PROVE F(U)[U] = V(U)
  <2>1. /\ F(U)[{}] = {}
        /\ U # {} => F(U)[U] =
             Propose(plan, decisions, rows, open, F(U)[Rest(U)], LastOf(decisions, U))
    <3> DEFINE h == F(U)
    <3>1. Recursion(plan, decisions, rows, open, U, h)
      BY <1>4, <1>6
    <3> HIDE DEF h
    <3>2. OneByOne(plan, decisions, rows, open, U, h)
      BY <3>1, RecursionStep
    <3>3. U \in SUBSET U
      OBVIOUS
    <3>4. /\ h[{}] = {}
          /\ U # {} => h[U] = Propose(plan, decisions, rows, open, h[Rest(U)], LastOf(decisions, U))
      BY <3>2, <3>3 DEF OneByOne
    <3> QED BY <3>4 DEF h
  <2>2. CASE U = {}
    BY <2>1, <2>2
  <2>3. CASE U # {}
    <3>1. Rest(U) \in SUBSET U /\ Rest(U) \in SUBSET R /\ Rest(U) # R
      BY <1>5, <2>3
    <3>2. /\ Recursion(plan, decisions, rows, open, U, F(U))
          /\ Recursion(plan, decisions, rows, open, Rest(U), F(Rest(U)))
      BY <1>4, <1>6, <3>1
    <3>3. U \in SUBSET Occurrences
      BY <1>3
    <3> HIDE DEF F
    <3>4. \A T \in SUBSET Rest(U) : F(U)[T] = F(Rest(U))[T]
      BY <3>1, <3>2, <3>3, RecursionOnce
    <3>5. F(U)[Rest(U)] = F(Rest(U))[Rest(U)]
      BY <3>4
    <3> QED BY <2>1, <2>3, <3>5
  <2> QED BY <2>2, <2>3
<1>7. ASSUME NEW U \in SUBSET R
      PROVE  g[U] =
        IF U = {} THEN {}
        ELSE Propose(plan, decisions, rows, open, g[U \ {LastOf(decisions, U)}], LastOf(decisions, U))
  <2>1. g[U] = V(U)
    OBVIOUS
  <2>2. CASE U = {}
    BY <2>1, <2>2
  <2>3. CASE U # {}
    <3>1. Rest(U) \in SUBSET R /\ Rest(U) # R
      BY <1>5, <2>3
    <3>2. g[Rest(U)] = V(Rest(U))
      BY <3>1
    <3>3. V(Rest(U)) = F(Rest(U))[Rest(U)]
      BY <1>6, <3>1
    <3>4. V(U) = Propose(plan, decisions, rows, open, F(Rest(U))[Rest(U)], LastOf(decisions, U))
      BY <2>3
    <3> HIDE DEF g, V, F
    <3> QED BY <2>1, <2>3, <3>2, <3>3, <3>4
  <2> QED BY <2>2, <2>3
<1>8. g = [U \in SUBSET R |-> g[U]]
  OBVIOUS
<1> HIDE DEF g
<1>9. Recursion(plan, decisions, rows, open, R, g)
  BY <1>7, <1>8 DEF Recursion
<1> QED BY <1>3, <1>9

(* Every proposal is about a date that is open, and is sure only if nothing   *)
(* else would do.                                                            *)
Proper(plan, decisions, rows, open, found) ==
  \A f \in found : f.of \in open /\ (f.sure => Confident(plan, decisions, rows, open, f.of, f.with))

LEMMA ProposeIsProper ==
  ASSUME NEW plan, NEW decisions, NEW rows, NEW open, NEW found, NEW o \in open,
         Proper(plan, decisions, rows, open, found)
  PROVE  Proper(plan, decisions, rows, open, Propose(plan, decisions, rows, open, found, o))
<1>1. \/ Propose(plan, decisions, rows, open, found, o) = found
      \/ \E t : Propose(plan, decisions, rows, open, found, o) =
                 found \cup {[of |-> o, with |-> t,
                             sure |-> Confident(plan, decisions, rows, open, o, t)]}
  BY DEF Propose
<1> QED BY <1>1 DEF Proper

LEMMA ProposalsAreProper ==
  ASSUME NEW plan, NEW decisions \in Decisions, NEW rows, NEW day
  PROVE  Proper(plan, decisions, rows, Open(plan, decisions, day),
                Proposals(plan, decisions, rows, day))
<1>1. PICK open : open = Open(plan, decisions, day)
  OBVIOUS
<1>2. open \in SUBSET Occurrences
  BY <1>1 DEF Open
<1>3. PICK f : /\ f = CHOOSE g : Recursion(plan, decisions, rows, open, open, g)
               /\ Proposals(plan, decisions, rows, day) = f[open]
  BY <1>1, RecursionDefines
<1>4. Recursion(plan, decisions, rows, open, open, f)
  BY <1>2, <1>3, RecursionIsThere
<1>5. OneByOne(plan, decisions, rows, open, open, f)
  BY <1>4, RecursionStep
<1> DEFINE Good(T) == Proper(plan, decisions, rows, open, f[T])
           Bad == {T \in SUBSET open : ~Good(T)}
<1>6. Bad = {}
  <2> SUFFICES ASSUME Bad # {} PROVE FALSE
    OBVIOUS
  <2>1. PICK T \in Bad : \A U \in Bad : U \subseteq T => U = T
    <3>1. Bad \in SUBSET SUBSET open /\ IsFiniteSet(open)
      BY <1>2, FS_Subset, OccurrencesFinite
    <3> HIDE DEF Bad
    <3> QED BY <3>1, SmallestSubset
  <2>2. T \in SUBSET open /\ T \in SUBSET Occurrences /\ ~Good(T)
    BY <1>2, <2>1
  <2>3. T # {}
    <3>1. Good({})
      BY <1>5 DEF OneByOne, Proper
    <3> QED BY <2>2, <3>1
  <2> DEFINE l == LastOf(decisions, T)
             U == T \ {l}
  <2>4. l \in T /\ l \in open
    BY <2>2, <2>3, LastIsThere
  <2>5. Good(U)
    BY <2>1, <2>2, <2>4
  <2>6. f[T] = Propose(plan, decisions, rows, open, f[U], l)
    BY <1>5, <2>2, <2>3 DEF OneByOne
  <2> HIDE DEF U, l
  <2>7. Proper(plan, decisions, rows, open, f[T])
    BY <2>4, <2>5, <2>6, ProposeIsProper
  <2> QED BY <2>2, <2>7
<1>7. Good(open)
  BY <1>6
<1> QED BY <1>1, <1>3, <1>7

-----------------------------------------------------------------------------
(* The store stays sound when one record or one decision is replaced.        *)
LEMMA SoundPlan ==
  ASSUME NEW plan, NEW decisions, Sound(plan, decisions), NEW r \in Records,
         NEW e \in Record, e.state = "confirmed" => e.confirmed # None
  PROVE  Sound([plan EXCEPT ![r] = e], decisions)
<1>1. PICK new : new = [plan EXCEPT ![r] = e]
  OBVIOUS
<1>2. new \in Plans /\ new[r] = e /\ \A s \in Records \ {r} : new[s] = plan[s]
  BY <1>1 DEF Sound, Plans
<1>3. \A s \in Records : (new[s] # None /\ new[s].state = "confirmed") => new[s].confirmed # None
  BY <1>2 DEF Sound
<1> QED BY <1>1, <1>2, <1>3 DEF Sound

LEMMA SoundDecision ==
  ASSUME NEW plan, NEW decisions, Sound(plan, decisions), NEW o \in Occurrences,
         NEW d, Takes(decisions, o, d)
  PROVE  Sound(plan, [decisions EXCEPT ![o] = d])
<1>1. PICK new : new = [decisions EXCEPT ![o] = d]
  OBVIOUS
<1>2. new \in Decisions /\ new[o] = d /\ \A p \in Occurrences \ {o} : new[p] = decisions[p]
  BY <1>1 DEF Sound, Decisions, Takes
<1>3. \A p \in Occurrences : /\ (new[p].match = None) <=> (new[p].by = None)
                            /\ new[p].match \notin new[p].rejected
  BY <1>2 DEF Sound, Takes
<1>4. Unshared(new)
  BY <1>2 DEF Sound, Takes, Unshared
<1> QED BY <1>1, <1>2, <1>3, <1>4 DEF Sound

LEMMA TakesSame ==
  ASSUME NEW plan, NEW decisions, Sound(plan, decisions), NEW o \in Occurrences, NEW d \in Decision,
         \/ d.match = None /\ d.by = None
         \/ /\ d.match = decisions[o].match /\ d.by = decisions[o].by
            /\ d.rejected = decisions[o].rejected
  PROVE  Takes(decisions, o, d)
<1>1. None \notin Transactions
  BY IdsAreOrdered, NoneIsNone DEF Transactions
<1> QED BY <1>1 DEF Takes, Sound, Unshared, Decision

(* A request that does not wait, and one that goes on.                       *)
LEMMA AtOnceKeeps ==
  ASSUME PlanInv, NEW name, AtOnce(name), Sound(planned', decided')
  PROVE  PlanInv'
BY DEF PlanInv, AtOnce

LEMMA TaskKeeps ==
  ASSUME PlanInv, NEW q \in Tasks, NEW step, TaskOK(step), task' = [task EXCEPT ![q] = step],
         today' = today, held' \subseteq Transactions, Sound(planned', decided')
  PROVE  PlanInv'
<1>1. task' = [p \in Tasks |-> IF p = q THEN step ELSE task[p]]
  BY DEF PlanInv
<1>2. task' = [p \in Tasks |-> task'[p]]
  BY <1>1
<1>3. \A p \in Tasks : TaskOK(task'[p])
  BY <1>1 DEF PlanInv
<1> QED BY <1>2, <1>3 DEF PlanInv

-----------------------------------------------------------------------------
LEMMA PlanInit == Init => PlanInv
<1> SUFFICES ASSUME Init PROVE PlanInv
  OBVIOUS
<1>1. today \in Days /\ held \subseteq Transactions
  BY DaysOfThePlan DEF Init, Days
<1>2. planned \in Plans /\ \A r \in Records : planned[r] = None
  BY DEF Init, Plans
<1>3. \A o \in Occurrences : decided[o] = Undecided
  BY DEF Init
<1>4. Undecided \in Decision
  BY DEF Undecided, Decision
<1>5. decided \in Decisions
  BY <1>4 DEF Init, Decisions
<1>6. Sound(planned, decided)
  BY <1>2, <1>3, <1>5 DEF Sound, Undecided, Unshared
<1>7. task = [q \in Tasks |-> task[q]] /\ \A q \in Tasks : TaskOK(task[q])
  BY DEF Init, TaskOK
<1> QED BY <1>1, <1>6, <1>7 DEF PlanInv

LEMMA ChangeKeeps ==
  ASSUME PlanInv, NEW r \in Records, Change(r)
  PROVE  PlanInv'
<1>1. Sound(planned, decided) /\ planned \in Plans /\ today \in Days
  BY DEF PlanInv, Sound
<1>2. today # None
  BY <1>1, NoneIsNone, DaysOfThePlan DEF Days
<1>3. planned[r] # None => planned[r] \in Record
  BY <1>1 DEF Plans
<1>4. ASSUME NEW start \in Days, NEW amount \in Amounts, NEW key \in Keys \cup {None},
             Add(r, start, amount, key)
      PROVE  PlanInv'
  <2>1. PICK e : e = [start |-> start, amount |-> amount, key |-> key,
       state |-> "confirmed", by |-> "manual", confirmed |-> today, suggested |-> today, of |-> None]
    OBVIOUS
  <2>2. e \in Record /\ e.confirmed # None
    BY <1>1, <1>2, <2>1 DEF Record
  <2>3. planned' = [planned EXCEPT ![r] = e] /\ decided' = decided /\ AtOnce("add")
    BY <1>4, <2>1 DEF Add
  <2>4. Sound(planned', decided')
    BY <1>1, <2>2, <2>3, SoundPlan
  <2> QED BY <2>3, <2>4, AtOnceKeeps
<1>5. ASSUME NEW start \in Days, NEW amount \in Amounts, NEW key \in Keys \cup {None},
             Edit(r, start, amount, key)
      PROVE  PlanInv'
  <2>1. planned[r] # None /\ planned[r] \in Record
    BY <1>3, <1>5 DEF Edit
  <2>2. PICK e : e = [planned[r] EXCEPT !.start = start, !.amount = amount, !.key = key]
    OBVIOUS
  <2>3. e \in Record /\ e.state = planned[r].state /\ e.confirmed = planned[r].confirmed
    BY <2>1, <2>2 DEF Record
  <2>4. planned' = [planned EXCEPT ![r] = e] /\ decided' = decided /\ AtOnce("edit")
    BY <1>1, <1>5, <2>2 DEF Edit, Plans
  <2>5. Sound(planned', decided')
    <3>1. e.state = "confirmed" => e.confirmed # None
      BY <1>1, <2>1, <2>3 DEF Sound
    <3> QED BY <1>1, <2>3, <2>4, <3>1, SoundPlan
  <2> QED BY <2>4, <2>5, AtOnceKeeps
<1>6. CASE Confirm(r)
  <2>1. planned[r] # None /\ planned[r] \in Record
    BY <1>3, <1>6 DEF Confirm
  <2>2. PICK on : on = IF planned[r].confirmed = None THEN today ELSE planned[r].confirmed
    OBVIOUS
  <2>3. PICK e : e = [planned[r] EXCEPT !.state = "confirmed", !.by = "manual", !.confirmed = on]
    OBVIOUS
  <2>4. on # None /\ on \in Days
    BY <1>1, <1>2, <2>1, <2>2 DEF Record
  <2>5. e \in Record /\ e.confirmed # None
    BY <2>1, <2>3, <2>4 DEF Record
  <2>6. planned' = [planned EXCEPT ![r] = e] /\ decided' = decided /\ AtOnce("confirm")
    BY <1>1, <1>6, <2>1, <2>2, <2>3 DEF Confirm, Plans, Record
  <2>7. Sound(planned', decided')
    BY <1>1, <2>5, <2>6, SoundPlan
  <2> QED BY <2>6, <2>7, AtOnceKeeps
<1>7. CASE PutAway(r)
  <2>1. planned[r] # None /\ planned[r] \in Record
    BY <1>3, <1>7 DEF PutAway
  <2>2. PICK e : e = [planned[r] EXCEPT !.state = "dismissed"]
    OBVIOUS
  <2>3. e \in Record /\ e.state = "dismissed"
    BY <2>1, <2>2 DEF Record
  <2>4. planned' = [planned EXCEPT ![r] = e] /\ decided' = decided /\ AtOnce("put away")
    BY <1>7, <2>2 DEF PutAway
  <2>5. Sound(planned', decided')
    BY <1>1, <2>3, <2>4, SoundPlan
  <2> QED BY <2>4, <2>5, AtOnceKeeps
<1>8. CASE RemovePlan(r)
  <2>1. /\ planned' = [planned EXCEPT ![r] = None] /\ AtOnce("remove")
        /\ decided' = [o \in Occurrences |-> IF o[1] = r THEN Undecided ELSE decided[o]]
    BY <1>8 DEF RemovePlan
  <2>2. planned' \in Plans /\ planned'[r] = None /\ \A s \in Records \ {r} : planned'[s] = planned[s]
    BY <1>1, <2>1 DEF Plans
  <2>3. Undecided \in Decision /\ Undecided.match = None /\ Undecided.by = None
        /\ Undecided.rejected = {}
    BY DEF Undecided, Decision
  <2>4. decided \in Decisions /\ \A o \in Occurrences : decided'[o] \in {Undecided, decided[o]}
    BY <1>1, <2>1 DEF Sound
  <2>5. decided' \in Decisions
    BY <2>1, <2>3, <2>4 DEF Decisions
  <2>6. \A o \in Occurrences : /\ (decided'[o].match = None) <=> (decided'[o].by = None)
                               /\ decided'[o].match \notin decided'[o].rejected
    BY <1>1, <2>3, <2>4 DEF Sound
  <2>7. Unshared(decided')
    BY <1>1, <2>3, <2>4 DEF Sound, Unshared
  <2>8. \A s \in Records : (planned'[s] # None /\ planned'[s].state = "confirmed") => planned'[s].confirmed # None
    BY <1>1, <2>2 DEF Sound
  <2>9. Sound(planned', decided')
    BY <2>2, <2>5, <2>6, <2>7, <2>8 DEF Sound
  <2> QED BY <2>1, <2>9, AtOnceKeeps
<1> QED BY <1>4, <1>5, <1>6, <1>7, <1>8 DEF Change

LEMMA DecideOnKeeps ==
  ASSUME PlanInv, NEW o \in Occurrences, DecideOn(o)
  PROVE  PlanInv'
<1>1. Sound(planned, decided) /\ decided \in Decisions /\ decided[o] \in Decision
  BY DEF PlanInv, Sound, Decisions
<1>2. ASSUME NEW name, NEW d, AtOnce(name), Decide(o, d), Takes(decided, o, d) PROVE PlanInv'
  <2>1. Sound(planned', decided')
    BY <1>1, <1>2, SoundDecision DEF Decide
  <2> QED BY <1>2, <2>1, AtOnceKeeps
<1>3. ASSUME NEW to \in Days, Reschedule(o, to) PROVE PlanInv'
  <2>1. PICK day : day = IF to = o[2] THEN None ELSE to
    OBVIOUS
  <2>2. PICK d : d = [decided[o] EXCEPT !.to = day]
    OBVIOUS
  <2>3. /\ d \in Decision /\ d.match = decided[o].match /\ d.by = decided[o].by
        /\ d.rejected = decided[o].rejected
    BY <1>1, <2>1, <2>2 DEF Decision
  <2>4. Decide(o, d) /\ AtOnce("reschedule")
    BY <1>3, <2>1, <2>2 DEF Reschedule
  <2>5. Takes(decided, o, d)
    BY <1>1, <2>3, TakesSame
  <2> QED BY <1>2, <2>4, <2>5
<1>4. ASSUME NEW dismissed \in BOOLEAN, Dismiss(o, dismissed) PROVE PlanInv'
  <2>1. PICK d : d = [decided[o] EXCEPT !.dismissed = dismissed]
    OBVIOUS
  <2>2. /\ d \in Decision /\ d.match = decided[o].match /\ d.by = decided[o].by
        /\ d.rejected = decided[o].rejected
    BY <1>1, <2>1 DEF Decision
  <2>3. Decide(o, d) /\ AtOnce("dismiss")
    BY <1>4, <2>1 DEF Dismiss
  <2>4. Takes(decided, o, d)
    BY <1>1, <2>2, TakesSame
  <2> QED BY <1>2, <2>3, <2>4
<1>5. ASSUME NEW t \in held, Reject(o, t) PROVE PlanInv'
  <2>1. t \in Transactions
    BY DEF PlanInv
  <2>2. PICK m : m = IF decided[o].match = t THEN None ELSE decided[o].match
    OBVIOUS
  <2>3. PICK b : b = IF decided[o].match = t THEN None ELSE decided[o].by
    OBVIOUS
  <2>4. PICK d : d = [decided[o] EXCEPT !.rejected = decided[o].rejected \cup {t}, !.match = m, !.by = b]
    OBVIOUS
  <2>5. /\ d \in Decision /\ d.match = m /\ d.by = b
        /\ d.rejected = decided[o].rejected \cup {t}
    BY <1>1, <2>1, <2>2, <2>3, <2>4 DEF Decision
  <2>6. Decide(o, d) /\ AtOnce("reject")
    BY <1>1, <1>5, <2>2, <2>3, <2>4 DEF Reject, Decision
  <2>7. Takes(decided, o, d)
    <3>1. CASE decided[o].match = t
      BY <1>1, <2>2, <2>3, <2>5, <3>1, TakesSame
    <3>2. CASE decided[o].match # t
      BY <1>1, <2>2, <2>3, <2>5, <3>2 DEF Takes, Sound, Unshared
    <3> QED BY <3>1, <3>2
  <2> QED BY <1>2, <2>6, <2>7
<1>6. CASE Unmatch(o)
  <2>1. PICK d : d = [decided[o] EXCEPT !.match = None, !.by = None]
    OBVIOUS
  <2>2. d \in Decision /\ d.match = None /\ d.by = None
    BY <1>1, <2>1 DEF Decision
  <2>3. Decide(o, d) /\ AtOnce("unmatch")
    BY <1>6, <2>1 DEF Unmatch
  <2>4. Takes(decided, o, d)
    BY <1>1, <2>2, TakesSame
  <2> QED BY <1>2, <2>3, <2>4
<1> QED BY <1>3, <1>4, <1>5, <1>6 DEF DecideOn

(* A person's match, and the counterparty the record learns from it.         *)
LEMMA ApplyMatchKeeps ==
  ASSUME PlanInv, NEW q \in Tasks, NEW o \in Occurrences, NEW t \in held, ApplyMatch(q, o, t)
  PROVE  PlanInv'
<1>1. /\ Sound(planned, decided) /\ planned \in Plans /\ decided \in Decisions
      /\ decided[o] \in Decision /\ t \in Transactions /\ held \subseteq Transactions
  BY DEF PlanInv, Sound, Decisions
<1>2. t # None /\ o[1] \in Records
  BY <1>1, IdsAreOrdered, NoneIsNone DEF Transactions, Occurrences
<1>3. PICK d : d = [decided[o] EXCEPT !.match = t, !.by = "manual", !.rejected = decided[o].rejected \ {t}]
  OBVIOUS
<1>4. /\ d \in Decision /\ d.match = t /\ d.by = "manual"
      /\ d.rejected = decided[o].rejected \ {t}
  BY <1>1, <1>3 DEF Decision
<1>5. /\ UNCHANGED <<today, held>>
      /\ ~\E other \in Occurrences \ {o} : decided[other].match = t
      /\ Falls(planned, o)
      /\ \/ Decide(o, d) /\ UNCHANGED task
         \/ Waits(q, [at |-> "learn", of |-> o, with |-> t, decision |-> d,
                      planned |-> planned, decided |-> decided])
  BY <1>1, <1>3 DEF ApplyMatch, Decision
<1>6. Takes(decided, o, d)
  BY <1>2, <1>4, <1>5, NoneIsNone DEF Takes
<1>7. CASE Decide(o, d) /\ UNCHANGED task
  <2>1. Sound(planned', decided')
    BY <1>1, <1>6, <1>7, SoundDecision DEF Decide
  <2> QED BY <1>5, <1>7, <2>1 DEF PlanInv
<1>8. CASE Waits(q, [at |-> "learn", of |-> o, with |-> t, decision |-> d,
                     planned |-> planned, decided |-> decided])
  <2>1. PICK step : step = [at |-> "learn", of |-> o, with |-> t, decision |-> d,
                            planned |-> planned, decided |-> decided]
    OBVIOUS
  <2>2. Learning(step)
    BY <1>1, <1>4, <1>5, <1>6, <2>1 DEF Learning, Falls
  <2>3. TaskOK(step)
    BY <1>1, <2>1, <2>2 DEF TaskOK
  <2>4. task' = [task EXCEPT ![q] = step] /\ UNCHANGED <<planned, decided>>
    BY <1>8, <2>1 DEF Waits
  <2> QED BY <1>1, <1>5, <2>3, <2>4, TaskKeeps
<1> QED BY <1>5, <1>7, <1>8

LEMMA TaskAt ==
  ASSUME PlanInv, NEW q \in Tasks, task[q].at # "idle"
  PROVE  /\ Sound(task[q].planned, task[q].decided)
         /\ {"at", "planned", "decided"} \subseteq DOMAIN task[q]
         /\ task[q].at = "learn" => Learning(task[q])
         /\ task[q].at = "match" => task[q].day \in Days
BY DEF PlanInv, TaskOK, Learning, Idle

LEMMA LearnKeeps ==
  ASSUME PlanInv, NEW q \in Tasks, Learn(q)
  PROVE  PlanInv'
<1>1. PICK it : it = task[q]
  OBVIOUS
<1>2. it.at = "learn" /\ task' = [task EXCEPT ![q] = Idle] /\ UNCHANGED <<today, held, asked>>
  BY <1>1 DEF Learn, Goes
<1>3. Learning(it) /\ Sound(it.planned, it.decided)
  BY <1>1, <1>2, TaskAt
<1>4. it.of[1] \in Records /\ it.planned[it.of[1]] \in Record
  BY <1>3 DEF Learning, Sound, Plans, Occurrences
<1>5. PICK e : e = [it.planned[it.of[1]] EXCEPT !.key = Booked[it.with].key]
  OBVIOUS
<1>6. /\ e \in Record /\ e.state = it.planned[it.of[1]].state
      /\ e.confirmed = it.planned[it.of[1]].confirmed
  BY <1>3, <1>4, <1>5 DEF Record, Learning
<1>7. /\ planned' = [it.planned EXCEPT ![it.of[1]] = e]
      /\ decided' = [it.decided EXCEPT ![it.of] = it.decision]
  BY <1>1, <1>5 DEF Learn, Store
<1>8. Sound(planned', it.decided)
  <2>1. e.state = "confirmed" => e.confirmed # None
    BY <1>3, <1>4, <1>6 DEF Sound, Learning
  <2> QED BY <1>3, <1>4, <1>6, <1>7, <2>1, SoundPlan
<1>9. Sound(planned', decided')
  BY <1>3, <1>7, <1>8, SoundDecision DEF Learning
<1> QED BY <1>2, <1>9, TaskKeeps DEF PlanInv, TaskOK

(* A pass begins with a store that is sound.                                 *)
LEMMA RunMatchingKeeps ==
  ASSUME PlanInv, NEW q \in Tasks, NEW imported \in SUBSET (Transactions \ held),
         RunMatching(q, imported)
  PROVE  PlanInv'
<1>1. PICK step : step = [at |-> "match", day |-> today, planned |-> planned, decided |-> decided]
  OBVIOUS
<1>2. /\ task' = [task EXCEPT ![q] = step] /\ held' = held \cup imported
      /\ UNCHANGED <<today, planned, decided>>
  BY <1>1 DEF RunMatching, Waits
<1>3. TaskOK(step)
  BY <1>1 DEF TaskOK, PlanInv
<1>4. held' \subseteq Transactions
  BY <1>2 DEF PlanInv
<1> QED BY <1>2, <1>3, <1>4, TaskKeeps DEF PlanInv

LEMMA SuggestKeeps ==
  ASSUME PlanInv, NEW q \in Tasks, Suggest(q)
  PROVE  PlanInv'
<1>1. PICK at \in {"detect", "retire"} :
        task' = [task EXCEPT ![q] = [at |-> at, planned |-> planned, decided |-> decided]]
  BY DEF Suggest, Waits
<1>2. UNCHANGED <<today, held, planned, decided>>
  BY DEF Suggest, Waits
<1>3. TaskOK([at |-> at, planned |-> planned, decided |-> decided])
  BY DEF TaskOK, PlanInv
<1> QED BY <1>1, <1>2, <1>3, TaskKeeps DEF PlanInv

LEMMA RetireKeeps ==
  ASSUME PlanInv, NEW q \in Tasks, Retire(q)
  PROVE  PlanInv'
<1>1. PICK it : it = task[q]
  OBVIOUS
<1>2. PICK step : step = [it EXCEPT !.at = "detect"]
  OBVIOUS
<1>3. /\ it.at = "retire" /\ task' = [task EXCEPT ![q] = step] /\ UNCHANGED <<today, held, asked>>
  BY <1>1, <1>2 DEF Retire, Goes
<1>4. Sound(it.planned, it.decided) /\ {"at", "planned", "decided"} \subseteq DOMAIN it
  BY <1>1, <1>3, TaskAt
<1>5. /\ step.at = "detect" /\ step.planned = it.planned /\ step.decided = it.decided
      /\ DOMAIN step = DOMAIN it
  BY <1>2, <1>4
<1>6. TaskOK(step)
  BY <1>4, <1>5 DEF TaskOK
<1>7. Sound(planned', decided')
  <2>1. PICK out \in SUBSET Offered(it.planned) :
          \/ UNCHANGED <<planned, decided>>
          \/ Store(q, [r \in Records |-> IF r \in out THEN [it.planned[r] EXCEPT !.state = "retired"] ELSE it.planned[r]],
                   it.decided)
    BY <1>1 DEF Retire
  <2>2. CASE UNCHANGED <<planned, decided>>
    BY <2>2 DEF PlanInv
  <2>3. CASE Store(q, [r \in Records |-> IF r \in out THEN [it.planned[r] EXCEPT !.state = "retired"] ELSE it.planned[r]],
                   it.decided)
    <3>1. /\ planned' = [r \in Records |-> IF r \in out THEN [it.planned[r] EXCEPT !.state = "retired"] ELSE it.planned[r]]
          /\ decided' = it.decided
      BY <2>3 DEF Store
    <3>2. ASSUME NEW r \in Records
          PROVE  /\ planned'[r] \in Record \cup {None}
                 /\ planned'[r] = it.planned[r] \/ planned'[r].state = "retired"
      <4>1. it.planned[r] \in Record \cup {None}
        BY <1>4 DEF Sound, Plans
      <4>2. CASE r \in out
        <5>1. it.planned[r] \in Record
          BY <4>1, <4>2 DEF Offered
        <5>2. planned'[r] = [it.planned[r] EXCEPT !.state = "retired"]
          BY <3>1, <4>2
        <5> QED BY <5>1, <5>2 DEF Record
      <4>3. CASE r \notin out
        BY <3>1, <4>1, <4>3
      <4> QED BY <4>2, <4>3
    <3>3. planned' \in Plans
      BY <3>1, <3>2 DEF Plans
    <3>4. \A r \in Records : (planned'[r] # None /\ planned'[r].state = "confirmed") => planned'[r].confirmed # None
      BY <1>4, <3>2 DEF Sound
    <3> QED BY <1>4, <3>1, <3>3, <3>4 DEF Sound
  <2> QED BY <2>1, <2>2, <2>3
<1> QED BY <1>3, <1>6, <1>7, TaskKeeps DEF PlanInv

LEMMA DetectKeeps ==
  ASSUME PlanInv, NEW q \in Tasks, Detect(q)
  PROVE  PlanInv'
<1>1. /\ task' = [task EXCEPT ![q] = Idle] /\ UNCHANGED <<today, held, asked, decided>>
  BY DEF Detect, Goes
<1>2. Sound(planned', decided')
  <2>1. CASE UNCHANGED planned
    BY <1>1, <2>1 DEF PlanInv
  <2>2. CASE ~UNCHANGED planned
    <3>1. PICK r \in Records, s \in Series :
            planned' = [planned EXCEPT ![r] = [start |-> s.start, amount |-> s.amount, key |-> s.key,
               state |-> "suggested", by |-> "detected", confirmed |-> None, suggested |-> today, of |-> s]]
      BY <2>2 DEF Detect
    <3>2. PICK e : e = [start |-> s.start, amount |-> s.amount, key |-> s.key,
               state |-> "suggested", by |-> "detected", confirmed |-> None, suggested |-> today, of |-> s]
      OBVIOUS
    <3>3. e \in Record /\ e.state = "suggested"
      BY <3>2, SeriesBegin DEF Record, PlanInv
    <3> QED BY <1>1, <3>1, <3>2, <3>3, SoundPlan DEF PlanInv
  <2> QED BY <2>1, <2>2
<1> QED BY <1>1, <1>2, TaskKeeps DEF PlanInv, TaskOK

(* What a pass is sure of would do for one date, and for it alone.           *)
Sure(plan, decisions, rows, day) == {f \in Proposals(plan, decisions, rows, day) : f.sure}

LEMMA SureIs ==
  ASSUME NEW plan \in Plans, NEW decisions \in Decisions, NEW rows, NEW day \in Days,
         NEW f \in Sure(plan, decisions, rows, day)
  PROVE  /\ f.of \in Occurrences /\ Counts(plan, decisions, day, f.of)
         /\ f.with \in rows /\ f.with \notin Taken(decisions) \cup decisions[f.of].rejected
         /\ Qualifies(plan, decisions, f.of, f.with)
         /\ \A u \in rows \ (Taken(decisions) \cup decisions[f.of].rejected) :
              Qualifies(plan, decisions, f.of, u) => u = f.with
         /\ \A p \in Occurrences \ {f.of} : Counts(plan, decisions, day, p) =>
              f.with \notin Would(plan, decisions, rows, p)
<1>1. PICK open : open = Open(plan, decisions, day)
  OBVIOUS
<1>2. f.of \in open /\ Confident(plan, decisions, rows, open, f.of, f.with)
  BY <1>1, ProposalsAreProper DEF Proper, Sure
<1>3. \A o \in Occurrences : o \in open <=> Counts(plan, decisions, day, o)
  BY <1>1, OpenIs
<1>4. open \subseteq Occurrences
  BY <1>1 DEF Open
<1>5. Would(plan, decisions, rows, f.of) = {f.with}
  BY <1>2 DEF Confident
<1>6. /\ f.with \in rows /\ f.with \notin Taken(decisions) \cup decisions[f.of].rejected
      /\ Qualifies(plan, decisions, f.of, f.with)
      /\ \A u \in rows \ (Taken(decisions) \cup decisions[f.of].rejected) :
           Qualifies(plan, decisions, f.of, u) => u = f.with
  BY <1>5 DEF Would
<1>7. \A p \in Occurrences \ {f.of} : Counts(plan, decisions, day, p) =>
        f.with \notin Would(plan, decisions, rows, p)
  BY <1>2, <1>3 DEF Confident
<1> QED BY <1>2, <1>3, <1>4, <1>6, <1>7

(* What a pass makes of the decisions it read.                               *)
Applied(decisions, sure) == [o \in Occurrences |->
  IF \E f \in sure : f.of = o
  THEN [decisions[o] EXCEPT !.match = (CHOOSE f \in sure : f.of = o).with, !.by = "automatic"]
  ELSE decisions[o]]

Applies(decisions, sure, o) ==
  LET d == Applied(decisions, sure)[o] IN
  \/ d = decisions[o]
  \/ \E f \in sure :
       /\ f.of = o /\ d = [decisions[o] EXCEPT !.match = f.with, !.by = "automatic"]
       /\ d \in Decision /\ d.match = f.with /\ d.by = "automatic"
       /\ d.rejected = decisions[o].rejected

OfTransactions(sure) == \A f \in sure : f.with \in Transactions

LEMMA AppliedIs ==
  ASSUME NEW decisions \in Decisions, NEW sure, NEW o \in Occurrences, OfTransactions(sure)
  PROVE  Applies(decisions, sure, o)
<1>1. CASE \E f \in sure : f.of = o
  <2>1. PICK f : f = CHOOSE g \in sure : g.of = o
    OBVIOUS
  <2>2. f \in sure /\ f.of = o
    BY <1>1, <2>1
  <2>3. Applied(decisions, sure)[o] = [decisions[o] EXCEPT !.match = f.with, !.by = "automatic"]
    BY <1>1, <2>1 DEF Applied
  <2>4. decisions[o] \in Decision /\ f.with \in Transactions
    BY <2>2 DEF Decisions, OfTransactions
  <2>5. PICK d : d = [decisions[o] EXCEPT !.match = f.with, !.by = "automatic"]
    OBVIOUS
  <2>6. d \in Decision /\ d.match = f.with /\ d.by = "automatic" /\ d.rejected = decisions[o].rejected
    BY <2>4, <2>5 DEF Decision
  <2>7. Applied(decisions, sure)[o] = d
    BY <2>3, <2>5
  <2> QED BY <2>2, <2>3, <2>6, <2>7, Zenon DEF Applies
<1>2. CASE ~\E f \in sure : f.of = o
  BY <1>2 DEF Applied, Applies
<1> QED BY <1>1, <1>2

(* A pass gives no transaction away twice: two dates that are sure of one    *)
(* would each take it from the other, and neither is sure of it.             *)
LEMMA AppliedIsSound ==
  ASSUME NEW plan, NEW decisions, Sound(plan, decisions), NEW rows \in SUBSET Transactions,
         NEW day \in Days
  PROVE  Sound(plan, Applied(decisions, Sure(plan, decisions, rows, day)))
<1>1. plan \in Plans /\ decisions \in Decisions
  BY DEF Sound
<1>2. PICK sure : sure = Sure(plan, decisions, rows, day)
  OBVIOUS
<1>3. \A f \in sure :
         /\ f.of \in Occurrences /\ Counts(plan, decisions, day, f.of)
         /\ f.with \in rows /\ f.with \notin Taken(decisions) \cup decisions[f.of].rejected
         /\ Qualifies(plan, decisions, f.of, f.with)
         /\ \A p \in Occurrences \ {f.of} : Counts(plan, decisions, day, p) =>
              f.with \notin Would(plan, decisions, rows, p)
  BY <1>1, <1>2, SureIs
<1>4. \A f, g \in sure : f.of # g.of => f.with # g.with
  <2> SUFFICES ASSUME NEW f \in sure, NEW g \in sure, f.of # g.of, f.with = g.with PROVE FALSE
    OBVIOUS
  <2>1. g.with \in Would(plan, decisions, rows, g.of)
    BY <1>3 DEF Would
  <2>2. f.with \notin Would(plan, decisions, rows, g.of)
    BY <1>3
  <2> QED BY <2>1, <2>2
<1>5. PICK new : new = Applied(decisions, sure)
  OBVIOUS
<1>6. \A o \in Occurrences :
         \/ new[o] = decisions[o]
         \/ \E f \in sure : /\ f.of = o /\ new[o] \in Decision /\ new[o].match = f.with
                            /\ new[o].by = "automatic" /\ new[o].rejected = decisions[o].rejected
  <2> TAKE o \in Occurrences
  <2>1. OfTransactions(sure)
    BY <1>3 DEF OfTransactions
  <2>2. Applies(decisions, sure, o)
    BY <1>1, <2>1, AppliedIs
  <2> QED BY <1>5, <2>2, Zenon DEF Applies
<1>7. new \in Decisions
  <2>1. new = [o \in Occurrences |-> new[o]]
    BY <1>5 DEF Applied
  <2>2. \A o \in Occurrences : new[o] \in Decision
    BY <1>1, <1>6 DEF Decisions
  <2> QED BY <2>1, <2>2 DEF Decisions
<1>8. None \notin Transactions
  BY IdsAreOrdered, NoneIsNone DEF Transactions
<1>9. ASSUME NEW o \in Occurrences
      PROVE  /\ (new[o].match = None) <=> (new[o].by = None)
             /\ new[o].match \notin new[o].rejected
  <2>1. CASE new[o] = decisions[o]
    BY <2>1 DEF Sound
  <2>2. CASE new[o] # decisions[o]
    BY <1>3, <1>6, <1>8, <2>2, NoneIsNone
  <2> QED BY <2>1, <2>2
<1>10. ASSUME NEW o \in Occurrences, NEW p \in Occurrences, o # p, new[o].match # None
       PROVE  new[o].match # new[p].match
  <2>1. CASE new[o] = decisions[o] /\ new[p] = decisions[p]
    BY <1>10, <2>1 DEF Sound, Unshared
  <2>2. ASSUME NEW x \in Occurrences, NEW y \in Occurrences, new[x] # decisions[x],
               new[y] = decisions[y], new[y].match # None
        PROVE  new[x].match # new[y].match
    BY <1>3, <1>6, <2>2 DEF Taken
  <2>3. CASE new[o] # decisions[o] /\ new[p] # decisions[p]
    BY <1>4, <1>6, <1>10, <2>3
  <2>4. CASE new[o] # decisions[o] /\ new[p] = decisions[p]
    <3>1. CASE new[p].match = None
      BY <1>10, <3>1
    <3>2. CASE new[p].match # None
      BY <2>2, <2>4, <3>2
    <3> QED BY <3>1, <3>2
  <2>5. CASE new[o] = decisions[o] /\ new[p] # decisions[p]
    BY <1>10, <2>2, <2>5
  <2> QED BY <2>1, <2>3, <2>4, <2>5
<1>11. Unshared(new)
  BY <1>10 DEF Unshared
<1> QED BY <1>1, <1>2, <1>5, <1>7, <1>9, <1>11 DEF Sound

LEMMA MatchIs ==
  ASSUME NEW q \in Tasks, Match(q)
  PROVE  LET it == task[q]
             sure == Sure(it.planned, it.decided, held, it.day)
         IN  /\ it.at = "match" /\ task' = [task EXCEPT ![q] = Idle]
             /\ UNCHANGED <<today, held, asked>>
             /\ \/ UNCHANGED <<planned, decided>>
                \/ planned' = it.planned /\ decided' = Applied(it.decided, sure)
BY DEF Match, Goes, Store, Sure, Applied

LEMMA MatchKeeps ==
  ASSUME PlanInv, NEW q \in Tasks, Match(q)
  PROVE  PlanInv'
<1>1. PICK it : it = task[q]
  OBVIOUS
<1>2. /\ it.at = "match" /\ task' = [task EXCEPT ![q] = Idle] /\ UNCHANGED <<today, held, asked>>
      /\ \/ UNCHANGED <<planned, decided>>
         \/ /\ planned' = it.planned
            /\ decided' = Applied(it.decided, Sure(it.planned, it.decided, held, it.day))
  BY <1>1, MatchIs
<1>3. Sound(it.planned, it.decided) /\ it.day \in Days
  BY <1>1, <1>2, TaskAt
<1>4. Sound(planned', decided')
  BY <1>2, <1>3, AppliedIsSound DEF PlanInv
<1> QED BY <1>2, <1>4, TaskKeeps DEF PlanInv, TaskOK

LEMMA PlanStep ==
  ASSUME PlanInv, [Next]_vars
  PROVE  PlanInv'
<1>1. CASE NextDay
  BY <1>1, DaysOfThePlan DEF NextDay, PlanInv, Days
<1>2. ASSUME NEW q \in Tasks, Work(q) PROVE PlanInv'
  BY <1>2, ApplyMatchKeeps, RunMatchingKeeps, LearnKeeps, MatchKeeps, SuggestKeeps, RetireKeeps,
     DetectKeeps DEF Work
<1>3. CASE UNCHANGED vars
  BY <1>3 DEF vars, PlanInv
<1> QED BY <1>1, <1>2, <1>3, ChangeKeeps, DecideOnKeeps DEF Next

LEMMA PlanInvariant == Spec => []PlanInv
<1>1. PlanInv /\ [Next]_vars => PlanInv'
  BY PlanStep
<1> QED BY PlanInit, <1>1, PTL DEF Spec

(* A transaction settles one expected payment at most, whoever matched it    *)
(* and whatever crossed.                                                     *)
THEOREM OneEachHolds == Spec => []OneEach
<1>1. PlanInv => OneEach
  BY DEF PlanInv, Sound, Unshared, OneEach
<1> QED BY PlanInvariant, <1>1, PTL

(* The records, the decisions and the days are of their types, what is       *)
(* confirmed was so on some day, and who matched a date is known.            *)
THEOREM PlanTypes == Spec => []TypeOK
<1>1. PlanInv /\ asked \in 0..MaxAsked => TypeOK
  BY DEF PlanInv, Sound, Plans, Decisions, TypeOK
<1>2. Init => asked \in 0..MaxAsked
  BY MaxAskedIsNat DEF Init
<1>3. asked \in 0..MaxAsked /\ [Next]_vars => (asked \in 0..MaxAsked)'
  <2>1. [Next]_vars => UNCHANGED asked \/ (asked < MaxAsked /\ asked' = asked + 1)
    <3>1. ASSUME NEW r \in Records, Change(r) PROVE asked < MaxAsked /\ asked' = asked + 1
      BY <3>1 DEF Change, Add, Edit, Confirm, PutAway, RemovePlan, AtOnce, Asked
    <3>2. ASSUME NEW o \in Occurrences, DecideOn(o) PROVE asked < MaxAsked /\ asked' = asked + 1
      BY <3>2 DEF DecideOn, Reschedule, Dismiss, Reject, Unmatch, AtOnce, Asked
    <3>3. ASSUME NEW q \in Tasks, Work(q)
          PROVE  UNCHANGED asked \/ (asked < MaxAsked /\ asked' = asked + 1)
      BY <3>3 DEF Work, ApplyMatch, RunMatching, Suggest, Asked, Learn, Match, Retire, Detect, Goes
    <3> QED BY <3>1, <3>2, <3>3 DEF Next, NextDay, vars
  <2> QED BY <2>1, MaxAskedIsNat
<1> QED BY PlanInvariant, <1>1, <1>2, <1>3, PTL DEF Spec

-----------------------------------------------------------------------------
(* What is expected stays so, however late, until something is decided.      *)
LEMMA TodayGoesOn ==
  ASSUME PlanInv, [Next]_vars
  PROVE  today' >= today
<1>0. today \in Nat
  BY DaysOfThePlan DEF PlanInv, Days
<1>1. ASSUME NEW r \in Records, Change(r) PROVE today' = today
  BY <1>1 DEF Change, Add, Edit, Confirm, PutAway, RemovePlan, AtOnce
<1>2. ASSUME NEW o \in Occurrences, DecideOn(o) PROVE today' = today
  BY <1>2 DEF DecideOn, Reschedule, Dismiss, Reject, Unmatch, AtOnce
<1>3. ASSUME NEW q \in Tasks, Work(q) PROVE today' = today
  BY <1>3 DEF Work, ApplyMatch, RunMatching, Suggest, Learn, Match, Retire, Detect, Goes
<1>4. CASE NextDay
  BY <1>0, <1>4 DEF NextDay
<1>5. CASE UNCHANGED vars
  BY <1>0, <1>5 DEF vars
<1> QED BY <1>0, <1>1, <1>2, <1>3, <1>4, <1>5 DEF Next

THEOREM KeepsCountingHolds == Spec => KeepsCounting
<1> DEFINE Stays == \A o \in Open(planned, decided, today) :
      \/ o \in (Open(planned, decided, today))'
      \/ decided'[o] # decided[o]
      \/ planned'[o[1]] # planned[o[1]]
<1>1. ASSUME PlanInv, PlanInv', [Next]_vars PROVE Stays
  <2> SUFFICES ASSUME NEW o \in Open(planned, decided, today),
                      decided'[o] = decided[o], planned'[o[1]] = planned[o[1]]
               PROVE  o \in Open(planned', decided', today')
    OBVIOUS
  <2>1. o \in Occurrences
    BY DEF Open
  <2>2. /\ planned \in Plans /\ today \in Days /\ planned' \in Plans /\ today' \in Days
    BY <1>1 DEF PlanInv, Sound
  <2>3. Counts(planned, decided, today, o)
    BY <2>1, <2>2, OpenIs
  <2>4. today' >= today
    BY <1>1, TodayGoesOn
  <2>5. o[2] \in Nat /\ today \in Nat /\ today' \in Nat /\ Horizon \in Nat
    BY <2>1, <2>2, OccurrencesFinite, DaysOfThePlan DEF Days
  <2>6. Counts(planned', decided', today', o)
    BY <2>3, <2>4, <2>5 DEF Counts
  <2> QED BY <2>1, <2>2, <2>6, OpenIs
<1> HIDE DEF Stays
<1>2. PlanInv /\ PlanInv' /\ [Next]_vars => [Stays]_vars
  BY <1>1
<1>3. Spec => [][Stays]_vars
  BY PlanInvariant, <1>2, PTL DEF Spec
<1> QED BY <1>3 DEF KeepsCounting, Stays

-----------------------------------------------------------------------------
(* Where requests do not cross, a pass applies what it read to what it read. *)
AloneInv ==
  /\ \A q, r \in Tasks : (task[q] # Idle /\ task[r] # Idle) => q = r
  /\ \A q \in Tasks : task[q].at \in {"match", "learn", "retire"} =>
       task[q].planned = planned /\ task[q].decided = decided
  /\ \A q \in Tasks : task[q].at = "match" => task[q].day = today

LEMMA AloneRests ==
  ASSUME \A q \in Tasks : task[q] = Idle, task' = task
  PROVE  AloneInv'
BY DEF AloneInv, Idle

LEMMA AloneGoesOn ==
  ASSUME PlanInv, NEW q \in Tasks, \A r \in Tasks \ {q} : task[r] = Idle,
         NEW step, task' = [task EXCEPT ![q] = step],
         step.at \in {"match", "learn", "retire"} => step.planned = planned' /\ step.decided = decided',
         step.at = "match" => step.day = today'
  PROVE  AloneInv'
<1>1. task'[q] = step /\ \A r \in Tasks \ {q} : task'[r] = Idle
  BY DEF PlanInv
<1>2. \A r \in Tasks : task'[r] # Idle => r = q
  BY <1>1
<1>3. \A r \in Tasks : task'[r].at \in {"match", "learn", "retire"} =>
        task'[r].planned = planned' /\ task'[r].decided = decided'
  BY <1>1 DEF Idle
<1>4. \A r \in Tasks : task'[r].at = "match" => task'[r].day = today'
  BY <1>1 DEF Idle
<1> QED BY <1>2, <1>3, <1>4 DEF AloneInv

LEMMA OthersRest ==
  ASSUME AloneInv, NEW q \in Tasks, task[q].at # "idle"
  PROVE  \A r \in Tasks \ {q} : task[r] = Idle
BY DEF AloneInv, Idle

LEMMA AloneStep ==
  ASSUME Crossing = FALSE, PlanInv, AloneInv, [Next]_vars
  PROVE  AloneInv'
<1>1. ASSUME NEW r \in Records, Change(r) PROVE AloneInv'
  <2>1. \A q \in Tasks : task[q] = Idle /\ task' = task
    BY <1>1 DEF Change, Add, Edit, Confirm, PutAway, RemovePlan, AtOnce, Asked
  <2>2. task' = task
    BY <1>1 DEF Change, Add, Edit, Confirm, PutAway, RemovePlan, AtOnce
  <2> QED BY <2>1, <2>2, AloneRests
<1>2. ASSUME NEW o \in Occurrences, DecideOn(o) PROVE AloneInv'
  <2>1. \A q \in Tasks : task[q] = Idle
    BY <1>2 DEF DecideOn, Reschedule, Dismiss, Reject, Unmatch, AtOnce, Asked
  <2>2. task' = task
    BY <1>2 DEF DecideOn, Reschedule, Dismiss, Reject, Unmatch, AtOnce
  <2> QED BY <2>1, <2>2, AloneRests
<1>3. CASE NextDay
  BY <1>3, AloneRests DEF NextDay
<1>4. CASE UNCHANGED vars
  BY <1>4 DEF vars, AloneInv
<1>5. ASSUME NEW q \in Tasks, NEW o \in Occurrences, NEW t \in held, ApplyMatch(q, o, t)
      PROVE  AloneInv'
  <2>1. \A r \in Tasks : task[r] = Idle
    BY <1>5 DEF ApplyMatch, Asked
  <2>2. CASE UNCHANGED task
    BY <2>1, <2>2, AloneRests
  <2>3. CASE ~UNCHANGED task
    <3>1. PICK d : Waits(q, [at |-> "learn", of |-> o, with |-> t, decision |-> d,
                             planned |-> planned, decided |-> decided])
      BY <1>5, <2>3 DEF ApplyMatch
    <3>2. PICK step : step = [at |-> "learn", of |-> o, with |-> t, decision |-> d,
                              planned |-> planned, decided |-> decided]
      OBVIOUS
    <3>3. task' = [task EXCEPT ![q] = step] /\ UNCHANGED <<planned, decided>>
      BY <3>1, <3>2 DEF Waits
    <3>4. step.planned = planned' /\ step.decided = decided' /\ step.at = "learn"
      BY <3>2, <3>3
    <3> QED BY <2>1, <3>3, <3>4, AloneGoesOn
  <2> QED BY <2>2, <2>3
<1>6. ASSUME NEW q \in Tasks, NEW imported \in SUBSET (Transactions \ held), RunMatching(q, imported)
      PROVE  AloneInv'
  <2>1. \A r \in Tasks : task[r] = Idle
    BY <1>6 DEF RunMatching, Asked
  <2>2. PICK step : step = [at |-> "match", day |-> today, planned |-> planned, decided |-> decided]
    OBVIOUS
  <2>3. task' = [task EXCEPT ![q] = step] /\ UNCHANGED <<today, planned, decided>>
    BY <1>6, <2>2 DEF RunMatching, Waits
  <2>4. step.planned = planned' /\ step.decided = decided' /\ step.day = today'
    BY <2>2, <2>3
  <2> QED BY <2>1, <2>3, <2>4, AloneGoesOn
<1>7. ASSUME NEW q \in Tasks, Suggest(q) PROVE AloneInv'
  <2>1. \A r \in Tasks : task[r] = Idle
    BY <1>7 DEF Suggest, Asked
  <2>2. PICK step : step = [at |-> IF Offered(planned) = {} THEN "detect" ELSE "retire",
                            planned |-> planned, decided |-> decided]
    OBVIOUS
  <2>3. task' = [task EXCEPT ![q] = step] /\ UNCHANGED <<today, planned, decided>>
    BY <1>7, <2>2 DEF Suggest, Waits
  <2>4. step.planned = planned' /\ step.decided = decided' /\ step.at # "match"
    BY <2>2, <2>3
  <2> QED BY <2>1, <2>3, <2>4, AloneGoesOn
<1>8. ASSUME NEW q \in Tasks, Learn(q) \/ Match(q) \/ Detect(q) PROVE AloneInv'
  <2>1. task[q].at # "idle" /\ task' = [task EXCEPT ![q] = Idle]
    BY <1>8 DEF Learn, Match, Detect, Goes
  <2>2. \A r \in Tasks \ {q} : task[r] = Idle
    BY <2>1, OthersRest
  <2> QED BY <2>1, <2>2, AloneGoesOn DEF Idle
<1>9. ASSUME NEW q \in Tasks, Retire(q) PROVE AloneInv'
  <2>1. task[q].at = "retire"
    BY <1>9 DEF Retire, Goes
  <2>2. PICK step : step = [task[q] EXCEPT !.at = "detect"]
    OBVIOUS
  <2>3. task' = [task EXCEPT ![q] = step]
    BY <1>9, <2>2 DEF Retire, Goes
  <2>4. step.at = "detect"
    BY <2>1, <2>2, TaskAt
  <2>5. \A r \in Tasks \ {q} : task[r] = Idle
    BY <2>1, OthersRest
  <2> QED BY <2>3, <2>4, <2>5, AloneGoesOn
<1> QED BY <1>1, <1>2, <1>3, <1>4, <1>5, <1>6, <1>7, <1>8, <1>9 DEF Next, Work

LEMMA AloneInvariant == ASSUME Crossing = FALSE PROVE Spec => [](PlanInv /\ AloneInv)
<1>1. Init => AloneInv
  BY DEF Init, AloneInv, Idle
<1>2. PlanInv /\ AloneInv /\ [Next]_vars => AloneInv'
  BY AloneStep
<1> QED BY PlanInvariant, <1>1, <1>2, PTL DEF Spec

LEMMA ExpectedIs ==
  ASSUME PlanInv, NEW o \in Occurrences
  PROVE  Expected(o) <=> Counts(planned, decided, today, o)
<1>1. o[1] \in Records /\ o[2] \in Days /\ o[2] \in Nat
  BY OccurrencesFinite
<1>2. planned \in Plans
  BY DEF PlanInv, Sound
<1>3. CASE planned[o[1]] = None
  BY <1>3 DEF Expected, Counts
<1>4. CASE planned[o[1]] # None
  <2>1. planned[o[1]].state \in {"suggested", "confirmed", "dismissed", "retired"}
    BY <1>1, <1>2, <1>4 DEF Plans, Record
  <2>2. Falls(planned, o) <=>
          /\ o[2] >= ExpectedFrom(planned[o[1]]) /\ (o[2] - planned[o[1]].start) % Period = 0
    <3>1. o[2] \in o[2]..o[2]
      BY <1>1
    <3> QED BY <1>1, <1>4, <3>1 DEF Falls, Dates
  <2> QED BY <1>4, <2>1, <2>2 DEF Expected, Counts
<1> QED BY <1>3, <1>4

(* What one pass does, alone.                                                *)
LEMMA PassIs ==
  ASSUME PlanInv, AloneInv, NEW q \in Tasks, Match(q)
  PROVE  /\ planned' = planned
         /\ \A o \in Occurrences :
              \/ decided'[o] = decided[o]
              \/ \E f \in Sure(planned, decided, held, today) :
                   /\ f.of = o /\ decided'[o].match = f.with
                   /\ decided'[o] = [decided[o] EXCEPT !.match = f.with, !.by = "automatic"]
<1>1. PICK it : it = task[q]
  OBVIOUS
<1>2. PICK sure : sure = Sure(it.planned, it.decided, held, it.day)
  OBVIOUS
<1>3. /\ it.at = "match"
      /\ \/ UNCHANGED <<planned, decided>>
         \/ planned' = it.planned /\ decided' = Applied(it.decided, sure)
  BY <1>1, <1>2, MatchIs
<1>4. it.planned = planned /\ it.decided = decided /\ it.day = today
  BY <1>1, <1>3 DEF AloneInv
<1>5. planned \in Plans /\ decided \in Decisions /\ today \in Days /\ held \subseteq Transactions
  BY DEF PlanInv, Sound
<1>6. OfTransactions(sure)
  BY <1>2, <1>4, <1>5, SureIs DEF OfTransactions
<1>7. ASSUME NEW o \in Occurrences, decided'[o] # decided[o]
      PROVE  \E f \in sure :
               /\ f.of = o /\ decided'[o].match = f.with
               /\ decided'[o] = [decided[o] EXCEPT !.match = f.with, !.by = "automatic"]
  <2>1. decided' = Applied(decided, sure)
    BY <1>3, <1>4, <1>7
  <2>2. Applies(decided, sure, o)
    BY <1>5, <1>6, AppliedIs
  <2> QED BY <1>7, <2>1, <2>2, Zenon DEF Applies
<1> QED BY <1>2, <1>3, <1>4, <1>7, Zenon

(* A date becomes matched automatically in a pass and nowhere else.          *)
LEMMA OnlyPasses ==
  ASSUME PlanInv, AloneInv, [Next]_vars, NEW o \in Occurrences,
         decided'[o].by = "automatic", decided[o].by # "automatic"
  PROVE  \E q \in Tasks : Match(q)
<1> SUFFICES ASSUME \A q \in Tasks : ~Match(q) PROVE FALSE
  OBVIOUS
<1>0. decided \in Decisions /\ None # "automatic" /\ decided'[o] # decided[o]
  BY NoneIsNone DEF PlanInv, Sound
<1>1. ASSUME NEW r \in Records, Change(r) PROVE FALSE
  <2>1. decided' = decided \/ decided' = [p \in Occurrences |-> IF p[1] = r THEN Undecided ELSE decided[p]]
    BY <1>1 DEF Change, Add, Edit, Confirm, PutAway, RemovePlan
  <2> QED BY <1>0, <2>1 DEF Undecided
<1>2. ASSUME NEW p \in Occurrences, NEW d, Decide(p, d), d.by # "automatic" PROVE FALSE
  BY <1>0, <1>2 DEF Decide, Decisions
<1>3. ASSUME NEW p \in Occurrences, DecideOn(p) PROVE FALSE
  <2>0. decided[p] \in Decision
    BY <1>0 DEF Decisions
  <2>1. p # o => decided'[o] = decided[o]
    BY <1>0, <1>3 DEF DecideOn, Reschedule, Dismiss, Reject, Unmatch, Decide, Decisions
  <2>2. p = o
    BY <1>0, <2>1
  <2>3. ASSUME NEW to \in Days, Reschedule(p, to) PROVE FALSE
    <3>1. decided'[p] = [decided[p] EXCEPT !.to = IF to = p[2] THEN None ELSE to]
      BY <1>0, <2>3 DEF Reschedule, Decide, Decisions
    <3> QED BY <2>0, <2>2, <3>1 DEF Decision
  <2>4. ASSUME NEW dismissed \in BOOLEAN, Dismiss(p, dismissed) PROVE FALSE
    <3>1. decided'[p] = [decided[p] EXCEPT !.dismissed = dismissed]
      BY <1>0, <2>4 DEF Dismiss, Decide, Decisions
    <3> QED BY <2>0, <2>2, <3>1 DEF Decision
  <2>5. ASSUME NEW t \in held, Reject(p, t) PROVE FALSE
    <3>1. decided'[p].by = IF decided[p].match = t THEN None ELSE decided[p].by
      BY <1>0, <2>0, <2>5 DEF Reject, Decide, Decisions, Decision
    <3> QED BY <1>0, <2>2, <3>1
  <2>6. CASE Unmatch(p)
    <3>1. decided'[p] = [decided[p] EXCEPT !.match = None, !.by = None]
      BY <1>0, <2>6 DEF Unmatch, Decide, Decisions
    <3> QED BY <1>0, <2>0, <2>2, <3>1 DEF Decision
  <2> QED BY <1>3, <2>3, <2>4, <2>5, <2>6 DEF DecideOn
<1>4. ASSUME NEW q \in Tasks, NEW p \in Occurrences, NEW t \in held, ApplyMatch(q, p, t) PROVE FALSE
  <2>1. PICK d : d = [decided[p] EXCEPT !.match = t, !.by = "manual", !.rejected = decided[p].rejected \ {t}]
    OBVIOUS
  <2>2. d.by = "manual"
    BY <1>0, <2>1 DEF Decisions, Decision
  <2>3. Decide(p, d) \/ UNCHANGED decided
    BY <1>0, <1>4, <2>1 DEF ApplyMatch, Waits, Decisions, Decision
  <2> QED BY <1>0, <1>2, <2>2, <2>3
<1>5. ASSUME NEW q \in Tasks, Learn(q) PROVE FALSE
  <2>1. task[q].at = "learn"
    BY <1>5 DEF Learn, Goes
  <2>2. Learning(task[q]) /\ task[q].decided = decided
    BY <2>1, TaskAt DEF AloneInv
  <2>3. decided' = [decided EXCEPT ![task[q].of] = task[q].decision]
    BY <1>5, <2>2 DEF Learn, Store
  <2> QED BY <1>0, <2>2, <2>3 DEF Learning, Decisions
<1>6. ASSUME NEW q \in Tasks, Retire(q) PROVE FALSE
  <2>1. task[q].decided = decided
    BY <1>6 DEF Retire, Goes, AloneInv
  <2> QED BY <1>0, <1>6, <2>1 DEF Retire, Store
<1>7. ASSUME NEW q \in Tasks, Suggest(q) \/ Detect(q) PROVE FALSE
  BY <1>0, <1>7 DEF Suggest, Detect, Waits
<1>8. ASSUME NEW q \in Tasks, NEW imported \in SUBSET (Transactions \ held), RunMatching(q, imported)
      PROVE  FALSE
  BY <1>0, <1>8 DEF RunMatching, Waits
<1>9. ~NextDay /\ ~UNCHANGED vars
  BY <1>0 DEF NextDay, vars
<1> QED BY <1>1, <1>3, <1>4, <1>5, <1>6, <1>7, <1>8, <1>9 DEF Next, Work

(* A pass ends by its own step.                                              *)
LEMMA PassesEnd ==
  ASSUME Crossing = FALSE, PlanInv, [Next]_vars, NEW q \in Tasks, task[q].at = "match", task'[q] = Idle
  PROVE  Match(q)
<1> SUFFICES ASSUME ~Match(q) PROVE FALSE
  OBVIOUS
<1>0. task[q] # Idle /\ task'[q] # task[q]
  BY DEF Idle
<1>1. ASSUME NEW r \in Records, Change(r) PROVE FALSE
  BY <1>0, <1>1 DEF Change, Add, Edit, Confirm, PutAway, RemovePlan, AtOnce
<1>2. ASSUME NEW o \in Occurrences, DecideOn(o) PROVE FALSE
  BY <1>0, <1>2 DEF DecideOn, Reschedule, Dismiss, Reject, Unmatch, AtOnce
<1>3. ASSUME NEW r \in Tasks, NEW step, Waits(r, step) PROVE FALSE
  BY <1>0, <1>3 DEF Waits, PlanInv
<1>4. ASSUME NEW r \in Tasks, NEW at, NEW next, Goes(r, at, next), at # "match" PROVE FALSE
  BY <1>0, <1>4 DEF Goes, PlanInv
<1>5. ASSUME NEW r \in Tasks, Match(r) PROVE FALSE
  <2>1. r # q /\ task' = [task EXCEPT ![r] = Idle]
    BY <1>5 DEF Match, Goes
  <2> QED BY <1>0, <2>1
<1>6. ASSUME NEW r \in Tasks, Work(r) PROVE FALSE
  <2>1. ASSUME NEW o \in Occurrences, NEW t \in held, ApplyMatch(r, o, t) PROVE FALSE
    BY <1>0, <1>3, <2>1 DEF ApplyMatch
  <2> QED BY <1>3, <1>4, <1>5, <1>6, <2>1 DEF Work, RunMatching, Suggest, Learn, Retire, Detect
<1>7. ~NextDay /\ ~UNCHANGED vars
  BY <1>0 DEF NextDay, vars
<1> QED BY <1>1, <1>2, <1>6, <1>7 DEF Next

(* What is applied without asking was the only one of its kind, and changes  *)
(* nothing a person decided, where requests do not cross.                    *)
THEOREM AloneSureHolds == ASSUME Crossing = FALSE PROVE Spec => AloneSure
<1>1. ASSUME PlanInv, AloneInv, [Next]_vars PROVE Sole
  <2> SUFFICES ASSUME NEW o \in Occurrences, decided'[o].by = "automatic", decided[o].by # "automatic"
               PROVE  LET t == decided'[o].match IN
                      /\ Expected(o) /\ Settles(o, t)
                      /\ \A p \in Occurrences \ {o} : Expected(p) => ~Settles(p, t)
                      /\ \A u \in held \ {t} : ~Settles(o, u)
    BY DEF Sole
  <2>1. PICK q \in Tasks : Match(q)
    BY <1>1, OnlyPasses
  <2>2. PICK f \in Sure(planned, decided, held, today) : f.of = o /\ decided'[o].match = f.with
    BY <1>1, <2>1, PassIs
  <2>3. planned \in Plans /\ decided \in Decisions /\ today \in Days
    BY <1>1 DEF PlanInv, Sound
  <2>4. /\ Counts(planned, decided, today, o)
        /\ f.with \in held /\ f.with \notin Taken(decided) \cup decided[o].rejected
        /\ Qualifies(planned, decided, o, f.with)
        /\ \A u \in held \ (Taken(decided) \cup decided[o].rejected) :
             Qualifies(planned, decided, o, u) => u = f.with
        /\ \A p \in Occurrences \ {o} : Counts(planned, decided, today, p) =>
             f.with \notin Would(planned, decided, held, p)
    BY <2>2, <2>3, SureIs
  <2>5. Expected(o) /\ Settles(o, f.with) /\ \A u \in held \ {f.with} : ~Settles(o, u)
    BY <1>1, <2>4, ExpectedIs DEF Settles
  <2>6. \A p \in Occurrences \ {o} : Expected(p) => ~Settles(p, f.with)
    BY <1>1, <2>4, ExpectedIs DEF Settles, Would
  <2> QED BY <2>2, <2>5, <2>6
<1>2. ASSUME Crossing = FALSE, PlanInv, AloneInv, [Next]_vars PROVE Yields
  <2> SUFFICES ASSUME NEW q \in Tasks, task[q].at = "match", task'[q] = Idle
               PROVE  /\ planned' = planned
                      /\ \A o \in Occurrences : decided'[o] # decided[o] =>
                           /\ decided[o].match = None /\ ~decided[o].dismissed
                           /\ decided'[o].match \notin decided[o].rejected
                           /\ decided'[o] = [decided[o] EXCEPT !.match = decided'[o].match, !.by = "automatic"]
    BY DEF Yields
  <2>1. Match(q)
    BY <1>2, PassesEnd
  <2>2. planned' = planned
    BY <1>2, <2>1, PassIs
  <2>3. planned \in Plans /\ decided \in Decisions /\ today \in Days
    BY <1>2 DEF PlanInv, Sound
  <2>4. ASSUME NEW o \in Occurrences, decided'[o] # decided[o]
        PROVE  /\ decided[o].match = None /\ ~decided[o].dismissed
               /\ decided'[o].match \notin decided[o].rejected
               /\ decided'[o] = [decided[o] EXCEPT !.match = decided'[o].match, !.by = "automatic"]
    <3>1. PICK f \in Sure(planned, decided, held, today) :
            /\ f.of = o /\ decided'[o].match = f.with
            /\ decided'[o] = [decided[o] EXCEPT !.match = f.with, !.by = "automatic"]
      BY <1>2, <2>1, <2>4, PassIs
    <3>2. Counts(planned, decided, today, o) /\ f.with \notin decided[o].rejected
      BY <2>3, <3>1, SureIs
    <3> QED BY <3>1, <3>2 DEF Counts
  <2> QED BY <2>2, <2>4
<1>3. Crossing = FALSE /\ PlanInv /\ AloneInv /\ [Next]_vars =>
        [part # "crossing" => Sole /\ Yields]_<<vars, part>>
  BY <1>1, <1>2
<1> QED BY AloneInvariant, <1>3, PTL DEF Spec, AloneSure
-----------------------------------------------------------------------------
(* Sums over finite sets: they are defined by recursion, element by element,  *)
(* and do not depend on the order.                                           *)
Picked(T) == CHOOSE x \in T : TRUE
Rest(T) == T \ {Picked(T)}

SumsUp(g, S, f) == f = [T \in SUBSET S |-> IF T = {} THEN 0 ELSE g[Picked(T)] + f[Rest(T)]]

StepByStep(g, S, f) ==
  /\ f[{}] = 0
  /\ \A T \in SUBSET S : T # {} => f[T] = g[Picked(T)] + f[Rest(T)]

Over(g, T) == Forecasts!SumFunction([x \in T |-> g[x]])

LEMMA PickedIsThere ==
  ASSUME NEW T, T # {}
  PROVE  Picked(T) \in T /\ Rest(T) \subseteq T /\ Rest(T) # T
BY DEF Picked, Rest

LEMMA SumDefines ==
  ASSUME NEW g
  PROVE  \E f : /\ f = CHOOSE h : SumsUp(g, DOMAIN g, h)
               /\ Forecasts!SumFunction(g) = f[DOMAIN g]
<1> DEFINE sum[T \in SUBSET DOMAIN g] ==
      IF T = {} THEN 0 ELSE g[CHOOSE x \in T : TRUE] + sum[T \ {CHOOSE x \in T : TRUE}]
<1>1. Forecasts!SumFunction(g) = sum[DOMAIN g]
  BY DEF Forecasts!SumFunction, Forecasts!SumFunctionOnSet, Forecasts!FoldFunctionOnSet,
         Forecasts!MapThenFoldSet
<1>2. sum = CHOOSE h : SumsUp(g, DOMAIN g, h)
  BY DEF SumsUp, Picked, Rest
<1> QED BY <1>1, <1>2

LEMMA SumStep ==
  ASSUME NEW g, NEW S, NEW f, SumsUp(g, S, f)
  PROVE  StepByStep(g, S, f)
<1>1. f = [T \in SUBSET S |-> IF T = {} THEN 0 ELSE g[Picked(T)] + f[Rest(T)]]
  BY DEF SumsUp
<1>2. {} \in SUBSET S
  OBVIOUS
<1> QED BY <1>1, <1>2 DEF StepByStep

LEMMA SumOnce ==
  ASSUME NEW S, IsFiniteSet(S), NEW R \in SUBSET S, NEW g, NEW h, \A x \in R : g[x] = h[x],
         NEW f, NEW j, SumsUp(g, S, f), SumsUp(h, R, j)
  PROVE  \A T \in SUBSET R : f[T] = j[T]
<1> DEFINE Bad == {T \in SUBSET R : f[T] # j[T]}
<1>1. SUFFICES ASSUME Bad # {} PROVE FALSE
  OBVIOUS
<1>2. PICK T \in Bad : \A U \in Bad : U \subseteq T => U = T
  <2>1. Bad \in SUBSET SUBSET R /\ IsFiniteSet(R)
    BY FS_Subset
  <2> HIDE DEF Bad
  <2> QED BY <1>1, <2>1, SmallestSubset
<1>3. StepByStep(g, S, f) /\ StepByStep(h, R, j)
  BY SumStep
<1>4. T \in SUBSET R /\ T \in SUBSET S /\ f[T] # j[T]
  BY <1>2
<1>5. T # {}
  BY <1>3, <1>4 DEF StepByStep
<1>6. Picked(T) \in T /\ Rest(T) \in SUBSET R /\ Rest(T) \subseteq T /\ Rest(T) # T
  BY <1>4, <1>5, PickedIsThere
<1>7. f[Rest(T)] = j[Rest(T)]
  BY <1>2, <1>6
<1>8. g[Picked(T)] = h[Picked(T)]
  BY <1>4, <1>6
<1>9. f[T] = g[Picked(T)] + f[Rest(T)] /\ j[T] = h[Picked(T)] + j[Rest(T)]
  BY <1>3, <1>4, <1>5 DEF StepByStep
<1> QED BY <1>4, <1>7, <1>8, <1>9

LEMMA SumIsThere ==
  ASSUME NEW S, IsFiniteSet(S), NEW g
  PROVE  \E f : SumsUp(g, S, f)
<1> DEFINE Bad == {T \in SUBSET S : ~\E f : SumsUp(g, T, f)}
<1>1. SUFFICES ASSUME Bad # {} PROVE FALSE
  <2>1. S \in SUBSET S
    OBVIOUS
  <2>2. S \notin Bad
    BY <1>1
  <2> QED BY <2>1, <2>2
<1>2. PICK R \in Bad : \A U \in Bad : U \subseteq R => U = R
  <2>1. Bad \in SUBSET SUBSET S
    OBVIOUS
  <2> HIDE DEF Bad
  <2> QED BY <1>1, <2>1, SmallestSubset
<1>3. R \in SUBSET S /\ ~\E f : SumsUp(g, R, f)
  BY <1>2
<1> DEFINE F(U) == CHOOSE f : SumsUp(g, U, f)
           V(U) == IF U = {} THEN 0 ELSE g[Picked(U)] + F(Rest(U))[Rest(U)]
           all == [U \in SUBSET R |-> V(U)]
<1>4. ASSUME NEW U \in SUBSET R, U # R PROVE SumsUp(g, U, F(U))
  <2>1. \E f : SumsUp(g, U, f)
    BY <1>2, <1>3, <1>4
  <2> QED BY <2>1
<1>5. ASSUME NEW U \in SUBSET R, U # R PROVE F(U)[U] = V(U)
  <2> DEFINE h == F(U)
  <2>1. SumsUp(g, U, h)
    BY <1>4, <1>5
  <2> HIDE DEF h
  <2>2. StepByStep(g, U, h) /\ U \in SUBSET U
    BY <2>1, SumStep
  <2>3. CASE U = {}
    <3>1. h[U] = 0
      BY <2>2, <2>3 DEF StepByStep
    <3> QED BY <2>3, <3>1 DEF h
  <2>4. CASE U # {}
    <3>1. Rest(U) \in SUBSET U /\ Rest(U) \in SUBSET R /\ Rest(U) # R
      BY <2>4, PickedIsThere
    <3> DEFINE j == F(Rest(U))
    <3>2. SumsUp(g, Rest(U), j)
      BY <1>4, <3>1
    <3> HIDE DEF j
    <3>3. IsFiniteSet(U)
      BY <1>3, FS_Subset
    <3>4. \A T \in SUBSET Rest(U) : h[T] = j[T]
      <4>1. PICK W : W = Rest(U)
        OBVIOUS
      <4>2. W \in SUBSET U /\ SumsUp(g, W, j) /\ \A x \in W : g[x] = g[x]
        BY <3>1, <3>2, <4>1
      <4> HIDE DEF F, all
      <4>3. \A T \in SUBSET W : h[T] = j[T]
        BY <2>1, <3>3, <4>2, SumOnce
      <4> QED BY <4>1, <4>3
    <3>5. h[U] = g[Picked(U)] + h[Rest(U)]
      BY <2>2, <2>4 DEF StepByStep
    <3>6. h[U] = g[Picked(U)] + j[Rest(U)]
      BY <3>4, <3>5
    <3> QED BY <2>4, <3>6 DEF h, j
  <2> QED BY <2>3, <2>4
<1>6. ASSUME NEW U \in SUBSET R
      PROVE  all[U] = IF U = {} THEN 0 ELSE g[Picked(U)] + all[Rest(U)]
  <2> HIDE DEF F
  <2>1. CASE U = {}
    BY <2>1
  <2>2. CASE U # {}
    <3>1. Rest(U) \in SUBSET R /\ Rest(U) # R
      BY <2>2, PickedIsThere
    <3>2. F(Rest(U))[Rest(U)] = V(Rest(U))
      BY <1>5, <3>1
    <3> QED BY <2>2, <3>1, <3>2
  <2> QED BY <2>1, <2>2
<1>7. SumsUp(g, R, all)
  <2> HIDE DEF V
  <2>1. all = [U \in SUBSET R |-> all[U]]
    OBVIOUS
  <2> HIDE DEF all
  <2> QED BY <1>6, <2>1 DEF SumsUp
<1> QED BY <1>3, <1>7

LEMMA OverSame ==
  ASSUME NEW T, NEW g, NEW h, \A x \in T : g[x] = h[x]
  PROVE  Over(g, T) = Over(h, T)
<1>1. [x \in T |-> g[x]] = [x \in T |-> h[x]]
  OBVIOUS
<1> QED BY <1>1 DEF Over

(* One sum, and one function of all parts of the set that says it.           *)
LEMMA OverIs ==
  ASSUME NEW S, IsFiniteSet(S), NEW g, NEW f, SumsUp(g, S, f), NEW T \in SUBSET S
  PROVE  Over(g, T) = f[T]
<1>1. PICK h : /\ DOMAIN h = T /\ \A x \in T : g[x] = h[x]
               /\ Over(g, T) = Forecasts!SumFunction(h)
  BY DEF Over
<1>2. PICK j : j = (CHOOSE l : SumsUp(h, DOMAIN h, l)) /\ Forecasts!SumFunction(h) = j[DOMAIN h]
  BY SumDefines
<1>3. \E l : SumsUp(h, DOMAIN h, l)
  BY <1>1, FS_Subset, SumIsThere
<1>4. SumsUp(h, T, j)
  BY <1>1, <1>2, <1>3
<1>5. \A U \in SUBSET T : f[U] = j[U]
  BY <1>1, <1>4, SumOnce
<1>6. f[T] = j[T]
  BY <1>5
<1>7. Over(g, T) = Forecasts!SumFunction(h) /\ Forecasts!SumFunction(h) = j[T]
  BY <1>1, <1>2
<1> QED BY <1>6, <1>7

Whole(g, S) == \A x \in S : g[x] \in Int

LEMMA OverFirst ==
  ASSUME NEW S, IsFiniteSet(S), NEW g, Whole(g, S)
  PROVE  /\ Over(g, S) \in Int
         /\ S = {} => Over(g, S) = 0
         /\ S # {} => \E x \in S : Over(g, S) = g[x] + Over(g, S \ {x})
<1>1. PICK f : SumsUp(g, S, f)
  BY SumIsThere
<1>2. StepByStep(g, S, f)
  BY <1>1, SumStep
<1>3. \A T \in SUBSET S : Over(g, T) = f[T]
  BY <1>1, OverIs
<1> DEFINE Bad == {T \in SUBSET S : f[T] \notin Int}
<1>4. ASSUME Bad # {} PROVE FALSE
  <2>1. PICK T \in Bad : \A U \in Bad : U \subseteq T => U = T
    <3>1. Bad \in SUBSET SUBSET S
      OBVIOUS
    <3> HIDE DEF Bad
    <3> QED BY <1>4, <3>1, SmallestSubset
  <2>2. T \in SUBSET S /\ f[T] \notin Int
    BY <2>1
  <2>3. CASE T = {}
    BY <1>2, <2>2, <2>3 DEF StepByStep
  <2>4. CASE T # {}
    <3>1. Picked(T) \in S /\ Rest(T) \in SUBSET S /\ Rest(T) \subseteq T /\ Rest(T) # T
      BY <2>2, <2>4, PickedIsThere
    <3>2. f[Rest(T)] \in Int
      BY <2>1, <3>1
    <3>3. g[Picked(T)] \in Int
      BY <3>1 DEF Whole
    <3>4. f[T] = g[Picked(T)] + f[Rest(T)]
      BY <1>2, <2>2, <2>4 DEF StepByStep
    <3> QED BY <2>2, <3>2, <3>3, <3>4
  <2> QED BY <2>3, <2>4
<1>5. Over(g, S) \in Int
  <2>1. S \in SUBSET S
    OBVIOUS
  <2>2. f[S] \in Int
    BY <1>4, <2>1
  <2> QED BY <1>3, <2>1, <2>2
<1>6. S = {} => Over(g, S) = 0
  <2>1. S \in SUBSET S
    OBVIOUS
  <2> QED BY <1>2, <1>3, <2>1 DEF StepByStep
<1>7. ASSUME S # {} PROVE \E x \in S : Over(g, S) = g[x] + Over(g, S \ {x})
  <2>1. S \in SUBSET S /\ Picked(S) \in S /\ Rest(S) \in SUBSET S
    BY <1>7, PickedIsThere
  <2>2. f[S] = g[Picked(S)] + f[Rest(S)]
    BY <1>2, <1>7, <2>1 DEF StepByStep
  <2>3. Over(g, S) = f[S] /\ Over(g, Rest(S)) = f[Rest(S)]
    BY <1>3, <2>1
  <2>4. Over(g, S) = g[Picked(S)] + Over(g, S \ {Picked(S)})
    BY <2>2, <2>3 DEF Rest
  <2> QED BY <2>1, <2>4
<1> QED BY <1>5, <1>6, <1>7

LEMMA WholeSubset ==
  ASSUME NEW S, IsFiniteSet(S), NEW g, Whole(g, S), NEW T \in SUBSET S
  PROVE  IsFiniteSet(T) /\ Whole(g, T) /\ Over(g, T) \in Int
<1>1. IsFiniteSet(T) /\ Whole(g, T)
  BY FS_Subset DEF Whole
<1> QED BY <1>1, OverFirst

(* Whichever is taken first.                                                 *)
LEMMA OverPut ==
  ASSUME NEW S, IsFiniteSet(S), NEW g, Whole(g, S), NEW x \in S
  PROVE  Over(g, S) = g[x] + Over(g, S \ {x})
<1> DEFINE Good(T) == \A y \in T : Over(g, T) = g[y] + Over(g, T \ {y})
           Bad == {T \in SUBSET S : ~Good(T)}
<1>1. SUFFICES ASSUME Bad # {} PROVE FALSE
  <2>1. S \in SUBSET S
    OBVIOUS
  <2>2. Good(S)
    BY <1>1, <2>1
  <2> QED BY <2>2
<1>2. PICK T \in Bad : \A U \in Bad : U \subseteq T => U = T
  <2>1. Bad \in SUBSET SUBSET S
    OBVIOUS
  <2> HIDE DEF Bad
  <2> QED BY <1>1, <2>1, SmallestSubset
<1>3. T \in SUBSET S /\ ~Good(T)
  BY <1>2
<1>4. PICK y \in T : Over(g, T) # g[y] + Over(g, T \ {y})
  BY <1>3
<1>5. PICK z \in T : Over(g, T) = g[z] + Over(g, T \ {z})
  BY <1>3, <1>4, WholeSubset, OverFirst
<1>6. y # z
  BY <1>4, <1>5
<1>7. Good(T \ {z}) /\ Good(T \ {y})
  <2>1. /\ T \ {z} \in SUBSET S /\ T \ {z} \subseteq T /\ T \ {z} # T
        /\ T \ {y} \in SUBSET S /\ T \ {y} \subseteq T /\ T \ {y} # T
    BY <1>3
  <2> HIDE DEF Good
  <2> QED BY <1>2, <2>1
<1>9. (T \ {z}) \ {y} = (T \ {y}) \ {z} /\ (T \ {y}) \ {z} \in SUBSET S
  BY <1>3
<1>8. /\ Over(g, T \ {z}) = g[y] + Over(g, (T \ {y}) \ {z})
      /\ Over(g, T \ {y}) = g[z] + Over(g, (T \ {y}) \ {z})
  <2>1. y \in T \ {z} /\ z \in T \ {y}
    BY <1>6
  <2>2. Over(g, T \ {z}) = g[y] + Over(g, (T \ {z}) \ {y})
    BY <1>7, <2>1
  <2>3. Over(g, T \ {y}) = g[z] + Over(g, (T \ {y}) \ {z})
    BY <1>7, <2>1
  <2> QED BY <1>9, <2>2, <2>3
<1>10. Over(g, (T \ {y}) \ {z}) \in Int /\ g[y] \in Int /\ g[z] \in Int
  BY <1>3, <1>9, WholeSubset DEF Whole
<1>11. \A a, b, c \in Int : a + (b + c) = b + (a + c)
  OBVIOUS
<1> DEFINE c == Over(g, (T \ {y}) \ {z})
<1>12. /\ Over(g, T \ {y}) = g[z] + c
       /\ Over(g, T) = g[z] + (g[y] + c)
  BY <1>5, <1>8
<1>13. g[z] + (g[y] + c) = g[y] + (g[z] + c)
  <2>1. c \in Int
    BY <1>10
  <2> HIDE DEF c
  <2> QED BY <1>10, <1>11, <2>1
<1> HIDE DEF c
<1> QED BY <1>4, <1>12, <1>13

LEMMA OverJoin ==
  ASSUME NEW A, NEW B, IsFiniteSet(A), IsFiniteSet(B), A \cap B = {},
         NEW g, Whole(g, A), Whole(g, B)
  PROVE  Over(g, A \cup B) = Over(g, A) + Over(g, B)
<1> DEFINE Good(T) == Over(g, A \cup T) = Over(g, A) + Over(g, T)
           Bad == {T \in SUBSET B : ~Good(T)}
<1>1. SUFFICES ASSUME Bad # {} PROVE FALSE
  <2>1. B \in SUBSET B
    OBVIOUS
  <2>2. Good(B)
    BY <1>1, <2>1
  <2> QED BY <2>2
<1>2. PICK T \in Bad : \A U \in Bad : U \subseteq T => U = T
  <2>1. Bad \in SUBSET SUBSET B
    OBVIOUS
  <2> HIDE DEF Bad
  <2> QED BY <1>1, <2>1, SmallestSubset
<1>3. T \in SUBSET B /\ ~Good(T)
  BY <1>2
<1>4. Over(g, A) \in Int
  BY OverFirst
<1>5. T # {}
  <2>1. A \cup {} = A /\ {} \in SUBSET B
    OBVIOUS
  <2>2. Over(g, {}) = 0
    BY <2>1, WholeSubset, OverFirst
  <2>3. Over(g, A) + 0 = Over(g, A)
    BY <1>4
  <2>4. Good({})
    BY <2>1, <2>2, <2>3
  <2> HIDE DEF Good
  <2> QED BY <1>3, <2>4
<1>6. PICK x \in T : TRUE
  BY <1>5
<1>7. Good(T \ {x})
  <2>1. T \ {x} \in SUBSET B /\ T \ {x} \subseteq T /\ T \ {x} # T
    BY <1>3, <1>6
  <2> HIDE DEF Good
  <2> QED BY <1>2, <2>1
<1>8. IsFiniteSet(T) /\ Whole(g, T) /\ Over(g, T \ {x}) \in Int /\ g[x] \in Int
  <2>1. T \ {x} \in SUBSET B /\ x \in B
    BY <1>3, <1>6
  <2> QED BY <1>3, <2>1, WholeSubset DEF Whole
<1>9. IsFiniteSet(A \cup T) /\ Whole(g, A \cup T)
  BY <1>8, FS_Union DEF Whole
<1>10. Over(g, T) = g[x] + Over(g, T \ {x})
  BY <1>8, OverPut
<1>11. Over(g, A \cup T) = g[x] + Over(g, A \cup (T \ {x}))
  <2>1. x \in A \cup T /\ (A \cup T) \ {x} = A \cup (T \ {x})
    BY <1>3, <1>6
  <2> QED BY <1>9, <2>1, OverPut
<1>12. Over(g, A \cup (T \ {x})) = Over(g, A) + Over(g, T \ {x})
  BY <1>7
<1>13. Over(g, A \cup T) = g[x] + (Over(g, A) + Over(g, T \ {x}))
  BY <1>11, <1>12
<1>14. Over(g, A \cup T) # Over(g, A) + (g[x] + Over(g, T \ {x}))
  BY <1>3, <1>10
<1>15. \A a, b, c \in Int : a + (b + c) = b + (a + c)
  OBVIOUS
<1> QED BY <1>4, <1>8, <1>13, <1>14, <1>15

LEMMA OverEmpty ==
  ASSUME NEW g
  PROVE  Over(g, {}) = 0
BY FS_EmptySet, OverFirst DEF Whole

LEMMA OverOne ==
  ASSUME NEW g, NEW x, g[x] \in Int
  PROVE  Over(g, {x}) = g[x]
<1>1. IsFiniteSet({x}) /\ Whole(g, {x}) /\ x \in {x} /\ {x} \ {x} = {}
  BY FS_Singleton DEF Whole
<1>2. Over(g, {x}) = g[x] + Over(g, {})
  BY <1>1, OverPut
<1> QED BY <1>2, OverEmpty

LEMMA OverPositive ==
  ASSUME NEW S, IsFiniteSet(S), NEW g, \A x \in S : g[x] \in Nat
  PROVE  Over(g, S) \in Nat
<1> DEFINE Bad == {T \in SUBSET S : Over(g, T) \notin Nat}
<1>0. Whole(g, S)
  BY DEF Whole
<1>1. SUFFICES ASSUME Bad # {} PROVE FALSE
  <2>1. S \in SUBSET S
    OBVIOUS
  <2> QED BY <1>1, <2>1
<1>2. PICK T \in Bad : \A U \in Bad : U \subseteq T => U = T
  <2>1. Bad \in SUBSET SUBSET S
    OBVIOUS
  <2> HIDE DEF Bad
  <2> QED BY <1>1, <2>1, SmallestSubset
<1>3. T \in SUBSET S /\ Over(g, T) \notin Nat
  BY <1>2
<1>4. T # {}
  BY <1>3, OverEmpty
<1>5. PICK x \in T : Over(g, T) = g[x] + Over(g, T \ {x})
  BY <1>0, <1>3, <1>4, WholeSubset, OverFirst
<1>6. Over(g, T \ {x}) \in Nat
  <2>1. T \ {x} \in SUBSET S /\ T \ {x} \subseteq T /\ T \ {x} # T
    BY <1>3, <1>5
  <2> QED BY <1>2, <2>1
<1>7. g[x] \in Nat
  BY <1>3, <1>5
<1> QED BY <1>3, <1>5, <1>6, <1>7

LEMMA OverNegative ==
  ASSUME NEW S, IsFiniteSet(S), NEW g, Whole(g, S), NEW h, \A x \in S : h[x] = -g[x]
  PROVE  Over(h, S) = -Over(g, S)
<1> DEFINE Bad == {T \in SUBSET S : Over(h, T) # -Over(g, T)}
<1>0. Whole(h, S)
  BY DEF Whole
<1>1. SUFFICES ASSUME Bad # {} PROVE FALSE
  <2>1. S \in SUBSET S
    OBVIOUS
  <2> QED BY <1>1, <2>1
<1>2. PICK T \in Bad : \A U \in Bad : U \subseteq T => U = T
  <2>1. Bad \in SUBSET SUBSET S
    OBVIOUS
  <2> HIDE DEF Bad
  <2> QED BY <1>1, <2>1, SmallestSubset
<1>3. T \in SUBSET S /\ Over(h, T) # -Over(g, T)
  BY <1>2
<1>4. T # {}
  BY <1>3, OverEmpty
<1>5. PICK x \in T : TRUE
  BY <1>4
<1>6. /\ Over(g, T) = g[x] + Over(g, T \ {x})
      /\ Over(h, T) = h[x] + Over(h, T \ {x})
  BY <1>0, <1>3, WholeSubset, OverPut
<1>7. T \ {x} \in SUBSET S /\ T \ {x} \subseteq T /\ T \ {x} # T
  BY <1>3, <1>5
<1>8. Over(h, T \ {x}) = -Over(g, T \ {x})
  BY <1>2, <1>7
<1>9. Over(g, T \ {x}) \in Int
  BY <1>7, WholeSubset
<1>10. g[x] \in Int /\ h[x] = -g[x]
  BY <1>3, <1>5 DEF Whole
<1>11. \A a, b \in Int : -a + -b = -(a + b)
  OBVIOUS
<1>12. Over(h, T) = -g[x] + -Over(g, T \ {x})
  BY <1>6, <1>8, <1>10
<1> QED BY <1>3, <1>6, <1>9, <1>10, <1>11, <1>12

(* Whatever is summed may be summed by what it belongs to.                   *)
Belongs(key, S, K) == \A x \in S : key[x] \in K
Fibres(g, S, key, K, h) == \A t \in K : h[t] = Over(g, {x \in S : key[x] = t})

LEMMA OverFibres ==
  ASSUME NEW S, IsFiniteSet(S), NEW g, Whole(g, S), NEW K, IsFiniteSet(K),
         NEW key, Belongs(key, S, K), NEW h, Fibres(g, S, key, K, h)
  PROVE  Over(g, S) = Over(h, K)
<1> DEFINE Part(T) == {x \in S : key[x] \in T}
           Good(T) == Over(g, Part(T)) = Over(h, T)
           Bad == {T \in SUBSET K : ~Good(T)}
<1>0. Whole(h, K)
  <2> SUFFICES ASSUME NEW t \in K PROVE h[t] \in Int
    BY DEF Whole
  <2>1. PICK those : those = {x \in S : key[x] = t}
    OBVIOUS
  <2>2. those \in SUBSET S /\ h[t] = Over(g, those)
    BY <2>1 DEF Fibres
  <2> QED BY <2>2, WholeSubset
<1>1. SUFFICES ASSUME Bad # {} PROVE FALSE
  <2>1. K \in SUBSET K
    OBVIOUS
  <2>2. Good(K)
    BY <1>1, <2>1
  <2>3. Part(K) = S
    BY DEF Belongs
  <2> QED BY <2>2, <2>3
<1>2. PICK T \in Bad : \A U \in Bad : U \subseteq T => U = T
  <2>1. Bad \in SUBSET SUBSET K
    OBVIOUS
  <2> HIDE DEF Bad
  <2> QED BY <1>1, <2>1, SmallestSubset
<1>3. T \in SUBSET K /\ ~Good(T)
  BY <1>2
<1>4. T # {}
  <2>1. Part({}) = {}
    OBVIOUS
  <2> QED BY <1>3, <2>1, OverEmpty
<1>5. PICK t \in T : TRUE
  BY <1>4
<1>6. T \ {t} \in SUBSET K /\ T \ {t} \subseteq T /\ T \ {t} # T
  BY <1>3, <1>5
<1>7. Good(T \ {t})
  <2> HIDE DEF Good
  <2> QED BY <1>2, <1>6
<1> DEFINE one == {x \in S : key[x] = t}
<1>8. Part(T) = Part(T \ {t}) \cup one /\ Part(T \ {t}) \cap one = {}
  BY <1>5
<1>9. /\ Part(T \ {t}) \in SUBSET S /\ one \in SUBSET S
  OBVIOUS
<1>10. Over(g, Part(T)) = Over(g, Part(T \ {t})) + Over(g, one)
  <2> HIDE DEF Part, one
  <2>1. /\ IsFiniteSet(Part(T \ {t})) /\ Whole(g, Part(T \ {t}))
        /\ IsFiniteSet(one) /\ Whole(g, one)
    BY <1>9, WholeSubset
  <2> QED BY <1>8, <2>1, OverJoin
<1>11. Over(g, one) = h[t]
  BY <1>3, <1>5 DEF Fibres
<1>12. Over(h, T) = h[t] + Over(h, T \ {t})
  BY <1>0, <1>3, <1>5, WholeSubset, OverPut
<1>13. Over(h, T \ {t}) \in Int /\ h[t] \in Int
  BY <1>0, <1>3, <1>5, <1>6, WholeSubset DEF Whole
<1>14. \A a, b \in Int : a + b = b + a
  OBVIOUS
<1> HIDE DEF Part, one
<1> QED BY <1>3, <1>7, <1>10, <1>11, <1>12, <1>13, <1>14

-----------------------------------------------------------------------------
(* What a forecast is made of.                                               *)
Reading == [day : Forecasts!Days, funds : Int,
            expected : [DOMAIN Payments -> Forecasts!Expectation \cup {None}],
            remaining : [Categories -> Int]]

Event == [on : Int, kind : {"expense", "income"}, amount : Nat \ {0}, of : Int,
          category : Categories \cup {None}]

Events(in) == Forecasts!RecordEvents(in) \cup Forecasts!PlanEvents(in)

amountOf == [e \in Event |-> e.amount]
signedOf == [e \in Event |-> IF e.kind = "income" THEN e.amount ELSE -e.amount]

LEMMA ForecastTyped ==
  /\ FarDay \in Nat \ {0} /\ Long \in Nat \ {0} /\ Ahead \in Nat /\ Ahead >= Long
  /\ \A p \in DOMAIN Payments :
       /\ Payments[p].kind \in {"expense", "income"} /\ Payments[p].amount \in Nat \ {0}
       /\ Payments[p].category \in Categories \cup {None}
       /\ Payments[p].account \in DOMAIN Held /\ Payments[p].due \in 1..FarDay
  /\ \A c \in Categories : PlanCents[c] \in Int
  /\ \A a \in DOMAIN Held : Held[a] \in Int
  /\ DOMAIN Payments \subseteq Int /\ Categories \subseteq Int
  /\ DOMAIN Payments \cap Categories = {}
  /\ IsFiniteSet(DOMAIN Payments) /\ IsFiniteSet(Categories) /\ IsFiniteSet(DOMAIN Held)
  /\ None \notin Int /\ None \notin Forecasts!Expectation
  /\ \A d \in Forecasts!Days : d \in Nat \ {0} /\ d <= FarDay
<1>1. /\ Forecasts!Numbers /\ Forecasts!Books /\ Forecasts!Names
      /\ None \notin Int /\ None \notin Forecasts!Expectation
  BY ForecastAssumed DEF Forecasts!Assumed
<1>2. \A p \in DOMAIN Payments : Payments[p] \in Forecasts!Payment
  BY <1>1 DEF Forecasts!Books, Forecasts!Ids
<1>3. \A p \in DOMAIN Payments :
       /\ Payments[p].kind \in {"expense", "income"} /\ Payments[p].amount \in Nat \ {0}
       /\ Payments[p].category \in Categories \cup {None}
       /\ Payments[p].account \in DOMAIN Held /\ Payments[p].due \in 1..FarDay
  BY <1>2 DEF Forecasts!Payment, Forecasts!Accounts, Forecasts!Days
<1>4. /\ \A c \in Categories : PlanCents[c] \in Int
      /\ \A a \in DOMAIN Held : Held[a] \in Int
  BY <1>1 DEF Forecasts!Books, Forecasts!Accounts
<1>5. IsFiniteSet(DOMAIN Payments) /\ IsFiniteSet(Categories) /\ IsFiniteSet(DOMAIN Held)
  BY <1>1 DEF Forecasts!Names, Forecasts!Ids, Forecasts!Accounts, IsFiniteSet, Forecasts!IsFiniteSet
<1> QED BY <1>1, <1>3, <1>4, <1>5 DEF Forecasts!Numbers, Forecasts!Names, Forecasts!Ids, Forecasts!Days

LEMMA TimesGrow ==
  ASSUME NEW a \in Nat, NEW b \in Nat, NEW c \in Nat, a <= b
  PROVE  a * c <= b * c
<1>1. (b - a) * c >= 0
  OBVIOUS
<1>2. (b - a) * c = b * c - a * c
  OBVIOUS
<1> QED BY <1>1, <1>2

LEMMA DivisionIs ==
  ASSUME NEW a \in Nat, NEW b \in Nat \ {0}
  PROVE  a \div b \in Nat /\ (a \div b) * b <= a /\ a < (a \div b) * b + b
OBVIOUS

LEMMA MonthIs ==
  ASSUME NEW d \in Nat \ {0}
  PROVE  /\ Forecasts!MonthOf(d) \in Nat
         /\ Forecasts!MonthStart(Forecasts!MonthOf(d)) <= d
         /\ d < Forecasts!MonthStart(Forecasts!MonthOf(d)) + Long
<1>1. d - 1 \in Nat /\ Long \in Nat \ {0}
  BY ForecastTyped
<1> DEFINE m == (d - 1) \div Long
<1>2. m \in Nat /\ m * Long <= d - 1 /\ d - 1 < m * Long + Long
  BY <1>1, DivisionIs
<1>3. Forecasts!MonthOf(d) = m /\ Forecasts!MonthStart(m) = m * Long + 1
  BY DEF Forecasts!MonthOf, Forecasts!MonthStart
<1>4. m * Long \in Nat
  BY <1>1, <1>2
<1> HIDE DEF m
<1> QED BY <1>1, <1>2, <1>3, <1>4

LEMMA MonthStarts ==
  ASSUME NEW m \in Nat, NEW d \in Nat \ {0}
  PROVE  /\ Forecasts!MonthStart(m) \in Nat \ {0}
         /\ m <= Forecasts!MonthOf(d) => Forecasts!MonthStart(m) <= d
         /\ Forecasts!MonthStart(m) <= d => m <= Forecasts!MonthOf(d)
<1> DEFINE n == Forecasts!MonthOf(d)
<1>1. n \in Nat /\ n * Long + 1 <= d /\ d < n * Long + 1 + Long
  BY MonthIs DEF Forecasts!MonthStart
<1>2. Long \in Nat \ {0}
  BY ForecastTyped
<1> HIDE DEF n
<1>3. m * Long \in Nat /\ n * Long \in Nat
  BY <1>1, <1>2
<1>4. m <= n => m * Long <= n * Long
  BY <1>1, <1>2, TimesGrow
<1>5. n < m => n * Long + Long <= m * Long
  <2> SUFFICES ASSUME n < m PROVE (n + 1) * Long <= m * Long
    BY <1>1, <1>2
  <2> QED BY <1>1, <1>2, TimesGrow
<1>6. Forecasts!MonthStart(m) = m * Long + 1
  BY DEF Forecasts!MonthStart
<1> DEFINE x == m * Long
           y == n * Long
<1>7. /\ x \in Nat /\ y \in Nat /\ (m <= n => x <= y) /\ (n < m => y + Long <= x)
      /\ y + 1 <= d /\ d < y + 1 + Long /\ Forecasts!MonthStart(m) = x + 1
  BY <1>1, <1>3, <1>4, <1>5, <1>6
<1> HIDE DEF x, y
<1>8. /\ Forecasts!MonthStart(m) \in Nat \ {0}
      /\ m <= n => Forecasts!MonthStart(m) <= d
      /\ Forecasts!MonthStart(m) <= d => m <= n
  BY <1>1, <1>2, <1>7
<1> QED BY <1>8 DEF n

LEMMA MonthsGrow ==
  ASSUME NEW d \in Nat \ {0}, NEW e \in Nat \ {0}, d <= e
  PROVE  Forecasts!MonthOf(d) <= Forecasts!MonthOf(e)
<1> DEFINE m == Forecasts!MonthOf(d)
<1>1. m \in Nat /\ Forecasts!MonthStart(m) <= d
  BY MonthIs
<1> HIDE DEF m
<1>2. Forecasts!MonthStart(m) \in Nat \ {0}
  BY <1>1, MonthStarts
<1>3. Forecasts!MonthStart(m) <= e
  BY <1>1, <1>2
<1>4. m <= Forecasts!MonthOf(e)
  BY <1>1, <1>3, MonthStarts
<1> QED BY <1>4 DEF m

(* A month begins in itself, and goes on no longer than Long days.           *)
LEMMA MonthBegins ==
  ASSUME NEW m \in Nat
  PROVE  Forecasts!MonthOf(Forecasts!MonthStart(m)) = m
<1> DEFINE s == Forecasts!MonthStart(m)
           n == Forecasts!MonthOf(s)
<1>1. s \in Nat \ {0}
  BY MonthStarts
<1>2. m <= n
  <2> HIDE DEF s
  <2>1. s <= s
    BY <1>1
  <2> QED BY <1>1, <2>1, MonthStarts DEF s
<1>3. n \in Nat /\ Forecasts!MonthStart(n) <= s
  <2> HIDE DEF s
  <2> QED BY <1>1, MonthIs
<1>4. n <= m
  <2>1. s = m * Long + 1 /\ Forecasts!MonthStart(n) = n * Long + 1
    BY DEF Forecasts!MonthStart
  <2>2. Long \in Nat \ {0}
    BY ForecastTyped
  <2> HIDE DEF n
  <2>3. m < n => (m + 1) * Long <= n * Long
    BY <1>3, <2>2, TimesGrow
  <2>4. m < n => m * Long + Long <= n * Long
    BY <1>3, <2>2, <2>3
  <2>5. m * Long \in Nat /\ n * Long \in Nat
    BY <1>3, <2>2
  <2> DEFINE x == m * Long
             y == n * Long
  <2>6. x \in Nat /\ y \in Nat /\ (m < n => x + Long <= y) /\ y + 1 <= x + 1
    BY <1>3, <2>1, <2>4, <2>5
  <2> HIDE DEF x, y, s
  <2> QED BY <1>3, <2>2, <2>6
<1> QED BY <1>2, <1>3, <1>4

LEMMA MonthEnds ==
  ASSUME NEW d \in Nat \ {0}, NEW e \in Nat \ {0}, Forecasts!MonthOf(e) <= Forecasts!MonthOf(d)
  PROVE  e <= d + Ahead
<1> DEFINE m == Forecasts!MonthOf(d)
           n == Forecasts!MonthOf(e)
<1>1. /\ m \in Nat /\ m * Long + 1 <= d
      /\ n \in Nat /\ e < n * Long + 1 + Long
  BY MonthIs DEF Forecasts!MonthStart
<1>2. Long \in Nat \ {0} /\ Ahead \in Nat /\ Ahead >= Long
  BY ForecastTyped
<1>3. n <= m
  OBVIOUS
<1> HIDE DEF m, n
<1>4. n * Long <= m * Long /\ n * Long \in Nat /\ m * Long \in Nat
  BY <1>1, <1>2, <1>3, TimesGrow
<1> DEFINE x == m * Long
           y == n * Long
<1>5. y <= x /\ y \in Nat /\ x \in Nat /\ x + 1 <= d /\ e < y + 1 + Long
  BY <1>1, <1>4
<1> HIDE DEF x, y
<1> QED BY <1>2, <1>5

(* An event of a record, and of what the plan of a category leaves a month.  *)
RecordOf(in, p) ==
  [on |-> Forecasts!NotBefore(in.day, in.expected[p].due), kind |-> Payments[p].kind,
   amount |-> Payments[p].amount, of |-> p, category |-> Payments[p].category]

InTime(in) == {p \in DOMAIN Payments :
                 Forecasts!Counts(in, p) /\ in.expected[p].due <= Forecasts!Until(in)}

LeftOf(in, q) ==
  [on |-> Forecasts!NotBefore(in.day, Forecasts!MonthStart(q[2])), kind |-> "expense",
   amount |-> Forecasts!Uncovered(in, q[1], q[2]), of |-> q[1], category |-> q[1]]

Leaves(in) == {q \in Categories \X Forecasts!Months(in) :
                 Forecasts!PlanOf(in, q[1], q[2]) > 0 /\ Forecasts!Uncovered(in, q[1], q[2]) > 0}

LEMMA EventsAre ==
  ASSUME NEW in
  PROVE  /\ Forecasts!RecordEvents(in) = {RecordOf(in, p) : p \in InTime(in)}
         /\ Forecasts!PlanEvents(in) = {LeftOf(in, q) : q \in Leaves(in)}
<1>1. Forecasts!RecordEvents(in) = {RecordOf(in, p) : p \in InTime(in)}
  BY DEF Forecasts!RecordEvents, RecordOf, InTime, Forecasts!Ids, Forecasts!Amount
<1>2. Forecasts!PlanEvents(in) = {LeftOf(in, q) : q \in Leaves(in)}
  BY DEF Forecasts!PlanEvents, LeftOf, Leaves
<1> QED BY <1>1, <1>2

LEMMA ReadingIs ==
  ASSUME NEW in \in Reading
  PROVE  /\ in.day \in Nat \ {0} /\ in.day <= FarDay /\ in.funds \in Int
         /\ Forecasts!Until(in) = in.day + Ahead /\ Forecasts!Until(in) \in Nat \ {0}
         /\ in.day <= Forecasts!Until(in)
         /\ \A p \in DOMAIN Payments : in.expected[p] # None =>
              in.expected[p].due \in Nat \ {0} /\ in.expected[p].state \in {"open", "dismissed", "matched"}
         /\ \A c \in Categories : in.remaining[c] \in Int
<1>1. /\ in.day \in Forecasts!Days /\ in.funds \in Int
      /\ in.expected \in [DOMAIN Payments -> Forecasts!Expectation \cup {None}]
      /\ in.remaining \in [Categories -> Int]
  BY DEF Reading
<1>2. \A p \in DOMAIN Payments : in.expected[p] # None => in.expected[p] \in Forecasts!Expectation
  BY <1>1
<1>3. \A p \in DOMAIN Payments : in.expected[p] # None =>
        in.expected[p].due \in Nat \ {0} /\ in.expected[p].state \in {"open", "dismissed", "matched"}
  BY <1>2, ForecastTyped DEF Forecasts!Expectation
<1>4. in.day \in Nat \ {0} /\ in.day <= FarDay /\ Ahead \in Nat
  BY <1>1, ForecastTyped
<1>5. Forecasts!Until(in) = in.day + Ahead
  BY DEF Forecasts!Until
<1>6. \A c \in Categories : in.remaining[c] \in Int
  BY <1>1
<1> QED BY <1>1, <1>3, <1>4, <1>5, <1>6

LEMMA RecordIs ==
  ASSUME NEW in \in Reading, NEW p \in InTime(in)
  PROVE  /\ p \in DOMAIN Payments /\ RecordOf(in, p) \in Event /\ RecordOf(in, p).of = p
         /\ RecordOf(in, p).kind = Payments[p].kind /\ RecordOf(in, p).amount = Payments[p].amount
         /\ RecordOf(in, p).category = Payments[p].category
         /\ RecordOf(in, p).on = Forecasts!Larger(in.day, in.expected[p].due)
         /\ RecordOf(in, p).on \in Nat \ {0}
         /\ in.day <= RecordOf(in, p).on /\ RecordOf(in, p).on <= Forecasts!Until(in)
<1> DEFINE e == RecordOf(in, p)
<1>1. p \in DOMAIN Payments /\ in.expected[p] # None /\ in.expected[p].due <= Forecasts!Until(in)
  BY DEF InTime, Forecasts!Counts
<1>2. in.expected[p].due \in Nat \ {0}
  BY <1>1, ReadingIs
<1>3. /\ e.of = p /\ e.kind = Payments[p].kind /\ e.amount = Payments[p].amount
      /\ e.category = Payments[p].category
      /\ e.on = Forecasts!Larger(in.day, in.expected[p].due)
  BY DEF RecordOf, Forecasts!NotBefore
<1>4. /\ e.on \in Nat \ {0} /\ in.day <= e.on /\ e.on <= Forecasts!Until(in)
  BY <1>1, <1>2, <1>3, ReadingIs DEF Forecasts!Larger
<1>5. /\ p \in Int /\ Payments[p].kind \in {"expense", "income"}
      /\ Payments[p].amount \in Nat \ {0} /\ Payments[p].category \in Categories \cup {None}
  BY <1>1, ForecastTyped
<1>6. e = [on |-> e.on, kind |-> e.kind, amount |-> e.amount, of |-> e.of, category |-> e.category]
  BY <1>3 DEF RecordOf
<1> HIDE DEF e
<1>7. e \in Event
  BY <1>3, <1>4, <1>5, <1>6 DEF Event
<1> QED BY <1>1, <1>3, <1>4, <1>7 DEF e

LEMMA RecordsAre ==
  ASSUME NEW in \in Reading
  PROVE  /\ IsFiniteSet(Forecasts!RecordEvents(in)) /\ Forecasts!RecordEvents(in) \subseteq Event
         /\ \A e \in Forecasts!RecordEvents(in) :
              /\ e.of \in DOMAIN Payments /\ e.on \in Nat \ {0}
              /\ in.day <= e.on /\ e.on <= Forecasts!Until(in)
         /\ \A e, f \in Forecasts!RecordEvents(in) : e.of = f.of => e = f
<1>1. Forecasts!RecordEvents(in) = {RecordOf(in, p) : p \in InTime(in)}
  BY EventsAre
<1> DEFINE R == Forecasts!RecordEvents(in)
<1>2. IsFiniteSet(R)
  <2>1. IsFiniteSet(InTime(in))
    <3>1. InTime(in) \in SUBSET DOMAIN Payments
      BY DEF InTime
    <3> QED BY <3>1, ForecastTyped, FS_Subset
  <2> DEFINE f == [p \in InTime(in) |-> RecordOf(in, p)]
  <2>2. f \in Surjection(InTime(in), R)
    BY <1>1 DEF Surjection
  <2> HIDE DEF f, R
  <2> QED BY <2>1, <2>2, FS_Surjection
<1>3. \A e \in R : \E p \in InTime(in) : e = RecordOf(in, p)
  BY <1>1
<1> HIDE DEF R
<1>4. \A e \in R : /\ e \in Event /\ e.of \in DOMAIN Payments /\ e.on \in Nat \ {0}
                   /\ in.day <= e.on /\ e.on <= Forecasts!Until(in)
                   /\ e = RecordOf(in, e.of)
  <2> SUFFICES ASSUME NEW e \in R
               PROVE  /\ e \in Event /\ e.of \in DOMAIN Payments /\ e.on \in Nat \ {0}
                      /\ in.day <= e.on /\ e.on <= Forecasts!Until(in)
                      /\ e = RecordOf(in, e.of)
    OBVIOUS
  <2>1. PICK p \in InTime(in) : e = RecordOf(in, p)
    BY <1>3
  <2>2. e.of = p
    BY <2>1, RecordIs
  <2> QED BY <2>1, <2>2, RecordIs
<1>5. R \subseteq Event
  BY <1>4
<1>6. ASSUME NEW e \in R, NEW f \in R, e.of = f.of PROVE e = f
  <2>1. e = RecordOf(in, e.of) /\ f = RecordOf(in, f.of)
    BY <1>4
  <2> QED BY <1>6, <2>1
<1> QED BY <1>2, <1>4, <1>5, <1>6 DEF R

(* What the records take of a category in a month.                           *)
TakenBy(in, c, m) ==
  {e \in Forecasts!RecordEvents(in) : e.kind = "expense" /\ e.category = c /\ Forecasts!MonthOf(e.on) = m}

LEMMA AmountsAre ==
  ASSUME NEW S \in SUBSET Event
  PROVE  /\ Forecasts!SumFunction([e \in S |-> e.amount]) = Over(amountOf, S)
         /\ Forecasts!SumFunction([e \in S |-> IF e.kind = "income" THEN e.amount ELSE -e.amount])
              = Over(signedOf, S)
<1>1. [e \in S |-> e.amount] = [e \in S |-> amountOf[e]]
  BY DEF amountOf
<1>2. [e \in S |-> IF e.kind = "income" THEN e.amount ELSE -e.amount] = [e \in S |-> signedOf[e]]
  BY DEF signedOf
<1> QED BY <1>1, <1>2 DEF Over

LEMMA AmountsWhole ==
  ASSUME NEW S \in SUBSET Event
  PROVE  /\ Whole(amountOf, S) /\ Whole(signedOf, S) /\ \A e \in S : amountOf[e] \in Nat \ {0}
         /\ \A e \in S : e.kind = "income" => signedOf[e] = amountOf[e]
         /\ \A e \in S : e.kind = "expense" => signedOf[e] = -amountOf[e]
         /\ \A e \in S : amountOf[e] = e.amount
<1>1. \A e \in S : e.amount \in Nat \ {0} /\ e.kind \in {"income", "expense"}
  BY DEF Event
<1>2. \A e \in S : amountOf[e] = e.amount
  BY DEF amountOf
<1>3. \A e \in S : signedOf[e] = IF e.kind = "income" THEN e.amount ELSE -e.amount
  BY DEF signedOf
<1> QED BY <1>1, <1>2, <1>3 DEF Whole

LEMMA TakenIs ==
  ASSUME NEW in \in Reading, NEW c, NEW m
  PROVE  /\ Forecasts!FromRecords(in, c, m) = Over(amountOf, TakenBy(in, c, m))
         /\ Forecasts!FromRecords(in, c, m) \in Nat
<1>1. TakenBy(in, c, m) \in SUBSET Forecasts!RecordEvents(in)
  BY DEF TakenBy
<1>2. TakenBy(in, c, m) \in SUBSET Event /\ IsFiniteSet(TakenBy(in, c, m))
  BY <1>1, RecordsAre, FS_Subset
<1>3. Forecasts!FromRecords(in, c, m) = Over(amountOf, TakenBy(in, c, m))
  <2>1. Forecasts!FromRecords(in, c, m) = Forecasts!SumFunction([e \in TakenBy(in, c, m) |-> e.amount])
    BY DEF Forecasts!FromRecords, Forecasts!Sum, Forecasts!AmountOf, TakenBy
  <2> QED BY <1>2, <2>1, AmountsAre
<1>4. Over(amountOf, TakenBy(in, c, m)) \in Nat
  <2>1. \A e \in TakenBy(in, c, m) : amountOf[e] \in Nat
    BY <1>2, AmountsWhole
  <2> QED BY <1>2, <2>1, OverPositive
<1> QED BY <1>3, <1>4

(* The plan of a category in a month takes what the records leave of it.     *)
Planned(in, c, m) ==
  Forecasts!Larger(Forecasts!PlanOf(in, c, m), Forecasts!FromRecords(in, c, m))

LEMMA UncoveredIs ==
  ASSUME NEW in \in Reading, NEW c \in Categories, NEW m
  PROVE  /\ Forecasts!PlanOf(in, c, m) \in Int
         /\ Planned(in, c, m) \in Nat
         /\ Forecasts!Uncovered(in, c, m) \in Nat
         /\ Planned(in, c, m) = Forecasts!FromRecords(in, c, m) + Forecasts!Uncovered(in, c, m)
         /\ Forecasts!Uncovered(in, c, m) > 0 => Forecasts!PlanOf(in, c, m) > 0
<1>1. Forecasts!PlanOf(in, c, m) \in Int
  BY ReadingIs, ForecastTyped DEF Forecasts!PlanOf
<1>2. Forecasts!FromRecords(in, c, m) \in Nat
  BY TakenIs
<1> QED BY <1>1, <1>2 DEF Planned, Forecasts!Uncovered, Forecasts!Larger

LEMMA MonthsAre ==
  ASSUME NEW in \in Reading, NEW m \in Forecasts!Months(in)
  PROVE  /\ m \in Nat /\ Forecasts!MonthOf(in.day) <= m /\ m <= Forecasts!MonthOf(Forecasts!Until(in))
         /\ Forecasts!MonthOf(in.day) \in Nat /\ Forecasts!MonthOf(Forecasts!Until(in)) \in Nat
<1>1. Forecasts!MonthOf(in.day) \in Nat /\ Forecasts!MonthOf(Forecasts!Until(in)) \in Nat
  BY ReadingIs, MonthIs
<1> QED BY <1>1 DEF Forecasts!Months

LEMMA LeftIs ==
  ASSUME NEW in \in Reading, NEW q \in Leaves(in)
  PROVE  /\ q[1] \in Categories /\ q[2] \in Forecasts!Months(in)
         /\ LeftOf(in, q) \in Event /\ LeftOf(in, q).kind = "expense" /\ LeftOf(in, q).of = q[1]
         /\ LeftOf(in, q).category = q[1]
         /\ LeftOf(in, q).amount = Forecasts!Uncovered(in, q[1], q[2])
         /\ LeftOf(in, q).on \in Nat \ {0}
         /\ in.day <= LeftOf(in, q).on /\ LeftOf(in, q).on <= Forecasts!Until(in)
         /\ Forecasts!MonthOf(LeftOf(in, q).on) = q[2]
<1> DEFINE e == LeftOf(in, q)
           s == Forecasts!MonthStart(q[2])
<1>1. q[1] \in Categories /\ q[2] \in Forecasts!Months(in) /\ Forecasts!Uncovered(in, q[1], q[2]) > 0
  BY DEF Leaves
<1>2. /\ q[2] \in Nat /\ Forecasts!MonthOf(in.day) <= q[2]
      /\ q[2] <= Forecasts!MonthOf(Forecasts!Until(in)) /\ Forecasts!MonthOf(in.day) \in Nat
  BY <1>1, MonthsAre
<1>3. /\ in.day \in Nat \ {0} /\ Forecasts!Until(in) \in Nat \ {0} /\ in.day <= Forecasts!Until(in)
  BY ReadingIs
<1>4. s \in Nat \ {0} /\ s <= Forecasts!Until(in) /\ (s <= in.day => q[2] <= Forecasts!MonthOf(in.day))
  BY <1>2, <1>3, MonthStarts
<1>5. Forecasts!MonthOf(s) = q[2]
  BY <1>2, MonthBegins
<1>6. /\ e.kind = "expense" /\ e.of = q[1] /\ e.category = q[1]
      /\ e.amount = Forecasts!Uncovered(in, q[1], q[2])
      /\ e.on = IF in.day > s THEN in.day ELSE s
  BY DEF LeftOf, Forecasts!NotBefore, Forecasts!Larger
<1>7. e = [on |-> e.on, kind |-> e.kind, amount |-> e.amount, of |-> e.of, category |-> e.category]
  BY <1>6 DEF LeftOf
<1> HIDE DEF e, s
<1>8. e.on \in Nat \ {0} /\ in.day <= e.on /\ e.on <= Forecasts!Until(in)
  BY <1>3, <1>4, <1>6
<1>9. Forecasts!MonthOf(e.on) = q[2]
  <2>1. CASE in.day > s
    <3>1. e.on = in.day
      BY <1>6, <2>1
    <3>2. q[2] = Forecasts!MonthOf(in.day)
      BY <1>2, <1>3, <1>4, <2>1
    <3> QED BY <3>1, <3>2
  <2>2. CASE ~(in.day > s)
    <3>1. e.on = s
      BY <1>6, <2>2
    <3> QED BY <1>5, <3>1
  <2> QED BY <2>1, <2>2
<1>10. q[1] \in Int /\ Forecasts!Uncovered(in, q[1], q[2]) \in Nat \ {0}
  <2>1. Categories \subseteq Int
    BY ForecastTyped
  <2>2. q[1] \in Int
    BY <1>1, <2>1
  <2>3. Forecasts!Uncovered(in, q[1], q[2]) \in Nat
    BY <1>1, UncoveredIs
  <2> QED BY <1>1, <2>2, <2>3
<1>11. e \in Event
  BY <1>1, <1>6, <1>7, <1>8, <1>10 DEF Event
<1> QED BY <1>1, <1>6, <1>8, <1>9, <1>11 DEF e

LEMMA LeftAre ==
  ASSUME NEW in \in Reading
  PROVE  /\ IsFiniteSet(Forecasts!PlanEvents(in)) /\ Forecasts!PlanEvents(in) \subseteq Event
         /\ \A e \in Forecasts!PlanEvents(in) :
              /\ e.kind = "expense" /\ e.of \in Categories /\ e.category = e.of /\ e.on \in Nat \ {0}
              /\ in.day <= e.on /\ e.on <= Forecasts!Until(in)
              /\ <<e.of, Forecasts!MonthOf(e.on)>> \in Leaves(in)
              /\ e = LeftOf(in, <<e.of, Forecasts!MonthOf(e.on)>>)
         /\ \A e, f \in Forecasts!PlanEvents(in) : e.of = f.of /\ e.on = f.on => e = f
<1> DEFINE P == Forecasts!PlanEvents(in)
<1>1. P = {LeftOf(in, q) : q \in Leaves(in)}
  BY EventsAre
<1>2. IsFiniteSet(P)
  <2>1. IsFiniteSet(Leaves(in))
    <3>1. IsFiniteSet(Forecasts!Months(in))
      <4>1. Forecasts!MonthOf(in.day) \in Int /\ Forecasts!MonthOf(Forecasts!Until(in)) \in Int
        BY ReadingIs, MonthIs
      <4> QED BY <4>1, FS_Interval DEF Forecasts!Months
    <3>2. IsFiniteSet(Categories \X Forecasts!Months(in))
      BY <3>1, ForecastTyped, FS_Product
    <3>3. Leaves(in) \in SUBSET (Categories \X Forecasts!Months(in))
      BY DEF Leaves
    <3> QED BY <3>2, <3>3, FS_Subset
  <2> DEFINE f == [q \in Leaves(in) |-> LeftOf(in, q)]
  <2>2. f \in Surjection(Leaves(in), P)
    BY <1>1 DEF Surjection
  <2> HIDE DEF f, P
  <2> QED BY <2>1, <2>2, FS_Surjection
<1>3. \A e \in P : \E q \in Leaves(in) : e = LeftOf(in, q)
  BY <1>1
<1>4. ASSUME NEW e \in P
      PROVE  /\ e \in Event
             /\ e.kind = "expense" /\ e.of \in Categories /\ e.category = e.of /\ e.on \in Nat \ {0}
             /\ in.day <= e.on /\ e.on <= Forecasts!Until(in)
             /\ <<e.of, Forecasts!MonthOf(e.on)>> \in Leaves(in)
             /\ e = LeftOf(in, <<e.of, Forecasts!MonthOf(e.on)>>)
  <2> HIDE DEF P
  <2>1. PICK q \in Leaves(in) : e = LeftOf(in, q)
    BY <1>3
  <2>2. q = <<q[1], q[2]>>
    BY DEF Leaves
  <2>3. e.of = q[1] /\ Forecasts!MonthOf(e.on) = q[2]
    BY <2>1, LeftIs
  <2> QED BY <2>1, <2>2, <2>3, LeftIs
<1>5. P \subseteq Event
  <2> HIDE DEF P
  <2> QED BY <1>4
<1>6. ASSUME NEW e \in P, NEW f \in P, e.of = f.of, e.on = f.on PROVE e = f
  <2> HIDE DEF P
  <2>1. /\ e = LeftOf(in, <<e.of, Forecasts!MonthOf(e.on)>>)
        /\ f = LeftOf(in, <<f.of, Forecasts!MonthOf(f.on)>>)
    BY <1>4
  <2> QED BY <1>6, <2>1
<1> HIDE DEF P
<1> QED BY <1>2, <1>4, <1>5, <1>6 DEF P

-----------------------------------------------------------------------------
(* The events come one after another, and the position after each.           *)
Ordered(E) ==
  /\ IsFiniteSet(E)
  /\ \A e \in E : ~Forecasts!Before(e, e)
  /\ \A e, f \in E : e = f \/ Forecasts!Before(e, f) \/ Forecasts!Before(f, e)
  /\ \A e, f, g \in E : Forecasts!Before(e, f) /\ Forecasts!Before(f, g) => Forecasts!Before(e, g)

LEMMA EventsOrdered ==
  ASSUME NEW in \in Reading
  PROVE  /\ Events(in) \subseteq Event /\ Ordered(Events(in))
         /\ \A e \in Events(in) : /\ e.on \in Nat \ {0} /\ in.day <= e.on /\ e.on <= Forecasts!Until(in)
<1> DEFINE E == Events(in)
<1>1. E \subseteq Event /\ IsFiniteSet(E)
  BY RecordsAre, LeftAre, FS_Union DEF Events
<1>2. \A e \in E : /\ e.on \in Nat \ {0} /\ in.day <= e.on /\ e.on <= Forecasts!Until(in)
  BY RecordsAre, LeftAre DEF Events
<1>3. ASSUME NEW e \in E, NEW f \in E, e.of = f.of, e.on = f.on PROVE e = f
  <2>1. DOMAIN Payments \cap Categories = {}
    BY ForecastTyped
  <2>2. CASE e \in Forecasts!RecordEvents(in) /\ f \in Forecasts!RecordEvents(in)
    BY <1>3, <2>2, RecordsAre
  <2>3. CASE e \in Forecasts!PlanEvents(in) /\ f \in Forecasts!PlanEvents(in)
    BY <1>3, <2>3, LeftAre
  <2>4. CASE e \in Forecasts!RecordEvents(in) /\ f \in Forecasts!PlanEvents(in)
    BY <1>3, <2>1, <2>4, RecordsAre, LeftAre
  <2>5. CASE e \in Forecasts!PlanEvents(in) /\ f \in Forecasts!RecordEvents(in)
    BY <1>3, <2>1, <2>5, RecordsAre, LeftAre
  <2> QED BY <2>2, <2>3, <2>4, <2>5 DEF Events
<1>4. \A e \in E : e.on \in Int /\ e.of \in Int /\ e.kind \in {"expense", "income"}
  BY <1>1 DEF Event
<1> HIDE DEF E
<1>5. \A e \in E : ~Forecasts!Before(e, e)
  BY <1>4 DEF Forecasts!Before
<1>6. \A e, f \in E : e = f \/ Forecasts!Before(e, f) \/ Forecasts!Before(f, e)
  <2> SUFFICES ASSUME NEW e \in E, NEW f \in E, e # f
               PROVE  Forecasts!Before(e, f) \/ Forecasts!Before(f, e)
    OBVIOUS
  <2>1. e.on # f.on \/ e.of # f.of
    BY <1>3
  <2>2. /\ e.on \in Int /\ e.of \in Int /\ e.kind \in {"expense", "income"}
        /\ f.on \in Int /\ f.of \in Int /\ f.kind \in {"expense", "income"}
    BY <1>4
  <2> QED BY <2>1, <2>2 DEF Forecasts!Before
<1>7. \A e, f, g \in E : Forecasts!Before(e, f) /\ Forecasts!Before(f, g) => Forecasts!Before(e, g)
  <2> TAKE e, f, g \in E
  <2>1. /\ e.on \in Int /\ e.of \in Int /\ e.kind \in {"expense", "income"}
        /\ f.on \in Int /\ f.of \in Int /\ f.kind \in {"expense", "income"}
        /\ g.on \in Int /\ g.of \in Int /\ g.kind \in {"expense", "income"}
    BY <1>4
  <2> QED BY <2>1 DEF Forecasts!Before
<1> QED BY <1>1, <1>2, <1>5, <1>6, <1>7 DEF E, Ordered

LEMMA FirstAndLast ==
  ASSUME NEW E, Ordered(E), NEW S \in SUBSET E, S # {}
  PROVE  /\ \E e \in S : \A f \in S : f = e \/ Forecasts!Before(e, f)
         /\ \E e \in S : \A f \in S : f = e \/ Forecasts!Before(f, e)
<1> DEFINE After(e) == {f \in S : Forecasts!Before(e, f)}
           Until(e) == {f \in S : Forecasts!Before(f, e)}
           T == {After(e) : e \in S}
           U == {Until(e) : e \in S}
<1>0. /\ IsFiniteSet(S) /\ T \in SUBSET SUBSET S /\ U \in SUBSET SUBSET S
      /\ \E e : e \in S
  BY FS_Subset DEF Ordered
<1>1. T # {} /\ U # {}
  <2>1. PICK e : e \in S
    OBVIOUS
  <2>2. After(e) \in T /\ Until(e) \in U
    BY <2>1
  <2> QED BY <2>2
<1>2. PICK e \in S : \A f \in S : Until(f) \subseteq Until(e) => Until(f) = Until(e)
  <2>1. PICK V \in U : \A W \in U : W \subseteq V => W = V
    <3> HIDE DEF U
    <3> QED BY <1>0, <1>1, SmallestSubset
  <2>2. PICK e \in S : V = Until(e)
    BY <2>1
  <2>3. \A f \in S : Until(f) \in U
    OBVIOUS
  <2> HIDE DEF Until, U
  <2> QED BY <2>1, <2>2, <2>3
<1>3. ASSUME NEW f \in S, f # e, ~Forecasts!Before(e, f) PROVE FALSE
  <2>1. Forecasts!Before(f, e)
    BY <1>3 DEF Ordered
  <2>2. \A g \in Until(f) : g \in Until(e)
    BY <2>1 DEF Ordered
  <2>3. f \in Until(e) /\ f \notin Until(f)
    BY <2>1 DEF Ordered
  <2>4. Until(f) \subseteq Until(e) /\ Until(f) # Until(e)
    <3> HIDE DEF Until
    <3> QED BY <2>2, <2>3
  <2> HIDE DEF Until
  <2> QED BY <1>2, <2>4
<1>4. PICK l \in S : \A f \in S : After(f) \subseteq After(l) => After(f) = After(l)
  <2>1. PICK V \in T : \A W \in T : W \subseteq V => W = V
    <3> HIDE DEF T
    <3> QED BY <1>0, <1>1, SmallestSubset
  <2>2. PICK l \in S : V = After(l)
    BY <2>1
  <2>3. \A f \in S : After(f) \in T
    OBVIOUS
  <2> HIDE DEF After, T
  <2> QED BY <2>1, <2>2, <2>3
<1>5. ASSUME NEW f \in S, f # l, ~Forecasts!Before(f, l) PROVE FALSE
  <2>1. Forecasts!Before(l, f)
    BY <1>5 DEF Ordered
  <2>2. \A g \in After(f) : g \in After(l)
    BY <2>1 DEF Ordered
  <2>3. f \in After(l) /\ f \notin After(f)
    BY <2>1 DEF Ordered
  <2>4. After(f) \subseteq After(l) /\ After(f) # After(l)
    <3> HIDE DEF After
    <3> QED BY <2>2, <2>3
  <2> HIDE DEF After
  <2> QED BY <1>4, <2>4
<1> QED BY <1>3, <1>5

LEMMA LastEventIs ==
  ASSUME NEW E, Ordered(E), NEW S \in SUBSET E, S # {}
  PROVE  /\ Forecasts!LastOf(S) \in S
         /\ \A f \in S : f = Forecasts!LastOf(S) \/ Forecasts!Before(f, Forecasts!LastOf(S))
BY FirstAndLast DEF Forecasts!LastOf

UpTo(E, e) == {f \in E : f = e \/ Forecasts!Before(f, e)}
Position(in, S) == in.funds + Over(signedOf, S)

(* Nothing that comes before is left out.                                    *)
Whence(E, S) == S \subseteq E /\ \A e \in S, f \in E : Forecasts!Before(f, e) => f \in S

LEMMA WhenceIs ==
  ASSUME NEW E, Ordered(E), NEW S, Whence(E, S), S # {}
  PROVE  /\ Forecasts!LastOf(S) \in S /\ S = UpTo(E, Forecasts!LastOf(S))
<1> DEFINE l == Forecasts!LastOf(S)
<1>1. S \in SUBSET E
  BY DEF Whence
<1>2. l \in S /\ \A f \in S : f = l \/ Forecasts!Before(f, l)
  BY <1>1, LastEventIs
<1> HIDE DEF l
<1>3. S \subseteq UpTo(E, l)
  BY <1>1, <1>2 DEF UpTo
<1>4. UpTo(E, l) \subseteq S
  BY <1>2 DEF UpTo, Whence
<1> QED BY <1>2, <1>3, <1>4 DEF l

LEMMA AfterIs ==
  ASSUME NEW in \in Reading, NEW e
  PROVE  /\ Forecasts!After(in, Events(in), e) = Position(in, UpTo(Events(in), e))
         /\ \A S \in SUBSET Events(in) : Position(in, S) \in Int
<1>1. UpTo(Events(in), e) \in SUBSET Event
  BY EventsOrdered DEF UpTo
<1>2. Forecasts!After(in, Events(in), e) = in.funds +
        Forecasts!SumFunction([f \in UpTo(Events(in), e) |->
                                 IF f.kind = "income" THEN f.amount ELSE -f.amount])
  BY DEF Forecasts!After, Forecasts!Sum, Forecasts!SignedOf, UpTo
<1>3. \A S \in SUBSET Events(in) : Position(in, S) \in Int
  <2> TAKE S \in SUBSET Events(in)
  <2>1. S \in SUBSET Event /\ IsFiniteSet(S)
    BY EventsOrdered, FS_Subset DEF Ordered
  <2>2. Over(signedOf, S) \in Int
    BY <2>1, AmountsWhole, OverFirst
  <2>3. in.funds \in Int
    BY ReadingIs
  <2> QED BY <2>2, <2>3 DEF Position
<1> QED BY <1>1, <1>2, <1>3, AmountsAre DEF Position

(* The lowest position is the lowest after any beginning of the events, and  *)
(* no other before it is as low.                                             *)
LEMMA LowestIs ==
  ASSUME NEW in \in Reading, NEW low, low = Forecasts!Lowest(in, Events(in))
  PROVE  /\ low.cents \in Int
         /\ \A S : Whence(Events(in), S) => Position(in, S) >= low.cents
         /\ \/ low.cents = in.funds /\ low.on = in.day
            \/ \E e \in Events(in) :
                 /\ low.cents = Position(in, UpTo(Events(in), e)) /\ low.on = e.on
                 /\ low.cents < in.funds
                 /\ \A S : Whence(Events(in), S) /\ e \notin S => Position(in, S) > low.cents
<1> DEFINE E == Events(in)
           P(e) == Forecasts!After(in, E, e)
           lower == {e \in E : P(e) < in.funds /\ \A f \in E : Forecasts!Before(f, e) => P(e) < P(f)}
<1>1. Ordered(E)
  BY EventsOrdered
<1>2. in.funds \in Int /\ \A e \in E : P(e) \in Int
  <2>1. \A e \in E : UpTo(E, e) \in SUBSET E
    BY DEF UpTo
  <2> QED BY <2>1, AfterIs, ReadingIs
<1>3. \A S : Whence(E, S) =>
        \/ S = {} /\ Position(in, S) = in.funds
        \/ \E e \in S : e \in E /\ Position(in, S) = P(e) /\ \A f \in E \ S : Forecasts!Before(e, f)
  <2> SUFFICES ASSUME NEW S, Whence(E, S)
               PROVE  \/ S = {} /\ Position(in, S) = in.funds
                      \/ \E e \in S : /\ e \in E /\ Position(in, S) = P(e)
                                       /\ \A f \in E \ S : Forecasts!Before(e, f)
    OBVIOUS
  <2>1. CASE S = {}
    <3>1. Over(signedOf, {}) = 0
      BY OverEmpty
    <3> QED BY <1>2, <2>1, <3>1 DEF Position
  <2>2. CASE S # {}
    <3> DEFINE l == Forecasts!LastOf(S)
    <3>1. l \in S /\ S = UpTo(E, l)
      BY <1>1, <2>2, WhenceIs
    <3>2. l \in E
      BY <3>1 DEF Whence
    <3>3. Position(in, S) = P(l)
      BY <3>1, AfterIs
    <3>4. \A f \in E \ S : Forecasts!Before(l, f)
      <4> HIDE DEF l, E
      <4> QED BY <1>1, <3>1, <3>2 DEF Ordered, UpTo
    <3> HIDE DEF l, E, P
    <3> QED BY <3>1, <3>2, <3>3, <3>4
  <2> QED BY <2>1, <2>2
<1>4. low = IF lower = {} THEN [on |-> in.day, cents |-> in.funds]
            ELSE [on |-> Forecasts!LastOf(lower).on, cents |-> P(Forecasts!LastOf(lower))]
  BY DEF Forecasts!Lowest
<1> HIDE DEF E, P
<1>5. \A e \in E : P(e) < in.funds => \E f \in lower : P(f) <= P(e) /\ (f = e \/ Forecasts!Before(f, e))
  <2> SUFFICES ASSUME NEW e \in E, P(e) < in.funds
               PROVE  \E f \in lower : P(f) <= P(e) /\ (f = e \/ Forecasts!Before(f, e))
    OBVIOUS
  <2> DEFINE S == {f \in E : P(f) <= P(e)}
  <2>1. e \in S /\ S \in SUBSET E
    BY <1>2
  <2>2. PICK f \in S : \A g \in S : g = f \/ Forecasts!Before(f, g)
    <3> HIDE DEF S
    <3> QED BY <1>1, <2>1, FirstAndLast
  <2>3. f \in lower
    <3>1. f \in E /\ P(f) <= P(e) /\ P(f) < in.funds
      BY <1>2, <2>2
    <3>2. ASSUME NEW g \in E, Forecasts!Before(g, f), ~(P(f) < P(g)) PROVE FALSE
      <4>1. g \in S
        BY <1>2, <3>1, <3>2
      <4>2. g = f \/ Forecasts!Before(f, g)
        BY <2>2, <4>1
      <4> QED BY <1>1, <3>1, <3>2, <4>2 DEF Ordered
    <3> QED BY <3>1, <3>2
  <2>4. P(f) <= P(e) /\ (f = e \/ Forecasts!Before(f, e))
    BY <2>1, <2>2
  <2> HIDE DEF lower, S
  <2> QED BY <2>3, <2>4
<1>6. lower \in SUBSET E
  OBVIOUS
<1>7. CASE lower = {}
  <2>1. low.cents = in.funds /\ low.on = in.day
    BY <1>4, <1>7
  <2>2. \A e \in E : P(e) >= in.funds
    <3> HIDE DEF lower
    <3> QED BY <1>2, <1>5, <1>7
  <2>3. \A S : Whence(E, S) => Position(in, S) >= in.funds
    <3> HIDE DEF lower
    <3> QED BY <1>2, <1>3, <2>2
  <2> HIDE DEF lower
  <2> QED BY <1>2, <2>1, <2>3 DEF E
<1>8. CASE lower # {}
  <2> DEFINE l == Forecasts!LastOf(lower)
  <2>1. l \in lower /\ \A f \in lower : f = l \/ Forecasts!Before(f, l)
    <3> HIDE DEF lower
    <3> QED BY <1>1, <1>6, <1>8, LastEventIs
  <2>2. low.cents = P(l) /\ low.on = l.on
    BY <1>4, <1>8
  <2> HIDE DEF l
  <2>3. /\ l \in E /\ P(l) < in.funds /\ P(l) \in Int
        /\ \A f \in E : Forecasts!Before(f, l) => P(l) < P(f)
    BY <1>2, <2>1
  <2>4. \A f \in lower : P(l) <= P(f)
    <3> SUFFICES ASSUME NEW f \in lower PROVE P(l) <= P(f)
      OBVIOUS
    <3>1. f \in E
      BY <1>6
    <3> HIDE DEF lower
    <3>2. f = l \/ Forecasts!Before(f, l)
      BY <2>1
    <3> QED BY <1>2, <2>3, <3>1, <3>2
  <2> HIDE DEF lower
  <2>5. \A e \in E : P(e) >= P(l)
    <3> SUFFICES ASSUME NEW e \in E, ~(P(e) >= P(l)) PROVE FALSE
      OBVIOUS
    <3>1. P(e) < in.funds
      BY <1>2, <2>3
    <3>2. PICK f \in lower : P(f) <= P(e)
      BY <1>5, <3>1
    <3>3. P(l) <= P(f) /\ f \in E
      BY <1>6, <2>4
    <3> QED BY <1>2, <2>3, <3>2, <3>3
  <2>6. \A S : Whence(E, S) => Position(in, S) >= P(l)
    BY <1>2, <1>3, <2>3, <2>5
  <2>7. ASSUME NEW S, Whence(E, S), l \notin S PROVE Position(in, S) > P(l)
    <3>1. CASE S = {} /\ Position(in, S) = in.funds
      BY <1>2, <2>3, <3>1
    <3>2. ASSUME NEW e \in S, e \in E, Position(in, S) = P(e), \A f \in E \ S : Forecasts!Before(e, f)
          PROVE  Position(in, S) > P(l)
      <4>1. Forecasts!Before(e, l)
        BY <2>3, <2>7, <3>2
      <4> QED BY <1>2, <2>3, <3>2, <4>1
    <3> QED BY <1>3, <2>7, <3>1, <3>2
  <2>8. P(l) = Position(in, UpTo(E, l))
    BY AfterIs DEF P, E
  <2> HIDE DEF P
  <2>9. /\ low.cents = Position(in, UpTo(E, l)) /\ low.on = l.on /\ low.cents < in.funds /\ l \in E
        /\ \A S : Whence(E, S) /\ l \notin S => Position(in, S) > low.cents
        /\ \A S : Whence(E, S) => Position(in, S) >= low.cents
        /\ low.cents \in Int
    BY <2>2, <2>3, <2>6, <2>7, <2>8
  <2> QED BY <2>9 DEF E
<1> HIDE DEF lower
<1> QED BY <1>7, <1>8

LEMMA SignedIs ==
  ASSUME NEW S \in SUBSET Event, IsFiniteSet(S)
  PROVE  /\ Over(signedOf, S) = Over(amountOf, {e \in S : e.kind = "income"})
                                - Over(amountOf, {e \in S : e.kind = "expense"})
         /\ Over(amountOf, {e \in S : e.kind = "income"}) \in Nat
         /\ Over(amountOf, {e \in S : e.kind = "expense"}) \in Nat
         /\ Over(amountOf, S) \in Nat
<1> DEFINE ins == {e \in S : e.kind = "income"}
           outs == {e \in S : e.kind = "expense"}
<1>1. ins \in SUBSET Event /\ outs \in SUBSET Event /\ ins \cap outs = {}
  OBVIOUS
<1>2. S = ins \cup outs
  BY DEF Event
<1>3. IsFiniteSet(ins) /\ IsFiniteSet(outs)
  BY FS_Subset
<1>4. \A e \in ins : signedOf[e] = amountOf[e]
  BY AmountsWhole
<1>5. \A e \in outs : signedOf[e] = -amountOf[e]
  BY AmountsWhole
<1> HIDE DEF ins, outs
<1>6. /\ Whole(amountOf, ins) /\ Whole(signedOf, ins) /\ \A e \in ins : amountOf[e] \in Nat
      /\ Whole(amountOf, outs) /\ Whole(signedOf, outs) /\ \A e \in outs : amountOf[e] \in Nat
      /\ \A e \in S : amountOf[e] \in Nat
  BY <1>1, AmountsWhole
<1>7. Over(signedOf, S) = Over(signedOf, ins) + Over(signedOf, outs)
  BY <1>1, <1>2, <1>3, <1>6, OverJoin
<1>8. Over(signedOf, ins) = Over(amountOf, ins)
  BY <1>4, OverSame
<1>9. Over(signedOf, outs) = -Over(amountOf, outs)
  BY <1>3, <1>5, <1>6, OverNegative
<1>10. Over(amountOf, ins) \in Nat /\ Over(amountOf, outs) \in Nat /\ Over(amountOf, S) \in Nat
  BY <1>3, <1>6, OverPositive
<1>11. Over(signedOf, S) = Over(amountOf, ins) - Over(amountOf, outs)
  BY <1>7, <1>8, <1>9, <1>10
<1> QED BY <1>10, <1>11 DEF ins, outs

(* The worst a day can come to: all its money out, none of its money in.     *)
WorstOf(in, day) ==
  {e \in Events(in) : e.on < day \/ (e.on = day /\ e.kind = "expense")}

LEMMA WorstIs ==
  ASSUME NEW in \in Reading, NEW day \in Int,
         NEW ins, ins = {e \in Forecasts!RecordEvents(in) : e.kind = "income"},
         NEW outs, outs = (Forecasts!RecordEvents(in) \ ins) \cup Forecasts!PlanEvents(in)
  PROVE  /\ Whence(Events(in), WorstOf(in, day))
         /\ in.funds + Forecasts!SumFunction([e \in {e \in ins : e.on < day} |-> e.amount])
                     - Forecasts!SumFunction([e \in {e \in outs : e.on <= day} |-> e.amount])
              = Position(in, WorstOf(in, day))
<1> DEFINE W == WorstOf(in, day)
<1>1. W \in SUBSET Event /\ IsFiniteSet(W)
  BY EventsOrdered, FS_Subset DEF WorstOf, Ordered
<1>2. \A e \in Events(in) : e.on \in Int /\ e.kind \in {"income", "expense"}
  BY EventsOrdered DEF Event
<1>3. Whence(Events(in), W)
  BY <1>2 DEF Whence, WorstOf, Forecasts!Before
<1>4. {e \in ins : e.on < day} = {e \in W : e.kind = "income"}
  <2>1. \A e \in Forecasts!PlanEvents(in) : e.kind = "expense"
    BY LeftAre
  <2> QED BY <2>1 DEF WorstOf, Events
<1>5. {e \in outs : e.on <= day} = {e \in W : e.kind = "expense"}
  <2>1. \A e \in Forecasts!PlanEvents(in) : e.kind = "expense"
    BY LeftAre
  <2> QED BY <1>2, <2>1 DEF WorstOf, Events
<1>6. /\ Over(signedOf, W) = Over(amountOf, {e \in W : e.kind = "income"})
                             - Over(amountOf, {e \in W : e.kind = "expense"})
      /\ Over(amountOf, {e \in W : e.kind = "income"}) \in Nat
      /\ Over(amountOf, {e \in W : e.kind = "expense"}) \in Nat
  BY <1>1, SignedIs
<1>7. /\ Forecasts!SumFunction([e \in {e \in W : e.kind = "income"} |-> e.amount])
           = Over(amountOf, {e \in W : e.kind = "income"})
      /\ Forecasts!SumFunction([e \in {e \in W : e.kind = "expense"} |-> e.amount])
           = Over(amountOf, {e \in W : e.kind = "expense"})
  <2>1. {e \in W : e.kind = "income"} \in SUBSET Event /\ {e \in W : e.kind = "expense"} \in SUBSET Event
    BY <1>1
  <2> HIDE DEF W
  <2> QED BY <2>1, AmountsAre
<1>8. in.funds \in Int
  BY ReadingIs
<1>9. \A a \in Int, b, c \in Nat : a + b - c = a + (b - c)
  OBVIOUS
<1> HIDE DEF W
<1> QED BY <1>3, <1>4, <1>5, <1>6, <1>7, <1>8, <1>9 DEF Position, W

LEMMA LowestReached ==
  ASSUME NEW in \in Reading, NEW low, low = Forecasts!Lowest(in, Events(in))
  PROVE  /\ low.cents \in Int /\ low.on \in Int
         /\ \A day \in Int : Position(in, WorstOf(in, day)) >= low.cents
         /\ \/ low.cents = in.funds /\ low.on = in.day
            \/ /\ low.cents < in.funds /\ Position(in, WorstOf(in, low.on)) = low.cents
               /\ \A day \in Int : day < low.on => Position(in, WorstOf(in, day)) > low.cents
<1> DEFINE E == Events(in)
<1>1. \A day \in Int : Whence(E, WorstOf(in, day)) /\ Position(in, WorstOf(in, day)) \in Int
  <2> TAKE day \in Int
  <2>1. Whence(E, WorstOf(in, day))
    BY WorstIs
  <2>2. WorstOf(in, day) \in SUBSET Events(in)
    BY DEF WorstOf
  <2> QED BY <2>1, <2>2, AfterIs
<1>2. low.cents \in Int /\ \A day \in Int : Position(in, WorstOf(in, day)) >= low.cents
  BY <1>1, LowestIs
<1>3. CASE low.cents = in.funds /\ low.on = in.day
  BY <1>2, <1>3, ReadingIs
<1>4. ASSUME NEW e \in E,
             low.cents = Position(in, UpTo(E, e)), low.on = e.on, low.cents < in.funds,
             \A S : Whence(E, S) /\ e \notin S => Position(in, S) > low.cents
      PROVE  /\ low.on \in Int /\ low.cents < in.funds /\ Position(in, WorstOf(in, low.on)) = low.cents
             /\ \A day \in Int : day < low.on => Position(in, WorstOf(in, day)) > low.cents
  <2>1. /\ E \subseteq Event /\ IsFiniteSet(E) /\ Ordered(E)
        /\ \A f \in E : f.on \in Int /\ f.kind \in {"income", "expense"} /\ f.amount \in Nat \ {0}
    BY EventsOrdered DEF Ordered, Event
  <2> HIDE DEF E
  <2>2. e.kind = "expense"
    <3> SUFFICES ASSUME e.kind = "income" PROVE FALSE
      BY <2>1
    <3> DEFINE S == UpTo(E, e) \ {e}
    <3>1. Whence(E, S) /\ e \notin S
      BY <2>1 DEF Whence, UpTo, Ordered
    <3>2. Position(in, S) > low.cents
      BY <1>4, <3>1
    <3>3. e \in UpTo(E, e) /\ UpTo(E, e) \in SUBSET Event /\ IsFiniteSet(UpTo(E, e))
      BY <2>1, FS_Subset DEF UpTo
    <3>4. Over(signedOf, UpTo(E, e)) = signedOf[e] + Over(signedOf, S)
      BY <3>3, AmountsWhole, OverPut
    <3>5. signedOf[e] = amountOf[e] /\ amountOf[e] \in Nat \ {0}
      BY <2>1, AmountsWhole
    <3>6. Over(signedOf, S) \in Int
      <4>1. S \in SUBSET UpTo(E, e)
        OBVIOUS
      <4>2. Whole(signedOf, UpTo(E, e))
        BY <3>3, AmountsWhole
      <4> HIDE DEF S
      <4> QED BY <3>3, <4>1, <4>2, WholeSubset
    <3> HIDE DEF S
    <3> QED BY <1>2, <1>4, <3>2, <3>4, <3>5, <3>6, ReadingIs DEF Position
  <2> DEFINE W == WorstOf(in, e.on)
             U == UpTo(E, e)
             R == W \ U
  <2>3. U \subseteq W /\ \A f \in R : f \in E /\ f.kind = "expense"
    BY <2>1, <2>2 DEF UpTo, WorstOf, Forecasts!Before, E
  <2>4. W \in SUBSET E
    BY DEF WorstOf, E
  <2> HIDE DEF W, U
  <2>5. W = U \cup R /\ U \cap R = {} /\ U \in SUBSET E /\ R \in SUBSET E
    BY <2>3, <2>4
  <2> HIDE DEF R
  <2>6. /\ IsFiniteSet(U) /\ IsFiniteSet(R) /\ U \in SUBSET Event /\ R \in SUBSET Event
    BY <2>1, <2>5, FS_Subset
  <2>7. Over(signedOf, W) = Over(signedOf, U) + Over(signedOf, R)
    BY <2>5, <2>6, AmountsWhole, OverJoin
  <2>8. Over(signedOf, R) = -Over(amountOf, R) /\ Over(amountOf, R) \in Nat
    <3>1. \A f \in R : signedOf[f] = -amountOf[f]
      BY <2>3, <2>6, AmountsWhole
    <3>2. Over(signedOf, R) = -Over(amountOf, R)
      BY <2>6, <3>1, AmountsWhole, OverNegative
    <3> QED BY <2>6, <3>2, SignedIs
  <2>9. Over(signedOf, U) \in Int
    BY <2>6, AmountsWhole, OverFirst
  <2>10. in.funds \in Int /\ low.cents = in.funds + Over(signedOf, U)
    BY <1>4, ReadingIs DEF Position, U
  <2>11. in.funds + Over(signedOf, W) <= low.cents
    <3> DEFINE a == Over(signedOf, U)
               b == Over(amountOf, R)
    <3>1. /\ a \in Int /\ b \in Nat /\ Over(signedOf, W) = a + -b /\ low.cents = in.funds + a
      BY <2>7, <2>8, <2>9, <2>10
    <3> HIDE DEF a, b
    <3> QED BY <2>10, <3>1
  <2>12. e.on \in Int
    BY <2>1
  <2>13. Position(in, W) >= low.cents /\ Position(in, W) \in Int
    BY <1>1, <1>2, <2>12 DEF W
  <2>14. Position(in, W) = low.cents
    BY <1>2, <2>11, <2>13 DEF Position
  <2>15. ASSUME NEW day \in Int, day < low.on PROVE Position(in, WorstOf(in, day)) > low.cents
    <3>1. e \notin WorstOf(in, day)
      BY <1>4, <2>12, <2>15 DEF WorstOf
    <3> QED BY <1>1, <1>4, <3>1
  <2> QED BY <1>4, <2>12, <2>14, <2>15 DEF W
<1> HIDE DEF E
<1> QED BY <1>2, <1>3, <1>4, LowestIs DEF E

-----------------------------------------------------------------------------
(* What the months until one take in and pay.                                *)
UntilMonth(in, m) == {e \in Events(in) : Forecasts!MonthOf(e.on) <= m}
Covered(in, m) == {e \in UntilMonth(in, m) : e.kind = "expense" /\ e.category \in Categories}
Income(in, m) == {e \in UntilMonth(in, m) : e.kind = "income"}
Outside(in, m) == {e \in UntilMonth(in, m) : e.kind = "expense" /\ e.category \notin Categories}
PlannedUntil(in, m) == Categories \X (Forecasts!MonthOf(in.day)..m)
plannedOf(in, m) == [q \in PlannedUntil(in, m) |-> Planned(in, q[1], q[2])]

LEMMA ClosingIs ==
  ASSUME NEW in \in Reading, NEW m
  PROVE  /\ UntilMonth(in, m) \in SUBSET Event /\ IsFiniteSet(UntilMonth(in, m))
         /\ m \in Int => Forecasts!Closing(in, Events(in), m) = Position(in, UntilMonth(in, m))
<1> DEFINE E == Events(in)
           U == UntilMonth(in, m)
<1>1. U \in SUBSET E /\ U = {e \in E : Forecasts!MonthOf(e.on) <= m}
  BY DEF UntilMonth
<1>2. E \subseteq Event /\ Ordered(E) /\ \A e \in E : e.on \in Nat \ {0}
  BY EventsOrdered
<1>3. Forecasts!Closing(in, E, m) =
        IF U = {} THEN in.funds ELSE Forecasts!After(in, E, Forecasts!LastOf(U))
  BY DEF Forecasts!Closing, UntilMonth
<1> HIDE DEF U
<1>4. ASSUME m \in Int, NEW e \in U, NEW f \in E, Forecasts!Before(f, e) PROVE f \in U
  <2>1. f.on <= e.on /\ f.on \in Nat \ {0} /\ e.on \in Nat \ {0} /\ e \in E
    <3> HIDE DEF E
    <3>1. f.on \in Nat \ {0} /\ e.on \in Nat \ {0} /\ e \in E
      BY <1>1, <1>2
    <3> QED BY <1>4, <3>1 DEF Forecasts!Before
  <2>2. Forecasts!MonthOf(f.on) <= Forecasts!MonthOf(e.on)
    BY <2>1, MonthsGrow
  <2>3. Forecasts!MonthOf(e.on) <= m
    BY <1>1
  <2>4. Forecasts!MonthOf(f.on) \in Nat /\ Forecasts!MonthOf(e.on) \in Nat
    BY <2>1, MonthIs
  <2>5. Forecasts!MonthOf(f.on) <= m
    BY <1>4, <2>2, <2>3, <2>4
  <2> QED BY <1>1, <2>5
<1>5. U \in SUBSET Event /\ IsFiniteSet(U)
  <2> HIDE DEF E
  <2> QED BY <1>1, <1>2, FS_Subset DEF Ordered
<1>6. ASSUME m \in Int PROVE Forecasts!Closing(in, E, m) = Position(in, U)
  <2>1. CASE U = {}
    <3>1. Over(signedOf, {}) = 0 /\ in.funds \in Int
      BY OverEmpty, ReadingIs
    <3> QED BY <1>3, <2>1, <3>1 DEF Position
  <2>2. CASE U # {}
    <3>1. Whence(E, U)
      <4> HIDE DEF E
      <4> QED BY <1>1, <1>4, <1>6 DEF Whence
    <3>2. U = UpTo(E, Forecasts!LastOf(U))
      <4> HIDE DEF E
      <4> QED BY <1>2, <2>2, <3>1, WhenceIs
    <3>3. Forecasts!After(in, E, Forecasts!LastOf(U)) = Position(in, UpTo(E, Forecasts!LastOf(U)))
      BY AfterIs
    <3>4. Position(in, UpTo(E, Forecasts!LastOf(U))) = Position(in, U)
      BY <3>2
    <3> QED BY <1>3, <2>2, <3>3, <3>4
  <2> QED BY <2>1, <2>2
<1> QED BY <1>5, <1>6 DEF U

(* What falls in a month of a category is what is planned for it.            *)
LEMMA FibreIs ==
  ASSUME NEW in \in Reading, NEW m \in Forecasts!Months(in), NEW q \in PlannedUntil(in, m),
         NEW those, those = {e \in Covered(in, m) : <<e.category, Forecasts!MonthOf(e.on)>> = q}
  PROVE  Over(amountOf, those) = Planned(in, q[1], q[2])
<1> DEFINE T == TakenBy(in, q[1], q[2])
           L == IF q \in Leaves(in) THEN {LeftOf(in, q)} ELSE {}
<1>1. /\ m \in Nat /\ Forecasts!MonthOf(in.day) \in Nat /\ m <= Forecasts!MonthOf(Forecasts!Until(in))
      /\ Forecasts!MonthOf(Forecasts!Until(in)) \in Nat
  BY MonthsAre
<1>2. /\ q = <<q[1], q[2]>> /\ q[1] \in Categories /\ q[2] \in Int
      /\ Forecasts!MonthOf(in.day) <= q[2] /\ q[2] <= m /\ q[2] \in Forecasts!Months(in)
  BY <1>1 DEF PlannedUntil, Forecasts!Months
<1>3. ASSUME NEW e \in those PROVE e \in T \cup L
  <2>1. /\ e \in Events(in) /\ e.kind = "expense" /\ e.category = q[1] /\ Forecasts!MonthOf(e.on) = q[2]
    BY <1>2 DEF Covered, UntilMonth
  <2>2. CASE e \in Forecasts!RecordEvents(in)
    BY <2>1, <2>2 DEF TakenBy
  <2>3. CASE e \in Forecasts!PlanEvents(in)
    <3>1. /\ e.category = e.of /\ <<e.of, Forecasts!MonthOf(e.on)>> \in Leaves(in)
          /\ e = LeftOf(in, <<e.of, Forecasts!MonthOf(e.on)>>)
      BY <2>3, LeftAre
    <3>2. <<e.of, Forecasts!MonthOf(e.on)>> = q
      BY <1>2, <2>1, <3>1
    <3> QED BY <3>1, <3>2
  <2> QED BY <2>1, <2>2, <2>3 DEF Events
<1>4. ASSUME NEW e \in T PROVE e \in those
  <2>1. /\ e \in Forecasts!RecordEvents(in) /\ e.kind = "expense" /\ e.category = q[1]
        /\ Forecasts!MonthOf(e.on) = q[2]
    BY DEF TakenBy
  <2>2. e \in Events(in) /\ Forecasts!MonthOf(e.on) <= m
    BY <1>2, <2>1 DEF Events
  <2>3. e \in Covered(in, m)
    BY <1>2, <2>1, <2>2 DEF Covered, UntilMonth
  <2> QED BY <1>2, <2>1, <2>3
<1>5. ASSUME q \in Leaves(in) PROVE LeftOf(in, q) \in those
  <2> DEFINE e == LeftOf(in, q)
  <2>1. e.kind = "expense" /\ e.category = q[1] /\ Forecasts!MonthOf(e.on) = q[2]
    BY <1>5, LeftIs
  <2>2. e \in Events(in)
    BY <1>5, EventsAre DEF Events
  <2> HIDE DEF e
  <2>3. e \in Covered(in, m)
    BY <1>2, <2>1, <2>2 DEF Covered, UntilMonth
  <2>4. <<e.category, Forecasts!MonthOf(e.on)>> = q
    BY <1>2, <2>1
  <2>5. e \in those
    BY <2>3, <2>4
  <2> QED BY <2>5 DEF e
<1>6. those = T \cup L
  <2>1. those \subseteq T \cup L
    BY <1>3
  <2>2. T \cup L \subseteq those
    BY <1>4, <1>5
  <2> QED BY <2>1, <2>2
<1>7. T \cap L = {}
  <2> SUFFICES ASSUME q \in Leaves(in), LeftOf(in, q) \in T PROVE FALSE
    OBVIOUS
  <2>1. LeftOf(in, q).of \in Categories
    BY LeftIs
  <2>2. LeftOf(in, q).of \in DOMAIN Payments
    BY RecordsAre DEF TakenBy
  <2> QED BY <2>1, <2>2, ForecastTyped
<1>8. /\ T \in SUBSET Event /\ IsFiniteSet(T) /\ Over(amountOf, T) = Forecasts!FromRecords(in, q[1], q[2])
  <2>1. T \in SUBSET Forecasts!RecordEvents(in)
    BY DEF TakenBy
  <2> QED BY <2>1, RecordsAre, FS_Subset, TakenIs
<1>9. /\ L \in SUBSET Event /\ IsFiniteSet(L) /\ Over(amountOf, L) = Forecasts!Uncovered(in, q[1], q[2])
  <2>1. CASE q \in Leaves(in)
    <3>1. LeftOf(in, q) \in Event /\ LeftOf(in, q).amount = Forecasts!Uncovered(in, q[1], q[2])
      BY <2>1, LeftIs
    <3>2. L = {LeftOf(in, q)} /\ L \in SUBSET Event
      BY <2>1, <3>1
    <3>3. amountOf[LeftOf(in, q)] = LeftOf(in, q).amount /\ amountOf[LeftOf(in, q)] \in Int
      BY <3>2, AmountsWhole
    <3>4. Over(amountOf, {LeftOf(in, q)}) = LeftOf(in, q).amount
      BY <3>3, OverOne
    <3> QED BY <3>1, <3>2, <3>4, FS_Singleton
  <2>2. CASE q \notin Leaves(in)
    <3>1. L = {}
      BY <2>2
    <3>2. q \in Categories \X Forecasts!Months(in)
      BY <1>2
    <3>3. ~(Forecasts!PlanOf(in, q[1], q[2]) > 0 /\ Forecasts!Uncovered(in, q[1], q[2]) > 0)
      BY <2>2, <3>2 DEF Leaves
    <3>4. Forecasts!Uncovered(in, q[1], q[2]) = 0
      BY <1>2, <3>3, UncoveredIs
    <3> QED BY <3>1, <3>4, OverEmpty, FS_EmptySet
  <2> QED BY <2>1, <2>2
<1> HIDE DEF T, L
<1>10. Over(amountOf, T \cup L) = Over(amountOf, T) + Over(amountOf, L)
  BY <1>7, <1>8, <1>9, AmountsWhole, OverJoin
<1>11. Planned(in, q[1], q[2]) = Forecasts!FromRecords(in, q[1], q[2]) + Forecasts!Uncovered(in, q[1], q[2])
  BY <1>2, UncoveredIs
<1> QED BY <1>6, <1>8, <1>9, <1>10, <1>11

LEMMA CoveredIs ==
  ASSUME NEW in \in Reading, NEW m \in Forecasts!Months(in)
  PROVE  /\ Over(amountOf, Covered(in, m)) = Over(plannedOf(in, m), PlannedUntil(in, m))
         /\ Over(amountOf, Covered(in, m)) \in Nat
<1>1. Covered(in, m) \in SUBSET Event /\ IsFiniteSet(Covered(in, m))
  <2>1. Covered(in, m) \in SUBSET UntilMonth(in, m)
    BY DEF Covered
  <2> QED BY <2>1, ClosingIs, FS_Subset
<1>2. IsFiniteSet(PlannedUntil(in, m))
  <2>1. Forecasts!MonthOf(in.day) \in Int /\ m \in Int
    BY MonthsAre
  <2>2. IsFiniteSet(Forecasts!MonthOf(in.day)..m)
    BY <2>1, FS_Interval
  <2> QED BY <2>2, ForecastTyped, FS_Product DEF PlannedUntil
<1> DEFINE key == [e \in Covered(in, m) |-> <<e.category, Forecasts!MonthOf(e.on)>>]
<1>3. ASSUME NEW e \in Covered(in, m) PROVE key[e] \in PlannedUntil(in, m)
  <2>1. /\ e \in Events(in) /\ e.category \in Categories /\ Forecasts!MonthOf(e.on) <= m
    BY DEF Covered, UntilMonth
  <2>2. e.on \in Nat \ {0} /\ in.day <= e.on /\ in.day \in Nat \ {0}
    BY <2>1, EventsOrdered, ReadingIs
  <2>3. Forecasts!MonthOf(in.day) <= Forecasts!MonthOf(e.on)
    BY <2>2, MonthsGrow
  <2>4. Forecasts!MonthOf(e.on) \in Nat /\ Forecasts!MonthOf(in.day) \in Nat /\ m \in Nat
    BY <2>2, MonthIs, MonthsAre
  <2> QED BY <2>1, <2>3, <2>4 DEF PlannedUntil
<1>4. ASSUME NEW q \in PlannedUntil(in, m)
      PROVE  plannedOf(in, m)[q] = Over(amountOf, {e \in Covered(in, m) : key[e] = q})
  <2>1. {e \in Covered(in, m) : key[e] = q}
          = {e \in Covered(in, m) : <<e.category, Forecasts!MonthOf(e.on)>> = q}
    OBVIOUS
  <2>2. PICK those : those = {e \in Covered(in, m) : <<e.category, Forecasts!MonthOf(e.on)>> = q}
    OBVIOUS
  <2>3. Over(amountOf, those) = Planned(in, q[1], q[2])
    BY <2>2, FibreIs
  <2>4. plannedOf(in, m)[q] = Planned(in, q[1], q[2])
    BY DEF plannedOf
  <2> HIDE DEF key
  <2> QED BY <2>1, <2>2, <2>3, <2>4
<1> HIDE DEF key
<1>5. Whole(amountOf, Covered(in, m))
  BY <1>1, AmountsWhole
<1>6. Over(amountOf, Covered(in, m)) = Over(plannedOf(in, m), PlannedUntil(in, m))
  <2>1. PICK g, h, C, K, f : /\ g = amountOf /\ h = plannedOf(in, m)
                             /\ C = Covered(in, m) /\ K = PlannedUntil(in, m) /\ f = key
    OBVIOUS
  <2>2. IsFiniteSet(C) /\ IsFiniteSet(K) /\ Whole(g, C) /\ Belongs(f, C, K) /\ Fibres(g, C, f, K, h)
    BY <1>1, <1>2, <1>3, <1>4, <1>5, <2>1 DEF Belongs, Fibres
  <2>3. Over(g, C) = Over(h, K)
    BY <2>2, OverFibres
  <2> QED BY <2>1, <2>3
<1>7. Over(amountOf, Covered(in, m)) \in Nat
  BY <1>1, SignedIs
<1> QED BY <1>6, <1>7

(* What the months until one take in, less what they pay.                    *)
LEMMA TakesAndPays ==
  ASSUME NEW in \in Reading, NEW m \in Forecasts!Months(in)
  PROVE  /\ Over(signedOf, UntilMonth(in, m)) = Over(amountOf, Income(in, m)) - Over(amountOf, Outside(in, m))
                                               - Over(plannedOf(in, m), PlannedUntil(in, m))
         /\ Over(amountOf, Income(in, m)) \in Nat /\ Over(amountOf, Outside(in, m)) \in Nat
         /\ Over(plannedOf(in, m), PlannedUntil(in, m)) \in Nat
         /\ Income(in, m) \in SUBSET Event /\ Outside(in, m) \in SUBSET Event
<1> DEFINE U == UntilMonth(in, m)
           ins == Income(in, m)
           outs == {e \in U : e.kind = "expense"}
           outside == Outside(in, m)
           C == Covered(in, m)
<1>1. U \in SUBSET Event /\ IsFiniteSet(U)
  BY ClosingIs
<1>2. Over(signedOf, U) = Over(amountOf, ins) - Over(amountOf, outs) /\ Over(amountOf, ins) \in Nat
  BY <1>1, SignedIs DEF Income
<1>3. outs = outside \cup C /\ outside \cap C = {} /\ ins \subseteq U /\ outside \subseteq U /\ C \subseteq U
  BY DEF Covered, Income, Outside
<1> HIDE DEF U, C, outs, ins, outside
<1>4. /\ IsFiniteSet(outside) /\ IsFiniteSet(C)
      /\ ins \in SUBSET Event /\ outside \in SUBSET Event /\ C \in SUBSET Event
  BY <1>1, <1>3, FS_Subset
<1>5. Over(amountOf, outs) = Over(amountOf, outside) + Over(amountOf, C)
  BY <1>3, <1>4, AmountsWhole, OverJoin
<1>6. Over(amountOf, outside) \in Nat
  BY <1>4, SignedIs
<1>7. Over(amountOf, C) = Over(plannedOf(in, m), PlannedUntil(in, m)) /\ Over(amountOf, C) \in Nat
  BY CoveredIs DEF C
<1>8. \A a, b, c \in Nat : a - (b + c) = a - b - c
  OBVIOUS
<1> QED BY <1>2, <1>4, <1>5, <1>6, <1>7, <1>8 DEF U, ins, outside

(* The position at the end of the forecast, as what is taken in and paid.    *)
LEMMA AllIs ==
  ASSUME NEW in \in Reading, NEW m, m = Forecasts!MonthOf(Forecasts!Until(in))
  PROVE  m \in Forecasts!Months(in) /\ Events(in) = UntilMonth(in, m)
<1>1. /\ in.day \in Nat \ {0} /\ Forecasts!Until(in) \in Nat \ {0} /\ in.day <= Forecasts!Until(in)
  BY ReadingIs
<1>2. Forecasts!MonthOf(in.day) <= m /\ Forecasts!MonthOf(in.day) \in Nat /\ m \in Nat
  BY <1>1, MonthsGrow, MonthIs
<1>3. ASSUME NEW e \in Events(in) PROVE Forecasts!MonthOf(e.on) <= m
  <2>1. e.on \in Nat \ {0} /\ e.on <= Forecasts!Until(in)
    BY EventsOrdered
  <2> QED BY <1>1, <2>1, MonthsGrow
<1> QED BY <1>2, <1>3 DEF Forecasts!Months, UntilMonth

(* A payment that is settled, and the same reading before it was.            *)
Settled(in, more, p) ==
  /\ p \in DOMAIN Payments /\ Payments[p].kind = "expense"
  /\ in.expected[p] # None /\ in.expected[p].state # "open"
  /\ Forecasts!MonthOf(in.expected[p].due) <= Forecasts!MonthOf(in.day)
  /\ more.day = in.day /\ more.funds = in.funds + Payments[p].amount
  /\ \A r \in DOMAIN Payments : r # p => more.expected[r] = in.expected[r]
  /\ more.expected[p] # None /\ more.expected[p].state = "open"
  /\ more.expected[p].due = in.expected[p].due
  /\ \A c \in Categories : c # Payments[p].category => more.remaining[c] = in.remaining[c]
  /\ Payments[p].category \in Categories =>
       \E x \in Int : /\ in.remaining[Payments[p].category] = Forecasts!Larger(0, x)
                      /\ more.remaining[Payments[p].category] = Forecasts!Larger(0, x + Payments[p].amount)

LEMMA OneRecordMore ==
  ASSUME NEW in \in Reading, NEW more \in Reading, NEW p, Settled(in, more, p)
  PROVE  /\ RecordOf(more, p) \in Event /\ RecordOf(more, p).kind = "expense"
         /\ RecordOf(more, p).amount = Payments[p].amount
         /\ RecordOf(more, p).category = Payments[p].category
         /\ RecordOf(more, p) \notin Forecasts!RecordEvents(in)
         /\ Forecasts!RecordEvents(more) = Forecasts!RecordEvents(in) \cup {RecordOf(more, p)}
         /\ Forecasts!MonthOf(RecordOf(more, p).on) = Forecasts!MonthOf(in.day)
<1> DEFINE due == in.expected[p].due
           e == RecordOf(more, p)
<1>1. /\ p \in DOMAIN Payments /\ Payments[p].kind = "expense"
      /\ in.expected[p] # None /\ in.expected[p].state # "open"
      /\ Forecasts!MonthOf(due) <= Forecasts!MonthOf(in.day)
      /\ more.day = in.day
      /\ \A r \in DOMAIN Payments : r # p => more.expected[r] = in.expected[r]
      /\ more.expected[p] # None /\ more.expected[p].state = "open" /\ more.expected[p].due = due
  BY DEF Settled
<1>2. due \in Nat \ {0} /\ in.day \in Nat \ {0} /\ Forecasts!Until(in) = in.day + Ahead
  BY <1>1, ReadingIs
<1>3. due <= Forecasts!Until(in)
  BY <1>1, <1>2, MonthEnds
<1>4. Forecasts!Until(more) = Forecasts!Until(in)
  BY <1>1 DEF Forecasts!Until
<1>5. p \notin InTime(in) /\ p \in InTime(more)
  BY <1>1, <1>3, <1>4 DEF InTime, Forecasts!Counts
<1>6. \A r \in DOMAIN Payments : r # p => (r \in InTime(more) <=> r \in InTime(in))
  BY <1>1, <1>4 DEF InTime, Forecasts!Counts
<1>7. \A r \in DOMAIN Payments : r # p => RecordOf(more, r) = RecordOf(in, r)
  BY <1>1 DEF RecordOf
<1>8. InTime(more) = InTime(in) \cup {p}
  <2>1. \A r \in InTime(more) : r \in DOMAIN Payments
    BY DEF InTime
  <2>2. \A r \in InTime(in) : r \in DOMAIN Payments
    BY DEF InTime
  <2> QED BY <1>5, <1>6, <2>1, <2>2
<1>9. \A r \in InTime(in) : r # p /\ r \in DOMAIN Payments
  BY <1>5 DEF InTime
<1>10. Forecasts!RecordEvents(more) = Forecasts!RecordEvents(in) \cup {e}
  <2>1. /\ Forecasts!RecordEvents(in) = {RecordOf(in, r) : r \in InTime(in)}
        /\ Forecasts!RecordEvents(more) = {RecordOf(more, r) : r \in InTime(more)}
    BY EventsAre
  <2>2. {RecordOf(more, r) : r \in InTime(in) \cup {p}} = {RecordOf(in, r) : r \in InTime(in)} \cup {e}
    BY <1>7, <1>9
  <2> QED BY <1>8, <2>1, <2>2
<1>11. e \in Event /\ e.kind = "expense" /\ e.amount = Payments[p].amount /\ e.category = Payments[p].category
       /\ e.of = p /\ e.on = Forecasts!Larger(in.day, due) /\ e.on \in Nat \ {0}
  BY <1>1, <1>5, RecordIs
<1>12. e \notin Forecasts!RecordEvents(in)
  <2>1. Forecasts!RecordEvents(in) = {RecordOf(in, r) : r \in InTime(in)}
    BY EventsAre
  <2>2. \A r \in InTime(in) : RecordOf(in, r).of = r
    BY RecordIs
  <2> HIDE DEF e
  <2> QED BY <1>5, <1>11, <2>1, <2>2
<1>13. Forecasts!MonthOf(e.on) = Forecasts!MonthOf(in.day)
  <2> HIDE DEF e, due
  <2>1. CASE in.day > due
    BY <1>11, <2>1 DEF Forecasts!Larger
  <2>2. CASE ~(in.day > due)
    <3>1. e.on = due /\ in.day <= due
      BY <1>2, <1>11, <2>2 DEF Forecasts!Larger
    <3>2. Forecasts!MonthOf(in.day) <= Forecasts!MonthOf(due)
      BY <1>2, <3>1, MonthsGrow
    <3>3. Forecasts!MonthOf(in.day) \in Nat /\ Forecasts!MonthOf(due) \in Nat
      BY <1>2, MonthIs
    <3> QED BY <1>1, <3>1, <3>2, <3>3
  <2> QED BY <2>1, <2>2
<1> QED BY <1>10, <1>11, <1>12, <1>13

(* What is planned for a category and a month, with the payment and without. *)
LEMMA PlannedMore ==
  ASSUME NEW in \in Reading, NEW more \in Reading, NEW p, Settled(in, more, p),
         NEW c \in Categories, NEW m
  PROVE  Planned(more, c, m) = IF c = Payments[p].category /\ m = Forecasts!MonthOf(in.day)
                               THEN Planned(in, c, m) + Payments[p].amount ELSE Planned(in, c, m)
<1> DEFINE e == RecordOf(more, p)
           a == Payments[p].amount
           here == c = Payments[p].category /\ m = Forecasts!MonthOf(in.day)
<1>1. /\ e \in Event /\ e.kind = "expense" /\ e.amount = a /\ e.category = Payments[p].category
      /\ e \notin Forecasts!RecordEvents(in)
      /\ Forecasts!RecordEvents(more) = Forecasts!RecordEvents(in) \cup {e}
      /\ Forecasts!MonthOf(e.on) = Forecasts!MonthOf(in.day)
  BY OneRecordMore
<1>2. a \in Nat \ {0} /\ more.day = in.day
  BY ForecastTyped DEF Settled
<1>3. TakenBy(more, c, m) = IF here THEN TakenBy(in, c, m) \cup {e} ELSE TakenBy(in, c, m)
  <2> HIDE DEF e
  <2> QED BY <1>1 DEF TakenBy
<1>4. Forecasts!FromRecords(in, c, m) = Over(amountOf, TakenBy(in, c, m))
      /\ Forecasts!FromRecords(more, c, m) = Over(amountOf, TakenBy(more, c, m))
      /\ Forecasts!FromRecords(in, c, m) \in Nat
  BY TakenIs
<1>5. Forecasts!FromRecords(more, c, m) =
        IF here THEN Forecasts!FromRecords(in, c, m) + a ELSE Forecasts!FromRecords(in, c, m)
  <2>1. CASE here
    <3> HIDE DEF e, a
    <3>1. /\ TakenBy(more, c, m) \in SUBSET Event /\ IsFiniteSet(TakenBy(more, c, m))
      <4>1. TakenBy(more, c, m) \in SUBSET Forecasts!RecordEvents(more)
        BY DEF TakenBy
      <4> QED BY <4>1, RecordsAre, FS_Subset
    <3>2. e \in TakenBy(more, c, m) /\ TakenBy(more, c, m) \ {e} = TakenBy(in, c, m)
      <4>1. TakenBy(more, c, m) = TakenBy(in, c, m) \cup {e}
        BY <1>3, <2>1
      <4>2. e \notin TakenBy(in, c, m)
        BY <1>1 DEF TakenBy
      <4> QED BY <4>1, <4>2
    <3>3. Over(amountOf, TakenBy(more, c, m)) = amountOf[e] + Over(amountOf, TakenBy(in, c, m))
      <4>1. Whole(amountOf, TakenBy(more, c, m))
        BY <3>1, AmountsWhole
      <4>2. Over(amountOf, TakenBy(more, c, m)) = amountOf[e] + Over(amountOf, TakenBy(more, c, m) \ {e})
        BY <3>1, <3>2, <4>1, OverPut
      <4> QED BY <3>2, <4>2
    <3>4. amountOf[e] = a
      BY <1>1, <3>1, <3>2, AmountsWhole
    <3> QED BY <1>2, <1>4, <2>1, <3>3, <3>4
  <2>2. CASE ~here
    BY <1>3, <1>4, <2>2
  <2> QED BY <2>1, <2>2
<1>6. CASE here
  <2>1. PICK x \in Int : /\ in.remaining[c] = Forecasts!Larger(0, x)
                         /\ more.remaining[c] = Forecasts!Larger(0, x + a)
    BY <1>6 DEF Settled
  <2>2. /\ Forecasts!PlanOf(in, c, m) = in.remaining[c]
        /\ Forecasts!PlanOf(more, c, m) = more.remaining[c]
    BY <1>2, <1>6 DEF Forecasts!PlanOf
  <2> DEFINE t == Forecasts!FromRecords(in, c, m)
  <2>3. /\ Planned(in, c, m) = Forecasts!Larger(Forecasts!Larger(0, x), t)
        /\ Planned(more, c, m) = Forecasts!Larger(Forecasts!Larger(0, x + a), t + a)
    BY <1>5, <1>6, <2>1, <2>2 DEF Planned
  <2>4. t \in Nat
    BY <1>4
  <2> HIDE DEF t, a
  <2>5. Forecasts!Larger(Forecasts!Larger(0, x + a), t + a) = Forecasts!Larger(Forecasts!Larger(0, x), t) + a
    BY <1>2, <2>4 DEF Forecasts!Larger
  <2> QED BY <1>6, <2>3, <2>5 DEF a
<1>7. CASE ~here
  <2>1. Forecasts!PlanOf(more, c, m) = Forecasts!PlanOf(in, c, m)
    <3>1. c # Payments[p].category => more.remaining[c] = in.remaining[c]
      BY DEF Settled
    <3> QED BY <1>2, <1>7, <3>1 DEF Forecasts!PlanOf
  <2>2. Forecasts!FromRecords(more, c, m) = Forecasts!FromRecords(in, c, m)
    BY <1>5, <1>7
  <2>3. Planned(more, c, m) = Planned(in, c, m)
    BY <2>1, <2>2 DEF Planned
  <2> QED BY <1>7, <2>3
<1> QED BY <1>6, <1>7

LEMMA SettledSame ==
  ASSUME NEW in \in Reading, NEW more \in Reading, NEW p, Settled(in, more, p)
  PROVE  in.funds + Over(signedOf, Events(in)) = more.funds + Over(signedOf, Events(more))
<1> DEFINE m == Forecasts!MonthOf(Forecasts!Until(in))
           a == Payments[p].amount
           c == Payments[p].category
           e == RecordOf(more, p)
           K == PlannedUntil(in, m)
           h == plannedOf(in, m)
           g == plannedOf(more, m)
           at == <<c, Forecasts!MonthOf(in.day)>>
<1>1. /\ e \in Event /\ e.kind = "expense" /\ e.amount = a /\ e.category = c
      /\ e \notin Forecasts!RecordEvents(in)
      /\ Forecasts!RecordEvents(more) = Forecasts!RecordEvents(in) \cup {e}
  BY OneRecordMore
<1>2. /\ a \in Nat \ {0} /\ more.day = in.day /\ more.funds = in.funds + a
      /\ Forecasts!Until(more) = Forecasts!Until(in)
  BY ForecastTyped DEF Settled, Forecasts!Until
<1>3. /\ m = Forecasts!MonthOf(Forecasts!Until(in)) /\ m = Forecasts!MonthOf(Forecasts!Until(more))
      /\ m \in Forecasts!Months(in) /\ m \in Forecasts!Months(more)
      /\ Events(in) = UntilMonth(in, m) /\ Events(more) = UntilMonth(more, m)
  BY <1>2, AllIs
<1> HIDE DEF m
<1>4. /\ Over(signedOf, Events(in)) = Over(amountOf, Income(in, m))
         - Over(amountOf, Outside(in, m)) - Over(h, K)
      /\ Over(amountOf, Income(in, m)) \in Nat /\ Over(amountOf, Outside(in, m)) \in Nat /\ Over(h, K) \in Nat
      /\ Outside(in, m) \in SUBSET Event
  BY <1>3, TakesAndPays
<1>5. PlannedUntil(more, m) = K
  BY <1>2 DEF PlannedUntil
<1>6. /\ Over(signedOf, Events(more)) = Over(amountOf, Income(more, m))
         - Over(amountOf, Outside(more, m)) - Over(g, K)
      /\ Over(amountOf, Outside(more, m)) \in Nat /\ Over(g, K) \in Nat
      /\ Outside(more, m) \in SUBSET Event
  BY <1>3, <1>5, TakesAndPays
<1>7. Income(more, m) = Income(in, m)
  <2>1. /\ \A f \in Forecasts!PlanEvents(in) : f.kind = "expense"
        /\ \A f \in Forecasts!PlanEvents(more) : f.kind = "expense"
    BY LeftAre
  <2>2. /\ Income(in, m) = {f \in Events(in) : f.kind = "income"}
        /\ Income(more, m) = {f \in Events(more) : f.kind = "income"}
    BY <1>3 DEF Income
  <2> HIDE DEF e
  <2> QED BY <1>1, <2>1, <2>2 DEF Events
<1>8. Outside(more, m) = IF c \in Categories THEN Outside(in, m) ELSE Outside(in, m) \cup {e}
  <2>1. /\ \A f \in Forecasts!PlanEvents(in) : f.category \in Categories
        /\ \A f \in Forecasts!PlanEvents(more) : f.category \in Categories
    BY LeftAre
  <2>2. /\ Outside(in, m) = {f \in Events(in) : f.kind = "expense" /\ f.category \notin Categories}
        /\ Outside(more, m) = {f \in Events(more) : f.kind = "expense" /\ f.category \notin Categories}
    BY <1>3 DEF Outside
  <2> HIDE DEF e, c
  <2> QED BY <1>1, <2>1, <2>2 DEF Events
<1>9. e \notin Outside(in, m)
  <2>1. \A f \in Forecasts!PlanEvents(in) : f.of \in Categories
    BY LeftAre
  <2>2. e.of = p /\ p \in DOMAIN Payments
    BY DEF RecordOf, Settled
  <2>3. e \notin Forecasts!PlanEvents(in)
    BY <2>1, <2>2, ForecastTyped
  <2> HIDE DEF e
  <2> QED BY <1>1, <1>3, <2>3 DEF Events, Outside
<1>10. /\ \A q \in K : h[q] = Planned(in, q[1], q[2]) /\ g[q] = Planned(more, q[1], q[2])
       /\ IsFiniteSet(K) /\ Whole(h, K) /\ Whole(g, K)
  <2>1. \A q \in K : h[q] = Planned(in, q[1], q[2]) /\ g[q] = Planned(more, q[1], q[2])
    BY <1>5 DEF plannedOf
  <2>2. \A q \in K : q[1] \in Categories
    BY DEF PlannedUntil
  <2>3. IsFiniteSet(K)
    <3>1. Forecasts!MonthOf(in.day) \in Int /\ m \in Int
      BY <1>3, MonthsAre
    <3>2. IsFiniteSet(Forecasts!MonthOf(in.day)..m)
      BY <3>1, FS_Interval
    <3> QED BY <3>2, ForecastTyped, FS_Product DEF PlannedUntil
  <2>4. \A q \in K : Planned(in, q[1], q[2]) \in Nat /\ Planned(more, q[1], q[2]) \in Nat
    <3> HIDE DEF K
    <3> QED BY <2>2, UncoveredIs
  <2>5. Whole(h, K) /\ Whole(g, K)
    <3> HIDE DEF h, g, K
    <3> QED BY <2>1, <2>4 DEF Whole
  <2> QED BY <2>1, <2>3, <2>5
<1>11. \A q \in K : g[q] = IF q = at THEN h[q] + a ELSE h[q]
  <2> SUFFICES ASSUME NEW q \in K PROVE g[q] = IF q = at THEN h[q] + a ELSE h[q]
    OBVIOUS
  <2>1. q[1] \in Categories /\ q = <<q[1], q[2]>>
    BY DEF PlannedUntil
  <2>2. q = at <=> q[1] = c /\ q[2] = Forecasts!MonthOf(in.day)
    BY <2>1
  <2>3. Planned(more, q[1], q[2]) = IF q[1] = c /\ q[2] = Forecasts!MonthOf(in.day)
                                    THEN Planned(in, q[1], q[2]) + a ELSE Planned(in, q[1], q[2])
    BY <2>1, PlannedMore
  <2> HIDE DEF h, g, K, at, a, c
  <2> QED BY <1>10, <2>2, <2>3
<1>12. c \in Categories => at \in K
  <2>1. Forecasts!MonthOf(in.day) \in Nat /\ m \in Nat /\ Forecasts!MonthOf(in.day) <= m
    BY <1>3, MonthsAre
  <2> QED BY <2>1 DEF PlannedUntil
<1>13. c \notin Categories => at \notin K
  BY DEF PlannedUntil
<1>14. in.funds \in Int
  BY ReadingIs
<1>15. CASE c \in Categories
  <2> HIDE DEF K, h, g, at, a, c
  <2>1. h[at] \in Int /\ g[at] = h[at] + a
    BY <1>10, <1>11, <1>12, <1>15 DEF Whole
  <2>2. Over(h, K) = h[at] + Over(h, K \ {at}) /\ Over(g, K) = g[at] + Over(g, K \ {at})
    BY <1>10, <1>12, <1>15, OverPut
  <2>3. Over(g, K \ {at}) = Over(h, K \ {at})
    <3>1. \A q \in K \ {at} : g[q] = h[q]
      BY <1>11
    <3> QED BY <3>1, OverSame
  <2>4. Over(h, K \ {at}) \in Int
    <3>1. K \ {at} \in SUBSET K
      OBVIOUS
    <3> QED BY <1>10, <3>1, WholeSubset
  <2>5. Over(g, K) = Over(h, K) + a
    BY <1>2, <2>1, <2>2, <2>3, <2>4
  <2>6. Outside(more, m) = Outside(in, m)
    BY <1>8, <1>15
  <2>7. \A x, y, z, w, v \in Int : x + (y - z - w) = (x + v) + (y - z - (w + v))
    OBVIOUS
  <2> QED BY <1>2, <1>4, <1>6, <1>7, <1>14, <2>5, <2>6, <2>7
<1>16. CASE c \notin Categories
  <2>1. Outside(more, m) = Outside(in, m) \cup {e}
    BY <1>8, <1>16
  <2> HIDE DEF K, h, g, at, a, c, e
  <2>2. e \in Outside(more, m) /\ Outside(more, m) \ {e} = Outside(in, m)
    BY <1>9, <2>1
  <2>3. IsFiniteSet(Outside(more, m)) /\ amountOf[e] = a
    <3>1. UntilMonth(more, m) \in SUBSET Event /\ IsFiniteSet(UntilMonth(more, m))
      BY ClosingIs
    <3>2. Outside(more, m) \in SUBSET UntilMonth(more, m)
      BY DEF Outside
    <3> QED BY <1>1, <1>6, <2>2, <3>1, <3>2, FS_Subset, AmountsWhole
  <2>4. Over(amountOf, Outside(more, m)) = a + Over(amountOf, Outside(in, m))
    <3>1. Whole(amountOf, Outside(more, m))
      BY <1>6, AmountsWhole
    <3>2. Over(amountOf, Outside(more, m)) = amountOf[e] + Over(amountOf, Outside(more, m) \ {e})
      BY <2>2, <2>3, <3>1, OverPut
    <3> QED BY <2>2, <2>3, <3>2
  <2>5. Over(g, K) = Over(h, K)
    <3>1. \A q \in K : g[q] = h[q]
      BY <1>11, <1>13, <1>16
    <3> QED BY <3>1, OverSame
  <2>6. \A x, y, z, w, v \in Int : x + (y - z - w) = (x + v) + (y - (v + z) - w)
    OBVIOUS
  <2> QED BY <1>2, <1>4, <1>6, <1>7, <1>14, <2>4, <2>5, <2>6
<1> QED BY <1>15, <1>16

-----------------------------------------------------------------------------
(* What the forecast reads is of its type, whatever the owner and the bank   *)
(* do.                                                                       *)
ForecastInv ==
  /\ forecastDay \in Forecasts!Days
  /\ expected \in [DOMAIN Payments -> Forecasts!Expectation \cup {None}]
  /\ booked \in [DOMAIN Payments -> Forecasts!Days \cup {None}]
  /\ known \subseteq DOMAIN Held /\ counting \subseteq DOMAIN Held

LEMMA ExpectationChanges ==
  ASSUME NEW x \in Forecasts!Expectation
  PROVE  /\ [x EXCEPT !.suggested = FALSE] \in Forecasts!Expectation
         /\ \A due \in Forecasts!Days : [x EXCEPT !.due = due] \in Forecasts!Expectation
         /\ \A state \in {"open", "dismissed", "matched"} :
              [x EXCEPT !.state = state] \in Forecasts!Expectation
BY DEF Forecasts!Expectation

LEMMA ForecastBegins == MCInit => ForecastInv
<1> SUFFICES ASSUME MCInit PROVE ForecastInv
  OBVIOUS
<1>1. Forecasts!Init
  BY DEF MCInit
<1>2. 1 \in Forecasts!Days
  BY ForecastTyped DEF Forecasts!Days
<1> QED BY <1>1, <1>2 DEF ForecastInv, Forecasts!Init, Forecasts!Ids, Forecasts!Accounts

LEMMA DecideChanges ==
  ASSUME ForecastInv, NEW p \in Forecasts!Ids, Forecasts!Decide(p)
  PROVE  expected' \in [DOMAIN Payments -> Forecasts!Expectation \cup {None}]
<1>1. expected \in [DOMAIN Payments -> Forecasts!Expectation \cup {None}] /\ p \in DOMAIN Payments
  BY DEF ForecastInv, Forecasts!Ids
<1>2. expected[p] \in Forecasts!Expectation
  BY <1>1 DEF Forecasts!Decide
<1>3. \E x \in Forecasts!Expectation : expected' = [expected EXCEPT ![p] = x]
  <2>1. CASE expected' = [expected EXCEPT ![p].suggested = FALSE]
    <3>2. expected' = [expected EXCEPT ![p] = [expected[p] EXCEPT !.suggested = FALSE]]
      BY <2>1
    <3>3. PICK x : x = [expected[p] EXCEPT !.suggested = FALSE]
      OBVIOUS
    <3>4. x \in Forecasts!Expectation
      BY <1>2, <3>3, ExpectationChanges
    <3> QED BY <3>2, <3>3, <3>4
  <2>2. ASSUME NEW due \in forecastDay..FarDay, expected' = [expected EXCEPT ![p].due = due]
        PROVE  \E x \in Forecasts!Expectation : expected' = [expected EXCEPT ![p] = x]
    <3>1. due \in Forecasts!Days
      BY ForecastTyped DEF ForecastInv, Forecasts!Days
    <3>2. expected' = [expected EXCEPT ![p] = [expected[p] EXCEPT !.due = due]]
      BY <2>2
    <3>3. PICK x : x = [expected[p] EXCEPT !.due = due]
      OBVIOUS
    <3>4. x \in Forecasts!Expectation
      BY <1>2, <3>1, <3>3, ExpectationChanges
    <3> QED BY <3>2, <3>3, <3>4
  <2>3. ASSUME NEW s \in {"open", "dismissed"}, expected' = [expected EXCEPT ![p].state = s]
        PROVE  \E x \in Forecasts!Expectation : expected' = [expected EXCEPT ![p] = x]
    <3>2. expected' = [expected EXCEPT ![p] = [expected[p] EXCEPT !.state = s]]
      BY <2>3
    <3>3. PICK x : x = [expected[p] EXCEPT !.state = s]
      OBVIOUS
    <3>4. x \in Forecasts!Expectation
      BY <1>2, <3>3, ExpectationChanges
    <3> QED BY <3>2, <3>3, <3>4
  <2> QED BY <2>1, <2>2, <2>3 DEF Forecasts!Decide
<1> QED BY <1>1, <1>3

LEMMA ForecastGoesOn ==
  ASSUME ForecastInv, Forecasts!Next
  PROVE  ForecastInv'
<1>1. CASE Forecasts!NextDay
  <2>1. forecastDay' \in Forecasts!Days
    BY <1>1, ForecastTyped DEF ForecastInv, Forecasts!NextDay, Forecasts!Days
  <2> QED BY <1>1, <2>1 DEF ForecastInv, Forecasts!NextDay
<1>2. ASSUME NEW p \in Forecasts!Ids, NEW suggested \in BOOLEAN, Forecasts!Expect(p, suggested)
      PROVE  ForecastInv'
  <2>1. p \in DOMAIN Payments /\ Payments[p].due \in Forecasts!Days
    BY ForecastTyped DEF Forecasts!Ids, Forecasts!Days
  <2>2. [due |-> Payments[p].due, suggested |-> suggested, state |-> "open"] \in Forecasts!Expectation
    BY <2>1 DEF Forecasts!Expectation
  <2> QED BY <1>2, <2>1, <2>2 DEF ForecastInv, Forecasts!Expect
<1>3. ASSUME NEW p \in Forecasts!Ids, Forecasts!Decide(p) PROVE ForecastInv'
  <2>1. expected' \in [DOMAIN Payments -> Forecasts!Expectation \cup {None}]
    BY <1>3, DecideChanges
  <2> QED BY <1>3, <2>1 DEF ForecastInv, Forecasts!Decide
<1>4. ASSUME NEW account \in Forecasts!Accounts, Forecasts!Anchor(account) PROVE ForecastInv'
  BY <1>4 DEF ForecastInv, Forecasts!Anchor, Forecasts!Accounts
<1>5. ASSUME NEW q, NEW p \in Forecasts!Ids, NEW day \in Forecasts!Days, Forecasts!Import(q, p, day)
      PROVE  ForecastInv'
  BY <1>5 DEF ForecastInv, Forecasts!Import, Forecasts!Ids
<1>6. ASSUME NEW q, Forecasts!Match(q) PROVE ForecastInv'
  <2>1. ASSUME NEW p \in DOMAIN Payments
        PROVE  (IF p \in Forecasts!Paid /\ expected[p] # None /\ expected[p].state = "open"
                THEN [expected[p] EXCEPT !.state = "matched"] ELSE expected[p])
                 \in Forecasts!Expectation \cup {None}
    <3>1. expected[p] \in Forecasts!Expectation \cup {None}
      BY DEF ForecastInv
    <3>2. expected[p] # None => [expected[p] EXCEPT !.state = "matched"] \in Forecasts!Expectation
      <4> SUFFICES ASSUME expected[p] # None
                   PROVE  [expected[p] EXCEPT !.state = "matched"] \in Forecasts!Expectation
        OBVIOUS
      <4>1. expected[p] \in Forecasts!Expectation
        BY <3>1
      <4> QED BY <4>1, ExpectationChanges DEF ForecastInv
    <3> QED BY <3>1, <3>2
  <2> QED BY <1>6, <2>1 DEF ForecastInv, Forecasts!Match, Forecasts!Ids
<1>7. ASSUME NEW q, (\E for \in {"forecast", "today"} : Forecasts!Ask(q, for))
                     \/ Forecasts!ReadPlan(q) \/ Forecasts!Answer(q)
      PROVE  ForecastInv'
  BY <1>7 DEF ForecastInv, Forecasts!Ask, Forecasts!ReadPlan, Forecasts!Answer
<1> QED BY <1>1, <1>2, <1>3, <1>4, <1>5, <1>6, <1>7 DEF Forecasts!Next

LEMMA ForecastInvariant == MCSpec => []ForecastInv
<1>1. ASSUME ForecastInv, [MCNext]_<<vars, forecastVars, part>> PROVE ForecastInv'
  <2>1. CASE Forecasts!Next
    BY <1>1, <2>1, ForecastGoesOn
  <2>2. CASE UNCHANGED forecastVars
    BY <1>1, <2>2 DEF ForecastInv, forecastVars
  <2> QED BY <1>1, <2>1, <2>2 DEF MCNext
<1> QED BY <1>1, ForecastBegins, PTL DEF MCSpec

(* The balances, and what remains of the plan, are numbers.                  *)
signedPayment == [p \in DOMAIN Payments |-> Forecasts!Signed(p)]
amountPayment == [p \in DOMAIN Payments |-> Forecasts!Amount(p)]

LEMMA PaymentsWhole ==
  ASSUME NEW S \in SUBSET DOMAIN Payments
  PROVE  /\ IsFiniteSet(S)
         /\ Forecasts!SumFunction([p \in S |-> Forecasts!Signed(p)]) \in Int
         /\ Forecasts!SumFunction([p \in S |-> Forecasts!Amount(p)]) \in Int
<1>1. IsFiniteSet(S)
  BY ForecastTyped, FS_Subset
<1>2. \A p \in S : Forecasts!Signed(p) \in Int /\ Forecasts!Amount(p) \in Int
  BY ForecastTyped DEF Forecasts!Signed, Forecasts!Amount
<1>3. Whole(signedPayment, S) /\ Whole(amountPayment, S)
  BY <1>2 DEF Whole, signedPayment, amountPayment
<1>4. Over(signedPayment, S) \in Int /\ Over(amountPayment, S) \in Int
  BY <1>1, <1>3, OverFirst
<1>5. [p \in S |-> Forecasts!Signed(p)] = [p \in S |-> signedPayment[p]]
  BY DEF signedPayment
<1>6. [p \in S |-> Forecasts!Amount(p)] = [p \in S |-> amountPayment[p]]
  BY DEF amountPayment
<1> QED BY <1>1, <1>4, <1>5, <1>6 DEF Over

balanceOf == [a \in DOMAIN Held |-> Forecasts!Balance(a)]

LEMMA SpentIs ==
  ASSUME NEW c, NEW m
  PROVE  Forecasts!Spent(c, m) \in Int
<1> DEFINE S == {p \in Forecasts!Paid : /\ Payments[p].kind = "expense" /\ Payments[p].category = c
                                        /\ Forecasts!MonthOf(booked[p]) = m}
<1>1. S \in SUBSET DOMAIN Payments
  BY DEF Forecasts!Paid, Forecasts!Ids
<1>2. Forecasts!Spent(c, m) = Forecasts!SumFunction([p \in S |-> Forecasts!Amount(p)])
  BY DEF Forecasts!Spent, Forecasts!Sum
<1> HIDE DEF S
<1> QED BY <1>1, <1>2, PaymentsWhole

LEMMA FundsAre ==
  ASSUME ForecastInv
  PROVE  /\ Forecasts!AvailableFunds \in Int \cup {None}
         /\ Forecasts!AvailableFunds # None <=> counting \subseteq known
<1>1. ASSUME NEW a \in DOMAIN Held PROVE Forecasts!Balance(a) \in Int
  <2> DEFINE S == {p \in Forecasts!Paid : Payments[p].account = a}
  <2>1. S \in SUBSET DOMAIN Payments
    BY DEF Forecasts!Paid, Forecasts!Ids
  <2>2. Forecasts!Balance(a) = Held[a] + Forecasts!SumFunction([p \in S |-> Forecasts!Signed(p)])
    BY DEF Forecasts!Balance, Forecasts!Sum
  <2> HIDE DEF S
  <2>3. Forecasts!SumFunction([p \in S |-> Forecasts!Signed(p)]) \in Int
    BY <2>1, PaymentsWhole
  <2> QED BY <2>2, <2>3, ForecastTyped
<1>2. Forecasts!SumFunction([a \in counting |-> Forecasts!Balance(a)]) \in Int
  <2>1. counting \in SUBSET DOMAIN Held /\ IsFiniteSet(counting)
    BY ForecastTyped, FS_Subset DEF ForecastInv
  <2>2. Whole(balanceOf, counting)
    BY <1>1, <2>1 DEF Whole, balanceOf
  <2>3. Over(balanceOf, counting) \in Int
    BY <2>1, <2>2, OverFirst
  <2>4. [a \in counting |-> Forecasts!Balance(a)] = [a \in counting |-> balanceOf[a]]
    BY <2>1 DEF balanceOf
  <2> QED BY <2>3, <2>4 DEF Over
<1>3. Forecasts!AvailableFunds = IF counting \subseteq known
        THEN Forecasts!SumFunction([a \in counting |-> Forecasts!Balance(a)]) ELSE None
  BY DEF Forecasts!AvailableFunds, Forecasts!Sum
<1> QED BY <1>2, <1>3, ForecastTyped

LEMMA NowIs ==
  ASSUME ForecastInv
  PROVE  /\ Forecasts!Now.day = forecastDay /\ Forecasts!Now.funds = Forecasts!AvailableFunds
         /\ Forecasts!Now.expected = expected /\ Forecasts!Now.remaining = Forecasts!Remaining
         /\ Forecasts!Remaining \in [Categories -> Int]
         /\ Forecasts!AvailableFunds # None => Forecasts!Now \in Reading
<1>1. /\ Forecasts!Now.day = forecastDay /\ Forecasts!Now.funds = Forecasts!AvailableFunds
      /\ Forecasts!Now.expected = expected /\ Forecasts!Now.remaining = Forecasts!Remaining
  BY DEF Forecasts!Now
<1>2. Forecasts!Remaining \in [Categories -> Int]
  <2>1. \A c \in Categories : PlanCents[c] \in Int
    BY ForecastTyped
  <2> QED BY <2>1, SpentIs DEF Forecasts!Remaining, Forecasts!Larger
<1>3. Forecasts!AvailableFunds # None => Forecasts!Now \in Reading
  BY <1>2, FundsAre DEF ForecastInv, Reading, Forecasts!Now
<1> QED BY <1>1, <1>2, <1>3

LEMMA ForecastIs ==
  ASSUME NEW in \in Reading
  PROVE  /\ Forecasts!Forecast(in).lowest = Forecasts!Lowest(in, Events(in))
         /\ Forecasts!Forecast(in).closing = Position(in, Events(in))
         /\ \A m \in Forecasts!Months(in) : Forecasts!Forecast(in).months[m] = Position(in, UntilMonth(in, m))
<1>1. in.funds # None
  BY ReadingIs, ForecastTyped
<1>2. Forecasts!Forecast(in) =
        [lowest |-> Forecasts!Lowest(in, Events(in)),
         closing |-> in.funds + Forecasts!SumFunction([e \in Events(in) |-> IF e.kind = "income" THEN e.amount
                                                                           ELSE -e.amount]),
         months |-> [m \in Forecasts!Months(in) |-> Forecasts!Closing(in, Events(in), m)]]
  BY <1>1 DEF Forecasts!Forecast, Events, Forecasts!Sum, Forecasts!SignedOf
<1>3. Forecasts!SumFunction([e \in Events(in) |-> IF e.kind = "income" THEN e.amount ELSE -e.amount])
        = Over(signedOf, Events(in))
  <2>1. Events(in) \in SUBSET Event
    BY EventsOrdered
  <2> QED BY <2>1, AmountsAre
<1>4. \A m \in Forecasts!Months(in) : Forecasts!Closing(in, Events(in), m) = Position(in, UntilMonth(in, m))
  BY MonthsAre, ClosingIs
<1> QED BY <1>2, <1>3, <1>4 DEF Position

LEMMA LowestHolds ==
  ASSUME ForecastInv
  PROVE  Forecasts!LowestTrue
<1> SUFFICES ASSUME Forecasts!AvailableFunds # None PROVE Forecasts!LowestTrue
  BY DEF Forecasts!LowestTrue
<1> DEFINE in == Forecasts!Now
           low == Forecasts!Forecast(in).lowest
           ins == Forecasts!Income
           outs == Forecasts!Expenses \cup Forecasts!PlanEvents(in)
           worst(day) == Forecasts!AvailableFunds
             + Forecasts!SumFunction([e \in {e \in ins : e.on < day} |-> e.amount])
             - Forecasts!SumFunction([e \in {e \in outs : e.on <= day} |-> e.amount])
<1>1. in \in Reading /\ in.day = forecastDay /\ in.funds = Forecasts!AvailableFunds
  BY NowIs
<1>2. low = Forecasts!Lowest(in, Events(in))
  BY <1>1, ForecastIs
<1>3. forecastDay \in Int /\ Forecasts!Until(in) \in Int
  BY <1>1, ReadingIs
<1>4. /\ ins = {e \in Forecasts!RecordEvents(in) : e.kind = "income"}
      /\ outs = (Forecasts!RecordEvents(in) \ ins) \cup Forecasts!PlanEvents(in)
  BY DEF Forecasts!Income, Forecasts!Expenses
<1>5. Forecasts!LowestTrue <=>
        /\ \A day \in forecastDay..Forecasts!Until(in) : worst(day) >= low.cents
        /\ \/ low.cents = Forecasts!AvailableFunds /\ low.on = forecastDay
           \/ low.cents < Forecasts!AvailableFunds /\ worst(low.on) = low.cents
        /\ \A day \in forecastDay..low.on - 1 : worst(day) > low.cents
  BY DEF Forecasts!LowestTrue, Forecasts!Sum, Forecasts!AmountOf
<1> HIDE DEF in, low, ins, outs
<1>6. ASSUME NEW day \in Int PROVE worst(day) = Position(in, WorstOf(in, day))
  <2>1. in.funds + Forecasts!SumFunction([e \in {e \in ins : e.on < day} |-> e.amount])
                 - Forecasts!SumFunction([e \in {e \in outs : e.on <= day} |-> e.amount])
          = Position(in, WorstOf(in, day))
    BY <1>1, <1>4, WorstIs
  <2> QED BY <1>1, <2>1
<1> HIDE DEF worst
<1>7. /\ low.cents \in Int /\ low.on \in Int
      /\ \A day \in Int : Position(in, WorstOf(in, day)) >= low.cents
      /\ \/ low.cents = in.funds /\ low.on = in.day
         \/ /\ low.cents < in.funds /\ Position(in, WorstOf(in, low.on)) = low.cents
            /\ \A day \in Int : day < low.on => Position(in, WorstOf(in, day)) > low.cents
  BY <1>1, <1>2, LowestReached
<1>8. \A day \in forecastDay..Forecasts!Until(in) : worst(day) >= low.cents
  BY <1>3, <1>6, <1>7
<1>9. CASE low.cents = in.funds /\ low.on = in.day
  <2>1. forecastDay..low.on - 1 = {}
    BY <1>1, <1>3, <1>9
  <2> QED BY <1>1, <1>5, <1>8, <1>9, <2>1
<1>10. CASE /\ low.cents < in.funds /\ Position(in, WorstOf(in, low.on)) = low.cents
            /\ \A day \in Int : day < low.on => Position(in, WorstOf(in, day)) > low.cents
  <2>1. worst(low.on) = low.cents
    BY <1>6, <1>7, <1>10
  <2>2. \A day \in forecastDay..low.on - 1 : worst(day) > low.cents
    BY <1>3, <1>6, <1>7, <1>10
  <2> QED BY <1>1, <1>5, <1>8, <1>10, <2>1, <2>2
<1> QED BY <1>7, <1>9, <1>10

LEMMA ClosingsHold ==
  ASSUME ForecastInv
  PROVE  Forecasts!ClosingsTrue
<1> DEFINE in == Forecasts!Now
           records == Forecasts!RecordEvents(in)
           ins(m) == {e \in Forecasts!Income : Forecasts!MonthOf(e.on) <= m}
           outs(m) == {e \in {e \in Forecasts!Expenses : e.category \notin Categories} :
                         Forecasts!MonthOf(e.on) <= m}
           all(m) == [q \in Categories \X (Forecasts!MonthOf(forecastDay)..m) |->
                        Forecasts!Larger(Forecasts!PlanOf(in, q[1], q[2]),
                                         Forecasts!FromRecords(in, q[1], q[2]))]
<1>1. Forecasts!ClosingsTrue <=>
        \A m \in Forecasts!Months(in) : Forecasts!Forecast(in).months[m] =
          IF counting \subseteq known
          THEN Forecasts!AvailableFunds + Forecasts!SumFunction([e \in ins(m) |-> e.amount])
               - Forecasts!SumFunction([e \in outs(m) |-> e.amount]) - Forecasts!SumFunction(all(m))
          ELSE None
  BY DEF Forecasts!ClosingsTrue, Forecasts!Sum, Forecasts!AmountOf
<1> SUFFICES ASSUME NEW m \in Forecasts!Months(in)
             PROVE  Forecasts!Forecast(in).months[m] =
                      IF counting \subseteq known
                      THEN Forecasts!AvailableFunds + Forecasts!SumFunction([e \in ins(m) |-> e.amount])
                           - Forecasts!SumFunction([e \in outs(m) |-> e.amount])
                           - Forecasts!SumFunction(all(m))
                      ELSE None
  BY <1>1
<1>2. CASE ~(counting \subseteq known)
  <2>1. in.funds = None
    BY <1>2, NowIs, FundsAre
  <2>2. Forecasts!Forecast(in).months = [l \in Forecasts!Months(in) |-> None]
    <3> HIDE DEF in
    <3> QED BY <2>1 DEF Forecasts!Forecast
  <2> QED BY <1>2, <2>2
<1>3. CASE counting \subseteq known
  <2>1. in \in Reading /\ in.day = forecastDay /\ in.funds = Forecasts!AvailableFunds
    BY <1>3, NowIs, FundsAre
  <2>2. Forecasts!Forecast(in).months[m] = in.funds + Over(signedOf, UntilMonth(in, m))
    BY <2>1, ForecastIs DEF Position
  <2>3. /\ Over(signedOf, UntilMonth(in, m)) = Over(amountOf, Income(in, m)) - Over(amountOf, Outside(in, m))
                                               - Over(plannedOf(in, m), PlannedUntil(in, m))
        /\ Over(amountOf, Income(in, m)) \in Nat /\ Over(amountOf, Outside(in, m)) \in Nat
        /\ Over(plannedOf(in, m), PlannedUntil(in, m)) \in Nat
        /\ Income(in, m) \in SUBSET Event /\ Outside(in, m) \in SUBSET Event
    BY <2>1, TakesAndPays
  <2>4. /\ \A e \in Forecasts!PlanEvents(in) : e.kind = "expense" /\ e.category \in Categories
        /\ \A e \in records : e.kind \in {"expense", "income"}
    <3> HIDE DEF in
    <3>1. \A e \in Forecasts!PlanEvents(in) :
            e.kind = "expense" /\ e.of \in Categories /\ e.category = e.of
      BY <2>1, LeftAre
    <3>2. records \subseteq Event
      BY <2>1, RecordsAre
    <3> HIDE DEF records
    <3>3. \A e \in records : e.kind \in {"expense", "income"}
      BY <3>2 DEF Event
    <3> QED BY <3>1, <3>3
  <2>5. /\ Forecasts!Income = {e \in records : e.kind = "income"}
        /\ Forecasts!Expenses = records \ Forecasts!Income
    BY DEF Forecasts!Income, Forecasts!Expenses
  <2>6. ins(m) = Income(in, m)
    <3> HIDE DEF in
    <3> QED BY <2>4, <2>5 DEF Income, UntilMonth, Events
  <2>7. outs(m) = Outside(in, m)
    <3> HIDE DEF in
    <3> QED BY <2>4, <2>5 DEF Outside, UntilMonth, Events
  <2>8. /\ Forecasts!SumFunction([e \in ins(m) |-> e.amount]) = Over(amountOf, Income(in, m))
        /\ Forecasts!SumFunction([e \in outs(m) |-> e.amount]) = Over(amountOf, Outside(in, m))
    <3> HIDE DEF in, ins, outs
    <3> QED BY <2>3, <2>6, <2>7, AmountsAre
  <2>9. Forecasts!SumFunction(all(m)) = Over(plannedOf(in, m), PlannedUntil(in, m))
    <3>1. all(m) = [q \in PlannedUntil(in, m) |-> plannedOf(in, m)[q]]
      BY <2>1 DEF plannedOf, PlannedUntil, Planned
    <3> QED BY <3>1 DEF Over
  <2>10. in.funds \in Int
    BY <2>1, ReadingIs
  <2>11. \A a \in Int, b, c, d \in Nat : a + (b - c - d) = a + b - c - d
    OBVIOUS
  <2> HIDE DEF in, ins, outs, all
  <2> QED BY <1>3, <2>1, <2>2, <2>3, <2>8, <2>9, <2>10, <2>11
<1> QED BY <1>2, <1>3

LEMMA SpentHolds ==
  ASSUME ForecastInv
  PROVE  Forecasts!SpentOnce
<1> SUFFICES ASSUME Forecasts!AvailableFunds # None, NEW p \in Forecasts!Paid,
                    Payments[p].kind = "expense", Payments[p].account \in counting,
                    expected[p] # None, expected[p].state = "matched",
                    Forecasts!MonthOf(booked[p]) = Forecasts!MonthOf(forecastDay),
                    Forecasts!MonthOf(expected[p].due) <= Forecasts!MonthOf(forecastDay),
                    NEW c, c = Payments[p].category,
                    NEW else, else = Forecasts!Spent(c, Forecasts!MonthOf(forecastDay)) - Forecasts!Amount(p),
                    NEW more, more =
                      [day |-> forecastDay, funds |-> Forecasts!AvailableFunds + Forecasts!Amount(p),
                       expected |-> [expected EXCEPT ![p] = [expected[p] EXCEPT !.state = "open"]],
                       remaining |-> [d \in Categories |->
                                        IF d = c THEN Forecasts!Larger(0, PlanCents[c] - else)
                                        ELSE Forecasts!Remaining[d]]]
             PROVE  Forecasts!Forecast(more).closing = Forecasts!Forecast(Forecasts!Now).closing
  BY DEF Forecasts!SpentOnce
<1> DEFINE in == Forecasts!Now
           a == Payments[p].amount
           spent == Forecasts!Spent(c, Forecasts!MonthOf(forecastDay))
<1>1. /\ in \in Reading /\ in.day = forecastDay /\ in.funds = Forecasts!AvailableFunds
      /\ in.expected = expected /\ in.remaining = Forecasts!Remaining
      /\ Forecasts!Remaining \in [Categories -> Int] /\ Forecasts!AvailableFunds \in Int
  BY NowIs, FundsAre
<1>2. p \in DOMAIN Payments /\ a \in Nat \ {0} /\ spent \in Int /\ else = spent - a
  BY ForecastTyped, SpentIs DEF Forecasts!Paid, Forecasts!Ids, Forecasts!Amount
<1>3. /\ more.day = forecastDay /\ more.funds = in.funds + a
      /\ more.expected = [expected EXCEPT ![p] = [expected[p] EXCEPT !.state = "open"]]
      /\ more.remaining = [d \in Categories |-> IF d = c THEN Forecasts!Larger(0, PlanCents[c] - else)
                                                ELSE Forecasts!Remaining[d]]
  BY <1>1 DEF Forecasts!Amount
<1>4. PICK x : x = [expected[p] EXCEPT !.state = "open"]
  OBVIOUS
<1>5. /\ expected \in [DOMAIN Payments -> Forecasts!Expectation \cup {None}]
      /\ expected[p] \in Forecasts!Expectation
  BY <1>2 DEF ForecastInv
<1>6. x \in Forecasts!Expectation /\ x.due = expected[p].due /\ x.state = "open"
  <2>1. x \in Forecasts!Expectation
    BY <1>4, <1>5, ExpectationChanges
  <2> QED BY <1>4, <1>5, <2>1 DEF Forecasts!Expectation
<1>7. /\ more.expected \in [DOMAIN Payments -> Forecasts!Expectation \cup {None}]
      /\ more.expected[p] = x /\ \A r \in DOMAIN Payments : r # p => more.expected[r] = expected[r]
  BY <1>2, <1>3, <1>4, <1>5, <1>6
<1>8. more.remaining \in [Categories -> Int]
  BY <1>1, <1>2, <1>3, ForecastTyped DEF Forecasts!Larger
<1>9. more \in Reading
  <2>1. /\ more.day \in Forecasts!Days /\ more.funds \in Int
    BY <1>1, <1>2, <1>3 DEF ForecastInv
  <2>2. more = [day |-> more.day, funds |-> more.funds, expected |-> more.expected,
                remaining |-> more.remaining]
    OBVIOUS
  <2> QED BY <1>7, <1>8, <2>1, <2>2 DEF Reading
<1>10. x # None
  BY <1>6, ForecastTyped
<1>11. c \in Categories =>
         /\ in.remaining[c] = Forecasts!Larger(0, PlanCents[c] - spent)
         /\ more.remaining[c] = Forecasts!Larger(0, (PlanCents[c] - spent) + a)
         /\ PlanCents[c] - spent \in Int
  <2> SUFFICES ASSUME c \in Categories
               PROVE  /\ in.remaining[c] = Forecasts!Larger(0, PlanCents[c] - spent)
                      /\ more.remaining[c] = Forecasts!Larger(0, (PlanCents[c] - spent) + a)
                      /\ PlanCents[c] - spent \in Int
    OBVIOUS
  <2>1. PlanCents[c] \in Int
    BY ForecastTyped
  <2>2. in.remaining[c] = Forecasts!Larger(0, PlanCents[c] - spent)
    BY <1>1 DEF Forecasts!Remaining
  <2>3. PlanCents[c] - else = (PlanCents[c] - spent) + a
    BY <1>2, <2>1
  <2> QED BY <1>2, <1>3, <2>1, <2>2, <2>3
<1>12. Settled(in, more, p)
  <2> HIDE DEF in, a, spent
  <2>1. \A d \in Categories : d # c => more.remaining[d] = in.remaining[d]
    BY <1>1, <1>3
  <2>2. c \in Categories =>
          \E y \in Int : /\ in.remaining[c] = Forecasts!Larger(0, y)
                         /\ more.remaining[c] = Forecasts!Larger(0, y + a)
    BY <1>11
  <2> QED BY <1>1, <1>2, <1>3, <1>6, <1>7, <1>10, <2>1, <2>2 DEF Settled, a
<1>13. in.funds + Over(signedOf, Events(in)) = more.funds + Over(signedOf, Events(more))
  BY <1>1, <1>9, <1>12, SettledSame
<1> HIDE DEF in
<1>14. /\ Forecasts!Forecast(in).closing = in.funds + Over(signedOf, Events(in))
       /\ Forecasts!Forecast(more).closing = more.funds + Over(signedOf, Events(more))
  BY <1>1, <1>9, ForecastIs DEF Position
<1> QED BY <1>13, <1>14 DEF in

(* Whatever is booked early, late or not at all, the lowest position shown   *)
(* is the lowest there can be, on the first day it can come to, and a month  *)
(* closes at what is taken in and paid until then (ayqComputeForecast).      *)
THEOREM LowestTrueHolds == MCSpec => []LowestTrue
<1>1. ForecastInv => LowestTrue
  BY LowestHolds, ClosingsHold DEF LowestTrue
<1> QED BY <1>1, ForecastInvariant, PTL

(* A payment counts once: the row that settles it takes from the balances    *)
(* and the plan what it took from the forecast while it was expected.        *)
THEOREM SpentOnceHolds == MCSpec => []SpentOnce
<1>1. ForecastInv => SpentOnce
  BY SpentHolds DEF SpentOnce
<1> QED BY <1>1, ForecastInvariant, PTL
=============================================================================
