----------------------------- MODULE ActualProofs -----------------------------
(* What Actual's synchronisation rests on, for any devices, cells and bounds. *)
(* Whatever is lost, stopped or changed in the middle of it, synchronising    *)
(* implements the replicas of ActualReplicas.  The timestamps it goes by are  *)
(* unique and causal, and no clock runs ahead of every wall clock, for any    *)
(* drift and any room for the counter.  And the tries by which two sides find *)
(* the time they differ from: each is the trie of what its side has, and from *)
(* the time they lead to something is always exchanged.                       *)
EXTENDS MCActual, FiniteSetTheorems, WellFoundedInduction, TLAPS

Reading == [millis : Nat, counter : Nat]
Change == [stamp : [millis : Nat, counter : Nat, node : Clients], cell : Cells]

Written == UNION {log[c] : c \in Clients}
Own(c) == {m \in log[c] : m.stamp.node = c}
InTransit(c) == IF call[c].at \in {"sent", "answered"} THEN call[c].messages ELSE {}

Typed ==
  /\ wall \in Nat
  /\ log \in [Clients -> SUBSET Change]
  /\ pending \in [Clients -> Change \cup {None}]
  /\ clock \in [Clients -> Reading] /\ saved \in [Clients -> Reading]
  /\ call = [c \in Clients |-> call[c]]
  /\ \A c \in Clients :
       /\ "at" \in DOMAIN call[c]
       /\ call[c].at \in {"sent", "answered"} => "messages" \in DOMAIN call[c]

Finite ==
  /\ \A c \in Clients : IsFiniteSet(log[c]) /\ IsFiniteSet(InTransit(c))
  /\ IsFiniteSet(server)

(* Nothing is anywhere that its maker has not applied.                       *)
Theirs ==
  /\ \A c \in Clients : \A m \in log[c] : m \in log[m.stamp.node]
  /\ server \subseteq Written
  /\ \A c \in Clients : InTransit(c) \subseteq Written

OwnOnce == \A c \in Clients : \A a, b \in Own(c) : a.stamp = b.stamp => a = b

(* The clock in the database covers what is applied, and what waits to be is  *)
(* past it.                                                                  *)
Covered == \A c \in Clients :
  /\ ~Ahead(saved[c], clock[c])
  /\ \A m \in Own(c) : ~Ahead(m.stamp, saved[c])
  /\ pending[c] # None =>
       /\ pending[c].stamp.node = c
       /\ ~Ahead(pending[c].stamp, clock[c])
       /\ \A m \in Own(c) : Ahead(pending[c].stamp, m.stamp)

TablesShow == table = [c \in Clients |-> Replicas!Shown(log[c])]

Inv == Typed /\ Finite /\ Theirs /\ OwnOnce /\ Covered /\ TablesShow

-----------------------------------------------------------------------------
(* Of timestamps, readings and batches.                                      *)
Stamps == [millis : Nat, counter : Nat, node : Nat]

(* Things that can be ordered by their timestamps.                           *)
Ordered(S) ==
  /\ IsFiniteSet(S)
  /\ \A m \in S : m.stamp \in Stamps
  /\ \A a, b \in S : a.stamp = b.stamp => a = b

LEMMA NewerIsAnOrder ==
  /\ \A s \in Stamps : ~Newer(s, s)
  /\ \A s, t \in Stamps : s = t \/ Newer(s, t) \/ Newer(t, s)
  /\ \A s, t \in Stamps : ~(Newer(s, t) /\ Newer(t, s))
  /\ \A s, t, u \in Stamps : Newer(s, t) /\ Newer(t, u) => Newer(s, u)
<1>1. \A s \in Stamps : s.millis \in Nat /\ s.counter \in Nat /\ s.node \in Nat
  BY DEF Stamps
<1>2. \A s, t \in Stamps :
        (s.millis = t.millis /\ s.counter = t.counter /\ s.node = t.node) => s = t
  BY DEF Stamps
<1>3. \A s, t \in Stamps : s = t \/ Newer(s, t) \/ Newer(t, s)
  BY <1>1, <1>2 DEF Newer, Ahead
<1> QED BY <1>1, <1>3 DEF Newer, Ahead

LEMMA OrderedSubset ==
  ASSUME NEW S, Ordered(S), NEW T \in SUBSET S
  PROVE  Ordered(T)
  BY FS_Subset DEF Ordered

(* One of a batch is the newest, and it is the only one.                     *)
LEMMA NewestIsThere ==
  ASSUME NEW S, Ordered(S), S # {}
  PROVE  /\ NewestIn(S) \in S
         /\ \A k \in S : k = NewestIn(S) \/ Newer(NewestIn(S).stamp, k.stamp)
<1> DEFINE After(b) == {c \in S : Newer(c.stamp, b.stamp)}
           T == {After(b) : b \in S}
<1>1. T \subseteq FiniteSubsetsOf(S) /\ T # {}
  <2>1. FiniteSubsetsOf(S) = SUBSET S
    BY FS_FiniteSubsetsOfFinite DEF Ordered
  <2>2. PICK b : b \in S
    OBVIOUS
  <2>3. After(b) \in T
    BY <2>2
  <2>4. T \subseteq SUBSET S
    OBVIOUS
  <2> QED BY <2>1, <2>3, <2>4
<1>2. IsWellFoundedOn(StrictSubsetOrdering(S), FiniteSubsetsOf(S))
  BY FS_StrictSubsetOrderingWellFounded
<1>3. PICK U \in T : \A V \in T : <<V, U>> \notin StrictSubsetOrdering(S)
  BY <1>1, <1>2, WFMin
<1>4. PICK b \in S : U = After(b)
  BY <1>3
<1>5. ASSUME NEW c \in S, Newer(c.stamp, b.stamp) PROVE FALSE
  <2>1. After(c) \in T /\ After(c) \subseteq U /\ c \in U /\ c \notin After(c)
    BY <1>4, <1>5, NewerIsAnOrder DEF Ordered
  <2>2. After(c) \in SUBSET S /\ U \in SUBSET S
    BY <1>4
  <2> QED BY <1>3, <2>1, <2>2 DEF StrictSubsetOrdering
<1>6. \A k \in S : k = b \/ Newer(b.stamp, k.stamp)
  BY <1>5, NewerIsAnOrder DEF Ordered
<1> QED BY <1>6 DEF NewestIn

LEMMA NewestIsOne ==
  ASSUME NEW S, Ordered(S), NEW m \in S,
         \A k \in S : k = m \/ Newer(m.stamp, k.stamp)
  PROVE  NewestIn(S) = m
<1>1. /\ NewestIn(S) \in S
      /\ m = NewestIn(S) \/ Newer(NewestIn(S).stamp, m.stamp)
  BY NewestIsThere
<1> QED BY <1>1, NewerIsAnOrder DEF Ordered

LEMMA SentMovesOn ==
  ASSUME NEW c \in Reading, NEW w \in Nat
  PROVE  Sent(c, w) \in Reading /\ Ahead(Sent(c, w), c)
  BY DEF Reading, Sent, Latest, Ahead

LEMMA ReceivedMovesOn ==
  ASSUME NEW c \in Reading, NEW w \in Nat, NEW s \in Stamps
  PROVE  Received(c, w, s) \in Reading /\ Ahead(Received(c, w, s), c)
<1> DEFINE l == Latest(Latest(c.millis, w), s.millis)
           mine == IF l = c.millis THEN c.counter + 1 ELSE 0
           theirs == IF l = s.millis THEN s.counter + 1 ELSE 0
<1>1. /\ c.millis \in Nat /\ c.counter \in Nat
      /\ s.millis \in Nat /\ s.counter \in Nat
  BY DEF Reading, Stamps
<1>2. l \in Nat /\ l >= c.millis
  BY <1>1 DEF Latest
<1>3. mine \in Nat /\ theirs \in Nat /\ (l = c.millis => mine = c.counter + 1)
  BY <1>1
<1>4. Received(c, w, s) = [millis |-> l, counter |-> Latest(mine, theirs)]
  BY DEF Received
<1> HIDE DEF l, mine, theirs
<1>5. Latest(mine, theirs) \in Nat /\ Latest(mine, theirs) >= mine
  BY <1>3 DEF Latest
<1>6. Received(c, w, s) \in Reading
  BY <1>2, <1>4, <1>5 DEF Reading
<1>7. Received(c, w, s).millis = l /\ Received(c, w, s).counter = Latest(mine, theirs)
  BY <1>4
<1>8. Ahead(Received(c, w, s), c)
  BY <1>1, <1>2, <1>3, <1>5, <1>7 DEF Ahead
<1> QED BY <1>6, <1>8

LEMMA NotAheadTransitive ==
  ASSUME NEW s, NEW c, NEW d,
         s.millis \in Nat, s.counter \in Nat, c.millis \in Nat, c.counter \in Nat,
         d.millis \in Nat, d.counter \in Nat,
         ~Ahead(s, c), ~Ahead(c, d)
  PROVE  ~Ahead(s, d)
  BY DEF Ahead

-----------------------------------------------------------------------------
(* A batch is taken in one after the other: RecvAll is defined by a recursive *)
(* function, and there is one, for every batch.                              *)
Recursion(r, S, f) == f = [T \in SUBSET S |->
  IF T = {} THEN r ELSE Received(f[T \ {NewestIn(T)}], wall, NewestIn(T).stamp)]

LEMMA RecursionDefines ==
  ASSUME NEW r, NEW S
  PROVE  \E f : /\ f = CHOOSE g : Recursion(r, S, g)
               /\ RecvAll(r, S) = f[S]
<1> DEFINE after[T \in SUBSET S] ==
      IF T = {} THEN r ELSE Received(after[T \ {NewestIn(T)}], wall, NewestIn(T).stamp)
<1>1. RecvAll(r, S) = after[S]
  BY DEF RecvAll
<1>2. after = CHOOSE g : Recursion(r, S, g)
  BY DEF Recursion
<1> QED BY <1>1, <1>2

(* Of what fails for a subset, there is a smallest.                          *)
LEMMA SmallestSubset ==
  ASSUME NEW S, IsFiniteSet(S), NEW Bad \in SUBSET SUBSET S, Bad # {}
  PROVE  \E T \in Bad : \A U \in Bad : U \subseteq T => U = T
<1>1. FiniteSubsetsOf(S) = SUBSET S
  BY FS_FiniteSubsetsOfFinite
<1>2. IsWellFoundedOn(StrictSubsetOrdering(S), SUBSET S)
  BY <1>1, FS_StrictSubsetOrderingWellFounded
<1>3. PICK T \in Bad : \A U \in Bad : <<U, T>> \notin StrictSubsetOrdering(S)
  BY <1>2, WFMin
<1> QED BY <1>3 DEF StrictSubsetOrdering

OneByOne(r, S, f) ==
  /\ f[{}] = r
  /\ \A T \in SUBSET S : T # {} =>
       f[T] = Received(f[T \ {NewestIn(T)}], wall, NewestIn(T).stamp)

LEMMA RecursionStep ==
  ASSUME NEW r, NEW S, NEW f, Recursion(r, S, f)
  PROVE  OneByOne(r, S, f)
<1>1. f = [T \in SUBSET S |->
        IF T = {} THEN r ELSE Received(f[T \ {NewestIn(T)}], wall, NewestIn(T).stamp)]
  BY DEF Recursion
<1>2. {} \in SUBSET S
  OBVIOUS
<1> QED BY <1>1, <1>2 DEF OneByOne

LEMMA RecursionOnce ==
  ASSUME NEW r, NEW S, Ordered(S), NEW f, NEW g,
         Recursion(r, S, f), NEW R \in SUBSET S, Recursion(r, R, g)
  PROVE  \A T \in SUBSET R : f[T] = g[T]
<1> DEFINE Bad == {T \in SUBSET R : f[T] # g[T]}
<1>1. SUFFICES ASSUME Bad # {} PROVE FALSE
  OBVIOUS
<1>2. IsFiniteSet(R)
  BY FS_Subset DEF Ordered
<1>3. PICK T \in Bad : \A U \in Bad : U \subseteq T => U = T
  <2>1. Bad \in SUBSET SUBSET R
    OBVIOUS
  <2> HIDE DEF Bad
  <2> QED BY <1>1, <1>2, <2>1, SmallestSubset
<1>4. T \in SUBSET R /\ T \in SUBSET S /\ f[T] # g[T]
  BY <1>3
<1>f. OneByOne(r, S, f)
  BY RecursionStep
<1>g. OneByOne(r, R, g)
  BY RecursionStep
<1>5. T # {}
  BY <1>4, <1>f, <1>g DEF OneByOne
<1> DEFINE U == T \ {NewestIn(T)}
<1>6. U \in SUBSET R /\ U \subseteq T /\ U # T
  BY <1>4, <1>5, OrderedSubset, NewestIsThere
<1>7. f[U] = g[U]
  BY <1>3, <1>6
<1>8. f[T] = Received(f[U], wall, NewestIn(T).stamp)
  BY <1>4, <1>5, <1>f DEF OneByOne
<1>9. g[T] = Received(g[U], wall, NewestIn(T).stamp)
  BY <1>4, <1>5, <1>g DEF OneByOne
<1> QED BY <1>4, <1>7, <1>8, <1>9

LEMMA RecursionRestricts ==
  ASSUME NEW r, NEW S, NEW f, Recursion(r, S, f), NEW R \in SUBSET S
  PROVE  Recursion(r, R, [T \in SUBSET R |-> f[T]])
<1> DEFINE g == [T \in SUBSET R |-> f[T]]
<1>1. \A T \in SUBSET R : T \in SUBSET S /\ T \ {NewestIn(T)} \in SUBSET R
  OBVIOUS
<1>2. OneByOne(r, S, f)
  BY RecursionStep
<1>3. ASSUME NEW T \in SUBSET R
      PROVE  g[T] =
        IF T = {} THEN r ELSE Received(g[T \ {NewestIn(T)}], wall, NewestIn(T).stamp)
  <2>1. g[T] = f[T] /\ g[T \ {NewestIn(T)}] = f[T \ {NewestIn(T)}]
    BY <1>1
  <2>2. CASE T = {}
    BY <2>1, <2>2, <1>2 DEF OneByOne
  <2>3. CASE T # {}
    BY <2>1, <2>3, <1>1, <1>2 DEF OneByOne
  <2> QED BY <2>2, <2>3
<1>4. g = [T \in SUBSET R |-> g[T]]
  OBVIOUS
<1> HIDE DEF g
<1>5. Recursion(r, R, g)
  BY <1>3, <1>4 DEF Recursion
<1> QED BY <1>5 DEF g

LEMMA RecursionIsThere ==
  ASSUME NEW r, NEW S, Ordered(S)
  PROVE  \E f : Recursion(r, S, f)
<1> DEFINE Bad == {T \in SUBSET S : ~\E f : Recursion(r, T, f)}
<1>1. SUFFICES ASSUME Bad # {} PROVE FALSE
  <2>1. S \in SUBSET S
    OBVIOUS
  <2> QED BY <2>1
<1>2. PICK R \in Bad : \A U \in Bad : U \subseteq R => U = R
  <2>1. Bad \in SUBSET SUBSET S /\ IsFiniteSet(S)
    BY DEF Ordered
  <2> HIDE DEF Bad
  <2> QED BY <1>1, <2>1, SmallestSubset
<1>3. R \in SUBSET S /\ ~\E f : Recursion(r, R, f)
  BY <1>2
<1> DEFINE F(U) == CHOOSE f : Recursion(r, U, f)
           Rest(U) == U \ {NewestIn(U)}
           V(U) == IF U = {} THEN r
                   ELSE Received(F(Rest(U))[Rest(U)], wall, NewestIn(U).stamp)
           g == [U \in SUBSET R |-> V(U)]
<1>4. ASSUME NEW U \in SUBSET R, U # R PROVE Recursion(r, U, F(U))
  <2>1. \E f : Recursion(r, U, f)
    BY <1>2, <1>3, <1>4
  <2> QED BY <2>1
<1>5. ASSUME NEW U \in SUBSET R, U # {}
      PROVE  Rest(U) \in SUBSET R /\ Rest(U) # R /\ Rest(U) \in SUBSET U
  <2>1. NewestIn(U) \in U
    BY <1>3, <1>5, OrderedSubset, NewestIsThere
  <2> QED BY <2>1
<1>6. ASSUME NEW U \in SUBSET R, U # R PROVE F(U)[U] = V(U)
  <2>1. /\ F(U)[{}] = r
        /\ U # {} => F(U)[U] = Received(F(U)[Rest(U)], wall, NewestIn(U).stamp)
    <3> DEFINE h == F(U)
    <3>1. Recursion(r, U, h)
      BY <1>4, <1>6
    <3> HIDE DEF h
    <3>2. OneByOne(r, U, h)
      BY <3>1, RecursionStep
    <3>3. U \in SUBSET U
      OBVIOUS
    <3>4. h[{}] = r /\ (U # {} => h[U] = Received(h[Rest(U)], wall, NewestIn(U).stamp))
      BY <3>2, <3>3 DEF OneByOne
    <3> QED BY <3>4 DEF h
  <2>2. CASE U = {}
    BY <2>1, <2>2
  <2>3. CASE U # {}
    <3>1. Rest(U) \in SUBSET U /\ Rest(U) \in SUBSET R /\ Rest(U) # R
      BY <1>5, <2>3
    <3>2. Recursion(r, U, F(U)) /\ Recursion(r, Rest(U), F(Rest(U)))
      BY <1>4, <1>6, <3>1
    <3>3. Ordered(U)
      BY <1>3, OrderedSubset
    <3> HIDE DEF F
    <3>4. \A T \in SUBSET Rest(U) : F(U)[T] = F(Rest(U))[T]
      BY <3>1, <3>2, <3>3, RecursionOnce
    <3>5. F(U)[Rest(U)] = F(Rest(U))[Rest(U)]
      BY <3>4
    <3> QED BY <2>1, <2>3, <3>5
  <2> QED BY <2>2, <2>3
<1>7. ASSUME NEW U \in SUBSET R
      PROVE  g[U] =
        IF U = {} THEN r ELSE Received(g[U \ {NewestIn(U)}], wall, NewestIn(U).stamp)
  <2>1. g[U] = V(U)
    OBVIOUS
  <2>2. CASE U = {}
    BY <2>1, <2>2
  <2>3. CASE U # {}
    <3>1. Rest(U) \in SUBSET R /\ Rest(U) # R
      BY <1>5, <2>3
    <3>2. g[Rest(U)] = V(Rest(U))
      BY <3>1
    <3>3. V(Rest(U)) = F(Rest(U))[Rest(U)]
      BY <1>6, <3>1
    <3>4. V(U) = Received(F(Rest(U))[Rest(U)], wall, NewestIn(U).stamp)
      BY <2>3
    <3> HIDE DEF g, V, F
    <3> QED BY <2>1, <2>3, <3>2, <3>3, <3>4
  <2> QED BY <2>2, <2>3
<1>8. g = [U \in SUBSET R |-> g[U]]
  OBVIOUS
<1> HIDE DEF g
<1>9. Recursion(r, R, g)
  BY <1>7, <1>8 DEF Recursion
<1> QED BY <1>3, <1>9

(* No batch sets the clock back.                                             *)
LEMMA RecvAllMovesOn ==
  ASSUME NEW r \in Reading, NEW S, Ordered(S), wall \in Nat
  PROVE  RecvAll(r, S) \in Reading /\ ~Ahead(r, RecvAll(r, S))
<1>1. PICK f : f = (CHOOSE g : Recursion(r, S, g)) /\ RecvAll(r, S) = f[S]
  BY RecursionDefines
<1>2. Recursion(r, S, f)
  BY <1>1, RecursionIsThere
<1>3. OneByOne(r, S, f)
  BY <1>2, RecursionStep
<1> DEFINE Good(T) == f[T] \in Reading /\ ~Ahead(r, f[T])
           Bad == {T \in SUBSET S : ~Good(T)}
<1>4. Bad = {}
  <2> SUFFICES ASSUME Bad # {} PROVE FALSE
    OBVIOUS
  <2>1. PICK T \in Bad : \A U \in Bad : U \subseteq T => U = T
    <3>1. Bad \in SUBSET SUBSET S /\ IsFiniteSet(S)
      BY DEF Ordered
    <3> HIDE DEF Bad
    <3> QED BY <3>1, SmallestSubset
  <2>2. T \in SUBSET S /\ ~Good(T)
    BY <2>1
  <2>3. T # {}
    <3>1. Good({})
      BY <1>3 DEF OneByOne, Reading, Ahead
    <3> QED BY <2>2, <3>1
  <2> DEFINE n == NewestIn(T)
             U == T \ {n}
  <2>4. n \in T /\ n.stamp \in Stamps
    BY <2>2, <2>3, OrderedSubset, NewestIsThere DEF Ordered
  <2>5. Good(U)
    BY <2>1, <2>2, <2>4
  <2>6. f[T] = Received(f[U], wall, n.stamp)
    BY <1>3, <2>2, <2>3 DEF OneByOne
  <2>7. f[T] \in Reading /\ Ahead(f[T], f[U])
    BY <2>4, <2>5, <2>6, ReceivedMovesOn
  <2>8. ~Ahead(r, f[T])
    BY <2>5, <2>7 DEF Reading, Ahead
  <2> QED BY <2>2, <2>7, <2>8
<1>5. Good(S)
  BY <1>4
<1> QED BY <1>1, <1>5

-----------------------------------------------------------------------------
(* What a table shows when a batch is set is what the abstract replica shows. *)
LEMMA SameNewest ==
  /\ \A S : Replicas!NewestOf(S) = NewestIn(S)
  /\ \A S, cell : Replicas!To(cell, S) = InCell(cell, S)
  /\ \A s, t : Replicas!Newer(s, t) <=> Newer(s, t)
<1>1. \A s, t : Replicas!Newer(s, t) <=> Newer(s, t)
  BY DEF Replicas!Newer, Replicas!Ahead, Newer, Ahead
<1> QED BY <1>1 DEF Replicas!NewestOf, NewestIn, Replicas!To, InCell

LEMMA ShownIs ==
  ASSUME NEW S, NEW cell \in Cells
  PROVE  Replicas!Shown(S)[cell] =
           IF InCell(cell, S) = {} THEN None ELSE NewestIn(InCell(cell, S)).stamp
  BY SameNewest DEF Replicas!Shown

LEMMA SetShows ==
  ASSUME NEW S, NEW M, Ordered(S \cup M)
  PROVE  Set(Replicas!Shown(S), S, M) = Replicas!Shown(S \cup M)
<1> DEFINE All == S \cup M
<1>1. \A m \in All : m.stamp \in Stamps
  BY DEF Ordered
<1>2. ASSUME NEW cell \in Cells
      PROVE  Set(Replicas!Shown(S), S, M)[cell] = Replicas!Shown(All)[cell]
  <2> DEFINE to == InCell(cell, Fresh(S, M))
  <2>1. Set(Replicas!Shown(S), S, M)[cell] =
          IF to = {} THEN Replicas!Shown(S)[cell] ELSE NewestIn(to).stamp
    BY DEF Set
  <2>2. to \in SUBSET All /\ InCell(cell, S) \in SUBSET All /\ InCell(cell, All) \in SUBSET All
    BY DEF InCell, Fresh
  <2>3. Ordered(to) /\ Ordered(InCell(cell, S)) /\ Ordered(InCell(cell, All))
    BY <2>2, OrderedSubset
  <2>4. ASSUME NEW k \in InCell(cell, All), k \notin S, k \notin to
        PROVE  \E l \in InCell(cell, S) : ~Newer(k.stamp, l.stamp) /\ k # l
    BY <2>4 DEF InCell, Fresh, Old
  <2>5. CASE to # {}
    <3>1. /\ NewestIn(to) \in to
          /\ \A k \in to : k = NewestIn(to) \/ Newer(NewestIn(to).stamp, k.stamp)
      BY <2>3, <2>5, NewestIsThere
    <3>2. PICK n \in to : n = NewestIn(to)
      BY <3>1
    <3>3. n \in InCell(cell, All) /\ \A k \in InCell(cell, S) : Newer(n.stamp, k.stamp)
      BY DEF InCell, Fresh, Old
    <3>4. ASSUME NEW k \in InCell(cell, All) PROVE k = n \/ Newer(n.stamp, k.stamp)
      <4>1. CASE k \in S
        BY <3>3, <4>1 DEF InCell
      <4>2. CASE k \in to
        BY <3>1, <3>2, <4>2
      <4>3. CASE k \notin S /\ k \notin to
        <5>1. PICK l \in InCell(cell, S) : ~Newer(k.stamp, l.stamp) /\ k # l
          BY <2>4, <4>3
        <5>2. l \in All /\ k \in All /\ n \in All
          BY <2>2
        <5>3. k.stamp # l.stamp
          BY <5>1, <5>2 DEF Ordered
        <5>4. Newer(l.stamp, k.stamp)
          BY <1>1, <5>1, <5>2, <5>3, NewerIsAnOrder
        <5> QED BY <1>1, <3>3, <5>2, <5>4, NewerIsAnOrder
      <4> QED BY <4>1, <4>2, <4>3
    <3>5. NewestIn(InCell(cell, All)) = n
      BY <2>3, <3>3, <3>4, NewestIsOne
    <3> QED BY <2>1, <2>5, <3>2, <3>3, <3>5, ShownIs
  <2>6. CASE to = {}
    <3>1. CASE InCell(cell, S) = {}
      <4>1. InCell(cell, All) = {}
        BY <2>4, <2>6, <3>1 DEF InCell
      <4> QED BY <2>1, <2>6, <3>1, <4>1, ShownIs
    <3>2. CASE InCell(cell, S) # {}
      <4>1. /\ NewestIn(InCell(cell, S)) \in InCell(cell, S)
            /\ \A k \in InCell(cell, S) : \/ k = NewestIn(InCell(cell, S))
                                          \/ Newer(NewestIn(InCell(cell, S)).stamp, k.stamp)
        BY <2>3, <3>2, NewestIsThere
      <4>2. PICK n \in InCell(cell, S) : n = NewestIn(InCell(cell, S))
        BY <4>1
      <4>3. n \in InCell(cell, All)
        BY DEF InCell
      <4>4. ASSUME NEW k \in InCell(cell, All) PROVE k = n \/ Newer(n.stamp, k.stamp)
        <5>1. CASE k \in S
          BY <4>1, <4>2, <5>1 DEF InCell
        <5>2. CASE k \notin S
          <6>1. PICK l \in InCell(cell, S) : ~Newer(k.stamp, l.stamp) /\ k # l
            BY <2>4, <2>6, <5>2
          <6>2. l \in All /\ k \in All /\ n \in All
            BY <2>2
          <6>3. k.stamp # l.stamp
            BY <6>1, <6>2 DEF Ordered
          <6>4. Newer(l.stamp, k.stamp)
            BY <1>1, <6>1, <6>2, <6>3, NewerIsAnOrder
          <6>5. l = n \/ Newer(n.stamp, l.stamp)
            BY <4>1, <4>2
          <6> QED BY <1>1, <6>2, <6>4, <6>5, NewerIsAnOrder
        <5> QED BY <5>1, <5>2
      <4>5. NewestIn(InCell(cell, All)) = n
        BY <2>3, <4>3, <4>4, NewestIsOne
      <4> QED BY <2>1, <2>6, <3>2, <4>2, <4>3, <4>5, ShownIs
    <3> QED BY <3>1, <3>2
  <2> QED BY <2>5, <2>6
<1>3. /\ Set(Replicas!Shown(S), S, M) =
           [cell \in Cells |-> Set(Replicas!Shown(S), S, M)[cell]]
      /\ Replicas!Shown(All) = [cell \in Cells |-> Replicas!Shown(All)[cell]]
  BY DEF Set, Replicas!Shown
<1> QED BY <1>2, <1>3

-----------------------------------------------------------------------------
LEMMA WrittenOnce ==
  ASSUME Inv
  PROVE  /\ Written \subseteq Change
         /\ \A m \in Written : m.stamp.node \in Clients /\ m \in Own(m.stamp.node)
         /\ \A a, b \in Written : a.stamp = b.stamp => a = b
<1>1. Written \subseteq Change
  BY DEF Inv, Typed, Written
<1>2. \A m \in Written : m.stamp.node \in Clients
  BY <1>1 DEF Change
<1>3. \A m \in Written : m \in Own(m.stamp.node)
  BY DEF Inv, Theirs, Written, Own
<1> QED BY <1>1, <1>2, <1>3 DEF Inv, OwnOnce

LEMMA StampsAre ==
  ASSUME NEW m \in Change
  PROVE  /\ m.stamp \in Stamps /\ m.stamp.millis \in Nat /\ m.stamp.counter \in Nat
         /\ m.stamp.node \in Clients
  BY ClientsNat DEF Change, Stamps

LEMMA WrittenOrdered ==
  ASSUME Inv, NEW M \in SUBSET Written, IsFiniteSet(M)
  PROVE  Ordered(M)
  BY WrittenOnce, StampsAre DEF Ordered

(* Steps that only move messages about.                                      *)
LEMMA MovesKeep ==
  ASSUME Inv, NEW c \in Clients, NEW e,
         call' = [call EXCEPT ![c] = e],
         "at" \in DOMAIN e,
         e.at \in {"sent", "answered"} =>
           /\ "messages" \in DOMAIN e
           /\ e.messages \subseteq Written
           /\ IsFiniteSet(e.messages),
         server' \subseteq Written, IsFiniteSet(server'),
         UNCHANGED <<wall, log, table, pending, clock, saved>>
  PROVE  Inv'
<1>1. Written' = Written /\ \A d \in Clients : Own(d)' = Own(d)
  BY DEF Written, Own
<1>2. call' = [d \in Clients |-> IF d = c THEN e ELSE call[d]]
  BY DEF Inv, Typed
<1>3. /\ \A d \in Clients : d # c => call'[d] = call[d]
      /\ call'[c] = e
  BY <1>2
<1>4. \A d \in Clients : d # c => InTransit(d)' = InTransit(d)
  BY <1>3 DEF InTransit
<1>5. InTransit(c)' \subseteq Written /\ IsFiniteSet(InTransit(c)')
  BY <1>3, FS_EmptySet DEF InTransit
<1>6. call' = [d \in Clients |-> call'[d]]
  BY <1>2
<1>7. Typed'
  BY <1>3, <1>6 DEF Inv, Typed
<1>8. Finite'
  BY <1>4, <1>5 DEF Inv, Finite
<1>9. Theirs'
  BY <1>1, <1>4, <1>5 DEF Inv, Theirs
<1>10. OwnOnce' /\ Covered'
  BY <1>1 DEF Inv, OwnOnce, Covered
<1>11. TablesShow'
  BY DEF Inv, TablesShow, Replicas!Shown, Replicas!To, Replicas!NewestOf, Replicas!Newer, Replicas!Ahead
<1> QED BY <1>7, <1>8, <1>9, <1>10, <1>11 DEF Inv

LEMMA RequestKeeps ==
  ASSUME Inv, NEW c \in Clients, NEW since, NEW count, NEW previous, NEW untold,
         call' = [call EXCEPT ![c] = Request(c, since, count, previous, untold)],
         UNCHANGED <<wall, log, table, pending, clock, saved, server>>
  PROVE  Inv'
<1> DEFINE e == Request(c, since, count, previous, untold)
<1>1. /\ "at" \in DOMAIN e /\ "messages" \in DOMAIN e
      /\ e.messages = Since(log[c], since)
  BY DEF Request
<1>2. Since(log[c], since) \subseteq log[c]
  BY DEF Since
<1>3. e.messages \subseteq Written /\ IsFiniteSet(e.messages)
  BY <1>1, <1>2, FS_Subset DEF Inv, Finite, Written
<1>4. server' \subseteq Written /\ IsFiniteSet(server')
  BY DEF Inv, Theirs, Finite
<1> HIDE DEF e
<1> QED BY <1>1, <1>3, <1>4, MovesKeep DEF e

LEMMA IdleKeeps ==
  ASSUME Inv, NEW c \in Clients, call' = [call EXCEPT ![c] = Idle],
         UNCHANGED <<wall, log, table, pending, clock, saved, server>>
  PROVE  Inv'
<1>1. "at" \in DOMAIN Idle /\ Idle.at \notin {"sent", "answered"}
  BY DEF Idle
<1>2. server' \subseteq Written /\ IsFiniteSet(server')
  BY DEF Inv, Theirs, Finite
<1> QED BY <1>1, <1>2, MovesKeep

LEMMA ServeKeeps == ASSUME Inv, NEW c \in Clients, Serve(c) PROVE Inv'
<1> DEFINE e == [at |-> "answered", messages |-> Since(server, call[c].since),
                 trie |-> StampsOf(server'), clock |-> call[c].clock,
                 count |-> call[c].count, previous |-> call[c].previous,
                 untold |-> call[c].untold]
<1>1. /\ call[c].at = "sent"
      /\ server' = server \cup call[c].messages
      /\ call' = [call EXCEPT ![c] = e]
      /\ UNCHANGED <<wall, log, table, pending, clock, saved>>
  BY DEF Serve
<1>2. call[c].messages = InTransit(c)
  BY <1>1 DEF InTransit
<1>3. server' \subseteq Written /\ IsFiniteSet(server')
  BY <1>1, <1>2, FS_Union DEF Inv, Theirs, Finite
<1>4. Since(server, call[c].since) \subseteq server
  BY DEF Since
<1>5. /\ "at" \in DOMAIN e /\ "messages" \in DOMAIN e
      /\ e.messages = Since(server, call[c].since)
  OBVIOUS
<1>6. e.messages \subseteq Written /\ IsFiniteSet(e.messages)
  BY <1>4, <1>5, FS_Subset DEF Inv, Theirs, Finite
<1> HIDE DEF e
<1> QED BY <1>1, <1>3, <1>5, <1>6, MovesKeep

LEMMA InitInv == ASSUME Init PROVE Inv
<1>1. \A c \in Clients : log[c] = {} /\ InTransit(c) = {} /\ Own(c) = {}
  BY DEF Init, InTransit, Own, Idle
<1>2. Typed
  <2>1. [millis |-> 0, counter |-> 0] \in Reading
    BY DEF Reading
  <2>2. \A c \in Clients : call[c] = Idle
    BY DEF Init
  <2>3. "at" \in DOMAIN Idle /\ Idle.at = "idle"
    BY DEF Idle
  <2>4. call = [c \in Clients |-> call[c]]
    BY DEF Init
  <2>5. wall \in Nat
    BY SyncNat DEF Init
  <2>6. clock \in [Clients -> Reading] /\ saved \in [Clients -> Reading]
    BY <2>1 DEF Init
  <2>7. log \in [Clients -> SUBSET Change] /\ pending \in [Clients -> Change \cup {None}]
    BY DEF Init
  <2> QED BY <2>2, <2>3, <2>4, <2>5, <2>6, <2>7 DEF Typed
<1>3. Finite
  BY <1>1, FS_EmptySet DEF Finite, Init
<1>4. Theirs /\ OwnOnce
  BY <1>1 DEF Theirs, OwnOnce, Init
<1>5. Covered
  <2>1. \A c \in Clients : ~Ahead(saved[c], clock[c])
    BY DEF Init, Ahead
  <2> QED BY <1>1, <2>1 DEF Covered, Init
<1>6. TablesShow
  <2>1. \A cell \in Cells : InCell(cell, {}) = {}
    BY DEF InCell
  <2>2. Replicas!Shown({}) = [cell \in Cells |-> None]
    BY <2>1, SameNewest DEF Replicas!Shown
  <2> QED BY <2>2 DEF TablesShow, Init
<1> QED BY <1>2, <1>3, <1>4, <1>5, <1>6 DEF Inv

-----------------------------------------------------------------------------
(* Steps that change a clock.                                                *)
LEMMA EditKeeps == ASSUME Inv, NEW c \in Clients, Edit(c) PROVE Inv'
<1>1. PICK w \in wall..MaxWall, cell \in Cells :
        /\ wall' = w
        /\ clock' = [clock EXCEPT ![c] = Sent(@, w)]
        /\ pending' = [pending EXCEPT ![c] =
             [stamp |-> StampAt(Sent(clock[c], w), c), cell |-> cell]]
  BY DEF Edit
<1>2. UNCHANGED <<log, table, saved, server, call>>
  BY DEF Edit
<1>3. w \in Nat
  BY SyncNat DEF Inv, Typed
<1>4. PICK r : r = Sent(clock[c], w)
  OBVIOUS
<1>5. r \in Reading /\ Ahead(r, clock[c])
  BY <1>3, <1>4, SentMovesOn DEF Inv, Typed
<1>6. PICK m : m = [stamp |-> StampAt(r, c), cell |-> cell]
  OBVIOUS
<1>7. /\ m \in Change /\ m.stamp.node = c
      /\ m.stamp.millis = r.millis /\ m.stamp.counter = r.counter
  BY <1>5, <1>6 DEF Change, StampAt, Reading
<1>8. clock' = [clock EXCEPT ![c] = r] /\ pending' = [pending EXCEPT ![c] = m]
  BY <1>1, <1>4, <1>6
<1>9. Written' = Written /\ \A d \in Clients : Own(d)' = Own(d) /\ InTransit(d)' = InTransit(d)
  BY <1>2 DEF Written, Own, InTransit
<1>10. Typed'
  BY <1>1, <1>2, <1>3, <1>5, <1>7, <1>8 DEF Inv, Typed
<1>11. Finite' /\ Theirs' /\ OwnOnce'
  BY <1>2, <1>9 DEF Inv, Finite, Theirs, OwnOnce
<1>12. TablesShow'
  BY <1>2 DEF Inv, TablesShow, Replicas!Shown, Replicas!To, Replicas!NewestOf, Replicas!Newer, Replicas!Ahead
<1>13. Covered'
  <2>1. \A d \in Clients : d # c => clock'[d] = clock[d] /\ pending'[d] = pending[d]
    BY <1>8 DEF Inv, Typed
  <2>2. clock'[c] = r /\ pending'[c] = m
    BY <1>8 DEF Inv, Typed
  <2>3. /\ clock[c] \in Reading /\ saved[c] \in Reading
        /\ ~Ahead(saved[c], clock[c])
        /\ \A k \in Own(c) : ~Ahead(k.stamp, saved[c])
    BY DEF Inv, Typed, Covered
  <2>4. ~Ahead(saved[c], r) /\ ~Ahead(m.stamp, r)
    BY <1>5, <1>7, <2>3 DEF Reading, Ahead
  <2>5. ASSUME NEW k \in Own(c) PROVE Ahead(m.stamp, k.stamp)
    <3>1. k \in Change
      BY DEF Own, Inv, Typed
    <3>2. k.stamp.millis \in Nat /\ k.stamp.counter \in Nat
      BY <3>1, StampsAre
    <3> QED BY <1>5, <1>7, <2>3, <3>2 DEF Reading, Ahead
  <2> QED BY <1>2, <1>7, <1>9, <2>1, <2>2, <2>3, <2>4, <2>5 DEF Inv, Covered
<1> QED BY <1>10, <1>11, <1>12, <1>13 DEF Inv

LEMMA RestartKeeps == ASSUME Inv, NEW c \in Clients, Restart(c) PROVE Inv'
<1>1. /\ call' = [call EXCEPT ![c] = Idle]
      /\ pending' = [pending EXCEPT ![c] = None]
      /\ clock' = [clock EXCEPT ![c] = saved[c]]
      /\ UNCHANGED <<wall, log, table, saved, server>>
  BY DEF Restart
<1>2. "at" \in DOMAIN Idle /\ Idle.at = "idle"
  BY DEF Idle
<1>3. /\ call' = [d \in Clients |-> IF d = c THEN Idle ELSE call[d]]
      /\ clock' = [d \in Clients |-> IF d = c THEN saved[d] ELSE clock[d]]
      /\ pending' = [d \in Clients |-> IF d = c THEN None ELSE pending[d]]
  BY <1>1 DEF Inv, Typed
<1>4. \A d \in Clients : call'[d] = IF d = c THEN Idle ELSE call[d]
  BY <1>3
<1>5. /\ Written' = Written
      /\ \A d \in Clients : Own(d)' = Own(d)
  BY <1>1 DEF Written, Own
<1>6. \A d \in Clients : InTransit(d)' \subseteq InTransit(d)
  BY <1>2, <1>4 DEF InTransit
<1>7. Typed'
  <2>1. call' = [d \in Clients |-> call'[d]]
    BY <1>3
  <2> QED BY <1>1, <1>2, <1>3, <1>4, <2>1 DEF Inv, Typed
<1>8. Finite'
  BY <1>1, <1>6, FS_Subset DEF Inv, Finite
<1>9. Theirs' /\ OwnOnce'
  BY <1>1, <1>5, <1>6 DEF Inv, Theirs, OwnOnce
<1>10. Covered'
  <2>1. \A d \in Clients : ~Ahead(saved[d], saved[d])
    BY DEF Inv, Typed, Reading, Ahead
  <2> QED BY <1>1, <1>3, <1>5, <2>1 DEF Inv, Covered
<1>11. TablesShow'
  BY <1>1 DEF Inv, TablesShow, Replicas!Shown, Replicas!To, Replicas!NewestOf, Replicas!Newer, Replicas!Ahead
<1> QED BY <1>7, <1>8, <1>9, <1>10, <1>11 DEF Inv

(* A batch of changes, others' or its own, gets into a device.               *)
LEMMA ApplyGains ==
  ASSUME Inv, NEW c \in Clients, NEW M \in SUBSET Change, Ordered(log[c] \cup M),
         NEW r, Apply(c, M, r)
  PROVE  /\ log' = [d \in Clients |-> IF d = c THEN log[c] \cup M ELSE log[d]]
         /\ saved' = [d \in Clients |-> IF d = c THEN r ELSE saved[d]]
         /\ \A d \in Clients : IsFiniteSet(log'[d])
         /\ log' \in [Clients -> SUBSET Change]
         /\ Written' = Written \cup M
         /\ TablesShow'
<1>1. /\ log' = [log EXCEPT ![c] = @ \cup M]
      /\ table' = [table EXCEPT ![c] = Set(@, log[c], M)]
      /\ saved' = [saved EXCEPT ![c] = r]
  BY DEF Apply
<1>2. log' = [d \in Clients |-> IF d = c THEN log[c] \cup M ELSE log[d]]
  BY <1>1 DEF Inv, Typed
<1>3. saved' = [d \in Clients |-> IF d = c THEN r ELSE saved[d]]
  BY <1>1 DEF Inv, Typed
<1>4. \A d \in Clients : IsFiniteSet(log'[d])
  BY <1>2 DEF Inv, Finite, Ordered
<1>5. log' \in [Clients -> SUBSET Change]
  BY <1>2 DEF Inv, Typed
<1>6. Written' = Written \cup M
  BY <1>2 DEF Written
<1>7. TablesShow'
  <2>1. table = [d \in Clients |-> Replicas!Shown(log[d])]
    BY DEF Inv, TablesShow
  <2>2. table[c] = Replicas!Shown(log[c])
    BY <2>1
  <2>3. table' = [d \in Clients |-> IF d = c THEN Set(table[c], log[c], M) ELSE table[d]]
    BY <1>1, <2>1
  <2>4. Set(table[c], log[c], M) = Replicas!Shown(log[c] \cup M)
    BY <2>2, SetShows
  <2>5. \A d \in Clients : table'[d] = Replicas!Shown(log'[d])
    BY <1>2, <2>1, <2>3, <2>4
  <2>6. table' = [d \in Clients |-> table'[d]]
    BY <2>3
  <2>7. table' = [d \in Clients |-> Replicas!Shown(log'[d])]
    BY <2>5, <2>6
  <2> QED BY <2>7 DEF TablesShow, Replicas!Shown, Replicas!To, Replicas!NewestOf, Replicas!Newer, Replicas!Ahead
<1> QED BY <1>2, <1>3, <1>4, <1>5, <1>6, <1>7

LEMMA ApplyEditCall ==
  ASSUME Inv, NEW c \in Clients, ApplyEdit(c)
  PROVE  /\ call' = [d \in Clients |-> call'[d]]
         /\ \A d \in Clients : /\ DOMAIN call'[d] = DOMAIN call[d]
                               /\ call'[d].at = call[d].at
         /\ \A d \in Clients : InTransit(d)' = InTransit(d)
<1>1. PICK e : e = IF Untold(c) THEN [call[c] EXCEPT !.untold = call[c].untold + 1]
               ELSE call[c]
  OBVIOUS
<1>2. call' = [call EXCEPT ![c] = e]
  <2>1. CASE Untold(c)
    BY <1>1, <2>1 DEF ApplyEdit
  <2>2. CASE ~Untold(c)
    <3>1. call' = call /\ e = call[c]
      BY <1>1, <2>2 DEF ApplyEdit
    <3> QED BY <3>1 DEF Inv, Typed
  <2> QED BY <2>1, <2>2
<1>3. call' = [d \in Clients |-> IF d = c THEN e ELSE call[d]]
  BY <1>2 DEF Inv, Typed
<1>4. /\ "at" \in DOMAIN call[c]
      /\ call[c].at \in {"sent", "answered"} => "messages" \in DOMAIN call[c]
  BY DEF Inv, Typed
<1>5. /\ DOMAIN e = DOMAIN call[c] /\ e.at = call[c].at
      /\ "messages" \in DOMAIN call[c] => e.messages = call[c].messages
  BY <1>1, <1>4
<1>6. \A d \in Clients : call'[d] = IF d = c THEN e ELSE call[d]
  BY <1>3
<1>7. InTransit(c)' = InTransit(c)
  <2>1. CASE call[c].at \in {"sent", "answered"}
    BY <1>4, <1>5, <1>6, <2>1 DEF InTransit
  <2>2. CASE call[c].at \notin {"sent", "answered"}
    BY <1>5, <1>6, <2>2 DEF InTransit
  <2> QED BY <2>1, <2>2
<1>8. \A d \in Clients : d # c => InTransit(d)' = InTransit(d)
  BY <1>6 DEF InTransit
<1>9. call' = [d \in Clients |-> call'[d]]
  BY <1>3
<1> QED BY <1>5, <1>6, <1>7, <1>8, <1>9

(* A change is newer than anything its device made before, so it is new.     *)
LEMMA PendingIsNew ==
  ASSUME Inv, NEW c \in Clients, pending[c] # None
  PROVE  /\ pending[c] \in Change /\ pending[c].stamp.node = c
         /\ ~Ahead(pending[c].stamp, clock[c])
         /\ \A k \in Own(c) : Ahead(pending[c].stamp, k.stamp)
         /\ \A k \in Written : k.stamp # pending[c].stamp
<1>1. /\ pending[c] \in Change /\ pending[c].stamp.node = c
      /\ ~Ahead(pending[c].stamp, clock[c])
      /\ \A k \in Own(c) : Ahead(pending[c].stamp, k.stamp)
  BY DEF Inv, Typed, Covered
<1>2. ASSUME NEW k \in Written, k.stamp = pending[c].stamp PROVE FALSE
  <2>1. k \in Own(c) /\ k \in Change
    BY <1>1, <1>2, WrittenOnce
  <2>2. Ahead(k.stamp, k.stamp)
    BY <1>1, <1>2, <2>1
  <2>3. k.stamp.millis \in Nat /\ k.stamp.counter \in Nat
    BY <2>1, StampsAre
  <2> QED BY <2>2, <2>3 DEF Ahead
<1> QED BY <1>1, <1>2

LEMMA PendingOrdered ==
  ASSUME Inv, NEW c \in Clients, pending[c] # None
  PROVE  Ordered(log[c] \cup {pending[c]})
<1>1. log[c] \in SUBSET Written /\ IsFiniteSet(log[c])
  BY DEF Inv, Finite, Written
<1>2. Ordered(log[c])
  BY <1>1, WrittenOrdered
<1>3. pending[c].stamp \in Stamps
  BY PendingIsNew, StampsAre
<1>4. \A k \in log[c] : k.stamp # pending[c].stamp
  BY <1>1, PendingIsNew
<1>5. IsFiniteSet(log[c] \cup {pending[c]})
  BY <1>1, FS_AddElement
<1> QED BY <1>2, <1>3, <1>4, <1>5 DEF Ordered

LEMMA ApplyEditKeeps == ASSUME Inv, NEW c \in Clients, ApplyEdit(c) PROVE Inv'
<1>1. PICK m : m = pending[c]
  OBVIOUS
<1>2. /\ pending[c] # None
      /\ Apply(c, {m}, clock[c])
      /\ pending' = [pending EXCEPT ![c] = None]
      /\ UNCHANGED <<wall, clock, server>>
  BY <1>1 DEF ApplyEdit
<1>3. /\ m \in Change /\ m.stamp.node = c
      /\ ~Ahead(m.stamp, clock[c])
      /\ \A k \in Written : k.stamp # m.stamp
  BY <1>1, <1>2, PendingIsNew
<1>4. Ordered(log[c] \cup {m})
  BY <1>1, <1>2, PendingOrdered
<1>5. /\ log' = [d \in Clients |-> IF d = c THEN log[c] \cup {m} ELSE log[d]]
      /\ saved' = [d \in Clients |-> IF d = c THEN clock[c] ELSE saved[d]]
      /\ \A d \in Clients : IsFiniteSet(log'[d])
      /\ log' \in [Clients -> SUBSET Change]
      /\ Written' = Written \cup {m}
      /\ TablesShow'
  <2>1. {m} \in SUBSET Change
    BY <1>3
  <2> QED BY <1>2, <1>4, <2>1, ApplyGains
<1>6. /\ call' = [d \in Clients |-> call'[d]]
      /\ \A d \in Clients : DOMAIN call'[d] = DOMAIN call[d] /\ call'[d].at = call[d].at
      /\ \A d \in Clients : InTransit(d)' = InTransit(d)
  BY ApplyEditCall
<1>7. pending' = [d \in Clients |-> IF d = c THEN None ELSE pending[d]]
  BY <1>2 DEF Inv, Typed
<1>8. Own(c)' = Own(c) \cup {m} /\ \A d \in Clients : d # c => Own(d)' = Own(d)
  BY <1>3, <1>5 DEF Own
<1>9. Typed'
  <2>1. saved' \in [Clients -> Reading]
    BY <1>5 DEF Inv, Typed
  <2>2. pending' \in [Clients -> Change \cup {None}]
    BY <1>7 DEF Inv, Typed
  <2> QED BY <1>2, <1>5, <1>6, <2>1, <2>2 DEF Inv, Typed
<1>10. Finite'
  BY <1>2, <1>5, <1>6 DEF Inv, Finite
<1>11. Theirs'
  <2>1. \A d \in Clients : \A k \in log'[d] : k \in log'[k.stamp.node]
    <3> TAKE d \in Clients
    <3> TAKE k \in log'[d]
    <3>1. CASE k \in log[d]
      <4>1. k \in log[k.stamp.node] /\ k.stamp.node \in Clients
        BY <3>1, StampsAre DEF Inv, Typed, Theirs
      <4> QED BY <4>1, <1>5
    <3>2. CASE k \notin log[d]
      <4>1. k = m
        BY <3>2, <1>5
      <4> QED BY <4>1, <1>3, <1>5
    <3> QED BY <3>1, <3>2
  <2> QED BY <2>1, <1>2, <1>5, <1>6 DEF Inv, Theirs
<1>12. OwnOnce'
  <2>1. \A k \in Own(c) : k \in Written
    BY DEF Own, Written
  <2>2. \A a, b \in Own(c)' : a.stamp = b.stamp => a = b
    BY <1>3, <1>8, <2>1 DEF Inv, OwnOnce
  <2> QED BY <1>8, <2>2 DEF Inv, OwnOnce
<1>13. Covered'
  <2>1. \A d \in Clients : d # c =>
          saved'[d] = saved[d] /\ pending'[d] = pending[d] /\ clock'[d] = clock[d]
    BY <1>2, <1>5, <1>7
  <2>2. saved'[c] = clock[c] /\ clock'[c] = clock[c] /\ pending'[c] = None
    BY <1>2, <1>5, <1>7
  <2>3. ~Ahead(clock[c], clock[c])
    BY DEF Inv, Typed, Reading, Ahead
  <2>4. ASSUME NEW k \in Own(c) PROVE ~Ahead(k.stamp, clock[c])
    <3>1. k.stamp.millis \in Nat /\ k.stamp.counter \in Nat
      BY StampsAre DEF Own, Inv, Typed
    <3>2. ~Ahead(k.stamp, saved[c]) /\ ~Ahead(saved[c], clock[c])
      BY DEF Inv, Covered
    <3> QED BY <3>1, <3>2, NotAheadTransitive DEF Inv, Typed, Reading
  <2>5. \A k \in Own(c)' : ~Ahead(k.stamp, clock[c])
    BY <1>3, <1>8, <2>4
  <2>6. ASSUME NEW d \in Clients
        PROVE  /\ ~Ahead(saved[d], clock[d])'
               /\ \A k \in Own(d)' : ~Ahead(k.stamp, saved'[d])
               /\ pending'[d] # None =>
                    /\ pending'[d].stamp.node = d
                    /\ ~Ahead(pending'[d].stamp, clock'[d])
                    /\ \A k \in Own(d)' : Ahead(pending'[d].stamp, k.stamp)
    <3>1. CASE d = c
      BY <3>1, <2>2, <2>3, <2>5
    <3>2. CASE d # c
      BY <3>2, <1>8, <2>1 DEF Inv, Covered
    <3> QED BY <3>1, <3>2
  <2> QED BY <2>6 DEF Covered
<1> QED BY <1>5, <1>9, <1>10, <1>11, <1>12, <1>13 DEF Inv

LEMMA ReceivedOrdered ==
  ASSUME Inv, NEW c \in Clients, Receive(c)
  PROVE  /\ call[c].messages \in SUBSET Written /\ IsFiniteSet(call[c].messages)
         /\ Ordered(call[c].messages)
         /\ Ordered(log[c] \cup call[c].messages)
<1>1. call[c].messages = InTransit(c)
  BY DEF Receive, InTransit
<1>2. call[c].messages \in SUBSET Written /\ IsFiniteSet(call[c].messages)
  BY <1>1 DEF Inv, Theirs, Finite
<1>3. log[c] \in SUBSET Written /\ IsFiniteSet(log[c])
  BY DEF Inv, Finite, Written
<1>4. log[c] \cup call[c].messages \in SUBSET Written
  BY <1>2, <1>3
<1>5. IsFiniteSet(log[c] \cup call[c].messages)
  BY <1>2, <1>3, FS_Union
<1> QED BY <1>2, <1>4, <1>5, WrittenOrdered

LEMMA ReceiveKeeps == ASSUME Inv, NEW c \in Clients, Receive(c) PROVE Inv'
<1>1. PICK M : M = call[c].messages
  OBVIOUS
<1>2. PICK r : r = RecvAll(clock[c], M)
  OBVIOUS
<1>3. PICK e : e = [at |-> "compare", trie |-> call[c].trie,
                    changed |-> (clock[c] # call[c].clock),
                    count |-> call[c].count, previous |-> call[c].previous,
                    untold |-> call[c].untold]
  OBVIOUS
<1>4. /\ clock' = [clock EXCEPT ![c] = r]
      /\ Apply(c, M, r)
      /\ call' = [call EXCEPT ![c] = e]
      /\ UNCHANGED <<wall, pending, server>>
  BY <1>1, <1>2, <1>3 DEF Receive
<1>5. /\ M \in SUBSET Written /\ M \in SUBSET Change /\ IsFiniteSet(M)
      /\ Ordered(M) /\ Ordered(log[c] \cup M)
  BY <1>1, ReceivedOrdered, WrittenOnce
<1>6. clock[c] \in Reading /\ wall \in Nat
  BY DEF Inv, Typed
<1>7. r \in Reading /\ ~Ahead(clock[c], r)
  BY <1>2, <1>5, <1>6, RecvAllMovesOn
<1>8. /\ log' = [d \in Clients |-> IF d = c THEN log[c] \cup M ELSE log[d]]
      /\ saved' = [d \in Clients |-> IF d = c THEN r ELSE saved[d]]
      /\ \A d \in Clients : IsFiniteSet(log'[d])
      /\ log' \in [Clients -> SUBSET Change]
      /\ Written' = Written \cup M
      /\ TablesShow'
  BY <1>4, <1>5, ApplyGains
<1>9. Written' = Written
  BY <1>5, <1>8
<1>10. \A d \in Clients : Own(d)' = Own(d)
  <2> TAKE d \in Clients
  <2>1. \A k \in M : k.stamp.node = c => k \in Own(c)
    BY <1>5, WrittenOnce
  <2> QED BY <1>8, <2>1 DEF Own
<1>11. "at" \in DOMAIN e /\ e.at = "compare"
  BY <1>3
<1>12. /\ call' = [d \in Clients |-> IF d = c THEN e ELSE call[d]]
       /\ clock' = [d \in Clients |-> IF d = c THEN r ELSE clock[d]]
  BY <1>4 DEF Inv, Typed
<1>13. \A d \in Clients : call'[d] = IF d = c THEN e ELSE call[d]
  BY <1>12
<1>14. \A d \in Clients : InTransit(d)' = {} \/ InTransit(d)' = InTransit(d)
  BY <1>11, <1>13 DEF InTransit
<1>15. Typed'
  <2>1. call' = [d \in Clients |-> call'[d]]
    BY <1>12
  <2>2. clock' \in [Clients -> Reading] /\ saved' \in [Clients -> Reading]
    BY <1>7, <1>8, <1>12 DEF Inv, Typed
  <2>3. \A d \in Clients :
          /\ "at" \in DOMAIN call'[d]
          /\ call'[d].at \in {"sent", "answered"} => "messages" \in DOMAIN call'[d]
    BY <1>11, <1>13 DEF Inv, Typed
  <2> QED BY <1>4, <1>8, <2>1, <2>2, <2>3 DEF Inv, Typed
<1>16. Finite'
  BY <1>4, <1>8, <1>14, FS_EmptySet DEF Inv, Finite
<1>17. Theirs'
  <2>1. \A d \in Clients : \A k \in log'[d] : k \in log'[k.stamp.node]
    <3> TAKE d \in Clients
    <3> TAKE k \in log'[d]
    <3>1. k \in Written
      BY <1>9 DEF Written
    <3>2. k.stamp.node \in Clients /\ k \in Own(k.stamp.node)
      BY <3>1, WrittenOnce
    <3> QED BY <1>8, <3>2 DEF Own
  <2> QED BY <2>1, <1>4, <1>9, <1>14 DEF Inv, Theirs
<1>18. OwnOnce'
  BY <1>10 DEF Inv, OwnOnce
<1>19. Covered'
  <2>1. \A d \in Clients : d # c => saved'[d] = saved[d] /\ clock'[d] = clock[d]
    BY <1>8, <1>12
  <2>2. saved'[c] = r /\ clock'[c] = r
    BY <1>8, <1>12
  <2>3. ~Ahead(r, r)
    BY <1>7 DEF Reading, Ahead
  <2>4. ASSUME NEW s, s.millis \in Nat, s.counter \in Nat, ~Ahead(s, clock[c])
        PROVE  ~Ahead(s, r)
    BY <1>6, <1>7, <2>4, NotAheadTransitive DEF Reading
  <2>5. ASSUME NEW k \in Own(c) PROVE ~Ahead(k.stamp, r)
    <3>1. k.stamp.millis \in Nat /\ k.stamp.counter \in Nat
      BY StampsAre DEF Own, Inv, Typed
    <3>2. ~Ahead(k.stamp, saved[c]) /\ ~Ahead(saved[c], clock[c])
      BY DEF Inv, Covered
    <3>3. ~Ahead(k.stamp, clock[c])
      BY <3>1, <3>2, NotAheadTransitive DEF Inv, Typed, Reading
    <3> QED BY <2>4, <3>1, <3>3
  <2>6. pending[c] # None => ~Ahead(pending[c].stamp, r)
    <3> SUFFICES ASSUME pending[c] # None PROVE ~Ahead(pending[c].stamp, r)
      OBVIOUS
    <3>1. pending[c] \in Change /\ ~Ahead(pending[c].stamp, clock[c])
      BY DEF Inv, Typed, Covered
    <3> QED BY <2>4, <3>1, StampsAre
  <2>7. ASSUME NEW d \in Clients
        PROVE  /\ ~Ahead(saved'[d], clock'[d])
               /\ \A k \in Own(d)' : ~Ahead(k.stamp, saved'[d])
               /\ pending'[d] # None =>
                    /\ pending'[d].stamp.node = d
                    /\ ~Ahead(pending'[d].stamp, clock'[d])
                    /\ \A k \in Own(d)' : Ahead(pending'[d].stamp, k.stamp)
    <3>1. CASE d = c
      BY <3>1, <1>4, <1>10, <2>2, <2>3, <2>5, <2>6 DEF Inv, Covered
    <3>2. CASE d # c
      BY <3>2, <1>4, <1>10, <2>1 DEF Inv, Covered
    <3> QED BY <3>1, <3>2
  <2> QED BY <2>7 DEF Covered
<1> QED BY <1>8, <1>15, <1>16, <1>17, <1>18, <1>19 DEF Inv

LEMMA StepKeeps == ASSUME Inv, [Next]_vars PROVE Inv'
<1>1. ASSUME NEW c \in Clients, Edit(c) PROVE Inv'
  BY <1>1, EditKeeps
<1>2. ASSUME NEW c \in Clients, ApplyEdit(c) PROVE Inv'
  BY <1>2, ApplyEditKeeps
<1>3. ASSUME NEW c \in Clients, Start(c) PROVE Inv'
  <2>1. PICK since : since = IF lastSynced[c] = None THEN FromTime(wall - Ago) ELSE lastSynced[c]
    OBVIOUS
  <2>2. call' = [call EXCEPT ![c] = Request(c, since, 0, None, 0)]
    BY <1>3, <2>1 DEF Start
  <2> QED BY <1>3, <2>2, RequestKeeps DEF Start
<1>4. ASSUME NEW c \in Clients, Serve(c) PROVE Inv'
  BY <1>4, ServeKeeps
<1>5. ASSUME NEW c \in Clients, Receive(c) PROVE Inv'
  BY <1>5, ReceiveKeeps
<1>6. ASSUME NEW c \in Clients, InSync(c) PROVE Inv'
  BY <1>6, IdleKeeps DEF InSync
<1>7. ASSUME NEW c \in Clients, Again(c) PROVE Inv'
  <2>1. PICK count, untold :
          call' = [call EXCEPT ![c] = Request(c, FromTime(Found(c)), count, Found(c), untold)]
    BY <1>7 DEF Again
  <2> QED BY <1>7, <2>1, RequestKeeps DEF Again
<1>8. ASSUME NEW c \in Clients, GiveUp(c) PROVE Inv'
  BY <1>8, IdleKeeps DEF GiveUp
<1>9. ASSUME NEW c \in Clients, Lose(c) PROVE Inv'
  BY <1>9, IdleKeeps DEF Lose
<1>10. ASSUME NEW c \in Clients, Restart(c) PROVE Inv'
  BY <1>10, RestartKeeps
<1>11. CASE UNCHANGED vars
  BY <1>11 DEF vars, Inv, Typed, Finite, Theirs, OwnOnce, Covered, TablesShow, Written, Own,
     InTransit, Replicas!Shown, Replicas!To, Replicas!NewestOf, Replicas!Newer, Replicas!Ahead
<1> QED
  BY <1>1, <1>2, <1>3, <1>4, <1>5, <1>6, <1>7, <1>8, <1>9, <1>10, <1>11 DEF Next

LEMMA SyncInv == Spec => []Inv
<1>1. Init => Inv
  BY InitInv
<1>2. Inv /\ [Next]_vars => Inv'
  BY StepKeeps
<1> QED BY <1>1, <1>2, PTL DEF Spec

-----------------------------------------------------------------------------
(* A cell shows the newest message to it that the device has, in whatever     *)
(* order and however often they came, and nothing where there is none.        *)
THEOREM ShowsNewestHolds == Spec => []ShowsNewest
<1>1. ASSUME Inv PROVE ShowsNewest
  <2> SUFFICES ASSUME NEW c \in Clients, NEW cell \in Cells
               PROVE  LET to == InCell(cell, log[c]) IN
                        IF to = {} THEN table[c][cell] = None
                        ELSE \E m \in to : /\ table[c][cell] = m.stamp
                                           /\ \A k \in to : k = m \/ Newer(m.stamp, k.stamp)
    BY DEF ShowsNewest
  <2>1. log[c] \in SUBSET Written /\ IsFiniteSet(log[c])
    BY <1>1 DEF Inv, Finite, Written
  <2>2. Ordered(log[c])
    BY <1>1, <2>1, WrittenOrdered
  <2> DEFINE to == InCell(cell, log[c])
  <2>3. Ordered(to)
    <3>1. to \in SUBSET log[c]
      BY DEF InCell
    <3> QED BY <2>2, <3>1, OrderedSubset
  <2>4. table[c] = Replicas!Shown(log[c])
    BY <1>1 DEF Inv, TablesShow
  <2>5. table[c][cell] = IF to = {} THEN None ELSE NewestIn(to).stamp
    BY <2>4, ShownIs
  <2>6. to # {} => /\ NewestIn(to) \in to
                   /\ \A k \in to : k = NewestIn(to) \/ Newer(NewestIn(to).stamp, k.stamp)
    BY <2>3, NewestIsThere
  <2> QED BY <2>5, <2>6
<1> QED BY <1>1, SyncInv, PTL

(* Applying a change of one's own writes it; the receiving of others' teaches *)
(* a replica what is written; nothing else that happens shows outside.        *)
LEMMA ApplyEditWrites ==
  ASSUME Inv, NEW c \in Clients, ApplyEdit(c), TablesShow'
  PROVE  Replicas!Write(c)
<1>1. PICK m : m = pending[c]
  OBVIOUS
<1>2. pending[c] # None /\ Apply(c, {m}, clock[c])
  BY <1>1 DEF ApplyEdit
<1>3. /\ m \in Change /\ m.stamp.node = c
      /\ \A k \in Own(c) : Ahead(m.stamp, k.stamp)
      /\ \A k \in Written : k.stamp # m.stamp
  BY <1>1, <1>2, PendingIsNew
<1>4. Ordered(log[c] \cup {m})
  BY <1>1, <1>2, PendingOrdered
<1>5. {m} \in SUBSET Change
  BY <1>3
<1>6. /\ log' = [d \in Clients |-> IF d = c THEN log[c] \cup {m} ELSE log[d]]
      /\ Written' = Written \cup {m}
  BY <1>2, <1>4, <1>5, ApplyGains
<1>7. m \in Written' \ Written
  BY <1>3, <1>6
<1>8. \A k \in log[c] : k.stamp.node = m.stamp.node => Replicas!Newer(m.stamp, k.stamp)
  BY <1>3, SameNewest DEF Own, Newer
<1>9. log' = [log EXCEPT ![c] = @ \cup {m}]
  BY <1>2 DEF Apply
<1>10. table' = [table EXCEPT ![c] = Replicas!Shown(log[c] \cup {m})]
  <2>1. table = [d \in Clients |-> Replicas!Shown(log[d])]
    BY DEF Inv, TablesShow
  <2>2. table[c] = Replicas!Shown(log[c])
    BY <2>1
  <2>3. table' = [table EXCEPT ![c] = Set(table[c], log[c], {m})]
    BY <1>2 DEF Apply
  <2>4. Set(table[c], log[c], {m}) = Replicas!Shown(log[c] \cup {m})
    BY <1>4, <2>2, SetShows
  <2> QED BY <2>3, <2>4
<1>11. Replicas!Gains(c, {m})
  BY <1>9, <1>10 DEF Replicas!Gains
<1> QED BY <1>6, <1>7, <1>8, <1>11 DEF Replicas!Write, Written

LEMMA ReceiveLearns ==
  ASSUME Inv, NEW c \in Clients, Receive(c)
  PROVE  Replicas!Learn(c)
<1>1. PICK M, r : M = call[c].messages /\ Apply(c, M, r)
  BY DEF Receive
<1>2. /\ M \in SUBSET Written /\ M \in SUBSET Change
      /\ Ordered(log[c] \cup M)
  BY <1>1, ReceivedOrdered, WrittenOnce
<1>3. /\ log' = [d \in Clients |-> IF d = c THEN log[c] \cup M ELSE log[d]]
      /\ Written' = Written \cup M
  BY <1>1, <1>2, ApplyGains
<1>4. Written' = Written
  BY <1>2, <1>3
<1> DEFINE N == log'[c] \cap Written
<1>5. log[c] \cup N = log[c] \cup M
  BY <1>2, <1>3 DEF Written
<1>6. log' = [log EXCEPT ![c] = @ \cup N]
  <2>1. log' = [log EXCEPT ![c] = @ \cup M]
    BY <1>1 DEF Apply
  <2> QED BY <1>5, <2>1
<1>7. table' = [table EXCEPT ![c] = Replicas!Shown(log[c] \cup N)]
  <2>1. table = [d \in Clients |-> Replicas!Shown(log[d])]
    BY DEF Inv, TablesShow
  <2>2. table[c] = Replicas!Shown(log[c])
    BY <2>1
  <2>3. table' = [table EXCEPT ![c] = Set(table[c], log[c], M)]
    BY <1>1 DEF Apply
  <2>4. Set(table[c], log[c], M) = Replicas!Shown(log[c] \cup M)
    BY <1>2, <2>2, SetShows
  <2> QED BY <1>5, <2>3, <2>4
<1>8. Replicas!Gains(c, N)
  BY <1>6, <1>7 DEF Replicas!Gains
<1> QED BY <1>4, <1>8 DEF Replicas!Learn, Written

LEMMA StepIsReplicas ==
  ASSUME Inv, Inv', [Next]_vars
  PROVE  [Replicas!ReplicasNext]_(Replicas!replicaVars)
<1>1. ASSUME NEW c \in Clients, ApplyEdit(c) PROVE Replicas!ReplicasNext
  BY <1>1, ApplyEditWrites DEF Replicas!ReplicasNext, Inv
<1>2. ASSUME NEW c \in Clients, Receive(c) PROVE Replicas!ReplicasNext
  BY <1>2, ReceiveLearns DEF Replicas!ReplicasNext
<1>3. ASSUME UNCHANGED <<log, table>> PROVE UNCHANGED Replicas!replicaVars
  BY <1>3 DEF Replicas!replicaVars
<1>4. ASSUME NEW c \in Clients,
             \/ Edit(c) \/ Start(c) \/ Serve(c) \/ InSync(c) \/ Again(c)
             \/ GiveUp(c) \/ Lose(c) \/ Restart(c)
      PROVE  UNCHANGED <<log, table>>
  BY <1>4 DEF Edit, Start, Serve, InSync, Again, GiveUp, Lose, Restart
<1>5. CASE UNCHANGED vars
  BY <1>3, <1>5 DEF vars
<1> QED BY <1>1, <1>2, <1>3, <1>4, <1>5 DEF Next

(* Synchronising implements the replicas: no device ever has or shows what    *)
(* nobody wrote, each has its own changes in the order it made them, and      *)
(* shows the newest of what has reached it, whatever is lost on the way.      *)
THEOREM ImplementsHolds == Spec => Implements
<1>1. ASSUME Init PROVE Replicas!ReplicasInit
  <2>1. UNION {log[c] : c \in Clients} = {} /\ log = [c \in Clients |-> {}]
    BY <1>1 DEF Init
  <2>2. table = [c \in Clients |-> Replicas!Shown(log[c])]
    BY <1>1, InitInv DEF Inv, TablesShow
  <2>3. table = [c \in Clients |-> Replicas!Shown({})]
    BY <2>1, <2>2
  <2> QED BY <2>1, <2>3 DEF Replicas!ReplicasInit
<1>2. Inv /\ Inv' /\ [Next]_vars => [Replicas!ReplicasNext]_(Replicas!replicaVars)
  BY StepIsReplicas
<1> QED BY <1>1, <1>2, SyncInv, PTL DEF Spec, Implements, Replicas!ReplicasSpec

-----------------------------------------------------------------------------
(* The clocks.                                                               *)
LEMMA ClockNat ==
  /\ Nodes \subseteq Nat /\ ClockWall \in Nat /\ MaxMade \in Nat
  /\ ClockDrift \in Nat /\ ClockCounter \in Nat
BY ClocksAssumed DEF Clocks!ClockAssumed, Clocks!NodesNat, Clocks!WallNat

(* Sending moves the clock on, and no further than the wall clock is.        *)
LEMMA ClockSends ==
  ASSUME NEW c \in Clocks!Clock, NEW w \in Nat, Clocks!CanSend(c, w)
  PROVE  /\ Clocks!Sent(c, w) \in Clocks!Clock
         /\ Clocks!Ahead(Clocks!Sent(c, w), c)
         /\ \/ Clocks!Sent(c, w).millis = c.millis
            \/ Clocks!Sent(c, w).millis = w
  BY ClockNat DEF Clocks!Clock, Clocks!CanSend, Clocks!Sent, Clocks!Latest, Clocks!Ahead

(* Receiving moves the clock past both what it read and the message.         *)
LEMMA ClockReceives ==
  ASSUME NEW c \in Clocks!Clock, NEW w \in Nat, NEW s \in Clocks!Stamp, Clocks!CanReceive(c, w, s)
  PROVE  /\ Clocks!Received(c, w, s) \in Clocks!Clock
         /\ Clocks!Ahead(Clocks!Received(c, w, s), c)
         /\ Clocks!Ahead(Clocks!Received(c, w, s), s)
         /\ \/ Clocks!Received(c, w, s).millis = c.millis
            \/ Clocks!Received(c, w, s).millis = w
            \/ Clocks!Received(c, w, s).millis = s.millis
<1> DEFINE l == Clocks!Latest(Clocks!Latest(c.millis, w), s.millis)
           mine == IF l = c.millis THEN c.counter + 1 ELSE 0
           theirs == IF l = s.millis THEN s.counter + 1 ELSE 0
<1>1. /\ Clocks!Received(c, w, s).millis = l
      /\ Clocks!Received(c, w, s).counter = Clocks!Latest(mine, theirs)
      /\ Clocks!Received(c, w, s) = [millis |-> l, counter |-> Clocks!Latest(mine, theirs)]
  BY DEF Clocks!Received
<1>2. /\ l \in Nat /\ l >= c.millis /\ l >= s.millis
      /\ l = c.millis \/ l = w \/ l = s.millis
  BY DEF Clocks!Latest, Clocks!Clock, Clocks!Stamp
<1>3. /\ mine \in Nat /\ theirs \in Nat
      /\ Clocks!Latest(mine, theirs) \in Nat
      /\ Clocks!Latest(mine, theirs) >= mine /\ Clocks!Latest(mine, theirs) >= theirs
  <2>1. mine \in Nat /\ theirs \in Nat
    BY ClockNat DEF Clocks!Clock, Clocks!Stamp
  <2> HIDE DEF mine, theirs
  <2> QED BY <2>1 DEF Clocks!Latest
<1>4. Clocks!Latest(mine, theirs) <= ClockCounter
  BY <1>1 DEF Clocks!CanReceive
<1>5. Clocks!Ahead(Clocks!Received(c, w, s), c)
  <2>1. c.counter \in Nat /\ c.millis \in Nat BY ClockNat DEF Clocks!Clock
  <2>2. l = c.millis => Clocks!Latest(mine, theirs) >= c.counter + 1 BY <1>3
  <2> QED BY <2>1, <2>2, <1>1, <1>2, <1>3 DEF Clocks!Ahead
<1>6. Clocks!Ahead(Clocks!Received(c, w, s), s)
  <2>1. s.counter \in Nat /\ s.millis \in Nat BY ClockNat DEF Clocks!Stamp
  <2>2. l = s.millis => Clocks!Latest(mine, theirs) >= s.counter + 1 BY <1>3
  <2> QED BY <2>1, <2>2, <1>1, <1>2, <1>3 DEF Clocks!Ahead
<1>7. Clocks!Received(c, w, s) \in Clocks!Clock
  BY <1>1, <1>2, <1>3, <1>4, ClockNat DEF Clocks!Clock
<1> QED BY <1>1, <1>2, <1>5, <1>6, <1>7

(* Not ahead of a reading that another is ahead of: behind that one.         *)
LEMMA AheadOfAll ==
  ASSUME NEW s, NEW c, NEW d,
         s.millis \in Nat, s.counter \in Nat, c.millis \in Nat, c.counter \in Nat,
         d.millis \in Nat, d.counter \in Nat,
         ~Clocks!Ahead(s, c), Clocks!Ahead(d, c)
  PROVE  Clocks!Ahead(d, s) /\ ~Clocks!Ahead(s, d)
  BY DEF Clocks!Ahead

LEMMA ClockNotAhead ==
  ASSUME NEW s, NEW c, NEW d,
         s.millis \in Nat, s.counter \in Nat, c.millis \in Nat, c.counter \in Nat,
         d.millis \in Nat, d.counter \in Nat,
         ~Clocks!Ahead(s, c), ~Clocks!Ahead(c, d)
  PROVE  ~Clocks!Ahead(s, d)
  BY DEF Clocks!Ahead

LEMMA Readings ==
  /\ \A c \in Clocks!Clock : c.millis \in Nat /\ c.counter \in Nat
  /\ \A m \in Clocks!Message : m.stamp \in Clocks!Stamp /\ m.stamp.millis \in Nat /\ m.stamp.counter \in Nat
  BY ClockNat DEF Clocks!Clock, Clocks!Message, Clocks!Stamp

-----------------------------------------------------------------------------
Held(n) == logOf[n] \cup queue[n]

(* The saved clock covers what is applied, the one in memory all of it.      *)
ClockCovered == \A n \in Nodes :
  /\ ~Clocks!Ahead(savedOf[n], clockOf[n])
  /\ \A m \in queue[n] : ~Clocks!Ahead(m.stamp, clockOf[n])
  /\ \A m \in logOf[n] : ~Clocks!Ahead(m.stamp, savedOf[n])

(* What is elsewhere than with its maker, its maker has applied.             *)
ClockTheirs == \A o \in Nodes : \A m \in Held(o) :
  /\ m.stamp.node \in Nodes
  /\ m.stamp.node = o \/ m \in logOf[m.stamp.node]

ClockOwnOnce == \A n \in Nodes : \A a, b \in Held(n) :
  (a.stamp.node = n /\ a.stamp = b.stamp) => a = b

Numbered == \A n \in Nodes : \A m \in Held(n) : m.number < made

Below == \A n \in Nodes :
  /\ wallOf[n] <= highest
  /\ \A m \in Held(n) : m.stamp.millis <= highest

ClockInv == Clocks!TypeOK /\ ClockCovered /\ ClockTheirs /\ ClockOwnOnce /\ Numbered /\ Below /\ Clocks!NoRunaway

LEMMA ClockInit == Clocks!Init => ClockInv
<1> SUFFICES ASSUME Clocks!Init PROVE ClockInv OBVIOUS
<1>1. Clocks!Zero \in Clocks!Clock BY ClockNat DEF Clocks!Zero, Clocks!Clock
<1>2. Clocks!TypeOK BY <1>1 DEF Clocks!Init, Clocks!TypeOK
<1>3. \A n \in Nodes : Held(n) = {} BY DEF Clocks!Init, Held
<1>4. ClockCovered BY ClockNat DEF Clocks!Init, ClockCovered, Clocks!Zero, Clocks!Ahead
<1>5. Clocks!NoRunaway BY DEF Clocks!Init, Clocks!NoRunaway, Clocks!Zero
<1>6. Below BY <1>3 DEF Clocks!Init, Below
<1> QED BY <1>2, <1>3, <1>4, <1>5, <1>6 DEF ClockInv, ClockTheirs, ClockOwnOnce, Numbered

LEMMA ClockTickKeeps == ASSUME ClockInv, NEW n \in Nodes, Clocks!Tick(n) PROVE ClockInv'
<1>1. PICK w \in 0..ClockWall : wallOf' = [wallOf EXCEPT ![n] = w] /\ highest' = Clocks!Latest(highest, w)
  BY DEF Clocks!Tick
<1>2. UNCHANGED <<clockOf, savedOf, queue, logOf, made>> BY DEF Clocks!Tick
<1>3. highest' \in Nat /\ highest' >= highest /\ highest' >= w
  BY <1>1, ClockNat DEF ClockInv, Clocks!TypeOK, Clocks!Latest
<1>4. Clocks!TypeOK' BY <1>1, <1>2, <1>3, ClockNat DEF ClockInv, Clocks!TypeOK
<1>5. Clocks!NoRunaway'
  BY <1>2, <1>3, Readings DEF ClockInv, Clocks!NoRunaway, Clocks!TypeOK
<1>6. Below'
  <2> SUFFICES ASSUME NEW o \in Nodes
               PROVE  wallOf'[o] <= highest' /\ \A m \in Held(o)' : m.stamp.millis <= highest'
    BY DEF Below
  <2>1. wallOf'[o] <= highest'
    BY <1>1, <1>3, ClockNat DEF ClockInv, Clocks!TypeOK, Below
  <2>2. ASSUME NEW m \in Held(o)' PROVE m.stamp.millis <= highest'
    BY <2>2, <1>2, <1>3, Readings DEF ClockInv, Clocks!TypeOK, Below, Held
  <2> QED BY <2>1, <2>2
<1> QED BY <1>2, <1>4, <1>5, <1>6 DEF ClockInv, ClockCovered, ClockTheirs, ClockOwnOnce, Numbered, Held

LEMMA ClockMakeKeeps == ASSUME ClockInv, NEW n \in Nodes, Clocks!Make(n) PROVE ClockInv'
<1> DEFINE c == Clocks!Sent(clockOf[n], wallOf[n])
           m == [stamp |-> Clocks!Stamped(n, c), number |-> made]
<1>1. /\ Clocks!CanSend(clockOf[n], wallOf[n])
      /\ clockOf' = [clockOf EXCEPT ![n] = c]
      /\ queue' = [queue EXCEPT ![n] = @ \cup {m}]
      /\ made' = made + 1
      /\ UNCHANGED <<wallOf, savedOf, logOf, highest>>
  BY DEF Clocks!Make
<1>2. /\ c \in Clocks!Clock /\ Clocks!Ahead(c, clockOf[n])
      /\ c.millis = clockOf[n].millis \/ c.millis = wallOf[n]
  BY <1>1, ClockSends DEF ClockInv, Clocks!TypeOK
<1>3. /\ m \in Clocks!Message /\ m.number = made /\ m.stamp.node = n
      /\ m.stamp.millis = c.millis /\ m.stamp.counter = c.counter
  BY <1>2, ClockNat DEF ClockInv, Clocks!TypeOK, Clocks!Message, Clocks!Stamp, Clocks!Stamped, Clocks!Clock
<1> HIDE DEF c, m
<1>4. Clocks!TypeOK' BY <1>1, <1>2, <1>3 DEF ClockInv, Clocks!TypeOK
<1>5. \A o \in Nodes : Held(o)' = IF o = n THEN Held(n) \cup {m} ELSE Held(o)
  BY <1>1 DEF ClockInv, Clocks!TypeOK, Held
<1>6. \A o \in Nodes : Held(o) \subseteq Clocks!Message BY DEF ClockInv, Clocks!TypeOK, Held
<1>7. c.millis \in Nat /\ c.counter \in Nat BY <1>2, Readings
<1>8. \A k \in Held(n) : ~Clocks!Ahead(k.stamp, clockOf[n])
  <2> SUFFICES ASSUME NEW k \in logOf[n] PROVE ~Clocks!Ahead(k.stamp, clockOf[n])
    BY DEF Held, ClockInv, ClockCovered
  <2>1. k \in Clocks!Message /\ clockOf[n] \in Clocks!Clock /\ savedOf[n] \in Clocks!Clock BY DEF ClockInv, Clocks!TypeOK
  <2>2. ~Clocks!Ahead(k.stamp, savedOf[n]) /\ ~Clocks!Ahead(savedOf[n], clockOf[n]) BY DEF ClockInv, ClockCovered
  <2> QED BY <2>1, <2>2, Readings, ClockNotAhead
<1>9. \A k \in Held(n) : Clocks!Ahead(c, k.stamp) /\ ~Clocks!Ahead(k.stamp, c)
  <2> TAKE k \in Held(n)
  <2>1. k \in Clocks!Message /\ clockOf[n] \in Clocks!Clock BY <1>6 DEF ClockInv, Clocks!TypeOK
  <2> QED BY <2>1, <1>2, <1>7, <1>8, Readings, AheadOfAll
<1>10. ClockCovered'
  <2> SUFFICES ASSUME NEW o \in Nodes
               PROVE  /\ ~Clocks!Ahead(savedOf[o], clockOf'[o])
                      /\ \A k \in queue'[o] : ~Clocks!Ahead(k.stamp, clockOf'[o])
                      /\ \A k \in logOf[o] : ~Clocks!Ahead(k.stamp, savedOf[o])
    BY <1>1 DEF ClockCovered
  <2>1. CASE o # n
    BY <2>1, <1>1 DEF ClockInv, Clocks!TypeOK, ClockCovered
  <2>2. CASE o = n
    <3>1. clockOf'[o] = c BY <2>2, <1>1 DEF ClockInv, Clocks!TypeOK
    <3>2. ~Clocks!Ahead(savedOf[o], c)
      <4>1. savedOf[n] \in Clocks!Clock /\ clockOf[n] \in Clocks!Clock /\ ~Clocks!Ahead(savedOf[n], clockOf[n])
        BY DEF ClockInv, Clocks!TypeOK, ClockCovered
      <4> QED BY <4>1, <2>2, <1>2, <1>7, Readings, AheadOfAll
    <3>3. ~Clocks!Ahead(m.stamp, c) BY <1>3, <1>7 DEF Clocks!Ahead
    <3>4. queue'[o] = queue[n] \cup {m} BY <2>2, <1>1 DEF ClockInv, Clocks!TypeOK
    <3>5. \A k \in queue'[o] : ~Clocks!Ahead(k.stamp, c) BY <3>3, <3>4, <1>9 DEF Held
    <3> QED BY <3>1, <3>2, <3>5 DEF ClockInv, ClockCovered
  <2> QED BY <2>1, <2>2
<1>11. ClockTheirs' BY <1>1, <1>3, <1>5 DEF ClockInv, ClockTheirs
<1>12. ClockOwnOnce'
  <2> SUFFICES ASSUME NEW o \in Nodes, NEW a \in Held(o)', NEW b \in Held(o)',
                      a.stamp.node = o, a.stamp = b.stamp
               PROVE  a = b
    BY DEF ClockOwnOnce
  <2>1. CASE a \in Held(o) /\ b \in Held(o)
    BY <2>1 DEF ClockInv, ClockOwnOnce
  <2>2. CASE o = n /\ (a = m \/ b = m)
    <3>1. ASSUME NEW k \in Held(n), k.stamp = m.stamp PROVE FALSE
      BY <3>1, <1>3, <1>7, <1>9 DEF Clocks!Ahead
    <3> QED BY <2>2, <3>1, <1>5
  <2> QED BY <2>1, <2>2, <1>5
<1>13. Numbered'
  <2> SUFFICES ASSUME NEW o \in Nodes, NEW k \in Held(o)' PROVE k.number < made + 1
    BY <1>1 DEF Numbered
  <2>1. made \in Nat BY DEF ClockInv, Clocks!TypeOK
  <2>2. CASE k = m BY <2>1, <2>2, <1>3
  <2>3. CASE k \in Held(o)
    <3>1. k.number \in Nat BY <2>3, <1>6 DEF Clocks!Message
    <3> QED BY <3>1, <2>1, <2>3 DEF ClockInv, Numbered
  <2> QED BY <2>2, <2>3, <1>5
<1>14. c.millis <= highest
  BY <1>2 DEF ClockInv, Below, Clocks!NoRunaway
<1>15. Below'
  BY <1>1, <1>3, <1>5, <1>14 DEF ClockInv, Below
<1>16. Clocks!NoRunaway'
  BY <1>1, <1>14 DEF ClockInv, Clocks!TypeOK, Clocks!NoRunaway
<1> QED BY <1>4, <1>10, <1>11, <1>12, <1>13, <1>15, <1>16 DEF ClockInv

LEMMA ClockReceiveKeeps == ASSUME ClockInv, NEW n \in Nodes, Clocks!Receive(n) PROVE ClockInv'
<1>0. PICK m \in Clocks!Applied :
        /\ Clocks!CanReceive(clockOf[n], wallOf[n], m.stamp)
        /\ clockOf' = [clockOf EXCEPT ![n] = Clocks!Received(clockOf[n], wallOf[n], m.stamp)]
        /\ queue' = [queue EXCEPT ![n] = @ \cup {m}]
  BY DEF Clocks!Receive
<1>1. PICK o1 \in Nodes : m \in logOf[o1]
  BY DEF Clocks!Applied
<1>2. UNCHANGED <<wallOf, savedOf, logOf, made, highest>> BY DEF Clocks!Receive
<1> DEFINE c == Clocks!Received(clockOf[n], wallOf[n], m.stamp)
<1>3. m \in Clocks!Message /\ m.stamp \in Clocks!Stamp /\ m.stamp.millis \in Nat /\ m.stamp.counter \in Nat
  BY <1>1, Readings DEF ClockInv, Clocks!TypeOK
<1>4. /\ c \in Clocks!Clock /\ Clocks!Ahead(c, clockOf[n]) /\ Clocks!Ahead(c, m.stamp)
      /\ c.millis = clockOf[n].millis \/ c.millis = wallOf[n] \/ c.millis = m.stamp.millis
  BY <1>0, <1>1, <1>3, ClockReceives DEF ClockInv, Clocks!TypeOK
<1> HIDE DEF c
<1>5. clockOf' = [clockOf EXCEPT ![n] = c] BY <1>0, <1>1 DEF c
<1>6. Clocks!TypeOK' BY <1>0, <1>1, <1>2, <1>3, <1>4, <1>5 DEF ClockInv, Clocks!TypeOK
<1>7. \A o \in Nodes : Held(o)' = IF o = n THEN Held(n) \cup {m} ELSE Held(o)
  BY <1>0, <1>1, <1>2 DEF ClockInv, Clocks!TypeOK, Held
<1>8. c.millis \in Nat /\ c.counter \in Nat BY <1>4, Readings
<1>9. m \in Held(o1) BY <1>1 DEF Held
<1>10. m.stamp.node \in Nodes /\ m \in logOf[m.stamp.node]
  BY <1>1, <1>9 DEF ClockInv, ClockTheirs
<1>11. ClockCovered'
  <2> SUFFICES ASSUME NEW o \in Nodes
               PROVE  /\ ~Clocks!Ahead(savedOf[o], clockOf'[o])
                      /\ \A k \in queue'[o] : ~Clocks!Ahead(k.stamp, clockOf'[o])
                      /\ \A k \in logOf[o] : ~Clocks!Ahead(k.stamp, savedOf[o])
    BY <1>2 DEF ClockCovered
  <2>1. CASE o # n
    BY <2>1, <1>0, <1>1, <1>5 DEF ClockInv, Clocks!TypeOK, ClockCovered
  <2>2. CASE o = n
    <3>1. clockOf'[o] = c BY <2>2, <1>5 DEF ClockInv, Clocks!TypeOK
    <3>0. savedOf[n] \in Clocks!Clock /\ clockOf[n] \in Clocks!Clock /\ ~Clocks!Ahead(savedOf[n], clockOf[n])
      BY DEF ClockInv, Clocks!TypeOK, ClockCovered
    <3>2. ~Clocks!Ahead(savedOf[o], c)
      BY <3>0, <2>2, <1>4, <1>8, Readings, AheadOfAll
    <3>3. ~Clocks!Ahead(m.stamp, c) BY <1>3, <1>4, <1>8 DEF Clocks!Ahead
    <3>4. queue'[o] = queue[n] \cup {m} BY <2>2, <1>0 DEF ClockInv, Clocks!TypeOK
    <3>5. ASSUME NEW k \in queue[n] PROVE ~Clocks!Ahead(k.stamp, c)
      <4>1. k \in Clocks!Message /\ ~Clocks!Ahead(k.stamp, clockOf[n]) BY <3>5 DEF ClockInv, Clocks!TypeOK, ClockCovered
      <4> QED BY <4>1, <3>0, <1>4, <1>8, Readings, AheadOfAll
    <3> QED BY <3>1, <3>2, <3>3, <3>4, <3>5 DEF ClockInv, ClockCovered
  <2> QED BY <2>1, <2>2
<1>12. ClockTheirs' BY <1>2, <1>7, <1>10 DEF ClockInv, ClockTheirs
<1>13. ClockOwnOnce'
  <2> SUFFICES ASSUME NEW o \in Nodes, NEW a \in Held(o)', NEW b \in Held(o)',
                      a.stamp.node = o, a.stamp = b.stamp
               PROVE  a = b
    BY DEF ClockOwnOnce
  <2>1. m.stamp.node = n => m \in Held(n) BY <1>10 DEF Held
  <2>2. a \in Held(o) /\ b \in Held(o) BY <1>7, <2>1
  <2> QED BY <2>2 DEF ClockInv, ClockOwnOnce
<1>14. Numbered' BY <1>2, <1>7, <1>9 DEF ClockInv, Numbered
<1>15. m.stamp.millis <= highest BY <1>9 DEF ClockInv, Below
<1>16. c.millis <= highest BY <1>4, <1>15 DEF ClockInv, Below, Clocks!NoRunaway
<1>17. Below' BY <1>2, <1>7, <1>15 DEF ClockInv, Below
<1>18. Clocks!NoRunaway' BY <1>2, <1>5, <1>16 DEF ClockInv, Clocks!TypeOK, Clocks!NoRunaway
<1> QED BY <1>6, <1>11, <1>12, <1>13, <1>14, <1>17, <1>18 DEF ClockInv

LEMMA ClockApplyKeeps == ASSUME ClockInv, NEW n \in Nodes, Clocks!Apply(n) PROVE ClockInv'
<1>1. PICK m \in queue[n] :
        /\ logOf' = [logOf EXCEPT ![n] = @ \cup {m}]
        /\ queue' = [queue EXCEPT ![n] = @ \ {m}]
  BY DEF Clocks!Apply
<1>2. savedOf' = [savedOf EXCEPT ![n] = clockOf[n]] /\ UNCHANGED <<wallOf, clockOf, made, highest>>
  BY DEF Clocks!Apply
<1>3. Clocks!TypeOK' BY <1>1, <1>2 DEF ClockInv, Clocks!TypeOK
<1>4. \A o \in Nodes : Held(o)' = Held(o)
  BY <1>1 DEF ClockInv, Clocks!TypeOK, Held
<1>5. ClockCovered'
  <2> SUFFICES ASSUME NEW o \in Nodes
               PROVE  /\ ~Clocks!Ahead(savedOf'[o], clockOf[o])
                      /\ \A k \in queue'[o] : ~Clocks!Ahead(k.stamp, clockOf[o])
                      /\ \A k \in logOf'[o] : ~Clocks!Ahead(k.stamp, savedOf'[o])
    BY <1>2 DEF ClockCovered
  <2>1. CASE o # n
    BY <2>1, <1>1, <1>2 DEF ClockInv, Clocks!TypeOK, ClockCovered
  <2>2. CASE o = n
    <3>1. clockOf[n] \in Clocks!Clock /\ savedOf[n] \in Clocks!Clock /\ ~Clocks!Ahead(savedOf[n], clockOf[n])
      BY DEF ClockInv, Clocks!TypeOK, ClockCovered
    <3>2. savedOf'[o] = clockOf[n] /\ queue'[o] \subseteq queue[n] /\ logOf'[o] = logOf[n] \cup {m}
      BY <2>2, <1>1, <1>2 DEF ClockInv, Clocks!TypeOK
    <3>3. ~Clocks!Ahead(clockOf[n], clockOf[n]) BY <3>1, Readings DEF Clocks!Ahead
    <3>4. ASSUME NEW k \in logOf[n] PROVE ~Clocks!Ahead(k.stamp, clockOf[n])
      <4>1. k \in Clocks!Message /\ ~Clocks!Ahead(k.stamp, savedOf[n]) BY <3>4 DEF ClockInv, Clocks!TypeOK, ClockCovered
      <4> QED BY <4>1, <3>1, Readings, ClockNotAhead
    <3> QED BY <2>2, <3>2, <3>3, <3>4 DEF ClockInv, ClockCovered
  <2> QED BY <2>1, <2>2
<1>6. ClockTheirs'
  <2> SUFFICES ASSUME NEW o \in Nodes, NEW k \in Held(o)
               PROVE  /\ k.stamp.node \in Nodes
                      /\ k.stamp.node = o \/ k \in logOf'[k.stamp.node]
    BY <1>4 DEF ClockTheirs
  <2>1. k.stamp.node \in Nodes /\ (k.stamp.node = o \/ k \in logOf[k.stamp.node])
    BY DEF ClockInv, ClockTheirs
  <2>2. \A p \in Nodes : logOf[p] \subseteq logOf'[p] BY <1>1 DEF ClockInv, Clocks!TypeOK
  <2> QED BY <2>1, <2>2
<1>7. ClockOwnOnce' BY <1>4 DEF ClockInv, ClockOwnOnce
<1>8. Numbered' BY <1>2, <1>4 DEF ClockInv, Numbered
<1>9. Below' BY <1>2, <1>4 DEF ClockInv, Below
<1>10. Clocks!NoRunaway' BY <1>2 DEF ClockInv, Clocks!TypeOK, Clocks!NoRunaway
<1> QED BY <1>3, <1>5, <1>6, <1>7, <1>8, <1>9, <1>10 DEF ClockInv

LEMMA ClockAbandonKeeps == ASSUME ClockInv, NEW n \in Nodes, Clocks!Abandon(n) PROVE ClockInv'
<1>1. PICK m \in queue[n] : queue' = [queue EXCEPT ![n] = @ \ {m}]
  BY DEF Clocks!Abandon
<1>2. UNCHANGED <<wallOf, clockOf, savedOf, logOf, made, highest>> BY DEF Clocks!Abandon
<1>3. Clocks!TypeOK' BY <1>1, <1>2 DEF ClockInv, Clocks!TypeOK
<1>4. \A o \in Nodes : queue'[o] \subseteq queue[o] /\ Held(o)' \subseteq Held(o)
  BY <1>1, <1>2 DEF ClockInv, Clocks!TypeOK, Held
<1> QED BY <1>2, <1>3, <1>4
        DEF ClockInv, ClockCovered, ClockTheirs, ClockOwnOnce, Numbered, Below, Clocks!NoRunaway

LEMMA ClockRestartKeeps == ASSUME ClockInv, NEW n \in Nodes, Clocks!Restart(n) PROVE ClockInv'
<1>1. /\ clockOf' = [clockOf EXCEPT ![n] = savedOf[n]]
      /\ queue' = [queue EXCEPT ![n] = {}]
      /\ UNCHANGED <<wallOf, savedOf, logOf, made, highest>>
  BY DEF Clocks!Restart
<1>2. Clocks!TypeOK' BY <1>1 DEF ClockInv, Clocks!TypeOK
<1>3. \A o \in Nodes : queue'[o] \subseteq queue[o] /\ Held(o)' \subseteq Held(o)
  BY <1>1 DEF ClockInv, Clocks!TypeOK, Held
<1>4. ClockCovered'
  <2> SUFFICES ASSUME NEW o \in Nodes
               PROVE  /\ ~Clocks!Ahead(savedOf[o], clockOf'[o])
                      /\ \A k \in queue'[o] : ~Clocks!Ahead(k.stamp, clockOf'[o])
    BY <1>1 DEF ClockInv, ClockCovered
  <2>1. CASE o # n BY <2>1, <1>1 DEF ClockInv, Clocks!TypeOK, ClockCovered
  <2>2. CASE o = n
    <3>1. clockOf'[o] = savedOf[n] /\ queue'[o] = {} /\ savedOf[n] \in Clocks!Clock
      BY <2>2, <1>1 DEF ClockInv, Clocks!TypeOK
    <3> QED BY <2>2, <3>1, Readings DEF Clocks!Ahead
  <2> QED BY <2>1, <2>2
<1>5. Clocks!NoRunaway' BY <1>1 DEF ClockInv, Clocks!TypeOK, Clocks!NoRunaway
<1> QED BY <1>1, <1>2, <1>3, <1>4, <1>5 DEF ClockInv, ClockTheirs, ClockOwnOnce, Numbered, Below

LEMMA ClockStep == ClockInv /\ [Clocks!Next]_Clocks!vars => ClockInv'
<1> SUFFICES ASSUME ClockInv, [Clocks!Next]_Clocks!vars PROVE ClockInv' OBVIOUS
<1>1. CASE UNCHANGED Clocks!vars
  BY <1>1 DEF Clocks!vars, ClockInv, Clocks!TypeOK, ClockCovered, ClockTheirs, ClockOwnOnce, Numbered, Below, Clocks!NoRunaway, Held
<1>2. CASE Clocks!Next
  BY <1>2, ClockTickKeeps, ClockMakeKeeps, ClockReceiveKeeps, ClockApplyKeeps, ClockAbandonKeeps, ClockRestartKeeps
     DEF Clocks!Next
<1> QED BY <1>1, <1>2

(* The inductive invariant: covered, accounted for, below every wall clock.  *)
THEOREM ClockInvariant == Clocks!Spec => []ClockInv
  BY ClockInit, ClockStep, PTL DEF Clocks!Spec

(* Clocks and messages are of their types: counters never leave their width. *)
THEOREM ClockTypes == Clocks!Spec => []Clocks!TypeOK
<1>1. ClockInv => Clocks!TypeOK BY DEF ClockInv
<1> QED BY <1>1, ClockInvariant, PTL

LEMMA ClockInvUnique == ClockInv => Clocks!Unique
<1> SUFFICES ASSUME ClockInv, NEW a \in Clocks!Applied, NEW b \in Clocks!Applied, a.stamp = b.stamp
             PROVE  a = b
  BY DEF Clocks!Unique
<1> DEFINE n == a.stamp.node
<1>1. ASSUME NEW k \in Clocks!Applied PROVE k.stamp.node \in Nodes /\ k \in logOf[k.stamp.node]
  BY <1>1 DEF ClockInv, ClockTheirs, Held, Clocks!Applied
<1>2. n \in Nodes /\ a \in Held(n) /\ b \in Held(n) BY <1>1 DEF Held
<1> QED BY <1>2 DEF ClockInv, ClockOwnOnce

(* No timestamp is ever given to two messages, through restarts and clocks   *)
(* set back (timestamp.ts:9).                                                 *)
THEOREM ClockUnique == Clocks!Spec => []Unique
<1>1. ClockInv => Unique BY ClockInvUnique DEF Unique
<1> QED BY <1>1, ClockInvariant, PTL

(* Exchanging messages drives no clock ahead of every wall clock.            *)
THEOREM ClockNoRunaway == Clocks!Spec => []NoRunaway
<1>1. ClockInv => NoRunaway BY DEF ClockInv, NoRunaway
<1> QED BY <1>1, ClockInvariant, PTL

MadeNewer == \A n \in Nodes : \A m \in queue'[n] \ queue[n] :
  m.number = made => \A k \in logOf[n] : Clocks!Newer(m.stamp, k.stamp)

LEMMA StepNewer == ClockInv /\ [Clocks!Next]_Clocks!vars => MadeNewer
<1> SUFFICES ASSUME ClockInv, [Clocks!Next]_Clocks!vars, NEW n \in Nodes, NEW m \in queue'[n] \ queue[n],
                    m.number = made, NEW k \in logOf[n]
             PROVE  Clocks!Newer(m.stamp, k.stamp)
  BY DEF MadeNewer
<1>1. PICK o \in Nodes : Clocks!Make(o) \/ Clocks!Receive(o)
  <2>1. ASSUME NEW p \in Nodes, Clocks!Tick(p) \/ Clocks!Apply(p) \/ Clocks!Abandon(p) \/ Clocks!Restart(p) PROVE FALSE
    BY <2>1 DEF ClockInv, Clocks!TypeOK, Clocks!Tick, Clocks!Apply, Clocks!Abandon, Clocks!Restart
  <2>2. CASE UNCHANGED Clocks!vars BY <2>2 DEF Clocks!vars
  <2> QED BY <2>1, <2>2 DEF Clocks!Next
<1>2. CASE Clocks!Receive(o)
  <2>0. PICK x \in Clocks!Applied : queue' = [queue EXCEPT ![o] = @ \cup {x}]
    BY <1>2 DEF Clocks!Receive
  <2>1. PICK p \in Nodes : x \in logOf[p] BY DEF Clocks!Applied
  <2>2. m = x BY <2>0 DEF ClockInv, Clocks!TypeOK
  <2>3. m.number < made BY <2>1, <2>2 DEF ClockInv, Numbered, Held
  <2>4. made \in Nat BY DEF ClockInv, Clocks!TypeOK
  <2> QED BY <2>3, <2>4
<1>3. CASE Clocks!Make(o)
  <2> DEFINE c == Clocks!Sent(clockOf[o], wallOf[o])
  <2>1. /\ Clocks!CanSend(clockOf[o], wallOf[o])
        /\ queue' = [queue EXCEPT ![o] = @ \cup {[stamp |-> Clocks!Stamped(o, c), number |-> made]}]
    BY <1>3 DEF Clocks!Make
  <2>2. o = n /\ m.stamp.millis = c.millis /\ m.stamp.counter = c.counter
    BY <2>1 DEF ClockInv, Clocks!TypeOK, Clocks!Stamped
  <2>3. c \in Clocks!Clock /\ Clocks!Ahead(c, clockOf[n]) /\ c.millis \in Nat /\ c.counter \in Nat
    BY <2>1, <2>2, ClockSends, Readings DEF ClockInv, Clocks!TypeOK
  <2>4. /\ k \in Clocks!Message /\ savedOf[n] \in Clocks!Clock /\ clockOf[n] \in Clocks!Clock
        /\ ~Clocks!Ahead(k.stamp, savedOf[n]) /\ ~Clocks!Ahead(savedOf[n], clockOf[n])
    BY DEF ClockInv, Clocks!TypeOK, ClockCovered
  <2> HIDE DEF c
  <2>5. ~Clocks!Ahead(k.stamp, clockOf[n]) BY <2>4, Readings, ClockNotAhead
  <2>6. Clocks!Ahead(c, k.stamp) BY <2>3, <2>4, <2>5, Readings, AheadOfAll
  <2> QED BY <2>2, <2>3, <2>6 DEF Clocks!Newer, Clocks!Ahead
<1> QED BY <1>1, <1>2, <1>3

(* A change wins over every message its maker had applied (timestamp.ts:15). *)
THEOREM ClockLaterIsNewer == Clocks!Spec => LaterIsNewer
<1>1. ClockInv /\ [Clocks!Next]_Clocks!vars => [MadeNewer]_Clocks!vars BY StepNewer
<1> QED BY <1>1, ClockInvariant, PTL DEF Clocks!Spec, LaterIsNewer, Clocks!LaterIsNewer, MadeNewer

-----------------------------------------------------------------------------
(* The tries.  The powers of three and the value of a key are functions over *)
(* 0..N, each value from the one before it: there is such a function.        *)
EachFromLast(N, base, step, f) ==
  f[0] = base /\ \A i \in 1..N : f[i] = step[<<f[i - 1], i>>]

LEMMA Least ==
  ASSUME NEW S \in SUBSET Nat, S # {}
  PROVE  \E m \in S : \A n \in S : m <= n
<1>1. PICK R : R = OpToRel(<, Nat)
  OBVIOUS
<1>2. \A n, m \in Nat : n < m => <<n, m>> \in R
  <2>1. R = {ss \in Nat \X Nat : ss[1] < ss[2]}
    BY <1>1, Zenon DEF OpToRel
  <2> QED BY <2>1
<1>3. IsWellFoundedOn(R, Nat)
  BY <1>1, NatLessThanWellFounded, Zenon
<1>4. PICK m \in S : \A n \in S : <<n, m>> \notin R
  BY <1>3, WFMin
<1>5. ASSUME NEW n \in S PROVE m <= n
  <2>1. ~(n < m) /\ n \in Nat /\ m \in Nat
    BY <1>2, <1>4
  <2> QED BY <2>1
<1> QED BY <1>5

LEMMA EachFromLastIsThere ==
  ASSUME NEW N \in Nat, NEW base \in Nat, NEW step \in [Nat \X (1..N) -> Nat]
  PROVE  \E f \in [0..N -> Nat] : EachFromLast(N, base, step, f)
<1> DEFINE Good(n) == \E f \in [0..n -> Nat] : EachFromLast(n, base, step, f)
           Bad == {n \in 0..N : ~Good(n)}
<1>1. SUFFICES ASSUME Bad # {} PROVE FALSE
  <2>1. N \in 0..N
    OBVIOUS
  <2> QED BY <2>1
<1>2. PICK n \in Bad : \A k \in Bad : n <= k
  <2>1. Bad \in SUBSET Nat
    OBVIOUS
  <2> HIDE DEF Bad
  <2> QED BY <1>1, <2>1, Least
<1>3. n \in 0..N /\ ~Good(n)
  BY <1>2
<1>4. n # 0
  <2> DEFINE f == [i \in 0..0 |-> base]
  <2>1. f \in [0..0 -> Nat] /\ EachFromLast(0, base, step, f)
    BY DEF EachFromLast
  <2>2. Good(0)
    BY <2>1
  <2> QED BY <1>3, <2>2
<1>5. n - 1 \in 0..N /\ n \in 1..N /\ n - 1 \in Nat
  BY <1>3, <1>4
<1>6. Good(n - 1)
  <2>1. n - 1 \notin Bad
    BY <1>2, <1>5
  <2> QED BY <1>5, <2>1
<1>7. PICK f \in [0..(n - 1) -> Nat] : EachFromLast(n - 1, base, step, f)
  BY <1>6
<1> DEFINE g == [i \in 0..n |-> IF i = n THEN step[<<f[n - 1], n>>] ELSE f[i]]
<1>8. step[<<f[n - 1], n>>] \in Nat
  <2>1. f[n - 1] \in Nat
    BY <1>5, <1>7
  <2>2. <<f[n - 1], n>> \in Nat \X (1..N)
    BY <1>5, <2>1
  <2> QED BY <2>2
<1>9. \A i \in 0..n : g[i] \in Nat
  <2> TAKE i \in 0..n
  <2>1. CASE i = n
    BY <1>8, <2>1
  <2>2. CASE i # n
    <3>1. i \in 0..(n - 1)
      BY <1>5, <2>2
    <3> QED BY <1>7, <2>2, <3>1
  <2> QED BY <2>1, <2>2
<1>10. EachFromLast(n, base, step, g)
  <2>1. g[0] = base
    BY <1>4, <1>5, <1>7 DEF EachFromLast
  <2>2. ASSUME NEW i \in 1..n PROVE g[i] = step[<<g[i - 1], i>>]
    <3>1. i - 1 \in 0..n /\ i - 1 # n /\ i \in 0..n
      BY <1>5
    <3>2. g[i - 1] = f[i - 1]
      BY <3>1
    <3>3. CASE i = n
      BY <3>1, <3>2, <3>3
    <3>4. CASE i # n
      <4>1. i \in 1..(n - 1)
        BY <1>5, <3>4
      <4>2. f[i] = step[<<f[i - 1], i>>]
        BY <1>7, <4>1 DEF EachFromLast
      <4> QED BY <3>1, <3>2, <3>4, <4>2
    <3> QED BY <3>3, <3>4
  <2> HIDE DEF g
  <2> QED BY <2>1, <2>2 DEF EachFromLast
<1>11. g \in [0..n -> Nat]
  BY <1>9
<1> QED BY <1>3, <1>10, <1>11

LEMMA TriesTyped ==
  /\ PerMinute \in Nat \ {0} /\ Width \in Nat \ {0} /\ MaxMinute \in Nat
  /\ Tries!Power[Width] > MaxMinute
  /\ \A s \in TrieStamps : s.millis \in Nat /\ s.millis \div PerMinute <= MaxMinute
BY TriesAssumed DEF Tries!Assumed, Tries!TrieNat, Tries!ShortEnough, Tries!StampsInTime

LEMMA PowerIs ==
  /\ Tries!Power \in [0..Width -> Nat] /\ Tries!Power[0] = 1
  /\ \A n \in 1..Width : Tries!Power[n] = 3 * Tries!Power[n - 1]
<1> DEFINE step == [p \in Nat \X (1..Width) |-> 3 * p[1]]
           Rec(f) == f = [n \in 0..Width |-> IF n = 0 THEN 1 ELSE 3 * f[n - 1]]
<1>1. step \in [Nat \X (1..Width) -> Nat]
  OBVIOUS
<1>2. PICK f \in [0..Width -> Nat] : EachFromLast(Width, 1, step, f)
  <2>1. Width \in Nat /\ 1 \in Nat
    BY TriesTyped
  <2> HIDE DEF step
  <2> QED BY <1>1, <2>1, EachFromLastIsThere
<1>3. \A n \in 1..Width : f[n] = 3 * f[n - 1]
  <2>1. \A n \in 1..Width : n - 1 \in 0..Width /\ f[n - 1] \in Nat
    BY <1>2, TriesTyped
  <2> QED BY <1>2, <2>1 DEF EachFromLast
<1>4. Rec(f)
  <2>1. \A n \in 0..Width : f[n] = IF n = 0 THEN 1 ELSE 3 * f[n - 1]
    BY <1>2, <1>3, TriesTyped DEF EachFromLast
  <2> QED BY <1>2, <2>1
<1>5. Tries!Power = CHOOSE g : Rec(g)
  BY DEF Tries!Power
<1>6. Rec(Tries!Power)
  <2> HIDE DEF Rec
  <2> QED BY <1>4, <1>5
<1> DEFINE g == Tries!Power
<1>7. g = [n \in 0..Width |-> IF n = 0 THEN 1 ELSE 3 * g[n - 1]]
  BY <1>6
<1> HIDE DEF g
<1>8. g[0] = 1 /\ \A n \in 1..Width : g[n] = 3 * g[n - 1]
  <2>1. 0 \in 0..Width /\ \A n \in 1..Width : n \in 0..Width /\ n # 0
    BY TriesTyped
  <2> QED BY <1>7, <2>1
<1>9. \A n \in 0..Width : g[n] \in Nat
  <2> DEFINE Bad == {n \in 0..Width : g[n] \notin Nat}
  <2> SUFFICES ASSUME Bad # {} PROVE FALSE
    OBVIOUS
  <2>1. PICK n \in Bad : \A k \in Bad : n <= k
    <3>1. Bad \in SUBSET Nat
      OBVIOUS
    <3> HIDE DEF Bad
    <3> QED BY <3>1, Least
  <2>2. n # 0
    BY <1>8, <2>1
  <2>3. n \in 1..Width /\ n - 1 \in 0..Width /\ ~(n <= n - 1)
    BY <2>1, <2>2, TriesTyped
  <2>4. g[n - 1] \in Nat
    BY <2>1, <2>3
  <2>5. g[n] = 3 * g[n - 1]
    BY <1>8, <2>3
  <2> QED BY <2>1, <2>4, <2>5
<1>10. g \in [0..Width -> Nat]
  <2>1. g = [n \in 0..Width |-> g[n]]
    BY <1>7
  <2> QED BY <1>9, <2>1
<1> QED BY <1>8, <1>10 DEF g

LEMMA PowerPositive == \A n \in 0..Width : Tries!Power[n] \in Nat \ {0}
<1> DEFINE power == Tries!Power
<1>1. /\ power \in [0..Width -> Nat] /\ power[0] = 1
      /\ \A n \in 1..Width : power[n] = 3 * power[n - 1]
  BY PowerIs
<1> HIDE DEF power
<1> DEFINE Bad == {n \in 0..Width : power[n] = 0}
<1>2. Bad = {}
  <2> SUFFICES ASSUME Bad # {} PROVE FALSE
    OBVIOUS
  <2>1. PICK n \in Bad : \A k \in Bad : n <= k
    <3>1. Bad \in SUBSET Nat
      OBVIOUS
    <3> HIDE DEF Bad
    <3> QED BY <3>1, Least
  <2>2. n \in 1..Width /\ n - 1 \in 0..Width /\ ~(n <= n - 1)
    BY <1>1, <2>1, TriesTyped
  <2>3. power[n - 1] # 0 /\ power[n - 1] \in Nat /\ power[n] = 3 * power[n - 1]
    BY <1>1, <2>1, <2>2
  <2> QED BY <2>1, <2>3
<1> QED BY <1>1, <1>2 DEF power

(* Keys, and the fronts of them.                                             *)
Digits == Seq(0..2)

LEMMA FrontIs ==
  ASSUME NEW k \in Digits, NEW n \in 0..Len(k)
  PROVE  /\ Tries!Front(k, n) \in Digits /\ Len(Tries!Front(k, n)) = n
         /\ \A i \in 1..n : Tries!Front(k, n)[i] = k[i]
BY DEF Tries!Front, Digits

LEMMA SameDigits ==
  ASSUME NEW k \in Digits, NEW l \in Digits, Len(k) = Len(l), \A i \in 1..Len(k) : k[i] = l[i]
  PROVE  k = l
BY DEF Digits

LEMMA FrontOfFront ==
  ASSUME NEW k \in Digits, NEW n \in 0..Len(k), NEW m \in 0..n
  PROVE  Tries!Front(Tries!Front(k, n), m) = Tries!Front(k, m)
<1>1. n \in Nat /\ m \in Nat /\ m <= n /\ n <= Len(k) /\ Len(k) \in Nat
  BY DEF Digits
<1> DEFINE f == Tries!Front(k, n)
           a == Tries!Front(f, m)
           b == Tries!Front(k, m)
<1>2. f \in Digits /\ Len(f) = n /\ \A i \in 1..n : f[i] = k[i]
  BY FrontIs
<1> HIDE DEF f
<1>3. a \in Digits /\ Len(a) = m /\ \A i \in 1..m : a[i] = f[i]
  BY <1>2, FrontIs
<1>4. m \in 0..Len(k)
  BY <1>1
<1>5. b \in Digits /\ Len(b) = m /\ \A i \in 1..m : b[i] = k[i]
  BY <1>4, FrontIs
<1> HIDE DEF a, b
<1>6. \A i \in 1..m : i \in 1..n
  BY <1>1
<1>7. a = b
  BY <1>2, <1>3, <1>5, <1>6, SameDigits
<1> QED BY <1>7 DEF a, b, f

LEMMA FrontWhole ==
  ASSUME NEW k \in Digits
  PROVE  Tries!Front(k, Len(k)) = k /\ Tries!Front(k, 0) = <<>>
<1>1. Len(k) \in Nat /\ Len(k) \in 0..Len(k) /\ 0 \in 0..Len(k) /\ <<>> \in Digits /\ Len(<<>>) = 0
  BY DEF Digits
<1>2. Tries!Front(k, Len(k)) = k
  <2> DEFINE f == Tries!Front(k, Len(k))
  <2>1. f \in Digits /\ Len(f) = Len(k) /\ \A i \in 1..Len(k) : f[i] = k[i]
    BY <1>1, FrontIs
  <2> HIDE DEF f
  <2>2. f = k
    BY <2>1, SameDigits
  <2> QED BY <2>2 DEF f
<1>3. Tries!Front(k, 0) = <<>>
  <2>1. Tries!Front(k, 0) \in Digits /\ Len(Tries!Front(k, 0)) = 0
    BY <1>1, FrontIs
  <2> QED BY <2>1 DEF Digits
<1> QED BY <1>2, <1>3

LEMMA AppendIs ==
  ASSUME NEW k \in Digits, NEW d \in 0..2
  PROVE  /\ Append(k, d) \in Digits /\ Len(Append(k, d)) = Len(k) + 1 /\ Append(k, d)[Len(k) + 1] = d
         /\ \A i \in 1..Len(k) : Append(k, d)[i] = k[i]
         /\ \A n \in 0..Len(k) : Tries!Front(Append(k, d), n) = Tries!Front(k, n)
<1> DEFINE a == Append(k, d)
<1>1. /\ a \in Digits /\ Len(a) = Len(k) + 1 /\ a[Len(k) + 1] = d
      /\ \A i \in 1..Len(k) : a[i] = k[i]
  BY DEF Digits
<1> HIDE DEF a
<1>2. ASSUME NEW n \in 0..Len(k) PROVE Tries!Front(a, n) = Tries!Front(k, n)
  <2> DEFINE f == Tries!Front(a, n)
             g == Tries!Front(k, n)
  <2>1. n \in 0..Len(a) /\ n \in Nat /\ n <= Len(k) /\ Len(k) \in Nat
    BY <1>1 DEF Digits
  <2>2. f \in Digits /\ Len(f) = n /\ \A i \in 1..n : f[i] = a[i]
    BY <1>1, <2>1, FrontIs
  <2>3. g \in Digits /\ Len(g) = n /\ \A i \in 1..n : g[i] = k[i]
    BY FrontIs
  <2> HIDE DEF f, g
  <2>4. \A i \in 1..n : i \in 1..Len(k)
    BY <2>1
  <2>5. f = g
    BY <1>1, <2>2, <2>3, <2>4, SameDigits
  <2> QED BY <2>5 DEF f, g
<1> QED BY <1>1, <1>2 DEF a

LEMMA FrontNext ==
  ASSUME NEW k \in Digits, NEW n \in 1..Len(k)
  PROVE  k[n] \in 0..2 /\ Append(Tries!Front(k, n - 1), k[n]) = Tries!Front(k, n)
<1> DEFINE f == Tries!Front(k, n - 1)
           g == Tries!Front(k, n)
           a == Append(f, k[n])
<1>1. n - 1 \in 0..Len(k) /\ n \in 0..Len(k) /\ n \in Nat /\ k[n] \in 0..2
  BY DEF Digits
<1>2. f \in Digits /\ Len(f) = n - 1 /\ \A i \in 1..(n - 1) : f[i] = k[i]
  BY <1>1, FrontIs
<1>3. g \in Digits /\ Len(g) = n /\ \A i \in 1..n : g[i] = k[i]
  BY <1>1, FrontIs
<1> HIDE DEF f, g
<1>4. a \in Digits /\ Len(a) = n /\ a[n] = k[n] /\ \A i \in 1..(n - 1) : a[i] = f[i]
  <2>1. Len(f) + 1 = n
    BY <1>1, <1>2
  <2> QED BY <1>1, <1>2, <2>1, AppendIs
<1> HIDE DEF a
<1>5. \A i \in 1..n : a[i] = g[i]
  <2>1. \A i \in 1..n : i = n \/ i \in 1..(n - 1)
    BY <1>1
  <2> QED BY <1>2, <1>3, <1>4, <2>1
<1>6. a = g
  BY <1>3, <1>4, <1>5, SameDigits
<1> QED BY <1>1, <1>6 DEF a, f, g

(* The minute of a timestamp.                                                *)
MinuteOf(s) == s.millis \div PerMinute

LEMMA KeyIs ==
  ASSUME NEW s \in TrieStamps
  PROVE  /\ Tries!KeyOf(s) \in Digits /\ Len(Tries!KeyOf(s)) \in 1..Width
         /\ MinuteOf(s) \in Nat /\ MinuteOf(s) < Tries!Power[Len(Tries!KeyOf(s))]
         /\ \A i \in 1..Len(Tries!KeyOf(s)) :
              Tries!KeyOf(s)[i] = (MinuteOf(s) \div Tries!Power[Len(Tries!KeyOf(s)) - i]) % 3
<1> DEFINE m == MinuteOf(s)
           power == Tries!Power
           Fits(n) == power[n] > m /\ (n = 1 \/ power[n - 1] <= m)
           l == CHOOSE n \in 1..Width : Fits(n)
<1>1. m \in 0..MaxMinute
  <2>1. s.millis \in Nat /\ PerMinute \in Nat \ {0} /\ m <= MaxMinute /\ MaxMinute \in Nat
    BY TriesTyped DEF MinuteOf
  <2>2. m \in Nat
    BY <2>1 DEF MinuteOf
  <2> QED BY <2>1, <2>2
<1>2. power \in [0..Width -> Nat] /\ power[Width] > MaxMinute /\ Width \in Nat \ {0}
  BY PowerIs, TriesTyped
<1> HIDE DEF power, m
<1>3. \E n \in 1..Width : Fits(n)
  <2> DEFINE A == {n \in 1..Width : power[n] > m}
  <2>1. Width \in A
    <3>1. Width \in 0..Width /\ Width \in 1..Width /\ MaxMinute \in Nat
      BY <1>2, TriesTyped
    <3>2. power[Width] \in Nat /\ m \in Nat /\ m <= MaxMinute
      BY <1>1, <1>2, <3>1
    <3> QED BY <1>2, <3>1, <3>2
  <2>2. PICK n \in A : \A j \in A : n <= j
    <3>1. A \in SUBSET Nat /\ A # {}
      BY <2>1
    <3> HIDE DEF A
    <3> QED BY <3>1, Least
  <2>3. n = 1 \/ n - 1 \in 1..Width
    <3>1. n \in 1..Width
      BY <2>2
    <3> QED BY <1>2, <3>1
  <2>4. n = 1 \/ power[n - 1] <= m
    <3> SUFFICES ASSUME n # 1 PROVE power[n - 1] <= m
      OBVIOUS
    <3>1. n - 1 \notin A /\ n - 1 \in 1..Width /\ n - 1 \in 0..Width
      BY <2>2, <2>3
    <3>2. power[n - 1] \in Nat /\ m \in Nat
      BY <1>1, <1>2, <3>1
    <3> QED BY <3>1, <3>2
  <2> QED BY <2>2, <2>4
<1>4. l \in 1..Width /\ Fits(l)
  <2> HIDE DEF Fits
  <2> QED BY <1>3
<1> DEFINE key == [i \in 1..l |-> (m \div power[l - i]) % 3]
<1>5. Tries!KeyOf(s) = key
  BY <1>1 DEF Tries!KeyOf, Tries!Key, m, power, MinuteOf
<1> HIDE DEF l
<1>6. \A i \in 1..l : (m \div power[l - i]) % 3 \in 0..2
  <2> TAKE i \in 1..l
  <2>1. l - i \in 0..Width
    BY <1>2, <1>4
  <2>2. power[l - i] \in Nat \ {0}
    BY <2>1, PowerPositive DEF power
  <2>3. m \div power[l - i] \in Nat
    BY <1>1, <2>2
  <2> QED BY <2>3
<1>7. key \in Digits /\ Len(key) = l /\ \A i \in 1..l : key[i] = (m \div power[l - i]) % 3
  <2>1. l \in Nat
    BY <1>4
  <2>2. key \in [1..l -> 0..2]
    BY <1>6
  <2> QED BY <2>1, <2>2 DEF Digits
<1> HIDE DEF key
<1> QED BY <1>1, <1>4, <1>5, <1>7 DEF m, power

-----------------------------------------------------------------------------
(* The nodes there are of a set of timestamps, and those of them that stay.  *)
NodesOf(S) == {<<>>} \cup UNION {Tries!Path(s) : s \in S}
OnWay(S, k) == {s \in S : Tries!OnPath(k, s)}

Stays(D, k) == \A n \in 1..Len(k) :
  ~(/\ k[n] = 0
    /\ Append(Tries!Front(k, n - 1), 1) \in D /\ Append(Tries!Front(k, n - 1), 2) \in D)

TrieNodes(S) == {k \in NodesOf(S) : Stays(NodesOf(S), k)}
TrieOf(S) == [k \in TrieNodes(S) |-> OnWay(S, k)]

LEMMA NodesAre ==
  ASSUME NEW S \in SUBSET TrieStamps
  PROVE  /\ NodesOf(S) \subseteq Digits
         /\ \A k \in Digits : k \in NodesOf(S) <=> k = <<>> \/ OnWay(S, k) # {}
         /\ \A k \in NodesOf(S) : Len(k) \in 0..Width
<1>1. <<>> \in Digits /\ Len(<<>>) = 0
  BY DEF Digits
<1>2. ASSUME NEW s \in S, NEW k \in Tries!Path(s)
      PROVE  k \in Digits /\ Tries!OnPath(k, s) /\ Len(k) \in 0..Width
  <2> DEFINE key == Tries!KeyOf(s)
  <2>1. PICK n \in 0..Len(key) : k = Tries!Front(key, n)
    BY <1>2 DEF Tries!Path
  <2>2. key \in Digits /\ Len(key) \in 1..Width
    BY KeyIs
  <2>3. k \in Digits /\ Len(k) = n
    BY <2>1, <2>2, FrontIs
  <2> QED BY <2>1, <2>2, <2>3, TriesTyped DEF Tries!OnPath
<1>3. ASSUME NEW s \in S, NEW k \in Digits, Tries!OnPath(k, s)
      PROVE  k \in Tries!Path(s)
  <2>1. Len(k) \in Nat /\ Tries!KeyOf(s) \in Digits /\ Len(Tries!KeyOf(s)) \in Nat
    BY KeyIs DEF Digits
  <2> QED BY <1>3, <2>1 DEF Tries!Path, Tries!OnPath
<1>4. ASSUME NEW k \in NodesOf(S) PROVE k \in Digits /\ Len(k) \in 0..Width
  BY <1>1, <1>2, TriesTyped DEF NodesOf
<1>5. ASSUME NEW k \in Digits PROVE k \in NodesOf(S) <=> k = <<>> \/ OnWay(S, k) # {}
  BY <1>2, <1>3 DEF NodesOf, OnWay
<1> QED BY <1>4, <1>5

LEMMA FrontsAreNodes ==
  ASSUME NEW S \in SUBSET TrieStamps, NEW k \in NodesOf(S), NEW n \in 0..Len(k)
  PROVE  Tries!Front(k, n) \in NodesOf(S)
<1>1. k \in Digits
  BY NodesAre
<1> DEFINE f == Tries!Front(k, n)
<1>2. f \in Digits /\ Len(f) = n
  BY <1>1, FrontIs
<1>3. CASE k = <<>>
  <2>1. n = 0 /\ f = <<>>
    BY <1>1, <1>3, FrontWhole
  <2> QED BY <2>1 DEF NodesOf
<1>4. ASSUME NEW s \in S, Tries!OnPath(k, s) PROVE Tries!OnPath(f, s)
  <2> DEFINE key == Tries!KeyOf(s)
  <2>1. key \in Digits /\ Len(key) \in Nat /\ Len(k) \in Nat
    BY <1>1, KeyIs DEF Digits
  <2>2. Len(k) <= Len(key) /\ k = Tries!Front(key, Len(k))
    BY <1>4 DEF Tries!OnPath
  <2> HIDE DEF key
  <2>3. Len(k) \in 0..Len(key)
    BY <2>1, <2>2
  <2>4. Tries!Front(Tries!Front(key, Len(k)), n) = Tries!Front(key, n)
    BY <2>1, <2>3, FrontOfFront
  <2>5. f = Tries!Front(key, n) /\ n <= Len(key)
    BY <2>1, <2>2, <2>4
  <2> QED BY <1>2, <2>5 DEF Tries!OnPath, key
<1>5. CASE k # <<>>
  <2>1. OnWay(S, k) # {}
    BY <1>1, <1>5, NodesAre
  <2>2. OnWay(S, f) # {}
    BY <1>4, <2>1 DEF OnWay
  <2> HIDE DEF f
  <2>3. f \in NodesOf(S)
    BY <1>2, <2>2, NodesAre
  <2> QED BY <2>3 DEF f
<1> QED BY <1>3, <1>5

LEMMA KeptIs ==
  ASSUME NEW t, NEW k, NEW d \in 0..2
  PROVE  Tries!Kept(t, k, d) <=>
           ~(d = 0 /\ Append(k, 1) \in DOMAIN t /\ Append(k, 2) \in DOMAIN t)
<1>1. 0..2 = {0, 1, 2}
  OBVIOUS
<1> QED BY <1>1 DEF Tries!Kept, Tries!Branches

LEMMA PruneIs ==
  ASSUME NEW t, DOMAIN t \subseteq Digits
  PROVE  Tries!Prune(t) = [k \in {k \in DOMAIN t : Stays(DOMAIN t, k)} |-> t[k]]
<1>1. ASSUME NEW k \in DOMAIN t
      PROVE  (\A n \in 1..Len(k) : Tries!Kept(t, Tries!Front(k, n - 1), k[n])) <=> Stays(DOMAIN t, k)
  <2>1. \A n \in 1..Len(k) : k[n] \in 0..2
    BY DEF Digits
  <2> QED BY <2>1, KeptIs DEF Stays
<1>2. {k \in DOMAIN t : \A n \in 1..Len(k) : Tries!Kept(t, Tries!Front(k, n - 1), k[n])}
        = {k \in DOMAIN t : Stays(DOMAIN t, k)}
  BY <1>1
<1> QED BY <1>2 DEF Tries!Prune

LEMMA TrieIs ==
  ASSUME NEW S \in SUBSET TrieStamps
  PROVE  Tries!Trie(S) = TrieOf(S)
<1> DEFINE t == Tries!InsertAll(Tries!EmptyTrie, S)
<1>1. DOMAIN t = NodesOf(S) /\ \A k \in NodesOf(S) : t[k] = OnWay(S, k)
  BY DEF Tries!InsertAll, Tries!EmptyTrie, Tries!HashAt, Tries!Xor, NodesOf, OnWay
<1>2. Tries!Trie(S) = Tries!Prune(t)
  BY DEF Tries!Trie
<1> HIDE DEF t
<1>3. Tries!Prune(t) = [k \in TrieNodes(S) |-> t[k]]
  BY <1>1, NodesAre, PruneIs DEF TrieNodes
<1>4. \A k \in TrieNodes(S) : t[k] = OnWay(S, k)
  BY <1>1 DEF TrieNodes
<1> QED BY <1>2, <1>3, <1>4 DEF TrieOf

(* What is pruned once would be pruned again: the trie of what was there,    *)
(* with what is new put in and pruned, is the trie of all of it.             *)
LEMMA TrieGrows ==
  ASSUME NEW H \in SUBSET TrieStamps, NEW N \in SUBSET TrieStamps, H \cap N = {}
  PROVE  Tries!Prune(Tries!InsertAll(TrieOf(H), N)) = TrieOf(H \cup N)
<1> DEFINE A == NodesOf(H \cup N)
           D == TrieNodes(H) \cup NodesOf(N)
           t == Tries!InsertAll(TrieOf(H), N)
<1>0. H \cup N \in SUBSET TrieStamps
  OBVIOUS
<1>1. A = NodesOf(H) \cup NodesOf(N)
  BY DEF NodesOf
<1>2. D \subseteq A /\ NodesOf(H) \subseteq A /\ A \subseteq Digits /\ NodesOf(N) \subseteq D
  BY <1>0, <1>1, NodesAre DEF TrieNodes
<1>3. <<>> \in TrieNodes(H)
  BY DEF TrieNodes, NodesOf, Stays
<1>4. DOMAIN t = D
  <2>1. DOMAIN TrieOf(H) = TrieNodes(H)
    BY DEF TrieOf
  <2> QED BY <1>3, <2>1 DEF Tries!InsertAll, NodesOf
<1>5. \A k \in D : t[k] = Tries!Xor(Tries!HashAt(TrieOf(H), k), OnWay(N, k))
  <2>1. \A k \in DOMAIN t : t[k] = Tries!Xor(Tries!HashAt(TrieOf(H), k), OnWay(N, k))
    BY DEF Tries!InsertAll, OnWay
  <2> QED BY <1>4, <2>1
<1> HIDE DEF A, t
<1>6. ASSUME NEW k \in A, Stays(A, k)
      PROVE  /\ k \in D /\ Stays(D, k)
             /\ k \in NodesOf(H) => k \in TrieNodes(H)
  <2>1. Stays(D, k) /\ Stays(NodesOf(H), k)
    BY <1>2, <1>6 DEF Stays
  <2>2. k \in NodesOf(H) => k \in TrieNodes(H)
    BY <2>1 DEF TrieNodes
  <2> QED BY <1>1, <1>6, <2>1, <2>2
<1>7. ASSUME NEW k \in D, Stays(D, k)
      PROVE  Stays(A, k)
  <2> DEFINE Gone(n) == /\ k[n] = 0 /\ Append(Tries!Front(k, n - 1), 1) \in A
                        /\ Append(Tries!Front(k, n - 1), 2) \in A
             Bad == {n \in 1..Len(k) : Gone(n)}
  <2>0. k \in Digits /\ Len(k) \in Nat
    BY <1>2, <1>7 DEF Digits
  <2> SUFFICES ASSUME Bad # {} PROVE FALSE
    BY DEF Stays
  <2>1. PICK n \in Bad : \A m \in Bad : n <= m
    <3>1. Bad \in SUBSET Nat
      OBVIOUS
    <3> HIDE DEF Bad
    <3> QED BY <3>1, Least
  <2>2. n \in 1..Len(k) /\ Gone(n) /\ n - 1 \in 0..Len(k) /\ n \in Nat
    BY <2>0, <2>1
  <2> DEFINE p == Tries!Front(k, n - 1)
  <2>3. p \in Digits /\ Len(p) = n - 1 /\ \A i \in 1..(n - 1) : p[i] = k[i]
    BY <2>0, <2>2, FrontIs
  <2>4. \A m \in 0..(n - 1) : Tries!Front(p, m) = Tries!Front(k, m)
    BY <2>0, <2>2, FrontOfFront
  <2>5. ASSUME NEW d \in {1, 2}, Append(p, d) \in A PROVE Append(p, d) \in D
    <3> DEFINE q == Append(p, d)
    <3> HIDE DEF p
    <3>1. /\ q \in Digits /\ Len(q) = n /\ q[n] = d
          /\ \A i \in 1..(n - 1) : q[i] = p[i]
          /\ \A m \in 0..(n - 1) : Tries!Front(q, m) = Tries!Front(p, m)
      <4>1. d \in 0..2 /\ Len(p) + 1 = n
        BY <2>2, <2>3
      <4> QED BY <2>3, <4>1, AppendIs
    <3> HIDE DEF q
    <3>2. CASE q \in NodesOf(N)
      BY <1>2, <3>2 DEF q
    <3>3. CASE q \in NodesOf(H)
      <4>1. ASSUME NEW m \in 1..Len(q), q[m] = 0,
                   Append(Tries!Front(q, m - 1), 1) \in NodesOf(H),
                   Append(Tries!Front(q, m - 1), 2) \in NodesOf(H)
            PROVE  FALSE
        <5>1. m # n
          BY <3>1, <4>1
        <5>2. m \in 1..(n - 1) /\ m - 1 \in 0..(n - 1) /\ m \in 1..Len(k) /\ ~(n <= m)
          BY <2>2, <3>1, <5>1
        <5>3. k[m] = 0 /\ Tries!Front(q, m - 1) = Tries!Front(k, m - 1)
          BY <2>3, <2>4, <3>1, <4>1, <5>2
        <5>4. m \in Bad
          BY <1>2, <4>1, <5>2, <5>3
        <5> QED BY <2>1, <5>2, <5>4
      <4>2. Stays(NodesOf(H), q)
        BY <4>1 DEF Stays
      <4> QED BY <3>3, <4>2 DEF TrieNodes, q
    <3> QED BY <1>1, <2>5, <3>2, <3>3 DEF q
  <2>6. Append(p, 1) \in D /\ Append(p, 2) \in D /\ k[n] = 0
    BY <2>2, <2>5
  <2> HIDE DEF D
  <2> QED BY <1>7, <2>2, <2>6 DEF Stays
<1>8. Tries!Prune(t) = [k \in {k \in D : Stays(D, k)} |-> t[k]]
  <2>1. D \subseteq Digits
    BY <1>2
  <2> HIDE DEF D
  <2> QED BY <1>4, <2>1, PruneIs
<1>9. {k \in D : Stays(D, k)} = TrieNodes(H \cup N)
  BY <1>2, <1>6, <1>7 DEF TrieNodes, A
<1>10. ASSUME NEW k \in TrieNodes(H \cup N)
       PROVE  t[k] = OnWay(H \cup N, k)
  <2>1. k \in A /\ Stays(A, k) /\ k \in D /\ k \in Digits
    BY <1>2, <1>6, <1>10 DEF TrieNodes, A
  <2>2. CASE k \in TrieNodes(H)
    <3>1. Tries!HashAt(TrieOf(H), k) = OnWay(H, k)
      BY <2>2 DEF Tries!HashAt, TrieOf
    <3> QED BY <1>5, <2>1, <3>1 DEF Tries!Xor, OnWay
  <2>3. CASE k \notin TrieNodes(H)
    <3>1. Tries!HashAt(TrieOf(H), k) = {}
      BY <2>3 DEF Tries!HashAt, TrieOf
    <3>2. k \notin NodesOf(H)
      BY <1>6, <2>1, <2>3
    <3>3. OnWay(H, k) = {}
      BY <2>1, <3>2, NodesAre
    <3> QED BY <1>5, <2>1, <3>1, <3>3 DEF Tries!Xor, OnWay
  <2> QED BY <2>2, <2>3
<1>11. Tries!Prune(t) = TrieOf(H \cup N)
  <2> HIDE DEF D
  <2> QED BY <1>8, <1>9, <1>10 DEF TrieOf
<1> QED BY <1>11 DEF t

TriesInv ==
  /\ held \in [Tries!Sides -> SUBSET TrieStamps]
  /\ trie = [o \in Tries!Sides |-> TrieOf(held[o])]

LEMMA TriesStep == TriesInv /\ [Tries!Next]_triesVars => TriesInv'
<1> SUFFICES ASSUME TriesInv, [Tries!Next]_triesVars PROVE TriesInv'
  OBVIOUS
<1> USE DEF TriesInv
<1>1. ASSUME NEW o \in Tries!Sides, NEW S \in SUBSET TrieStamps
      PROVE  Tries!TrieWith(o, S) = TrieOf(held[o] \cup S)
  <2>1. held[o] \in SUBSET TrieStamps /\ S \ held[o] \in SUBSET TrieStamps
        /\ held[o] \cap (S \ held[o]) = {} /\ held[o] \cup (S \ held[o]) = held[o] \cup S
    OBVIOUS
  <2>2. Tries!Prune(Tries!InsertAll(TrieOf(held[o]), S \ held[o])) = TrieOf(held[o] \cup S)
    BY <2>1, TrieGrows
  <2> QED BY <2>2 DEF Tries!TrieWith
<1>2. ASSUME NEW o \in Tries!Sides, Tries!Add(o) PROVE TriesInv'
  <2>1. PICK r \in TrieStamps \ held[o], s \in TrieStamps \ held[o] :
          /\ held' = [held EXCEPT ![o] = held[o] \cup {r, s}]
          /\ trie' = [trie EXCEPT ![o] = Tries!TrieWith(o, {r, s})]
    BY <1>2 DEF Tries!Add
  <2>2. trie' = [trie EXCEPT ![o] = TrieOf(held[o] \cup {r, s})]
    BY <1>1, <2>1
  <2>3. held' \in [Tries!Sides -> SUBSET TrieStamps]
    BY <2>1
  <2>4. \A p \in Tries!Sides : trie'[p] = TrieOf(held'[p])
    BY <2>1, <2>2
  <2>5. trie' = [p \in Tries!Sides |-> trie'[p]]
    BY <2>2
  <2> QED BY <2>3, <2>4, <2>5
<1>3. CASE Tries!Exchange
  <2> DEFINE both == Tries!From(held["client"] \cup held["server"],
                                Tries!Diff(trie["client"], trie["server"]))
  <2>1. /\ held' = [o \in Tries!Sides |-> held[o] \cup both]
        /\ trie' = [o \in Tries!Sides |-> Tries!TrieWith(o, both)]
    BY <1>3 DEF Tries!Exchange
  <2>2. both \in SUBSET TrieStamps
    BY DEF Tries!From, Tries!Sides
  <2> HIDE DEF both
  <2>3. \A o \in Tries!Sides : Tries!TrieWith(o, both) = TrieOf(held[o] \cup both)
    BY <1>1, <2>2
  <2> QED BY <2>1, <2>2, <2>3
<1>4. CASE UNCHANGED triesVars
  BY <1>4 DEF triesVars, TrieOf, TrieNodes, OnWay, Stays, NodesOf
<1> QED BY <1>2, <1>3, <1>4 DEF Tries!Next

LEMMA TriesInvariant == MCSpec => []TriesInv
<1>1. MCInit => TriesInv
  <2> SUFFICES ASSUME MCInit PROVE TriesInv
    OBVIOUS
  <2>1. /\ held = [o \in Tries!Sides |-> {}]
        /\ trie = [o \in Tries!Sides |-> Tries!EmptyTrie]
    BY DEF MCInit, Tries!Init
  <2>2. TrieOf({}) = Tries!EmptyTrie
    <3>1. NodesOf({}) = {<<>>} /\ TrieNodes({}) = {<<>>} /\ \A k : OnWay({}, k) = {}
      BY DEF NodesOf, TrieNodes, Stays, OnWay
    <3> QED BY <3>1 DEF TrieOf, Tries!EmptyTrie
  <2> QED BY <2>1, <2>2 DEF TriesInv
<1>2. TriesInv /\ [MCNext]_<<vars, clockVars, triesVars, part>> => TriesInv'
  BY TriesStep DEF MCNext
<1> QED BY <1>1, <1>2, PTL DEF MCSpec

(* Whatever batches a side's timestamps come in and however often its trie   *)
(* was pruned since, it is the trie of what the side has.                    *)
THEOREM TrieOfHeldHolds == MCSpec => [](part = "tries" => Tries!TrieOfHeld)
<1>1. TriesInv => Tries!TrieOfHeld
  BY TrieIs DEF TriesInv, Tries!TrieOfHeld
<1> QED BY <1>1, TriesInvariant, PTL

-----------------------------------------------------------------------------
(* The time two tries differ from.                                           *)
LEMMA DiffersIs ==
  ASSUME NEW H \in SUBSET TrieStamps, NEW G \in SUBSET TrieStamps
  PROVE  Tries!Differs(TrieOf(H), TrieOf(G)) <=> H # G
<1>1. ASSUME NEW S \in SUBSET TrieStamps
      PROVE  Tries!HashAt(TrieOf(S), <<>>) = S
  <2>1. <<>> \in TrieNodes(S)
    BY DEF TrieNodes, NodesOf, Stays
  <2>2. \A s \in S : Tries!OnPath(<<>>, s)
    <3> TAKE s \in S
    <3>1. Tries!KeyOf(s) \in Digits /\ Len(Tries!KeyOf(s)) \in Nat /\ Len(<<>>) = 0
      BY KeyIs
    <3> QED BY <3>1, FrontWhole DEF Tries!OnPath
  <2> QED BY <2>1, <2>2 DEF Tries!HashAt, TrieOf, OnWay
<1> QED BY <1>1 DEF Tries!Differs

LEMMA DiffIs ==
  ASSUME NEW H \in SUBSET TrieStamps, NEW G \in SUBSET TrieStamps, H # G
  PROVE  \E k \in Digits : /\ Tries!Diff(TrieOf(H), TrieOf(G)) = Tries!KeyTime(k)
                           /\ OnWay(H, k) # OnWay(G, k)
<1> DEFINE t == TrieOf(H)
           u == TrieOf(G)
           Both == DOMAIN t \cap DOMAIN u
           Led(k) == \A n \in 1..Len(k) : Tries!Leads(t, u, Tries!Front(k, n - 1), k[n])
           Ends(k) == \A d \in 0..2 : ~Tries!Leads(t, u, k, d)
<1>1. /\ DOMAIN t = TrieNodes(H) /\ DOMAIN u = TrieNodes(G)
      /\ \A k \in DOMAIN t : t[k] = OnWay(H, k)
      /\ \A k \in DOMAIN u : u[k] = OnWay(G, k)
  BY DEF TrieOf
<1>2. \A k \in Both : k \in Digits /\ Len(k) \in 0..Width
  BY <1>1, NodesAre DEF TrieNodes
<1>3. <<>> \in Both /\ t[<<>>] # u[<<>>]
  <2>1. <<>> \in Both
    BY <1>1 DEF TrieNodes, NodesOf, Stays
  <2>2. Tries!HashAt(t, <<>>) # Tries!HashAt(u, <<>>)
    BY DiffersIs DEF Tries!Differs
  <2> HIDE DEF t, u
  <2> QED BY <2>1, <2>2 DEF Tries!HashAt
<1>4. Led(<<>>)
  OBVIOUS
<1> HIDE DEF t, u
<1>5. \E k \in Both : Led(k) /\ Ends(k)
  <2> DEFINE Left == {Width - Len(k) : k \in {k \in Both : Led(k)}}
  <2>1. Left \in SUBSET Nat /\ Left # {}
    BY <1>2, <1>3, <1>4, TriesTyped
  <2>2. PICK m \in Left : \A n \in Left : m <= n
    <3> HIDE DEF Left
    <3> QED BY <2>1, Least
  <2>3. PICK k \in Both : Led(k) /\ m = Width - Len(k)
    BY <2>2
  <2>4. ASSUME NEW d \in 0..2, Tries!Leads(t, u, k, d) PROVE FALSE
    <3> DEFINE l == Append(k, d)
    <3>1. k \in Digits /\ Len(k) \in Nat
      BY <1>2, <2>3
    <3>2. /\ l \in Digits /\ Len(l) = Len(k) + 1 /\ l[Len(k) + 1] = d
          /\ \A i \in 1..Len(k) : l[i] = k[i]
          /\ \A n \in 0..Len(k) : Tries!Front(l, n) = Tries!Front(k, n)
      BY <3>1, AppendIs
    <3>3. l \in Both
      BY <2>4 DEF Tries!Leads, Tries!Branches
    <3> HIDE DEF l
    <3>4. ASSUME NEW n \in 1..Len(l)
          PROVE  Tries!Leads(t, u, Tries!Front(l, n - 1), l[n])
      <4>1. CASE n = Len(k) + 1
        <5>1. Tries!Front(l, n - 1) = k
          BY <3>1, <3>2, <4>1, FrontWhole
        <5> QED BY <2>4, <3>2, <4>1, <5>1
      <4>2. CASE n # Len(k) + 1
        <5>1. n \in 1..Len(k) /\ n - 1 \in 0..Len(k)
          BY <3>1, <3>2, <4>2
        <5>2. Tries!Front(l, n - 1) = Tries!Front(k, n - 1) /\ l[n] = k[n]
          BY <3>2, <5>1
        <5> QED BY <2>3, <5>1, <5>2
      <4> QED BY <4>1, <4>2
    <3>5. Width - Len(l) \in Left
      BY <3>3, <3>4
    <3>6. m <= Width - Len(l)
      BY <2>2, <3>5
    <3> QED BY <2>3, <3>1, <3>2, <3>6, TriesTyped
  <2> QED BY <2>3, <2>4
<1>6. PICK k \in Both : /\ Led(k) /\ Ends(k) /\ Tries!Diff(t, u) = Tries!KeyTime(k)
  <2> DEFINE c == CHOOSE k \in Both : Led(k) /\ Ends(k)
  <2>1. c \in Both /\ Led(c) /\ Ends(c)
    <3> HIDE DEF Both, Led, Ends
    <3> QED BY <1>5
  <2>2. Tries!Diff(t, u) = Tries!KeyTime(c)
    BY DEF Tries!Diff
  <2> HIDE DEF c
  <2> QED BY <2>1, <2>2
<1>7. k \in Digits /\ Len(k) \in Nat
  BY <1>2, <1>6
<1>8. t[k] # u[k]
  <2>1. CASE Len(k) = 0
    <3>1. k = <<>>
      BY <1>7, <2>1 DEF Digits
    <3> QED BY <1>3, <3>1
  <2>2. CASE Len(k) # 0
    <3>1. Len(k) \in 1..Len(k)
      BY <1>7, <2>2
    <3>2. Append(Tries!Front(k, Len(k) - 1), k[Len(k)]) = k
      BY <1>7, <3>1, FrontNext, FrontWhole
    <3>3. Tries!Leads(t, u, Tries!Front(k, Len(k) - 1), k[Len(k)])
      BY <1>6, <3>1
    <3> QED BY <3>2, <3>3 DEF Tries!Leads
  <2> QED BY <2>1, <2>2
<1> QED BY <1>1, <1>6, <1>7, <1>8 DEF t, u

LEMMA PowerGrows ==
  ASSUME NEW a \in 0..Width, NEW b \in 0..Width, a <= b
  PROVE  Tries!Power[a] <= Tries!Power[b]
<1> DEFINE power == Tries!Power
           Bad == {n \in 0..Width : a <= n /\ ~(power[a] <= power[n])}
<1>1. power \in [0..Width -> Nat] /\ \A n \in 1..Width : power[n] = 3 * power[n - 1]
  BY PowerIs
<1> HIDE DEF power
<1>2. Bad = {}
  <2> SUFFICES ASSUME Bad # {} PROVE FALSE
    OBVIOUS
  <2>1. PICK n \in Bad : \A k \in Bad : n <= k
    <3>1. Bad \in SUBSET Nat
      OBVIOUS
    <3> HIDE DEF Bad
    <3> QED BY <3>1, Least
  <2>2. n \in 0..Width /\ a <= n /\ ~(power[a] <= power[n]) /\ power[a] \in Nat
    BY <1>1, <2>1
  <2>3. n # a
    BY <2>2
  <2>4. n \in 1..Width /\ n - 1 \in 0..Width /\ a <= n - 1 /\ ~(n <= n - 1)
    BY <2>2, <2>3, TriesTyped
  <2>5. power[a] <= power[n - 1]
    BY <2>1, <2>4
  <2>6. power[n] = 3 * power[n - 1] /\ power[n - 1] \in Nat
    BY <1>1, <2>4
  <2> QED BY <2>2, <2>5, <2>6
<1> QED BY <1>2 DEF power

LEMMA ValueIs ==
  ASSUME NEW k \in Digits
  PROVE  \E v \in [0..Len(k) -> Nat] :
           /\ v[0] = 0 /\ \A n \in 1..Len(k) : v[n] = 3 * v[n - 1] + k[n]
           /\ Tries!Value(k) = v[Len(k)]
<1> DEFINE N == Len(k)
           step == [p \in Nat \X (1..N) |-> 3 * p[1] + k[p[2]]]
           Rec(f) == f = [n \in 0..N |-> IF n = 0 THEN 0 ELSE 3 * f[n - 1] + k[n]]
<1>1. N \in Nat /\ \A n \in 1..N : k[n] \in 0..2
  BY DEF Digits
<1>2. step \in [Nat \X (1..N) -> Nat]
  BY <1>1
<1>3. \A v \in Nat, n \in 1..N : step[<<v, n>>] = 3 * v + k[n]
  OBVIOUS
<1> HIDE DEF N, step
<1>4. PICK f \in [0..N -> Nat] : EachFromLast(N, 0, step, f)
  <2>1. 0 \in Nat
    OBVIOUS
  <2> HIDE DEF Rec
  <2> QED BY <1>1, <1>2, <2>1, EachFromLastIsThere
<1>5. f[0] = 0 /\ \A n \in 1..N : f[n] = 3 * f[n - 1] + k[n]
  <2>1. \A n \in 1..N : n - 1 \in 0..N /\ f[n - 1] \in Nat
    BY <1>1, <1>4
  <2> QED BY <1>3, <1>4, <2>1 DEF EachFromLast
<1>6. Rec(f)
  <2>1. \A n \in 0..N : f[n] = IF n = 0 THEN 0 ELSE 3 * f[n - 1] + k[n]
    BY <1>1, <1>5
  <2> QED BY <1>4, <2>1
<1>7. PICK g : g = (CHOOSE h : Rec(h)) /\ Tries!Value(k) = g[N]
  <2> DEFINE value[n \in 0..Len(k)] == IF n = 0 THEN 0 ELSE 3 * value[n - 1] + k[n]
  <2>1. Tries!Value(k) = value[Len(k)]
    BY DEF Tries!Value
  <2>2. value = CHOOSE h : Rec(h)
    BY DEF N
  <2> QED BY <2>1, <2>2 DEF N
<1>8. Rec(g)
  <2> HIDE DEF Rec
  <2> QED BY <1>6, <1>7
<1>9. g[0] = 0 /\ \A n \in 1..N : g[n] = 3 * g[n - 1] + k[n]
  <2>1. 0 \in 0..N /\ \A n \in 1..N : n \in 0..N /\ n # 0
    BY <1>1
  <2> QED BY <1>8, <2>1
<1> DEFINE Bad == {n \in 0..N : g[n] # f[n]}
<1>10. Bad = {}
  <2> SUFFICES ASSUME Bad # {} PROVE FALSE
    OBVIOUS
  <2>1. PICK n \in Bad : \A i \in Bad : n <= i
    <3>1. Bad \in SUBSET Nat
      BY <1>1
    <3> HIDE DEF Bad
    <3> QED BY <3>1, Least
  <2>2. n # 0
    BY <1>5, <1>9, <2>1
  <2>3. n \in 1..N /\ n - 1 \in 0..N /\ ~(n <= n - 1)
    BY <1>1, <2>1, <2>2
  <2>4. g[n - 1] = f[n - 1]
    BY <2>1, <2>3
  <2> QED BY <1>5, <1>9, <2>1, <2>3, <2>4
<1>11. Tries!Value(k) = f[N]
  <2>1. N \in 0..N
    BY <1>1
  <2> QED BY <1>7, <1>10, <2>1
<1> QED BY <1>4, <1>5, <1>11 DEF N

LEMMA Quotients ==
  ASSUME NEW m \in Nat, NEW w \in Nat \ {0}
  PROVE  /\ m \div w \in Nat /\ (m \div w) * w <= m
         /\ 3 * (m \div (3 * w)) + ((m \div w) % 3) = m \div w
         /\ m < w => m \div w = 0
<1>1. m \div w \in Nat /\ (m \div w) * w <= m
  OBVIOUS
<1>2. m \div (3 * w) = (m \div w) \div 3
  OBVIOUS
<1>3. \A q \in Nat : 3 * (q \div 3) + (q % 3) = q
  OBVIOUS
<1>4. m < w => m \div w = 0
  OBVIOUS
<1> QED BY <1>1, <1>2, <1>3, <1>4

LEMMA ProductGrows ==
  ASSUME NEW a \in Nat, NEW b \in Nat, NEW c \in Nat, a <= b
  PROVE  a * c <= b * c
<1>1. (b - a) * c >= 0
  OBVIOUS
<1>2. (b - a) * c = b * c - a * c
  OBVIOUS
<1> QED BY <1>1, <1>2

(* Keys of full width say the minute, from the first digit on: a timestamp   *)
(* is not before the time of a node it is in.                                *)
LEMMA KeyTimeIs ==
  ASSUME Tries!FullWidth, NEW s \in TrieStamps, NEW k \in Digits, Tries!OnPath(k, s)
  PROVE  Tries!KeyTime(k) \in Nat /\ Tries!KeyTime(k) <= s.millis
<1> DEFINE key == Tries!KeyOf(s)
           m == MinuteOf(s)
           power == Tries!Power
<1>1. /\ key \in Digits /\ Len(key) \in 1..Width
      /\ m \in Nat /\ m < power[Len(key)]
      /\ \A i \in 1..Len(key) : key[i] = (m \div power[Len(key) - i]) % 3
  BY KeyIs
<1>2. Width \in Nat \ {0} /\ \A n \in 0..Width : power[n] \in Nat \ {0}
  BY TriesTyped, PowerPositive
<1>3. Len(key) = Width
  <2> SUFFICES ASSUME Len(key) # Width PROVE FALSE
    OBVIOUS
  <2>1. Len(key) \in 0..Width /\ Width - 1 \in 0..Width /\ Len(key) <= Width - 1
    BY <1>1, <1>2
  <2>2. power[Len(key)] <= power[Width - 1]
    BY <2>1, PowerGrows
  <2>3. power[Width - 1] <= m
    BY DEF Tries!FullWidth, MinuteOf
  <2>4. power[Len(key)] \in Nat /\ power[Width - 1] \in Nat
    BY <1>2, <2>1
  <2> QED BY <1>1, <2>2, <2>3, <2>4
<1>4. /\ Len(k) \in 0..Width
      /\ \A i \in 1..Len(k) : i \in 1..Width /\ k[i] = key[i]
  <2>1. Len(k) \in Nat /\ Len(k) <= Len(key) /\ k = Tries!Front(key, Len(k))
    BY DEF Tries!OnPath, Digits
  <2>2. Len(k) \in 0..Len(key)
    BY <1>1, <2>1
  <2>3. \A i \in 1..Len(k) : k[i] = key[i]
    BY <1>1, <2>1, <2>2, FrontIs
  <2> QED BY <1>2, <1>3, <2>2, <2>3
<1>5. PICK v \in [0..Len(k) -> Nat] :
        /\ v[0] = 0 /\ \A n \in 1..Len(k) : v[n] = 3 * v[n - 1] + k[n]
        /\ Tries!Value(k) = v[Len(k)]
  BY ValueIs
<1> HIDE DEF key, m
<1> DEFINE Bad == {n \in 0..Len(k) : v[n] # m \div power[Width - n]}
<1>6. Bad = {}
  <2> SUFFICES ASSUME Bad # {} PROVE FALSE
    OBVIOUS
  <2>1. PICK n \in Bad : \A i \in Bad : n <= i
    <3>1. Bad \in SUBSET Nat
      BY <1>4
    <3> HIDE DEF Bad
    <3> QED BY <3>1, Least
  <2>2. n # 0
    <3>1. Width \in 0..Width /\ Width - 0 = Width
      BY <1>2
    <3>2. m < power[Width] /\ power[Width] \in Nat \ {0}
      BY <1>1, <1>2, <1>3, <3>1
    <3>3. m \div power[Width] = 0
      BY <1>1, <3>2, Quotients
    <3> QED BY <1>5, <2>1, <3>1, <3>3
  <2>3. n \in 1..Len(k) /\ n - 1 \in 0..Len(k) /\ ~(n <= n - 1) /\ n \in 1..Width
    BY <1>4, <2>1, <2>2
  <2> DEFINE w == power[Width - n]
  <2>4. w \in Nat \ {0} /\ power[Width - (n - 1)] = 3 * w
    <3>1. Width - n \in 0..Width /\ Width - (n - 1) \in 1..Width
          /\ (Width - (n - 1)) - 1 = Width - n
      BY <1>2, <2>3
    <3> QED BY <1>2, <3>1, PowerIs
  <2>5. v[n - 1] = m \div (3 * w)
    BY <2>1, <2>3, <2>4
  <2>6. k[n] = (m \div w) % 3
    BY <1>1, <1>3, <1>4, <2>3
  <2>7. v[n] = 3 * v[n - 1] + k[n] /\ v[n] # m \div w
    BY <1>5, <2>1, <2>3
  <2> HIDE DEF w, power, Bad
  <2>8. 3 * (m \div (3 * w)) + ((m \div w) % 3) = m \div w
    BY <1>1, <2>4, Quotients
  <2> QED BY <2>5, <2>6, <2>7, <2>8
<1> DEFINE w == power[Width - Len(k)]
           q == m \div w
<1>7. Width - Len(k) \in 0..Width /\ Len(k) \in 0..Len(k)
  BY <1>2, <1>4
<1>8. w \in Nat \ {0}
  BY <1>2, <1>7
<1>9. Tries!KeyTime(k) = PerMinute * q * w
  BY <1>5, <1>6, <1>7 DEF Tries!KeyTime
<1>10. PerMinute \in Nat \ {0} /\ s.millis \in Nat /\ m = s.millis \div PerMinute
  BY TriesTyped DEF m, MinuteOf
<1> HIDE DEF w
<1>11. q \in Nat /\ q * w <= m
  BY <1>1, <1>8, Quotients
<1>12. m * PerMinute <= s.millis
  BY <1>10, Quotients
<1> HIDE DEF q
<1>13. PerMinute * q * w = (q * w) * PerMinute
  BY <1>8, <1>10, <1>11
<1>14. q * w \in Nat
  BY <1>8, <1>11
<1> DEFINE r == q * w
<1> HIDE DEF r
<1>15. r \in Nat /\ r <= m
  BY <1>11, <1>14 DEF r
<1>16. r * PerMinute <= m * PerMinute
  BY <1>1, <1>10, <1>15, ProductGrows
<1>17. r * PerMinute \in Nat /\ m * PerMinute \in Nat
  BY <1>1, <1>10, <1>15
<1>18. Tries!KeyTime(k) = r * PerMinute
  BY <1>9, <1>13 DEF r
<1> QED BY <1>10, <1>12, <1>16, <1>17, <1>18

(* For the minutes whose keys are of full width, in whatever order and       *)
(* batches two sides come to what they have: their tries tell them apart     *)
(* just when they differ, and every pass moves something.                    *)
THEOREM EveryPassMovesHolds ==
  ASSUME Tries!FullWidth
  PROVE  MCSpec => []EveryPassMoves
<1>1. TriesInv => EveryPassMoves
  <2> SUFFICES ASSUME TriesInv PROVE Tries!EveryPassMoves /\ Tries!TrieOfHeld
    BY DEF EveryPassMoves
  <2> DEFINE H == held["client"]
             G == held["server"]
             since == Tries!Diff(TrieOf(H), TrieOf(G))
  <2>1. /\ trie["client"] = TrieOf(H) /\ trie["server"] = TrieOf(G)
        /\ H \in SUBSET TrieStamps /\ G \in SUBSET TrieStamps
    BY DEF TriesInv, Tries!Sides
  <2> HIDE DEF H, G
  <2>2. Tries!Xor(H, G) # {} <=> H # G
    BY DEF Tries!Xor
  <2>3. ASSUME H # G PROVE Tries!From(Tries!Xor(H, G), since) # {}
    <3>1. PICK k \in Digits : since = Tries!KeyTime(k) /\ OnWay(H, k) # OnWay(G, k)
      BY <2>1, <2>3, DiffIs
    <3>2. PICK s \in Tries!Xor(H, G) : Tries!OnPath(k, s) /\ s \in TrieStamps
      BY <2>1, <3>1 DEF OnWay, Tries!Xor
    <3>3. since <= s.millis
      BY <3>1, <3>2, KeyTimeIs
    <3>4. s.millis >= since
      <4> HIDE DEF since
      <4> QED BY <3>3
    <3> QED BY <3>2, <3>4 DEF Tries!From
  <2>4. Tries!EveryPassMoves
    BY <2>1, <2>2, <2>3, DiffersIs DEF Tries!EveryPassMoves, H, G
  <2>5. Tries!TrieOfHeld
    BY TrieIs DEF TriesInv, Tries!TrieOfHeld
  <2> QED BY <2>4, <2>5
<1> QED BY <1>1, TriesInvariant, PTL

(* ... and a pass that leaves a difference leaves one from an earlier time:  *)
(* a time that comes twice is never of the tries' making.                    *)
THEOREM EachPassEarlierHolds ==
  ASSUME Tries!FullWidth
  PROVE  MCSpec => Tries!EachPassEarlier
<1>1. ASSUME TriesInv, Tries!Exchange,
             Tries!Differs(trie'["client"], trie'["server"])
      PROVE  Tries!Diff(trie'["client"], trie'["server"]) < Tries!Diff(trie["client"], trie["server"])
  <2> DEFINE since == Tries!Diff(trie["client"], trie["server"])
             both == Tries!From(held["client"] \cup held["server"], since)
             H == held'["client"]
             G == held'["server"]
             later == Tries!Diff(TrieOf(H), TrieOf(G))
  <2>1. H = held["client"] \cup both /\ G = held["server"] \cup both
    BY <1>1 DEF Tries!Exchange, Tries!Sides
  <2>2. /\ H \in SUBSET TrieStamps /\ G \in SUBSET TrieStamps
        /\ trie'["client"] = TrieOf(H) /\ trie'["server"] = TrieOf(G)
    <3>1. [Tries!Next]_triesVars
      BY <1>1 DEF Tries!Next
    <3>2. TriesInv'
      BY <1>1, <3>1, TriesStep
    <3>3. held' \in [Tries!Sides -> SUBSET TrieStamps]
          /\ trie' = [o \in Tries!Sides |-> TrieOf(held'[o])]
      BY <3>2 DEF TriesInv, TrieOf, TrieNodes, OnWay, Stays, NodesOf
    <3> QED BY <3>3 DEF Tries!Sides
  <2>3. \A s \in Tries!Xor(H, G) :
          s \in TrieStamps /\ s \in held["client"] \cup held["server"] /\ s \notin both
    BY <2>1, <2>2 DEF Tries!Xor
  <2>4. \A s \in Tries!Xor(H, G) : ~(s.millis >= since)
    BY <2>3 DEF Tries!From
  <2> HIDE DEF both
  <2>5. H # G
    BY <1>1, <2>2, DiffersIs
  <2>6. PICK k \in Digits : later = Tries!KeyTime(k) /\ OnWay(H, k) # OnWay(G, k)
    <3> HIDE DEF H, G
    <3> QED BY <2>2, <2>5, DiffIs
  <2>7. PICK s \in Tries!Xor(H, G) : Tries!OnPath(k, s)
    BY <2>6 DEF OnWay, Tries!Xor
  <2>8. later <= s.millis /\ ~(s.millis >= since)
    BY <2>3, <2>4, <2>6, <2>7, KeyTimeIs
  <2>9. later \in Int /\ since \in Int /\ s.millis \in Int
    <3>1. later \in Nat
      BY <2>3, <2>6, <2>7, KeyTimeIs
    <3>2. since \in Nat
      <4> DEFINE a == held["client"]
                 b == held["server"]
      <4>1. a \in SUBSET TrieStamps /\ b \in SUBSET TrieStamps
            /\ trie["client"] = TrieOf(a) /\ trie["server"] = TrieOf(b)
        BY <1>1 DEF TriesInv, Tries!Sides
      <4>2. Tries!Differs(TrieOf(a), TrieOf(b)) /\ since = Tries!Diff(TrieOf(a), TrieOf(b))
        BY <1>1, <4>1 DEF Tries!Exchange
      <4> HIDE DEF a, b, since
      <4>3. PICK l \in Digits : since = Tries!KeyTime(l) /\ OnWay(a, l) # OnWay(b, l)
        BY <4>1, <4>2, DiffersIs, DiffIs
      <4>4. PICK r \in TrieStamps : Tries!OnPath(l, r)
        BY <4>1, <4>3 DEF OnWay
      <4> QED BY <4>3, <4>4, KeyTimeIs
    <3> QED BY <2>3, <3>1, <3>2, TriesTyped
  <2>10. later < since
    <3> HIDE DEF later, since
    <3> QED BY <2>8, <2>9
  <2> QED BY <2>2, <2>10
<1>2. TriesInv /\ [MCNext]_<<vars, clockVars, triesVars, part>> =>
        [Tries!Exchange /\ Tries!Differs(trie'["client"], trie'["server"]) =>
           Tries!Diff(trie'["client"], trie'["server"]) < Tries!Diff(trie["client"], trie["server"])]_Tries!vars
  BY <1>1
<1> QED BY <1>2, TriesInvariant, PTL DEF MCSpec, Tries!EachPassEarlier
=============================================================================
