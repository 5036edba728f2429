---------------------------- MODULE AyqGateProofs ----------------------------
(***************************************************************************)
(* What holds of the gate for any number of callers.                       *)
(*                                                                         *)
(* The argument: "alone" names the one caller past the exclusive check, so *)
(* the places parked, ready and alone are the same fact said three times;  *)
(* "working" counts exactly the callers that share, so a caller that left  *)
(* the parking place cannot have company; and a queued caller is nowhere   *)
(* else, so resuming it moves nobody who was already inside.               *)
(***************************************************************************)
EXTENDS AyqGate, TLAPS, FiniteSetTheorems

Taken == {"parked", "ready", "alone"}

NoRepeats(s) == \A i, j \in DOMAIN s : s[i] = s[j] => i = j

AloneIsTheHolder == \A c \in Callers : pc[c] \in Taken <=> c = alone

WorkingCounts == working = Cardinality(At("sharing"))

HolderWaitsForIdle ==
  alone # Nobody => (pc[alone] = "parked" <=> working > 0)

QueuedAreWaiting ==
  /\ \A i \in DOMAIN waiting : pc[waiting[i]] = "waiting"
  /\ \A i \in DOMAIN woken : pc[woken[i]] = "waiting"
  /\ NoRepeats(waiting)
  /\ NoRepeats(woken)
  /\ \A i \in DOMAIN waiting, j \in DOMAIN woken : waiting[i] # woken[j]

GateInv ==
  /\ TypeOK
  /\ AloneIsTheHolder
  /\ WorkingCounts
  /\ HolderWaitsForIdle
  /\ whenIdle = At("parked")
  /\ QueuedAreWaiting

-----------------------------------------------------------------------------
(* Counting the callers that share. *)

(* The callers of shared work under way are finitely many, so they can be counted. *)
LEMMA SharingFinite ==
  ASSUME TypeOK
  PROVE  IsFiniteSet(At("sharing")) /\ Cardinality(At("sharing")) \in Nat
<1>1. At("sharing") \subseteq Callers
  BY DEF At
<1>2. QED
  BY <1>1, CallersFinite, FS_Subset, FS_CardinalityType

(* The count is zero exactly when nobody shares. *)
LEMMA SharingNone ==
  ASSUME TypeOK, WorkingCounts
  PROVE  working = 0 <=> At("sharing") = {}
BY SharingFinite, FS_EmptySet DEF WorkingCounts

(* A caller not yet inside that gets past the check of "alone". *)
LEMMA ThroughKeeps ==
  ASSUME GateInv, alone = Nobody, NEW c \in Callers, NEW k \in Kinds,
         pc[c] \in {"away", "waiting"}, Through(c, k)
  PROVE  /\ pc' \in [Callers -> Places]
         /\ alone' \in Callers \cup {Nobody}
         /\ working' \in Nat
         /\ whenIdle' \subseteq Callers
         /\ AloneIsTheHolder'
         /\ WorkingCounts'
         /\ HolderWaitsForIdle'
         /\ whenIdle' = At("parked")'
         /\ \A d \in Callers \ {c} : pc'[d] = pc[d]
<1> USE DEF GateInv, TypeOK, Places, Taken
<1>0. \A d \in Callers : pc[d] \notin Taken
  BY NobodyCalls DEF AloneIsTheHolder
<1>1. CASE k = "shared"
  <2>1. /\ working' = working + 1
        /\ pc' = [pc EXCEPT ![c] = "sharing"]
        /\ alone' = alone /\ whenIdle' = whenIdle
    BY <1>1 DEF Through, StartShared
  <2>2. At("sharing")' = At("sharing") \cup {c} /\ c \notin At("sharing")
    BY <2>1 DEF At
  <2>3. WorkingCounts'
    BY <2>1, <2>2, SharingFinite, FS_AddElement DEF WorkingCounts
  <2>4. AloneIsTheHolder' /\ HolderWaitsForIdle'
    BY <1>0, <2>1, NobodyCalls DEF AloneIsTheHolder, HolderWaitsForIdle
  <2>5. whenIdle' = At("parked")'
    BY <1>0, <2>1 DEF At
  <2>6. QED
    BY <2>1, <2>3, <2>4, <2>5
<1>2. CASE k = "exclusive"
  <2>1. alone' = c /\ working' = working
    BY <1>2 DEF Through, StartExclusive
  <2>2. \/ /\ working > 0
           /\ whenIdle' = whenIdle \cup {c}
           /\ pc' = [pc EXCEPT ![c] = "parked"]
        \/ /\ working = 0
           /\ whenIdle' = whenIdle
           /\ pc' = [pc EXCEPT ![c] = "alone"]
    BY <1>2 DEF Through, StartExclusive
  <2>3. At("sharing")' = At("sharing")
    BY <2>2 DEF At
  <2>4. WorkingCounts'
    BY <2>1, <2>3 DEF WorkingCounts
  <2>5. AloneIsTheHolder' /\ HolderWaitsForIdle'
    BY <1>0, <2>1, <2>2 DEF AloneIsTheHolder, HolderWaitsForIdle
  <2>6. whenIdle' = At("parked")'
    BY <1>0, <2>2 DEF At
  <2>7. QED
    BY <2>1, <2>2, <2>4, <2>5, <2>6
<1>3. QED
  BY <1>1, <1>2 DEF Kinds

(* A caller that finds the gate taken, and queues (again). *)
LEMMA AwaitKeeps ==
  ASSUME GateInv, alone # Nobody, NEW c \in Callers,
         pc[c] \in {"away", "waiting"}, AwaitAlone(c)
  PROVE  /\ pc' \in [Callers -> Places]
         /\ AloneIsTheHolder'
         /\ WorkingCounts'
         /\ HolderWaitsForIdle'
         /\ whenIdle' = At("parked")'
         /\ \A d \in Callers \ {c} : pc'[d] = pc[d]
         /\ pc'[c] = "waiting"
<1> USE DEF GateInv, TypeOK, Places, Taken, AwaitAlone
<1>1. At("sharing")' = At("sharing") /\ At("parked")' = At("parked")
  BY DEF At
<1>2. alone \in Callers /\ alone # c
  BY DEF AloneIsTheHolder
<1>3. AloneIsTheHolder' /\ HolderWaitsForIdle'
  BY <1>2 DEF AloneIsTheHolder, HolderWaitsForIdle
<1>4. QED
  BY <1>1, <1>3 DEF WorkingCounts

-----------------------------------------------------------------------------
(* Each action keeps the invariant. *)

(* A caller arrives, and gets through or queues. *)
LEMMA CallKeeps ==
  ASSUME GateInv, NEW c \in Callers, Call(c)
  PROVE  GateInv'
<1> PICK k \in Kinds :
       /\ kind' = [kind EXCEPT ![c] = k]
       /\ IF alone # Nobody
            THEN AwaitAlone(c)
            ELSE Through(c, k) /\ UNCHANGED waiting
  BY DEF Call
<1>1. pc[c] = "away" /\ woken = <<>> /\ woken' = <<>>
  BY DEF Call
<1>2. kind' \in [Callers -> Kinds]
  BY DEF GateInv, TypeOK
<1>3. CASE alone = Nobody
  <2>1. Through(c, k) /\ waiting' = waiting
    BY <1>3
  <2>2. \A i \in DOMAIN waiting : waiting[i] \in Callers /\ waiting[i] # c
    BY <1>1 DEF GateInv, QueuedAreWaiting, TypeOK
  <2>3. QueuedAreWaiting'
    BY <1>1, <1>3, <2>1, <2>2, ThroughKeeps DEF GateInv, QueuedAreWaiting, NoRepeats
  <2>4. QED
    BY <1>1, <1>2, <1>3, <2>1, <2>3, ThroughKeeps DEF GateInv, TypeOK
<1>4. CASE alone # Nobody
  <2>1. AwaitAlone(c)
    BY <1>4
  <2>2. waiting' = Append(waiting, c) /\ alone' = alone /\ working' = working
        /\ whenIdle' = whenIdle
    BY <2>1 DEF AwaitAlone
  <2>3. \A i \in DOMAIN waiting : waiting[i] \in Callers /\ waiting[i] # c
    BY <1>1 DEF GateInv, QueuedAreWaiting, TypeOK
  <2>4. QueuedAreWaiting'
    BY <1>1, <1>4, <2>1, <2>2, <2>3, AwaitKeeps
       DEF GateInv, QueuedAreWaiting, NoRepeats, TypeOK
  <2>5. QED
    BY <1>1, <1>2, <1>4, <2>1, <2>2, <2>4, AwaitKeeps DEF GateInv, TypeOK
<1>5. QED
  BY <1>3, <1>4

(* A caller wakes and looks again. *)
LEMMA ResumeKeeps ==
  ASSUME GateInv, Resume
  PROVE  GateInv'
<1> DEFINE c == Head(woken)
<1>1. /\ woken # <<>>
      /\ woken' = Tail(woken)
      /\ kind' = kind
      /\ IF alone # Nobody
           THEN AwaitAlone(c)
           ELSE Through(c, kind[c]) /\ UNCHANGED waiting
  BY DEF Resume
<1>2. /\ c \in Callers /\ kind[c] \in Kinds
      /\ c = woken[1] /\ 1 \in DOMAIN woken
      /\ woken' \in Seq(Callers)
      /\ \A i \in DOMAIN woken' : i + 1 \in DOMAIN woken /\ woken'[i] = woken[i + 1]
  BY <1>1 DEF GateInv, TypeOK
<1>3. pc[c] = "waiting"
  BY <1>2 DEF GateInv, QueuedAreWaiting
<1>4. \A i \in DOMAIN woken' : woken'[i] \in Callers /\ woken'[i] # c
  <2> SUFFICES ASSUME NEW i \in DOMAIN woken'
               PROVE  woken'[i] \in Callers /\ woken'[i] # c
    OBVIOUS
  <2>1. i \in Nat \ {0}
    BY <1>2
  <2>2. woken[i + 1] # woken[1]
    BY <1>2, <2>1 DEF GateInv, QueuedAreWaiting, NoRepeats
  <2>3. QED
    BY <1>2, <2>2
<1>5. \A i \in DOMAIN waiting : waiting[i] \in Callers /\ waiting[i] # c
  BY <1>2 DEF GateInv, QueuedAreWaiting, TypeOK
<1>6. NoRepeats(woken)'
  <2> SUFFICES ASSUME NEW i \in DOMAIN woken', NEW j \in DOMAIN woken',
                      woken'[i] = woken'[j]
               PROVE  i = j
    BY DEF NoRepeats
  <2>1. i + 1 = j + 1
    BY <1>2 DEF GateInv, QueuedAreWaiting, NoRepeats
  <2>2. i \in Int /\ j \in Int
    BY <1>2
  <2>3. QED
    BY <2>1, <2>2
<1>7. \A i \in DOMAIN woken' : pc[woken'[i]] = "waiting"
  BY <1>2 DEF GateInv, QueuedAreWaiting
<1>8. \A i \in DOMAIN waiting, j \in DOMAIN woken' : waiting[i] # woken'[j]
  BY <1>2 DEF GateInv, QueuedAreWaiting
<1>9. CASE alone = Nobody
  <2>1. Through(c, kind[c]) /\ waiting' = waiting
    BY <1>1, <1>9
  <2>2. \A d \in Callers \ {c} : pc'[d] = pc[d]
    BY <1>2, <1>3, <1>9, <2>1, ThroughKeeps
  <2>3. QueuedAreWaiting'
    BY <1>4, <1>5, <1>6, <1>7, <1>8, <2>1, <2>2
       DEF GateInv, QueuedAreWaiting, NoRepeats
  <2>4. QED
    BY <1>1, <1>2, <1>3, <1>9, <2>1, <2>3, ThroughKeeps DEF GateInv, TypeOK
<1>10. CASE alone # Nobody
  <2>1. AwaitAlone(c)
    BY <1>1, <1>10
  <2>2. waiting' = Append(waiting, c) /\ alone' = alone /\ working' = working
        /\ whenIdle' = whenIdle
    BY <2>1 DEF AwaitAlone
  <2>3. \A d \in Callers \ {c} : pc'[d] = pc[d]
    BY <1>2, <1>3, <1>10, <2>1, AwaitKeeps
  <2>4. pc'[c] = "waiting"
    BY <1>2, <1>3, <1>10, <2>1, AwaitKeeps
  <2>5. QueuedAreWaiting'
    BY <1>4, <1>5, <1>6, <1>7, <1>8, <2>2, <2>3, <2>4
       DEF GateInv, QueuedAreWaiting, NoRepeats, TypeOK
  <2>6. QED
    BY <1>1, <1>2, <1>3, <1>10, <2>1, <2>2, <2>5, AwaitKeeps DEF GateInv, TypeOK
<1>11. QED
  BY <1>9, <1>10

(* Shared work ends, and the last of it wakes whoever waits to be alone. *)
LEMMA FinishSharedKeeps ==
  ASSUME GateInv, NEW c \in Callers, FinishShared(c)
  PROVE  GateInv'
<1> USE DEF Places, Taken
<1>1. /\ pc[c] = "sharing" /\ working' = working - 1
      /\ alone' = alone /\ kind' = kind /\ waiting' = waiting /\ woken' = woken
  BY DEF FinishShared
<1>2. pc' = [d \in Callers |->
               IF d = c THEN "away"
               ELSE IF working' = 0 /\ d \in whenIdle THEN "ready" ELSE pc[d]]
  BY DEF FinishShared, GateInv, TypeOK
<1>3. whenIdle' = IF working' = 0 THEN {} ELSE whenIdle
  BY DEF FinishShared
<1>4. At("sharing")' = At("sharing") \ {c} /\ c \in At("sharing")
  BY <1>1, <1>2 DEF At, GateInv
<1>5. /\ WorkingCounts' /\ working' \in Nat /\ working \in Nat \ {0}
  BY <1>1, <1>4, SharingFinite, SharingNone, FS_RemoveElement
     DEF WorkingCounts, GateInv, TypeOK
<1>6. pc' \in [Callers -> Places]
  BY <1>2 DEF GateInv, TypeOK
<1>7. whenIdle' = At("parked")'
  BY <1>1, <1>2, <1>3 DEF At, GateInv
<1>8. AloneIsTheHolder'
  BY <1>1, <1>2 DEF AloneIsTheHolder, GateInv, At
<1>9. HolderWaitsForIdle'
  <2> SUFFICES ASSUME alone # Nobody
               PROVE  pc'[alone] = "parked" <=> working' > 0
    BY <1>1 DEF HolderWaitsForIdle
  <2>1. alone \in Callers /\ pc[alone] = "parked" /\ alone \in whenIdle
    BY <1>5 DEF GateInv, TypeOK, HolderWaitsForIdle, At
  <2>2. QED
    BY <1>1, <1>2, <1>5, <2>1
<1>10. QueuedAreWaiting'
  BY <1>1, <1>2 DEF GateInv, QueuedAreWaiting, NoRepeats, At, TypeOK
<1>11. QED
  BY <1>1, <1>3, <1>5, <1>6, <1>7, <1>8, <1>9, <1>10 DEF GateInv, TypeOK

(* Exclusive work starts once the shared work it waited for is done. *)
LEMMA StartAloneKeeps ==
  ASSUME GateInv, NEW c \in Callers, StartAlone(c)
  PROVE  GateInv'
<1> USE DEF Places, Taken, StartAlone, GateInv, TypeOK
<1>1. At("sharing")' = At("sharing") /\ At("parked")' = At("parked")
  BY DEF At
<1>2. AloneIsTheHolder' /\ HolderWaitsForIdle'
  BY DEF AloneIsTheHolder, HolderWaitsForIdle
<1>3. QueuedAreWaiting'
  BY DEF QueuedAreWaiting, NoRepeats
<1>4. QED
  BY <1>1, <1>2, <1>3 DEF WorkingCounts

(* Exclusive work ends and settles what everyone behind it waits on. *)
LEMMA FinishExclusiveKeeps ==
  ASSUME GateInv, NEW c \in Callers, FinishExclusive(c)
  PROVE  GateInv'
<1> USE DEF Places, Taken, FinishExclusive, GateInv, TypeOK
<1>1. At("sharing")' = At("sharing") /\ At("parked")' = At("parked")
  BY DEF At
<1>2. c = alone /\ alone' = Nobody
  BY DEF AloneIsTheHolder
<1>3. AloneIsTheHolder' /\ HolderWaitsForIdle'
  BY <1>2, NobodyCalls DEF AloneIsTheHolder, HolderWaitsForIdle
<1>4. QueuedAreWaiting'
  <2>1. /\ woken' = woken \o waiting /\ waiting' = <<>>
        /\ woken' \in Seq(Callers)
        /\ \A i \in DOMAIN woken' :
             \/ i \in DOMAIN woken /\ woken'[i] = woken[i]
             \/ /\ i \in Nat /\ i > Len(woken) /\ i - Len(woken) \in DOMAIN waiting
                /\ woken'[i] = waiting[i - Len(woken)]
    OBVIOUS
  <2>2. \A i \in DOMAIN woken' : pc'[woken'[i]] = "waiting"
    BY <2>1 DEF QueuedAreWaiting
  <2>3. NoRepeats(woken)'
    <3> SUFFICES ASSUME NEW i \in DOMAIN woken', NEW j \in DOMAIN woken',
                        woken'[i] = woken'[j]
                 PROVE  i = j
      BY DEF NoRepeats
    <3>1. CASE i \in DOMAIN woken /\ j \in DOMAIN woken
      BY <2>1, <3>1 DEF QueuedAreWaiting, NoRepeats
    <3>2. CASE ~(i \in DOMAIN woken) /\ ~(j \in DOMAIN woken)
      <4>1. i - Len(woken) = j - Len(woken)
        BY <2>1, <3>2 DEF QueuedAreWaiting, NoRepeats
      <4>2. i \in Int /\ j \in Int /\ Len(woken) \in Int
        BY <2>1
      <4>3. QED
        BY <4>1, <4>2
    <3>3. CASE ~(i \in DOMAIN woken <=> j \in DOMAIN woken)
      BY <2>1, <3>3 DEF QueuedAreWaiting
    <3>4. QED
      BY <3>1, <3>2, <3>3
  <2>4. QED
    BY <2>1, <2>2, <2>3 DEF QueuedAreWaiting, NoRepeats
<1>5. QED
  BY <1>1, <1>2, <1>3, <1>4 DEF WorkingCounts

(* Every step keeps the invariant. *)
LEMMA NextKeeps == GateInv /\ [Next]_vars => GateInv'
<1> SUFFICES ASSUME GateInv, [Next]_vars PROVE GateInv'
  OBVIOUS
<1>1. CASE UNCHANGED vars
  BY <1>1 DEF vars, GateInv, TypeOK, AloneIsTheHolder, WorkingCounts,
     HolderWaitsForIdle, QueuedAreWaiting, NoRepeats, At
<1>2. CASE Next
  BY <1>2, CallKeeps, ResumeKeeps, FinishSharedKeeps, StartAloneKeeps,
     FinishExclusiveKeeps DEF Next
<1>3. QED
  BY <1>1, <1>2

(* The strengthened invariant: the gate's bookkeeping (its counter, its     *)
(* promise and its queues) always says what is really going on.             *)
THEOREM GateInvariant == Spec => []GateInv
<1>1. Init => GateInv
  <2> SUFFICES ASSUME Init PROVE GateInv
    OBVIOUS
  <2>1. At("sharing") = {} /\ At("parked") = {}
    BY DEF Init, At
  <2>2. WorkingCounts
    BY <2>1, FS_EmptySet DEF Init, WorkingCounts
  <2>3. QED
    BY <2>1, <2>2, NobodyCalls DEF Init, GateInv, TypeOK, AloneIsTheHolder,
       HolderWaitsForIdle, QueuedAreWaiting, NoRepeats, Taken, Places, Kinds
<1>2. QED
  BY <1>1, NextKeeps, PTL DEF Spec

-----------------------------------------------------------------------------
(* What the invariant gives. *)

(* The invariant leaves no room for company. *)
LEMMA InvExcludes == GateInv => MutualExclusion
<1> SUFFICES ASSUME GateInv PROVE MutualExclusion
  OBVIOUS
<1>1. \A c \in At("alone") : c = alone
  BY DEF GateInv, AloneIsTheHolder, Taken, At
<1>2. At("alone") # {} => At("sharing") = {}
  <2> SUFFICES ASSUME NEW c \in At("alone") PROVE At("sharing") = {}
    OBVIOUS
  <2>1. alone = c /\ alone # Nobody /\ pc[alone] = "alone"
    BY <1>1, NobodyCalls DEF At
  <2>2. working = 0
    BY <2>1 DEF GateInv, HolderWaitsForIdle, TypeOK
  <2>3. QED
    BY <2>2, SharingNone DEF GateInv
<1>3. QED
  BY <1>1, <1>2 DEF MutualExclusion

(* Exclusive work runs alone, for any number of callers: ayq-gate.ts:9-20.  *)
THEOREM GateExcludes == Spec => []MutualExclusion
BY GateInvariant, InvExcludes, PTL

(* Whoever is parked is in whenIdle while shared work that will wake it is  *)
(* under way: nobody sleeps through the wake of ayq-gate.ts:40-43.          *)
THEOREM GateLosesNoWake == Spec => []NoLostWake
<1>1. GateInv => NoLostWake
  <2> SUFFICES ASSUME GateInv, NEW c \in At("parked")
               PROVE  working > 0 /\ At("sharing") # {} /\ At("parked") \subseteq whenIdle
    BY DEF NoLostWake
  <2>1. c = alone /\ alone # Nobody /\ pc[alone] = "parked"
    BY NobodyCalls DEF GateInv, AloneIsTheHolder, Taken, At
  <2>2. working > 0
    BY <2>1 DEF GateInv, HolderWaitsForIdle
  <2>3. QED
    BY <2>2, SharingNone DEF GateInv, TypeOK
<1>2. QED
  BY <1>1, GateInvariant, PTL

(* While exclusive work has the gate, nobody joins the shared work.         *)
THEOREM GateHolds == Spec => HeldWhileTaken
<1>1. GateInv /\ [Next]_vars
        => [NobodyJoins]_vars
  <2> SUFFICES ASSUME GateInv, Next, alone # Nobody
               PROVE  At("sharing")' \subseteq At("sharing")
    BY DEF NobodyJoins
  <2>1. ASSUME NEW c \in Callers, Call(c)
        PROVE  At("sharing")' \subseteq At("sharing")
    BY <2>1 DEF Call, AwaitAlone, At, GateInv, TypeOK
  <2>2. CASE Resume
    BY <2>2 DEF Resume, AwaitAlone, At, GateInv, TypeOK
  <2>3. ASSUME NEW c \in Callers, FinishShared(c)
        PROVE  At("sharing")' \subseteq At("sharing")
    BY <2>3 DEF FinishShared, At, GateInv, TypeOK
  <2>4. ASSUME NEW c \in Callers, StartAlone(c) \/ FinishExclusive(c)
        PROVE  At("sharing")' \subseteq At("sharing")
    BY <2>4 DEF StartAlone, FinishExclusive, At, GateInv, TypeOK
  <2>5. QED
    BY <2>1, <2>2, <2>3, <2>4 DEF Next
<1>2. QED
  BY <1>1, GateInvariant, PTL DEF Spec, HeldWhileTaken

(* The gate, with its counter, its promise and its queues, implements the   *)
(* promise of its type comment: callers that share, or one that is alone.   *)
THEOREM GateImplementsExclusion == Spec => ExclusionSpec
<1> USE DEF Exclusion!XNext, Exclusion!EnterShared, Exclusion!LeaveShared,
            Exclusion!EnterAlone, Exclusion!LeaveAlone, Exclusion!excl_vars
<1>1. Init => Exclusion!XInit
  BY DEF Init, At, Exclusion!XInit
<1>2. GateInv /\ GateInv' /\ [Next]_vars => [Exclusion!XNext]_(Exclusion!excl_vars)
  <2> SUFFICES ASSUME GateInv, GateInv', [Next]_vars
               PROVE  [Exclusion!XNext]_(Exclusion!excl_vars)
    OBVIOUS
  <2> DEFINE S == At("sharing")
             A == At("alone")
  <2>1. ASSUME NEW c \in Callers, NEW k \in Kinds,
               alone = Nobody, pc[c] \in {"away", "waiting"}, Through(c, k)
        PROVE  [Exclusion!XNext]_(Exclusion!excl_vars)
    <3>1. A = {}
      BY <2>1, NobodyCalls DEF GateInv, AloneIsTheHolder, Taken, At
    <3>2. CASE k = "shared"
      <4>1. S' = S \cup {c} /\ A' = A
        BY <2>1, <3>2 DEF Through, StartShared, At, GateInv, TypeOK
      <4>2. QED
        BY <3>1, <4>1
    <3>3. CASE k = "exclusive" /\ working > 0
      <4>1. S' = S /\ A' = A
        BY <2>1, <3>3 DEF Through, StartExclusive, At, GateInv, TypeOK
      <4>2. QED
        BY <4>1
    <3>4. CASE k = "exclusive" /\ ~(working > 0)
      <4>1. S = {}
        BY <3>4, SharingNone DEF GateInv, TypeOK
      <4>2. S' = S /\ A' = {c}
        BY <2>1, <3>1, <3>4 DEF Through, StartExclusive, At, GateInv, TypeOK
      <4>3. QED
        BY <3>1, <4>1, <4>2
    <3>5. QED
      BY <3>2, <3>3, <3>4 DEF Kinds
  <2>2. ASSUME NEW c \in Callers, AwaitAlone(c), pc[c] \in {"away", "waiting"}
        PROVE  [Exclusion!XNext]_(Exclusion!excl_vars)
    <3>1. S' = S /\ A' = A
      BY <2>2 DEF AwaitAlone, At, GateInv, TypeOK
    <3>2. QED
      BY <3>1
  <2>3. ASSUME NEW c \in Callers, Call(c)
        PROVE  [Exclusion!XNext]_(Exclusion!excl_vars)
    BY <2>1, <2>2, <2>3 DEF Call
  <2>4. CASE Resume
    <3>1. Head(woken) \in Callers /\ pc[Head(woken)] = "waiting"
          /\ kind[Head(woken)] \in Kinds
      BY <2>4 DEF Resume, GateInv, TypeOK, QueuedAreWaiting
    <3>2. QED
      BY <2>1, <2>2, <2>4, <3>1 DEF Resume
  <2>5. ASSUME NEW c \in Callers, FinishShared(c)
        PROVE  [Exclusion!XNext]_(Exclusion!excl_vars)
    <3>1. c \in S /\ S' = S \ {c} /\ A' = A
      BY <2>5 DEF FinishShared, At, GateInv, TypeOK
    <3>2. QED
      BY <2>5, <3>1
  <2>6. ASSUME NEW c \in Callers, StartAlone(c)
        PROVE  [Exclusion!XNext]_(Exclusion!excl_vars)
    <3>1. /\ pc[c] = "ready"
          /\ pc' = [pc EXCEPT ![c] = "alone"]
          /\ pc \in [Callers -> Places]
      BY <2>6 DEF StartAlone, GateInv, TypeOK
    <3>2. c = alone /\ A = {}
      BY <3>1 DEF GateInv, AloneIsTheHolder, Taken, At
    <3>3. S = {}
      <4>1. alone # Nobody /\ pc[alone] # "parked"
        BY <3>1, <3>2, NobodyCalls
      <4>2. working = 0
        BY <4>1 DEF GateInv, TypeOK, HolderWaitsForIdle
      <4>3. QED
        BY <4>2, SharingNone DEF GateInv
    <3>4. S' = S /\ A' = {c}
      BY <3>1, <3>2 DEF At
    <3>5. QED
      BY <3>2, <3>3, <3>4
  <2>7. ASSUME NEW c \in Callers, FinishExclusive(c)
        PROVE  [Exclusion!XNext]_(Exclusion!excl_vars)
    <3>1. c \in A /\ S' = S /\ A' = A \ {c}
      BY <2>7 DEF FinishExclusive, At, GateInv, TypeOK
    <3>2. QED
      BY <2>7, <3>1
  <2>8. CASE UNCHANGED vars
    BY <2>8 DEF vars, At
  <2>9. QED
    BY <2>3, <2>4, <2>5, <2>6, <2>7, <2>8 DEF Next
<1>3. QED
  BY <1>1, <1>2, GateInvariant, PTL DEF Spec, ExclusionSpec, Exclusion!XSpec

=============================================================================
