------------------------------- MODULE AyqGate -------------------------------
(***************************************************************************)
(* The gate in front of the budget: ayq/ayq-desktop/src/ayq-gate.ts.       *)
(*                                                                         *)
(* The engine is one JavaScript thread, so a step here is what runs        *)
(* between two awaits.  A caller that finds the gate taken awaits the      *)
(* promise of the work that has it; when that work settles, everything     *)
(* awaiting it resumes, first come first resumed, before any new message   *)
(* is handled (promise reactions run before the next event), and each      *)
(* looks at the gate again.                                                *)
(*                                                                         *)
(* Work may fail as well as succeed: the finally blocks do the same in     *)
(* both cases, so a finish stands for either.                              *)
(***************************************************************************)
EXTENDS Naturals, Sequences, FiniteSets

CONSTANTS Callers,   \* requests, each of which may come again and again
          Nobody     \* the value of "alone" when the gate is free

ASSUME CallersFinite == IsFiniteSet(Callers)
ASSUME NobodyCalls == Nobody \notin Callers

VARIABLES
  pc,        \* where each caller stands
  kind,      \* what the caller asked for: "shared" or "exclusive"
  alone,     \* whose promise "alone" holds, or Nobody
  working,   \* the counter of shared work under way
  whenIdle,  \* exclusive callers parked until working is 0
  waiting,   \* callers awaiting the promise in "alone", in order
  woken      \* callers whose awaited promise has settled, in order

vars == <<pc, kind, alone, working, whenIdle, waiting, woken>>

Kinds == {"shared", "exclusive"}
Places == {"away", "waiting", "sharing", "parked", "ready", "alone"}

TypeOK ==
  /\ pc \in [Callers -> Places]
  /\ kind \in [Callers -> Kinds]
  /\ alone \in Callers \cup {Nobody}
  /\ working \in Nat
  /\ whenIdle \subseteq Callers
  /\ waiting \in Seq(Callers)
  /\ woken \in Seq(Callers)

Init ==
  /\ pc = [c \in Callers |-> "away"]
  /\ kind = [c \in Callers |-> "shared"]
  /\ alone = Nobody
  /\ working = 0
  /\ whenIdle = {}
  /\ waiting = <<>>
  /\ woken = <<>>

-----------------------------------------------------------------------------
(* Past the check of "alone", with no await in between. *)

StartShared(c) ==
  /\ working' = working + 1
  /\ pc' = [pc EXCEPT ![c] = "sharing"]
  /\ UNCHANGED <<alone, whenIdle>>

(* Mutant: the check of "working" before parking is dropped. *)
StartExclusiveAtOnce(c) ==
  /\ alone' = c
  /\ pc' = [pc EXCEPT ![c] = "alone"]
  /\ UNCHANGED <<working, whenIdle>>

(* Mutant: it parks even when there is nothing to wait for. *)
StartExclusiveParked(c) ==
  /\ alone' = c
  /\ whenIdle' = whenIdle \cup {c}
  /\ pc' = [pc EXCEPT ![c] = "parked"]
  /\ UNCHANGED working

StartExclusive(c) ==
  /\ alone' = c
  /\ IF working > 0
       THEN /\ whenIdle' = whenIdle \cup {c}
            /\ pc' = [pc EXCEPT ![c] = "parked"]
       ELSE /\ pc' = [pc EXCEPT ![c] = "alone"]
            /\ UNCHANGED whenIdle
  /\ UNCHANGED working

Through(c, k) ==
  IF k = "shared" THEN StartShared(c) ELSE StartExclusive(c)

AwaitAlone(c) ==
  /\ waiting' = Append(waiting, c)
  /\ pc' = [pc EXCEPT ![c] = "waiting"]
  /\ UNCHANGED <<alone, working, whenIdle>>

(* A message arrives and its handler calls shared or exclusive. *)
Call(c) ==
  /\ pc[c] = "away"
  /\ woken = <<>>
  /\ \E k \in Kinds :
       /\ kind' = [kind EXCEPT ![c] = k]
       /\ IF alone # Nobody
            THEN AwaitAlone(c)
            ELSE Through(c, k) /\ UNCHANGED waiting
  /\ UNCHANGED woken

(* Mutant: the while loop is an if, so a woken caller does not look again. *)
ResumeUnchecked ==
  /\ woken # <<>>
  /\ woken' = Tail(woken)
  /\ Through(Head(woken), kind[Head(woken)])
  /\ UNCHANGED <<kind, waiting>>

(* The head of the woken callers goes round its while loop once. *)
Resume ==
  /\ woken # <<>>
  /\ woken' = Tail(woken)
  /\ LET c == Head(woken)
     IN IF alone # Nobody
          THEN AwaitAlone(c)
          ELSE Through(c, kind[c]) /\ UNCHANGED waiting
  /\ UNCHANGED kind

(* The last shared work to finish wakes whoever is parked. *)
FinishShared(c) ==
  /\ pc[c] = "sharing"
  /\ working' = working - 1
  /\ IF working' = 0
       THEN /\ pc' = [d \in Callers |->
                        IF d = c THEN "away"
                        ELSE IF d \in whenIdle THEN "ready" ELSE pc[d]]
            /\ whenIdle' = {}
       ELSE /\ pc' = [pc EXCEPT ![c] = "away"]
            /\ UNCHANGED whenIdle
  /\ UNCHANGED <<kind, alone, waiting, woken>>

(* The wake was delivered; the exclusive work itself begins. *)
StartAlone(c) ==
  /\ pc[c] = "ready"
  /\ pc' = [pc EXCEPT ![c] = "alone"]
  /\ UNCHANGED <<kind, alone, working, whenIdle, waiting, woken>>

(* Mutant: the promise never settles for those awaiting it. *)
FinishExclusiveUnsettled(c) ==
  /\ pc[c] = "alone"
  /\ pc' = [pc EXCEPT ![c] = "away"]
  /\ alone' = Nobody
  /\ UNCHANGED <<kind, working, whenIdle, waiting, woken>>

FinishExclusive(c) ==
  /\ pc[c] = "alone"
  /\ pc' = [pc EXCEPT ![c] = "away"]
  /\ alone' = Nobody
  /\ woken' = woken \o waiting
  /\ waiting' = <<>>
  /\ UNCHANGED <<kind, working, whenIdle>>

Next ==
  \/ \E c \in Callers :
       Call(c) \/ FinishShared(c) \/ StartAlone(c) \/ FinishExclusive(c)
  \/ Resume

Spec == Init /\ [][Next]_vars

(* The runtime runs what is ready, and every piece of work settles: the    *)
(* engine's handlers await only the budget library and polls with limits.  *)
(* Nobody is obliged to call.                                              *)
Fairness ==
  /\ WF_vars(Resume)
  /\ \A c \in Callers :
       /\ WF_vars(FinishShared(c))
       /\ WF_vars(StartAlone(c))
       /\ WF_vars(FinishExclusive(c))

FairSpec == Spec /\ Fairness

-----------------------------------------------------------------------------
At(place) == {c \in Callers : pc[c] = place}

(* Exclusive work never runs beside shared work or other exclusive work:   *)
(* what lets a backup copy the budget and the store as one moment.         *)
MutualExclusion ==
  /\ \A c, d \in At("alone") : c = d
  /\ At("alone") # {} => At("sharing") = {}

(* No wake-up is lost: whoever is parked is still going to be woken, since *)
(* some shared work that will wake it is under way.                        *)
NoLostWake ==
  At("parked") # {} => /\ working > 0
                       /\ At("sharing") # {}
                       /\ At("parked") \subseteq whenIdle

(* Nobody is forgotten: a caller that awaits is in exactly one queue, once,*)
(* and while somebody waits there is work that will settle and wake it.    *)
NobodyForgotten ==
  /\ \A c \in At("waiting") :
       Cardinality({i \in DOMAIN (woken \o waiting) :
                       (woken \o waiting)[i] = c}) = 1
  /\ waiting # <<>> => alone # Nobody

NobodyJoins == alone # Nobody => At("sharing")' \subseteq At("sharing")

(* Once exclusive work has the gate, no shared work begins until it is     *)
(* done: "hold every new one until they are done".                         *)
HeldWhileTaken == [][NobodyJoins]_vars

(* Every request is eventually let through, however many others come. *)
EveryoneGetsIn ==
  \A c \in Callers :
    (pc[c] \in {"waiting", "parked", "ready"}) ~> (pc[c] \in {"sharing", "alone"})

(* The gate implements what it promises. *)
Exclusion == INSTANCE AyqExclusion
               WITH sharing <- At("sharing"), alone <- At("alone")

ExclusionSpec == Exclusion!XSpec

=============================================================================
