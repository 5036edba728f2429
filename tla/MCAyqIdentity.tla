---------------------------- MODULE MCAyqIdentity ----------------------------
(* Four keys, of which an older AYQ recorded one with a reference that is    *)
(* folded away today, and a row of each recorded key: every request, one at  *)
(* a time, or an alias that is made while others are made or taken away.  An *)
(* initial state chooses which.                                              *)
EXTENDS AyqIdentity

CONSTANTS
  Parts,       \* which of the two to check: subset of {"alone", "crossing"}
  s1, s2, kA, kRef, kB, kC, r1, r2, r3

VARIABLE part

MCKeys == {kA, kRef, kB, kC}
MCFold == [k \in MCKeys |-> IF k = kRef THEN kA ELSE k]

(* Every key was printed. *)
MCRows == {r1, r2, r3}
MCRecorded == [row \in MCRows |-> CASE row = r1 -> kA [] row = r2 -> kB [] row = r3 -> kRef]

(* The folded key was printed with its reference only: MergeKeeps fails. *)
FoldedOnly == [row \in MCRows |-> CASE row = r1 -> kRef [] row = r2 -> kB [] row = r3 -> kC]

MCInit == part \in Parts /\ Init

AskCrossing(s) ==
  \/ \E v, t \in Keys : Printed(v) /\ AskAlias(s, v, t)
  \/ \E v \in Keys : RemoveAlias(s, v)
  \/ Learn(s, kB, CHOOSE c \in Categories : TRUE)

MCNext ==
  /\ UNCHANGED part
  /\ \/ part = "alone" /\ (Ask(s1) \/ Step(s1) \/ Launch(s1))
     \/ part = "crossing" /\ \E s \in Slots : AskCrossing(s) \/ Step(s) \/ Launch(s)
     \/ Crash

MCSpec == MCInit /\ [][MCNext]_<<vars, part>>

(* Every transaction carries the payee its identity implies, where requests  *)
(* do not cross and none was interrupted.                                    *)
AlonePayeesFollow == part = "alone" => PayeesFollow
=============================================================================
