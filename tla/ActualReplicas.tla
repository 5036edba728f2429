---------------------------- MODULE ActualReplicas ----------------------------
(* What synchronising promises: every device shows, of the changes that have  *)
(* reached it, the newest to each cell, and comes to have what the others     *)
(* have.  How changes get from one to the other is not said.                  *)
EXTENDS ActualTimestamp

CONSTANTS Replicas, Cells, None

VARIABLES
  written,     \* every change made, as [stamp, cell]
  seen,        \* those that have reached each replica
  shown        \* the stamp of the change each cell of it shows, or None

replicaVars == <<written, seen, shown>>

To(cell, S) == {m \in S : m.cell = cell}

NewestOf(S) == CHOOSE m \in S : \A k \in S : k = m \/ Newer(m.stamp, k.stamp)

Shown(S) == [cell \in Cells |->
  IF To(cell, S) = {} THEN None ELSE NewestOf(To(cell, S)).stamp]

ReplicasInit ==
  /\ written = {}
  /\ seen = [r \in Replicas |-> {}]
  /\ shown = [r \in Replicas |-> Shown({})]

Gains(r, S) ==
  /\ seen' = [seen EXCEPT ![r] = @ \cup S]
  /\ shown' = [shown EXCEPT ![r] = Shown(seen[r] \cup S)]

(* A change is newer than any its replica made before, though not perhaps    *)
(* than what it has seen meanwhile.                                          *)
Write(r) == \E m \in written' \ written :
  /\ written' = written \cup {m}
  /\ \A k \in seen[r] : k.stamp.node = m.stamp.node => Newer(m.stamp, k.stamp)
  /\ Gains(r, {m})

Learn(r) ==
  /\ Gains(r, seen'[r] \cap written)
  /\ UNCHANGED written

ReplicasNext == \E r \in Replicas : Write(r) \/ Learn(r)

ReplicasSpec == ReplicasInit /\ [][ReplicasNext]_replicaVars
=============================================================================
