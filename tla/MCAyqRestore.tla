---------------------------- MODULE MCAyqRestore ----------------------------
(* Two folders besides the one a copied backup may bring, and backups enough *)
(* for a restore (which makes one itself) after a restore.                   *)
EXTENDS AyqRestore

Handled == {"pause", "capture", "prune", "open", "clear"} \cup Replacing

(* The last write of a restore, and the renames of a recovery. *)
FinishFails == {"finish"}
RecoveryFails == {"putBudget"}

=============================================================================
