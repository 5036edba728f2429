----------------------------- MODULE AyqOneState -----------------------------
(***************************************************************************)
(* What backup and restore promise of AYQ's state, with nothing of the     *)
(* files that keep it: the budget and the store are one state, and what    *)
(* happens to that state is only ever somebody's work on it, or all of a   *)
(* backup in its place - and then only once the state being replaced is    *)
(* itself among the backups.                                               *)
(***************************************************************************)
CONSTANTS Work   \* pieces of work a half may hold

VARIABLES budget,  \* the work the budget holds
          store,   \* the work the store holds
          kept     \* the states held as backups

one_vars == <<budget, store, kept>>

State == [budget |-> budget, store |-> store]

OInit == /\ budget = {} /\ store = {}
         /\ kept \subseteq [budget : SUBSET Work, store : SUBSET Work]

WorkOnBudget(w) ==
  budget' = budget \cup {w} /\ UNCHANGED <<store, kept>>

WorkOnStore(w) ==
  store' = store \cup {w} /\ UNCHANGED <<budget, kept>>

Keep == kept' = kept \cup {State} /\ UNCHANGED <<budget, store>>

Drop == kept' \subseteq kept /\ UNCHANGED <<budget, store>>

(* Both halves of one backup, or nothing. *)
Replace(s) ==
  /\ State \in kept
  /\ budget' = s.budget
  /\ store' = s.store
  /\ UNCHANGED kept

ONext ==
  \/ \E w \in Work : WorkOnBudget(w) \/ WorkOnStore(w)
  \/ Keep \/ Drop
  \/ \E s \in kept : Replace(s)

OSpec == OInit /\ [][ONext]_one_vars

=============================================================================
