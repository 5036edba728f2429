---------------------------- MODULE AyqExclusion ----------------------------
(***************************************************************************)
(* What ayq-gate.ts promises, with nothing of how it keeps the promise.    *)
(*                                                                         *)
(* Shared work runs side by side.  Exclusive work runs alone: after        *)
(* everything in flight, and holding everything that would follow.         *)
(***************************************************************************)
CONSTANTS Callers

VARIABLES sharing, alone

excl_vars == <<sharing, alone>>

XTypeOK == sharing \subseteq Callers /\ alone \subseteq Callers

XInit == sharing = {} /\ alone = {}

EnterShared(c) ==
  /\ alone = {}
  /\ sharing' = sharing \cup {c}
  /\ UNCHANGED alone

LeaveShared(c) ==
  /\ c \in sharing
  /\ sharing' = sharing \ {c}
  /\ UNCHANGED alone

EnterAlone(c) ==
  /\ sharing = {}
  /\ alone = {}
  /\ alone' = {c}
  /\ UNCHANGED sharing

LeaveAlone(c) ==
  /\ c \in alone
  /\ alone' = alone \ {c}
  /\ UNCHANGED sharing

XNext ==
  \E c \in Callers :
    EnterShared(c) \/ LeaveShared(c) \/ EnterAlone(c) \/ LeaveAlone(c)

XSpec == XInit /\ [][XNext]_excl_vars

=============================================================================
