------------------------------ MODULE MCActual ------------------------------
(* Three independent specifications in one run, which share no state: an     *)
(* initial state chooses one of them, and the variables of the others stand  *)
(* still.  Two devices that synchronise; the clocks of two devices whose     *)
(* wall clocks differ by more than the drift allowed; and the tries of two   *)
(* sides.  The keys of tries have three digits.                              *)
EXTENDS ActualSync

CONSTANTS
  Parts,       \* the specifications to check: subset of {"clock", "tries", "sync"}
  Nodes, ClockDrift, ClockCounter, ClockWall, MaxMade,   \* of the clocks
  TrieStamps                                             \* of the tries

VARIABLES
  part,
  wallOf, clockOf, savedOf, queue, logOf, made, highest,
  held, trie

(* Minutes 9 to 26 have keys of full width; those below do not, and          *)
(* EveryPassMoves fails with them among the stamps.                          *)
At(minutes) == {[millis |-> m, counter |-> 0] : m \in minutes}
FullKeys == At({9, 14, 17, 18, 26}) \cup {[millis |-> 14, counter |-> 1]}
ShortKeys == At({1, 4, 5, 9, 13, 26})

Clocks == INSTANCE ActualClock WITH
  MaxDrift <- ClockDrift, MaxCounter <- ClockCounter, MaxWall <- ClockWall,
  wall <- wallOf, clock <- clockOf, saved <- savedOf, log <- logOf

Tries == INSTANCE ActualTries WITH Stamps <- TrieStamps

ASSUME ClocksAssumed == Clocks!ClockAssumed
ASSUME TriesAssumed == Tries!Assumed

clockVars == <<wallOf, clockOf, savedOf, queue, logOf, made, highest>>
triesVars == <<held, trie>>

MCInit == part \in Parts /\ Init /\ Clocks!Init /\ Tries!Init

MCNext ==
  \/ part = "clock" /\ Clocks!Next /\ UNCHANGED <<vars, triesVars, part>>
  \/ part = "tries" /\ Tries!Next /\ UNCHANGED <<vars, clockVars, part>>
  \/ part = "sync" /\ Next /\ UNCHANGED <<clockVars, triesVars, part>>

MCSpec ==
  /\ MCInit /\ [][MCNext]_<<vars, clockVars, triesVars, part>>
  /\ (part = "sync") => Fairness

(* Timestamps are globally unique (timestamp.ts:9): no two messages that     *)
(* were ever applied anywhere share one, though clocks go back with a        *)
(* restart.                                                                  *)
Unique == Clocks!Unique

(* A change made by somebody who has a message is newer than the message     *)
(* (timestamp.ts:15), whatever the wall clocks say: so it wins over it.      *)
LaterIsNewer == Clocks!LaterIsNewer

(* No exchange of messages drives a clock ahead of every wall clock: it      *)
(* never refuses to send for a drift that no wall clock ever had.            *)
NoRunaway == Clocks!NoRunaway

(* The tries tell one side from the other exactly when they are different,   *)
(* every pass moves something (merkle.ts:100), and what is pruned does not   *)
(* depend on the order in which the timestamps came.                         *)
EveryPassMoves == part = "tries" => Tries!EveryPassMoves /\ Tries!TrieOfHeld
=============================================================================
