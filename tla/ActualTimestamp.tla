--------------------------- MODULE ActualTimestamp ---------------------------
(* The timestamps Actual's messages are ordered by: milliseconds, a counter  *)
(* and the node that made them, compared in that order as their fixed-width  *)
(* text is.                                                                  *)
EXTENDS Integers

CONSTANTS
  MaxDrift,    \* how far a timestamp may be ahead of the wall clock
  MaxCounter   \* the largest counter there is room for

ASSUME LimitsNat == MaxDrift \in Nat /\ MaxCounter \in Nat

Stamp == [millis : Nat, counter : 0..MaxCounter, node : Nat]
Clock == [millis : Nat, counter : 0..MaxCounter]

(* Order of two readings of clocks, whoever's they are. *)
Ahead(s, t) ==
  \/ s.millis > t.millis
  \/ s.millis = t.millis /\ s.counter > t.counter

Newer(s, t) ==
  \/ Ahead(s, t)
  \/ s.millis = t.millis /\ s.counter = t.counter /\ s.node > t.node

Latest(a, b) == IF a >= b THEN a ELSE b

(* Timestamp.send: what the clock reads after it; the counter goes on where  *)
(* the wall clock does not get ahead.                                        *)
Sent(clock, wall) ==
  LET l == Latest(clock.millis, wall)
  IN [millis |-> l, counter |-> IF l = clock.millis THEN clock.counter + 1 ELSE 0]

CanSend(clock, wall) ==
  /\ Sent(clock, wall).millis - wall <= MaxDrift
  /\ Sent(clock, wall).counter <= MaxCounter

(* Mutant: what the message reads is not looked at. *)
ReceivedOwn(clock, wall, msg) == Sent(clock, wall)

(* Mutant: rather than count on, it goes past the message's milliseconds. *)
ReceivedPast(clock, wall, msg) ==
  LET l == Latest(Latest(clock.millis, wall), msg.millis + 1)
  IN [millis |-> l, counter |-> IF l = clock.millis THEN clock.counter + 1 ELSE 0]

(* Timestamp.recv, likewise past both the clock and the message.             *)
Received(clock, wall, msg) ==
  LET l == Latest(Latest(clock.millis, wall), msg.millis)
      mine == IF l = clock.millis THEN clock.counter + 1 ELSE 0
      theirs == IF l = msg.millis THEN msg.counter + 1 ELSE 0
  IN [millis |-> l, counter |-> Latest(mine, theirs)]

(* A message from too far ahead is refused whatever the clock here reads. *)
CanReceive(clock, wall, msg) ==
  /\ msg.millis - wall <= MaxDrift
  /\ Received(clock, wall, msg).millis - wall <= MaxDrift
  /\ Received(clock, wall, msg).counter <= MaxCounter
=============================================================================
