----------------------------- MODULE ActualClock -----------------------------
(* The clocks of several devices on one budget: each makes and takes in       *)
(* messages with the clock in memory, which reaches the database only with    *)
(* the messages it applies; wall clocks jump, devices stop and start again.   *)
EXTENDS ActualTimestamp

CONSTANTS
  Nodes,       \* the node ids of the devices
  MaxWall,     \* bound: wall clocks
  MaxMade      \* bound: messages made

(* Assumed where the module is instantiated, as what ActualTimestamp assumes. *)
NodesNat == Nodes \subseteq Nat
WallNat == MaxWall \in Nat /\ MaxMade \in Nat
ClockAssumed == NodesNat /\ WallNat /\ MaxDrift \in Nat /\ MaxCounter \in Nat

VARIABLES
  wall,        \* the wall clock of each device
  clock,       \* the clock in memory
  saved,       \* the clock in messages_clock
  queue,       \* messages stamped or received, waiting to be applied
  log,         \* messages_crdt: the messages applied
  made,        \* history: how many messages were made
  highest      \* history: the highest any wall clock read

vars == <<wall, clock, saved, queue, log, made, highest>>

Zero == [millis |-> 0, counter |-> 0]

Init ==
  /\ wall = [n \in Nodes |-> 0]
  /\ clock = [n \in Nodes |-> Zero]
  /\ saved = [n \in Nodes |-> Zero]
  /\ queue = [n \in Nodes |-> {}]
  /\ log = [n \in Nodes |-> {}]
  /\ made = 0
  /\ highest = 0

(* Wall clocks run, stand still, and are set back. *)
Tick(n) ==
  /\ \E w \in 0..MaxWall :
       /\ wall' = [wall EXCEPT ![n] = w]
       /\ highest' = Latest(highest, w)
  /\ UNCHANGED <<clock, saved, queue, log, made>>

Stamped(n, c) == [millis |-> c.millis, counter |-> c.counter, node |-> n]

(* A change is stamped; its number tells it from every other.               *)
Make(n) ==
  /\ made < MaxMade
  /\ CanSend(clock[n], wall[n])
  /\ LET c == Sent(clock[n], wall[n]) IN
       /\ clock' = [clock EXCEPT ![n] = c]
       /\ queue' = [queue EXCEPT ![n] =
                      @ \cup {[stamp |-> Stamped(n, c), number |-> made]}]
  /\ made' = made + 1
  /\ UNCHANGED <<wall, saved, log, highest>>

Applied == UNION {log[n] : n \in Nodes}

(* A message some device has applied arrives, perhaps once more, or at its   *)
(* own maker again: the clock goes past it all the same.                     *)
Receive(n) ==
  /\ \E m \in Applied :
       /\ CanReceive(clock[n], wall[n], m.stamp)
       /\ clock' = [clock EXCEPT ![n] = Received(clock[n], wall[n], m.stamp)]
       /\ queue' = [queue EXCEPT ![n] = @ \cup {m}]
  /\ UNCHANGED <<wall, saved, log, made, highest>>

(* Mutant: only the messages are committed. *)
ApplyAlone(n) ==
  /\ \E m \in queue[n] :
       /\ log' = [log EXCEPT ![n] = @ \cup {m}]
       /\ queue' = [queue EXCEPT ![n] = @ \ {m}]
  /\ UNCHANGED <<wall, clock, saved, made, highest>>

(* applyMessages: in one transaction, with the clock as it reads by then.   *)
Apply(n) ==
  /\ \E m \in queue[n] :
       /\ log' = [log EXCEPT ![n] = @ \cup {m}]
       /\ queue' = [queue EXCEPT ![n] = @ \ {m}]
  /\ saved' = [saved EXCEPT ![n] = clock[n]]
  /\ UNCHANGED <<wall, clock, made, highest>>

(* The transaction, or what came before it, throws. *)
Abandon(n) ==
  /\ \E m \in queue[n] : queue' = [queue EXCEPT ![n] = @ \ {m}]
  /\ UNCHANGED <<wall, clock, saved, log, made, highest>>

(* AYQ or Actual stops and starts; loadClock reads the clock back. *)
Restart(n) ==
  /\ clock' = [clock EXCEPT ![n] = saved[n]]
  /\ queue' = [queue EXCEPT ![n] = {}]
  /\ UNCHANGED <<wall, saved, log, made, highest>>

Next == \E n \in Nodes :
  Tick(n) \/ Make(n) \/ Receive(n) \/ Apply(n) \/ Abandon(n) \/ Restart(n)

Spec == Init /\ [][Next]_vars

-----------------------------------------------------------------------------
Message == [stamp : Stamp, number : Nat]

TypeOK ==
  /\ wall \in [Nodes -> Nat]
  /\ clock \in [Nodes -> Clock]
  /\ saved \in [Nodes -> Clock]
  /\ queue \in [Nodes -> SUBSET Message]
  /\ log \in [Nodes -> SUBSET Message]
  /\ made \in Nat
  /\ highest \in Nat

(* Timestamps are globally unique (timestamp.ts:9): no two messages that were *)
(* ever applied anywhere share one, though clocks go back with a restart.     *)
Unique == \A a, b \in Applied : a.stamp = b.stamp => a = b

(* A change made by somebody who has a message is newer than the message     *)
(* (timestamp.ts:15), whatever the wall clocks say: so it wins over it.      *)
LaterIsNewer ==
  [][\A n \in Nodes : \A m \in queue'[n] \ queue[n] :
       m.number = made => \A k \in log[n] : Newer(m.stamp, k.stamp)]_vars

(* No exchange of messages drives a clock ahead of every wall clock: it never *)
(* refuses to send for a drift that no wall clock ever had.                   *)
NoRunaway ==
  \A n \in Nodes : clock[n].millis <= highest /\ saved[n].millis <= highest
=============================================================================
