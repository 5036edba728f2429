------------------------------ MODULE ActualSync ------------------------------
(* Devices change cells of one budget and synchronise through the server:     *)
(* they send what they have since a time and get what the server has since,   *)
(* compare tries, and go on from the time these differ.  Requests and answers *)
(* get lost, devices stop, changes are made in the middle of it.              *)
EXTENDS ActualTimestamp, ActualMerkle

CONSTANTS
  Clients,     \* node ids of the devices
  Cells,       \* dataset, row and column
  Ago,         \* where a device that never synchronised starts (5 minutes)
  Patience,    \* passes after which the same time twice is out of sync (10)
  FirstWall,   \* bound: the wall clock at the start
  MaxWall,     \* bound: the wall clock
  MaxEdits,    \* bound: changes made
  MaxLost,     \* bound: requests or answers lost, and restarts
  None

ASSUME ClientsNat == Clients \subseteq Nat \ {0}
ASSUME SyncNat == {Ago, Patience, FirstWall, MaxWall} \subseteq Nat

VARIABLES
  wall,        \* the wall clock, of all of them
  log,         \* messages_crdt of each device
  table,       \* the stamp of the message each cell was last set by, or None
  pending,     \* a change that is stamped and not yet applied, or None
  clock,       \* each device's clock
  saved,       \* messages_clock, written in every transaction
  lastSynced,  \* the preference lastSyncedTimestamp, or None
  server,      \* messages_binary
  call,        \* the pass under way on each device, with, as history, the
               \* changes its synchronisation was not told of (Untold)
  outOfSync,   \* the devices whose synchronisation gave up
  edits, lost  \* history: changes made, losses

vars == <<wall, log, table, pending, clock, saved, lastSynced, server, call,
          outOfSync, edits, lost>>

Idle == [at |-> "idle"]

Init ==
  /\ wall = FirstWall
  /\ log = [c \in Clients |-> {}]
  /\ table = [c \in Clients |-> [cell \in Cells |-> None]]
  /\ pending = [c \in Clients |-> None]
  /\ clock = [c \in Clients |-> [millis |-> 0, counter |-> 0]]
  /\ saved = clock
  /\ lastSynced = [c \in Clients |-> None]
  /\ server = {}
  /\ call = [c \in Clients |-> Idle]
  /\ outOfSync = {}
  /\ edits = 0
  /\ lost = 0

-----------------------------------------------------------------------------
StampsOf(S) == {m.stamp : m \in S}
Since(S, stamp) == {m \in S : Newer(m.stamp, stamp)}

StampAt(reading, node) ==
  [millis |-> reading.millis, counter |-> reading.counter, node |-> node]
FromTime(time) == [millis |-> time, counter |-> 0, node |-> 0]

InCell(cell, S) == {m \in S : m.cell = cell}

(* compareMessages: there is one to the cell that is no older already.      *)
Old(m, S) == \E k \in InCell(m.cell, S) : ~Newer(m.stamp, k.stamp)

(* A batch is sorted by timestamp: what comes last.                          *)
NewestIn(S) == CHOOSE m \in S : \A k \in S : k = m \/ Newer(m.stamp, k.stamp)
OldestIn(S) == CHOOSE m \in S : \A k \in S : k = m \/ Newer(k.stamp, m.stamp)

Fresh(S, M) == {m \in M \ S : ~Old(m, S)}

(* Mutant: a batch is not sorted, and its first to a cell may stay. *)
SetUnsorted(t, S, M) == [cell \in Cells |->
  LET to == InCell(cell, Fresh(S, M))
  IN IF to = {} THEN t[cell] ELSE OldestIn(to).stamp]

(* applyMessages: what is not old is set, in the order of the timestamps.    *)
Set(t, S, M) == [cell \in Cells |->
  LET to == InCell(cell, Fresh(S, M))
  IN IF to = {} THEN t[cell] ELSE NewestIn(to).stamp]

Apply(c, M, reading) ==
  /\ log' = [log EXCEPT ![c] = @ \cup M]
  /\ table' = [table EXCEPT ![c] = Set(@, log[c], M)]
  /\ saved' = [saved EXCEPT ![c] = reading]

(* sendMessages: a changed cell is stamped at once, time having passed since  *)
(* anybody looked, and waits for its turn to be applied.                     *)
Edit(c) ==
  /\ edits < MaxEdits
  /\ pending[c] = None
  /\ edits' = edits + 1
  /\ \E w \in wall..MaxWall, cell \in Cells :
       /\ wall' = w
       /\ CanSend(clock[c], w)
       /\ clock' = [clock EXCEPT ![c] = Sent(@, w)]
       /\ pending' = [pending EXCEPT ![c] =
            [stamp |-> StampAt(Sent(clock[c], w), c), cell |-> cell]]
  /\ UNCHANGED <<log, table, saved, lastSynced, server, call, outOfSync, lost>>

(* The clock does not tell the pass under way of it: it was stamped before or *)
(* is applied after the clocks were compared.                                *)
Untold(c) ==
  \/ call[c].at = "compare"
  \/ call[c].at \in {"sent", "answered"} /\
       ~Newer(pending[c].stamp, StampAt(call[c].clock, c))

ApplyEdit(c) ==
  /\ pending[c] # None
  /\ Apply(c, {pending[c]}, clock[c])
  /\ pending' = [pending EXCEPT ![c] = None]
  /\ call' = IF Untold(c) THEN [call EXCEPT ![c].untold = @ + 1] ELSE call
  /\ UNCHANGED <<wall, clock, lastSynced, server, outOfSync, edits, lost>>

-----------------------------------------------------------------------------
(* A pass of _fullSync sends what there is since a time.                     *)
Request(c, since, count, previous, untold) ==
  [at |-> "sent", since |-> since, messages |-> Since(log[c], since),
   clock |-> clock[c], count |-> count, previous |-> previous, untold |-> untold]

Start(c) ==
  /\ call[c].at = "idle"
  /\ LET since == IF lastSynced[c] = None THEN FromTime(wall - Ago) ELSE lastSynced[c]
     IN call' = [call EXCEPT ![c] = Request(c, since, 0, None, 0)]
  /\ UNCHANGED <<wall, log, table, pending, clock, saved, lastSynced, server, outOfSync, edits, lost>>

(* sync: what the server had since then, and its trie with what was sent.    *)
Serve(c) ==
  /\ call[c].at = "sent"
  /\ server' = server \cup call[c].messages
  /\ call' = [call EXCEPT ![c] =
       [at |-> "answered", messages |-> Since(server, @.since),
        trie |-> StampsOf(server'), clock |-> @.clock,
        count |-> @.count, previous |-> @.previous, untold |-> @.untold]]
  /\ UNCHANGED <<wall, log, table, pending, clock, saved, lastSynced, outOfSync, edits, lost>>

(* What the clock reads after the timestamps of a batch, the newest last.     *)
RecvAll(reading, S) ==
  LET after[T \in SUBSET S] ==
        IF T = {} THEN reading
        ELSE Received(after[T \ {NewestIn(T)}], wall, NewestIn(T).stamp)
  IN after[S]

(* receiveMessages: past every timestamp, then applied in one transaction;    *)
(* whether the device changed anything itself was looked at before.          *)
Receive(c) ==
  /\ call[c].at = "answered"
  /\ call[c].messages # {}
  /\ clock' = [clock EXCEPT ![c] = RecvAll(@, call[c].messages)]
  /\ Apply(c, call[c].messages, RecvAll(clock[c], call[c].messages))
  /\ call' = [call EXCEPT ![c] =
       [at |-> "compare", trie |-> @.trie, changed |-> clock[c] # @.clock,
        count |-> @.count, previous |-> @.previous, untold |-> @.untold]]
  /\ UNCHANGED <<wall, pending, lastSynced, server, outOfSync, edits, lost>>

-----------------------------------------------------------------------------
(* An answer without messages is compared at once, any other after they are  *)
(* applied, and more may have been changed by then.                          *)
Comparing(c) ==
  \/ call[c].at = "compare"
  \/ call[c].at = "answered" /\ call[c].messages = {}

Changed(c) ==
  IF call[c].at = "compare" THEN call[c].changed ELSE clock[c] # call[c].clock

(* What the tries tell of the server's when it answered and the device's now. *)
Apart(c) == Differs(Trie(call[c].trie), Trie(StampsOf(log[c])))
Found(c) == Diff(Trie(call[c].trie), Trie(StampsOf(log[c])))

(* Mutant: in sync after any answer. *)
InSyncUnlooked(c) ==
  /\ Comparing(c)
  /\ lastSynced' = [lastSynced EXCEPT ![c] = StampAt(clock[c], c)]
  /\ call' = [call EXCEPT ![c] = Idle]
  /\ UNCHANGED <<wall, log, table, pending, clock, saved, server, outOfSync, edits, lost>>

InSync(c) ==
  /\ Comparing(c)
  /\ ~Apart(c)
  /\ lastSynced' = [lastSynced EXCEPT ![c] = StampAt(clock[c], c)]
  /\ call' = [call EXCEPT ![c] = Idle]
  /\ UNCHANGED <<wall, log, table, pending, clock, saved, server, outOfSync, edits, lost>>

NoProgress(c) == call[c].count >= Patience /\ call[c].previous = Found(c)

(* Once more from the time they differ; counted anew if something changed.   *)
Again(c) ==
  /\ Comparing(c)
  /\ Apart(c)
  /\ ~NoProgress(c)
  /\ call' = [call EXCEPT ![c] =
       Request(c, FromTime(Found(c)), IF Changed(c) THEN 0 ELSE @.count + 1,
               Found(c), @.untold)]
  /\ UNCHANGED <<wall, log, table, pending, clock, saved, lastSynced, server, outOfSync, edits, lost>>

GiveUp(c) ==
  /\ Comparing(c)
  /\ Apart(c)
  /\ NoProgress(c)
  /\ outOfSync' = outOfSync \cup {c}
  /\ call' = [call EXCEPT ![c] = Idle]
  /\ UNCHANGED <<wall, log, table, pending, clock, saved, lastSynced, server, edits, lost>>

(* The request or its answer is lost.                                        *)
Lose(c) ==
  /\ call[c].at \in {"sent", "answered"}
  /\ lost < MaxLost
  /\ lost' = lost + 1
  /\ call' = [call EXCEPT ![c] = Idle]
  /\ UNCHANGED <<wall, log, table, pending, clock, saved, lastSynced, server,
                 outOfSync, edits>>

(* The device stops: what was not applied is gone, and its place in time.    *)
Restart(c) ==
  /\ lost < MaxLost
  /\ lost' = lost + 1
  /\ call' = [call EXCEPT ![c] = Idle]
  /\ pending' = [pending EXCEPT ![c] = None]
  /\ clock' = [clock EXCEPT ![c] = saved[c]]
  /\ UNCHANGED <<wall, log, table, saved, lastSynced, server, outOfSync, edits>>

Next == \E c \in Clients :
  \/ Edit(c) \/ ApplyEdit(c) \/ Start(c) \/ Serve(c) \/ Receive(c)
  \/ InSync(c) \/ Again(c) \/ GiveUp(c) \/ Lose(c) \/ Restart(c)

Spec == Init /\ [][Next]_vars

Pass(c) == Start(c) \/ Serve(c) \/ Receive(c) \/ InSync(c) \/ Again(c) \/ GiveUp(c)

(* A device synchronises again and again: after a change, and when opened.   *)
(* A step of a pass is always possible, so this is its weak fairness.        *)
Fairness == \A c \in Clients :
  []<><<Pass(c)>>_vars /\ WF_vars(ApplyEdit(c))

FairSpec == Spec /\ Fairness

-----------------------------------------------------------------------------
Messages == [stamp : [millis : 0..MaxWall, counter : 0..MaxCounter, node : Clients],
             cell : Cells]

TypeOK ==
  /\ wall \in FirstWall..MaxWall
  /\ \A c \in Clients : log[c] \subseteq Messages
  /\ table \in [Clients -> [Cells -> {None} \cup {s : s \in StampsOf(Messages)}]]
  /\ pending \in [Clients -> Messages \cup {None}]
  /\ clock \in [Clients -> Clock] /\ saved \in [Clients -> Clock]
  /\ \A c \in Clients : lastSynced[c] # None => lastSynced[c].node = c
  /\ server \subseteq Messages
  /\ \A c \in Clients : call[c].at \in {"idle", "sent", "answered", "compare"}
  /\ outOfSync \subseteq Clients
  /\ edits \in 0..MaxEdits /\ lost \in 0..MaxLost

(* A cell shows the newest message to it that the device has, in whatever    *)
(* order and how often they came.                                            *)
ShowsNewest == \A c \in Clients, cell \in Cells :
  LET to == InCell(cell, log[c]) IN
    IF to = {} THEN table[c][cell] = None
    ELSE \E m \in to : /\ table[c][cell] = m.stamp
                       /\ \A k \in to : k = m \/ Newer(m.stamp, k.stamp)

(* A device that takes itself to be in sync has nothing the server lacks and  *)
(* the next synchronisation would leave out, whatever was changed in the      *)
(* middle of it: only what is applied later under an earlier stamp needs the  *)
(* tries (sync/index.ts:829-836).                                            *)
NothingLeftOut == [][\A c \in Clients : lastSynced'[c] # lastSynced[c] =>
  \A m \in log[c] \ server : Newer(m.stamp, lastSynced'[c])]_vars

(* Where nothing is corrupt, a device says that it cannot get in sync only    *)
(* when changes came into all but one of the passes counted in a way its     *)
(* clock does not tell: others in the middle are never held against it       *)
(* (sync/index.ts:752-756).                                                  *)
NoFalseAlarm == [][\A c \in outOfSync' \ outOfSync :
  call[c].untold >= Patience - 1]_vars

(* When changes stop, every device comes to have and show the same.          *)
Converges == <>[](\A c \in Clients : log[c] = server /\ \A d \in Clients : table[c] = table[d])

(* What the protocol promises: the abstract replicas.                        *)
Replicas == INSTANCE ActualReplicas WITH
  Replicas <- Clients, written <- UNION {log[c] : c \in Clients},
  seen <- log, shown <- table
Implements == Replicas!ReplicasSpec
=============================================================================
