------------------------------ MODULE AyqRelay ------------------------------
(* The main process between the window and the engine: it hands a request    *)
(* on, keeps who waits for the answer and a timer for it, and gives whichever *)
(* comes first - the answer, the engine's end, the timer - to the window.    *)
EXTENDS Integers, Sequences, FiniteSets

CONSTANTS
  Ids,    \* correlation ids: one per request of a renderer
  Host    \* how the engine is forked: "utility" or "node"

ASSUME KnownHost == Host \in {"utility", "node"}

VARIABLES
  pending,    \* the requests whose answer is waited for
  timers,     \* the requests with a timer running
  told,       \* what the window was told of each request, in order
  waits,      \* what the window waits for
  engine,     \* "up", "gone" once it has ended, "noticed" once that is known
  sent,       \* requests on their way to the engine, or with it
  answers,    \* answers on their way back
  closed      \* a message to the closed channel failed, not yet said

vars == <<pending, timers, told, waits, engine, sent, answers, closed>>

Init ==
  /\ pending = {} /\ timers = {}
  /\ told = [id \in Ids |-> <<>>]
  /\ waits = {}
  /\ engine = "up"
  /\ sent = {} /\ answers = {}
  /\ closed = FALSE

Tell(ids, what) ==
  /\ told' = [id \in Ids |-> IF id \in ids THEN Append(told[id], what) ELSE told[id]]
  /\ waits' = waits \ ids

(* ask: pending first, then the engine.  One that is gone takes nothing; of  *)
(* the two hosts, node's channel fails aloud.                                *)
Ask(id) ==
  /\ told[id] = <<>> /\ id \notin waits
  /\ waits' = waits \cup {id}
  /\ pending' = pending \cup {id} /\ timers' = timers \cup {id}
  /\ IF engine = "up"
     THEN sent' = sent \cup {id} /\ UNCHANGED closed
     ELSE closed' = (Host = "node") /\ UNCHANGED sent
  /\ UNCHANGED <<told, engine, answers>>

(* The engine answers in whatever order its work ends, an error included.    *)
Answer(id) ==
  /\ engine = "up"
  /\ id \in sent
  /\ sent' = sent \ {id} /\ answers' = answers \cup {id}
  /\ UNCHANGED <<pending, timers, told, waits, engine, closed>>

(* Mutant: what comes is handed on, waited for or not. *)
DeliverLate(id) ==
  /\ id \in answers
  /\ answers' = answers \ {id}
  /\ pending' = pending \ {id} /\ timers' = timers \ {id}
  /\ Tell({id}, "answer")
  /\ UNCHANGED <<engine, sent, closed>>

(* deliver: an answer nobody waits for any more is dropped.                  *)
Deliver(id) ==
  /\ id \in answers
  /\ answers' = answers \ {id}
  /\ IF id \in pending
     THEN pending' = pending \ {id} /\ timers' = timers \ {id} /\ Tell({id}, "answer")
     ELSE UNCHANGED <<pending, timers, told, waits>>
  /\ UNCHANGED <<engine, sent, closed>>

(* The timer of ask: the last resort.                                        *)
Timeout(id) ==
  /\ id \in timers
  /\ timers' = timers \ {id}
  /\ IF id \in pending
     THEN pending' = pending \ {id} /\ Tell({id}, "engine-timeout")
     ELSE UNCHANGED <<pending, told, waits>>
  /\ UNCHANGED <<engine, sent, answers, closed>>

(* The engine ends: what it was asked and had not answered is lost, of what  *)
(* it answered some may still come.                                          *)
Crash ==
  /\ engine = "up"
  /\ engine' = "gone"
  /\ sent' = {}
  /\ \E coming \in SUBSET answers : answers' = coming
  /\ UNCHANGED <<pending, timers, told, waits, closed>>

(* Mutant: those who wait are forgotten with it. *)
DiedSilently(new) ==
  /\ engine' = new
  /\ pending' = {} /\ timers' = timers \ pending
  /\ UNCHANGED <<told, waits>>

(* died: everybody who waits is told at once.                                *)
Died(new) ==
  /\ engine' = new
  /\ pending' = {} /\ timers' = timers \ pending
  /\ Tell(pending, "engine-stopped")

Notice ==
  /\ engine = "gone"
  /\ Died("noticed")
  /\ UNCHANGED <<sent, answers, closed>>

SendFailed ==
  /\ closed /\ closed' = FALSE
  /\ Died(engine)
  /\ UNCHANGED <<sent, answers>>

Next ==
  \/ \E id \in Ids : Ask(id) \/ Answer(id) \/ Deliver(id) \/ Timeout(id)
  \/ Crash \/ Notice \/ SendFailed

Spec == Init /\ [][Next]_vars

(* The system reports an end of the engine and a failed message; messages    *)
(* arrive.                                                                   *)
PromptSpec == Spec /\ WF_vars(Notice) /\ WF_vars(SendFailed)
                   /\ \A id \in Ids : WF_vars(Deliver(id))

(* Timers fire.                                                              *)
FairSpec == PromptSpec /\ \A id \in Ids : WF_vars(Timeout(id))

-----------------------------------------------------------------------------
TypeOK ==
  /\ pending \subseteq Ids /\ timers \subseteq Ids /\ waits \subseteq Ids
  /\ \A id \in Ids : \A i \in 1..Len(told[id]) :
       told[id][i] \in {"answer", "engine-timeout", "engine-stopped"}
  /\ engine \in {"up", "gone", "noticed"}
  /\ sent \subseteq Ids /\ answers \subseteq Ids
  /\ closed \in BOOLEAN

(* The window hears of a request once, whichever of the answer, the timer    *)
(* and the engine's end comes first, and whatever comes after it.            *)
ToldOnce == \A id \in Ids : Len(told[id]) <= 1

(* Who waits, who is pending and whose timer runs are one set: no request    *)
(* waits with nothing left that could answer it, and no timer outlives it.   *)
OneWait == waits = pending /\ timers = pending

(* Everything asked is answered in the end (ayq-main.ts:386-402).            *)
Answered == \A id \in Ids : id \in waits ~> id \notin waits

(* An engine that is gone answers every question at once: without the timer  *)
(* (ayq-main.ts:196-201).                                                    *)
GoneAnswers == \A id \in Ids : (engine # "up" /\ id \in waits) ~> id \notin waits
=============================================================================
