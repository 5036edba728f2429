------------------------------- MODULE AyqPlan -------------------------------
(* Planned and recurring payments: the records, the dates each is expected   *)
(* on, what a person decided about one date, and the matching of what is     *)
(* expected with what was booked.  Payments are expenses; a mandate would    *)
(* identify one as its counterparty does, and is left out.                   *)
EXTENDS Integers, FiniteSets

CONSTANTS
  LastDay,     \* days are 1..LastDay
  Period,      \* days between two dates of a record (weekly .. yearly)
  Horizon,     \* how far the plan looks ahead (AYQ_PLAN_HORIZON_MONTHS)
  Near,        \* AYQ_MATCH_WINDOW_DAYS
  Far,         \* AYQ_MATCH_OFFER_DAYS
  Records,     \* ids records may be given, numbers so that they have an order
  Booked,      \* transaction id -> [day, amount, key]; ids are numbers too
  Amounts, Keys,
  Series,      \* what may be detected: [key, amount, start]
  Asks,        \* which requests are asked
  Tasks,       \* requests that wait, under way at once
  Crossing,    \* whether requests, and midnight, come while another waits
  MaxAsked,    \* bound: requests in all
  None

ASSUME DaysOfThePlan == {LastDay, Period, Horizon} \subseteq Nat \ {0} /\ {Near, Far} \subseteq Nat /\ Near <= Far
ASSUME IdsAreOrdered == Records \subseteq Nat /\ IsFiniteSet(Records) /\ DOMAIN Booked \subseteq Nat
ASSUME NoneIsNone == None \notin Nat \cup {"automatic", "manual"}

Days == 1..LastDay
Transactions == DOMAIN Booked
Occurrences == Records \X Days

ASSUME SeriesBegin == \A s \in Series : s.start \in Days
ASSUME MaxAskedIsNat == MaxAsked \in Nat

VARIABLES
  today,
  held,        \* the transactions the budget holds
  planned,     \* the store's records, or None; of is a history: the rhythm it was offered for
  decided,     \* the store's decisions about each date of each
  task,        \* what each request that waits read, and what it does next
  asked

vars == <<today, held, planned, decided, task, asked>>

Undecided == [to |-> None, match |-> None, by |-> None, dismissed |-> FALSE, rejected |-> {}]
Idle == [at |-> "idle"]

Init ==
  /\ today = 1 /\ held = {} /\ asked = 0
  /\ planned = [r \in Records |-> None]
  /\ decided = [o \in Occurrences |-> Undecided]
  /\ task = [q \in Tasks |-> Idle]

-----------------------------------------------------------------------------
(* The dates of the records.                                                 *)
LaterOf(d, e) == IF d > e THEN d ELSE e

(* ayqExpectedFrom: nothing before it was decided.                           *)
ExpectedFrom(record) ==
  LET since == IF record.state = "suggested" \/ record.confirmed = None
               THEN record.suggested ELSE record.confirmed
  IN  LaterOf(since, record.start)

(* Mutant: nothing counts that is more than a day late. *)
PlanWindowShort(plan, day) == [from |-> day - 1, to |-> day + Horizon]

(* ayqPlanWindow                                                             *)
PlanWindow(plan, day) ==
  LET firsts == {day} \cup {ExpectedFrom(plan[r]) : r \in {r \in Records : plan[r] # None}}
  IN  [from |-> CHOOSE d \in firsts : \A e \in firsts : d <= e, to |-> day + Horizon]

(* ayqOccurrenceDates                                                        *)
Dates(record, from, to) ==
  {d \in Days : d \in from..to /\ d >= ExpectedFrom(record) /\ (d - record.start) % Period = 0}

Falls(plan, o) == plan[o[1]] # None /\ o[2] \in Dates(plan[o[1]], o[2], o[2])

(* ayqOccurrencesBetween over the window, without what is settled.           *)
Open(plan, decisions, day) ==
  LET w == PlanWindow(plan, day) IN
  {o \in Occurrences :
     /\ plan[o[1]] # None /\ plan[o[1]].state \notin {"retired", "dismissed"}
     /\ o[2] \in Dates(plan[o[1]], w.from, w.to)
     /\ ~decisions[o].dismissed /\ decisions[o].match = None}

Effective(decisions, o) == IF decisions[o].to = None THEN o[2] ELSE decisions[o].to

-----------------------------------------------------------------------------
(* The comparison.                                                           *)
Abs(n) == IF n < 0 THEN -n ELSE n
Apart(decisions, o, t) == Abs(Effective(decisions, o) - Booked[t].day)

Identified(plan, o, t) == plan[o[1]].key # None /\ plan[o[1]].key = Booked[t].key
Exact(plan, o, t) == plan[o[1]].amount = Booked[t].amount

(* evidenceFor                                                               *)
Offers(plan, decisions, o, t) ==
  /\ Apart(decisions, o, t) <= Far
  /\ 10 * Abs(Booked[t].amount - plan[o[1]].amount) <= plan[o[1]].amount
  /\ Identified(plan, o, t) \/ Exact(plan, o, t)

Qualifies(plan, decisions, o, t) ==
  Identified(plan, o, t) /\ Exact(plan, o, t) /\ Apart(decisions, o, t) <= Near

Taken(decisions) == {decisions[o].match : o \in Occurrences} \ {None}

(* ambiguity: the transactions that would do, before any is given away.      *)
Would(plan, decisions, rows, o) ==
  {t \in rows \ (Taken(decisions) \cup decisions[o].rejected) : Qualifies(plan, decisions, o, t)}

(* Mutant: that another date would take the transaction too does not matter. *)
ConfidentOfOne(plan, decisions, rows, open, o, t) == Would(plan, decisions, rows, o) = {t}

Confident(plan, decisions, rows, open, o, t) ==
  /\ Would(plan, decisions, rows, o) = {t}
  /\ \A other \in open \ {o} : t \notin Would(plan, decisions, rows, other)

(* The dates in order, those of one day by what they are called.             *)
Before(decisions, o, p) ==
  LET d == Effective(decisions, o)  e == Effective(decisions, p)
  IN  d < e \/ (d = e /\ (o[1] < p[1] \/ (o[1] = p[1] /\ o[2] < p[2])))

LastOf(decisions, dates) == CHOOSE o \in dates : \A p \in dates \ {o} : Before(decisions, p, o)

(* A sure match beats one that is offered, a nearer one the one further off. *)
Propose(plan, decisions, rows, open, found, o) ==
  LET sure(t) == Confident(plan, decisions, rows, open, o, t)
      better(t, u) ==
        IF sure(t) # sure(u) THEN sure(t)
        ELSE IF Apart(decisions, o, t) # Apart(decisions, o, u)
        THEN Apart(decisions, o, t) < Apart(decisions, o, u) ELSE t < u
      may == {t \in rows \ (Taken(decisions) \cup decisions[o].rejected) :
                Offers(plan, decisions, o, t) /\ \A f \in found : f.with # t}
      best == CHOOSE t \in may : \A u \in may \ {t} : better(t, u)
  IN  IF may = {} THEN found ELSE found \cup {[of |-> o, with |-> best, sure |-> sure(best)]}

(* ayqProposeMatches: each date in order takes the best that is left.        *)
Proposals(plan, decisions, rows, day) ==
  LET open == Open(plan, decisions, day)
      found[dates \in SUBSET open] ==
        IF dates = {} THEN {}
        ELSE Propose(plan, decisions, rows, open,
                     found[dates \ {LastOf(decisions, dates)}], LastOf(decisions, dates))
  IN  found[open]

-----------------------------------------------------------------------------
(* A request that does not wait.                                             *)
Asked(name) ==
  /\ name \in Asks /\ asked < MaxAsked /\ asked' = asked + 1
  /\ Crossing \/ \A q \in Tasks : task[q] = Idle

AtOnce(name) == Asked(name) /\ UNCHANGED <<today, held, task>>
Decide(o, decision) == decided' = [decided EXCEPT ![o] = decision] /\ UNCHANGED planned

(* ayqSavePlan: a record that is typed is confirmed today, ...               *)
Add(r, start, amount, key) ==
  /\ AtOnce("add")
  /\ planned[r] = None
  /\ planned' = [planned EXCEPT ![r] = [start |-> start, amount |-> amount, key |-> key,
       state |-> "confirmed", by |-> "manual", confirmed |-> today, suggested |-> today, of |-> None]]
  /\ UNCHANGED decided

(* ... one that is edited stays what it is.                                  *)
Edit(r, start, amount, key) ==
  /\ AtOnce("edit")
  /\ planned[r] # None
  /\ planned' = [planned EXCEPT ![r].start = start, ![r].amount = amount, ![r].key = key]
  /\ UNCHANGED decided

(* ayqSetPlanState                                                           *)
Confirm(r) ==
  /\ AtOnce("confirm")
  /\ planned[r] # None
  /\ planned' = [planned EXCEPT ![r].state = "confirmed", ![r].by = "manual",
                   ![r].confirmed = IF @ = None THEN today ELSE @]
  /\ UNCHANGED decided

PutAway(r) ==
  /\ AtOnce("put away")
  /\ planned[r] # None
  /\ planned' = [planned EXCEPT ![r].state = "dismissed"]
  /\ UNCHANGED decided

(* Its decisions go with it.                                  *)
RemovePlan(r) ==
  /\ AtOnce("remove")
  /\ planned[r] # None
  /\ planned' = [planned EXCEPT ![r] = None]
  /\ decided' = [o \in Occurrences |-> IF o[1] = r THEN Undecided ELSE decided[o]]

Reschedule(o, to) ==
  /\ AtOnce("reschedule") /\ Falls(planned, o)
  /\ Decide(o, [decided[o] EXCEPT !.to = IF to = o[2] THEN None ELSE to])

Dismiss(o, dismissed) ==
  /\ AtOnce("dismiss") /\ Falls(planned, o)
  /\ Decide(o, [decided[o] EXCEPT !.dismissed = dismissed])

(* ayqRejectMatch                                                            *)
Reject(o, t) ==
  /\ AtOnce("reject") /\ Falls(planned, o)
  /\ Decide(o, [decided[o] EXCEPT !.rejected = @ \cup {t},
                  !.match = IF @ = t THEN None ELSE @,
                  !.by = IF decided[o].match = t THEN None ELSE @])

Unmatch(o) ==
  /\ AtOnce("unmatch") /\ Falls(planned, o)
  /\ Decide(o, [decided[o] EXCEPT !.match = None, !.by = None])

-----------------------------------------------------------------------------
(* Requests that wait.                                                       *)
Waits(q, step) ==
  /\ task[q] = Idle
  /\ task' = [task EXCEPT ![q] = step]
  /\ UNCHANGED <<planned, decided>>

Store(q, plan, decisions) == planned' = plan /\ decided' = decisions

Goes(q, at, next) ==
  /\ task[q].at = at /\ task' = [task EXCEPT ![q] = next]
  /\ UNCHANGED <<today, held, asked>>

(* Mutant: a transaction may be two payments. *)
ApplyMatchTwice(q, o, t) ==
  /\ Asked("apply") /\ Falls(planned, o)
  /\ LET decision == [decided[o] EXCEPT !.match = t, !.by = "manual", !.rejected = @ \ {t}] IN
     /\ planned[o[1]].key # None /\ Decide(o, decision) /\ UNCHANGED task
  /\ UNCHANGED <<today, held>>

(* ayqApplyMatch: a person's match, which waits for the counterparty if the  *)
(* record is to learn one.                                                   *)
ApplyMatch(q, o, t) ==
  /\ Asked("apply") /\ Falls(planned, o)
  /\ ~\E other \in Occurrences \ {o} : decided[other].match = t
  /\ LET decision == [decided[o] EXCEPT !.match = t, !.by = "manual", !.rejected = @ \ {t}] IN
     \/ planned[o[1]].key # None /\ Decide(o, decision) /\ UNCHANGED task
     \/ /\ planned[o[1]].key = None
        /\ Waits(q, [at |-> "learn", of |-> o, with |-> t, decision |-> decision,
                      planned |-> planned, decided |-> decided])
  /\ UNCHANGED <<today, held>>

Learn(q) ==
  LET it == task[q] IN
  /\ Goes(q, "learn", Idle)
  /\ Store(q, [it.planned EXCEPT ![it.of[1]].key = Booked[it.with].key],
              [it.decided EXCEPT ![it.of] = it.decision])

(* ayqRunMatching, asked for or after an import: the store is read, ...      *)
RunMatching(q, imported) ==
  /\ Asked(IF imported = {} THEN "match" ELSE "import")
  /\ held' = held \cup imported
  /\ Waits(q, [at |-> "match", day |-> today, planned |-> planned, decided |-> decided])
  /\ UNCHANGED today

(* ... and what is clear is applied to what was read.                        *)
Match(q) ==
  LET it == task[q]
      found == {f \in Proposals(it.planned, it.decided, held, it.day) : f.sure}
  IN  /\ Goes(q, "match", Idle)
      /\ IF found = {} THEN UNCHANGED <<planned, decided>>
         ELSE Store(q, it.planned, [o \in Occurrences |->
           IF \E f \in found : f.of = o
           THEN [it.decided[o] EXCEPT !.match = (CHOOSE f \in found : f.of = o).with, !.by = "automatic"]
           ELSE it.decided[o]])

(* ayqSuggest: offers history no longer holds up are withdrawn, ...          *)
Offered(plan) == {r \in Records : plan[r] # None /\ plan[r].by = "detected" /\ plan[r].state = "suggested"}

Suggest(q) ==
  /\ Asked("suggest")
  /\ Waits(q, [at |-> IF Offered(planned) = {} THEN "detect" ELSE "retire",
               planned |-> planned, decided |-> decided])
  /\ UNCHANGED <<today, held>>

Retire(q) ==
  LET it == task[q] IN
  /\ Goes(q, "retire", [it EXCEPT !.at = "detect"])
  /\ \E out \in SUBSET Offered(it.planned) :
       IF out = {} THEN UNCHANGED <<planned, decided>>
       ELSE Store(q, [r \in Records |-> IF r \in out THEN [it.planned[r] EXCEPT !.state = "retired"] ELSE it.planned[r]],
                     it.decided)

(* ... and a rhythm that has no record is offered, one after another.        *)
Detect(q) ==
  /\ Goes(q, "detect", Idle)
  /\ \/ UNCHANGED planned
     \/ \E r \in Records, s \in Series :
          /\ planned[r] = None
          /\ ~\E other \in Records : /\ planned[other] # None
                                     /\ planned[other].key = s.key /\ planned[other].amount = s.amount
          /\ planned' = [planned EXCEPT ![r] = [start |-> s.start, amount |-> s.amount, key |-> s.key,
               state |-> "suggested", by |-> "detected", confirmed |-> None, suggested |-> today, of |-> s]]
  /\ UNCHANGED decided

-----------------------------------------------------------------------------
NextDay ==
  /\ today < LastDay /\ today' = today + 1
  /\ Crossing \/ \A q \in Tasks : task[q] = Idle
  /\ UNCHANGED <<held, planned, decided, task, asked>>

Change(r) ==
  \/ \E start \in Days, amount \in Amounts, key \in Keys \cup {None} :
       Add(r, start, amount, key) \/ Edit(r, start, amount, key)
  \/ Confirm(r) \/ PutAway(r) \/ RemovePlan(r)

DecideOn(o) ==
  \/ \E to \in Days : Reschedule(o, to)
  \/ \E dismissed \in BOOLEAN : Dismiss(o, dismissed)
  \/ \E t \in held : Reject(o, t)
  \/ Unmatch(o)

Work(q) ==
  \/ \E o \in Occurrences, t \in held : ApplyMatch(q, o, t)
  \/ \E imported \in SUBSET (Transactions \ held) : RunMatching(q, imported)
  \/ Learn(q) \/ Match(q) \/ Suggest(q) \/ Retire(q) \/ Detect(q)

Next ==
  \/ NextDay
  \/ \E r \in Records : Change(r)
  \/ \E o \in Occurrences : DecideOn(o)
  \/ \E q \in Tasks : Work(q)

Spec == Init /\ [][Next]_vars

-----------------------------------------------------------------------------
Record == [start : Days, amount : Amounts \cup {s.amount : s \in Series},
           key : Keys \cup {None} \cup {Booked[t].key : t \in Transactions} \cup {s.key : s \in Series},
           state : {"suggested", "confirmed", "dismissed", "retired"},
           by : {"manual", "detected"}, confirmed : Days \cup {None}, suggested : Days,
           of : Series \cup {None}]

Decision == [to : Days \cup {None}, match : Transactions \cup {None},
             by : {"manual", "automatic", None}, dismissed : BOOLEAN,
             rejected : SUBSET Transactions]

(* A record that is confirmed was so on some day, and who matched a date is  *)
(* known as long as it is matched.                                           *)
TypeOK ==
  /\ today \in Days /\ held \subseteq Transactions
  /\ planned \in [Records -> Record \cup {None}]
  /\ decided \in [Occurrences -> Decision]
  /\ \A r \in Records : (planned[r] # None /\ planned[r].state = "confirmed") => planned[r].confirmed # None
  /\ \A o \in Occurrences : /\ (decided[o].match = None) <=> (decided[o].by = None)
                             /\ decided[o].match \notin decided[o].rejected
  /\ asked \in 0..MaxAsked

(* A transaction settles one expected payment at most, whoever matched it    *)
(* (ayq-match.ts:199-200).                                                   *)
OneEach == \A o, p \in Occurrences : (o # p /\ decided[o].match # None) => decided[o].match # decided[p].match

(* Still expected: on a date of the record since it was decided, in sight,   *)
(* and neither matched nor put away.                                         *)
Expected(o) ==
  /\ planned[o[1]] # None /\ planned[o[1]].state \in {"suggested", "confirmed"}
  /\ Falls(planned, o) /\ o[2] <= today + Horizon
  /\ decided[o].match = None /\ ~decided[o].dismissed

Settles(o, t) ==
  Qualifies(planned, decided, o, t) /\ t \notin decided[o].rejected \cup Taken(decided)

(* What is applied without asking was the only one of its kind: the          *)
(* transaction would have settled no other payment expected, and no other    *)
(* transaction would have settled it (ayq-match.ts:8-18).                    *)
Sole == \A o \in Occurrences :
  (decided'[o].by = "automatic" /\ decided[o].by # "automatic") =>
    LET t == decided'[o].match IN
    /\ Expected(o) /\ Settles(o, t)
    /\ \A p \in Occurrences \ {o} : Expected(p) => ~Settles(p, t)
    /\ \A u \in held \ {t} : ~Settles(o, u)
SoleMatch == [][Sole]_vars

(* A pass of the matching changes nothing a person decided: it matches what  *)
(* is unmatched and not dismissed with what was not refused, and leaves all  *)
(* else alone (ayq-plan.ts:661-664, 687).                                    *)
Yields == (\E q \in Tasks : task[q].at = "match" /\ task'[q] = Idle) =>
  /\ planned' = planned
  /\ \A o \in Occurrences : decided'[o] # decided[o] =>
       /\ decided[o].match = None /\ ~decided[o].dismissed
       /\ decided'[o].match \notin decided[o].rejected
       /\ decided'[o] = [decided[o] EXCEPT !.match = decided'[o].match, !.by = "automatic"]
AutomationYields == [][Yields]_vars

(* What is expected stays so, however long it takes, until it is matched,    *)
(* rescheduled or dismissed, or its record is changed, put away, withdrawn   *)
(* or removed (ayq-plan-series.ts:220-225).                                  *)
KeepsCounting == [][\A o \in Open(planned, decided, today) :
  \/ o \in (Open(planned, decided, today))'
  \/ decided'[o] # decided[o]
  \/ planned'[o[1]] # planned[o[1]]]_vars

(* Accepting an offer does not take a payment of it off what is expected     *)
(* (ayq-plan-series.ts:220-225).                                             *)
KeepsAccepted == [][\A o \in Open(planned, decided, today) :
  LET r == o[1] IN
    (planned[r].state = "suggested" /\ planned'[r] # None /\ planned'[r].state = "confirmed") =>
      o \in (Open(planned, decided, today))']_vars

(* A rhythm has one record: none is offered that has one, and none again     *)
(* that was put away (ayq-plan.ts:429-433).                                  *)
OneOffer == \A r, other \in Records :
  (r # other /\ planned[r] # None /\ planned[other] # None /\ planned[r].of # None) =>
    planned[r].of # planned[other].of

(* A pair that is the only one of its kind is applied: a confident match     *)
(* beats an offer (ayq-match.ts:267).                                        *)
SoleApplied == [][\A q \in Tasks : (task[q].at = "match" /\ task'[q] = Idle) =>
  \A o \in Open(planned, decided, task[q].day), t \in held :
    Confident(planned, decided, held, Open(planned, decided, task[q].day), o, t) => decided'[o].match = t]_vars

(* A match is of a date the record still falls on, where it is shown and can *)
(* be undone (ayq-plan.ts:327-330).                                          *)
MatchesReachable == \A o \in Occurrences : decided[o].match # None => Falls(planned, o)

(* What a person accepted is theirs, and not AYQ's to withdraw               *)
(* (ayq-plan.ts:543-545).                                                    *)
AcceptedStays == [][\A r \in Records :
  (planned[r] # None /\ planned[r].state = "confirmed" /\ planned'[r] # None) =>
    planned'[r].state \in {"confirmed", "dismissed"}]_vars
=============================================================================
