----------------------------- MODULE AyqForecast -----------------------------
(* The forecast: the balances that count, moved by what is expected and by    *)
(* what the plan leaves, and the requests that put it together from three     *)
(* reads.  Which row is which payment is AyqPlan; here each is clear.         *)
EXTENDS Integers, FiniteSets, Functions, TLC

CONSTANTS
  LastDay, Long,  \* days are 1..LastDay, Long of them a month
  Ahead,          \* how far the forecast looks (AYQ_PLAN_HORIZON_MONTHS)
  Payments,       \* id -> [kind, amount, category, account, due]; ids are numbers
  Categories,     \* numbers too, none of them an id
  PlanCents,      \* category -> what is planned for each month
  Held,           \* account -> what it held before
  Tasks, Crossing, \* requests under way, and whether others come between their steps
  MaxAsked,       \* bound: requests that change something
  None

Days == 1..LastDay
Ids == DOMAIN Payments
Accounts == DOMAIN Held
MonthOf(day) == (day - 1) \div Long
MonthStart(month) == month * Long + 1

(* Assumed where the module is instantiated.  What is owed is more than       *)
(* nothing (ayq-plan.ts:231), and the forecast goes beyond the month.         *)
Payment == [kind : {"expense", "income"}, amount : Nat \ {0}, category : Categories \cup {None},
            account : Accounts, due : Days]
Numbers == /\ LastDay \in Nat \ {0} /\ Long \in Nat \ {0}
           /\ Ahead \in Nat /\ Ahead >= Long
           /\ MaxAsked \in Nat
Books == /\ Payments \in [Ids -> Payment]
         /\ PlanCents \in [Categories -> Int] /\ Held \in [Accounts -> Int]
Names == /\ Ids \subseteq Int /\ Categories \subseteq Int /\ Ids \cap Categories = {}
         /\ IsFiniteSet(Ids) /\ IsFiniteSet(Categories) /\ IsFiniteSet(Accounts)
Expectation == [due : Days, suggested : BOOLEAN, state : {"open", "dismissed", "matched"}]
Assumed == Numbers /\ Books /\ Names /\ None \notin Int \cup Expectation

VARIABLES
  today,
  expected,    \* the date of each payment that is planned, or None
  booked,      \* the day each payment was booked, or None
  known,       \* accounts with an anchor
  counting,    \* accounts that count towards available funds
  task, asked

vars == <<today, expected, booked, known, counting, task, asked>>

Idle == [at |-> "idle"]

Init ==
  /\ today = 1 /\ asked = 0
  /\ expected = [p \in Ids |-> None] /\ booked = [p \in Ids |-> None]
  /\ known = Accounts /\ counting = Accounts
  /\ task = [q \in Tasks |-> Idle]

Sum(f(_), S) == SumFunction([x \in S |-> f(x)])
Larger(a, b) == IF a > b THEN a ELSE b

-----------------------------------------------------------------------------
(* What is read.                                                             *)
Signed(p) == IF Payments[p].kind = "income" THEN Payments[p].amount ELSE -Payments[p].amount
Paid == {p \in Ids : booked[p] # None}
Balance(account) == Held[account] + Sum(Signed, {p \in Paid : Payments[p].account = account})

(* ayqAvailableFunds                                                         *)
AvailableFunds == IF counting \subseteq known THEN Sum(Balance, counting) ELSE None

Amount(p) == Payments[p].amount
Spent(c, month) ==
  Sum(Amount, {p \in Paid : /\ Payments[p].kind = "expense" /\ Payments[p].category = c
                              /\ MonthOf(booked[p]) = month})

(* Mutant: the plan of the month under way counts whole. *)
RemainingWhole == [c \in Categories |-> PlanCents[c]]

(* remainingCents of ayqBudgetMonth, of the month under way                  *)
Remaining == [c \in Categories |-> Larger(0, PlanCents[c] - Spent(c, MonthOf(today)))]

-----------------------------------------------------------------------------
(* ayqComputeForecast of what was read: [day, funds, expected, remaining].   *)

(* ayqCountsAsExpected                                                       *)
Counts(in, p) ==
  /\ in.expected[p] # None /\ in.expected[p].state = "open"
  /\ Payments[p].kind = "income" => in.expected[p].due >= in.day /\ ~in.expected[p].suggested

(* ayqEffectiveDate, planDate                                                *)
NotBefore(day, date) == Larger(day, date)

Until(in) == in.day + Ahead
Months(in) == MonthOf(in.day)..MonthOf(Until(in))

RecordEvents(in) ==
  {[on |-> NotBefore(in.day, in.expected[p].due), kind |-> Payments[p].kind, amount |-> Amount(p),
    of |-> p, category |-> Payments[p].category] :
     p \in {p \in Ids : Counts(in, p) /\ in.expected[p].due <= Until(in)}}

AmountOf(e) == e.amount
FromRecords(in, c, month) ==
  Sum(AmountOf, {e \in RecordEvents(in) : e.kind = "expense" /\ e.category = c /\ MonthOf(e.on) = month})

PlanOf(in, c, month) == IF month = MonthOf(in.day) THEN in.remaining[c] ELSE PlanCents[c]

(* ayqExpectedExpenseForCategory, without what the records take of it.       *)
Uncovered(in, c, month) ==
  Larger(PlanOf(in, c, month), FromRecords(in, c, month)) - FromRecords(in, c, month)

PlanEvents(in) ==
  LET left(p) == Uncovered(in, p[1], p[2]) IN
  {[on |-> NotBefore(in.day, MonthStart(p[2])), kind |-> "expense", amount |-> left(p), of |-> p[1],
    category |-> p[1]] :
     p \in {p \in Categories \X Months(in) : PlanOf(in, p[1], p[2]) > 0 /\ left(p) > 0}}

(* Mutant: what comes in is taken first. *)
InFirst(e, f) ==
  e.on < f.on \/ (e.on = f.on /\ \/ e.kind = "income" /\ f.kind = "expense"
                                 \/ e.kind = f.kind /\ e.of < f.of)

(* Money out before money in on the same day.                                *)
Before(e, f) ==
  e.on < f.on \/ (e.on = f.on /\ \/ e.kind = "expense" /\ f.kind = "income"
                                 \/ e.kind = f.kind /\ e.of < f.of)

SignedOf(e) == IF e.kind = "income" THEN e.amount ELSE -e.amount

(* The position after an event, the last of some.                            *)
After(in, events, e) == in.funds + Sum(SignedOf, {f \in events : f = e \/ Before(f, e)})
LastOf(events) == CHOOSE e \in events : \A f \in events : f = e \/ Before(f, e)

(* The last event that takes the position below all it was before.           *)
Lowest(in, events) ==
  LET lower == {e \in events :
                  /\ After(in, events, e) < in.funds
                  /\ \A f \in events : Before(f, e) => After(in, events, e) < After(in, events, f)}
  IN  IF lower = {} THEN [on |-> in.day, cents |-> in.funds]
      ELSE [on |-> LastOf(lower).on, cents |-> After(in, events, LastOf(lower))]

(* The last position of a month, or where the month before it closed.        *)
Closing(in, events, month) ==
  LET upTo == {e \in events : MonthOf(e.on) <= month}
  IN  IF upTo = {} THEN in.funds ELSE After(in, events, LastOf(upTo))

Forecast(in) ==
  IF in.funds = None THEN [lowest |-> None, closing |-> None, months |-> [m \in Months(in) |-> None]] ELSE
  LET events == RecordEvents(in) \cup PlanEvents(in)
  IN  [lowest |-> Lowest(in, events),
       closing |-> in.funds + Sum(SignedOf, events),
       months |-> [m \in Months(in) |-> Closing(in, events, m)]]

Now == [day |-> today, funds |-> AvailableFunds, expected |-> expected, remaining |-> Remaining]

-----------------------------------------------------------------------------
(* What the owner and the bank do.                                           *)
Asked ==
  /\ asked < MaxAsked /\ asked' = asked + 1
  /\ Crossing \/ \A q \in Tasks : task[q] = Idle

(* Nothing is expected before the day that was decided (AyqPlan).            *)
Expect(p, suggested) ==
  /\ Asked /\ expected[p] = None /\ today <= Payments[p].due
  /\ expected' = [expected EXCEPT ![p] = [due |-> Payments[p].due, suggested |-> suggested, state |-> "open"]]
  /\ UNCHANGED <<today, booked, known, counting, task>>

(* Accepted, moved to another date, put away or taken up again.              *)
Decide(p) ==
  /\ Asked /\ expected[p] # None
  /\ \/ expected' = [expected EXCEPT ![p].suggested = FALSE]
     \/ \E due \in today..LastDay : expected' = [expected EXCEPT ![p].due = due]
     \/ expected[p].state = "open" /\ expected' = [expected EXCEPT ![p].state = "dismissed"]
     \/ expected[p].state = "dismissed" /\ expected' = [expected EXCEPT ![p].state = "open"]
  /\ UNCHANGED <<today, booked, known, counting, task>>

(* The anchor of an account, and ayqSetAccountFlag.                          *)
Anchor(account) ==
  /\ Asked
  /\ \/ known' = known \cup {account} /\ UNCHANGED counting
     \/ known' = known \ {account} /\ UNCHANGED counting
     \/ counting' = counting \cup {account} /\ UNCHANGED known
     \/ counting' = counting \ {account} /\ UNCHANGED known
  /\ UNCHANGED <<today, expected, booked, task>>

(* A statement brings the row of a payment, perhaps days late, and the       *)
(* import goes on to match it.                                               *)
Import(q, p, day) ==
  /\ Asked /\ task[q] = Idle /\ booked[p] = None /\ day <= today
  /\ booked' = [booked EXCEPT ![p] = day]
  /\ task' = [task EXCEPT ![q] = [at |-> "match"]]
  /\ UNCHANGED <<today, expected, known, counting>>

Match(q) ==
  /\ task[q].at = "match" /\ task' = [task EXCEPT ![q] = Idle]
  /\ expected' = [p \in Ids |->
       IF p \in Paid /\ expected[p] # None /\ expected[p].state = "open"
       THEN [expected[p] EXCEPT !.state = "matched"] ELSE expected[p]]
  /\ UNCHANGED <<today, booked, known, counting, asked>>

NextDay ==
  /\ today < LastDay /\ today' = today + 1
  /\ Crossing \/ \A q \in Tasks : task[q] = Idle
  /\ UNCHANGED <<expected, booked, known, counting, task, asked>>

-----------------------------------------------------------------------------
(* ayqForecast, and ayqTodayView, which matches after it: the store, ...     *)
Ask(q, for) ==
  /\ task[q] = Idle
  /\ Crossing \/ \A r \in Tasks : task[r] = Idle
  /\ task' = [task EXCEPT ![q] = [at |-> "plan", for |-> for, day |-> today, expected |-> expected,
                                 closing |-> Forecast(Now).closing]]
  /\ UNCHANGED <<today, expected, booked, known, counting, asked>>

(* ... the plan month by month, ...                                          *)
ReadPlan(q) ==
  /\ task[q].at = "plan"
  /\ task' = [task EXCEPT ![q] = [remaining |-> Remaining] @@ [task[q] EXCEPT !.at = "accounts"]]
  /\ UNCHANGED <<today, expected, booked, known, counting, asked>>

(* ... and the balances.                                                     *)
Read(q) == [day |-> task[q].day, funds |-> AvailableFunds, expected |-> task[q].expected,
            remaining |-> task[q].remaining]

Overdue(in) == {p \in Ids : Counts(in, p) /\ in.expected[p].due < in.day}

Answer(q) ==
  /\ task[q].at = "accounts"
  /\ task' = [task EXCEPT ![q] = IF task[q].for = "forecast" THEN Idle
                                ELSE [at |-> "match", overdue |-> Overdue(Read(q))]]
  /\ UNCHANGED <<today, expected, booked, known, counting, asked>>

Next ==
  \/ NextDay
  \/ \E p \in Ids : (\E suggested \in BOOLEAN : Expect(p, suggested)) \/ Decide(p)
  \/ \E account \in Accounts : Anchor(account)
  \/ \E q \in Tasks :
       \/ \E p \in Ids, day \in Days : Import(q, p, day)
       \/ \E for \in {"forecast", "today"} : Ask(q, for)
       \/ Match(q) \/ ReadPlan(q) \/ Answer(q)

Spec == Init /\ [][Next]_vars

-----------------------------------------------------------------------------
TypeOK ==
  /\ today \in Days /\ asked \in 0..MaxAsked
  /\ known \subseteq Accounts /\ counting \subseteq Accounts
  /\ \A p \in Ids :
       booked[p] \in Days \cup {None} /\ expected[p] \in Expectation \cup {None}

Income == {e \in RecordEvents(Now) : e.kind = "income"}
Expenses == RecordEvents(Now) \ Income

(* The position is never below the lowest that is shown, at any moment of    *)
(* any day and whichever way a day's payments fall, and reaches it on the    *)
(* day that is named and on none before (ayq-forecast.ts:205-208).           *)
LowestTrue == AvailableFunds # None =>
  LET lowest == Forecast(Now).lowest
      worst(day) == AvailableFunds
        + Sum(AmountOf, {e \in Income : e.on < day})
        - Sum(AmountOf, {e \in Expenses \cup PlanEvents(Now) : e.on <= day})
      passed == today..Until(Now)
  IN  /\ \A day \in passed : worst(day) >= lowest.cents
      /\ \/ lowest.cents = AvailableFunds /\ lowest.on = today
         \/ lowest.cents < AvailableFunds /\ worst(lowest.on) = lowest.cents
      /\ \A day \in today..lowest.on - 1 : worst(day) > lowest.cents

(* A month closes at what is available and all months until then take in,    *)
(* less what they pay: of each category the larger of the plan and the       *)
(* records (ayq-forecast.ts:92-101, 249-250).  Where a balance that counts   *)
(* is unknown it closes at nothing that could be shown (:26-36).             *)
ClosingsTrue ==
  LET outside == {e \in Expenses : e.category \notin Categories}
      planned(q) == Larger(PlanOf(Now, q[1], q[2]), FromRecords(Now, q[1], q[2]))
  IN  \A month \in Months(Now) :
        Forecast(Now).months[month] =
          IF counting \subseteq known
          THEN AvailableFunds
               + Sum(AmountOf, {e \in Income : MonthOf(e.on) <= month})
               - Sum(AmountOf, {e \in outside : MonthOf(e.on) <= month})
               - Sum(planned, Categories \X (MonthOf(today)..month))
          ELSE None

(* What has been spent is subtracted once and once only: when its row is     *)
(* here and matched, a payment leaves the position at the end of the         *)
(* forecast where it was while it was expected (ayq-forecast.ts:124-132).    *)
(* It is about a payment out of an account that counts, booked this month    *)
(* and due this month or before: otherwise it is set against the plan of one *)
(* month while it is expected and of another once it is booked.              *)
SpentOnce == AvailableFunds # None => \A p \in Paid :
  (/\ Payments[p].kind = "expense" /\ Payments[p].account \in counting
   /\ expected[p] # None /\ expected[p].state = "matched"
   /\ MonthOf(booked[p]) = MonthOf(today) /\ MonthOf(expected[p].due) <= MonthOf(today)) =>
  LET c == Payments[p].category
      spentElse == Spent(c, MonthOf(today)) - Amount(p)
      before == [day |-> today, funds |-> AvailableFunds + Amount(p),
                 expected |-> [expected EXCEPT ![p] = [expected[p] EXCEPT !.state = "open"]],
                 remaining |-> [d \in Categories |-> IF d = c THEN Larger(0, PlanCents[c] - spentElse)
                                                     ELSE Remaining[d]]]
  IN  Forecast(before).closing = Forecast(Now).closing

(* A forecast is of one moment of the request (ayq-today.ts:3-7).            *)
OfOneMoment == [][\A q \in Tasks : (task[q].at = "accounts" /\ task'[q] # task[q]) =>
  Forecast(Read(q)).closing \in {task[q].closing, Forecast(Now).closing}]_vars

(* The payments Today counts as overdue are those Upcoming shows             *)
(* (ayq-today.ts:24-26).                                                     *)
TodayAgrees == [][\A q \in Tasks : (task[q].at = "match" /\ "overdue" \in DOMAIN task[q] /\ task'[q] = Idle) =>
  task[q].overdue = (Overdue(Now))']_vars
=============================================================================
