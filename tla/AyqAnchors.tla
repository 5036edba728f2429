------------------------------ MODULE AyqAnchors ------------------------------
(* What one account holds.  A balance is evidence: the bank stated it, or    *)
(* the owner did, and the anchor that stands is written into the budget's    *)
(* starting row, so that the budget's balance on the anchor's day is it.     *)
(* Importing statements and stating a balance take steps, which may cross.   *)
EXTENDS Integers, Sequences, SequencesExt, FiniteSets

CONSTANTS
  LastDay,     \* the days of the bank's books are 1..LastDay; all of them are past
  Moves,       \* what moved on each; nothing was booked on a day of 0
  Opening,     \* what there was before the first day
  Requests,    \* bound: requests under way at once
  Wrong,       \* by how much the owner may misstate a balance
  Undated,     \* whether statements may leave out their period
  ClockBack,   \* whether the wall clock may be set back
  MaxAsked,    \* bound: requests in all
  MaxDeaths,   \* bound: times AYQ dies
  None

Days == 1..LastDay
(* Assumed where the module is instantiated. *)
MovesOfDays == LastDay \in Nat \ {0} /\ Moves \in [Days -> Int] /\ Opening \in Int
WrongIsInt == Wrong \subseteq Int
NoneIsNone == None \notin Days
Assumed == MovesOfDays /\ WrongIsInt /\ NoneIsNone

VARIABLES
  account,     \* whether the budget has the account
  held,        \* the days whose movements the budget holds
  starting,    \* its starting rows: [date, amount]
  anchors,     \* the store's, in the order of their createdAt
  closings,    \* the store's evidence: the days statements closed with a balance
  request,     \* what each request does next
  asked, deaths,
  told,        \* history: how the last request to end ended
  refused      \* history: a request that nothing crossed failed

vars == <<account, held, starting, anchors, closings, request, asked, deaths, told, refused>>

Idle == [at |-> "idle"]

Init ==
  /\ account = FALSE /\ held = {} /\ starting = <<>>
  /\ anchors = <<>> /\ closings = {}
  /\ request = [r \in Requests |-> Idle]
  /\ asked = 0 /\ deaths = 0 /\ told = "none" /\ refused = FALSE

-----------------------------------------------------------------------------
(* What the bank has at the end of a day.                                    *)
Bank == LET bank[d \in 0..LastDay] == IF d = 0 THEN Opening ELSE bank[d - 1] + Moves[d]
        IN  bank

Booked(from, to) == {d \in from..to : Moves[d] # 0}

(* ayqMovementsBetween, movementsTo: the first day is not counted.           *)
Moved(after, to) ==
  LET moved[d \in after..to] ==
        IF d = after THEN 0 ELSE moved[d - 1] + (IF d \in held THEN Moves[d] ELSE 0)
  IN  moved[to]

(* api.getAccountBalance at a day.                                           *)
Balance(day) ==
  LET sum[n \in 0..Len(starting)] ==
        IF n = 0 THEN Moved(0, day)
        ELSE sum[n - 1] + (IF starting[n].date <= day THEN starting[n].amount ELSE 0)
  IN  sum[Len(starting)]

FirstHeld == IF held = {} THEN None ELSE CHOOSE d \in held : \A e \in held : d <= e

(* The owner's later word stands; the bank's if it is about a later day.     *)
Stands(active, anchor) ==
  IF anchor.source = "manual" \/ active = None \/ anchor.day > active.day THEN anchor ELSE active

ActiveOf(history) ==
  LET active[n \in 0..Len(history)] == IF n = 0 THEN None ELSE Stands(active[n - 1], history[n])
  IN  active[Len(history)]
Active == ActiveOf(anchors)

(* ayqAccountedFor: from the latest anchor before that day.                  *)
AccountedFor(closing) ==
  LET earlier == SelectSeq(anchors, LAMBDA a : a.day < closing)
      latest == FoldLeft(LAMBDA l, a : IF l = None \/ a.day >= l.day THEN a ELSE l, None, earlier)
  IN  IF latest = None THEN None
      ELSE [from |-> latest.day, amount |-> latest.amount + Moved(latest.day, closing)]

(* The bankAnchors of a statement: its closing balance on the day it ends,   *)
(* which is the day of each entry where it does not say; its opening one on  *)
(* the day before it begins.                                                 *)
BankAnchors(s) ==
  LET closes == IF s.dated THEN {s.to} ELSE Booked(s.from, s.to)
      opens == IF s.dated /\ s.opens THEN {s.from - 1} ELSE {}
  IN  {[day |-> d, amount |-> Bank[s.to]] : d \in IF s.closes THEN closes ELSE {}} \cup
      {[day |-> d, amount |-> Bank[d]] : d \in opens}

-----------------------------------------------------------------------------
Goes(r, at) == request[r].at = at /\ UNCHANGED <<asked, deaths>>
Then(r, step) == request' = [request EXCEPT ![r] = step]
Goto(r, at) == Then(r, [request[r] EXCEPT !.at = at])
GoesOn == UNCHANGED <<told, refused>>

Alone == \A r \in Requests : request[r] = Idle

(* A request begins; what is under way is crossed by it.                     *)
Begins(r, step) ==
  /\ request[r] = Idle
  /\ asked < MaxAsked /\ asked' = asked + 1
  /\ request' = [q \in Requests |->
       IF q = r THEN step
       ELSE IF request[q] = Idle THEN Idle ELSE [request[q] EXCEPT !.alone = FALSE]]
  /\ UNCHANGED deaths /\ GoesOn

Ends(r, how) ==
  /\ Then(r, Idle) /\ told' = how
  /\ refused' = (refused \/ (how = "failed" /\ request[r].alone))

(* The history with an anchor more, where its createdAt puts it.             *)
Recorded(history, anchor) ==
  {InsertAt(history, i, anchor) : i \in IF ClockBack THEN 1..Len(history) + 1 ELSE {Len(history) + 1}}

(* accounts.setBalance, accounts.reanchor, ayqRecordAnchor                   *)
SetBalance(r, day, amount) ==
  LET anchor == [day |-> day, amount |-> amount, source |-> "manual", id |-> asked]
  IN  /\ account
      /\ anchors' \in Recorded(anchors, anchor)
      /\ Begins(r, [at |-> "movements", anchor |-> anchor, alone |-> Alone])
      /\ UNCHANGED <<account, held, starting, closings>>

(* ayqImportCamt: the store is read.                                         *)
BeginImport(r, statement) ==
  /\ Begins(r, [at |-> "account", statement |-> statement, anchors |-> anchors,
                closings |-> closings, alone |-> Alone])
  /\ UNCHANGED <<account, held, starting, anchors, closings>>

(* accountFor: an account is made with the opening balance the statement     *)
(* states, which the budget dates today.                                     *)
FindAccount(r) ==
  LET s == request[r].statement IN
  /\ Goes(r, "account")
  /\ account' = TRUE
  /\ starting' = IF ~account /\ s.opens /\ Bank[s.from - 1] # 0
                 THEN Append(starting, [date |-> LastDay + 1, amount |-> Bank[s.from - 1]])
                 ELSE starting
  /\ Goto(r, "rows")
  /\ UNCHANGED <<held, anchors, closings>> /\ GoesOn

ImportRows(r) ==
  /\ Goes(r, "rows")
  /\ held' = held \cup Booked(request[r].statement.from, request[r].statement.to)
  /\ Goto(r, "remember")
  /\ UNCHANGED <<account, starting, anchors, closings>> /\ GoesOn

(* The store that was read is written whole.                                 *)
Remember(r) ==
  /\ Goes(r, "remember")
  /\ anchors' = request[r].anchors /\ closings' = request[r].closings
  /\ Goto(r, "record")
  /\ UNCHANGED <<account, held, starting>> /\ GoesOn

(* Those of a statement that the history has not, earliest first; a          *)
(* statement states at most one for a day.                                   *)
New(s) ==
  LET unknown == {b \in BankAnchors(s) : ~\E a \in ToSet(anchors) :
                    a.source = "bank" /\ a.day = b.day /\ a.amount = b.amount}
      before[d \in 0..LastDay + 1] ==
        IF d = 0 THEN <<>>
        ELSE IF \E b \in unknown : b.day = d - 1
          THEN Append(before[d - 1], [day |-> d - 1, source |-> "bank", id |-> asked,
                 amount |-> (CHOOSE b \in unknown : b.day = d - 1).amount])
          ELSE before[d - 1]
  IN  before[LastDay + 1]

Closed(s) ==
  IF ~s.closes THEN {}
  ELSE {IF s.dated THEN s.to ELSE CHOOSE d \in Booked(s.from, s.to) : \A e \in Booked(s.from, s.to) : e <= d}

(* Mutant: what the file stated is applied, whether it stands or not. *)
RecordApplies(r) ==
  LET new == New(request[r].statement) IN
  /\ Goes(r, "record")
  /\ anchors' = anchors \o new
  /\ closings' = closings \cup Closed(request[r].statement)
  /\ IF new = <<>> THEN Ends(r, "ok")
     ELSE /\ Then(r, [at |-> "movements", anchor |-> Last(new), alone |-> request[r].alone])
          /\ GoesOn
  /\ UNCHANGED <<account, held, starting>>

(* The bank's balances are recorded, and the anchor that stands is taken to  *)
(* be applied again (ayqReapplyAnchor).                                      *)
Record(r) ==
  /\ Goes(r, "record")
  /\ anchors' = anchors \o New(request[r].statement)
  /\ closings' = closings \cup Closed(request[r].statement)
  /\ IF Active' = None THEN Ends(r, "ok")
     ELSE /\ Then(r, [at |-> "movements", anchor |-> Active', alone |-> request[r].alone])
          /\ GoesOn
  /\ UNCHANGED <<account, held, starting>>

-----------------------------------------------------------------------------
(* ayqApplyAnchor: the figure the starting row must carry, ...               *)
ReadMovements(r) ==
  /\ Goes(r, "movements")
  /\ Then(r, [at |-> "earliest", anchor |-> request[r].anchor, alone |-> request[r].alone,
              technical |-> request[r].anchor.amount - Moved(0, request[r].anchor.day)])
  /\ UNCHANGED <<account, held, starting, anchors, closings>> /\ GoesOn

(* ... the day it must carry it on, never after the anchor's, ...            *)
ReadEarliest(r) ==
  LET day == request[r].anchor.day IN
  /\ Goes(r, "earliest")
  /\ Then(r, [at |-> "starting", anchor |-> request[r].anchor, alone |-> request[r].alone,
              technical |-> request[r].technical,
              date |-> IF FirstHeld # None /\ FirstHeld < day THEN FirstHeld ELSE day])
  /\ UNCHANGED <<account, held, starting, anchors, closings>> /\ GoesOn

(* ... and the row, the earliest if there are several, or 0.                 *)
ReadStarting(r) ==
  /\ Goes(r, "starting")
  /\ \E i \in (IF starting = <<>> THEN {0} ELSE 1..Len(starting)) :
       /\ \A j \in 1..Len(starting) : starting[i].date <= starting[j].date
       /\ Then(r, [at |-> "write", anchor |-> request[r].anchor, alone |-> request[r].alone,
                   technical |-> request[r].technical, date |-> request[r].date, row |-> i])
  /\ UNCHANGED <<account, held, starting, anchors, closings>> /\ GoesOn

Write(r) ==
  LET to == [date |-> request[r].date, amount |-> request[r].technical] IN
  /\ Goes(r, "write")
  /\ starting' = IF request[r].row = 0 THEN Append(starting, to)
                 ELSE [starting EXCEPT ![request[r].row] = to]
  /\ Goto(r, "settle")
  /\ UNCHANGED <<account, held, anchors, closings>> /\ GoesOn

(* The budget is asked until its balance is the anchor's, or time is up.     *)
Settle(r) ==
  /\ Goes(r, "settle")
  /\ Ends(r, IF Balance(request[r].anchor.day) = request[r].anchor.amount THEN "ok" ELSE "failed")
  /\ UNCHANGED <<account, held, starting, anchors, closings>>

-----------------------------------------------------------------------------
Die ==
  /\ deaths < MaxDeaths /\ deaths' = deaths + 1
  /\ request' = [r \in Requests |-> Idle]
  /\ told' = "none"
  /\ UNCHANGED <<account, held, starting, anchors, closings, asked, refused>>

(* Statements hold an entry at least.                                        *)
Ask(r) ==
  \/ \E day \in Days, wrong \in Wrong : SetBalance(r, day, Bank[day] + wrong)
  \/ \E from, to \in Days, opens, closes \in BOOLEAN, dated \in {TRUE, ~Undated} :
       Booked(from, to) # {} /\ BeginImport(r, [from |-> from, to |-> to, opens |-> opens, closes |-> closes, dated |-> dated])

Step(r) ==
  \/ FindAccount(r) \/ ImportRows(r) \/ Remember(r) \/ Record(r)
  \/ ReadMovements(r) \/ ReadEarliest(r) \/ ReadStarting(r) \/ Write(r) \/ Settle(r)

Next == Die \/ \E r \in Requests : Ask(r) \/ Step(r)

Spec == Init /\ [][Next]_vars

-----------------------------------------------------------------------------
TypeOK ==
  /\ account \in BOOLEAN /\ held \subseteq Days /\ closings \subseteq Days
  /\ Len(starting) <= Cardinality(Requests)
  /\ \A i \in 1..Len(starting) : starting[i].date \in 0..LastDay + 1 /\ starting[i].amount \in Int
  /\ \A i \in 1..Len(anchors) : anchors[i].day \in 0..LastDay /\ anchors[i].source \in {"bank", "manual"}
  /\ \A r \in Requests : request[r].at \in {"idle", "account", "rows", "remember", "record",
       "movements", "earliest", "starting", "write", "settle"}
  /\ told \in {"none", "ok", "failed"} /\ refused \in BOOLEAN

(* When a request has ended well, the budget's balance on the day of the     *)
(* anchor that stands is the anchor, whatever was imported in which order    *)
(* and whatever died before (ayq-anchors.ts:226-236).                        *)
AnchorHolds == (Alone /\ told = "ok" /\ Active # None) => Balance(Active.day) = Active.amount

(* Where the bank's word stands, the balance of every other day is the       *)
(* bank's too, from the first movement held on, if all between are held      *)
(* (ayq-anchors.ts:25-34).                                                   *)
BalanceTrue ==
  (Alone /\ told = "ok" /\ Active # None /\ Active.source = "bank") =>
    \A d \in Days :
      ((d >= Active.day \/ (held # {} /\ d >= FirstHeld)) /\ Booked(d + 1, Active.day) \cup Booked(Active.day + 1, d) \subseteq held)
        => Balance(d) = Bank[d]

(* The anchor that stands gives way to the owner's word, or to the bank's    *)
(* about a later day; an older statement imported later does not displace it *)
(* (ayq-anchors.ts:59-72).                                                   *)
NewerStands == [][(Active # None /\ Active' # Active) =>
  (Active' # None /\ (Active'.source = "manual" \/ Active'.day > Active.day))]_vars

(* A request nothing crosses does not fail: what went before left a budget   *)
(* in which the anchor can be stated (ayq-anchors.ts:228-231).               *)
AloneWorks == ~refused

(* A difference from what the bank says means that statements are missing    *)
(* over the interval (ayq-anchors.ts:326-330).                               *)
DifferenceMeansMissing == closings # {} =>
  LET closing == CHOOSE d \in closings : \A e \in closings : e <= d
      accounted == AccountedFor(closing)
  IN  (Alone /\ accounted # None /\ accounted.amount # Bank[closing]) =>
        ~(Booked(accounted.from + 1, closing) \subseteq held)

(* Each anchor of the bank's is what the bank had that day (ayq-camt-import. *)
(* ts:154-158).                                                              *)
AnchorsTrue == \A i \in 1..Len(anchors) :
  anchors[i].source = "bank" => anchors[i].amount = Bank[anchors[i].day]

(* An explicit later manual re-anchor becomes active (ayq-anchors.ts:64).    *)
ManualStands == [][\A anchor \in ToSet(anchors') \ ToSet(anchors) :
  anchor.source = "manual" => Active' = anchor]_vars
=============================================================================
