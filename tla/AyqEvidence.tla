----------------------------- MODULE AyqEvidence -----------------------------
(* What the statements AYQ has read prove: intervals of days, merged where   *)
(* they meet, and the months every account is covered for, which are the     *)
(* only ones the plan's suggestions rest on.                                 *)
EXTENDS Integers, FiniteSets, Sequences, SequencesExt

CONSTANTS
  Accounts,
  Days,       \* the days of the bank's books, consecutive integers
  Months,     \* [first, last] of each
  Bank,       \* the entries there really are, as [account, day]
  MaxRead,    \* bound: statements read
  None

(* Assumed where the module is instantiated. *)
DaysConsecutive == Days \subseteq Nat /\ \A d, e \in Days : d..e \subseteq Days
MonthsOfDays == \A m \in Months : m.first \in Days /\ m.last \in Days /\ m.first <= m.last
BankEntries == Bank \subseteq [account : Accounts, day : Days]
NoneIsNone == None \notin Days
Assumed == DaysConsecutive /\ MonthsOfDays /\ BankEntries /\ NoneIsNone

VARIABLES
  evidence,   \* the store's: [account, from, to] of each statement, from None if it did not say
  rows,       \* the budget's: the entries it holds
  known,      \* the accounts the budget has
  read        \* statements read

vars == <<evidence, rows, known, read>>

Init == evidence = {} /\ rows = {} /\ known = {} /\ read = 0

-----------------------------------------------------------------------------
Before(one, other) == one.from < other.from \/ (one.from = other.from /\ one.to < other.to)
Later(d, e) == IF d > e THEN d ELSE e
FirstOf(days) == CHOOSE d \in days : \A e \in days : d <= e
LastOf(days) == CHOOSE d \in days : \A e \in days : e <= d

Merge(merged, one) ==
  IF merged # <<>> /\ one.from <= Last(merged).to + 1
  THEN [merged EXCEPT ![Len(merged)].to = Later(@, one.to)]
  ELSE Append(merged, one)

(* ayqUnion: in order, the last of them merged into what the others make.    *)
Merged(intervals) ==
  LET merged[some \in SUBSET intervals] ==
        IF some = {} THEN <<>>
        ELSE LET last == CHOOSE e \in some : \A other \in some : other = e \/ Before(other, e)
             IN  Merge(merged[some \ {last}], last)
  IN  merged[intervals]

(* ayqProvenIntervals: what does not say where it begins proves nothing.     *)
Proven(account) == Merged(
  {[from |-> e.from, to |-> e.to] :
     e \in {e \in evidence : e.account = account /\ e.from # None /\ e.from <= e.to}})

(* ayqCovers                                                                 *)
Covers(intervals, first, last) ==
  LET merged == Merged(ToSet(intervals))
  IN  \E i \in 1..Len(merged) : merged[i].from <= first /\ merged[i].to >= last

(* lifetimes: the first day of any entry or statement of it.                 *)
Seen(account) ==
  {r.day : r \in {r \in rows : r.account = account}} \cup
  {IF e.from = None THEN e.to ELSE e.from : e \in {e \in evidence : e.account = account}}

(* An account first seen after the month ended was not there; one nothing is *)
(* known of may have been.                                                   *)
Participates(account, month) ==
  Seen(account) = {} \/ \E d \in Seen(account) : d <= month.last

(* ayqCompleteMonths                                                         *)
Complete == {m \in Months :
  LET there == {a \in known : Participates(a, m)}
  IN  there # {} /\ \A a \in there : Covers(Proven(a), m.first, m.last)}

-----------------------------------------------------------------------------
(* Mutant: what does not say where it begins is taken to begin with the first day. *)
ReadOpen(account, from, to, said, ended) ==
  LET found == {b \in Bank : b.account = account /\ b.day \in from..to}
  IN  /\ found # {}
      /\ rows' = rows \cup found
      /\ evidence' = evidence \cup
           {[account |-> account, from |-> IF said THEN from ELSE FirstOf(Days),
             to |-> IF ended THEN to ELSE LastOf({b.day : b \in found})]}

(* The entries of a statement are imported, and what it proves is recorded:  *)
(* from the start it states and nothing else, to the end it states or its    *)
(* last entry (ayqImportCamt, coverageEvidence). One without an entry proves *)
(* nothing.                                                                  *)
Read(account, from, to, said, ended) ==
  LET found == {b \in Bank : b.account = account /\ b.day \in from..to}
  IN  /\ found # {}
      /\ rows' = rows \cup found
      /\ evidence' = evidence \cup
           {[account |-> account, from |-> IF said THEN from ELSE None,
             to |-> IF ended THEN to ELSE LastOf({b.day : b \in found})]}

ReadStatement ==
  /\ read < MaxRead /\ read' = read + 1
  /\ \E account \in Accounts, from, to \in Days, said, ended \in BOOLEAN :
       /\ from <= to
       /\ Read(account, from, to, said, ended)
       /\ known' = known \cup {account}

(* An account the budget has and no statement was read for.                  *)
AddAccount ==
  /\ read < MaxRead /\ read' = read + 1
  /\ \E account \in Accounts \ known : known' = known \cup {account}
  /\ UNCHANGED <<evidence, rows>>

Next == ReadStatement \/ AddAccount

Spec == Init /\ [][Next]_vars

-----------------------------------------------------------------------------
TypeOK ==
  /\ \A e \in evidence : e.account \in Accounts /\ e.from \in Days \cup {None} /\ e.to \in Days
  /\ rows \subseteq Bank
  /\ known \subseteq Accounts
  /\ read \in 0..MaxRead

(* The days some statement with a known start covers, by their definition.   *)
Covered(account) == {d \in Days : \E e \in evidence :
  e.account = account /\ e.from # None /\ d \in e.from..e.to}

(* The merged intervals are in order, with a day between any two that is not *)
(* covered, and hold just the days the statements cover, however they        *)
(* overlap (ayq-evidence.ts:52-58).                                          *)
MergedExactly == \A account \in Accounts :
  LET merged == Proven(account) IN
  /\ \A i \in 1..Len(merged) : merged[i].from <= merged[i].to
  /\ \A i \in 2..Len(merged) : merged[i].from > merged[i - 1].to + 1
  /\ UNION {merged[i].from..merged[i].to : i \in 1..Len(merged)} = Covered(account)

(* A month is taken for complete only if every entry the bank has in it is   *)
(* held, for each account known to have been there (ayq-evidence.ts:161-170).*)
MonthsHonest == \A m \in Complete : \A b \in Bank :
  (b.day \in m.first..m.last /\ b.account \in known /\ Participates(b.account, m)) => b \in rows

(* An account nothing is known of leaves no month complete: that it was not  *)
(* there is not known (ayq-evidence.ts:172-174).                             *)
UnknownExcludes == (\E a \in known : Seen(a) = {}) => Complete = {}

(* A complete month is covered by some account, never by there being none    *)
(* (ayq-evidence.ts:198-202).                                                *)
NotOfNobody == \A m \in Complete : \E a \in known : m.first..m.last \subseteq Covered(a)
=============================================================================
