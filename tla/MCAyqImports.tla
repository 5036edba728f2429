---------------------------- MODULE MCAyqImports ----------------------------
(* What statements do, as three independent specifications in one run that   *)
(* share no state (an initial state chooses one, and the variables of the    *)
(* others stand still): the import of three entries in two files that        *)
(* overlap, as daily exports do, one at a time or two that cross; the        *)
(* coverage of two months of three days, with entries on all days but one;   *)
(* and the anchors of an account over four days, one without an entry, where *)
(* no two figures agree by accident.                                         *)
EXTENDS AyqImport

CONSTANTS
  Parts,       \* the specifications to check: subset of {"alone", "crossing",
               \* "coverage", "anchors"}
  CoverDays, Months, InBank, MaxRead,   \* of the coverage
  LastDay, Moves, Opening, Requests, Wrong, MaxAsked,   \* of the anchors
  i1, i2, e1, e2, e3

MCFiles == {{e1, e2}, {e2, e3}}

VARIABLES
  part,
  covers, held, known, read,
  account, heldDays, starting, anchors, closings, request, asked, died, told, refused

Coverage == INSTANCE AyqEvidence WITH
  Days <- CoverDays, Bank <- InBank, evidence <- covers, rows <- held

MCMonths == {[first |-> 1, last |-> 3], [first |-> 4, last |-> 6]}
MCBank == [account : Accounts, day : {1, 2, 3, 4, 6}]

Anchors == INSTANCE AyqAnchors WITH
  Undated <- FALSE, ClockBack <- FALSE, held <- heldDays, deaths <- died

MCMoves == <<5, 0, 11, 23>>

ASSUME CoverageAssumed == Coverage!Assumed
ASSUME AnchorsAssumed == Anchors!Assumed

coverageVars == <<covers, held, known, read>>
anchorVars == <<account, heldDays, starting, anchors, closings, request, asked,
                died, told, refused>>

MCInit ==
  /\ part \in Parts
  /\ Init
  /\ Coverage!Init /\ Anchors!Init

(* One import at a time, and whatever else is asked meanwhile.               *)
AloneNext == Step(i1) \/ (\E c \in Choices : Choose(c)) \/ Die

MCNext ==
  \/ part = "alone" /\ AloneNext /\ UNCHANGED <<coverageVars, anchorVars, part>>
  \/ part = "crossing" /\ Next /\ UNCHANGED <<coverageVars, anchorVars, part>>
  \/ part = "coverage" /\ Coverage!Next /\ UNCHANGED <<vars, anchorVars, part>>
  \/ part = "anchors" /\ Anchors!Next /\ UNCHANGED <<vars, coverageVars, part>>

MCSpec == MCInit /\ [][MCNext]_<<vars, coverageVars, anchorVars, part>>

(* What an import that nothing crosses has put in the budget it can also     *)
(* explain: also the rows an import that died left there.                    *)
AloneExplained == [][part = "alone" => Explains]_<<vars, part>>

(* A month is taken for complete only if every entry the bank has in it is   *)
(* held, an account nothing is known of leaves none complete, and what is    *)
(* proved of an account is just what its statements cover.                   *)
CoverageHonest ==
  part = "coverage" =>
    Coverage!MonthsHonest /\ Coverage!UnknownExcludes /\ Coverage!MergedExactly

(* The anchor that stands is the balance of its day, the days on either side *)
(* balance as the bank's do where all between is held, and a request that    *)
(* nothing crosses does not fail.                                            *)
BalancesHonest ==
  part = "anchors" =>
    Anchors!AnchorHolds /\ Anchors!BalanceTrue /\ Anchors!AloneWorks
=============================================================================
