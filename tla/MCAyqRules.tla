----------------------------- MODULE MCAyqRules -----------------------------
(* Filing and the categories, as independent specifications in one run that  *)
(* share no state: an initial state chooses one, and the variables of the    *)
(* others stand still.  Filing: two transactions of one counterparty, one of *)
(* them perhaps filed before AYQ came, two categories, and two versions of   *)
(* what AYQ reads from the evidence.  Categories: three of them, two names,  *)
(* a group for money in and two for money out, with one request at a time,   *)
(* or with two that cross and a death.                                       *)
EXTENDS AyqCategorise

CONSTANTS
  Parts,       \* the specifications to check: subset of {"filing", "alone", "crossing"}
  t1, t2, p1, food, rent,
  Ids, Names, Groups, IncomeGroups, Keys, Entries, Records,  \* of the categories
  Requests, MaxAsked, MaxDeaths, Amount, PlanAmount,
  q1,
  MaxCrossing,    \* bound: requests in all, of those that cross, ...
  CrossingGroups  \* ... and the groups they put categories in

MCPartyOf == [t \in {t1, t2} |-> p1]

MCGuesses == {[t \in {t1, t2} |-> IF t = t1 THEN food ELSE None],
              [t \in {t1, t2} |-> IF t = t1 THEN rent ELSE food]}

MCAmount == [p \in Records |-> 1]

VARIABLES
  part,
  category, income, forward, filed, plan, named, records, meant, doing, asked, deaths

Cats == INSTANCE AyqCategories WITH rules <- named

ASSUME CatsAssumed == Cats!Assumed

categoryVars == <<category, income, forward, filed, plan, named, records, meant,
                  doing, asked, deaths>>

CrossingBound ==
  /\ asked <= MaxCrossing
  /\ \A c \in Ids : category[c] # None => category[c].group \in CrossingGroups

MCInit ==
  /\ part \in Parts
  /\ Init /\ Cats!Init
  /\ part = "filing" \/ (cat = [t \in Txns |-> None] /\ guess = (CHOOSE g \in Guesses : TRUE))
  /\ part = "crossing" => CrossingBound
  /\ part # "filing" \/ category = [c \in Ids |->
       CASE c = "c1" -> [name |-> "a", group |-> "in1"]
         [] c = "c2" -> [name |-> "a", group |-> "out1"]
         [] OTHER -> None]

MCNext ==
  \/ part = "filing" /\ Next /\ UNCHANGED <<categoryVars, part>>
  \/ part = "alone" /\ Cats!Request(q1) /\ UNCHANGED <<vars, part>>
  \/ part = "crossing" /\ Cats!Next /\ CrossingBound' /\ UNCHANGED <<vars, part>>

MCSpec == MCInit /\ [][MCNext]_<<vars, categoryVars, part>>

(* Every rule names a category there is once no request is under way.        *)
RulesLive == part = "alone" => Cats!RulesLive

(* ... also where requests cross and AYQ dies (ayq-engine.ts:927-928).       *)
RulesLiveAcross == Cats!RulesLive

(* A transaction loses its category only where its owner said so, however    *)
(* often its category was removed into another (ayq-categories.ts:183-188).  *)
SaidSo == [][part = "alone" => Cats!KeepsUnlessSaid]_<<categoryVars, part>>

(* ... also where requests cross and AYQ dies.                               *)
SaidSoAcross == Cats!SaidSo

(* What the store has moved for a removal, the budget does not refuse to     *)
(* move, whatever requests cross and wherever AYQ dies                       *)
(* (ayq-categories.ts:224-267).                                              *)
RemovalNotRefused == Cats!RemovalNotRefused

(* A transaction counts as money in or as money out until it is filed again  *)
(* (ayq-categories.ts:91-94).                                                *)
RowsKeepSide == Cats!RowsKeepSide

(* A counterparty that has a rule has one after a removal into another       *)
(* category (ayq-categories.ts:187-188, 237-239).                            *)
RemovalKeepsRules == Cats!RemovalKeepsRules

(* The larger of the plan and its records, never their sum.                  *)
LargerNeverSum == part = "alone" => Cats!LargerNeverSum
=============================================================================
