------------------------------ MODULE MCAyqPlan ------------------------------
(* The plan and the forecast, as independent specifications in one run that  *)
(* share no state: an initial state chooses one, and the variables of the    *)
(* others stand still.  The plan: two records that repeat, three payments of *)
(* which one is near in amount only, and rhythms that begin on the second    *)
(* day; with what a person decides about dates, with what becomes of the     *)
(* records, or with two requests that cross.  The forecast: an expense the   *)
(* plan covers, income, and an expense of no category on another account.    *)
EXTENDS AyqPlan, TLC

CONSTANTS
  Parts,       \* the specifications to check: subset of {"dates", "records",
               \* "crossing", "forecast"}
  FarDay, Long, Ahead, Payments, Categories, PlanCents, Held,   \* of the forecast
  k, q1, q2

VARIABLES
  part,
  forecastDay, expected, booked, known, counting, forecastTask, forecastAsked

MCBooked == <<[day |-> 1, amount |-> 50, key |-> k],
              [day |-> 2, amount |-> 50, key |-> k],
              [day |-> 3, amount |-> 52, key |-> k]>>
MCSeries == {[key |-> k, amount |-> 50, start |-> 2]}

DatesPart == INSTANCE AyqPlan WITH
  Asks <- {"add", "dismiss", "reject", "unmatch", "apply", "match", "import", "reschedule"},
  Amounts <- {50}, MaxAsked <- 4

RecordsPart == INSTANCE AyqPlan WITH
  Asks <- {"add", "edit", "confirm", "put away", "remove", "suggest", "import", "apply",
           "match"}

CrossingPart == INSTANCE AyqPlan WITH
  Asks <- {"add", "apply", "import", "match", "unmatch", "remove"},
  Amounts <- {50}, Tasks <- {q1, q2}, Crossing <- TRUE

Forecasts == INSTANCE AyqForecast WITH
  LastDay <- FarDay, MaxAsked <- MaxAsked, Crossing <- FALSE,
  today <- forecastDay, task <- forecastTask, asked <- forecastAsked

MCPayments ==
  1 :> [kind |-> "expense", amount |-> 30, category |-> 11, account |-> 21, due |-> 2] @@
  2 :> [kind |-> "income", amount |-> 50, category |-> None, account |-> 21, due |-> 4] @@
  3 :> [kind |-> "expense", amount |-> 7, category |-> None, account |-> 22, due |-> 4]
MCPlanCents == 11 :> 40
MCHeld == 21 :> 100 @@ 22 :> 0

ASSUME ForecastAssumed == Forecasts!Assumed

forecastVars == <<forecastDay, expected, booked, known, counting, forecastTask, forecastAsked>>

MCInit ==
  /\ part \in Parts
  /\ IF part = "crossing" THEN CrossingPart!Init ELSE Init
  /\ Forecasts!Init

MCNext ==
  \/ part = "dates" /\ DatesPart!Next /\ UNCHANGED <<forecastVars, part>>
  \/ part = "records" /\ RecordsPart!Next /\ UNCHANGED <<forecastVars, part>>
  \/ part = "crossing" /\ CrossingPart!Next /\ UNCHANGED <<forecastVars, part>>
  \/ part = "forecast" /\ Forecasts!Next /\ UNCHANGED <<vars, part>>

MCSpec == MCInit /\ [][MCNext]_<<vars, forecastVars, part>>

(* What is applied without asking was the only one of its kind, and nothing  *)
(* a person decided is changed by it, where no other request came between.   *)
AloneSure == [][part # "crossing" => Sole /\ Yields]_<<vars, part>>

(* Whatever is booked early, late or not at all: the lowest position shown   *)
(* is the lowest there can be, and the months close at what they take in     *)
(* and pay.                                                                  *)
LowestTrue == part = "forecast" => Forecasts!LowestTrue /\ Forecasts!ClosingsTrue

(* What has been spent is subtracted once and once only: a payment booked    *)
(* this month, and due this month or before, that is matched leaves the      *)
(* forecast ending where it did while it was expected.                       *)
SpentOnce == part = "forecast" => Forecasts!SpentOnce
=============================================================================
