------------------------------ MODULE MCAyqGate ------------------------------
(* How requests get to the budget, as two specifications in one run that     *)
(* share no state (an initial state chooses one, and the variables of the    *)
(* other stand still).  The gate with four callers: one to hold it, two to   *)
(* queue behind it, so that their order matters, and one to come in between. *)
(* And the opening of the budget by three requests at once, with two starter *)
(* categories, one of Actual's own, one failed opening and one death, on a   *)
(* budget that is there or not.                                              *)
EXTENDS AyqGate

CONSTANTS
  Parts,   \* the specifications to check: subset of {"gate", "opening"}
  Requests, Starter, Placeholder, MaxFailures, MaxDeaths, None  \* of the opening

VARIABLES
  part,
  budgets, names, used, marked, opened, opening, run, asked, made, dropped, failures, deaths

Opening == INSTANCE AyqOpening

ASSUME OpeningAssumed == Opening!Assumed

openingVars == <<budgets, names, used, marked, opened, opening, run, asked, made, dropped,
                 failures, deaths>>

MCInit ==
  /\ part \in Parts /\ Init /\ Opening!Init
  /\ part = "opening" \/ budgets = 0

MCNext ==
  \/ part = "gate" /\ Next /\ UNCHANGED <<openingVars, part>>
  \/ part = "opening" /\ Opening!Next /\ UNCHANGED <<vars, part>>

(* The engine goes on with opening what it began, and the window goes on     *)
(* asking.                                                                   *)
OpeningFairness ==
  \A r \in Requests : /\ WF_openingVars(part = "opening" /\ Opening!Step(r))
                      /\ WF_openingVars(part = "opening" /\ Opening!Ask(r))

(* Nothing of the gate's fairness can happen where the opening was chosen.   *)
MCSpec == MCInit /\ [][MCNext]_<<vars, openingVars, part>> /\ Fairness /\ OpeningFairness

(* An opening that failed does not stop the next from succeeding, and nobody *)
(* waits for ever (ayq-engine.ts:226-234).                                   *)
Opens == []<>(part = "opening" => opened)
=============================================================================
