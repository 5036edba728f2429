----------------------------- MODULE MCAyqHost -----------------------------
(* What carries AYQ, as four independent specifications in one run that      *)
(* share no state (an initial state chooses one, and the variables of the    *)
(* others stand still): the relay with five requests, enough for one         *)
(* answered, one late, one cut off by the engine's end and one asked after   *)
(* it; the opening of the budget by three requests, with two starter         *)
(* categories, one of Actual's own, one failure and one death; the store's   *)
(* file, of version 1 to 3 for an AYQ of version 2, with two things to hold, *)
(* copies with three stamps, two restores and a damaged file; and the        *)
(* finished backups, of which two automatic ones are kept.                   *)
EXTENDS AyqRelay

CONSTANTS
  Parts,            \* the specifications to check: subset of
                    \* {"relay", "opening", "store", "sets"}
  Requests, Starter, Placeholder, MaxFailures, MaxDeaths,             \* of the opening
  Current, Bodies, Fresh, MaxStamp, MaxRestores, MaxDamage, Missing,  \* of the store
  Every, KeptSets, MaxNow, MaxMade, SetBack,                              \* of the backups
  None

VARIABLES
  part,
  budgets, names, used, marked, opened, opening, run, asked, made, dropped, failures, deaths,
  file, temporary, copies, aside, at, held, target, stamp, restores, damages, stuck,
  now, sets, written, partial, pc, trigger, budget

Opening == INSTANCE AyqOpening
Store == INSTANCE AyqStoreFile
Sets == INSTANCE AyqBackupSets WITH made <- written, Kept <- KeptSets

ASSUME HostAssumed == Opening!Assumed /\ Store!Assumed /\ Sets!Assumed

openingVars == <<budgets, names, used, marked, opened, opening, run, asked, made, dropped,
                 failures, deaths>>
storeVars == <<file, temporary, copies, aside, at, held, target, stamp, restores,
               damages, stuck>>
setsVars == <<now, sets, written, partial, pc, trigger, budget>>

MCInit ==
  /\ part \in Parts /\ Init /\ Opening!Init /\ Store!Init /\ Sets!Init
  /\ part = "opening" \/ budgets = 0
  /\ part = "store" \/ file = Missing
  /\ part = "sets" \/ ~partial

MCNext ==
  \/ part = "relay" /\ Next /\ UNCHANGED <<openingVars, storeVars, setsVars, part>>
  \/ part = "opening" /\ Opening!Next /\ UNCHANGED <<vars, storeVars, setsVars, part>>
  \/ part = "store" /\ Store!Next /\ UNCHANGED <<vars, openingVars, setsVars, part>>
  \/ part = "sets" /\ Sets!Next /\ UNCHANGED <<vars, openingVars, storeVars, part>>

(* Nothing of the relay's fairness can happen where another part was chosen. *)
MCSpec ==
  /\ MCInit /\ [][MCNext]_<<vars, openingVars, storeVars, setsVars, part>>
  /\ WF_vars(Notice) /\ WF_vars(SendFailed)
  /\ \A id \in Ids : WF_vars(Deliver(id)) /\ WF_vars(Timeout(id))

(* However many ask at once, one opens the budget and no second is made      *)
(* (ayq-engine.ts:196-207).                                                  *)
OneBudget == Opening!OneBudget

(* A category the owner removed does not come back by itself                 *)
(* (ayq-taxonomy.ts:29-31).                                                  *)
NeverComesBack == Opening!NeverComesBack

(* A store that AYQ may still need is not destroyed, wherever a read or a    *)
(* write of it stops (ayqReadStore, ayqKeepBeforeMigrating, ayqWriteStore).  *)
StoreKept == Store!StoreKept

(* Of the backups only older automatic ones go, and a start leaves a recent  *)
(* one (pruneAutomatic, ayqAutomaticBackupDue).                              *)
BackupsKept == Sets!BackupsKept

(* The backup just written and reported as made is not the one a pruning     *)
(* takes (ayq-backup.ts:77-78).                                              *)
JustWrittenStays == Sets!JustWrittenStays
=============================================================================
