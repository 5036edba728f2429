---------------------------- MODULE AyqBackupSets ----------------------------
(* Which backups there are over many starts of AYQ: when an automatic one is *)
(* due, what it leaves when it is interrupted, which ones are removed for    *)
(* it.  Everything goes by the clock of the machine, which somebody may set. *)
(* The status file is left out: nothing is decided by what it says.          *)
EXTENDS Integers, FiniteSets

CONSTANTS
  Every,       \* hours, or so, after which an automatic backup is due
  Kept,        \* how many automatic backups are kept
  MaxNow,      \* bound: how far the clock runs
  MaxMade,     \* bound: how many backups are written
  SetBack,     \* whether the clock may be set back
  None

(* Assumed where the module is instantiated. *)
PolicyNat == Every \in Nat \ {0} /\ Kept \in Nat \ {0}
BoundsNat == MaxNow \in Nat /\ MaxMade \in Nat /\ SetBack \in BOOLEAN
Assumed == PolicyNat /\ BoundsNat

VARIABLES
  now,         \* the clock
  sets,        \* finished backups; n is the order they were written in
  made,        \* history: how many have been written
  partial,     \* an unfinished backup's folder is there
  pc,          \* where the engine stands
  trigger,     \* of the backup under way
  budget       \* there is a budget to back up

vars == <<now, sets, made, partial, pc, trigger, budget>>

Triggers == {"automatic", "manual", "before-restore"}

Init ==
  /\ now = 0
  /\ sets = {}
  /\ made = 0
  /\ partial = FALSE
  /\ pc = "off"
  /\ trigger = None
  /\ budget = FALSE

-----------------------------------------------------------------------------
(* listed(): what reads as a backup, the newest by its date first.         *)
Listed == {b \in sets : b.reads}
Automatic == {b \in Listed : b.trigger = "automatic"}
Newest == CHOOSE b \in Listed : \A c \in Listed : c.at <= b.at

(* ayqAutomaticBackupDue: a backup dated in the future is no reason to wait. *)
Due == budget /\ (Listed = {} \/ ~(now - Newest.at \in 0..(Every - 1)))

(* ayqRecoverInterruptedRestore, ayqClearPartialBackups (which may fail) and *)
(* then the automatic backup, before anything is opened.                    *)
Start ==
  /\ pc = "off"
  /\ partial' \in {FALSE, partial}
  /\ IF Due THEN pc' = "copy" /\ trigger' = "automatic"
            ELSE pc' = "up" /\ UNCHANGED trigger
  /\ UNCHANGED <<now, sets, made, budget>>

(* openBudget creates a budget where there is none. *)
Open ==
  /\ pc = "up"
  /\ ~budget
  /\ budget' = TRUE
  /\ UNCHANGED <<now, sets, made, partial, pc, trigger>>

(* A person asks for one, or a restore keeps what it replaces. *)
Ask(t) ==
  /\ pc = "up"
  /\ budget
  /\ made < MaxMade
  /\ t # "automatic"
  /\ pc' = "copy"
  /\ trigger' = t
  /\ UNCHANGED <<now, sets, made, partial, budget>>

(* Into a folder of its own... *)
Copy ==
  /\ pc = "copy"
  /\ made < MaxMade
  /\ \A b \in sets : b.at # now
  /\ partial' = TRUE
  /\ pc' = "rename"
  /\ UNCHANGED <<now, sets, made, trigger, budget>>

(* ... which is renamed once it is complete. *)
Rename ==
  /\ pc = "rename"
  /\ partial' = FALSE
  /\ made' = made + 1
  /\ sets' = sets \cup {[n |-> made, at |-> now, trigger |-> trigger, reads |-> TRUE]}
  /\ pc' = IF trigger = "automatic" THEN "prune" ELSE "up"
  /\ UNCHANGED <<now, trigger, budget>>

(* An exception in between: the folder goes again, or stays if that fails.  *)
Fail ==
  /\ pc \in {"copy", "rename"}
  /\ partial' \in {FALSE, partial}
  /\ pc' = "up"
  /\ UNCHANGED <<now, sets, made, trigger, budget>>

Older(b) == Cardinality({c \in Automatic : c.at > b.at}) >= Kept

(* Mutant: sorted the other way, the newest go. *)
PrunedNewest ==
  {b \in Automatic : Cardinality({c \in Automatic : c.at < b.at}) >= Kept}

(* pruneAutomatic: the automatic ones but for the newest by their dates.   *)
Pruned == {b \in Automatic : Older(b)}

Prune ==
  /\ pc = "prune"
  /\ sets' = sets \ Pruned
  /\ pc' = "up"
  /\ UNCHANGED <<now, made, partial, trigger, budget>>

-----------------------------------------------------------------------------
(* Time passes, or somebody sets the clock. *)
Tick ==
  /\ pc \in {"off", "up"}
  /\ now' \in IF SetBack THEN 0..MaxNow ELSE now..MaxNow
  /\ UNCHANGED <<sets, made, partial, pc, trigger, budget>>

(* A description that no longer reads; AYQ is not running. *)
Rot ==
  /\ pc = "off"
  /\ \E b \in Listed : sets' = (sets \ {b}) \cup {[b EXCEPT !.reads = FALSE]}
  /\ UNCHANGED <<now, made, partial, pc, trigger, budget>>

Stop ==
  /\ pc # "off"
  /\ pc' = "off"
  /\ UNCHANGED <<now, sets, made, partial, trigger, budget>>

Next ==
  \/ Start \/ Open \/ (\E t \in Triggers : Ask(t))
  \/ Copy \/ Rename \/ Fail \/ Prune
  \/ Tick \/ Rot \/ Stop

Spec == Init /\ [][Next]_vars

-----------------------------------------------------------------------------
Backup == [n : 0..MaxMade, at : 0..MaxNow, trigger : Triggers, reads : BOOLEAN]

(* Backups are numbered as they are written, one to a number. *)
TypeOK ==
  /\ now \in 0..MaxNow
  /\ sets \subseteq Backup
  /\ \A b, c \in sets : b.n = c.n => b = c
  /\ made \in 0..MaxMade
  /\ \A b \in sets : b.n < made
  /\ partial \in BOOLEAN
  /\ pc \in {"off", "up", "copy", "rename", "prune"}
  /\ trigger \in Triggers \cup {None}
  /\ budget \in BOOLEAN

Later(b, S) == {c \in S : c.trigger = "automatic" /\ c.n > b.n}

(* Older automatic backups are removed once newer ones have been written    *)
(* (ayq-backup.ts:77): whatever goes is automatic, and leaves as many as    *)
(* are kept that were written after it.                                     *)
OlderGoes ==
  [][\A b \in sets : (\A c \in sets' : c.n # b.n) =>
       b.trigger = "automatic" /\ Cardinality(Later(b, sets')) >= Kept]_vars

(* Of the automatic backups the older ones are removed, never the one that  *)
(* was just written and reported as made (ayq-backup.ts:77, 387).           *)
JustWrittenStays ==
  [][(pc = "prune" /\ pc' = "up") => \E b \in sets' : b.n = made - 1]_vars

Recent(S) == \E b \in S : b.reads /\ now - b.at \in 0..(Every - 1)

(* A start that meets no failure ends with a backup of the last day, if there *)
(* is a budget (ayq-backup.ts:71).                                          *)
StartLeavesRecent ==
  [][(pc \in {"off", "prune"} /\ pc' = "up" /\ budget) => Recent(sets')]_vars

(* Of the backups only automatic ones go, those before the last that are     *)
(* kept, never the one just written, and a start leaves a recent one.        *)
BackupsKept == OlderGoes /\ JustWrittenStays /\ StartLeavesRecent
=============================================================================
