------------------------------ MODULE AyqRestore ------------------------------
(***************************************************************************)
(* Backup and restore of one coherent AYQ state: the file work of          *)
(* ayq/ayq-desktop/src/ayq-backup.ts and the engine that drives it,        *)
(* ayq-engine.ts, with the process able to die between any two file        *)
(* operations and a file operation able to fail.                           *)
(*                                                                         *)
(* A half (the budget folder, the store file) is modelled by the pieces of *)
(* work it holds: a request adds itself to the budget and then, some       *)
(* awaits later, to the store.  Opening a budget brings it up to date      *)
(* without adding or losing anybody's work, so it leaves both halves as    *)
(* they are (a store not there yet is written, and holds no work).         *)
(*                                                                         *)
(* The gate (AyqGate) is here as what it promises: exclusive work starts   *)
(* when no request is under way, and none starts until it is done.         *)
(***************************************************************************)
EXTENDS Naturals, FiniteSets

CONSTANTS
  Folders,     \* names of folders in the data directory
  Requests,    \* requests that write, each made once
  Elsewhere,   \* work done in another AYQ, which a copied backup may hold
  Absent,      \* nothing is there
  Other,       \* a folder that holds something other than AYQ's budget
  Torn,        \* a folder or a file with parts missing
  MaxBackups,  \* bound: backups this AYQ makes
  Automatic,   \* AYQ_BACKUP_POLICY.automaticKept
  Faults       \* the steps at which a file operation or an open may fail

Work == Requests \cup Elsewhere

Half == SUBSET Work

Triggers == {"manual", "automatic", "before-restore", "copied"}

Backup == [id : 0..MaxBackups, trigger : Triggers, folder : Folders,
           budget : Half, store : Half, damaged : BOOLEAN]

Journal == [phase : {"staged", "complete"}, liveFolder : Folders,
            liveStore : BOOLEAN, incomingFolder : Folders]

ASSUME ValuesDistinct ==
  /\ Absent # Other /\ Absent # Torn /\ Other # Torn
  /\ \A h \in Half : h # Absent /\ h # Other /\ h # Torn
  /\ \A s \in Backup : s # Absent
  /\ \A j \in Journal : j # Absent
  /\ Absent \notin Folders

ASSUME BoundsNat == MaxBackups \in Nat /\ Automatic \in Nat

VARIABLES
  (* the data directory *)
  folder,      \* what each folder holds
  storeFile,   \* ayq-store.json
  sets,        \* the finished backups
  (* .ayq-restore *)
  here,        \* the directory exists
  journal,     \* journal.json
  inBudget, inStore,       \* incoming/
  prevBudget, prevStore,   \* previous/
  (* the engine process *)
  opened,      \* the folder Actual has open, or Absent
  job,         \* the exclusive work under way
  pc,          \* where it stands
  back,        \* where the recovery returns to
  chosen,      \* the backup being restored
  req          \* where each request stands

disk == <<folder, storeFile, sets>>
restoring == <<here, journal, inBudget, inStore, prevBudget, prevStore>>
engine == <<job, back, chosen>>
vars == <<disk, restoring, opened, engine, pc, req>>

Recovering == {"look", "dropIncoming", "dropLive", "putBudget",
               "dropStore", "putStore", "clear"}
Replacing == {"stage", "copyBudget", "copyStore", "journal", "asideBudget",
              "asideStore", "inBudget", "inStore"}
Places == {"idle", "drain", "check", "pause", "due", "capture", "prune",
           "open", "finish", "reopen"} \cup Recovering \cup Replacing

TypeOK ==
  /\ folder \in [Folders -> {Absent, Other, Torn} \cup Half]
  /\ storeFile \in {Absent} \cup Half
  /\ sets \subseteq Backup
  /\ here \in BOOLEAN
  /\ journal \in {Absent} \cup Journal
  /\ inBudget \in {Absent, Torn} \cup Half
  /\ inStore \in {Absent, Torn} \cup Half
  /\ prevBudget \in {Absent} \cup Half
  /\ prevStore \in {Absent} \cup Half
  /\ opened \in {Absent} \cup Folders
  /\ job \in {"none", "start", "backup", "restore"}
  /\ pc \in Places
  /\ back \in {"none", "started", "stage", "undone", "restored"}
  /\ chosen \in {Absent} \cup Backup
  /\ req \in [Requests -> {"new", "asked", "budget", "answered", "failed", "killed"}]

(* A first launch on an empty data directory, with or without a backup     *)
(* copied there from another AYQ and a folder that is not AYQ's.           *)
Init ==
  /\ \E other \in {Absent} \cup Folders :
       folder = [f \in Folders |-> IF f = other THEN Other ELSE Absent]
  /\ storeFile = Absent
  /\ \/ sets = {}
     \/ \E f \in Folders :
          sets = {[id |-> 0, trigger |-> "copied", folder |-> f,
                   budget |-> Elsewhere, store |-> Elsewhere, damaged |-> FALSE]}
  /\ here = FALSE /\ journal = Absent
  /\ inBudget = Absent /\ inStore = Absent
  /\ prevBudget = Absent /\ prevStore = Absent
  /\ opened = Absent
  /\ job = "start" /\ pc = "look" /\ back = "started" /\ chosen = Absent
  /\ req = [r \in Requests |-> "new"]

-----------------------------------------------------------------------------
(* What is where. *)

Content(half) == IF half = Absent THEN {} ELSE half

(* ayqBudgetFolder: the folders a scan would take for AYQ's budget. *)
BudgetFolders == {f \in Folders : folder[f] \notin {Absent, Other, Torn}}

BudgetFolder == CHOOSE f \in BudgetFolders : TRUE

UnderWay == {r \in Requests : req[r] \in {"asked", "budget"}}

Pair(s) == [budget |-> s.budget, store |-> s.store]

(* Folders a new budget may be given. *)
Unused == {f \in Folders : folder[f] = Absent /\ \A s \in sets : s.folder # f}

(* openBudgetOnce, on a budget that is there: what it brings up to date    *)
(* ends with a store on disk.                                              *)
OpenExisting ==
  /\ BudgetFolders # {}
  /\ opened' = BudgetFolder
  /\ storeFile' = Content(storeFile)
  /\ UNCHANGED folder

OpenFails ==
  "open" \in Faults /\ UNCHANGED <<folder, storeFile, opened>>

-----------------------------------------------------------------------------
(* Ordinary requests, in the shared part of the gate. *)

Ask(r) ==
  /\ pc = "idle"
  /\ req[r] = "new"
  /\ req' = [req EXCEPT ![r] = "asked"]
  /\ UNCHANGED <<disk, restoring, opened, engine, pc>>

OpenFor(r) ==
  /\ req[r] = "asked"
  /\ opened = Absent
  /\ \/ OpenExisting /\ UNCHANGED req
     \/ OpenFails /\ req' = [req EXCEPT ![r] = "failed"]
  /\ UNCHANGED <<sets, restoring, engine, pc>>

WriteBudget(r) ==
  /\ req[r] = "asked"
  /\ opened # Absent
  /\ folder' = [folder EXCEPT ![opened] = folder[opened] \cup {r}]
  /\ req' = [req EXCEPT ![r] = "budget"]
  /\ UNCHANGED <<storeFile, sets, restoring, opened, engine, pc>>

WriteStore(r) ==
  /\ req[r] = "budget"
  /\ storeFile' = Content(storeFile) \cup {r}
  /\ req' = [req EXCEPT ![r] = "answered"]
  /\ UNCHANGED <<folder, sets, restoring, opened, engine, pc>>

-----------------------------------------------------------------------------
(* Exclusive work: the start of the engine, a backup, a restore. *)

Goto(place) == pc' = place /\ UNCHANGED engine

Finished ==
  pc' = "idle" /\ job' = "none" /\ back' = "none" /\ chosen' = Absent

Recover(to) ==
  pc' = "look" /\ back' = to /\ UNCHANGED <<job, chosen>>

(* Bound: a backup is asked for only while an id is left for it. *)
NewIds == {i \in 1..MaxBackups : \A s \in sets : s.id < i}

Take(what) ==
  /\ pc = "idle"
  /\ NewIds # {}
  /\ job' = what
  /\ pc' = "drain"
  /\ UNCHANGED <<disk, restoring, opened, back, req>>

AskBackup == Take("backup") /\ UNCHANGED chosen

AskRestore == Take("restore") /\ \E s \in sets : chosen' = s

(* Mutant: it does not wait for what is under way. *)
DrainedAtOnce ==
  /\ pc = "drain"
  /\ Goto(IF job = "restore" THEN "check" ELSE "pause")
  /\ UNCHANGED <<disk, restoring, opened, req>>

(* The gate lets it through once nothing is under way. *)
Drained ==
  /\ pc = "drain"
  /\ UnderWay = {}
  /\ Goto(IF job = "restore" THEN "check" ELSE "pause")
  /\ UNCHANGED <<disk, restoring, opened, req>>

Damaged(s) == \E t \in sets : t.id = s.id /\ t.damaged

(* ayqCheckBackup: refused before the budget is even closed. *)
Check ==
  /\ pc = "check"
  /\ IF Damaged(chosen) THEN Finished ELSE Goto("pause")
  /\ UNCHANGED <<disk, restoring, opened, req>>

(* openBudget, then closeBudget. *)
Pause ==
  /\ pc = "pause"
  /\ BudgetFolders # {}
  /\ storeFile' = Content(storeFile)
  /\ opened' = Absent
  /\ Goto("capture")
  /\ UNCHANGED <<folder, sets, restoring, req>>

(* ayqAutomaticBackupDue.  How long ago the newest was made is not         *)
(* modelled: with any backup there, one may be due or not.                 *)
Due ==
  /\ pc = "due"
  /\ \/ BudgetFolders # {} /\ NewIds # {} /\ Goto("capture")
     \/ (BudgetFolders = {} \/ NewIds = {} \/ sets # {}) /\ Finished
  /\ UNCHANGED <<disk, restoring, opened, req>>

Trigger == CASE job = "start" -> "automatic"
             [] job = "backup" -> "manual"
             [] OTHER -> "before-restore"

AfterCapture ==
  CASE job = "start" -> Goto("prune")
    [] job = "backup" -> Goto("reopen")
    [] OTHER -> Recover("stage")

(* ayqCreateBackup.  What it writes under .partial- is no backup until the *)
(* rename, and nothing else reads it, so the copying is one step.          *)
Capture ==
  /\ pc = "capture"
  /\ BudgetFolders # {}
  /\ \E i \in NewIds :
       /\ \A j \in NewIds : i <= j
       /\ sets' = sets \cup
            {[id |-> i, trigger |-> Trigger, folder |-> BudgetFolder,
              budget |-> folder[BudgetFolder], store |-> Content(storeFile),
              damaged |-> FALSE]}
  /\ AfterCapture
  /\ UNCHANGED <<folder, storeFile, restoring, opened, req>>

NewerAutomatic(s) ==
  {t \in sets : t.trigger = "automatic" /\ t.id > s.id}

(* Mutant: every kind of backup is pruned alike. *)
PruneAny ==
  /\ pc = "prune"
  /\ sets' = {s \in sets : Cardinality({t \in sets : t.id > s.id}) < Automatic}
  /\ Finished
  /\ UNCHANGED <<folder, storeFile, restoring, opened, req>>

(* pruneAutomatic: only automatic ones, beyond the newest that are kept. *)
Prune ==
  /\ pc = "prune"
  /\ sets' = {s \in sets : \/ s.trigger # "automatic"
                           \/ Cardinality(NewerAutomatic(s)) < Automatic}
  /\ Finished
  /\ UNCHANGED <<folder, storeFile, restoring, opened, req>>

(* openBudgetOnce, with no budget there: a new one is created, named by an  *)
(* id nobody has used.  Its store is only written later, on opening it.    *)
Create ==
  /\ BudgetFolders = {}
  /\ \/ pc \in {"pause", "reopen", "open"}
     \/ opened = Absent /\ \E r \in Requests : req[r] = "asked"
  /\ \E f \in Unused : folder' = [folder EXCEPT ![f] = {}]
  /\ UNCHANGED <<storeFile, sets, restoring, opened, engine, pc, req>>

-----------------------------------------------------------------------------
(* ayqReplaceWithBackup, after the recovery it begins with. *)

Conflict ==
  /\ chosen.folder # BudgetFolder
  /\ folder[chosen.folder] # Absent

(* A copy begins under incoming/; until it ends, parts are missing. *)
Stage ==
  /\ pc = "stage"
  /\ IF BudgetFolders = {} \/ Conflict
       THEN Recover("undone") /\ UNCHANGED restoring
       ELSE /\ here' = TRUE
            /\ inBudget' = Torn
            /\ Goto("copyBudget")
            /\ UNCHANGED <<journal, inStore, prevBudget, prevStore>>
  /\ UNCHANGED <<disk, opened, req>>

Copied(half) == IF Damaged(chosen) THEN Torn ELSE half

CopyBudget ==
  /\ pc = "copyBudget"
  /\ inBudget' = Copied(chosen.budget)
  /\ Goto("copyStore")
  /\ UNCHANGED <<disk, here, journal, inStore, prevBudget, prevStore, opened, req>>

CopyStore ==
  /\ pc = "copyStore"
  /\ inStore' = Copied(chosen.store)
  /\ Goto("journal")
  /\ UNCHANGED <<disk, here, journal, inBudget, prevBudget, prevStore, opened, req>>

(* Mutant: the journal says complete from the start. *)
WriteJournalComplete ==
  /\ pc = "journal"
  /\ journal' = [phase |-> "complete", liveFolder |-> BudgetFolder,
                 liveStore |-> storeFile # Absent,
                 incomingFolder |-> chosen.folder]
  /\ Goto("asideBudget")
  /\ UNCHANGED <<disk, here, inBudget, inStore, prevBudget, prevStore, opened, req>>

(* The staged copy is checked, and the journal written before anything     *)
(* live is touched.                                                        *)
WriteJournal ==
  /\ pc = "journal"
  /\ IF Torn \in {inBudget, inStore}
       THEN Recover("undone") /\ UNCHANGED journal
       ELSE /\ journal' = [phase |-> "staged",
                           liveFolder |-> BudgetFolder,
                           liveStore |-> storeFile # Absent,
                           incomingFolder |-> chosen.folder]
            /\ Goto("asideBudget")
  /\ UNCHANGED <<disk, here, inBudget, inStore, prevBudget, prevStore, opened, req>>

AsideBudget ==
  /\ pc = "asideBudget"
  /\ prevBudget' = folder[journal.liveFolder]
  /\ folder' = [folder EXCEPT ![journal.liveFolder] = Absent]
  /\ Goto("asideStore")
  /\ UNCHANGED <<storeFile, sets, here, journal, inBudget, inStore, prevStore, opened, req>>

AsideStore ==
  /\ pc = "asideStore"
  /\ prevStore' = storeFile
  /\ storeFile' = Absent
  /\ Goto("inBudget")
  /\ UNCHANGED <<folder, sets, here, journal, inBudget, inStore, prevBudget, opened, req>>

BudgetIn ==
  /\ pc = "inBudget"
  /\ folder' = [folder EXCEPT ![journal.incomingFolder] = inBudget]
  /\ inBudget' = Absent
  /\ Goto("inStore")
  /\ UNCHANGED <<storeFile, sets, here, journal, inStore, prevBudget, prevStore, opened, req>>

StoreIn ==
  /\ pc = "inStore"
  /\ storeFile' = inStore
  /\ inStore' = Absent
  /\ Goto("open")
  /\ UNCHANGED <<folder, sets, here, journal, inBudget, prevBudget, prevStore, opened, req>>

OpenRestored ==
  /\ pc = "open"
  /\ OpenExisting
  /\ Goto("finish")
  /\ UNCHANGED <<sets, restoring, req>>

(* Mutant: the restored state opened, and that is taken to be the end. *)
FinishForgotten ==
  pc = "finish" /\ Goto("reopen") /\ UNCHANGED <<disk, restoring, opened, req>>

(* ayqFinishRestore: the journal says complete, then it is all removed. *)
FinishRestore ==
  /\ pc = "finish"
  /\ journal' = [journal EXCEPT !.phase = "complete"]
  /\ pc' = "clear"
  /\ back' = "restored"
  /\ UNCHANGED <<disk, here, inBudget, inStore, prevBudget, prevStore, opened,
                 job, chosen, req>>

(* Mutant: only a closed budget is an end. *)
ReopenOnlyIfClosed ==
  /\ pc = "reopen"
  /\ opened = Absent
  /\ OpenExisting \/ OpenFails
  /\ Finished
  /\ UNCHANGED <<sets, restoring, req>>

(* The finally: whatever happened, a budget is open again. *)
Reopen ==
  /\ pc = "reopen"
  /\ IF opened = Absent
       THEN OpenExisting \/ OpenFails
       ELSE UNCHANGED <<folder, storeFile, opened>>
  /\ Finished
  /\ UNCHANGED <<sets, restoring, req>>

-----------------------------------------------------------------------------
(* ayqRecoverInterruptedRestore, called when the engine starts, before a   *)
(* replacement, and after one that failed.                                 *)

Staged == journal # Absent /\ journal.phase = "staged"

Return ==
  CASE back = "started" -> Goto("due")
    [] back = "stage"   -> Goto("stage")
    [] OTHER            -> Goto("reopen")

Look ==
  /\ pc = "look"
  /\ IF ~here THEN Return
     ELSE Goto(IF ~Staged THEN "clear"
               ELSE IF prevBudget # Absent THEN "dropIncoming"
               ELSE IF prevStore # Absent THEN "dropStore" ELSE "clear")
  /\ storeFile' = IF /\ here /\ Staged /\ ~journal.liveStore
                    /\ prevBudget = Absent /\ prevStore = Absent
                  THEN Absent ELSE storeFile
  /\ UNCHANGED <<folder, sets, restoring, opened, req>>

(* rmSync of a folder: file by file, so it may stop with parts missing.    *)
DropPart(place, f) ==
  /\ pc = place
  /\ folder[f] \notin {Absent, Torn}
  /\ folder' = [folder EXCEPT ![f] = Torn]
  /\ UNCHANGED <<storeFile, sets, restoring, opened, engine, pc, req>>

Drop(place, f, next) ==
  /\ pc = place
  /\ folder' = [folder EXCEPT ![f] = Absent]
  /\ Goto(next)
  /\ UNCHANGED <<storeFile, sets, restoring, opened, req>>

PutBudgetBack ==
  /\ pc = "putBudget"
  /\ folder' = [folder EXCEPT ![journal.liveFolder] = prevBudget]
  /\ prevBudget' = Absent
  /\ Goto(IF prevStore # Absent THEN "dropStore" ELSE "clear")
  /\ storeFile' = IF prevStore = Absent /\ ~journal.liveStore
                  THEN Absent ELSE storeFile
  /\ UNCHANGED <<sets, here, journal, inBudget, inStore, prevStore, opened, req>>

DropStore ==
  /\ pc = "dropStore"
  /\ storeFile' = Absent
  /\ Goto("putStore")
  /\ UNCHANGED <<folder, sets, restoring, opened, req>>

PutStoreBack ==
  /\ pc = "putStore"
  /\ storeFile' = prevStore
  /\ prevStore' = Absent
  /\ Goto("clear")
  /\ UNCHANGED <<folder, sets, here, journal, inBudget, inStore, prevBudget, opened, req>>

(* rmSync of .ayq-restore: part of it, in any order, or all of it. *)
ClearPart ==
  /\ pc = "clear"
  /\ journal' \in {journal, Absent}
  /\ inBudget' \in {inBudget, Absent}
  /\ inStore' \in {inStore, Absent}
  /\ prevBudget' \in {prevBudget, Absent}
  /\ prevStore' \in {prevStore, Absent}
  /\ UNCHANGED <<disk, here, opened, engine, pc, req>>

Clear ==
  /\ pc = "clear"
  /\ here' = FALSE /\ journal' = Absent
  /\ inBudget' = Absent /\ inStore' = Absent
  /\ prevBudget' = Absent /\ prevStore' = Absent
  /\ Return
  /\ UNCHANGED <<disk, opened, req>>

(* The live folder was moved aside, and one of its own name that came in   *)
(* is gone with dropIncoming: nothing is left there to be half removed.    *)
Recovery ==
  \/ Look
  \/ DropPart("dropIncoming", journal.incomingFolder)
  \/ Drop("dropIncoming", journal.incomingFolder, "dropLive")
  \/ Drop("dropLive", journal.liveFolder, "putBudget")
  \/ PutBudgetBack \/ DropStore \/ PutStoreBack \/ ClearPart \/ Clear

-----------------------------------------------------------------------------
(* What may go wrong: a step fails, the process dies, a backup rots. *)

(* A failing step changes nothing itself; where the code catches it. *)
Fail ==
  /\ pc \in Faults
  /\ \/ pc \in {"pause", "prune"} /\ Finished
     \/ pc = "capture" /\ IF job = "start" THEN Finished ELSE Goto("reopen")
     \/ pc \in {"open"} \cup Replacing /\ Recover("undone")
     \/ pc = "finish" /\ Goto("reopen")
     \/ pc \in Recovering /\ back = "stage" /\ Recover("undone")
     \/ pc \in Recovering /\ back # "stage" /\ Return
  /\ UNCHANGED <<disk, restoring, opened, req>>

Crash ==
  /\ req' = [r \in Requests |-> IF r \in UnderWay THEN "killed" ELSE req[r]]
  /\ opened' = Absent
  /\ job' = "start" /\ pc' = "look" /\ back' = "started" /\ chosen' = Absent
  /\ UNCHANGED <<disk, restoring>>

Damage(s) ==
  /\ ~s.damaged
  /\ sets' = (sets \ {s}) \cup {[s EXCEPT !.damaged = TRUE]}
  /\ UNCHANGED <<folder, storeFile, restoring, opened, engine, pc, req>>

-----------------------------------------------------------------------------
Request(r) == Ask(r) \/ OpenFor(r) \/ WriteBudget(r) \/ WriteStore(r)

Replacement ==
  Stage \/ CopyBudget \/ CopyStore \/ WriteJournal \/ AsideBudget \/ AsideStore
    \/ BudgetIn \/ StoreIn \/ OpenRestored \/ FinishRestore

Exclusive ==
  \/ Create \/ Drained \/ Check \/ Pause \/ Due \/ Capture \/ Prune \/ Reopen
  \/ Replacement \/ Recovery

Next ==
  \/ \E r \in Requests : Request(r)
  \/ AskBackup \/ AskRestore
  \/ Exclusive
  \/ Fail
  \/ Crash
  \/ \E s \in sets : Damage(s)

Spec == Init /\ [][Next]_vars

-----------------------------------------------------------------------------
(* The state the next start of the engine would open: what a recovery      *)
(* would put back, or what is live.                                        *)
StandingBudget ==
  IF Staged /\ prevBudget # Absent THEN prevBudget
  ELSE IF BudgetFolders # {} THEN folder[BudgetFolder] ELSE {}

StandingStore ==
  IF Staged /\ prevStore # Absent THEN prevStore
  ELSE IF Staged /\ ~journal.liveStore THEN {} ELSE Content(storeFile)

(* A backup is one moment: no request is in one half of it and not in the  *)
(* other, except one the process died in the middle of.                    *)
BackupIsOneMoment ==
  \A s \in sets, r \in Requests :
    (r \in s.budget /\ r \notin s.store) => req[r] = "killed"

(* Work that was answered is never lost: it is in the state that stands,   *)
(* or in a backup that AYQ does not remove.                                *)
NothingLost ==
  \A r \in Requests : req[r] = "answered" =>
    \/ r \in StandingBudget /\ r \in StandingStore
    \/ \E s \in sets : /\ s.trigger # "automatic"
                       /\ r \in s.budget /\ r \in s.store

(* While requests are served there is one budget and it is whole, and what *)
(* they work on is what the next start will find.                          *)
ServedStateStands ==
  (pc \in {"idle", "drain"} /\ opened # Absent) =>
    /\ BudgetFolders = {opened}
    /\ folder[opened] = StandingBudget
    /\ Content(storeFile) = StandingStore

(* A folder that is not AYQ's budget is never touched. *)
OthersUntouched ==
  [][\A f \in Folders : folder[f] = Other => folder'[f] = Other]_vars

(* Backups a person made, was given or had made before a restore are never *)
(* removed, and no backup's content ever changes.                          *)
KeptForGood ==
  [][\A s \in sets : s.trigger # "automatic" =>
       \E t \in sets' : t.id = s.id /\ Pair(t) = Pair(s)]_vars

InSomeBudget(w) ==
  \/ \E f \in BudgetFolders : w \in folder[f]
  \/ \E h \in {inBudget, prevBudget} \ {Absent, Torn} : w \in h
  \/ \E s \in sets : w \in s.budget

InSomeStore(w) ==
  \/ \E h \in {storeFile, inStore, prevStore} \ {Absent, Torn} : w \in h
  \/ \E s \in sets : w \in s.store

KeepsACopy(w) ==
  /\ InSomeBudget(w) => InSomeBudget(w)'
  /\ InSomeStore(w) => InSomeStore(w)'

(* Nothing a recovery, the removal after a restore or the pruning of old   *)
(* backups takes away is the only copy of anything.                        *)
RemovesNoOnlyCopy == [][\A w \in Work : KeepsACopy(w)]_vars

(* Backup and restore treat the budget and the store as one state. *)
OneState == INSTANCE AyqOneState
              WITH budget <- StandingBudget, store <- StandingStore,
                   kept <- {Pair(s) : s \in sets}

OneStateSpec == OneState!OSpec

(* What the engine runs, it finishes; requests and crashes need not come.  *)
Fairness ==
  /\ WF_vars(Exclusive)
  /\ \A r \in Requests : WF_vars(OpenFor(r) \/ WriteBudget(r) \/ WriteStore(r))

FairSpec == Spec /\ Fairness

(* If the process stops dying, exclusive work - and with it a recovery -    *)
(* ends, and requests are served again.                                    *)
ComesBack == <>[][~Crash]_vars => (pc # "idle" ~> pc = "idle")

=============================================================================
