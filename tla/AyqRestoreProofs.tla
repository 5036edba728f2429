--------------------------- MODULE AyqRestoreProofs ---------------------------
(***************************************************************************)
(* What holds of backup and restore for any folders, requests and backups, *)
(* wherever the process dies, and whatever fails except the last write of  *)
(* a restore and the renames of a recovery.                                *)
(*                                                                         *)
(* The argument: from the journal on, what is on disk is in one of a few   *)
(* shapes, told apart by which half is under previous/ - never by where    *)
(* the process stood, since after a crash nobody knows.  In every shape    *)
(* the state that stands can be read off, and every step of a replacement  *)
(* or of a recovery goes from one shape to another that reads the same,    *)
(* except the one write that says complete.                                *)
(***************************************************************************)
EXTENDS AyqRestore, TLAPS, FiniteSetTheorems

(* The failures the code does not undo. *)
Unhandled ==
  {"finish", "look", "dropIncoming", "dropLive", "putBudget", "dropStore", "putStore"}

-----------------------------------------------------------------------------
Live == journal.liveFolder
Incoming == journal.incomingFolder

(* One budget at most, and nothing half removed. *)
Whole ==
  /\ \A f, g \in BudgetFolders : f = g
  /\ \A f \in Folders : folder[f] # Torn

(* No restore under way that a recovery would undo: nothing is aside. *)
Untouched ==
  /\ Whole
  /\ Staged => /\ prevStore = Absent
               /\ prevBudget = Absent
               /\ BudgetFolders = {Live}
               /\ storeFile # Absent

(* The budget is aside: whatever AYQ has in the data directory came from   *)
(* the backup.                                                             *)
BudgetAside ==
  /\ Staged
  /\ prevBudget # Absent
  /\ \A f \in Folders : folder[f] \in {Absent, Other} \/ f = Incoming
  /\ folder[Live] # Other
  /\ folder[Incoming] # Other
  /\ prevStore = Absent => storeFile # Absent

(* The budget was put back, the store is still aside. *)
StoreAside ==
  /\ Staged
  /\ Whole
  /\ prevBudget = Absent
  /\ prevStore # Absent
  /\ BudgetFolders = {Live}

Shape == Untouched \/ BudgetAside \/ StoreAside

JournalSound ==
  /\ journal # Absent => here /\ journal.liveStore
  /\ ~here => /\ inBudget = Absent /\ inStore = Absent
              /\ prevBudget = Absent /\ prevStore = Absent

(* The set being restored is still what it was when it was chosen. *)
ChosenKept ==
  chosen # Absent => \E s \in sets : s.id = chosen.id /\ Pair(s) = Pair(chosen)

(* What is about to be replaced is among the backups AYQ never removes. *)
SafetyKept ==
  \E s \in sets : /\ s.trigger # "automatic"
                  /\ s.budget = StandingBudget
                  /\ s.store = StandingStore

(* Which work is under way, and which of its steps can be its. *)
JobSound ==
  /\ pc \notin {"idle", "drain"} => UnderWay = {}
  /\ pc = "idle" => job = "none" /\ chosen = Absent
  /\ pc # "idle" => job \in {"start", "backup", "restore"}
  /\ job = "restore" => chosen # Absent
  /\ job = "backup" => pc \in {"drain", "pause", "capture", "reopen"}
  /\ pc \in {"check", "open", "finish"} \cup Replacing => job = "restore"
  /\ pc \in {"due", "prune"} => job = "start"
  /\ pc \in Recovering => back # "none"
  /\ pc \in Recovering /\ back = "started" => job = "start"
  /\ pc \in Recovering /\ back # "started" => job = "restore"
  /\ pc \in Recovering /\ back = "restored" => pc = "clear" /\ ~Staged

(* A budget is open only where nothing is being moved. *)
OpenedSound ==
  /\ opened # Absent => opened \in BudgetFolders /\ storeFile # Absent
  /\ pc \in {"due", "capture", "prune", "open"} \cup Replacing => opened = Absent
  /\ pc \in Recovering /\ back # "restored" => opened = Absent

(* Outside a replacement and its undoing, nothing is aside. *)
QuietSound ==
  /\ pc \in {"idle", "drain", "check", "pause", "due", "capture", "prune",
             "stage", "copyBudget", "copyStore", "journal", "asideBudget",
             "clear", "reopen"} => Untouched
  /\ pc \in Recovering /\ back = "stage" => Untouched /\ storeFile # Absent
  /\ pc = "capture" /\ job # "start" => BudgetFolders # {} /\ storeFile # Absent

(* From the safety backup on, until the restore is final. *)
SafetySound ==
  (\/ pc \in {"open", "finish"} \cup Replacing
   \/ pc \in Recovering /\ back = "stage") => SafetyKept

ReplacingSound ==
  /\ pc = "stage" => ~here /\ journal = Absent
  /\ pc \in {"stage", "copyBudget", "copyStore", "journal"} =>
       /\ journal = Absent /\ prevBudget = Absent /\ prevStore = Absent
       /\ storeFile # Absent
  /\ pc \in {"copyBudget", "copyStore", "journal"} =>
       /\ here /\ BudgetFolders # {} /\ ~Conflict
  /\ pc \in {"copyStore", "journal"} => inBudget \in {Torn, chosen.budget}
  /\ pc = "journal" => inStore \in {Torn, chosen.store}
  /\ pc \in {"asideBudget", "asideStore", "inBudget", "inStore", "open", "finish"} =>
       Staged /\ Incoming = chosen.folder
  /\ pc \in {"asideBudget", "asideStore", "inBudget"} =>
       inBudget = chosen.budget
  /\ pc \in {"asideBudget", "asideStore", "inBudget", "inStore"} =>
       inStore = chosen.store
  /\ pc = "asideBudget" => folder[Incoming] # Other /\ prevBudget = Absent
  /\ pc = "asideStore" => BudgetAside /\ prevStore = Absent
  /\ pc \in {"asideStore", "inBudget"} => folder[Incoming] = Absent
  /\ pc \in {"inBudget", "inStore", "open", "finish"} =>
       BudgetAside /\ prevStore # Absent
  /\ pc \in {"inStore", "open", "finish"} => folder[Incoming] = chosen.budget
  /\ pc \in {"open", "finish"} => storeFile = chosen.store
  /\ pc = "finish" => opened = Incoming

RecoverySound ==
  /\ pc \in {"dropIncoming", "dropLive", "putBudget"} => BudgetAside
  /\ pc \in {"dropLive", "putBudget"} => folder[Incoming] = Absent
  /\ pc = "putBudget" => folder[Live] = Absent
  /\ pc \in {"dropStore", "putStore"} => StoreAside

RestoreInv ==
  /\ TypeOK
  /\ JournalSound
  /\ Shape
  /\ ChosenKept
  /\ JobSound
  /\ OpenedSound
  /\ QuietSound
  /\ SafetySound
  /\ ReplacingSound
  /\ RecoverySound

(* The state the next start would open is still the same. *)
Stands == UNCHANGED <<StandingBudget, StandingStore>>

(* What stands is never half of a request, except of one under way or one   *)
(* the process died in the middle of.                                       *)
HalvesMatch ==
  \A r \in Requests :
    /\ (r \in StandingBudget /\ r \notin StandingStore)
          => req[r] \in {"budget", "killed"}
    /\ req[r] = "budget" => r \in StandingBudget

(* A copy of anything, anywhere on disk, is a copy of what stands or of a   *)
(* backup that is never removed.                                            *)
InLastingBudget(w) ==
  w \in StandingBudget \/ \E s \in sets : s.trigger # "automatic" /\ w \in s.budget

InLastingStore(w) ==
  w \in StandingStore \/ \E s \in sets : s.trigger # "automatic" /\ w \in s.store

CopiesLast ==
  \A w \in Work : /\ InSomeBudget(w) => InLastingBudget(w)
                  /\ InSomeStore(w) => InLastingStore(w)

-----------------------------------------------------------------------------
(* The vocabulary of the model and of the invariant. *)
USE DEF disk, restoring, engine, Goto, Finished, Recover, Live, Incoming,
        Half, Work, Pair, Content, Staged, BudgetFolders, Recovering,
        Replacing, Untouched, Whole, BudgetAside, StoreAside, Backup, Journal,
        Triggers, Places

(* What ayqBudgetFolder finds is one of the folders it may take, and the   *)
(* one there is when there is one.                                         *)
LEMMA TheBudgetFolder ==
  /\ BudgetFolders # {} => BudgetFolder \in BudgetFolders
  /\ \A f \in BudgetFolders : Whole => BudgetFolder = f
  /\ BudgetFolders' # {} => BudgetFolder' \in BudgetFolders'
  /\ \A f \in BudgetFolders' : Whole' => BudgetFolder' = f
BY DEF BudgetFolder

(* A step that moves no folder does not change what ayqBudgetFolder finds. *)
LEMMA SameFolders ==
  folder' = folder => BudgetFolder' = BudgetFolder
BY DEF BudgetFolder

(* What the next start opens depends only on the live halves, the journal  *)
(* and previous/.                                                          *)
LEMMA SameState ==
  ASSUME UNCHANGED <<folder, storeFile, journal, prevBudget, prevStore>>
  PROVE  Stands
BY SameFolders DEF StandingBudget, StandingStore, Stands

(* The safety backup stays one while backups are only added and nothing    *)
(* else changes.                                                           *)
LEMMA SafetyStays ==
  ASSUME SafetyKept, sets \subseteq sets', Stands
  PROVE  SafetyKept'
BY DEF SafetyKept, Stands

(* A request begins: nothing on disk moves. *)
LEMMA AskSound ==
  ASSUME RestoreInv, NEW r \in Requests, Ask(r)
  PROVE  RestoreInv' /\ Stands
<1>1. JobSound' /\ OpenedSound' /\ ChosenKept'
  BY ValuesDistinct, TheBudgetFolder DEF Ask, ChosenKept, UnderWay,
       RestoreInv, TypeOK, JournalSound, JobSound, OpenedSound, QuietSound,
       ReplacingSound, RecoverySound
<1>2. TypeOK' /\ JournalSound' /\ Shape' /\ QuietSound'
  BY TheBudgetFolder, ValuesDistinct DEF Ask, UnderWay, RestoreInv, TypeOK,
       JournalSound, Shape, JobSound, OpenedSound, QuietSound, ReplacingSound,
       RecoverySound
<1>3. ReplacingSound' /\ RecoverySound'
  BY TheBudgetFolder, SameFolders, ValuesDistinct DEF Ask, Conflict, UnderWay,
       RestoreInv, TypeOK, JournalSound, Shape, JobSound, OpenedSound,
       QuietSound, ReplacingSound, RecoverySound
<1>4. Stands
  BY SameState, TheBudgetFolder, ValuesDistinct DEF Ask, Stands,
       StandingBudget, StandingStore, RestoreInv, TypeOK, JournalSound, Shape,
       JobSound, OpenedSound, QuietSound, ReplacingSound, RecoverySound
<1>5. SafetySound'
  BY <1>4, SafetyStays DEF Ask, Stands, SafetySound, UnderWay, RestoreInv,
       JobSound, QuietSound, ReplacingSound, RecoverySound
<1> QED BY <1>1, <1>2, <1>3, <1>4, <1>5 DEF RestoreInv

(* A request opens the budget that is there; the store it finds or writes  *)
(* holds the same work.                                                    *)
LEMMA OpenForSound ==
  ASSUME RestoreInv, NEW r \in Requests, OpenFor(r)
  PROVE  RestoreInv' /\ Stands
<1>1. JobSound' /\ OpenedSound' /\ ChosenKept'
  BY ValuesDistinct, TheBudgetFolder DEF OpenFor, OpenExisting, OpenFails,
       ChosenKept, UnderWay, RestoreInv, TypeOK, JournalSound, JobSound,
       OpenedSound, QuietSound, ReplacingSound, RecoverySound
<1>2. TypeOK' /\ JournalSound' /\ Shape' /\ QuietSound'
  BY TheBudgetFolder, ValuesDistinct DEF OpenFor, OpenExisting, OpenFails,
       UnderWay, RestoreInv, TypeOK, JournalSound, Shape, JobSound,
       OpenedSound, QuietSound, ReplacingSound, RecoverySound
<1>3. ReplacingSound' /\ RecoverySound'
  BY TheBudgetFolder, SameFolders, ValuesDistinct DEF OpenFor, OpenExisting,
       OpenFails, Conflict, UnderWay, RestoreInv, TypeOK, JournalSound, Shape,
       JobSound, OpenedSound, QuietSound, ReplacingSound, RecoverySound
<1>4. Stands
  BY SameState, TheBudgetFolder, ValuesDistinct DEF OpenFor, OpenExisting,
       OpenFails, Stands, StandingBudget, StandingStore, RestoreInv, TypeOK,
       JournalSound, Shape, JobSound, OpenedSound, QuietSound, ReplacingSound,
       RecoverySound
<1>5. SafetySound'
  BY <1>4, SafetyStays DEF OpenFor, OpenExisting, OpenFails, Stands,
       SafetySound, UnderWay, RestoreInv, JobSound, QuietSound,
       ReplacingSound, RecoverySound
<1> QED BY <1>1, <1>2, <1>3, <1>4, <1>5 DEF RestoreInv

(* A request writes to the budget that stands, since nothing is aside      *)
(* while requests are served.                                              *)
LEMMA WriteBudgetSound ==
  ASSUME RestoreInv, NEW r \in Requests, WriteBudget(r)
  PROVE  RestoreInv' /\ StandingBudget' = StandingBudget \cup {r} /\ StandingStore' = StandingStore
<1>1. JobSound' /\ OpenedSound' /\ ChosenKept'
  BY ValuesDistinct, TheBudgetFolder DEF WriteBudget, ChosenKept, UnderWay,
       RestoreInv, TypeOK, JournalSound, JobSound, OpenedSound, QuietSound,
       ReplacingSound, RecoverySound
<1>2. TypeOK' /\ JournalSound' /\ Shape' /\ QuietSound'
  BY TheBudgetFolder, ValuesDistinct DEF WriteBudget, UnderWay, RestoreInv,
       TypeOK, JournalSound, Shape, JobSound, OpenedSound, QuietSound,
       ReplacingSound, RecoverySound
<1>3. ReplacingSound' /\ RecoverySound'
  BY TheBudgetFolder, SameFolders, ValuesDistinct DEF WriteBudget, Conflict,
       UnderWay, RestoreInv, TypeOK, JournalSound, Shape, JobSound,
       OpenedSound, QuietSound, ReplacingSound, RecoverySound
<1>4. StandingBudget' = StandingBudget \cup {r} /\ StandingStore' = StandingStore
  <2>1. Untouched
    BY DEF WriteBudget, UnderWay, RestoreInv, JobSound, QuietSound
  <2>2. opened \in BudgetFolders /\ folder[opened] \in Half
    BY DEF WriteBudget, RestoreInv, OpenedSound, TypeOK
  <2>3. folder[opened] \cup {r} \in Half
    BY <2>2
  <2>4. BudgetFolders' = {opened} /\ BudgetFolders = {opened}
    BY <2>1, <2>2, <2>3, ValuesDistinct DEF WriteBudget, RestoreInv, TypeOK
  <2>5. BudgetFolder' = opened /\ BudgetFolder = opened
    BY <2>4 DEF BudgetFolder
  <2>6. folder'[opened] = folder[opened] \cup {r}
    BY <2>2 DEF WriteBudget, RestoreInv, TypeOK
  <2> QED BY <2>1, <2>4, <2>5, <2>6 DEF WriteBudget, StandingBudget, StandingStore
<1>5. SafetySound'
  BY ValuesDistinct DEF WriteBudget, Stands, SafetySound, UnderWay,
       RestoreInv, JobSound, QuietSound, ReplacingSound, RecoverySound
<1> QED BY <1>1, <1>2, <1>3, <1>4, <1>5 DEF RestoreInv

(* A request writes to the store that stands. *)
LEMMA WriteStoreSound ==
  ASSUME RestoreInv, NEW r \in Requests, WriteStore(r)
  PROVE  RestoreInv' /\ StandingStore' = StandingStore \cup {r} /\ StandingBudget' = StandingBudget
<1>1. JobSound' /\ OpenedSound' /\ ChosenKept'
  BY ValuesDistinct, TheBudgetFolder DEF WriteStore, ChosenKept, UnderWay,
       RestoreInv, TypeOK, JournalSound, JobSound, OpenedSound, QuietSound,
       ReplacingSound, RecoverySound
<1>2. TypeOK' /\ JournalSound' /\ Shape' /\ QuietSound'
  BY TheBudgetFolder, ValuesDistinct DEF WriteStore, UnderWay, RestoreInv,
       TypeOK, JournalSound, Shape, JobSound, OpenedSound, QuietSound,
       ReplacingSound, RecoverySound
<1>3. ReplacingSound' /\ RecoverySound'
  BY TheBudgetFolder, SameFolders, ValuesDistinct DEF WriteStore, Conflict,
       UnderWay, RestoreInv, TypeOK, JournalSound, Shape, JobSound,
       OpenedSound, QuietSound, ReplacingSound, RecoverySound
<1>4. StandingStore' = StandingStore \cup {r} /\ StandingBudget' = StandingBudget
  <2>1. Untouched /\ (journal # Absent => journal.liveStore)
    BY DEF WriteStore, UnderWay, RestoreInv, JobSound, QuietSound, JournalSound
  <2>2. storeFile' = Content(storeFile) \cup {r} /\ storeFile' \in Half
    BY DEF WriteStore, RestoreInv, TypeOK
  <2>3. Content(storeFile') = Content(storeFile) \cup {r}
    BY <2>2, ValuesDistinct
  <2>4. BudgetFolder' = BudgetFolder
    BY SameFolders DEF WriteStore
  <2> QED BY <2>1, <2>3, <2>4 DEF WriteStore, StandingBudget, StandingStore
<1>5. SafetySound'
  BY ValuesDistinct DEF WriteStore, Stands, SafetySound, UnderWay, RestoreInv,
       JobSound, QuietSound, ReplacingSound, RecoverySound
<1> QED BY <1>1, <1>2, <1>3, <1>4, <1>5 DEF RestoreInv

(* A budget is created only where there was none, in a folder nobody uses; *)
(* it holds no work.                                                       *)
LEMMA CreateSound ==
  ASSUME RestoreInv, Create
  PROVE  RestoreInv' /\ Stands
<1>1. JobSound' /\ OpenedSound' /\ ChosenKept'
  BY ValuesDistinct, TheBudgetFolder DEF Create, Unused, ChosenKept, UnderWay,
       RestoreInv, TypeOK, JournalSound, JobSound, OpenedSound, QuietSound,
       ReplacingSound, RecoverySound
<1>2. TypeOK' /\ JournalSound' /\ Shape' /\ QuietSound'
  BY TheBudgetFolder, ValuesDistinct DEF Create, Unused, UnderWay, RestoreInv,
       TypeOK, JournalSound, Shape, JobSound, OpenedSound, QuietSound,
       ReplacingSound, RecoverySound
<1>3. ReplacingSound' /\ RecoverySound'
  BY TheBudgetFolder, SameFolders, ValuesDistinct DEF Create, Unused,
       Conflict, UnderWay, RestoreInv, TypeOK, JournalSound, Shape, JobSound,
       OpenedSound, QuietSound, ReplacingSound, RecoverySound
<1>4. Stands
  BY SameState, TheBudgetFolder, ValuesDistinct DEF Create, Unused, Stands,
       StandingBudget, StandingStore, RestoreInv, TypeOK, JournalSound, Shape,
       JobSound, OpenedSound, QuietSound, ReplacingSound, RecoverySound
<1>5. SafetySound'
  BY <1>4, SafetyStays DEF Create, Unused, Stands, SafetySound, UnderWay,
       RestoreInv, JobSound, QuietSound, ReplacingSound, RecoverySound
<1> QED BY <1>1, <1>2, <1>3, <1>4, <1>5 DEF RestoreInv

(* A backup is asked for. *)
LEMMA AskBackupSound ==
  ASSUME RestoreInv, AskBackup
  PROVE  RestoreInv' /\ Stands
<1>1. JobSound' /\ OpenedSound' /\ ChosenKept'
  BY ValuesDistinct, TheBudgetFolder DEF AskBackup, Take, NewIds, ChosenKept,
       UnderWay, RestoreInv, TypeOK, JournalSound, JobSound, OpenedSound,
       QuietSound, ReplacingSound, RecoverySound
<1>2. TypeOK' /\ JournalSound' /\ Shape' /\ QuietSound'
  BY TheBudgetFolder, ValuesDistinct DEF AskBackup, Take, NewIds, UnderWay,
       RestoreInv, TypeOK, JournalSound, Shape, JobSound, OpenedSound,
       QuietSound, ReplacingSound, RecoverySound
<1>3. ReplacingSound' /\ RecoverySound'
  BY TheBudgetFolder, SameFolders, ValuesDistinct DEF AskBackup, Take, NewIds,
       Conflict, UnderWay, RestoreInv, TypeOK, JournalSound, Shape, JobSound,
       OpenedSound, QuietSound, ReplacingSound, RecoverySound
<1>4. Stands
  BY SameState, TheBudgetFolder, ValuesDistinct DEF AskBackup, Take, NewIds,
       Stands, StandingBudget, StandingStore, RestoreInv, TypeOK,
       JournalSound, Shape, JobSound, OpenedSound, QuietSound, ReplacingSound,
       RecoverySound
<1>5. SafetySound'
  BY <1>4, SafetyStays DEF AskBackup, Take, NewIds, Stands, SafetySound,
       UnderWay, RestoreInv, JobSound, QuietSound, ReplacingSound,
       RecoverySound
<1> QED BY <1>1, <1>2, <1>3, <1>4, <1>5 DEF RestoreInv

(* A restore of a backup in the list is asked for. *)
LEMMA AskRestoreSound ==
  ASSUME RestoreInv, AskRestore
  PROVE  RestoreInv' /\ Stands
<1>1. JobSound' /\ OpenedSound' /\ ChosenKept'
  BY ValuesDistinct, TheBudgetFolder DEF AskRestore, Take, NewIds, ChosenKept,
       UnderWay, RestoreInv, TypeOK, JournalSound, JobSound, OpenedSound,
       QuietSound, ReplacingSound, RecoverySound
<1>2. TypeOK' /\ JournalSound' /\ Shape' /\ QuietSound'
  BY TheBudgetFolder, ValuesDistinct DEF AskRestore, Take, NewIds, UnderWay,
       RestoreInv, TypeOK, JournalSound, Shape, JobSound, OpenedSound,
       QuietSound, ReplacingSound, RecoverySound
<1>3. ReplacingSound' /\ RecoverySound'
  BY TheBudgetFolder, SameFolders, ValuesDistinct DEF AskRestore, Take,
       NewIds, Conflict, UnderWay, RestoreInv, TypeOK, JournalSound, Shape,
       JobSound, OpenedSound, QuietSound, ReplacingSound, RecoverySound
<1>4. Stands
  BY SameState, TheBudgetFolder, ValuesDistinct DEF AskRestore, Take, NewIds,
       Stands, StandingBudget, StandingStore, RestoreInv, TypeOK,
       JournalSound, Shape, JobSound, OpenedSound, QuietSound, ReplacingSound,
       RecoverySound
<1>5. SafetySound'
  BY <1>4, SafetyStays DEF AskRestore, Take, NewIds, Stands, SafetySound,
       UnderWay, RestoreInv, JobSound, QuietSound, ReplacingSound,
       RecoverySound
<1> QED BY <1>1, <1>2, <1>3, <1>4, <1>5 DEF RestoreInv

(* Exclusive work starts: from here to its end no request is under way. *)
LEMMA DrainedSound ==
  ASSUME RestoreInv, Drained
  PROVE  RestoreInv' /\ Stands
<1>1. JobSound' /\ OpenedSound' /\ ChosenKept'
  BY ValuesDistinct, TheBudgetFolder DEF Drained, ChosenKept, UnderWay,
       RestoreInv, TypeOK, JournalSound, JobSound, OpenedSound, QuietSound,
       ReplacingSound, RecoverySound
<1>2. TypeOK' /\ JournalSound' /\ Shape' /\ QuietSound'
  BY TheBudgetFolder, ValuesDistinct DEF Drained, UnderWay, RestoreInv,
       TypeOK, JournalSound, Shape, JobSound, OpenedSound, QuietSound,
       ReplacingSound, RecoverySound
<1>3. ReplacingSound' /\ RecoverySound'
  BY TheBudgetFolder, SameFolders, ValuesDistinct DEF Drained, Conflict,
       UnderWay, RestoreInv, TypeOK, JournalSound, Shape, JobSound,
       OpenedSound, QuietSound, ReplacingSound, RecoverySound
<1>4. Stands
  BY SameState, TheBudgetFolder, ValuesDistinct DEF Drained, Stands,
       StandingBudget, StandingStore, RestoreInv, TypeOK, JournalSound, Shape,
       JobSound, OpenedSound, QuietSound, ReplacingSound, RecoverySound
<1>5. SafetySound'
  BY <1>4, SafetyStays DEF Drained, Stands, SafetySound, UnderWay, RestoreInv,
       JobSound, QuietSound, ReplacingSound, RecoverySound
<1> QED BY <1>1, <1>2, <1>3, <1>4, <1>5 DEF RestoreInv

(* The backup is checked; refused, the work ends with the budget           *)
(* untouched.                                                              *)
LEMMA CheckSound ==
  ASSUME RestoreInv, Check
  PROVE  RestoreInv' /\ Stands
<1>1. JobSound' /\ OpenedSound' /\ ChosenKept'
  BY ValuesDistinct, TheBudgetFolder DEF Check, Damaged, ChosenKept, UnderWay,
       RestoreInv, TypeOK, JournalSound, JobSound, OpenedSound, QuietSound,
       ReplacingSound, RecoverySound
<1>2. TypeOK' /\ JournalSound' /\ Shape' /\ QuietSound'
  BY TheBudgetFolder, ValuesDistinct DEF Check, Damaged, UnderWay, RestoreInv,
       TypeOK, JournalSound, Shape, JobSound, OpenedSound, QuietSound,
       ReplacingSound, RecoverySound
<1>3. ReplacingSound' /\ RecoverySound'
  BY TheBudgetFolder, SameFolders, ValuesDistinct DEF Check, Damaged,
       Conflict, UnderWay, RestoreInv, TypeOK, JournalSound, Shape, JobSound,
       OpenedSound, QuietSound, ReplacingSound, RecoverySound
<1>4. Stands
  BY SameState, TheBudgetFolder, ValuesDistinct DEF Check, Damaged, Stands,
       StandingBudget, StandingStore, RestoreInv, TypeOK, JournalSound, Shape,
       JobSound, OpenedSound, QuietSound, ReplacingSound, RecoverySound
<1>5. SafetySound'
  BY <1>4, SafetyStays DEF Check, Damaged, Stands, SafetySound, UnderWay,
       RestoreInv, JobSound, QuietSound, ReplacingSound, RecoverySound
<1> QED BY <1>1, <1>2, <1>3, <1>4, <1>5 DEF RestoreInv

(* The budget is opened and closed; both halves are then on disk and       *)
(* whole.                                                                  *)
LEMMA PauseSound ==
  ASSUME RestoreInv, Pause
  PROVE  RestoreInv' /\ Stands
<1>1. JobSound' /\ OpenedSound' /\ ChosenKept'
  BY ValuesDistinct, TheBudgetFolder DEF Pause, ChosenKept, UnderWay,
       RestoreInv, TypeOK, JournalSound, JobSound, OpenedSound, QuietSound,
       ReplacingSound, RecoverySound
<1>2. TypeOK' /\ JournalSound' /\ Shape' /\ QuietSound'
  BY TheBudgetFolder, ValuesDistinct DEF Pause, UnderWay, RestoreInv, TypeOK,
       JournalSound, Shape, JobSound, OpenedSound, QuietSound, ReplacingSound,
       RecoverySound
<1>3. ReplacingSound' /\ RecoverySound'
  BY TheBudgetFolder, SameFolders, ValuesDistinct DEF Pause, Conflict,
       UnderWay, RestoreInv, TypeOK, JournalSound, Shape, JobSound,
       OpenedSound, QuietSound, ReplacingSound, RecoverySound
<1>4. Stands
  BY SameState, TheBudgetFolder, ValuesDistinct DEF Pause, Stands,
       StandingBudget, StandingStore, RestoreInv, TypeOK, JournalSound, Shape,
       JobSound, OpenedSound, QuietSound, ReplacingSound, RecoverySound
<1>5. SafetySound'
  BY <1>4, SafetyStays DEF Pause, Stands, SafetySound, UnderWay, RestoreInv,
       JobSound, QuietSound, ReplacingSound, RecoverySound
<1> QED BY <1>1, <1>2, <1>3, <1>4, <1>5 DEF RestoreInv

(* An automatic backup is made only when there is a budget to back up. *)
LEMMA DueSound ==
  ASSUME RestoreInv, Due
  PROVE  RestoreInv' /\ Stands
<1>1. JobSound' /\ OpenedSound' /\ ChosenKept'
  BY ValuesDistinct, TheBudgetFolder DEF Due, NewIds, ChosenKept, UnderWay,
       RestoreInv, TypeOK, JournalSound, JobSound, OpenedSound, QuietSound,
       ReplacingSound, RecoverySound
<1>2. TypeOK' /\ JournalSound' /\ Shape' /\ QuietSound'
  BY TheBudgetFolder, ValuesDistinct DEF Due, NewIds, UnderWay, RestoreInv,
       TypeOK, JournalSound, Shape, JobSound, OpenedSound, QuietSound,
       ReplacingSound, RecoverySound
<1>3. ReplacingSound' /\ RecoverySound'
  BY TheBudgetFolder, SameFolders, ValuesDistinct DEF Due, NewIds, Conflict,
       UnderWay, RestoreInv, TypeOK, JournalSound, Shape, JobSound,
       OpenedSound, QuietSound, ReplacingSound, RecoverySound
<1>4. Stands
  BY SameState, TheBudgetFolder, ValuesDistinct DEF Due, NewIds, Stands,
       StandingBudget, StandingStore, RestoreInv, TypeOK, JournalSound, Shape,
       JobSound, OpenedSound, QuietSound, ReplacingSound, RecoverySound
<1>5. SafetySound'
  BY <1>4, SafetyStays DEF Due, NewIds, Stands, SafetySound, UnderWay,
       RestoreInv, JobSound, QuietSound, ReplacingSound, RecoverySound
<1> QED BY <1>1, <1>2, <1>3, <1>4, <1>5 DEF RestoreInv

(* A new backup is a backup of the state that stands. *)
LEMMA CaptureMakes ==
  ASSUME RestoreInv, Capture
  PROVE  \E m \in Backup :
           /\ sets' = sets \cup {m}
           /\ m.trigger = Trigger
           /\ m.budget = StandingBudget
           /\ m.store = StandingStore
<1> DEFINE made(i) == [id |-> i, trigger |-> Trigger, folder |-> BudgetFolder,
                       budget |-> folder[BudgetFolder],
                       store |-> Content(storeFile), damaged |-> FALSE]
<1>1. PICK i \in NewIds : sets' = sets \cup {made(i)}
  BY DEF Capture
<1>2. /\ job \in {"start", "backup", "restore"} /\ Untouched
      /\ BudgetFolders # {} /\ (journal # Absent => journal.liveStore)
  BY DEF Capture, RestoreInv, JobSound, QuietSound, JournalSound
<1>3. i \in 0..MaxBackups
  BY BoundsNat DEF NewIds
<1>4. /\ BudgetFolder \in Folders /\ folder[BudgetFolder] \in Half
      /\ Content(storeFile) \in Half /\ Trigger \in Triggers
  BY <1>2, TheBudgetFolder DEF RestoreInv, TypeOK, Trigger
<1>5. made(i) \in Backup
  BY <1>3, <1>4
<1>6. StandingBudget = folder[BudgetFolder] /\ StandingStore = Content(storeFile)
  BY <1>2 DEF StandingBudget, StandingStore
<1> QED BY <1>1, <1>5, <1>6

(* A capture leaves the state alone, and before a restore it is the safety *)
(* backup.                                                                 *)
LEMMA CaptureSound ==
  ASSUME RestoreInv, Capture
  PROVE  RestoreInv' /\ Stands
<1>1. JobSound' /\ OpenedSound' /\ ChosenKept'
  BY ValuesDistinct, TheBudgetFolder DEF Capture, NewIds, Trigger,
       AfterCapture, ChosenKept, UnderWay, RestoreInv, TypeOK, JournalSound,
       JobSound, OpenedSound, QuietSound, ReplacingSound, RecoverySound
<1>2. TypeOK' /\ JournalSound' /\ Shape' /\ QuietSound'
  <2>1. job \in {"start", "backup", "restore"} /\ Untouched
    BY DEF Capture, RestoreInv, JobSound, QuietSound
  <2>3. sets' \subseteq Backup
    BY CaptureMakes DEF RestoreInv, TypeOK
  <2>4. UNCHANGED <<folder, storeFile, restoring, opened, req>>
    BY DEF Capture
  <2>5. TypeOK'
    BY <2>1, <2>3, <2>4 DEF Capture, AfterCapture, RestoreInv, TypeOK
  <2>6. QuietSound'
    BY <2>1, <2>4 DEF Capture, AfterCapture, RestoreInv, QuietSound
  <2> QED BY <2>4, <2>5, <2>6 DEF RestoreInv, JournalSound, Shape
<1>3. ReplacingSound' /\ RecoverySound'
  BY TheBudgetFolder, SameFolders, ValuesDistinct DEF Capture, NewIds,
       Trigger, AfterCapture, Conflict, UnderWay, RestoreInv, TypeOK,
       JournalSound, Shape, JobSound, OpenedSound, QuietSound, ReplacingSound,
       RecoverySound
<1>4. Stands
  BY SameState, TheBudgetFolder, ValuesDistinct DEF Capture, NewIds, Trigger,
       AfterCapture, Stands, StandingBudget, StandingStore, RestoreInv,
       TypeOK, JournalSound, Shape, JobSound, OpenedSound, QuietSound,
       ReplacingSound, RecoverySound
<1>5. SafetySound'
  <2>1. CASE job = "restore"
    BY <1>4, <2>1, CaptureMakes DEF Trigger, SafetySound, SafetyKept, Stands
  <2>2. CASE job # "restore"
    BY <2>2 DEF Capture, AfterCapture, SafetySound, RestoreInv, JobSound
  <2> QED BY <2>1, <2>2
<1> QED BY <1>1, <1>2, <1>3, <1>4, <1>5 DEF RestoreInv

(* Pruning ends the start of the engine and moves nothing but backups. *)
LEMMA PruneSound ==
  ASSUME RestoreInv, Prune
  PROVE  RestoreInv' /\ Stands
<1>1. JobSound' /\ OpenedSound' /\ ChosenKept'
  BY ValuesDistinct, TheBudgetFolder DEF Prune, NewerAutomatic, ChosenKept,
       UnderWay, RestoreInv, TypeOK, JournalSound, JobSound, OpenedSound,
       QuietSound, ReplacingSound, RecoverySound
<1>2. TypeOK' /\ JournalSound' /\ Shape' /\ QuietSound'
  BY TheBudgetFolder, ValuesDistinct DEF Prune, NewerAutomatic, UnderWay,
       RestoreInv, TypeOK, JournalSound, Shape, JobSound, OpenedSound,
       QuietSound, ReplacingSound, RecoverySound
<1>3. ReplacingSound' /\ RecoverySound'
  BY TheBudgetFolder, SameFolders, ValuesDistinct DEF Prune, NewerAutomatic,
       Conflict, UnderWay, RestoreInv, TypeOK, JournalSound, Shape, JobSound,
       OpenedSound, QuietSound, ReplacingSound, RecoverySound
<1>4. Stands
  BY SameState, TheBudgetFolder, ValuesDistinct DEF Prune, NewerAutomatic,
       Stands, StandingBudget, StandingStore, RestoreInv, TypeOK,
       JournalSound, Shape, JobSound, OpenedSound, QuietSound, ReplacingSound,
       RecoverySound
<1>5. SafetySound'
  BY <1>4, SafetyStays DEF Prune, NewerAutomatic, Stands, SafetySound,
       UnderWay, RestoreInv, JobSound, QuietSound, ReplacingSound,
       RecoverySound
<1> QED BY <1>1, <1>2, <1>3, <1>4, <1>5 DEF RestoreInv

(* Exclusive work ends with a budget open, or none and the next request    *)
(* opens it.                                                               *)
LEMMA ReopenSound ==
  ASSUME RestoreInv, Reopen
  PROVE  RestoreInv' /\ Stands
<1>1. JobSound' /\ OpenedSound' /\ ChosenKept'
  BY ValuesDistinct, TheBudgetFolder DEF Reopen, OpenExisting, OpenFails,
       ChosenKept, UnderWay, RestoreInv, TypeOK, JournalSound, JobSound,
       OpenedSound, QuietSound, ReplacingSound, RecoverySound
<1>2. TypeOK' /\ JournalSound' /\ Shape' /\ QuietSound'
  BY TheBudgetFolder, ValuesDistinct DEF Reopen, OpenExisting, OpenFails,
       UnderWay, RestoreInv, TypeOK, JournalSound, Shape, JobSound,
       OpenedSound, QuietSound, ReplacingSound, RecoverySound
<1>3. ReplacingSound' /\ RecoverySound'
  BY TheBudgetFolder, SameFolders, ValuesDistinct DEF Reopen, OpenExisting,
       OpenFails, Conflict, UnderWay, RestoreInv, TypeOK, JournalSound, Shape,
       JobSound, OpenedSound, QuietSound, ReplacingSound, RecoverySound
<1>4. Stands
  BY SameState, TheBudgetFolder, ValuesDistinct DEF Reopen, OpenExisting,
       OpenFails, Stands, StandingBudget, StandingStore, RestoreInv, TypeOK,
       JournalSound, Shape, JobSound, OpenedSound, QuietSound, ReplacingSound,
       RecoverySound
<1>5. SafetySound'
  BY <1>4, SafetyStays DEF Reopen, OpenExisting, OpenFails, Stands,
       SafetySound, UnderWay, RestoreInv, JobSound, QuietSound,
       ReplacingSound, RecoverySound
<1> QED BY <1>1, <1>2, <1>3, <1>4, <1>5 DEF RestoreInv

(* Staging touches nothing live; what stands in the way sends it to the    *)
(* recovery.                                                               *)
LEMMA StageSound ==
  ASSUME RestoreInv, Stage
  PROVE  RestoreInv' /\ Stands
<1>1. JobSound' /\ OpenedSound' /\ ChosenKept'
  BY ValuesDistinct, TheBudgetFolder DEF Stage, ChosenKept, UnderWay,
       RestoreInv, TypeOK, JournalSound, JobSound, OpenedSound, QuietSound,
       ReplacingSound, RecoverySound
<1>2. TypeOK' /\ JournalSound' /\ Shape' /\ QuietSound'
  <2>1. TypeOK'
    <3>1. CASE BudgetFolders = {} \/ Conflict
      BY <3>1 DEF Stage, RestoreInv, TypeOK
    <3>2. CASE ~(BudgetFolders = {} \/ Conflict)
      BY <3>2 DEF Stage, RestoreInv, TypeOK
    <3> QED BY <3>1, <3>2
  <2>2. JournalSound' /\ Shape' /\ QuietSound'
    BY ValuesDistinct DEF Stage, RestoreInv, TypeOK, JournalSound, Shape,
                          QuietSound, ReplacingSound, JobSound
  <2> QED BY <2>1, <2>2
<1>3. ReplacingSound' /\ RecoverySound'
  BY TheBudgetFolder, SameFolders, ValuesDistinct DEF Stage, Conflict,
       UnderWay, RestoreInv, TypeOK, JournalSound, Shape, JobSound,
       OpenedSound, QuietSound, ReplacingSound, RecoverySound
<1>4. Stands
  BY SameState, TheBudgetFolder, ValuesDistinct DEF Stage, Stands,
       StandingBudget, StandingStore, RestoreInv, TypeOK, JournalSound, Shape,
       JobSound, OpenedSound, QuietSound, ReplacingSound, RecoverySound
<1>5. SafetySound'
  BY <1>4, SafetyStays DEF Stage, Stands, SafetySound, UnderWay, RestoreInv,
       JobSound, QuietSound, ReplacingSound, RecoverySound
<1> QED BY <1>1, <1>2, <1>3, <1>4, <1>5 DEF RestoreInv

(* The staged budget is the chosen backup's, or torn when the backup is    *)
(* damaged.                                                                *)
LEMMA CopyBudgetSound ==
  ASSUME RestoreInv, CopyBudget
  PROVE  RestoreInv' /\ Stands
<1>1. JobSound' /\ OpenedSound' /\ ChosenKept'
  BY ValuesDistinct, TheBudgetFolder DEF CopyBudget, Copied, ChosenKept,
       UnderWay, RestoreInv, TypeOK, JournalSound, JobSound, OpenedSound,
       QuietSound, ReplacingSound, RecoverySound
<1>2. TypeOK' /\ JournalSound' /\ Shape' /\ QuietSound'
  BY TheBudgetFolder, ValuesDistinct DEF CopyBudget, Copied, UnderWay,
       RestoreInv, TypeOK, JournalSound, Shape, JobSound, OpenedSound,
       QuietSound, ReplacingSound, RecoverySound
<1>3. ReplacingSound' /\ RecoverySound'
  BY TheBudgetFolder, SameFolders, ValuesDistinct DEF CopyBudget, Copied,
       Conflict, UnderWay, RestoreInv, TypeOK, JournalSound, Shape, JobSound,
       OpenedSound, QuietSound, ReplacingSound, RecoverySound
<1>4. Stands
  BY SameState, TheBudgetFolder, ValuesDistinct DEF CopyBudget, Copied,
       Stands, StandingBudget, StandingStore, RestoreInv, TypeOK,
       JournalSound, Shape, JobSound, OpenedSound, QuietSound, ReplacingSound,
       RecoverySound
<1>5. SafetySound'
  BY <1>4, SafetyStays DEF CopyBudget, Copied, Stands, SafetySound, UnderWay,
       RestoreInv, JobSound, QuietSound, ReplacingSound, RecoverySound
<1> QED BY <1>1, <1>2, <1>3, <1>4, <1>5 DEF RestoreInv

(* The staged store is the chosen backup's, or torn when the backup is     *)
(* damaged.                                                                *)
LEMMA CopyStoreSound ==
  ASSUME RestoreInv, CopyStore
  PROVE  RestoreInv' /\ Stands
<1>1. JobSound' /\ OpenedSound' /\ ChosenKept'
  BY ValuesDistinct, TheBudgetFolder DEF CopyStore, Copied, ChosenKept,
       UnderWay, RestoreInv, TypeOK, JournalSound, JobSound, OpenedSound,
       QuietSound, ReplacingSound, RecoverySound
<1>2. TypeOK' /\ JournalSound' /\ Shape' /\ QuietSound'
  BY TheBudgetFolder, ValuesDistinct DEF CopyStore, Copied, UnderWay,
       RestoreInv, TypeOK, JournalSound, Shape, JobSound, OpenedSound,
       QuietSound, ReplacingSound, RecoverySound
<1>3. ReplacingSound' /\ RecoverySound'
  BY TheBudgetFolder, SameFolders, ValuesDistinct DEF CopyStore, Copied,
       Conflict, UnderWay, RestoreInv, TypeOK, JournalSound, Shape, JobSound,
       OpenedSound, QuietSound, ReplacingSound, RecoverySound
<1>4. Stands
  BY SameState, TheBudgetFolder, ValuesDistinct DEF CopyStore, Copied, Stands,
       StandingBudget, StandingStore, RestoreInv, TypeOK, JournalSound, Shape,
       JobSound, OpenedSound, QuietSound, ReplacingSound, RecoverySound
<1>5. SafetySound'
  BY <1>4, SafetyStays DEF CopyStore, Copied, Stands, SafetySound, UnderWay,
       RestoreInv, JobSound, QuietSound, ReplacingSound, RecoverySound
<1> QED BY <1>1, <1>2, <1>3, <1>4, <1>5 DEF RestoreInv

(* The journal is written only for a whole staged copy, while nothing is   *)
(* aside.                                                                  *)
LEMMA WriteJournalSound ==
  ASSUME RestoreInv, WriteJournal
  PROVE  RestoreInv' /\ Stands
<1>1. JobSound' /\ OpenedSound' /\ ChosenKept'
  BY ValuesDistinct, TheBudgetFolder DEF WriteJournal, ChosenKept, UnderWay,
       RestoreInv, TypeOK, JournalSound, JobSound, OpenedSound, QuietSound,
       ReplacingSound, RecoverySound
<1>2. job = "restore" /\ chosen \in Backup /\ Untouched /\ SafetyKept
  BY DEF WriteJournal, RestoreInv, TypeOK, JobSound, QuietSound, SafetySound
<1>3. /\ here /\ journal = Absent /\ prevBudget = Absent /\ prevStore = Absent
      /\ storeFile \in Half /\ BudgetFolders # {} /\ ~Conflict
      /\ inBudget \in {Torn, chosen.budget} /\ inStore \in {Torn, chosen.store}
  BY DEF WriteJournal, RestoreInv, TypeOK, ReplacingSound
<1>4. BudgetFolder \in Folders /\ BudgetFolders = {BudgetFolder}
  BY <1>2, <1>3, TheBudgetFolder
<1>5. UNCHANGED <<disk, here, inBudget, inStore, prevBudget, prevStore, opened, req>>
  BY DEF WriteJournal
<1>6. BudgetFolder' = BudgetFolder
  BY <1>5, SameFolders
<1>7. CASE Torn \in {inBudget, inStore}
  <2>1. pc' = "look" /\ back' = "undone" /\ UNCHANGED <<journal, job, chosen>>
    BY <1>7 DEF WriteJournal
  <2>2. Stands
    BY <1>5, <2>1, SameState
  <2>3. TypeOK' /\ JournalSound' /\ Shape' /\ QuietSound'
    BY <1>5, <2>1 DEF RestoreInv, TypeOK, JournalSound, Shape, QuietSound
  <2>4. SafetySound' /\ ReplacingSound' /\ RecoverySound'
    BY <2>1 DEF SafetySound, ReplacingSound, RecoverySound
  <2> QED BY <1>1, <2>2, <2>3, <2>4 DEF RestoreInv
<1>8. CASE Torn \notin {inBudget, inStore}
  <2>1. /\ journal' = [phase |-> "staged", liveFolder |-> BudgetFolder,
                       liveStore |-> storeFile # Absent,
                       incomingFolder |-> chosen.folder]
        /\ pc' = "asideBudget" /\ UNCHANGED <<job, chosen, back>>
    BY <1>8 DEF WriteJournal
  <2>2. journal' \in Journal /\ journal'.liveStore /\ Staged'
    BY <1>2, <1>3, <1>4, <2>1, ValuesDistinct
  <2>3. TypeOK'
    BY <1>5, <2>1, <2>2 DEF RestoreInv, TypeOK
  <2>4. JournalSound'
    BY <1>3, <1>5, <2>2 DEF RestoreInv, JournalSound
  <2>5. Untouched'
    BY <1>2, <1>3, <1>4, <1>5, <2>1, ValuesDistinct
  <2>6. QuietSound'
    BY <2>1, <2>5 DEF QuietSound
  <2>7. inBudget = chosen.budget /\ inStore = chosen.store /\ folder[chosen.folder] # Other
    BY <1>2, <1>3, <1>4, <1>8, ValuesDistinct DEF Conflict
  <2>8. ReplacingSound' /\ RecoverySound'
    BY <1>3, <1>5, <2>1, <2>2, <2>7 DEF ReplacingSound, RecoverySound
  <2>9. Stands
    BY <1>2, <1>3, <1>5, <1>6, <2>2, ValuesDistinct
       DEF Stands, StandingBudget, StandingStore
  <2>10. SafetyKept'
    BY <1>2, <1>5, <2>9, SafetyStays
  <2> QED BY <1>1, <2>3, <2>4, <2>5, <2>6, <2>8, <2>9, <2>10
          DEF RestoreInv, Shape, SafetySound
<1> QED BY <1>7, <1>8

(* The budget steps aside: what stands is now what is under previous/. *)
LEMMA AsideBudgetSound ==
  ASSUME RestoreInv, AsideBudget
  PROVE  RestoreInv' /\ Stands
<1>1. JobSound' /\ OpenedSound' /\ ChosenKept'
  BY ValuesDistinct, TheBudgetFolder DEF AsideBudget, ChosenKept, UnderWay,
       RestoreInv, TypeOK, JournalSound, JobSound, OpenedSound, QuietSound,
       ReplacingSound, RecoverySound
<1>2. TypeOK' /\ JournalSound' /\ Shape' /\ QuietSound'
  BY TheBudgetFolder, ValuesDistinct DEF AsideBudget, UnderWay, RestoreInv,
       TypeOK, JournalSound, Shape, JobSound, OpenedSound, QuietSound,
       ReplacingSound, RecoverySound
<1>3. ReplacingSound' /\ RecoverySound'
  BY TheBudgetFolder, SameFolders, ValuesDistinct DEF AsideBudget, Conflict,
       UnderWay, RestoreInv, TypeOK, JournalSound, Shape, JobSound,
       OpenedSound, QuietSound, ReplacingSound, RecoverySound
<1>4. Stands
  BY SameState, TheBudgetFolder, ValuesDistinct DEF AsideBudget, Stands,
       StandingBudget, StandingStore, RestoreInv, TypeOK, JournalSound, Shape,
       JobSound, OpenedSound, QuietSound, ReplacingSound, RecoverySound
<1>5. SafetySound'
  BY <1>4, SafetyStays DEF AsideBudget, Stands, SafetySound, UnderWay,
       RestoreInv, JobSound, QuietSound, ReplacingSound, RecoverySound
<1> QED BY <1>1, <1>2, <1>3, <1>4, <1>5 DEF RestoreInv

(* The store steps aside, and what stands does not change. *)
LEMMA AsideStoreSound ==
  ASSUME RestoreInv, AsideStore
  PROVE  RestoreInv' /\ Stands
<1>1. JobSound' /\ OpenedSound' /\ ChosenKept'
  BY ValuesDistinct, TheBudgetFolder DEF AsideStore, ChosenKept, UnderWay,
       RestoreInv, TypeOK, JournalSound, JobSound, OpenedSound, QuietSound,
       ReplacingSound, RecoverySound
<1>2. TypeOK' /\ JournalSound' /\ Shape' /\ QuietSound'
  BY TheBudgetFolder, ValuesDistinct DEF AsideStore, UnderWay, RestoreInv,
       TypeOK, JournalSound, Shape, JobSound, OpenedSound, QuietSound,
       ReplacingSound, RecoverySound
<1>3. ReplacingSound' /\ RecoverySound'
  BY TheBudgetFolder, SameFolders, ValuesDistinct DEF AsideStore, Conflict,
       UnderWay, RestoreInv, TypeOK, JournalSound, Shape, JobSound,
       OpenedSound, QuietSound, ReplacingSound, RecoverySound
<1>4. Stands
  BY SameState, TheBudgetFolder, ValuesDistinct DEF AsideStore, Stands,
       StandingBudget, StandingStore, RestoreInv, TypeOK, JournalSound, Shape,
       JobSound, OpenedSound, QuietSound, ReplacingSound, RecoverySound
<1>5. SafetySound'
  BY <1>4, SafetyStays DEF AsideStore, Stands, SafetySound, UnderWay,
       RestoreInv, JobSound, QuietSound, ReplacingSound, RecoverySound
<1> QED BY <1>1, <1>2, <1>3, <1>4, <1>5 DEF RestoreInv

(* The restored budget moves in; until the end, what is aside is what      *)
(* stands.                                                                 *)
LEMMA BudgetInSound ==
  ASSUME RestoreInv, BudgetIn
  PROVE  RestoreInv' /\ Stands
<1>1. JobSound' /\ OpenedSound' /\ ChosenKept'
  BY ValuesDistinct, TheBudgetFolder DEF BudgetIn, ChosenKept, UnderWay,
       RestoreInv, TypeOK, JournalSound, JobSound, OpenedSound, QuietSound,
       ReplacingSound, RecoverySound
<1>2. TypeOK' /\ JournalSound' /\ Shape' /\ QuietSound'
  BY TheBudgetFolder, ValuesDistinct DEF BudgetIn, UnderWay, RestoreInv,
       TypeOK, JournalSound, Shape, JobSound, OpenedSound, QuietSound,
       ReplacingSound, RecoverySound
<1>3. ReplacingSound' /\ RecoverySound'
  BY TheBudgetFolder, SameFolders, ValuesDistinct DEF BudgetIn, Conflict,
       UnderWay, RestoreInv, TypeOK, JournalSound, Shape, JobSound,
       OpenedSound, QuietSound, ReplacingSound, RecoverySound
<1>4. Stands
  BY SameState, TheBudgetFolder, ValuesDistinct DEF BudgetIn, Stands,
       StandingBudget, StandingStore, RestoreInv, TypeOK, JournalSound, Shape,
       JobSound, OpenedSound, QuietSound, ReplacingSound, RecoverySound
<1>5. SafetySound'
  BY <1>4, SafetyStays DEF BudgetIn, Stands, SafetySound, UnderWay,
       RestoreInv, JobSound, QuietSound, ReplacingSound, RecoverySound
<1> QED BY <1>1, <1>2, <1>3, <1>4, <1>5 DEF RestoreInv

(* The restored store moves in; until the end, what is aside is what       *)
(* stands.                                                                 *)
LEMMA StoreInSound ==
  ASSUME RestoreInv, StoreIn
  PROVE  RestoreInv' /\ Stands
<1>1. JobSound' /\ OpenedSound' /\ ChosenKept'
  BY ValuesDistinct, TheBudgetFolder DEF StoreIn, ChosenKept, UnderWay,
       RestoreInv, TypeOK, JournalSound, JobSound, OpenedSound, QuietSound,
       ReplacingSound, RecoverySound
<1>2. TypeOK' /\ JournalSound' /\ Shape' /\ QuietSound'
  BY TheBudgetFolder, ValuesDistinct DEF StoreIn, UnderWay, RestoreInv,
       TypeOK, JournalSound, Shape, JobSound, OpenedSound, QuietSound,
       ReplacingSound, RecoverySound
<1>3. ReplacingSound' /\ RecoverySound'
  BY TheBudgetFolder, SameFolders, ValuesDistinct DEF StoreIn, Conflict,
       UnderWay, RestoreInv, TypeOK, JournalSound, Shape, JobSound,
       OpenedSound, QuietSound, ReplacingSound, RecoverySound
<1>4. Stands
  BY SameState, TheBudgetFolder, ValuesDistinct DEF StoreIn, Stands,
       StandingBudget, StandingStore, RestoreInv, TypeOK, JournalSound, Shape,
       JobSound, OpenedSound, QuietSound, ReplacingSound, RecoverySound
<1>5. SafetySound'
  BY <1>4, SafetyStays DEF StoreIn, Stands, SafetySound, UnderWay, RestoreInv,
       JobSound, QuietSound, ReplacingSound, RecoverySound
<1> QED BY <1>1, <1>2, <1>3, <1>4, <1>5 DEF RestoreInv

(* Opening what was restored changes neither half of it, nor what stands. *)
LEMMA OpenRestoredSound ==
  ASSUME RestoreInv, OpenRestored
  PROVE  RestoreInv' /\ Stands
<1>1. JobSound' /\ OpenedSound' /\ ChosenKept'
  BY ValuesDistinct, TheBudgetFolder DEF OpenRestored, OpenExisting,
       ChosenKept, UnderWay, RestoreInv, TypeOK, JournalSound, JobSound,
       OpenedSound, QuietSound, ReplacingSound, RecoverySound
<1>2. TypeOK' /\ JournalSound' /\ Shape' /\ QuietSound'
  BY TheBudgetFolder, ValuesDistinct DEF OpenRestored, OpenExisting, UnderWay,
       RestoreInv, TypeOK, JournalSound, Shape, JobSound, OpenedSound,
       QuietSound, ReplacingSound, RecoverySound
<1>3. ReplacingSound' /\ RecoverySound'
  BY TheBudgetFolder, SameFolders, ValuesDistinct DEF OpenRestored,
       OpenExisting, Conflict, UnderWay, RestoreInv, TypeOK, JournalSound,
       Shape, JobSound, OpenedSound, QuietSound, ReplacingSound, RecoverySound
<1>4. Stands
  BY SameState, TheBudgetFolder, ValuesDistinct DEF OpenRestored,
       OpenExisting, Stands, StandingBudget, StandingStore, RestoreInv,
       TypeOK, JournalSound, Shape, JobSound, OpenedSound, QuietSound,
       ReplacingSound, RecoverySound
<1>5. SafetySound'
  BY <1>4, SafetyStays DEF OpenRestored, OpenExisting, Stands, SafetySound,
       UnderWay, RestoreInv, JobSound, QuietSound, ReplacingSound,
       RecoverySound
<1> QED BY <1>1, <1>2, <1>3, <1>4, <1>5 DEF RestoreInv

(* The one write that says complete makes the chosen backup the state that *)
(* stands.                                                                 *)
LEMMA FinishRestoreSound ==
  ASSUME RestoreInv, FinishRestore
  PROVE  RestoreInv' /\ StandingBudget' = chosen.budget /\ StandingStore' = chosen.store
<1>1. JobSound' /\ OpenedSound' /\ ChosenKept'
  BY ValuesDistinct, TheBudgetFolder DEF FinishRestore, ChosenKept, UnderWay,
       RestoreInv, TypeOK, JournalSound, JobSound, OpenedSound, QuietSound,
       ReplacingSound, RecoverySound
<1>2. TypeOK' /\ JournalSound' /\ Shape' /\ QuietSound'
  BY TheBudgetFolder, ValuesDistinct DEF FinishRestore, UnderWay, RestoreInv,
       TypeOK, JournalSound, Shape, JobSound, OpenedSound, QuietSound,
       ReplacingSound, RecoverySound
<1>3. ReplacingSound' /\ RecoverySound'
  BY TheBudgetFolder, SameFolders, ValuesDistinct DEF FinishRestore, Conflict,
       UnderWay, RestoreInv, TypeOK, JournalSound, Shape, JobSound,
       OpenedSound, QuietSound, ReplacingSound, RecoverySound
<1>4. StandingBudget' = chosen.budget /\ StandingStore' = chosen.store
  BY SameState, TheBudgetFolder, ValuesDistinct DEF FinishRestore, Stands,
       StandingBudget, StandingStore, RestoreInv, TypeOK, JournalSound, Shape,
       JobSound, OpenedSound, QuietSound, ReplacingSound, RecoverySound
<1>5. SafetySound'
  BY ValuesDistinct DEF FinishRestore, Stands, SafetySound, UnderWay,
       RestoreInv, JobSound, QuietSound, ReplacingSound, RecoverySound
<1> QED BY <1>1, <1>2, <1>3, <1>4, <1>5 DEF RestoreInv

(* The recovery reads the journal and previous/, and goes where they say. *)
LEMMA LookSound ==
  ASSUME RestoreInv, Look
  PROVE  RestoreInv' /\ Stands
<1>1. JobSound' /\ OpenedSound' /\ ChosenKept'
  BY ValuesDistinct, TheBudgetFolder DEF Look, Return, ChosenKept, UnderWay,
       RestoreInv, TypeOK, JournalSound, JobSound, OpenedSound, QuietSound,
       ReplacingSound, RecoverySound
<1>2. TypeOK' /\ JournalSound' /\ Shape' /\ QuietSound'
  BY TheBudgetFolder, ValuesDistinct DEF Look, Return, UnderWay, RestoreInv,
       TypeOK, JournalSound, Shape, JobSound, OpenedSound, QuietSound,
       ReplacingSound, RecoverySound
<1>3. ReplacingSound' /\ RecoverySound'
  BY TheBudgetFolder, SameFolders, ValuesDistinct DEF Look, Return, Conflict,
       UnderWay, RestoreInv, TypeOK, JournalSound, Shape, JobSound,
       OpenedSound, QuietSound, ReplacingSound, RecoverySound
<1>4. Stands
  BY SameState, TheBudgetFolder, ValuesDistinct DEF Look, Return, Stands,
       StandingBudget, StandingStore, RestoreInv, TypeOK, JournalSound, Shape,
       JobSound, OpenedSound, QuietSound, ReplacingSound, RecoverySound
<1>5. SafetySound'
  BY <1>4, SafetyStays DEF Look, Return, Stands, SafetySound, UnderWay,
       RestoreInv, JobSound, QuietSound, ReplacingSound, RecoverySound
<1> QED BY <1>1, <1>2, <1>3, <1>4, <1>5 DEF RestoreInv

(* Half removed, the restored budget is still not what stands. *)
LEMMA DropIncomingPartSound ==
  ASSUME RestoreInv, DropPart("dropIncoming", journal.incomingFolder)
  PROVE  RestoreInv' /\ Stands
<1>1. JobSound' /\ OpenedSound' /\ ChosenKept'
  BY ValuesDistinct, TheBudgetFolder DEF DropPart, ChosenKept, UnderWay,
       RestoreInv, TypeOK, JournalSound, JobSound, OpenedSound, QuietSound,
       ReplacingSound, RecoverySound
<1>2. TypeOK' /\ JournalSound' /\ Shape' /\ QuietSound'
  BY TheBudgetFolder, ValuesDistinct DEF DropPart, UnderWay, RestoreInv,
       TypeOK, JournalSound, Shape, JobSound, OpenedSound, QuietSound,
       ReplacingSound, RecoverySound
<1>3. ReplacingSound' /\ RecoverySound'
  BY TheBudgetFolder, SameFolders, ValuesDistinct DEF DropPart, Conflict,
       UnderWay, RestoreInv, TypeOK, JournalSound, Shape, JobSound,
       OpenedSound, QuietSound, ReplacingSound, RecoverySound
<1>4. Stands
  BY SameState, TheBudgetFolder, ValuesDistinct DEF DropPart, Stands,
       StandingBudget, StandingStore, RestoreInv, TypeOK, JournalSound, Shape,
       JobSound, OpenedSound, QuietSound, ReplacingSound, RecoverySound
<1>5. SafetySound'
  BY <1>4, SafetyStays DEF DropPart, Stands, SafetySound, UnderWay,
       RestoreInv, JobSound, QuietSound, ReplacingSound, RecoverySound
<1> QED BY <1>1, <1>2, <1>3, <1>4, <1>5 DEF RestoreInv

(* The restored budget is removed; the one aside is what stands. *)
LEMMA DropIncomingSound ==
  ASSUME RestoreInv, Drop("dropIncoming", journal.incomingFolder, "dropLive")
  PROVE  RestoreInv' /\ Stands
<1>1. JobSound' /\ OpenedSound' /\ ChosenKept'
  BY ValuesDistinct, TheBudgetFolder DEF Drop, ChosenKept, UnderWay,
       RestoreInv, TypeOK, JournalSound, JobSound, OpenedSound, QuietSound,
       ReplacingSound, RecoverySound
<1>2. TypeOK' /\ JournalSound' /\ Shape' /\ QuietSound'
  BY TheBudgetFolder, ValuesDistinct DEF Drop, UnderWay, RestoreInv, TypeOK,
       JournalSound, Shape, JobSound, OpenedSound, QuietSound, ReplacingSound,
       RecoverySound
<1>3. ReplacingSound' /\ RecoverySound'
  BY TheBudgetFolder, SameFolders, ValuesDistinct DEF Drop, Conflict,
       UnderWay, RestoreInv, TypeOK, JournalSound, Shape, JobSound,
       OpenedSound, QuietSound, ReplacingSound, RecoverySound
<1>4. Stands
  BY SameState, TheBudgetFolder, ValuesDistinct DEF Drop, Stands,
       StandingBudget, StandingStore, RestoreInv, TypeOK, JournalSound, Shape,
       JobSound, OpenedSound, QuietSound, ReplacingSound, RecoverySound
<1>5. SafetySound'
  BY <1>4, SafetyStays DEF Drop, Stands, SafetySound, UnderWay, RestoreInv,
       JobSound, QuietSound, ReplacingSound, RecoverySound
<1> QED BY <1>1, <1>2, <1>3, <1>4, <1>5 DEF RestoreInv

(* The live place is cleared for the budget that is aside. *)
LEMMA DropLiveSound ==
  ASSUME RestoreInv, Drop("dropLive", journal.liveFolder, "putBudget")
  PROVE  RestoreInv' /\ Stands
<1>1. JobSound' /\ OpenedSound' /\ ChosenKept'
  BY ValuesDistinct, TheBudgetFolder DEF Drop, ChosenKept, UnderWay,
       RestoreInv, TypeOK, JournalSound, JobSound, OpenedSound, QuietSound,
       ReplacingSound, RecoverySound
<1>2. TypeOK' /\ JournalSound' /\ Shape' /\ QuietSound'
  BY TheBudgetFolder, ValuesDistinct DEF Drop, UnderWay, RestoreInv, TypeOK,
       JournalSound, Shape, JobSound, OpenedSound, QuietSound, ReplacingSound,
       RecoverySound
<1>3. ReplacingSound' /\ RecoverySound'
  BY TheBudgetFolder, SameFolders, ValuesDistinct DEF Drop, Conflict,
       UnderWay, RestoreInv, TypeOK, JournalSound, Shape, JobSound,
       OpenedSound, QuietSound, ReplacingSound, RecoverySound
<1>4. Stands
  BY SameState, TheBudgetFolder, ValuesDistinct DEF Drop, Stands,
       StandingBudget, StandingStore, RestoreInv, TypeOK, JournalSound, Shape,
       JobSound, OpenedSound, QuietSound, ReplacingSound, RecoverySound
<1>5. SafetySound'
  BY <1>4, SafetyStays DEF Drop, Stands, SafetySound, UnderWay, RestoreInv,
       JobSound, QuietSound, ReplacingSound, RecoverySound
<1> QED BY <1>1, <1>2, <1>3, <1>4, <1>5 DEF RestoreInv

(* The budget goes back from previous/ to the live place. *)
LEMMA PutBudgetBackSound ==
  ASSUME RestoreInv, PutBudgetBack
  PROVE  RestoreInv' /\ Stands
<1>1. JobSound' /\ OpenedSound' /\ ChosenKept'
  BY ValuesDistinct, TheBudgetFolder DEF PutBudgetBack, ChosenKept, UnderWay,
       RestoreInv, TypeOK, JournalSound, JobSound, OpenedSound, QuietSound,
       ReplacingSound, RecoverySound
<1>2. TypeOK' /\ JournalSound' /\ Shape' /\ QuietSound'
  BY TheBudgetFolder, ValuesDistinct DEF PutBudgetBack, UnderWay, RestoreInv,
       TypeOK, JournalSound, Shape, JobSound, OpenedSound, QuietSound,
       ReplacingSound, RecoverySound
<1>3. ReplacingSound' /\ RecoverySound'
  BY TheBudgetFolder, SameFolders, ValuesDistinct DEF PutBudgetBack, Conflict,
       UnderWay, RestoreInv, TypeOK, JournalSound, Shape, JobSound,
       OpenedSound, QuietSound, ReplacingSound, RecoverySound
<1>4. Stands
  BY SameState, TheBudgetFolder, ValuesDistinct DEF PutBudgetBack, Stands,
       StandingBudget, StandingStore, RestoreInv, TypeOK, JournalSound, Shape,
       JobSound, OpenedSound, QuietSound, ReplacingSound, RecoverySound
<1>5. SafetySound'
  BY <1>4, SafetyStays DEF PutBudgetBack, Stands, SafetySound, UnderWay,
       RestoreInv, JobSound, QuietSound, ReplacingSound, RecoverySound
<1> QED BY <1>1, <1>2, <1>3, <1>4, <1>5 DEF RestoreInv

(* The restored store is removed; the one aside is what stands. *)
LEMMA DropStoreSound ==
  ASSUME RestoreInv, DropStore
  PROVE  RestoreInv' /\ Stands
<1>1. JobSound' /\ OpenedSound' /\ ChosenKept'
  BY ValuesDistinct, TheBudgetFolder DEF DropStore, ChosenKept, UnderWay,
       RestoreInv, TypeOK, JournalSound, JobSound, OpenedSound, QuietSound,
       ReplacingSound, RecoverySound
<1>2. TypeOK' /\ JournalSound' /\ Shape' /\ QuietSound'
  BY TheBudgetFolder, ValuesDistinct DEF DropStore, UnderWay, RestoreInv,
       TypeOK, JournalSound, Shape, JobSound, OpenedSound, QuietSound,
       ReplacingSound, RecoverySound
<1>3. ReplacingSound' /\ RecoverySound'
  BY TheBudgetFolder, SameFolders, ValuesDistinct DEF DropStore, Conflict,
       UnderWay, RestoreInv, TypeOK, JournalSound, Shape, JobSound,
       OpenedSound, QuietSound, ReplacingSound, RecoverySound
<1>4. Stands
  BY SameState, TheBudgetFolder, ValuesDistinct DEF DropStore, Stands,
       StandingBudget, StandingStore, RestoreInv, TypeOK, JournalSound, Shape,
       JobSound, OpenedSound, QuietSound, ReplacingSound, RecoverySound
<1>5. SafetySound'
  BY <1>4, SafetyStays DEF DropStore, Stands, SafetySound, UnderWay,
       RestoreInv, JobSound, QuietSound, ReplacingSound, RecoverySound
<1> QED BY <1>1, <1>2, <1>3, <1>4, <1>5 DEF RestoreInv

(* The store goes back from previous/ to the live place. *)
LEMMA PutStoreBackSound ==
  ASSUME RestoreInv, PutStoreBack
  PROVE  RestoreInv' /\ Stands
<1>1. JobSound' /\ OpenedSound' /\ ChosenKept'
  BY ValuesDistinct, TheBudgetFolder DEF PutStoreBack, ChosenKept, UnderWay,
       RestoreInv, TypeOK, JournalSound, JobSound, OpenedSound, QuietSound,
       ReplacingSound, RecoverySound
<1>2. TypeOK' /\ JournalSound' /\ Shape' /\ QuietSound'
  BY TheBudgetFolder, ValuesDistinct DEF PutStoreBack, UnderWay, RestoreInv,
       TypeOK, JournalSound, Shape, JobSound, OpenedSound, QuietSound,
       ReplacingSound, RecoverySound
<1>3. ReplacingSound' /\ RecoverySound'
  BY TheBudgetFolder, SameFolders, ValuesDistinct DEF PutStoreBack, Conflict,
       UnderWay, RestoreInv, TypeOK, JournalSound, Shape, JobSound,
       OpenedSound, QuietSound, ReplacingSound, RecoverySound
<1>4. Stands
  BY SameState, TheBudgetFolder, ValuesDistinct DEF PutStoreBack, Stands,
       StandingBudget, StandingStore, RestoreInv, TypeOK, JournalSound, Shape,
       JobSound, OpenedSound, QuietSound, ReplacingSound, RecoverySound
<1>5. SafetySound'
  BY <1>4, SafetyStays DEF PutStoreBack, Stands, SafetySound, UnderWay,
       RestoreInv, JobSound, QuietSound, ReplacingSound, RecoverySound
<1> QED BY <1>1, <1>2, <1>3, <1>4, <1>5 DEF RestoreInv

(* What is left of .ayq-restore may go in any order: nothing of it is what *)
(* stands.                                                                 *)
LEMMA ClearPartSound ==
  ASSUME RestoreInv, ClearPart
  PROVE  RestoreInv' /\ Stands
<1>1. JobSound' /\ OpenedSound' /\ ChosenKept'
  BY ValuesDistinct, TheBudgetFolder DEF ClearPart, ChosenKept, UnderWay,
       RestoreInv, TypeOK, JournalSound, JobSound, OpenedSound, QuietSound,
       ReplacingSound, RecoverySound
<1>2. TypeOK' /\ JournalSound' /\ Shape' /\ QuietSound'
  BY TheBudgetFolder, ValuesDistinct DEF ClearPart, UnderWay, RestoreInv,
       TypeOK, JournalSound, Shape, JobSound, OpenedSound, QuietSound,
       ReplacingSound, RecoverySound
<1>3. ReplacingSound' /\ RecoverySound'
  BY TheBudgetFolder, SameFolders, ValuesDistinct DEF ClearPart, Conflict,
       UnderWay, RestoreInv, TypeOK, JournalSound, Shape, JobSound,
       OpenedSound, QuietSound, ReplacingSound, RecoverySound
<1>4. Stands
  BY SameState, TheBudgetFolder, ValuesDistinct DEF ClearPart, Stands,
       StandingBudget, StandingStore, RestoreInv, TypeOK, JournalSound, Shape,
       JobSound, OpenedSound, QuietSound, ReplacingSound, RecoverySound
<1>5. SafetySound'
  BY <1>4, SafetyStays DEF ClearPart, Stands, SafetySound, UnderWay,
       RestoreInv, JobSound, QuietSound, ReplacingSound, RecoverySound
<1> QED BY <1>1, <1>2, <1>3, <1>4, <1>5 DEF RestoreInv

(* With .ayq-restore gone the recovery returns to where it was called. *)
LEMMA ClearSound ==
  ASSUME RestoreInv, Clear
  PROVE  RestoreInv' /\ Stands
<1>1. JobSound' /\ OpenedSound' /\ ChosenKept'
  BY ValuesDistinct, TheBudgetFolder DEF Clear, Return, ChosenKept, UnderWay,
       RestoreInv, TypeOK, JournalSound, JobSound, OpenedSound, QuietSound,
       ReplacingSound, RecoverySound
<1>2. TypeOK' /\ JournalSound' /\ Shape' /\ QuietSound'
  <2>1. TypeOK' /\ JournalSound'
    BY TheBudgetFolder, ValuesDistinct DEF Clear, Return, RestoreInv, TypeOK,
         JournalSound
  <2>2. Untouched'
    BY ValuesDistinct DEF Clear, RestoreInv, QuietSound
  <2>3. pc' \in {"due", "stage", "reopen"}
    BY DEF Clear, Return
  <2>4. back' = back /\ storeFile' = storeFile
    BY DEF Clear, Return
  <2>5. QuietSound'
    BY <2>2, <2>3, <2>4 DEF QuietSound
  <2> QED BY <2>1, <2>2, <2>5 DEF Shape
<1>3. ReplacingSound' /\ RecoverySound'
  BY TheBudgetFolder, SameFolders, ValuesDistinct DEF Clear, Return, Conflict,
       UnderWay, RestoreInv, TypeOK, JournalSound, Shape, JobSound,
       OpenedSound, QuietSound, ReplacingSound, RecoverySound
<1>4. Stands
  BY SameState, TheBudgetFolder, ValuesDistinct DEF Clear, Return, Stands,
       StandingBudget, StandingStore, RestoreInv, TypeOK, JournalSound, Shape,
       JobSound, OpenedSound, QuietSound, ReplacingSound, RecoverySound
<1>5. SafetySound'
  BY <1>4, SafetyStays DEF Clear, Return, Stands, SafetySound, UnderWay,
       RestoreInv, JobSound, QuietSound, ReplacingSound, RecoverySound
<1> QED BY <1>1, <1>2, <1>3, <1>4, <1>5 DEF RestoreInv

(* A failure the code undoes moves nothing by itself, and leads to a       *)
(* recovery or an end.                                                     *)
LEMMA FailSound ==
  ASSUME RestoreInv, Faults \cap Unhandled = {}, Fail
  PROVE  RestoreInv' /\ Stands
<1>1. JobSound' /\ OpenedSound' /\ ChosenKept'
  BY ValuesDistinct, TheBudgetFolder DEF Fail, Return, Unhandled, ChosenKept,
       UnderWay, RestoreInv, TypeOK, JournalSound, JobSound, OpenedSound,
       QuietSound, ReplacingSound, RecoverySound
<1>2. TypeOK' /\ JournalSound' /\ Shape' /\ QuietSound'
  BY TheBudgetFolder, ValuesDistinct DEF Fail, Return, Unhandled, UnderWay,
       RestoreInv, TypeOK, JournalSound, Shape, JobSound, OpenedSound,
       QuietSound, ReplacingSound, RecoverySound
<1>3. ReplacingSound' /\ RecoverySound'
  BY TheBudgetFolder, SameFolders, ValuesDistinct DEF Fail, Return, Unhandled,
       Conflict, UnderWay, RestoreInv, TypeOK, JournalSound, Shape, JobSound,
       OpenedSound, QuietSound, ReplacingSound, RecoverySound
<1>4. Stands
  BY SameState, TheBudgetFolder, ValuesDistinct DEF Fail, Return, Unhandled,
       Stands, StandingBudget, StandingStore, RestoreInv, TypeOK,
       JournalSound, Shape, JobSound, OpenedSound, QuietSound, ReplacingSound,
       RecoverySound
<1>5. SafetySound'
  BY <1>4, SafetyStays DEF Fail, Return, Unhandled, Stands, SafetySound,
       UnderWay, RestoreInv, JobSound, QuietSound, ReplacingSound,
       RecoverySound
<1> QED BY <1>1, <1>2, <1>3, <1>4, <1>5 DEF RestoreInv

(* Wherever the process dies, the disk is in a shape the next start can    *)
(* read.                                                                   *)
LEMMA CrashSound ==
  ASSUME RestoreInv, Crash
  PROVE  RestoreInv' /\ Stands
<1>1. JobSound' /\ OpenedSound' /\ ChosenKept'
  BY ValuesDistinct, TheBudgetFolder DEF Crash, ChosenKept, UnderWay,
       RestoreInv, TypeOK, JournalSound, JobSound, OpenedSound, QuietSound,
       ReplacingSound, RecoverySound
<1>2. TypeOK' /\ JournalSound' /\ Shape' /\ QuietSound'
  BY TheBudgetFolder, ValuesDistinct DEF Crash, UnderWay, RestoreInv, TypeOK,
       JournalSound, Shape, JobSound, OpenedSound, QuietSound, ReplacingSound,
       RecoverySound
<1>3. ReplacingSound' /\ RecoverySound'
  BY TheBudgetFolder, SameFolders, ValuesDistinct DEF Crash, Conflict,
       UnderWay, RestoreInv, TypeOK, JournalSound, Shape, JobSound,
       OpenedSound, QuietSound, ReplacingSound, RecoverySound
<1>4. Stands
  BY SameState, TheBudgetFolder, ValuesDistinct DEF Crash, Stands,
       StandingBudget, StandingStore, RestoreInv, TypeOK, JournalSound, Shape,
       JobSound, OpenedSound, QuietSound, ReplacingSound, RecoverySound
<1>5. SafetySound'
  BY <1>4, SafetyStays DEF Crash, Stands, SafetySound, UnderWay, RestoreInv,
       JobSound, QuietSound, ReplacingSound, RecoverySound
<1> QED BY <1>1, <1>2, <1>3, <1>4, <1>5 DEF RestoreInv

(* A backup that rots keeps its place, and what it was a backup of. *)
LEMMA DamageSound ==
  ASSUME RestoreInv, NEW s \in sets, Damage(s)
  PROVE  RestoreInv' /\ Stands
<1> DEFINE t == [s EXCEPT !.damaged = TRUE]
<1>1. /\ s \in Backup /\ t \in Backup /\ t.id = s.id /\ t.trigger = s.trigger
      /\ t.budget = s.budget /\ t.store = s.store
  BY DEF RestoreInv, TypeOK
<1>2. sets' = (sets \ {s}) \cup {t}
  BY DEF Damage
<1> HIDE DEF t
<1>3. UNCHANGED <<folder, storeFile, restoring, opened, engine, pc, req>>
  BY DEF Damage
<1>4. Stands
  BY <1>3, SameState
<1>5. TypeOK'
  BY <1>1, <1>2, <1>3 DEF RestoreInv, TypeOK
<1>6. ChosenKept'
  BY <1>1, <1>2, <1>3 DEF RestoreInv, ChosenKept
<1>7. SafetySound'
  BY <1>1, <1>2, <1>3, <1>4 DEF RestoreInv, SafetySound, SafetyKept, Stands
<1>8. BudgetFolder' = BudgetFolder
  BY <1>3, SameFolders
<1>9. JournalSound' /\ Shape' /\ JobSound' /\ OpenedSound' /\ QuietSound'
  BY <1>3 DEF RestoreInv, JournalSound, Shape, JobSound, OpenedSound, QuietSound, UnderWay
<1>10. ReplacingSound' /\ RecoverySound'
  BY <1>3, <1>8 DEF RestoreInv, ReplacingSound, RecoverySound, Conflict
<1> QED BY <1>4, <1>5, <1>6, <1>7, <1>9, <1>10 DEF RestoreInv

-----------------------------------------------------------------------------
(* A first launch is sound. *)
LEMMA InitSound ==
  ASSUME Init
  PROVE  RestoreInv
<1>1. TypeOK
  <2>1. ASSUME NEW f \in Folders
        PROVE  [id |-> 0, trigger |-> "copied", folder |-> f, budget |-> Elsewhere,
                store |-> Elsewhere, damaged |-> FALSE] \in Backup
    BY BoundsNat
  <2>2. sets \subseteq Backup
    BY <2>1 DEF Init
  <2> QED BY <2>2 DEF Init, TypeOK
<1>2. Untouched
  BY ValuesDistinct DEF Init
<1>3. /\ pc = "look" /\ back = "started" /\ job = "start" /\ opened = Absent
      /\ journal = Absent /\ chosen = Absent /\ UnderWay = {}
      /\ inBudget = Absent /\ inStore = Absent /\ prevBudget = Absent /\ prevStore = Absent
  BY DEF Init, UnderWay
<1> QED BY <1>1, <1>2, <1>3
        DEF RestoreInv, JournalSound, Shape, ChosenKept, JobSound, OpenedSound,
            QuietSound, SafetySound, ReplacingSound, RecoverySound

(* Nothing changes when nothing happens. *)
LEMMA StutterSound ==
  ASSUME RestoreInv, UNCHANGED vars
  PROVE  RestoreInv' /\ Stands
<1>1. Stands /\ BudgetFolder' = BudgetFolder
  BY SameState, SameFolders DEF vars
<1> QED BY <1>1
        DEF vars, RestoreInv, TypeOK, JournalSound, Shape, ChosenKept, JobSound,
            OpenedSound, QuietSound, SafetySound, SafetyKept, ReplacingSound,
            RecoverySound, UnderWay, Conflict, Stands

(* The steps that change the state that stands. *)
Moves ==
  \/ \E r \in Requests : WriteBudget(r) \/ WriteStore(r)
  \/ FinishRestore

(* Every step keeps the invariant, and all but three leave the state that  *)
(* stands as it is.                                                        *)
LEMMA NextSound ==
  ASSUME Faults \cap Unhandled = {}, RestoreInv, [Next]_vars
  PROVE  RestoreInv' /\ (Moves \/ Stands)
<1>1. ASSUME NEW r \in Requests, Request(r)
      PROVE  RestoreInv' /\ (Moves \/ Stands)
  BY <1>1, AskSound, OpenForSound, WriteBudgetSound, WriteStoreSound DEF Request, Moves
<1>2. CASE AskBackup \/ AskRestore
  BY <1>2, AskBackupSound, AskRestoreSound
<1>3. CASE Create \/ Drained \/ Check \/ Pause \/ Due \/ Capture \/ Prune \/ Reopen
  BY <1>3, CreateSound, DrainedSound, CheckSound, PauseSound, DueSound,
     CaptureSound, PruneSound, ReopenSound
<1>4. CASE Replacement
  BY <1>4, StageSound, CopyBudgetSound, CopyStoreSound, WriteJournalSound,
     AsideBudgetSound, AsideStoreSound, BudgetInSound, StoreInSound,
     OpenRestoredSound, FinishRestoreSound DEF Replacement, Moves
<1>5. CASE Recovery
  BY <1>5, LookSound, DropIncomingPartSound, DropIncomingSound,
     DropLiveSound, PutBudgetBackSound, DropStoreSound, PutStoreBackSound,
     ClearPartSound, ClearSound DEF Recovery
<1>6. CASE Fail \/ Crash
  BY <1>6, FailSound, CrashSound
<1>7. ASSUME NEW s \in sets, Damage(s)
      PROVE  RestoreInv' /\ (Moves \/ Stands)
  BY <1>7, DamageSound
<1>8. CASE UNCHANGED vars
  BY <1>8, StutterSound
<1> QED BY <1>1, <1>2, <1>3, <1>4, <1>5, <1>6, <1>7, <1>8 DEF Next, Exclusive

(* Whatever happens, the files stay in one of the shapes a recovery can    *)
(* read, and everything on disk keeps its type.                            *)
THEOREM RestoreInvariant ==
  ASSUME Faults \cap Unhandled = {}
  PROVE  Spec => []RestoreInv
<1>1. Init => RestoreInv
  BY InitSound
<1>2. RestoreInv /\ [Next]_vars => RestoreInv'
  BY NextSound
<1> QED BY <1>1, <1>2, PTL DEF Spec

(* TypeOK: every place on disk holds only what it may: under previous/ and  *)
(* in the live store there is never a torn or foreign half.                *)
THEOREM RestoreTypes ==
  ASSUME Faults \cap Unhandled = {}
  PROVE  Spec => []TypeOK
<1>1. RestoreInv => TypeOK
  BY DEF RestoreInv
<1> QED BY <1>1, RestoreInvariant, PTL

(* ServedStateStands: while requests are served, what they work on is what  *)
(* the next start of AYQ opens.                                            *)
THEOREM RestoreServesWhatStands ==
  ASSUME Faults \cap Unhandled = {}
  PROVE  Spec => []ServedStateStands
<1>1. ASSUME RestoreInv
      PROVE  ServedStateStands
  <2>1. ASSUME pc \in {"idle", "drain"}, opened # Absent
        PROVE  BudgetFolders = {opened} /\ folder[opened] = StandingBudget
                 /\ Content(storeFile) = StandingStore
    <3>1. Untouched /\ opened \in BudgetFolders
      BY <1>1, <2>1 DEF RestoreInv, QuietSound, OpenedSound
    <3>2. BudgetFolders = {opened} /\ BudgetFolder = opened
      BY <3>1, TheBudgetFolder
    <3>3. journal # Absent => journal.liveStore
      BY <1>1 DEF RestoreInv, JournalSound
    <3> QED BY <3>1, <3>2, <3>3 DEF StandingBudget, StandingStore
  <2> QED BY <2>1 DEF ServedStateStands
<1> QED BY <1>1, RestoreInvariant, PTL


-----------------------------------------------------------------------------
(* Backups: what a step may do to the set of them, and what it may not.    *)

Lasting(s) == s.trigger # "automatic"

(* Every lasting backup is still there, and nothing new is.                *)
OnlyForgets ==
  /\ \A s \in sets : Lasting(s) =>
       \E t \in sets' : t.id = s.id /\ Lasting(t) /\ Pair(t) = Pair(s)
  /\ \A t \in sets' : \E s \in sets : Pair(t) = Pair(s)

(* One more backup, of the state that stands, with nobody half way.        *)
OneMore ==
  /\ UnderWay = {} /\ Stands
  /\ UNCHANGED req
  /\ \E m \in Backup : /\ sets' = sets \cup {m}
                       /\ Pair(m) = [budget |-> StandingBudget, store |-> StandingStore]

(* Pruning only removes, and only automatic backups. *)
LEMMA PruneForgets ==
  ASSUME RestoreInv, Prune
  PROVE  OnlyForgets
BY DEF Prune, OnlyForgets, Lasting

(* A backup that rots is not removed, and what it was a backup of does not *)
(* change.                                                                 *)
LEMMA DamageForgets ==
  ASSUME RestoreInv, NEW s \in sets, Damage(s)
  PROVE  OnlyForgets
<1> DEFINE t == [s EXCEPT !.damaged = TRUE]
<1>1. t.id = s.id /\ t.trigger = s.trigger /\ Pair(t) = Pair(s)
  BY DEF RestoreInv, TypeOK
<1>2. sets' = (sets \ {s}) \cup {t}
  BY DEF Damage
<1> HIDE DEF t
<1> QED BY <1>1, <1>2 DEF OnlyForgets, Lasting

(* A capture adds one backup, of the state that stands, with nobody half   *)
(* way.                                                                    *)
LEMMA CaptureIsOneMore ==
  ASSUME RestoreInv, Capture
  PROVE  OneMore
<1>1. UnderWay = {} /\ UNCHANGED req
  BY DEF Capture, RestoreInv, JobSound
<1> QED BY <1>1, CaptureMakes, CaptureSound DEF OneMore

(* Only a capture, the pruning and damage change the backups. *)
LEMMA ElsewhereSetsStay ==
  ASSUME Next
  PROVE  UNCHANGED sets \/ Capture \/ Prune \/ \E s \in sets : Damage(s)
<1>1. ASSUME NEW r \in Requests, Request(r)
      PROVE  UNCHANGED sets
  BY <1>1 DEF Request, Ask, OpenFor, WriteBudget, WriteStore, OpenExisting, OpenFails
<1>2. CASE AskBackup \/ AskRestore
  BY <1>2 DEF AskBackup, AskRestore, Take
<1>3. CASE Create \/ Drained \/ Check \/ Pause \/ Due \/ Reopen
  BY <1>3 DEF Create, Drained, Check, Pause, Due, Reopen
<1>4. CASE Replacement
  BY <1>4 DEF Replacement, Stage, CopyBudget, CopyStore, WriteJournal, AsideBudget,
              AsideStore, BudgetIn, StoreIn, OpenRestored, FinishRestore
<1>5. CASE Recovery
  BY <1>5 DEF Recovery, Look, DropPart, Drop, PutBudgetBack, DropStore, PutStoreBack,
              ClearPart, Clear
<1>6. CASE Fail \/ Crash
  BY <1>6 DEF Fail, Crash
<1> QED BY <1>1, <1>2, <1>3, <1>4, <1>5, <1>6 DEF Next, Exclusive

(* What a step can do to the backups. *)
LEMMA SetsStep ==
  ASSUME RestoreInv, [Next]_vars
  PROVE  UNCHANGED sets \/ OneMore \/ (OnlyForgets /\ Stands /\ UNCHANGED req)
<1>1. CASE Capture
  BY <1>1, CaptureIsOneMore
<1>2. CASE Prune
  BY <1>2, PruneForgets, PruneSound DEF Prune
<1>3. ASSUME NEW s \in sets, Damage(s)
      PROVE  OnlyForgets /\ Stands /\ UNCHANGED req
  BY <1>3, DamageForgets, DamageSound DEF Damage
<1> QED BY <1>1, <1>2, <1>3, ElsewhereSetsStay DEF vars

(* A lasting backup survives every step. *)
LEMMA LastingStay ==
  ASSUME RestoreInv, [Next]_vars
  PROVE  \A s \in sets : Lasting(s) =>
           \E t \in sets' : t.id = s.id /\ Lasting(t) /\ Pair(t) = Pair(s)
BY SetsStep DEF OneMore, OnlyForgets

(* KeptForGood: a backup made by hand, before a restore or elsewhere is    *)
(* never removed by anything, and what it holds never changes.             *)
THEOREM RestoreKeepsForGood ==
  ASSUME Faults \cap Unhandled = {}
  PROVE  Spec => KeptForGood
<1> DEFINE Stay == \A s \in sets : s.trigger # "automatic" =>
                     \E t \in sets' : t.id = s.id /\ Pair(t) = Pair(s)
<1>1. RestoreInv /\ [Next]_vars => [Stay]_vars
  BY LastingStay DEF Lasting
<1> HIDE DEF Stay
<1>2. Spec => [][Stay]_vars
  BY <1>1, RestoreInvariant, PTL DEF Spec
<1> QED BY <1>2 DEF Stay, KeptForGood

(* No step changes a folder that is not AYQ's. *)
LEMMA OthersStay ==
  ASSUME RestoreInv, [Next]_vars
  PROVE  \A f \in Folders : folder[f] = Other => folder'[f] = Other
<1>1. ASSUME NEW r \in Requests, Request(r)
      PROVE  \A f \in Folders : folder[f] = Other => folder'[f] = Other
  BY <1>1, ValuesDistinct
     DEF Request, Ask, OpenFor, WriteBudget, WriteStore, OpenExisting, OpenFails,
         RestoreInv, TypeOK, OpenedSound
<1>2. CASE AskBackup \/ AskRestore
  BY <1>2 DEF AskBackup, AskRestore, Take
<1>3. CASE Create \/ Drained \/ Check \/ Pause \/ Due \/ Reopen \/ Capture \/ Prune
  BY <1>3, ValuesDistinct
     DEF Create, Unused, Drained, Check, Pause, Due, Reopen, Capture, Prune,
         OpenExisting, OpenFails, RestoreInv, TypeOK
<1>4. CASE Replacement
  BY <1>4, ValuesDistinct
     DEF Replacement, Stage, CopyBudget, CopyStore, WriteJournal, AsideBudget,
         AsideStore, BudgetIn, StoreIn, OpenRestored, FinishRestore, OpenExisting,
         RestoreInv, TypeOK, ReplacingSound, QuietSound
<1>5. CASE Recovery
  BY <1>5, ValuesDistinct
     DEF Recovery, Look, DropPart, Drop, PutBudgetBack, DropStore, PutStoreBack,
         ClearPart, Clear, RestoreInv, TypeOK, RecoverySound
<1>6. CASE Fail \/ Crash \/ (\E s \in sets : Damage(s)) \/ UNCHANGED vars
  BY <1>6 DEF Fail, Crash, Damage, vars
<1> QED BY <1>1, <1>2, <1>3, <1>4, <1>5, <1>6 DEF Next, Exclusive

(* OthersUntouched: a folder in the data directory that is not AYQ's is     *)
(* left alone by every backup, restore and recovery.                       *)
THEOREM RestoreLeavesOthers ==
  ASSUME Faults \cap Unhandled = {}
  PROVE  Spec => OthersUntouched
<1> DEFINE Stay == \A f \in Folders : folder[f] = Other => folder'[f] = Other
<1>1. RestoreInv /\ [Next]_vars => [Stay]_vars
  BY OthersStay
<1> HIDE DEF Stay
<1>2. Spec => [][Stay]_vars
  BY <1>1, RestoreInvariant, PTL DEF Spec
<1> QED BY <1>2 DEF Stay, OthersUntouched


-----------------------------------------------------------------------------
(* Answered work: what it takes for none of it to be lost.                 *)

AnswersInv == HalvesMatch /\ BackupIsOneMoment /\ NothingLost

(* Only a request's own steps and a crash change where a request stands. *)
LEMMA RequestsStay ==
  ASSUME [Next]_vars
  PROVE  UNCHANGED req \/ Crash \/ \E r \in Requests : Request(r)
<1>1. CASE AskBackup \/ AskRestore
  BY <1>1 DEF AskBackup, AskRestore, Take
<1>2. CASE Create \/ Drained \/ Check \/ Pause \/ Due \/ Reopen \/ Capture \/ Prune
  BY <1>2 DEF Create, Drained, Check, Pause, Due, Reopen, Capture, Prune
<1>3. CASE Replacement
  BY <1>3 DEF Replacement, Stage, CopyBudget, CopyStore, WriteJournal, AsideBudget,
              AsideStore, BudgetIn, StoreIn, OpenRestored, FinishRestore
<1>4. CASE Recovery
  BY <1>4 DEF Recovery, Look, DropPart, Drop, PutBudgetBack, DropStore, PutStoreBack,
              ClearPart, Clear
<1>5. CASE Fail \/ (\E s \in sets : Damage(s)) \/ UNCHANGED vars
  BY <1>5 DEF Fail, Damage, vars
<1> QED BY <1>1, <1>2, <1>3, <1>4, <1>5 DEF Next, Exclusive

(* A step that leaves the state that stands alone, and starts or answers   *)
(* no request's writing.                                                   *)
LEMMA AnswersStand ==
  ASSUME RestoreInv, AnswersInv, [Next]_vars, Stands,
         \A r \in Requests : \/ req'[r] = req[r]
                             \/ req[r] # "killed" /\ req'[r] \notin {"budget", "answered"}
                                  /\ (req[r] = "budget" => req'[r] = "killed")
  PROVE  AnswersInv'
<1>1. HalvesMatch'
  BY DEF AnswersInv, HalvesMatch, Stands
<1>2. NothingLost'
  BY LastingStay DEF AnswersInv, NothingLost, Stands, Lasting
<1>3. BackupIsOneMoment'
  <2>1. CASE UNCHANGED sets
    BY <2>1 DEF AnswersInv, BackupIsOneMoment
  <2>2. CASE OnlyForgets
    BY <2>2 DEF AnswersInv, BackupIsOneMoment, OnlyForgets
  <2>3. CASE OneMore
    <3>1. PICK m \in Backup : /\ sets' = sets \cup {m}
                              /\ m.budget = StandingBudget /\ m.store = StandingStore
      BY <2>3 DEF OneMore
    <3>2. ASSUME NEW r \in Requests, r \in StandingBudget, r \notin StandingStore
          PROVE  req[r] = "killed"
      BY <2>3, <3>2 DEF AnswersInv, HalvesMatch, OneMore, UnderWay
    <3> QED BY <3>1, <3>2 DEF AnswersInv, BackupIsOneMoment
  <2> QED BY <2>1, <2>2, <2>3, SetsStep
<1> QED BY <1>1, <1>2, <1>3 DEF AnswersInv

(* Every step keeps the answers. *)
LEMMA AnswersStep ==
  ASSUME Faults \cap Unhandled = {}, RestoreInv, AnswersInv, [Next]_vars
  PROVE  AnswersInv'
<1>1. ASSUME NEW r \in Requests, WriteBudget(r)
      PROVE  AnswersInv'
  <2>1. UNCHANGED sets /\ req[r] = "asked" /\ req' = [req EXCEPT ![r] = "budget"]
    BY <1>1 DEF WriteBudget
  <2>2. StandingBudget' = StandingBudget \cup {r} /\ StandingStore' = StandingStore
    BY <1>1, WriteBudgetSound
  <2> QED BY <2>1, <2>2
          DEF AnswersInv, HalvesMatch, BackupIsOneMoment, NothingLost, RestoreInv, TypeOK
<1>2. ASSUME NEW r \in Requests, WriteStore(r)
      PROVE  AnswersInv'
  <2>1. UNCHANGED sets /\ req[r] = "budget" /\ req' = [req EXCEPT ![r] = "answered"]
    BY <1>2 DEF WriteStore
  <2>2. StandingStore' = StandingStore \cup {r} /\ StandingBudget' = StandingBudget
    BY <1>2, WriteStoreSound
  <2> QED BY <2>1, <2>2
          DEF AnswersInv, HalvesMatch, BackupIsOneMoment, NothingLost, RestoreInv, TypeOK
<1>3. CASE FinishRestore
  <2>1. UNCHANGED <<sets, req>> /\ UnderWay = {} /\ SafetyKept /\ chosen # Absent
    BY <1>3 DEF FinishRestore, RestoreInv, JobSound, SafetySound
  <2>2. StandingBudget' = chosen.budget /\ StandingStore' = chosen.store
    BY <1>3, FinishRestoreSound
  <2>3. PICK s \in sets : s.budget = chosen.budget /\ s.store = chosen.store
    BY <2>1 DEF RestoreInv, ChosenKept
  <2>4. BackupIsOneMoment'
    BY <2>1 DEF AnswersInv, BackupIsOneMoment
  <2>5. HalvesMatch'
    BY <2>1, <2>2, <2>3 DEF AnswersInv, BackupIsOneMoment, HalvesMatch, UnderWay
  <2>6. NothingLost'
    BY <2>1 DEF AnswersInv, NothingLost, SafetyKept
  <2> QED BY <2>4, <2>5, <2>6 DEF AnswersInv
<1>4. ASSUME NEW r \in Requests, Ask(r) \/ OpenFor(r)
      PROVE  AnswersInv'
  <2>1. Stands
    BY <1>4, AskSound, OpenForSound
  <2>2. \A q \in Requests : req'[q] = req[q] \/ (q = r /\ req[r] \in {"new", "asked"}
                                                 /\ req'[r] \in {"asked", "failed"})
    BY <1>4 DEF Ask, OpenFor, RestoreInv, TypeOK
  <2> QED BY <2>1, <2>2, AnswersStand
<1>5. CASE Crash
  <2>1. \A r \in Requests : req'[r] = IF r \in UnderWay THEN "killed" ELSE req[r]
    BY <1>5 DEF Crash
  <2>2. Stands
    BY <1>5, CrashSound
  <2> QED BY <2>1, <2>2, AnswersStand DEF UnderWay
<1>6. CASE Stands /\ UNCHANGED req
  BY <1>6, AnswersStand
<1> QED BY <1>1, <1>2, <1>3, <1>4, <1>5, <1>6, NextSound, RequestsStay DEF Moves, Request

(* At first nothing was answered. *)
LEMMA AnswersInit ==
  ASSUME Init
  PROVE  AnswersInv
<1>1. StandingBudget = {} /\ StandingStore = {}
  <2>1. BudgetFolders = {} /\ journal = Absent /\ storeFile = Absent
    BY ValuesDistinct DEF Init
  <2> QED BY <2>1 DEF StandingBudget, StandingStore
<1>2. BackupIsOneMoment
  BY DEF Init, BackupIsOneMoment
<1> QED BY <1>1, <1>2 DEF AnswersInv, HalvesMatch, NothingLost, Init

(* What was answered is in what stands or in a lasting backup, and no half *)
(* of it is alone.                                                         *)
THEOREM RestoreAnswers ==
  ASSUME Faults \cap Unhandled = {}
  PROVE  Spec => []AnswersInv
<1>1. RestoreInv /\ AnswersInv /\ [Next]_vars => AnswersInv'
  BY AnswersStep
<1> QED BY <1>1, AnswersInit, RestoreInvariant, PTL DEF Spec

(* NothingLost: work that was answered is in the state that stands, or in  *)
(* a backup that nothing removes, whatever was restored since.             *)
THEOREM RestoreLosesNothing ==
  ASSUME Faults \cap Unhandled = {}
  PROVE  Spec => []NothingLost
<1>1. AnswersInv => NothingLost
  BY DEF AnswersInv
<1> QED BY <1>1, RestoreAnswers, PTL

(* BackupIsOneMoment: no backup holds the budget of one moment and the     *)
(* store of another, though a request writes one after the other.          *)
THEOREM RestoreBacksUpOneMoment ==
  ASSUME Faults \cap Unhandled = {}
  PROVE  Spec => []BackupIsOneMoment
<1>1. AnswersInv => BackupIsOneMoment
  BY DEF AnswersInv
<1> QED BY <1>1, RestoreAnswers, PTL


-----------------------------------------------------------------------------
(* Backup and restore implement the promise of AyqOneState.                *)

(* A first launch is an empty state. *)
LEMMA OneStateInit ==
  ASSUME Init
  PROVE  OneState!OInit
<1>1. StandingBudget = {} /\ StandingStore = {}
  BY AnswersInit, ValuesDistinct DEF Init, StandingBudget, StandingStore
<1>2. \A s \in sets : s.budget = Elsewhere /\ s.store = Elsewhere
  BY DEF Init
<1> QED BY <1>1, <1>2 DEF OneState!OInit

(* Every step is work on the state, a backup more or less, all of a backup *)
(* in its place, or nothing.                                               *)
LEMMA OneStateStep ==
  ASSUME Faults \cap Unhandled = {}, RestoreInv, [Next]_vars
  PROVE  [OneState!ONext]_(OneState!one_vars)
<1> DEFINE held == {Pair(s) : s \in sets}
<1>1. ASSUME NEW r \in Requests, WriteBudget(r)
      PROVE  OneState!WorkOnBudget(r)
  BY <1>1, WriteBudgetSound DEF WriteBudget, OneState!WorkOnBudget
<1>2. ASSUME NEW r \in Requests, WriteStore(r)
      PROVE  OneState!WorkOnStore(r)
  BY <1>2, WriteStoreSound DEF WriteStore, OneState!WorkOnStore
<1>3. CASE FinishRestore
  <2>1. UNCHANGED sets /\ SafetyKept /\ chosen # Absent
    BY <1>3 DEF FinishRestore, RestoreInv, JobSound, SafetySound
  <2>2. StandingBudget' = chosen.budget /\ StandingStore' = chosen.store
    BY <1>3, FinishRestoreSound
  <2>3. PICK s \in sets : Pair(s) = Pair(chosen)
    BY <2>1 DEF RestoreInv, ChosenKept
  <2>4. OneState!State \in held
    BY <2>1 DEF SafetyKept, OneState!State
  <2>5. OneState!Replace(Pair(s))
    BY <2>1, <2>2, <2>3, <2>4 DEF OneState!Replace
  <2> QED BY <2>5 DEF OneState!ONext
<1>4. CASE OneMore
  <2>1. held' = held \cup {OneState!State}
    BY <1>4 DEF OneMore, OneState!State
  <2>2. OneState!Keep
    BY <1>4, <2>1 DEF OneMore, Stands, OneState!Keep
  <2> QED BY <2>2 DEF OneState!ONext
<1>5. CASE OnlyForgets /\ Stands
  <2>1. ASSUME NEW p \in held'
        PROVE  p \in held
    <3>1. PICK t \in sets' : p = Pair(t)
      OBVIOUS
    <3>2. PICK s \in sets : Pair(t) = Pair(s)
      BY <1>5 DEF OnlyForgets
    <3> QED BY <3>1, <3>2
  <2>2. OneState!Drop
    BY <1>5, <2>1 DEF Stands, OneState!Drop
  <2> QED BY <2>2 DEF OneState!ONext
<1>6. CASE UNCHANGED sets /\ Stands
  BY <1>6 DEF Stands, OneState!one_vars
<1>7. Requests \subseteq Work
  OBVIOUS
<1> QED BY <1>1, <1>2, <1>3, <1>4, <1>5, <1>6, <1>7, SetsStep, NextSound
        DEF Moves, OneState!ONext

(* OneStateSpec: whatever moves on disk, and wherever the process dies, AYQ *)
(* has one state, which changes by work on it or is replaced whole - and   *)
(* only when it is itself among the backups.                               *)
THEOREM RestoreImplementsOneState ==
  ASSUME Faults \cap Unhandled = {}
  PROVE  Spec => OneStateSpec
<1>1. RestoreInv /\ [Next]_vars => [OneState!ONext]_(OneState!one_vars)
  BY OneStateStep
<1> QED BY <1>1, OneStateInit, RestoreInvariant, PTL DEF Spec, OneStateSpec, OneState!OSpec


-----------------------------------------------------------------------------
(* Nothing that is removed is the only copy.                               *)

(* A step other than a request's writes copies only what was there.        *)
NoNewWork ==
  \A w \in Work :
    /\ InSomeBudget(w)' => InSomeBudget(w) \/ w \in StandingBudget'
    /\ InSomeStore(w)' => InSomeStore(w) \/ w \in StandingStore'

(* What lasts is somewhere on disk. *)
LEMMA LastingAreThere ==
  ASSUME TypeOK'
  PROVE  \A w \in Work : /\ InLastingBudget(w)' => InSomeBudget(w)'
                         /\ InLastingStore(w)' => InSomeStore(w)'
<1>1. ASSUME NEW w \in StandingBudget'
      PROVE  \/ \E f \in BudgetFolders' : w \in folder'[f]
             \/ prevBudget' \notin {Absent, Torn} /\ w \in prevBudget'
  BY <1>1, TheBudgetFolder, ValuesDistinct DEF StandingBudget, TypeOK
<1>2. ASSUME NEW w \in StandingStore'
      PROVE  \/ storeFile' \notin {Absent, Torn} /\ w \in storeFile'
             \/ prevStore' \notin {Absent, Torn} /\ w \in prevStore'
  BY <1>2, ValuesDistinct DEF StandingStore, TypeOK
<1> QED BY <1>1, <1>2 DEF InLastingBudget, InLastingStore, InSomeBudget, InSomeStore

(* What lasts goes on lasting: only a restore changes what stands          *)
(* otherwise, and its safety backup lasts.                                 *)
LEMMA LastingLasts ==
  ASSUME Faults \cap Unhandled = {}, RestoreInv, [Next]_vars
  PROVE  \A w \in Work : /\ InLastingBudget(w) => InLastingBudget(w)'
                         /\ InLastingStore(w) => InLastingStore(w)'
<1>1. \A w \in Work :
        /\ w \in StandingBudget => InLastingBudget(w)'
        /\ w \in StandingStore => InLastingStore(w)'
  <2>1. ASSUME NEW r \in Requests, WriteBudget(r) \/ WriteStore(r)
        PROVE  StandingBudget \subseteq StandingBudget' /\ StandingStore \subseteq StandingStore'
    BY <2>1, WriteBudgetSound, WriteStoreSound
  <2>2. CASE FinishRestore
    <3>1. UNCHANGED sets /\ SafetyKept
      BY <2>2 DEF FinishRestore, RestoreInv, SafetySound
    <3> QED BY <3>1 DEF SafetyKept, InLastingBudget, InLastingStore
  <2>3. CASE Stands
    BY <2>3 DEF Stands, InLastingBudget, InLastingStore
  <2> QED BY <2>1, <2>2, <2>3, NextSound DEF Moves, InLastingBudget, InLastingStore
<1> QED BY <1>1, LastingStay DEF Lasting, InLastingBudget, InLastingStore

(* Every copy on disk is made from another copy, or by a request. *)
LEMMA CopiesOfCopies ==
  ASSUME Faults \cap Unhandled = {}, RestoreInv, [Next]_vars
  PROVE  NoNewWork
<1>1. ASSUME NEW r \in Requests, Request(r)
      PROVE  NoNewWork
  <2>1. CASE Ask(r) \/ OpenFor(r)
    BY <2>1, ValuesDistinct
       DEF Ask, OpenFor, OpenExisting, OpenFails, NoNewWork, InSomeBudget, InSomeStore
  <2>2. CASE WriteBudget(r)
    <3>1. opened \in BudgetFolders /\ r \in StandingBudget'
      BY <2>2, WriteBudgetSound DEF WriteBudget, RestoreInv, OpenedSound
    <3>2. \A f \in BudgetFolders' : f \in BudgetFolders
            /\ \A w \in folder'[f] : w \in folder[f] \/ w = r
      BY <2>2, <3>1 DEF WriteBudget, RestoreInv, TypeOK
    <3> QED BY <2>2, <3>1, <3>2 DEF WriteBudget, NoNewWork, InSomeBudget, InSomeStore
  <2>3. CASE WriteStore(r)
    <3>1. r \in StandingStore'
      BY <2>3, WriteStoreSound
    <3>2. \A w \in storeFile' : w = r \/ (storeFile \notin {Absent, Torn} /\ w \in storeFile)
      BY <2>3, ValuesDistinct DEF WriteStore, RestoreInv, TypeOK
    <3> QED BY <2>3, <3>1, <3>2 DEF WriteStore, NoNewWork, InSomeBudget, InSomeStore
  <2> QED BY <1>1, <2>1, <2>2, <2>3 DEF Request
<1>2. CASE AskBackup \/ AskRestore
  BY <1>2 DEF AskBackup, AskRestore, Take, NoNewWork, InSomeBudget, InSomeStore
<1>3. CASE Create
  <2>1. \A f \in BudgetFolders' : folder'[f] = {} \/ (f \in BudgetFolders /\ folder'[f] = folder[f])
    <3>1. PICK f \in Unused : folder' = [folder EXCEPT ![f] = {}]
      BY <1>3 DEF Create
    <3>2. \A g \in Folders : folder'[g] = IF g = f THEN {} ELSE folder[g]
      BY <3>1 DEF RestoreInv, TypeOK
    <3>3. ASSUME NEW g \in BudgetFolders', g # f
          PROVE  g \in BudgetFolders /\ folder'[g] = folder[g]
      BY <3>2, <3>3
    <3>4. folder'[f] = {}
      BY <3>2 DEF Unused
    <3> QED BY <3>3, <3>4
  <2> QED BY <1>3, <2>1 DEF Create, NoNewWork, InSomeBudget, InSomeStore
<1>4. CASE Drained \/ Check \/ Pause \/ Due \/ Reopen
  BY <1>4, ValuesDistinct
     DEF Drained, Check, Pause, Due, Reopen, OpenExisting, OpenFails, NoNewWork,
         InSomeBudget, InSomeStore
<1>5. CASE Capture
  <2>1. UNCHANGED <<folder, storeFile, inBudget, prevBudget, inStore, prevStore>>
    BY <1>5 DEF Capture
  <2>2. \A t \in sets' : t \in sets \/ (t.budget = StandingBudget' /\ t.store = StandingStore')
    BY <1>5, CaptureMakes, CaptureSound DEF Stands
  <2> QED BY <2>1, <2>2 DEF NoNewWork, InSomeBudget, InSomeStore
<1>6. ASSUME Prune \/ \E s \in sets : Damage(s)
      PROVE  NoNewWork
  <2>1. UNCHANGED <<folder, storeFile, inBudget, prevBudget, inStore, prevStore>>
    BY <1>6 DEF Prune, Damage
  <2>2. \A t \in sets' : \E s \in sets : t.budget = s.budget /\ t.store = s.store
    BY <1>6, PruneForgets, DamageForgets DEF OnlyForgets
  <2> QED BY <2>1, <2>2 DEF NoNewWork, InSomeBudget, InSomeStore
<1>7. CASE Replacement
  <2>1. CASE Stage \/ WriteJournal \/ FinishRestore
    BY <2>1 DEF Stage, WriteJournal, FinishRestore, NoNewWork, InSomeBudget, InSomeStore
  <2>2. CASE CopyBudget \/ CopyStore
    <3>1. PICK s \in sets : s.budget = chosen.budget /\ s.store = chosen.store
      BY <2>2 DEF CopyBudget, CopyStore, RestoreInv, JobSound, ChosenKept
    <3> QED BY <2>2, <3>1
            DEF CopyBudget, CopyStore, Copied, NoNewWork, InSomeBudget, InSomeStore
  <2>3. CASE AsideBudget
    BY <2>3, ValuesDistinct
       DEF AsideBudget, RestoreInv, TypeOK, QuietSound, ReplacingSound, NoNewWork,
           InSomeBudget, InSomeStore
  <2>4. CASE AsideStore
    BY <2>4 DEF AsideStore, NoNewWork, InSomeBudget, InSomeStore
  <2>5. CASE BudgetIn
    BY <2>5 DEF BudgetIn, RestoreInv, TypeOK, ReplacingSound, NoNewWork, InSomeBudget,
                InSomeStore
  <2>6. CASE StoreIn
    BY <2>6 DEF StoreIn, NoNewWork, InSomeBudget, InSomeStore
  <2>7. CASE OpenRestored
    BY <2>7, ValuesDistinct DEF OpenRestored, OpenExisting, NoNewWork, InSomeBudget,
                                InSomeStore
  <2> QED BY <1>7, <2>1, <2>2, <2>3, <2>4, <2>5, <2>6, <2>7 DEF Replacement
<1>8. CASE Recovery
  <2>1. CASE Look \/ ClearPart \/ Clear
    BY <2>1 DEF Look, ClearPart, Clear, NoNewWork, InSomeBudget, InSomeStore
  <2>2. CASE \/ DropPart("dropIncoming", Incoming)
             \/ Drop("dropIncoming", Incoming, "dropLive") \/ Drop("dropLive", Live, "putBudget")
    BY <2>2 DEF DropPart, Drop, RestoreInv, TypeOK, NoNewWork, InSomeBudget, InSomeStore
  <2>3. CASE PutBudgetBack
    BY <2>3 DEF PutBudgetBack, RestoreInv, TypeOK, NoNewWork, InSomeBudget, InSomeStore
  <2>4. CASE DropStore \/ PutStoreBack
    BY <2>4 DEF DropStore, PutStoreBack, NoNewWork, InSomeBudget, InSomeStore
  <2> QED BY <1>8, <2>1, <2>2, <2>3, <2>4 DEF Recovery
<1>9. CASE Fail \/ Crash \/ UNCHANGED vars
  BY <1>9 DEF Fail, Crash, vars, NoNewWork, InSomeBudget, InSomeStore
<1> QED BY <1>1, <1>2, <1>3, <1>4, <1>5, <1>6, <1>7, <1>8, <1>9 DEF Next, Exclusive

(* At first the only copies are a lasting backup's. *)
LEMMA CopiesInit ==
  ASSUME Init
  PROVE  CopiesLast
<1>1. BudgetFolders = {} /\ storeFile = Absent
  BY ValuesDistinct DEF Init
<1>2. \A s \in sets : s.trigger # "automatic"
  BY DEF Init
<1>3. inBudget = Absent /\ inStore = Absent /\ prevBudget = Absent /\ prevStore = Absent
  BY DEF Init
<1> QED BY <1>1, <1>2, <1>3
        DEF CopiesLast, InSomeBudget, InSomeStore, InLastingBudget, InLastingStore

(* Every step keeps every copy a copy of something that lasts. *)
LEMMA CopiesStep ==
  ASSUME Faults \cap Unhandled = {}, RestoreInv, CopiesLast, [Next]_vars
  PROVE  CopiesLast'
<1>1. NoNewWork
  BY CopiesOfCopies
<1>2. \A w \in Work : /\ w \in StandingBudget' => InLastingBudget(w)'
                      /\ w \in StandingStore' => InLastingStore(w)'
  BY DEF InLastingBudget, InLastingStore
<1> HIDE DEF Work
<1> QED BY <1>1, <1>2, LastingLasts DEF CopiesLast, NoNewWork

(* RemovesNoOnlyCopy: no step, whatever it removes, takes away the last     *)
(* copy of any work, in a budget or in a store.                            *)
THEOREM RestoreRemovesNoOnlyCopy ==
  ASSUME Faults \cap Unhandled = {}
  PROVE  Spec => RemovesNoOnlyCopy
<1> DEFINE Keeps == \A w \in Work : KeepsACopy(w)
<1>1. RestoreInv /\ CopiesLast /\ [Next]_vars => CopiesLast'
  BY CopiesStep
<1>2. RestoreInv /\ CopiesLast /\ [Next]_vars /\ RestoreInv' => [Keeps]_vars
  <2> HAVE RestoreInv /\ CopiesLast /\ [Next]_vars /\ RestoreInv'
  <2>1. \A w \in Work : /\ InSomeBudget(w) => InLastingBudget(w)'
                        /\ InSomeStore(w) => InLastingStore(w)'
    BY LastingLasts DEF CopiesLast
  <2>2. \A w \in Work : /\ InLastingBudget(w)' => InSomeBudget(w)'
                        /\ InLastingStore(w)' => InSomeStore(w)'
    BY LastingAreThere DEF RestoreInv
  <2> QED BY <2>1, <2>2 DEF KeepsACopy
<1> HIDE DEF Keeps
<1>3. Spec => [][Keeps]_vars
  BY <1>1, <1>2, CopiesInit, RestoreInvariant, PTL DEF Spec
<1> QED BY <1>3 DEF Keeps, RemovesNoOnlyCopy

=============================================================================
