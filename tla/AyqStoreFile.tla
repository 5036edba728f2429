---------------------------- MODULE AyqStoreFile ----------------------------
(* The file AYQ keeps beside the budget: read whole, brought to this         *)
(* version's shape in memory after a copy of it was made, written beside     *)
(* itself and renamed, set aside when it does not parse.  AYQ may die at     *)
(* any moment, a restore may bring an older one, the disk may damage it.     *)
EXTENDS Integers, FiniteSets

CONSTANTS
  Current,      \* AYQ_STORE_VERSION
  Bodies,       \* what a store may hold
  Fresh,        \* what an empty one holds
  MaxStamp,     \* bound: copies with a stamp in their names
  MaxRestores,  \* bound: restores of a backup
  MaxDamage,    \* bound: files damaged outside AYQ
  Missing


VARIABLES
  file,         \* ayq-store.json: Missing, or what is in it
  temporary,    \* ayq-store.json.tmp
  copies,       \* ayq-store.before-v..., as [name, data]
  aside,        \* what is in the ayq-store.damaged-...json
  at,           \* where the read or write under way is
  held,         \* what was read and, brought to this version, is worked on
  target,       \* the name of the copy under way
  stamp,        \* the clock, as far as names of copies tell it
  restores, damages, stuck    \* history: restores; damages; a failed move aside

vars == <<file, temporary, copies, aside, at, held, target, stamp, restores, damages, stuck>>

Store(version, body) == [version |-> version, body |-> body, whole |-> TRUE]
Part(data) == [data EXCEPT !.whole = FALSE]
Stores == [version : 1..Current + 1, body : Bodies, whole : BOOLEAN]

(* Assumed where the module is instantiated. *)
VersionNat == Current \in Nat \ {0} /\ MaxStamp \in Nat
FreshBody == Fresh \in Bodies
NotAStore == Missing \notin Stores
Assumed == VersionNat /\ FreshBody /\ NotAStore

Whole(data) == data # Missing /\ data.whole
Damaged(data) == data # Missing /\ ~data.whole

Init ==
  /\ file \in {Missing} \cup {d \in Stores : d.whole}
  /\ temporary = Missing
  /\ copies = {} /\ aside = {}
  /\ at = "idle"
  /\ held = Missing
  /\ target = <<>>
  /\ stamp = 0
  /\ restores = 0 /\ damages = 0 /\ stuck = FALSE

Copied(name) == {c \in copies : c.name = name}
Plain(version) == <<version, 0>>
Stamped(version) == <<version, stamp + 1>>

-----------------------------------------------------------------------------
(* ayqReadStore *)

Empty == held' = Store(Current, Fresh)

ReadMissing ==
  /\ at = "idle" /\ file = Missing
  /\ Empty /\ at' = "read"
  /\ UNCHANGED <<file, temporary, copies, aside, target, stamp, restores, damages, stuck>>

(* It is moved aside, unless it cannot be, and an empty one read.            *)
ReadDamaged ==
  /\ at = "idle" /\ Damaged(file)
  /\ \/ aside' = aside \cup {file} /\ file' = Missing /\ UNCHANGED stuck
     \/ stuck' = TRUE /\ UNCHANGED <<aside, file>>
  /\ Empty /\ at' = "read"
  /\ UNCHANGED <<temporary, copies, target, stamp, restores, damages>>

ReadCurrent ==
  /\ at = "idle" /\ Whole(file) /\ file.version = Current
  /\ held' = file /\ at' = "read"
  /\ UNCHANGED <<file, temporary, copies, aside, target, stamp, restores, damages, stuck>>

Old == Whole(file) /\ file.version < Current
Kept == \E c \in Copied(Plain(file.version)) : c.data = file

(* Mutant: any file of that name is the copy. *)
ReadKeptAny ==
  /\ at = "idle" /\ Old
  /\ Copied(Plain(file.version)) # {}
  /\ held' = [file EXCEPT !.version = Current] /\ at' = "read"
  /\ UNCHANGED <<file, temporary, copies, aside, target, stamp, restores, damages, stuck>>

ReadKept ==
  /\ at = "idle" /\ Old /\ Kept
  /\ held' = [file EXCEPT !.version = Current] /\ at' = "read"
  /\ UNCHANGED <<file, temporary, copies, aside, target, stamp, restores, damages, stuck>>

(* ayqKeepBeforeMigrating: under the plain name, or beside another store's.  *)
Copy ==
  /\ at = "idle" /\ Old /\ ~Kept
  /\ \/ Copied(Plain(file.version)) = {} /\ target' = Plain(file.version) /\ UNCHANGED stamp
     \/ /\ Copied(Plain(file.version)) # {}
        /\ stamp < MaxStamp
        /\ target' = Stamped(file.version) /\ stamp' = stamp + 1
  /\ copies' = copies \cup {[name |-> target', data |-> Part(file)]}
  /\ at' = "copying"
  /\ UNCHANGED <<file, temporary, aside, held, restores, damages, stuck>>

CopyDone ==
  /\ at = "copying"
  /\ copies' = (copies \ Copied(target)) \cup {[name |-> target, data |-> file]}
  /\ held' = [file EXCEPT !.version = Current] /\ at' = "read"
  /\ target' = <<>>
  /\ UNCHANGED <<file, temporary, aside, stamp, restores, damages, stuck>>

(* What could be copied of it stays where it is; nothing is read.            *)
CopyFails ==
  /\ at = "copying"
  /\ at' = "idle" /\ target' = <<>>
  /\ UNCHANGED <<file, temporary, copies, aside, held, stamp, restores, damages, stuck>>

-----------------------------------------------------------------------------
(* What was read is dropped, or changed and written; ayqWriteStore.          *)
Drop ==
  /\ at = "read"
  /\ at' = "idle" /\ held' = Missing
  /\ UNCHANGED <<file, temporary, copies, aside, target, stamp, restores, damages, stuck>>

Write ==
  /\ at = "read"
  /\ \E body \in Bodies : held' = [held EXCEPT !.body = body]
  /\ temporary' = Part(held')
  /\ at' = "writing"
  /\ UNCHANGED <<file, copies, aside, target, stamp, restores, damages, stuck>>

WriteDone ==
  /\ at = "writing"
  /\ temporary' = held
  /\ at' = "written"
  /\ UNCHANGED <<file, copies, aside, held, target, stamp, restores, damages, stuck>>

Rename ==
  /\ at = "written"
  /\ file' = temporary /\ temporary' = Missing
  /\ at' = "idle" /\ held' = Missing
  /\ UNCHANGED <<copies, aside, target, stamp, restores, damages, stuck>>

-----------------------------------------------------------------------------
(* AYQ dies in the middle of it.                                             *)
Die ==
  /\ at # "idle"
  /\ at' = "idle" /\ held' = Missing /\ target' = <<>>
  /\ UNCHANGED <<file, temporary, copies, aside, stamp, restores, damages, stuck>>

(* ayqReplaceWithBackup puts the store of a backup in the place of this one. *)
Restore ==
  /\ at = "idle" /\ restores < MaxRestores
  /\ restores' = restores + 1
  /\ \E version \in 1..Current, body \in Bodies : file' = Store(version, body)
  /\ UNCHANGED <<temporary, copies, aside, at, held, target, stamp, damages, stuck>>

Damage ==
  /\ at = "idle" /\ Whole(file) /\ damages < MaxDamage
  /\ damages' = damages + 1
  /\ file' = Part(file)
  /\ UNCHANGED <<temporary, copies, aside, at, held, target, stamp, restores, stuck>>

Next ==
  \/ ReadMissing \/ ReadDamaged \/ ReadCurrent \/ ReadKept
  \/ Copy \/ CopyDone \/ CopyFails \/ Drop \/ Write \/ WriteDone \/ Rename
  \/ Die \/ Restore \/ Damage

Spec == Init /\ [][Next]_vars

-----------------------------------------------------------------------------
WholeCopies == {c \in copies : c.data.whole}

TypeOK ==
  /\ file \in Stores \cup {Missing}
  /\ temporary \in Stores \cup {Missing}
  /\ copies \subseteq [name : (1..Current) \X (0..MaxStamp), data : Stores]
  /\ aside \subseteq Stores
  /\ at \in {"idle", "copying", "read", "writing", "written"}
  /\ held \in Stores \cup {Missing}
  /\ at \in {"read", "writing", "written"} <=> held # Missing

(* A store of an older shape is only ever written over by one of this shape  *)
(* after a whole copy of it was made (ayq-store.ts:838-846), wherever an     *)
(* earlier attempt at the copy stopped.                                      *)
CopiedFirst == [][
  Rename /\ Old => \E c \in WholeCopies : c.data = file]_vars

(* A copy once made whole is left exactly as it is (ayq-store.ts:865-869).   *)
CopiesStay == [][WholeCopies \subseteq copies']_vars

(* AYQ's own writing leaves no file that does not parse, wherever it dies.   *)
NeverTorn == Damaged(file) => damages > 0

(* What a damaged file held is not written over, unless it cannot be moved.  *)
DamagedKept == [][Damaged(file) /\ file' # file /\ restores' = restores =>
  file \in aside' \/ stuck]_vars

(* A store this AYQ does not know is left alone (ayq-store.ts:703-715).      *)
NewerStays == [][Whole(file) /\ file.version > Current =>
  file' = file \/ restores' # restores \/ damages' # damages]_vars

(* A store that AYQ may still need is not destroyed, wherever a read or a    *)
(* write of it stops: an older one is copied whole before it is written over, *)
(* copies stay as they are, and a damaged or a newer one is not written over. *)
StoreKept == CopiedFirst /\ CopiesStay /\ DamagedKept /\ NewerStays

(* Copies of one store do not pile up (ayq-store.ts:848-850).                *)
OneCopyEach == \A c, d \in WholeCopies : c.data = d.data => c = d
=============================================================================
