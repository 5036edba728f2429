------------------------------ MODULE AyqImport ------------------------------
(* Importing statements: the rows go to the budget, what the budget has no   *)
(* field for to the store.  The store is read before the rows are imported   *)
(* and written whole after; other requests, and other imports, come between. *)
EXTENDS Integers, FiniteSets

CONSTANTS
  Entries,     \* bank references, the imported_id of their rows
  Files,       \* what may be chosen together, as sets of entries
  Accounts,    \* ids the budget may give to accounts
  Importers,   \* bound: imports under way at once
  Choices,     \* what other requests may write into the store meanwhile
  MaxImports,  \* bound: imports in all
  MaxDeaths,   \* bound: times AYQ dies
  None

ASSUME FilesHoldEntries == Files \subseteq (SUBSET Entries) \ {{}}

VARIABLES
  accounts,    \* the budget's accounts of the one name the entries mask to
  rows,        \* its transactions: [entry, account]
  provenance,  \* the store's: what the bank sent of which entries
  evidence,    \* the store's: the files whose coverage is proved
  chosen,      \* the store's: what other requests wrote
  importing,   \* what each import under way read, and what it does next
  imports, deaths,
  made         \* history: the choices made

vars == <<accounts, rows, provenance, evidence, chosen, importing, imports, deaths, made>>

Idle == [at |-> "idle"]

Init ==
  /\ accounts = {} /\ rows = {}
  /\ provenance = {} /\ evidence = {} /\ chosen = {}
  /\ importing = [i \in Importers |-> Idle]
  /\ imports = 0 /\ deaths = 0 /\ made = {}

Imported(entry) == \E row \in rows : row.entry = entry
Goes(i, at) == importing[i].at = at /\ UNCHANGED <<imports, deaths, made>>
Then(i, step) == importing' = [importing EXCEPT ![i] = step]
Goto(i, at) == Then(i, [importing[i] EXCEPT !.at = at])

-----------------------------------------------------------------------------
(* ayqImportCamt: the store is read when the files are.                      *)
Begin(i, file) ==
  /\ importing[i] = Idle
  /\ imports < MaxImports /\ imports' = imports + 1
  /\ Then(i, [at |-> "account", file |-> file, account |-> None,
              store |-> [provenance |-> provenance, evidence |-> evidence, chosen |-> chosen]])
  /\ UNCHANGED <<accounts, rows, provenance, evidence, chosen, deaths, made>>

(* Mutant: coverage is recorded before the rows are in the budget. *)
FindAccountRecording(i) ==
  /\ Goes(i, "account")
  /\ IF accounts = {} THEN Goto(i, "create")
     ELSE \E account \in accounts : Then(i, [importing[i] EXCEPT !.at = "rows", !.account = account])
  /\ evidence' = evidence \cup {importing[i].file}
  /\ UNCHANGED <<accounts, rows, provenance, chosen>>

(* accountFor: the account of that name, ...                                 *)
FindAccount(i) ==
  /\ Goes(i, "account")
  /\ IF accounts = {} THEN Goto(i, "create")
     ELSE \E account \in accounts : Then(i, [importing[i] EXCEPT !.at = "rows", !.account = account])
  /\ UNCHANGED <<accounts, rows, provenance, evidence, chosen>>

(* ... made if the budget has not seen it before.                            *)
CreateAccount(i) ==
  /\ Goes(i, "create")
  /\ \E account \in Accounts \ accounts :
       /\ accounts' = accounts \cup {account}
       /\ Then(i, [importing[i] EXCEPT !.at = "rows", !.account = account])
  /\ UNCHANGED <<rows, provenance, evidence, chosen>>

(* The budget matches what is imported against the account's own rows.       *)
NewRows(file, account) ==
  {[entry |-> e, account |-> account, again |-> FALSE] :
     e \in {e \in file : ~\E row \in rows : row.entry = e /\ row.account = account}}

ImportRows(i) ==
  /\ Goes(i, "rows")
  /\ rows' = rows \cup NewRows(importing[i].file, importing[i].account)
  /\ Goto(i, "remember")
  /\ UNCHANGED <<accounts, provenance, evidence, chosen>>

(* Mutant: what is remembered is dropped where the rows were there already. *)
RememberFresh(i) ==
  /\ Goes(i, "remember")
  /\ provenance' = importing[i].store.provenance
  /\ evidence' = importing[i].store.evidence
  /\ chosen' = importing[i].store.chosen
  /\ Goto(i, "record")
  /\ UNCHANGED <<accounts, rows>>

(* Provenance goes into the store that was read then, and all of it is       *)
(* written.                                                                  *)
Remember(i) ==
  /\ Goes(i, "remember")
  /\ provenance' = importing[i].store.provenance \cup importing[i].file
  /\ evidence' = importing[i].store.evidence
  /\ chosen' = importing[i].store.chosen
  /\ Goto(i, "record")
  /\ UNCHANGED <<accounts, rows>>

(* Rules, filing and matching follow, then the import is recorded and what   *)
(* it proves with it, in a store read now.                                   *)
Record(i) ==
  /\ Goes(i, "record")
  /\ evidence' = evidence \cup {importing[i].file}
  /\ Then(i, Idle)
  /\ UNCHANGED <<accounts, rows, provenance, chosen>>

(* Any other request that writes the store: it reads it and writes it in one *)
(* go (ayqSaveSettings, ayqRememberRule, ayqSavePlan, ...).                  *)
Choose(c) ==
  /\ c \notin made
  /\ chosen' = chosen \cup {c}
  /\ made' = made \cup {c}
  /\ UNCHANGED <<accounts, rows, provenance, evidence, importing, imports, deaths>>

Die ==
  /\ deaths < MaxDeaths /\ deaths' = deaths + 1
  /\ \E i \in Importers : importing[i] # Idle
  /\ importing' = [i \in Importers |-> Idle]
  /\ UNCHANGED <<accounts, rows, provenance, evidence, chosen, imports, made>>

Step(i) ==
  \/ \E file \in Files : Begin(i, file)
  \/ FindAccount(i) \/ CreateAccount(i) \/ ImportRows(i) \/ Remember(i) \/ Record(i)

Next ==
  \/ \E i \in Importers : Step(i)
  \/ \E c \in Choices : Choose(c)
  \/ Die

Spec == Init /\ [][Next]_vars

-----------------------------------------------------------------------------
TypeOK ==
  /\ accounts \subseteq Accounts
  /\ rows \subseteq [entry : Entries, account : Accounts, again : BOOLEAN]
  /\ provenance \subseteq Entries
  /\ evidence \subseteq Files
  /\ chosen \subseteq Choices /\ made \subseteq Choices
  /\ \A i \in Importers : importing[i].at \in {"idle", "account", "create", "rows", "remember", "record"}

(* One row for each entry of the bank, however often it is imported and      *)
(* wherever an import stopped (ayq-camt-import.ts:217-220).                  *)
RowsOnce == \A row, other \in rows : row.entry = other.entry => row = other

(* Coverage is proved only by files whose entries are all in the budget.     *)
EvidenceBacked == \A file \in evidence : \A e \in file : Imported(e)

(* What an import that ends has put in the budget it can also explain: also  *)
(* the rows an import that died left there.                                  *)
Explains == \A i \in Importers :
  (importing[i].at = "record" /\ importing'[i] = Idle /\ deaths' = deaths) =>
    \A e \in importing[i].file : Imported(e) /\ e \in provenance'
Explained == [][Explains]_vars

(* What is proved stays proved: every interval is kept (ayq-camt-import.ts:  *)
(* 406-410).                                                                 *)
EvidenceStays == [][evidence \subseteq evidence']_vars

(* A choice is remembered (ayq-preferences.ts:4-7).                          *)
ChoicesKept == made = chosen
=============================================================================
