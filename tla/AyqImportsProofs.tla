--------------------------- MODULE AyqImportsProofs ---------------------------
(* The import of statements, for any entries, files and accounts, however    *)
(* many imports cross and wherever AYQ dies: coverage is backed by the rows  *)
(* in the budget, and what is imported alone is not without its provenance.  *)
(* Whatever is read of however many accounts, the months taken for complete  *)
(* are complete.  And a balance that is stated, by the bank or by the owner,  *)
(* is the budget's on its day.                                               *)
EXTENDS MCAyqImports, Sequences, SequenceTheorems, FiniteSetTheorems, NaturalsInduction,
        WellFoundedInduction, TLAPS

Stores == [provenance : SUBSET Entries, evidence : SUBSET Files, chosen : SUBSET Choices]

Busy == [at : {"account", "create", "rows", "remember", "record"}, file : Files,
         account : Accounts \cup {None}, store : Stores]

Backed(file) == \A e \in file : Imported(e)

(* What an import holds while it is under way.                               *)
ImportOK(it) ==
  \/ it = Idle
  \/ /\ it \in Busy
     /\ \A file \in it.store.evidence : Backed(file)
     /\ it.at \in {"rows", "remember", "record"} => it.account \in Accounts
     /\ it.at \in {"remember", "record"} => Backed(it.file)

ImportInv ==
  /\ TypeOK
  /\ EvidenceBacked
  /\ DOMAIN importing = Importers
  /\ \A i \in Importers : ImportOK(importing[i])

-----------------------------------------------------------------------------
(* What was backed stays so as long as no row goes.                          *)
LEMMA BackedStays ==
  ASSUME rows \subseteq rows', NEW file, Backed(file)
  PROVE  Backed(file)'
BY DEF Backed, Imported

(* And so do the promises of what is under way.                              *)
LEMMA ImportStays ==
  ASSUME rows \subseteq rows', NEW it, ImportOK(it)
  PROVE  \/ it = Idle
         \/ /\ it \in Busy
            /\ \A file \in it.store.evidence : Backed(file)'
            /\ it.at \in {"rows", "remember", "record"} => it.account \in Accounts
            /\ it.at \in {"remember", "record"} => Backed(it.file)'
BY BackedStays DEF ImportOK

LEMMA ImportInit == Init => ImportInv
BY DEF Init, ImportInv, TypeOK, EvidenceBacked, ImportOK, Idle

(* One import makes a step to a state that is in order, and the rest is.     *)
LEMMA OneMoves ==
  ASSUME ImportInv, rows \subseteq rows', NEW i \in Importers, NEW step,
         importing' = [importing EXCEPT ![i] = step],
         \/ step = Idle
         \/ /\ step \in Busy
            /\ \A file \in step.store.evidence : Backed(file)'
            /\ step.at \in {"rows", "remember", "record"} => step.account \in Accounts
            /\ step.at \in {"remember", "record"} => Backed(step.file)'
  PROVE  /\ DOMAIN importing' = Importers
         /\ \A j \in Importers : ImportOK(importing[j])'
         /\ \A j \in Importers : importing'[j].at \in {"idle", "account", "create", "rows", "remember", "record"}
<1>1. DOMAIN importing' = Importers /\ importing'[i] = step
      /\ \A j \in Importers \ {i} : importing'[j] = importing[j]
  BY DEF ImportInv
<1>2. ASSUME NEW j \in Importers PROVE ImportOK(importing[j])'
  <2>1. CASE j = i
    BY <1>1, <2>1 DEF ImportOK
  <2>2. CASE j # i
    <3>1. ImportOK(importing[j])
      BY DEF ImportInv
    <3> QED BY <3>1, <2>2, <1>1, ImportStays DEF ImportOK
  <2> QED BY <2>1, <2>2
<1>3. ASSUME NEW j \in Importers
      PROVE  importing'[j].at \in {"idle", "account", "create", "rows", "remember", "record"}
  BY <1>2 DEF ImportOK, Busy, Idle
<1> QED BY <1>1, <1>2, <1>3

LEMMA BusyThere ==
  ASSUME NEW it, ImportOK(it), it.at # "idle"
  PROVE  it \in Busy
BY DEF ImportOK, Idle

(* An import that is under way goes on, with the account it has or finds. *)
LEMMA OneGoesOn ==
  ASSUME ImportInv, rows \subseteq rows', NEW i \in Importers, importing[i].at # "idle",
         NEW at \in {"create", "rows", "remember", "record"}, NEW into \in Accounts \cup {None},
         at # "create" => into \in Accounts,
         at \in {"remember", "record"} => \A e \in importing[i].file : Imported(e)',
         importing' = [importing EXCEPT ![i] = [importing[i] EXCEPT !.at = at, !.account = into]]
  PROVE  /\ DOMAIN importing' = Importers
         /\ \A j \in Importers : ImportOK(importing[j])'
         /\ \A j \in Importers : importing'[j].at \in {"idle", "account", "create", "rows", "remember", "record"}
<1>1. ImportOK(importing[i]) /\ importing[i] \in Busy
  BY BusyThere DEF ImportInv
<1>2. PICK step : step = [importing[i] EXCEPT !.at = at, !.account = into]
  OBVIOUS
<1>3. /\ step \in Busy /\ step.store = importing[i].store /\ step.file = importing[i].file
      /\ step.at = at /\ step.account = into
  BY <1>1, <1>2 DEF Busy
<1>4. \A f \in importing[i].store.evidence : Backed(f)'
  BY <1>1, BackedStays DEF ImportOK, Idle, Busy
<1>5. importing' = [importing EXCEPT ![i] = step]
  BY <1>2
<1>6. step.at \in {"remember", "record"} => Backed(step.file)'
  BY <1>3 DEF Backed
<1>7. \A f \in step.store.evidence : Backed(f)'
  BY <1>3, <1>4
<1>8. step.at \in {"rows", "remember", "record"} => step.account \in Accounts
  BY <1>3
<1> QED BY <1>3, <1>5, <1>6, <1>7, <1>8, OneMoves

LEMMA AccountSame ==
  ASSUME NEW it \in Busy, NEW at
  PROVE  [it EXCEPT !.at = at] = [it EXCEPT !.at = at, !.account = it.account]
BY DEF Busy

LEMMA ImportStep ==
  ASSUME ImportInv, [Next]_vars
  PROVE  ImportInv'
<1>1. ASSUME NEW i \in Importers, NEW file \in Files, Begin(i, file)
      PROVE  ImportInv'
  <2> DEFINE step == [at |-> "account", file |-> file, account |-> None,
              store |-> [provenance |-> provenance, evidence |-> evidence, chosen |-> chosen]]
  <2>1. importing' = [importing EXCEPT ![i] = step]
        /\ UNCHANGED <<accounts, rows, provenance, evidence, chosen, made>>
    BY <1>1 DEF Begin, Then
  <2>2. step \in Busy /\ step.at = "account"
    BY DEF Busy, Stores, ImportInv, TypeOK
  <2>3. \A f \in step.store.evidence : Backed(f)'
    BY <2>1 DEF ImportInv, EvidenceBacked, Backed, Imported
  <2>4. rows \subseteq rows'
    BY <2>1
  <2>5. /\ DOMAIN importing' = Importers
        /\ \A j \in Importers : ImportOK(importing[j])'
        /\ \A j \in Importers : importing'[j].at \in {"idle", "account", "create", "rows", "remember", "record"}
    <3> HIDE DEF step
    <3> QED BY <2>1, <2>2, <2>3, <2>4, OneMoves
  <2> QED BY <2>1, <2>5 DEF ImportInv, TypeOK, EvidenceBacked, Imported
<1>2. ASSUME NEW i \in Importers, FindAccount(i)
      PROVE  ImportInv'
  <2>1. importing[i].at = "account" /\ importing[i] \in Busy
    BY <1>2, BusyThere DEF FindAccount, Goes, ImportInv
  <2>2. UNCHANGED <<accounts, rows, provenance, evidence, chosen, made>>
    BY <1>2 DEF FindAccount, Goes
  <2>3. PICK at \in {"create", "rows"}, into \in Accounts \cup {None} :
          /\ at # "create" => into \in Accounts
          /\ importing' = [importing EXCEPT ![i] = [importing[i] EXCEPT !.at = at, !.account = into]]
    <3>1. CASE accounts = {}
      <4>1. importing' = [importing EXCEPT ![i] = [importing[i] EXCEPT !.at = "create"]]
        BY <1>2, <3>1 DEF FindAccount, Goto, Then
      <4>2. importing[i].account \in Accounts \cup {None}
        BY <2>1 DEF Busy
      <4> QED BY <4>1, <4>2, <2>1, AccountSame
    <3>2. CASE accounts # {}
      BY <1>2, <3>2 DEF FindAccount, Then, ImportInv, TypeOK
    <3> QED BY <3>1, <3>2
  <2>4. /\ DOMAIN importing' = Importers
        /\ \A j \in Importers : ImportOK(importing[j])'
        /\ \A j \in Importers : importing'[j].at \in {"idle", "account", "create", "rows", "remember", "record"}
    BY <2>1, <2>2, <2>3, OneGoesOn
  <2> QED BY <2>2, <2>4 DEF ImportInv, TypeOK, EvidenceBacked, Imported
<1>3. ASSUME NEW i \in Importers, CreateAccount(i)
      PROVE  ImportInv'
  <2>1. importing[i].at = "create"
    BY <1>3 DEF CreateAccount, Goes
  <2>2. UNCHANGED <<rows, provenance, evidence, chosen, made>>
    BY <1>3 DEF CreateAccount, Goes
  <2>3. PICK into \in Accounts :
          /\ accounts' = accounts \cup {into}
          /\ importing' = [importing EXCEPT ![i] = [importing[i] EXCEPT !.at = "rows", !.account = into]]
    BY <1>3 DEF CreateAccount, Then
  <2>4. /\ DOMAIN importing' = Importers
        /\ \A j \in Importers : ImportOK(importing[j])'
        /\ \A j \in Importers : importing'[j].at \in {"idle", "account", "create", "rows", "remember", "record"}
    BY <2>1, <2>2, <2>3, OneGoesOn
  <2> QED BY <2>2, <2>3, <2>4 DEF ImportInv, TypeOK, EvidenceBacked, Imported
<1>4. ASSUME NEW i \in Importers, ImportRows(i)
      PROVE  ImportInv'
  <2>1. importing[i].at = "rows" /\ importing[i] \in Busy /\ importing[i].account \in Accounts
    <3>1. importing[i].at = "rows" /\ ImportOK(importing[i])
      BY <1>4 DEF ImportRows, Goes, ImportInv
    <3>2. importing[i] \in Busy
      BY <3>1, BusyThere
    <3> QED BY <3>1, <3>2 DEF ImportOK, Idle
  <2>2. UNCHANGED <<accounts, provenance, evidence, chosen, made>>
    BY <1>4 DEF ImportRows, Goes
  <2>3. rows' = rows \cup NewRows(importing[i].file, importing[i].account)
    BY <1>4 DEF ImportRows
  <2>4. importing' = [importing EXCEPT ![i] = [importing[i] EXCEPT !.at = "remember"]]
    BY <1>4 DEF ImportRows, Goto, Then
  <2>5. importing' = [importing EXCEPT ![i] =
          [importing[i] EXCEPT !.at = "remember", !.account = importing[i].account]]
    BY <2>1, <2>4, AccountSame
  <2>6. ASSUME NEW e \in importing[i].file PROVE Imported(e)'
    <3>1. CASE \E row \in rows : row.entry = e /\ row.account = importing[i].account
      BY <3>1, <2>3 DEF Imported
    <3>2. CASE ~\E row \in rows : row.entry = e /\ row.account = importing[i].account
      <4>1. [entry |-> e, account |-> importing[i].account, again |-> FALSE] \in rows'
        BY <3>2, <2>3 DEF NewRows
      <4> QED BY <4>1 DEF Imported
    <3> QED BY <3>1, <3>2
  <2>8. rows \subseteq rows' /\ rows' \subseteq [entry : Entries, account : Accounts, again : BOOLEAN]
    <3>1. importing[i].file \subseteq Entries
      BY <2>1, FilesHoldEntries DEF Busy
    <3>2. ASSUME NEW row \in NewRows(importing[i].file, importing[i].account)
          PROVE  row \in [entry : Entries, account : Accounts, again : BOOLEAN]
      <4>1. PICK e \in importing[i].file :
              row = [entry |-> e, account |-> importing[i].account, again |-> FALSE]
        BY DEF NewRows
      <4> QED BY <4>1, <3>1, <2>1
    <3> QED BY <3>2, <2>3 DEF ImportInv, TypeOK
  <2>9. /\ DOMAIN importing' = Importers
        /\ \A j \in Importers : ImportOK(importing[j])'
        /\ \A j \in Importers : importing'[j].at \in {"idle", "account", "create", "rows", "remember", "record"}
    BY <2>1, <2>5, <2>6, <2>8, OneGoesOn
  <2>10. EvidenceBacked'
    BY <2>2, <2>8 DEF ImportInv, EvidenceBacked, Imported
  <2> QED BY <2>2, <2>8, <2>9, <2>10 DEF ImportInv, TypeOK
<1>5. ASSUME NEW i \in Importers, Remember(i)
      PROVE  ImportInv'
  <2>1. importing[i].at = "remember" /\ importing[i] \in Busy /\ ImportOK(importing[i])
    BY <1>5, BusyThere DEF Remember, Goes, ImportInv
  <2>2. UNCHANGED <<accounts, rows, made>>
    BY <1>5 DEF Remember, Goes
  <2>3. importing' = [importing EXCEPT ![i] = [importing[i] EXCEPT !.at = "record"]]
    BY <1>5 DEF Remember, Goto, Then
  <2>4. importing' = [importing EXCEPT ![i] =
          [importing[i] EXCEPT !.at = "record", !.account = importing[i].account]]
    BY <2>1, <2>3, AccountSame
  <2>5. importing[i].account \in Accounts /\ Backed(importing[i].file)
        /\ \A file \in importing[i].store.evidence : Backed(file)
    BY <2>1 DEF ImportOK, Idle
  <2>6. \A e \in importing[i].file : Imported(e)'
    BY <2>2, <2>5 DEF Backed, Imported
  <2>7. /\ DOMAIN importing' = Importers
        /\ \A j \in Importers : ImportOK(importing[j])'
        /\ \A j \in Importers : importing'[j].at \in {"idle", "account", "create", "rows", "remember", "record"}
    BY <2>1, <2>2, <2>4, <2>5, <2>6, OneGoesOn
  <2>8. /\ provenance' = importing[i].store.provenance \cup importing[i].file
        /\ evidence' = importing[i].store.evidence /\ chosen' = importing[i].store.chosen
    BY <1>5 DEF Remember
  <2>9. provenance' \subseteq Entries /\ evidence' \subseteq Files /\ chosen' \subseteq Choices
    BY <2>1, <2>8, FilesHoldEntries DEF Busy, Stores
  <2>10. EvidenceBacked'
    BY <2>2, <2>5, <2>8 DEF EvidenceBacked, Backed, Imported
  <2> QED BY <2>2, <2>7, <2>9, <2>10 DEF ImportInv, TypeOK
<1>6. ASSUME NEW i \in Importers, Record(i)
      PROVE  ImportInv'
  <2>1. importing[i].at = "record" /\ importing[i] \in Busy /\ ImportOK(importing[i])
    BY <1>6, BusyThere DEF Record, Goes, ImportInv
  <2>2. UNCHANGED <<accounts, rows, provenance, chosen, made>>
        /\ importing' = [importing EXCEPT ![i] = Idle]
        /\ evidence' = evidence \cup {importing[i].file}
    BY <1>6 DEF Record, Goes, Then
  <2>3. /\ DOMAIN importing' = Importers
        /\ \A j \in Importers : ImportOK(importing[j])'
        /\ \A j \in Importers : importing'[j].at \in {"idle", "account", "create", "rows", "remember", "record"}
    BY <2>2, OneMoves
  <2>4. importing[i].file \in Files /\ Backed(importing[i].file)
    BY <2>1 DEF ImportOK, Idle, Busy
  <2>5. EvidenceBacked'
    BY <2>2, <2>4 DEF ImportInv, EvidenceBacked, Backed, Imported
  <2> QED BY <2>2, <2>3, <2>4, <2>5 DEF ImportInv, TypeOK
<1>7. ASSUME NEW c \in Choices, Choose(c)
      PROVE  ImportInv'
  BY <1>7 DEF Choose, ImportInv, TypeOK, EvidenceBacked, ImportOK, Backed, Imported
<1>8. CASE Die
  <2>1. importing' = [i \in Importers |-> Idle]
        /\ UNCHANGED <<accounts, rows, provenance, evidence, chosen, made>>
    BY <1>8 DEF Die
  <2> QED BY <2>1 DEF ImportInv, TypeOK, EvidenceBacked, ImportOK, Idle, Imported
<1>9. CASE UNCHANGED vars
  BY <1>9 DEF vars, ImportInv, TypeOK, EvidenceBacked, ImportOK, Backed, Imported
<1> QED BY <1>1, <1>2, <1>3, <1>4, <1>5, <1>6, <1>7, <1>8, <1>9 DEF Next, Step

-----------------------------------------------------------------------------
LEMMA ImportInvariant == Spec => []ImportInv
<1>1. ImportInv /\ [Next]_vars => ImportInv'
  BY ImportStep
<1> QED BY ImportInit, <1>1, PTL DEF Spec

(* The budget, the store and what each import holds are of their types.      *)
THEOREM ImportTypes == Spec => []TypeOK
<1>1. ImportInv => TypeOK
  BY DEF ImportInv
<1> QED BY ImportInvariant, <1>1, PTL

(* A file proves coverage only when every entry of it is in the budget, also *)
(* where imports cross and the older store is written over the newer.        *)
THEOREM ImportEvidenceBacked == Spec => []EvidenceBacked
<1>1. ImportInv => EvidenceBacked
  BY DEF ImportInv
<1> QED BY ImportInvariant, <1>1, PTL

(* Nothing takes from the provenance what an import nothing crosses has      *)
(* written there, until it ends.                                             *)
Known == \A i \in Importers :
  importing[i].at = "record" => importing[i].file \subseteq provenance

(* In the part "alone" no import but i1 is ever under way.                   *)
Lone == \A i \in Importers \ {i1} : importing[i] = Idle

LEMMA KnownStep ==
  ASSUME i1 \in Importers, ImportInv, Lone, Known, AloneNext
  PROVE  Lone' /\ Known'
<1>0. DOMAIN importing = Importers /\ \A i \in Importers : ImportOK(importing[i])
  BY DEF ImportInv
<1>1. ASSUME NEW step, importing' = [importing EXCEPT ![i1] = step],
             step.at = "record" => step.file \subseteq provenance'
      PROVE  Lone' /\ Known'
  <2>1. importing'[i1] = step /\ \A i \in Importers \ {i1} : importing'[i] = Idle
    BY <1>0, <1>1 DEF Lone
  <2> QED BY <1>1, <2>1 DEF Known, Lone, Idle
<1>2. ASSUME NEW file \in Files, Begin(i1, file) PROVE Lone' /\ Known'
  <2>1. PICK step : step = [at |-> "account", file |-> file, account |-> None,
              store |-> [provenance |-> provenance, evidence |-> evidence, chosen |-> chosen]]
    OBVIOUS
  <2>2. importing' = [importing EXCEPT ![i1] = step] /\ step.at # "record"
    BY <1>2, <2>1 DEF Begin, Then
  <2> QED BY <1>1, <2>2
<1>3. ASSUME FindAccount(i1) \/ CreateAccount(i1) \/ ImportRows(i1) \/ Remember(i1)
      PROVE  Lone' /\ Known'
  <2>1. importing[i1].at # "idle"
    BY <1>3 DEF FindAccount, CreateAccount, ImportRows, Remember, Goes
  <2>2. importing[i1] \in Busy
    BY <1>0, <2>1, BusyThere
  <2>3. CASE Remember(i1)
    <3>1. PICK step : step = [importing[i1] EXCEPT !.at = "record"]
      OBVIOUS
    <3>2. importing' = [importing EXCEPT ![i1] = step] /\ importing[i1].file \subseteq provenance'
      BY <2>3, <3>1 DEF Remember, Goto, Then
    <3>3. step.file = importing[i1].file
      BY <2>2, <3>1 DEF Busy
    <3> QED BY <1>1, <3>2, <3>3
  <2>4. CASE ~Remember(i1)
    <3>1. PICK at \in {"create", "rows", "remember"}, into \in Accounts \cup {None} :
            importing' = [importing EXCEPT ![i1] = [importing[i1] EXCEPT !.at = at, !.account = into]]
      <4>1. CASE CreateAccount(i1)
        BY <4>1 DEF CreateAccount, Then
      <4>2. CASE ImportRows(i1)
        <5>1. importing' = [importing EXCEPT ![i1] = [importing[i1] EXCEPT !.at = "remember"]]
          BY <4>2 DEF ImportRows, Goto, Then
        <5>2. importing[i1].account \in Accounts \cup {None}
          BY <2>2 DEF Busy
        <5> QED BY <2>2, <5>1, <5>2, AccountSame
      <4>3. CASE FindAccount(i1)
        <5>1. CASE accounts = {}
          <6>1. importing' = [importing EXCEPT ![i1] = [importing[i1] EXCEPT !.at = "create"]]
            BY <4>3, <5>1 DEF FindAccount, Goto, Then
          <6>2. importing[i1].account \in Accounts \cup {None}
            BY <2>2 DEF Busy
          <6> QED BY <2>2, <6>1, <6>2, AccountSame
        <5>2. CASE accounts # {}
          BY <4>3, <5>2 DEF FindAccount, Then, ImportInv, TypeOK
        <5> QED BY <5>1, <5>2
      <4> QED BY <1>3, <2>4, <4>1, <4>2, <4>3
    <3>2. PICK step : step = [importing[i1] EXCEPT !.at = at, !.account = into]
      OBVIOUS
    <3>3. step.at # "record"
      BY <2>2, <3>2 DEF Busy
    <3> QED BY <1>1, <3>1, <3>2, <3>3
  <2> QED BY <2>3, <2>4
<1>4. CASE Record(i1)
  <2>1. importing' = [importing EXCEPT ![i1] = Idle] /\ Idle.at # "record"
    BY <1>4 DEF Record, Then, Idle
  <2> QED BY <1>1, <2>1
<1>5. ASSUME NEW c \in Choices, Choose(c) PROVE Lone' /\ Known'
  BY <1>5 DEF Choose, Known, Lone
<1>6. CASE Die
  BY <1>6 DEF Die, Idle, Known, Lone
<1> QED BY <1>2, <1>3, <1>4, <1>5, <1>6 DEF AloneNext, Step

(* What an import has put in the budget it can also explain, where no other  *)
(* crosses it: also the rows that an import that died left there.            *)
THEOREM AloneExplainedHolds ==
  ASSUME i1 \in Importers
  PROVE  MCSpec => AloneExplained
<1> DEFINE Inv == ImportInv /\ (part = "alone" => Lone /\ Known)
<1>1. MCInit => Inv
  BY ImportInit DEF MCInit, Init, Idle, Known, Lone
<1>2. AloneNext => Next
  BY DEF AloneNext, Next
<1>3. ASSUME Inv, [MCNext]_<<vars, coverageVars, anchorVars, part>> PROVE Inv'
  <2>1. [Next]_vars
    BY <1>2, <1>3 DEF MCNext
  <2>2. ImportInv'
    BY <1>3, <2>1, ImportStep
  <2>3. ASSUME part' = "alone" PROVE Lone' /\ Known'
    <3>1. part = "alone"
      BY <1>3, <2>3 DEF MCNext
    <3>2. CASE AloneNext
      BY <1>3, <3>1, <3>2, KnownStep
    <3>3. CASE UNCHANGED vars
      BY <1>3, <3>1, <3>3 DEF vars, Lone, Known
    <3> QED BY <1>3, <3>1, <3>2, <3>3 DEF MCNext
  <2> QED BY <2>2, <2>3
<1>4. ASSUME ImportInv, Lone, Known, AloneNext PROVE Explains
  <2> SUFFICES ASSUME NEW i \in Importers, importing[i].at = "record", importing'[i] = Idle,
                      deaths' = deaths
               PROVE  \A e \in importing[i].file : Imported(e) /\ e \in provenance'
    BY DEF Explains
  <2>0. i = i1
    BY <1>4 DEF Lone, Idle
  <2>1. importing[i].file \subseteq provenance
    BY <1>4 DEF Known
  <2>2. \A e \in importing[i].file : Imported(e)
    BY <1>4 DEF ImportInv, ImportOK, Backed, Idle
  <2>3. provenance' = provenance
    <3>1. ~Remember(i1)
      BY <2>0 DEF Remember, Goes
    <3> QED BY <1>4, <3>1 DEF AloneNext, Step, Begin, FindAccount,
              CreateAccount, ImportRows, Record, Choose, Die
  <2> QED BY <2>1, <2>2, <2>3
<1>5. Inv /\ [MCNext]_<<vars, coverageVars, anchorVars, part>> =>
        [part = "alone" => Explains]_<<vars, part>>
  BY <1>4 DEF MCNext
<1> QED BY <1>1, <1>3, <1>5, PTL DEF MCSpec, AloneExplained

-----------------------------------------------------------------------------
(* What the statements prove.  Days are numbers, so of any there is a first, *)
(* and of finitely many subsets a smallest.                                  *)
Interval == [from : CoverDays, to : CoverDays]

LEMMA Least ==
  ASSUME NEW S \in SUBSET Nat, S # {}
  PROVE  \E m \in S : \A n \in S : m <= n
<1>1. PICK R : R = OpToRel(<, Nat)
  OBVIOUS
<1>2. \A n, m \in Nat : n < m => <<n, m>> \in R
  <2>1. R = {ss \in Nat \X Nat : ss[1] < ss[2]}
    BY <1>1, Zenon DEF OpToRel
  <2> QED BY <2>1
<1>3. IsWellFoundedOn(R, Nat)
  BY <1>1, NatLessThanWellFounded, Zenon
<1>4. PICK m \in S : \A n \in S : <<n, m>> \notin R
  BY <1>3, WFMin
<1>5. ASSUME NEW n \in S PROVE m <= n
  <2>1. ~(n < m) /\ n \in Nat /\ m \in Nat
    BY <1>2, <1>4
  <2> QED BY <2>1
<1> QED BY <1>5

LEMMA Greatest ==
  ASSUME NEW top \in Nat, NEW S \in SUBSET (0..top), S # {}
  PROVE  \E m \in S : \A n \in S : n <= m
<1> DEFINE down == {top - n : n \in S}
<1>1. down \in SUBSET Nat /\ down # {}
  <2>1. PICK n \in S : TRUE
    OBVIOUS
  <2>2. top - n \in down
    BY <2>1
  <2>3. \A m \in S : top - m \in Nat
    OBVIOUS
  <2> QED BY <2>2, <2>3
<1>2. PICK d \in down : \A e \in down : d <= e
  <2> HIDE DEF down
  <2> QED BY <1>1, Least
<1>3. PICK m \in S : d = top - m
  BY <1>2
<1>4. ASSUME NEW n \in S PROVE n <= m
  <2>1. d <= top - n /\ n \in Nat /\ m \in Nat
    BY <1>2
  <2> QED BY <1>3, <2>1
<1> QED BY <1>4

LEMMA SmallestSubset ==
  ASSUME NEW S, IsFiniteSet(S), NEW Bad \in SUBSET SUBSET S, Bad # {}
  PROVE  \E T \in Bad : \A U \in Bad : U \subseteq T => U = T
<1>1. FiniteSubsetsOf(S) = SUBSET S
  BY FS_FiniteSubsetsOfFinite
<1>2. IsWellFoundedOn(StrictSubsetOrdering(S), SUBSET S)
  BY <1>1, FS_StrictSubsetOrderingWellFounded
<1>3. PICK T \in Bad : \A U \in Bad : <<U, T>> \notin StrictSubsetOrdering(S)
  BY <1>2, WFMin
<1> QED BY <1>3 DEF StrictSubsetOrdering

(* Intervals are in order, and one of any finite number comes last.          *)
LastIn(S) == CHOOSE e \in S : \A other \in S : other = e \/ Coverage!Before(other, e)

LEMMA OneIsLast ==
  ASSUME Coverage!DaysConsecutive, NEW S \in SUBSET Interval, IsFiniteSet(S), S # {}
  PROVE  /\ LastIn(S) \in S
         /\ \A e \in S : e = LastIn(S) \/ Coverage!Before(e, LastIn(S))
<1> DEFINE Ends(T, e) == \A other \in T : other = e \/ Coverage!Before(other, e)
           Bad == {T \in SUBSET S : T # {} /\ ~\E e \in T : Ends(T, e)}
<1>0. \A e \in Interval : e.from \in Nat /\ e.to \in Nat
  BY DEF Interval, Coverage!DaysConsecutive
<1>1. Bad = {}
  <2> SUFFICES ASSUME Bad # {} PROVE FALSE
    OBVIOUS
  <2>1. PICK T \in Bad : \A U \in Bad : U \subseteq T => U = T
    <3>1. Bad \in SUBSET SUBSET S
      OBVIOUS
    <3> HIDE DEF Bad
    <3> QED BY <3>1, SmallestSubset
  <2>2. T \in SUBSET S /\ T # {} /\ ~\E e \in T : Ends(T, e)
    BY <2>1
  <2>3. PICK x \in T : TRUE
    BY <2>2
  <2>4. CASE T \ {x} = {}
    <3>1. Ends(T, x)
      BY <2>4
    <3> QED BY <2>2, <3>1
  <2>5. CASE T \ {x} # {}
    <3>1. T \ {x} \notin Bad
      BY <2>1, <2>3
    <3>2. PICK y \in T \ {x} : Ends(T \ {x}, y)
      BY <2>2, <2>5, <3>1
    <3>3. CASE Coverage!Before(x, y)
      BY <2>2, <3>2, <3>3
    <3>4. CASE ~Coverage!Before(x, y)
      <4>1. x \in Interval /\ y \in Interval
        BY <2>2, <2>3, <3>2
      <4>2. y = x \/ Coverage!Before(y, x)
        BY <1>0, <3>4, <4>1 DEF Coverage!Before, Interval
      <4>3. ASSUME NEW other \in T PROVE other = x \/ Coverage!Before(other, x)
        <5>1. other = x \/ other = y \/ Coverage!Before(other, y)
          BY <3>2
        <5>2. other \in Interval
          BY <2>2
        <5> QED BY <1>0, <4>1, <4>2, <5>1, <5>2 DEF Coverage!Before
      <4> QED BY <2>2, <4>3
    <3> QED BY <3>3, <3>4
  <2> QED BY <2>4, <2>5
<1>2. \E e \in S : Ends(S, e)
  BY <1>1
<1> QED BY <1>2 DEF LastIn

(* A list of intervals in order with a day between any two, that hold just   *)
(* the days the intervals of a set hold.                                     *)
Holds(m, d) == \E i \in 1..Len(m) : m[i].from <= d /\ d <= m[i].to
Spans(S, d) == \E e \in S : e.from <= d /\ d <= e.to

Tidy(m, S) ==
  /\ m \in Seq(Interval)
  /\ \A i \in 1..Len(m) : m[i].from <= m[i].to
  /\ \A i \in 2..Len(m) : m[i].from > m[i - 1].to + 1
  /\ \A d \in Nat : Holds(m, d) <=> Spans(S, d)
  /\ m # <<>> => \E e \in S : m[Len(m)].from <= e.from

(* Merging one that begins no earlier than the others keeps it so.           *)
LEMMA MergeTidy ==
  ASSUME Coverage!DaysConsecutive, NEW S \in SUBSET Interval, NEW m, Tidy(m, S),
         NEW one \in Interval, one.from <= one.to, \A e \in S : e.from <= one.from
  PROVE  Tidy(Coverage!Merge(m, one), S \cup {one})
<1> DEFINE n == Len(m)
           new == Coverage!Merge(m, one)
<1>0. /\ m \in Seq(Interval) /\ n \in Nat
      /\ \A i \in 1..n : m[i] \in Interval
      /\ \A e \in Interval : e.from \in Nat /\ e.to \in Nat /\ e.from \in CoverDays /\ e.to \in CoverDays
  <2>1. m \in Seq(Interval)
    BY DEF Tidy
  <2>2. \A e \in Interval : e.from \in Nat /\ e.to \in Nat /\ e.from \in CoverDays /\ e.to \in CoverDays
    BY DEF Interval, Coverage!DaysConsecutive
  <2> QED BY <2>1, <2>2
<1>s. \A d \in Nat : Spans(S \cup {one}, d) <=> Spans(S, d) \/ (one.from <= d /\ d <= one.to)
  BY DEF Spans
<1>1. CASE m # <<>> /\ one.from <= m[n].to + 1
  <2> DEFINE to == IF m[n].to > one.to THEN m[n].to ELSE one.to
             ext == [from |-> m[n].from, to |-> to]
  <2>0. n > 0 /\ m[n] \in Interval
    BY <1>0, <1>1
  <2>1. new = [m EXCEPT ![n] = ext]
    <3>1. new = [m EXCEPT ![n] = [m[n] EXCEPT !.to = to]]
      BY <1>1 DEF Coverage!Merge, Coverage!Last, Coverage!Later
    <3>2. [m[n] EXCEPT !.to = to] = ext
      <4> HIDE DEF to
      <4> QED BY <2>0 DEF Interval
    <3> QED BY <3>1, <3>2
  <2>2. to \in CoverDays /\ to \in Nat /\ to >= m[n].to /\ to >= one.to
        /\ (to = m[n].to \/ to = one.to)
    BY <1>0, <2>0
  <2>3. ext \in Interval /\ ext.from = m[n].from /\ ext.to = to
    BY <1>0, <2>0, <2>2 DEF Interval
  <2> HIDE DEF new, ext, to
  <2>4. new \in Seq(Interval) /\ Len(new) = n /\ new[n] = ext
        /\ \A i \in 1..n : i # n => new[i] = m[i]
    BY <1>0, <2>0, <2>1, <2>3
  <2>5. ASSUME NEW i \in 1..n PROVE new[i].from <= new[i].to
    <3>1. m[i].from <= m[i].to
      BY DEF Tidy
    <3> QED BY <1>0, <2>0, <2>2, <2>3, <2>4, <3>1
  <2>6. ASSUME NEW i \in 2..n PROVE new[i].from > new[i - 1].to + 1
    <3>1. m[i].from > m[i - 1].to + 1 /\ i - 1 \in 1..n /\ i - 1 # n /\ i \in 1..n
      BY <1>0 DEF Tidy
    <3>2. new[i].from = m[i].from
      BY <2>3, <2>4, <3>1
    <3> QED BY <2>4, <3>1, <3>2
  <2>7. m[n].from <= one.from
    <3>1. PICK e \in S : m[n].from <= e.from
      BY <1>1 DEF Tidy
    <3>2. e \in Interval
      OBVIOUS
    <3> QED BY <1>0, <2>0, <3>1, <3>2
  <2>8. ASSUME NEW d \in Nat
        PROVE  Holds(new, d) <=> Holds(m, d) \/ (one.from <= d /\ d <= one.to)
    <3>1. ext.from <= d /\ d <= ext.to
            <=> (m[n].from <= d /\ d <= m[n].to) \/ (one.from <= d /\ d <= one.to)
      BY <1>0, <1>1, <2>0, <2>2, <2>3, <2>7
    <3>2. n \in 1..n
      BY <1>0, <2>0
    <3> QED BY <2>4, <3>1, <3>2 DEF Holds
  <2>9. \A d \in Nat : Holds(new, d) <=> Spans(S \cup {one}, d)
    BY <1>s, <2>8 DEF Tidy
  <2>10. new[Len(new)].from <= one.from
    BY <2>3, <2>4, <2>7
  <2>11. Tidy(new, S \cup {one})
    BY <2>4, <2>5, <2>6, <2>9, <2>10 DEF Tidy
  <2> QED BY <2>11 DEF new
<1>2. CASE ~(m # <<>> /\ one.from <= m[n].to + 1)
  <2>1. new = Append(m, one)
    BY <1>0, <1>2 DEF Coverage!Merge, Coverage!Last
  <2> HIDE DEF new
  <2>2. new \in Seq(Interval) /\ Len(new) = n + 1 /\ new[n + 1] = one
        /\ \A i \in 1..n : new[i] = m[i]
    BY <1>0, <2>1
  <2>3. ASSUME NEW i \in 1..(n + 1) PROVE new[i].from <= new[i].to
    <3>1. CASE i = n + 1
      BY <2>2, <3>1
    <3>2. CASE i # n + 1
      <4>1. i \in 1..n
        BY <1>0, <3>2
      <4> QED BY <2>2, <4>1 DEF Tidy
    <3> QED BY <3>1, <3>2
  <2>4. ASSUME NEW i \in 2..(n + 1) PROVE new[i].from > new[i - 1].to + 1
    <3>1. CASE i = n + 1
      <4>1. n \in 1..n /\ m # <<>> /\ i - 1 = n
        BY <1>0, <3>1
      <4>2. m[n].to \in Nat /\ one.from \in Nat
        BY <1>0, <4>1
      <4> QED BY <1>2, <2>2, <3>1, <4>1, <4>2
    <3>2. CASE i # n + 1
      <4>1. i \in 2..n /\ i \in 1..n /\ i - 1 \in 1..n
        BY <1>0, <3>2
      <4> QED BY <2>2, <4>1 DEF Tidy
    <3> QED BY <3>1, <3>2
  <2>5. ASSUME NEW d \in Nat
        PROVE  Holds(new, d) <=> Holds(m, d) \/ (one.from <= d /\ d <= one.to)
    <3>1. \A i \in 1..(n + 1) : i = n + 1 \/ i \in 1..n
      BY <1>0
    <3>2. n + 1 \in 1..(n + 1) /\ \A i \in 1..n : i \in 1..(n + 1)
      BY <1>0
    <3> QED BY <2>2, <3>1, <3>2 DEF Holds
  <2>6. \A d \in Nat : Holds(new, d) <=> Spans(S \cup {one}, d)
    BY <1>s, <2>5 DEF Tidy
  <2>7. new[Len(new)].from <= one.from
    BY <1>0, <2>2
  <2>8. Tidy(new, S \cup {one})
    BY <2>2, <2>3, <2>4, <2>6, <2>7 DEF Tidy
  <2> QED BY <2>8 DEF new
<1> QED BY <1>1, <1>2

(* The union takes the intervals in order: it is defined by a recursive      *)
(* function, and there is one, for every finite number of them.              *)
Recursion(I, f) == f = [S \in SUBSET I |->
  IF S = {} THEN <<>> ELSE Coverage!Merge(f[S \ {LastIn(S)}], LastIn(S))]

LEMMA RecursionDefines ==
  ASSUME NEW I
  PROVE  \E f : f = (CHOOSE g : Recursion(I, g)) /\ Coverage!Merged(I) = f[I]
<1> DEFINE merged[S \in SUBSET I] ==
      IF S = {} THEN <<>> ELSE Coverage!Merge(merged[S \ {LastIn(S)}], LastIn(S))
<1>1. Coverage!Merged(I) = merged[I]
  BY DEF Coverage!Merged, LastIn
<1>2. merged = CHOOSE g : Recursion(I, g)
  BY DEF Recursion
<1> QED BY <1>1, <1>2

InOrder(I, f) ==
  /\ f[{}] = <<>>
  /\ \A S \in SUBSET I : S # {} => f[S] = Coverage!Merge(f[S \ {LastIn(S)}], LastIn(S))

LEMMA RecursionStep ==
  ASSUME NEW I, NEW f, Recursion(I, f)
  PROVE  InOrder(I, f)
<1>1. f = [S \in SUBSET I |->
        IF S = {} THEN <<>> ELSE Coverage!Merge(f[S \ {LastIn(S)}], LastIn(S))]
  BY DEF Recursion
<1>2. {} \in SUBSET I
  OBVIOUS
<1> QED BY <1>1, <1>2 DEF InOrder

Intervals(I) == I \in SUBSET Interval /\ IsFiniteSet(I) /\ Coverage!DaysConsecutive

LEMMA IntervalsSubset ==
  ASSUME NEW I, Intervals(I), NEW S \in SUBSET I
  PROVE  Intervals(S) /\ (S # {} => LastIn(S) \in S)
<1>1. Intervals(S)
  BY FS_Subset DEF Intervals
<1> QED BY <1>1, OneIsLast DEF Intervals

LEMMA RecursionOnce ==
  ASSUME NEW I, Intervals(I), NEW f, NEW g,
         Recursion(I, f), NEW R \in SUBSET I, Recursion(R, g)
  PROVE  \A S \in SUBSET R : f[S] = g[S]
<1> DEFINE Bad == {S \in SUBSET R : f[S] # g[S]}
<1>1. SUFFICES ASSUME Bad # {} PROVE FALSE
  OBVIOUS
<1>2. IsFiniteSet(R)
  BY FS_Subset DEF Intervals
<1>3. PICK S \in Bad : \A U \in Bad : U \subseteq S => U = S
  <2>1. Bad \in SUBSET SUBSET R
    OBVIOUS
  <2> HIDE DEF Bad
  <2> QED BY <1>1, <1>2, <2>1, SmallestSubset
<1>4. S \in SUBSET R /\ S \in SUBSET I /\ f[S] # g[S]
  BY <1>3
<1>f. InOrder(I, f)
  BY RecursionStep
<1>g. InOrder(R, g)
  BY RecursionStep
<1>5. S # {}
  BY <1>4, <1>f, <1>g DEF InOrder
<1> DEFINE U == S \ {LastIn(S)}
<1>6. U \in SUBSET R /\ U \subseteq S /\ U # S
  BY <1>4, <1>5, IntervalsSubset
<1>7. f[U] = g[U]
  BY <1>3, <1>6
<1>8. f[S] = Coverage!Merge(f[U], LastIn(S))
  BY <1>4, <1>5, <1>f DEF InOrder
<1>9. g[S] = Coverage!Merge(g[U], LastIn(S))
  BY <1>4, <1>5, <1>g DEF InOrder
<1> QED BY <1>4, <1>7, <1>8, <1>9

LEMMA RecursionIsThere ==
  ASSUME NEW I, Intervals(I)
  PROVE  \E f : Recursion(I, f)
<1> DEFINE Bad == {S \in SUBSET I : ~\E f : Recursion(S, f)}
<1>1. SUFFICES ASSUME Bad # {} PROVE FALSE
  <2>1. I \in SUBSET I
    OBVIOUS
  <2> QED BY <2>1
<1>2. PICK R \in Bad : \A U \in Bad : U \subseteq R => U = R
  <2>1. Bad \in SUBSET SUBSET I /\ IsFiniteSet(I)
    BY DEF Intervals
  <2> HIDE DEF Bad
  <2> QED BY <1>1, <2>1, SmallestSubset
<1>3. R \in SUBSET I /\ ~\E f : Recursion(R, f)
  BY <1>2
<1> DEFINE F(U) == CHOOSE f : Recursion(U, f)
           Rest(U) == U \ {LastIn(U)}
           V(U) == IF U = {} THEN <<>>
                   ELSE Coverage!Merge(F(Rest(U))[Rest(U)], LastIn(U))
           g == [U \in SUBSET R |-> V(U)]
<1>4. ASSUME NEW U \in SUBSET R, U # R PROVE Recursion(U, F(U))
  <2>1. \E f : Recursion(U, f)
    BY <1>2, <1>3, <1>4
  <2> QED BY <2>1
<1>5. ASSUME NEW U \in SUBSET R, U # {}
      PROVE  Rest(U) \in SUBSET R /\ Rest(U) # R /\ Rest(U) \in SUBSET U
  <2>1. LastIn(U) \in U
    BY <1>3, <1>5, IntervalsSubset
  <2> QED BY <2>1
<1>6. ASSUME NEW U \in SUBSET R, U # R PROVE F(U)[U] = V(U)
  <2>1. /\ F(U)[{}] = <<>>
        /\ U # {} => F(U)[U] = Coverage!Merge(F(U)[Rest(U)], LastIn(U))
    <3> DEFINE h == F(U)
    <3>1. Recursion(U, h)
      BY <1>4, <1>6
    <3> HIDE DEF h
    <3>2. InOrder(U, h)
      BY <3>1, RecursionStep
    <3>3. U \in SUBSET U
      OBVIOUS
    <3>4. h[{}] = <<>> /\ (U # {} => h[U] = Coverage!Merge(h[Rest(U)], LastIn(U)))
      BY <3>2, <3>3 DEF InOrder
    <3> QED BY <3>4 DEF h
  <2>2. CASE U = {}
    BY <2>1, <2>2
  <2>3. CASE U # {}
    <3>1. Rest(U) \in SUBSET U /\ Rest(U) \in SUBSET R /\ Rest(U) # R
      BY <1>5, <2>3
    <3>2. Recursion(U, F(U)) /\ Recursion(Rest(U), F(Rest(U)))
      BY <1>4, <1>6, <3>1
    <3>3. Intervals(U)
      BY <1>3, IntervalsSubset
    <3> HIDE DEF F
    <3>4. \A T \in SUBSET Rest(U) : F(U)[T] = F(Rest(U))[T]
      BY <3>1, <3>2, <3>3, RecursionOnce
    <3>5. F(U)[Rest(U)] = F(Rest(U))[Rest(U)]
      BY <3>4
    <3> QED BY <2>1, <2>3, <3>5
  <2> QED BY <2>2, <2>3
<1>7. ASSUME NEW U \in SUBSET R
      PROVE  g[U] = IF U = {} THEN <<>>
                    ELSE Coverage!Merge(g[U \ {LastIn(U)}], LastIn(U))
  <2>1. g[U] = V(U)
    OBVIOUS
  <2>2. CASE U = {}
    BY <2>1, <2>2
  <2>3. CASE U # {}
    <3>1. Rest(U) \in SUBSET R /\ Rest(U) # R
      BY <1>5, <2>3
    <3>2. g[Rest(U)] = V(Rest(U))
      BY <3>1
    <3>3. V(Rest(U)) = F(Rest(U))[Rest(U)]
      BY <1>6, <3>1
    <3>4. V(U) = Coverage!Merge(F(Rest(U))[Rest(U)], LastIn(U))
      BY <2>3
    <3> HIDE DEF g, V, F
    <3> QED BY <2>1, <2>3, <3>2, <3>3, <3>4
  <2> QED BY <2>2, <2>3
<1>8. g = [U \in SUBSET R |-> g[U]]
  OBVIOUS
<1> HIDE DEF g
<1>9. Recursion(R, g)
  BY <1>7, <1>8 DEF Recursion
<1> QED BY <1>3, <1>9

(* So the union of any finite number of intervals is tidy.                   *)
LEMMA MergedTidy ==
  ASSUME NEW I, Intervals(I), \A e \in I : e.from <= e.to
  PROVE  Tidy(Coverage!Merged(I), I) /\ Coverage!Merged({}) = <<>>
<1>e. ASSUME NEW J, Intervals(J)
      PROVE  \E f : InOrder(J, f) /\ Coverage!Merged(J) = f[J]
  <2>1. PICK f : f = (CHOOSE g : Recursion(J, g)) /\ Coverage!Merged(J) = f[J]
    BY RecursionDefines
  <2>2. Recursion(J, f)
    BY <1>e, <2>1, RecursionIsThere
  <2> QED BY <2>1, <2>2, RecursionStep
<1>1. Coverage!Merged({}) = <<>>
  <2>1. Intervals({})
    BY IntervalsSubset
  <2> QED BY <1>e, <2>1 DEF InOrder
<1>2. PICK f : InOrder(I, f) /\ Coverage!Merged(I) = f[I]
  BY <1>e
<1> DEFINE Bad == {S \in SUBSET I : ~Tidy(f[S], S)}
<1>3. Bad = {}
  <2> SUFFICES ASSUME Bad # {} PROVE FALSE
    OBVIOUS
  <2>1. PICK S \in Bad : \A U \in Bad : U \subseteq S => U = S
    <3>1. Bad \in SUBSET SUBSET I /\ IsFiniteSet(I)
      BY DEF Intervals
    <3> HIDE DEF Bad
    <3> QED BY <3>1, SmallestSubset
  <2>2. S \in SUBSET I /\ ~Tidy(f[S], S)
    BY <2>1
  <2>3. S # {}
    <3>1. <<>> \in Seq(Interval) /\ Len(<<>>) = 0
      OBVIOUS
    <3>2. Tidy(<<>>, {})
      BY <3>1 DEF Tidy, Holds, Spans
    <3> QED BY <1>2, <2>2, <3>2 DEF InOrder
  <2> DEFINE last == LastIn(S)
             U == S \ {last}
  <2>4. Intervals(S) /\ last \in S /\ \A e \in S : e = last \/ Coverage!Before(e, last)
    BY <2>2, <2>3, IntervalsSubset, OneIsLast DEF Intervals
  <2>5. U \in SUBSET I /\ U \subseteq S /\ U # S
    BY <2>2, <2>4
  <2>6. Tidy(f[U], U)
    BY <2>1, <2>5
  <2>7. f[S] = Coverage!Merge(f[U], last)
    BY <1>2, <2>2, <2>3 DEF InOrder
  <2>8. /\ U \in SUBSET Interval /\ last \in Interval /\ last.from <= last.to
        /\ Coverage!DaysConsecutive
    BY <2>2, <2>4 DEF Intervals
  <2>9. ASSUME NEW e \in U PROVE e.from <= last.from
    <3>1. Coverage!Before(e, last) /\ e \in Interval
      BY <2>4, <2>8
    <3>2. e.from \in Nat /\ last.from \in Nat
      BY <2>8, <3>1 DEF Interval, Coverage!DaysConsecutive
    <3> QED BY <3>1, <3>2 DEF Coverage!Before
  <2>10. U \cup {last} = S
    BY <2>4
  <2> HIDE DEF U, last
  <2>11. Tidy(Coverage!Merge(f[U], last), U \cup {last})
    BY <2>6, <2>8, <2>9, MergeTidy
  <2> QED BY <2>2, <2>7, <2>10, <2>11
<1>4. Tidy(f[I], I)
  BY <1>3
<1> QED BY <1>1, <1>2, <1>4

(* Coverage is backed by entries: what a statement says it begins with and   *)
(* ends with, it holds all the bank has of.                                  *)
Statement == [account : Accounts, from : CoverDays \cup {None}, to : CoverDays]

Within(e, b) == b.account = e.account /\ e.from <= b.day /\ b.day <= e.to

CoverageInv ==
  /\ IsFiniteSet(covers)
  /\ covers \subseteq Statement
  /\ held \subseteq InBank
  /\ known \subseteq Accounts
  /\ \A e \in covers : e.from # None => \A b \in InBank : Within(e, b) => b \in held

LEMMA CoverageInit == Coverage!Init => CoverageInv
BY FS_EmptySet DEF Coverage!Init, CoverageInv

(* The last entry found is a day of the books, and no entry found is later.  *)
LEMMA LastFound ==
  ASSUME Coverage!Assumed, NEW from \in CoverDays, NEW to \in CoverDays, NEW S \in SUBSET (from..to), S # {}
  PROVE  /\ Coverage!LastOf(S) \in S /\ Coverage!LastOf(S) \in CoverDays
         /\ \A d \in S : d <= Coverage!LastOf(S)
<1>1. from \in Nat /\ to \in Nat /\ from..to \subseteq CoverDays
  BY DEF Coverage!Assumed, Coverage!DaysConsecutive
<1>2. S \in SUBSET (0..to)
  BY <1>1
<1>3. \E m \in S : \A d \in S : d <= m
  BY <1>1, <1>2, Greatest
<1> QED BY <1>1, <1>3 DEF Coverage!LastOf

LEMMA CoverageStep ==
  ASSUME Coverage!Assumed, CoverageInv, Coverage!Next
  PROVE  CoverageInv'
<1>1. ASSUME NEW a \in Accounts, NEW from \in CoverDays, NEW to \in CoverDays, NEW said \in BOOLEAN,
             NEW ended \in BOOLEAN, Coverage!Read(a, from, to, said, ended),
             known' = known \cup {a}
      PROVE  CoverageInv'
  <2> DEFINE found == {b \in InBank : b.account = a /\ b.day \in from..to}
             days == {b.day : b \in found}
             upto == IF ended THEN to ELSE Coverage!LastOf(days)
             new == [account |-> a, from |-> IF said THEN from ELSE None, to |-> upto]
  <2>1. found # {} /\ held' = held \cup found /\ covers' = covers \cup {new}
    BY <1>1 DEF Coverage!Read
  <2>2. days \in SUBSET (from..to) /\ days # {}
    BY <2>1
  <2>3. upto \in CoverDays /\ upto <= to /\ \A d \in days : d <= upto
    <3>0. from \in Nat /\ to \in Nat
      BY DEF Coverage!Assumed, Coverage!DaysConsecutive
    <3>1. CASE ended
      BY <2>2, <3>0, <3>1
    <3>2. CASE ~ended
      <4> HIDE DEF days
      <4>1. /\ Coverage!LastOf(days) \in days /\ Coverage!LastOf(days) \in CoverDays
            /\ \A d \in days : d <= Coverage!LastOf(days)
        BY <2>2, LastFound
      <4>2. Coverage!LastOf(days) \in from..to
        BY <2>2, <4>1
      <4> QED BY <3>0, <3>2, <4>1, <4>2
    <3> QED BY <3>1, <3>2
  <2>4. new \in Statement
    <3> HIDE DEF upto
    <3> QED BY <2>3 DEF Statement
  <2>5. IsFiniteSet(covers')
    <3>1. IsFiniteSet(covers \cup {new})
      BY FS_AddElement DEF CoverageInv
    <3> QED BY <2>1, <3>1
  <2>6. held' \subseteq InBank
    BY <2>1 DEF CoverageInv
  <2>7. ASSUME NEW e \in covers', e.from # None, NEW b \in InBank, Within(e, b)
        PROVE  b \in held'
    <3>1. CASE e \in covers
      BY <2>1, <2>7, <3>1 DEF CoverageInv
    <3>2. CASE e = new
      <4>1. e.from = from /\ e.account = a /\ e.to = upto
        <5> HIDE DEF upto
        <5> QED BY <2>7, <3>2
      <4>2. from \in Nat /\ to \in Nat /\ upto \in Nat /\ b.day \in Nat
        BY <2>3 DEF Coverage!Assumed, Coverage!DaysConsecutive, Coverage!BankEntries
      <4>3. b.account = a /\ b.day \in from..to
        <5> HIDE DEF upto
        <5> QED BY <2>3, <2>7, <4>1, <4>2 DEF Within
      <4> QED BY <2>1, <4>3
    <3> QED BY <2>1, <3>1, <3>2
  <2>8. covers' \subseteq Statement /\ known' \subseteq Accounts
    <3> HIDE DEF new
    <3> QED BY <1>1, <2>1, <2>4 DEF CoverageInv
  <2> HIDE DEF new, found
  <2> QED BY <2>5, <2>6, <2>7, <2>8 DEF CoverageInv
<1>2. CASE Coverage!ReadStatement
  BY <1>1, <1>2 DEF Coverage!ReadStatement
<1>3. CASE Coverage!AddAccount
  BY <1>3 DEF Coverage!AddAccount, CoverageInv, Within
<1> QED BY <1>2, <1>3 DEF Coverage!Next

(* What is proved of an account is just what its statements say.             *)
Said(a) == {[from |-> e.from, to |-> e.to] :
  e \in {e \in covers : e.account = a /\ e.from # None /\ e.from <= e.to}}

LEMMA SaidIntervals ==
  ASSUME Coverage!Assumed, CoverageInv, NEW a
  PROVE  /\ Intervals(Said(a)) /\ \A e \in Said(a) : e.from <= e.to
         /\ \A d \in Nat : Spans(Said(a), d) <=>
              \E e \in covers : e.account = a /\ e.from # None /\ e.from <= d /\ d <= e.to
<1> DEFINE S == {e \in covers : e.account = a /\ e.from # None /\ e.from <= e.to}
           f == [e \in S |-> [from |-> e.from, to |-> e.to]]
<1>1. \A e \in covers : e.from # None => e.from \in CoverDays /\ e.from \in Nat /\ e.to \in CoverDays /\ e.to \in Nat
  BY DEF CoverageInv, Statement, Coverage!Assumed, Coverage!DaysConsecutive
<1>2. IsFiniteSet(Said(a))
  <2>1. IsFiniteSet(S)
    BY FS_Subset DEF CoverageInv
  <2>2. f \in Surjection(S, Said(a))
    BY DEF Surjection, Said
  <2> HIDE DEF S, f
  <2> QED BY <2>1, <2>2, FS_Surjection
<1>3. ASSUME NEW i \in Said(a)
      PROVE  i \in Interval /\ i.from <= i.to
  <2>1. PICK e \in S : i = [from |-> e.from, to |-> e.to]
    BY DEF Said
  <2> QED BY <1>1, <2>1 DEF Interval
<1>4. ASSUME NEW d \in Nat
      PROVE  Spans(Said(a), d) <=>
              \E e \in covers : e.account = a /\ e.from # None /\ e.from <= d /\ d <= e.to
  <2>1. ASSUME Spans(Said(a), d)
        PROVE  \E e \in covers : e.account = a /\ e.from # None /\ e.from <= d /\ d <= e.to
    <3>1. PICK i \in Said(a) : i.from <= d /\ d <= i.to
      BY <2>1 DEF Spans
    <3>2. PICK e \in S : i = [from |-> e.from, to |-> e.to]
      BY DEF Said
    <3> QED BY <3>1, <3>2
  <2>2. ASSUME NEW e \in covers, e.account = a, e.from # None, e.from <= d, d <= e.to
        PROVE  Spans(Said(a), d)
    <3>1. e \in S
      BY <1>1, <2>2
    <3> DEFINE i == [from |-> e.from, to |-> e.to]
    <3>2. i \in Said(a)
      BY <3>1 DEF Said
    <3>3. i.from <= d /\ d <= i.to
      BY <2>2
    <3> QED BY <3>2, <3>3 DEF Spans
  <2> QED BY <2>1, <2>2
<1> QED BY <1>2, <1>3, <1>4 DEF Intervals, Coverage!Assumed

LEMMA ProvenTidy ==
  ASSUME Coverage!Assumed, CoverageInv, NEW a
  PROVE  Tidy(Coverage!Proven(a), Said(a)) /\ (Said(a) = {} => Coverage!Proven(a) = <<>>)
<1>1. Coverage!Proven(a) = Coverage!Merged(Said(a))
  BY DEF Coverage!Proven, Said
<1>2. Intervals(Said(a)) /\ \A e \in Said(a) : e.from <= e.to
  BY SaidIntervals
<1> QED BY <1>1, <1>2, MergedTidy

(* And what covers a month is some of it.                                    *)
LEMMA CoversTidy ==
  ASSUME Coverage!Assumed, NEW m, NEW S, Tidy(m, S), NEW first \in CoverDays, NEW last \in CoverDays,
         first <= last, Coverage!Covers(m, first, last)
  PROVE  \A d \in first..last : Spans(S, d)
<1>0. /\ m \in Seq(Interval) /\ \A i \in 1..Len(m) : m[i].from <= m[i].to
      /\ \A d \in Nat : Holds(m, d) <=> Spans(S, d)
  BY DEF Tidy
<1>1. Len(m) \in Nat /\ \A i \in 1..Len(m) : m[i] \in Interval
  BY <1>0
<1> DEFINE I == Coverage!ToSet(m)
<1>2. I = {m[i] : i \in 1..Len(m)}
  BY <1>0 DEF Coverage!ToSet
<1>3. Intervals(I) /\ \A e \in I : e.from <= e.to
  <2> DEFINE f == [i \in 1..Len(m) |-> m[i]]
  <2>1. f \in Surjection(1..Len(m), I)
    BY <1>2 DEF Surjection
  <2>2. IsFiniteSet(1..Len(m))
    BY <1>1, FS_Interval
  <2>3. IsFiniteSet(I)
    <3> HIDE DEF f, I
    <3> QED BY <2>1, <2>2, FS_Surjection
  <2>4. I \in SUBSET Interval /\ \A e \in I : e.from <= e.to
    <3> HIDE DEF I
    <3> QED BY <1>0, <1>1, <1>2
  <2> QED BY <2>3, <2>4 DEF Intervals, Coverage!Assumed
<1> DEFINE merged == Coverage!Merged(I)
<1>4. Tidy(merged, I)
  BY <1>3, MergedTidy
<1>5. PICK i \in 1..Len(merged) : merged[i].from <= first /\ merged[i].to >= last
  BY DEF Coverage!Covers
<1>6. merged[i].from \in Nat /\ merged[i].to \in Nat /\ first \in Nat /\ last \in Nat
  <2>1. merged \in Seq(Interval)
    BY <1>4 DEF Tidy
  <2>2. merged[i] \in Interval
    <3> HIDE DEF merged
    <3> QED BY <1>5, <2>1
  <2> QED BY <2>2 DEF Interval, Coverage!Assumed, Coverage!DaysConsecutive
<1>7. ASSUME NEW d \in first..last PROVE Spans(S, d)
  <2>1. d \in Nat /\ merged[i].from <= d /\ d <= merged[i].to
    <3> HIDE DEF merged
    <3> QED BY <1>5, <1>6
  <2>2. Spans(I, d)
    <3>1. Holds(merged, d)
      BY <1>5, <2>1 DEF Holds
    <3> QED BY <1>4, <2>1, <3>1 DEF Tidy
  <2>3. PICK e \in I : e.from <= d /\ d <= e.to
    BY <2>2 DEF Spans
  <2>4. Holds(m, d)
    <3> HIDE DEF I
    <3> QED BY <1>2, <2>3 DEF Holds
  <2> QED BY <1>0, <2>1, <2>4
<1> QED BY <1>7

LEMMA MonthCovered ==
  ASSUME Coverage!Assumed, CoverageInv, NEW m \in Coverage!Complete, NEW a \in known,
         Coverage!Participates(a, m)
  PROVE  /\ m \in Months /\ m.first \in CoverDays /\ m.last \in CoverDays /\ m.first <= m.last
         /\ \A d \in m.first..m.last : Spans(Said(a), d)
<1>1. m \in Months /\ m.first \in CoverDays /\ m.last \in CoverDays /\ m.first <= m.last
  BY DEF Coverage!Complete, Coverage!Assumed, Coverage!MonthsOfDays
<1>2. Coverage!Covers(Coverage!Proven(a), m.first, m.last)
  BY DEF Coverage!Complete
<1> QED BY <1>1, <1>2, ProvenTidy, CoversTidy

LEMMA CoverageHolds ==
  ASSUME Coverage!Assumed, CoverageInv
  PROVE  Coverage!MonthsHonest /\ Coverage!UnknownExcludes /\ Coverage!MergedExactly
<1>0. /\ CoverDays \subseteq Nat /\ \A d, e \in CoverDays : d..e \subseteq CoverDays
      /\ \A b \in InBank : b.day \in CoverDays
      /\ \A e \in covers : e.from \in CoverDays \cup {None} /\ e.to \in CoverDays
  BY DEF Coverage!Assumed, Coverage!DaysConsecutive, Coverage!BankEntries, CoverageInv, Statement
<1>1. Coverage!MonthsHonest
  <2> SUFFICES ASSUME NEW m \in Coverage!Complete, NEW b \in InBank, b.day \in m.first..m.last,
                      b.account \in known, Coverage!Participates(b.account, m)
               PROVE  b \in held
    BY DEF Coverage!MonthsHonest
  <2>1. Spans(Said(b.account), b.day) /\ b.day \in Nat
    BY <1>0, MonthCovered
  <2>2. PICK e \in covers : e.account = b.account /\ e.from # None /\ e.from <= b.day /\ b.day <= e.to
    BY <2>1, SaidIntervals
  <2> QED BY <2>2 DEF CoverageInv, Within
<1>2. Coverage!UnknownExcludes
  <2> SUFFICES ASSUME NEW a \in known, Coverage!Seen(a) = {}, NEW m \in Coverage!Complete
               PROVE  FALSE
    BY DEF Coverage!UnknownExcludes
  <2>1. Coverage!Participates(a, m)
    BY DEF Coverage!Participates
  <2>2. m.first \in m.first..m.last /\ m.first \in Nat
    <3>1. m.first \in CoverDays /\ m.last \in CoverDays /\ m.first <= m.last
      BY <2>1, MonthCovered
    <3>2. m.first \in Nat /\ m.last \in Nat
      BY <1>0, <3>1
    <3> QED BY <3>1, <3>2
  <2>3. Spans(Said(a), m.first)
    BY <2>1, <2>2, MonthCovered
  <2>4. PICK e \in covers : e.account = a
    BY <2>2, <2>3, SaidIntervals
  <2>5. (IF e.from = None THEN e.to ELSE e.from) \in Coverage!Seen(a)
    BY <2>4 DEF Coverage!Seen
  <2> QED BY <2>5
<1>3. Coverage!MergedExactly
  <2> SUFFICES ASSUME NEW a \in Accounts
               PROVE  /\ \A i \in 1..Len(Coverage!Proven(a)) :
                           Coverage!Proven(a)[i].from <= Coverage!Proven(a)[i].to
                      /\ \A i \in 2..Len(Coverage!Proven(a)) :
                           Coverage!Proven(a)[i].from > Coverage!Proven(a)[i - 1].to + 1
                      /\ UNION {Coverage!Proven(a)[i].from..Coverage!Proven(a)[i].to :
                                  i \in 1..Len(Coverage!Proven(a))} = Coverage!Covered(a)
    BY DEF Coverage!MergedExactly
  <2> DEFINE m == Coverage!Proven(a)
             all == UNION {m[i].from..m[i].to : i \in 1..Len(m)}
  <2>1. /\ m \in Seq(Interval)
        /\ \A i \in 1..Len(m) : m[i].from <= m[i].to
        /\ \A i \in 2..Len(m) : m[i].from > m[i - 1].to + 1
        /\ \A d \in Nat : Holds(m, d) <=> Spans(Said(a), d)
    BY ProvenTidy DEF Tidy
  <2> HIDE DEF m
  <2>2. \A i \in 1..Len(m) : m[i] \in Interval
    BY <2>1
  <2>3. \A i \in 1..Len(m) : m[i].from \in CoverDays /\ m[i].to \in CoverDays
    BY <2>2 DEF Interval
  <2>4. ASSUME NEW d \in all PROVE d \in Coverage!Covered(a)
    <3>1. PICK i \in 1..Len(m) : d \in m[i].from..m[i].to
      OBVIOUS
    <3>2. d \in CoverDays /\ d \in Nat /\ m[i].from <= d /\ d <= m[i].to
      <4>1. m[i].from..m[i].to \subseteq CoverDays /\ m[i].from \in Nat /\ m[i].to \in Nat
        BY <1>0, <2>3
      <4> QED BY <3>1, <4>1
    <3>3. Spans(Said(a), d)
      BY <2>1, <3>2 DEF Holds
    <3>4. PICK e \in covers : e.account = a /\ e.from # None /\ e.from <= d /\ d <= e.to
      BY <3>2, <3>3, SaidIntervals
    <3>5. d \in e.from..e.to
      BY <1>0, <3>2, <3>4
    <3> QED BY <3>2, <3>4, <3>5 DEF Coverage!Covered
  <2>5. ASSUME NEW d \in Coverage!Covered(a) PROVE d \in all
    <3>1. PICK e \in covers : d \in CoverDays /\ e.account = a /\ e.from # None /\ d \in e.from..e.to
      BY <2>5 DEF Coverage!Covered
    <3>2. d \in Nat /\ e.from <= d /\ d <= e.to
      BY <1>0, <3>1
    <3>3. Spans(Said(a), d)
      BY <3>1, <3>2, SaidIntervals
    <3>4. PICK i \in 1..Len(m) : m[i].from <= d /\ d <= m[i].to
      BY <2>1, <3>2, <3>3 DEF Holds
    <3>5. d \in m[i].from..m[i].to
      BY <1>0, <2>3, <3>2, <3>4
    <3> QED BY <3>5
  <2>6. all = Coverage!Covered(a)
    BY <2>4, <2>5
  <2> QED BY <2>1, <2>6 DEF m
<1> QED BY <1>1, <1>2, <1>3

(* For any accounts, months and entries of the bank, and statements read in  *)
(* any order, overlapping or not, with or without what they should say: no   *)
(* month is taken for complete of which an entry is missing, an account      *)
(* nothing is known of leaves none complete, and what is proved of an        *)
(* account is just what its statements cover.                                *)
THEOREM CoverageHonestHolds == MCSpec => []CoverageHonest
<1>1. MCInit => CoverageInv
  BY CoverageInit DEF MCInit
<1>2. CoverageInv /\ [MCNext]_<<vars, coverageVars, anchorVars, part>> => CoverageInv'
  <2> SUFFICES ASSUME CoverageInv, [MCNext]_<<vars, coverageVars, anchorVars, part>>
               PROVE  CoverageInv'
    OBVIOUS
  <2>1. CASE Coverage!Next
    BY <2>1, CoverageAssumed, CoverageStep
  <2>2. CASE UNCHANGED coverageVars
    BY <2>2 DEF coverageVars, CoverageInv, Within
  <2> QED BY <2>1, <2>2 DEF MCNext
<1>3. CoverageInv => CoverageHonest
  BY CoverageAssumed, CoverageHolds DEF CoverageHonest
<1> QED BY <1>1, <1>2, <1>3, PTL DEF MCSpec

-----------------------------------------------------------------------------
(* Anchors.  Sums, balances and the anchor that stands are functions defined *)
(* over 0..n, each value from the one before it: there is such a function.   *)
Steps(N, base, step, f) ==
  f[0] = base /\ \A i \in 1..N : f[i] = step[<<f[i - 1], i>>]

LEMMA StepsAreThere ==
  ASSUME NEW N \in Nat, NEW V, NEW base \in V, NEW step \in [V \X (1..N) -> V]
  PROVE  \E f \in [0..N -> V] : Steps(N, base, step, f)
<1> DEFINE Good(n) == \E f \in [0..n -> V] : Steps(n, base, step, f)
           Bad == {n \in 0..N : ~Good(n)}
<1>1. SUFFICES ASSUME Bad # {} PROVE FALSE
  <2>1. N \in 0..N
    OBVIOUS
  <2> QED BY <2>1
<1>2. PICK n \in Bad : \A k \in Bad : n <= k
  <2>1. Bad \in SUBSET Nat
    OBVIOUS
  <2> HIDE DEF Bad
  <2> QED BY <1>1, <2>1, Least
<1>3. n \in 0..N /\ ~Good(n)
  BY <1>2
<1>4. n # 0
  <2> DEFINE f == [i \in 0..0 |-> base]
  <2>1. f \in [0..0 -> V] /\ Steps(0, base, step, f)
    BY DEF Steps
  <2>2. Good(0)
    BY <2>1
  <2> QED BY <1>3, <2>2
<1>5. n - 1 \in 0..N /\ n \in 1..N /\ n - 1 \in Nat
  BY <1>3, <1>4
<1>6. Good(n - 1)
  <2>1. n - 1 \notin Bad
    BY <1>2, <1>5
  <2> QED BY <1>5, <2>1
<1>7. PICK f \in [0..(n - 1) -> V] : Steps(n - 1, base, step, f)
  BY <1>6
<1> DEFINE g == [i \in 0..n |-> IF i = n THEN step[<<f[n - 1], n>>] ELSE f[i]]
<1>8. f[n - 1] \in V /\ <<f[n - 1], n>> \in V \X (1..N)
  BY <1>5, <1>7
<1>9. step[<<f[n - 1], n>>] \in V
  BY <1>8
<1>10. \A i \in 0..n : g[i] \in V
  <2> TAKE i \in 0..n
  <2>1. CASE i = n
    BY <1>9, <2>1
  <2>2. CASE i # n
    <3>1. i \in 0..(n - 1)
      BY <1>5, <2>2
    <3> QED BY <1>7, <2>2, <3>1
  <2> QED BY <2>1, <2>2
<1>11. g \in [0..n -> V]
  BY <1>10
<1>12. Steps(n, base, step, g)
  <2>1. g[0] = base
    BY <1>4, <1>5, <1>7 DEF Steps
  <2>2. ASSUME NEW i \in 1..n PROVE g[i] = step[<<g[i - 1], i>>]
    <3>1. i - 1 \in 0..n /\ i - 1 # n /\ i \in 0..n
      BY <1>5
    <3>2. g[i - 1] = f[i - 1]
      BY <3>1
    <3>3. CASE i = n
      BY <3>1, <3>2, <3>3
    <3>4. CASE i # n
      <4>1. i \in 1..(n - 1)
        BY <1>5, <3>4
      <4>2. f[i] = step[<<f[i - 1], i>>]
        BY <1>7, <4>1 DEF Steps
      <4> QED BY <3>1, <3>2, <3>4, <4>2
    <3> QED BY <3>3, <3>4
  <2> HIDE DEF g
  <2> QED BY <2>1, <2>2 DEF Steps
<1> QED BY <1>3, <1>11, <1>12

LEMMA AnchorsTyped ==
  /\ LastDay \in Nat \ {0} /\ Moves \in [1..LastDay -> Int] /\ Opening \in Int
  /\ Wrong \subseteq Int /\ None \notin 1..LastDay /\ Anchors!Days = 1..LastDay
BY AnchorsAssumed DEF Anchors!Assumed, Anchors!MovesOfDays, Anchors!WrongIsInt,
   Anchors!NoneIsNone, Anchors!Days

(* What the bank has, day by day.                                            *)
LEMMA BankIs ==
  /\ Anchors!Bank \in [0..LastDay -> Int]
  /\ \A d \in 1..LastDay : Anchors!Bank[d] = Anchors!Bank[d - 1] + Moves[d]
<1> DEFINE step == [p \in Int \X (1..LastDay) |-> p[1] + Moves[p[2]]]
           Rec(f) == f = [d \in 0..LastDay |-> IF d = 0 THEN Opening ELSE f[d - 1] + Moves[d]]
<1>1. step \in [Int \X (1..LastDay) -> Int]
  BY AnchorsTyped
<1>2. PICK f \in [0..LastDay -> Int] : Steps(LastDay, Opening, step, f)
  <2> HIDE DEF step
  <2> QED BY <1>1, AnchorsTyped, StepsAreThere
<1>3. \A d \in 1..LastDay : d - 1 \in 0..LastDay /\ f[d - 1] \in Int
  BY <1>2, AnchorsTyped
<1>4. \A d \in 1..LastDay : f[d] = f[d - 1] + Moves[d]
  BY <1>2, <1>3 DEF Steps
<1>5. Rec(f)
  <2>1. \A d \in 0..LastDay : f[d] = IF d = 0 THEN Opening ELSE f[d - 1] + Moves[d]
    BY <1>2, <1>4, AnchorsTyped DEF Steps
  <2> QED BY <1>2, <2>1
<1>6. Anchors!Bank = CHOOSE g : Rec(g)
  BY DEF Anchors!Bank
<1>7. Rec(Anchors!Bank)
  <2> HIDE DEF Rec
  <2> QED BY <1>5, <1>6
<1> DEFINE b == Anchors!Bank
<1>8. b = [d \in 0..LastDay |-> IF d = 0 THEN Opening ELSE b[d - 1] + Moves[d]]
  BY <1>7
<1> HIDE DEF b
<1>9. \A d \in 0..LastDay : b[d] = IF d = 0 THEN Opening ELSE b[d - 1] + Moves[d]
  BY <1>8
<1>10. \A d \in 0..LastDay : b[d] = f[d]
  <2> DEFINE Bad == {d \in 0..LastDay : b[d] # f[d]}
  <2> SUFFICES ASSUME Bad # {} PROVE FALSE
    OBVIOUS
  <2>1. PICK d \in Bad : \A e \in Bad : d <= e
    <3>1. Bad \in SUBSET Nat
      OBVIOUS
    <3> HIDE DEF Bad
    <3> QED BY <3>1, Least
  <2>2. d # 0
    BY <1>2, <1>9, <2>1 DEF Steps
  <2>3. d \in 1..LastDay /\ d - 1 \in 0..LastDay
    BY <2>1, <2>2, AnchorsTyped
  <2>4. b[d - 1] = f[d - 1]
    BY <2>1, <2>3
  <2> QED BY <1>4, <1>9, <2>1, <2>2, <2>3, <2>4
<1>11. b = f
  BY <1>2, <1>8, <1>10
<1> QED BY <1>2, <1>4, <1>11 DEF b

(* What moved of it, as far as it is held: a sum that begins with nothing.   *)
HeldOn(d) == IF d \in heldDays THEN Moves[d] ELSE 0

LEMMA MovedIs ==
  \E sum \in [0..LastDay -> Int] :
    /\ sum[0] = 0
    /\ \A d \in 1..LastDay : sum[d] = sum[d - 1] + HeldOn(d)
    /\ \A d \in 0..LastDay : Anchors!Moved(0, d) = sum[d]
<1> DEFINE step == [p \in Int \X (1..LastDay) |-> p[1] + HeldOn(p[2])]
           Rec(n, f) == f = [d \in 0..n |-> IF d = 0 THEN 0 ELSE f[d - 1] + HeldOn(d)]
<1>0. \A d \in 1..LastDay : HeldOn(d) \in Int
  BY AnchorsTyped DEF HeldOn
<1>1. step \in [Int \X (1..LastDay) -> Int]
  BY <1>0
<1>2. PICK sum \in [0..LastDay -> Int] : Steps(LastDay, 0, step, sum)
  <2>1. 0 \in Int /\ LastDay \in Nat
    BY AnchorsTyped
  <2> HIDE DEF step
  <2> QED BY <1>1, <2>1, StepsAreThere
<1>3. \A d \in 1..LastDay : d - 1 \in 0..LastDay /\ sum[d - 1] \in Int
  BY <1>2, AnchorsTyped
<1>4. \A d \in 1..LastDay : sum[d] = sum[d - 1] + HeldOn(d)
  BY <1>2, <1>3 DEF Steps
<1>5. ASSUME NEW n \in 0..LastDay
      PROVE  Anchors!Moved(0, n) = sum[n]
  <2> DEFINE f == [d \in 0..n |-> sum[d]]
  <2>0. n \in Nat /\ n <= LastDay /\ 0..n \subseteq 0..LastDay
    BY AnchorsTyped
  <2>1. Rec(n, f)
    <3>1. ASSUME NEW d \in 0..n
          PROVE  sum[d] = IF d = 0 THEN 0 ELSE f[d - 1] + HeldOn(d)
      <4>1. CASE d = 0
        BY <1>2, <4>1 DEF Steps
      <4>2. CASE d # 0
        <5>1. d \in 1..LastDay /\ d - 1 \in 0..n
          BY <2>0, <4>2
        <5> QED BY <1>4, <4>2, <5>1
      <4> QED BY <4>1, <4>2
    <3> QED BY <3>1
  <2>2. PICK g : g = (CHOOSE h : Rec(n, h)) /\ Anchors!Moved(0, n) = g[n]
    <3> DEFINE moved[d \in 0..n] == IF d = 0 THEN 0 ELSE moved[d - 1] + HeldOn(d)
    <3>1. Anchors!Moved(0, n) = moved[n]
      BY DEF Anchors!Moved, HeldOn
    <3>2. moved = CHOOSE h : Rec(n, h)
      OBVIOUS
    <3> QED BY <3>1, <3>2
  <2>3. Rec(n, g)
    <3> HIDE DEF Rec
    <3> QED BY <2>1, <2>2
  <2>4. \A d \in 0..n : g[d] = IF d = 0 THEN 0 ELSE g[d - 1] + HeldOn(d)
    BY <2>3
  <2> DEFINE Bad == {d \in 0..n : g[d] # sum[d]}
  <2>5. Bad = {}
    <3> SUFFICES ASSUME Bad # {} PROVE FALSE
      OBVIOUS
    <3>1. PICK d \in Bad : \A e \in Bad : d <= e
      <4>1. Bad \in SUBSET Nat
        BY <2>0
      <4> HIDE DEF Bad
      <4> QED BY <4>1, Least
    <3>2. d # 0
      BY <1>2, <2>4, <3>1 DEF Steps
    <3>3. d \in 1..LastDay /\ d - 1 \in 0..n /\ d \in 0..n
      BY <2>0, <3>1, <3>2
    <3>4. g[d - 1] = sum[d - 1]
      BY <3>1, <3>3
    <3> QED BY <1>4, <2>4, <3>1, <3>2, <3>3, <3>4
  <2>6. n \in 0..n
    BY <2>0
  <2> QED BY <2>2, <2>5, <2>6
<1> QED BY <1>2, <1>4, <1>5 DEF Steps

(* A function each of whose values comes from the one before it stays where  *)
(* it begins.                                                                *)
StepsInside(N, V, base, step, g) ==
  g[0] = base /\ \A i \in 1..N : g[i - 1] \in V => g[i] = step[<<g[i - 1], i>>]

LEMMA StepsStay ==
  ASSUME NEW N \in Nat, NEW V, NEW base \in V, NEW step \in [V \X (1..N) -> V], NEW g,
         StepsInside(N, V, base, step, g)
  PROVE  \A i \in 0..N : g[i] \in V
<1> DEFINE Bad == {i \in 0..N : g[i] \notin V}
<1> SUFFICES ASSUME Bad # {} PROVE FALSE
  OBVIOUS
<1>1. PICK i \in Bad : \A k \in Bad : i <= k
  <2>1. Bad \in SUBSET Nat
    OBVIOUS
  <2> HIDE DEF Bad
  <2> QED BY <2>1, Least
<1>2. i \in 1..N /\ i - 1 \in 0..N /\ ~(i <= i - 1)
  BY <1>1 DEF StepsInside
<1>3. g[i - 1] \in V
  BY <1>1, <1>2
<1>4. <<g[i - 1], i>> \in V \X (1..N)
  BY <1>2, <1>3
<1>5. step[<<g[i - 1], i>>] \in V
  BY <1>4
<1> QED BY <1>1, <1>2, <1>3, <1>5 DEF StepsInside

(* Of two days between which every movement is held, the sums differ as the  *)
(* bank's figures do.                                                        *)
LEMMA HeldDifference ==
  ASSUME NEW a \in 0..LastDay, NEW d \in 0..LastDay, a <= d,
         Anchors!Booked(a + 1, d) \subseteq heldDays
  PROVE  Anchors!Moved(0, d) - Anchors!Moved(0, a) = Anchors!Bank[d] - Anchors!Bank[a]
<1> DEFINE bank == Anchors!Bank
<1>1. bank \in [0..LastDay -> Int] /\ \A e \in 1..LastDay : bank[e] = bank[e - 1] + Moves[e]
  BY BankIs
<1>2. PICK sum \in [0..LastDay -> Int] :
        /\ \A e \in 1..LastDay : sum[e] = sum[e - 1] + HeldOn(e)
        /\ \A e \in 0..LastDay : Anchors!Moved(0, e) = sum[e]
  BY MovedIs
<1> HIDE DEF bank
<1> DEFINE Bad == {e \in a..d : sum[e] - sum[a] # bank[e] - bank[a]}
<1>3. Bad = {}
  <2> SUFFICES ASSUME Bad # {} PROVE FALSE
    OBVIOUS
  <2>1. PICK e \in Bad : \A k \in Bad : e <= k
    <3>1. Bad \in SUBSET Nat
      OBVIOUS
    <3> HIDE DEF Bad
    <3> QED BY <3>1, Least
  <2>2. e \in a..d /\ e # a
    BY <1>1, <1>2, <2>1
  <2>3. e \in 1..LastDay /\ e - 1 \in a..d /\ e - 1 \in 0..LastDay /\ e \in (a + 1)..d
    BY <2>2, AnchorsTyped
  <2>4. sum[e - 1] - sum[a] = bank[e - 1] - bank[a]
    BY <2>1, <2>3
  <2>5. HeldOn(e) = Moves[e]
    BY <2>3 DEF HeldOn, Anchors!Booked
  <2>6. sum[e] = sum[e - 1] + Moves[e] /\ bank[e] = bank[e - 1] + Moves[e]
    BY <1>1, <1>2, <2>3, <2>5
  <2>7. sum[e - 1] \in Int /\ sum[a] \in Int /\ bank[e - 1] \in Int /\ bank[a] \in Int /\ Moves[e] \in Int
    BY <1>1, <1>2, <2>3, AnchorsTyped
  <2>8. sum[e] - sum[a] # bank[e] - bank[a]
    BY <2>1
  <2> QED BY <2>4, <2>6, <2>7, <2>8
<1>4. d \in a..d
  OBVIOUS
<1>5. sum[d] - sum[a] = bank[d] - bank[a]
  BY <1>3, <1>4
<1> QED BY <1>2, <1>5 DEF bank

(* An anchor; the bank's say what the bank had that day.                     *)
Anchor == [day : 0..LastDay, amount : Int, source : {"bank", "manual"}, id : Nat]
TrueAnchor == {a \in Anchor : a.source = "bank" => a.amount = Anchors!Bank[a.day]}
BankAnchor == {a \in TrueAnchor : a.source = "bank"}
Row == [date : 0..(LastDay + 1), amount : Int]

(* The starting row the anchor that stands must have.                        *)
Technical(a) == a.amount - Anchors!Moved(0, a.day)
DateOf(a) ==
  IF Anchors!FirstHeld # None /\ Anchors!FirstHeld < a.day THEN Anchors!FirstHeld ELSE a.day
Applied(a) == starting = <<[date |-> DateOf(a), amount |-> Technical(a)]>>

LEMMA FirstHeldIs ==
  ASSUME heldDays \subseteq 1..LastDay
  PROVE  \/ heldDays = {} /\ Anchors!FirstHeld = None
         \/ /\ heldDays # {} /\ Anchors!FirstHeld \in heldDays /\ Anchors!FirstHeld # None
            /\ \A e \in heldDays : Anchors!FirstHeld <= e
<1>1. CASE heldDays = {}
  BY <1>1 DEF Anchors!FirstHeld
<1>2. CASE heldDays # {}
  <2>1. \E d \in heldDays : \A e \in heldDays : d <= e
    <3>1. heldDays \in SUBSET Nat
      BY AnchorsTyped
    <3> QED BY <1>2, <3>1, Least
  <2>2. Anchors!FirstHeld = CHOOSE d \in heldDays : \A e \in heldDays : d <= e
    BY <1>2 DEF Anchors!FirstHeld
  <2> QED BY <1>2, <2>1, <2>2, AnchorsTyped
<1> QED BY <1>1, <1>2

LEMMA RowTyped ==
  ASSUME heldDays \subseteq 1..LastDay, NEW a \in TrueAnchor
  PROVE  /\ a.day \in 0..LastDay /\ a.amount \in Int
         /\ Technical(a) \in Int
         /\ DateOf(a) \in 0..LastDay /\ DateOf(a) <= a.day
         /\ heldDays # {} => (DateOf(a) <= Anchors!FirstHeld \/ DateOf(a) = a.day)
<1>1. a.day \in 0..LastDay /\ a.amount \in Int
  BY DEF TrueAnchor, Anchor
<1>2. Anchors!Moved(0, a.day) \in Int
  BY <1>1, MovedIs
<1>3. Technical(a) \in Int
  BY <1>1, <1>2 DEF Technical
<1> DEFINE first == Anchors!FirstHeld
<1>4. CASE heldDays = {} /\ first = None
  BY <1>1, <1>3, <1>4 DEF DateOf
<1>5. CASE heldDays # {} /\ first \in heldDays /\ first # None
  <2>1. first \in 1..LastDay
    BY <1>5
  <2> HIDE DEF first
  <2>2. DateOf(a) = IF first < a.day THEN first ELSE a.day
    BY <1>5 DEF DateOf, first
  <2>3. DateOf(a) \in 0..LastDay /\ DateOf(a) <= a.day /\ (DateOf(a) <= first \/ DateOf(a) = a.day)
    BY <1>1, <2>1, <2>2, AnchorsTyped
  <2> QED BY <1>1, <1>3, <2>3 DEF first
<1> QED BY <1>4, <1>5, FirstHeldIs

(* The budget's balance with the row the anchor must have.                   *)
LEMMA BalanceIs ==
  ASSUME heldDays \subseteq 1..LastDay, NEW a \in TrueAnchor, Applied(a),
         NEW d \in 0..LastDay, DateOf(a) <= d
  PROVE  Anchors!Balance(d) = Anchors!Moved(0, d) + Technical(a)
<1> DEFINE Rec(f) == f = [n \in 0..Len(starting) |->
             IF n = 0 THEN Anchors!Moved(0, d)
             ELSE f[n - 1] + (IF starting[n].date <= d THEN starting[n].amount ELSE 0)]
           f == [n \in 0..1 |-> IF n = 0 THEN Anchors!Moved(0, d)
                                ELSE Anchors!Moved(0, d) + Technical(a)]
<1>1. Len(starting) = 1 /\ starting[1].date <= d /\ starting[1].amount = Technical(a)
  BY DEF Applied
<1>2. Rec(f)
  <2>1. \A n \in 0..1 : n = 0 \/ n = 1
    OBVIOUS
  <2>2. \A n \in 0..1 : f[n] = IF n = 0 THEN Anchors!Moved(0, d)
             ELSE f[n - 1] + (IF starting[n].date <= d THEN starting[n].amount ELSE 0)
    BY <1>1, <2>1
  <2> QED BY <1>1, <2>2
<1>3. PICK g : g = (CHOOSE h : Rec(h)) /\ Anchors!Balance(d) = g[Len(starting)]
  <2> DEFINE sum[n \in 0..Len(starting)] ==
        IF n = 0 THEN Anchors!Moved(0, d)
        ELSE sum[n - 1] + (IF starting[n].date <= d THEN starting[n].amount ELSE 0)
  <2>1. Anchors!Balance(d) = sum[Len(starting)]
    BY DEF Anchors!Balance
  <2>2. sum = CHOOSE h : Rec(h)
    OBVIOUS
  <2> QED BY <2>1, <2>2
<1>4. Rec(g)
  <2> HIDE DEF Rec, f
  <2> QED BY <1>2, <1>3
<1>5. g[1] = g[0] + Technical(a) /\ g[0] = Anchors!Moved(0, d)
  BY <1>1, <1>4
<1> QED BY <1>1, <1>3, <1>5

(* So it is the anchor on its day, and as the anchor of a bank is true, what *)
(* the bank has on any other day with which all between is held.             *)
LEMMA AppliedHolds ==
  ASSUME heldDays \subseteq 1..LastDay, NEW a \in TrueAnchor, Applied(a)
  PROVE  Anchors!Balance(a.day) = a.amount
<1>1. Anchors!Balance(a.day) = Anchors!Moved(0, a.day) + Technical(a)
  BY RowTyped, BalanceIs
<1>2. Anchors!Moved(0, a.day) \in Int /\ a.amount \in Int
  BY RowTyped, MovedIs
<1> QED BY <1>1, <1>2 DEF Technical

LEMMA AppliedIsTrue ==
  ASSUME heldDays \subseteq 1..LastDay, NEW a \in BankAnchor, Applied(a),
         NEW d \in 1..LastDay, d >= a.day \/ (heldDays # {} /\ d >= Anchors!FirstHeld),
         Anchors!Booked(d + 1, a.day) \cup Anchors!Booked(a.day + 1, d) \subseteq heldDays
  PROVE  Anchors!Balance(d) = Anchors!Bank[d]
<1>1. a \in TrueAnchor /\ a.amount = Anchors!Bank[a.day] /\ a.day \in 0..LastDay /\ d \in 0..LastDay
  BY AnchorsTyped DEF BankAnchor, TrueAnchor, Anchor
<1>2. DateOf(a) <= d
  <2>1. heldDays # {} => Anchors!FirstHeld \in 1..LastDay
    BY FirstHeldIs
  <2>2. DateOf(a) \in 0..LastDay /\ DateOf(a) <= a.day
        /\ (heldDays # {} => (DateOf(a) <= Anchors!FirstHeld \/ DateOf(a) = a.day))
    BY <1>1, RowTyped
  <2>3. CASE d >= a.day
    BY <1>1, <2>2, <2>3
  <2>4. CASE heldDays # {} /\ d >= Anchors!FirstHeld
    <3> DEFINE first == Anchors!FirstHeld
               date == DateOf(a)
    <3>1. first \in 1..LastDay /\ d >= first /\ (date <= first \/ date = a.day)
          /\ date <= a.day /\ date \in 0..LastDay
      BY <2>1, <2>2, <2>4
    <3>2. date <= first \/ d >= a.day \/ (date = a.day /\ first < a.day)
      BY <1>1, <3>1
    <3>3. CASE date <= first \/ d >= a.day
      <4> HIDE DEF first, date
      <4>1. date <= d
        BY <1>1, <3>1, <3>3
      <4> QED BY <4>1 DEF date
    <3>4. CASE date = a.day /\ first < a.day
      BY <1>1, <2>4, <3>1, <3>4, FirstHeldIs DEF DateOf
    <3> QED BY <3>2, <3>3, <3>4
  <2> QED BY <2>3, <2>4
<1>3. Anchors!Balance(d) = Anchors!Moved(0, d) + Technical(a)
  BY <1>1, <1>2, BalanceIs
<1>4. Anchors!Bank[d] \in Int /\ Anchors!Bank[a.day] \in Int
      /\ Anchors!Moved(0, d) \in Int /\ Anchors!Moved(0, a.day) \in Int
  BY <1>1, BankIs, MovedIs
<1>5. Anchors!Moved(0, d) - Anchors!Moved(0, a.day) = Anchors!Bank[d] - Anchors!Bank[a.day]
  <2>1. CASE a.day <= d
    BY <1>1, <2>1, HeldDifference
  <2>2. CASE ~(a.day <= d)
    <3>1. d <= a.day
      BY <1>1, <2>2
    <3>2. Anchors!Moved(0, a.day) - Anchors!Moved(0, d) = Anchors!Bank[a.day] - Anchors!Bank[d]
      BY <1>1, <3>1, HeldDifference
    <3> QED BY <1>4, <3>2
  <2> QED BY <2>1, <2>2
<1> QED BY <1>1, <1>3, <1>4, <1>5 DEF Technical

(* The anchor that stands is one of the history, if there is any; the        *)
(* owner's word, said last, stands.                                          *)
LEMMA ActiveIs ==
  ASSUME NEW history \in Seq(TrueAnchor)
  PROVE  /\ Anchors!ActiveOf(history) \in TrueAnchor \cup {None}
         /\ \A n \in 1..Len(history) :
              n = Len(history) /\ history[n].source = "manual" => Anchors!ActiveOf(history) = history[n]
<1> DEFINE V == TrueAnchor \cup {None}
           N == Len(history)
           step == [p \in V \X (1..N) |-> Anchors!Stands(p[1], history[p[2]])]
           Rec(f) == f = [n \in 0..N |-> IF n = 0 THEN None ELSE Anchors!Stands(f[n - 1], history[n])]
<1>1. N \in Nat /\ \A n \in 1..N : history[n] \in TrueAnchor
  OBVIOUS
<1>2. \A v \in V, n \in 1..N : Anchors!Stands(v, history[n]) \in V
  BY <1>1 DEF Anchors!Stands
<1>3. step \in [V \X (1..N) -> V]
  BY <1>2
<1>4. \A v \in V, n \in 1..N : step[<<v, n>>] = Anchors!Stands(v, history[n])
  OBVIOUS
<1>5. None \in V
  OBVIOUS
<1> HIDE DEF V, N, step
<1>6. PICK f \in [0..N -> V] : Steps(N, None, step, f)
  BY <1>1, <1>3, <1>5, StepsAreThere
<1>7. Rec(f)
  <2>1. \A n \in 1..N : n - 1 \in 0..N /\ f[n - 1] \in V
    BY <1>1, <1>6
  <2>2. \A n \in 1..N : f[n] = Anchors!Stands(f[n - 1], history[n])
    BY <1>4, <1>6, <2>1 DEF Steps
  <2>3. \A n \in 0..N : f[n] = IF n = 0 THEN None ELSE Anchors!Stands(f[n - 1], history[n])
    <3> TAKE n \in 0..N
    <3>1. CASE n = 0
      BY <1>6, <3>1 DEF Steps
    <3>2. CASE n # 0
      <4>1. n \in 1..N
        BY <1>1, <3>2
      <4> QED BY <2>2, <3>2, <4>1
    <3> QED BY <3>1, <3>2
  <2> QED BY <1>6, <2>3
<1>8. PICK g : g = (CHOOSE h : Rec(h)) /\ Anchors!ActiveOf(history) = g[N]
  <2> DEFINE active[n \in 0..Len(history)] ==
        IF n = 0 THEN None ELSE Anchors!Stands(active[n - 1], history[n])
  <2>1. Anchors!ActiveOf(history) = active[Len(history)]
    BY DEF Anchors!ActiveOf
  <2>2. active = CHOOSE h : Rec(h)
    BY DEF N
  <2> QED BY <2>1, <2>2 DEF N
<1>9. Rec(g)
  <2> HIDE DEF Rec
  <2> QED BY <1>7, <1>8
<1>10. g[0] = None /\ \A n \in 1..N : g[n] = Anchors!Stands(g[n - 1], history[n])
  <2>1. 0 \in 0..N /\ \A n \in 1..N : n \in 0..N /\ n # 0
    BY <1>1
  <2> QED BY <1>9, <2>1
<1>11. \A n \in 0..N : g[n] \in V
  <2>1. StepsInside(N, V, None, step, g)
    BY <1>4, <1>10 DEF StepsInside
  <2> HIDE DEF Rec
  <2> QED BY <1>1, <1>3, <1>5, <2>1, StepsStay
<1>12. g[N] \in V
  BY <1>1, <1>11
<1>13. ASSUME NEW n \in 1..N, n = N, history[n].source = "manual"
       PROVE  g[N] = history[n]
  BY <1>10, <1>13 DEF Anchors!Stands
<1> QED BY <1>8, <1>12, <1>13 DEF V, N

LEMMA ManualStandsAlone ==
  ASSUME NEW history \in Seq(TrueAnchor), NEW a \in TrueAnchor, a.source = "manual"
  PROVE  /\ Anchors!InsertAt(history, Len(history) + 1, a) \in Seq(TrueAnchor)
         /\ Anchors!ActiveOf(Anchors!InsertAt(history, Len(history) + 1, a)) = a
<1> DEFINE N == Len(history) + 1
           h == Anchors!InsertAt(history, N, a)
<1>1. N \in 1..N /\ N \in Nat
  OBVIOUS
<1>2. h = [n \in 1..N |-> IF n < N THEN history[n] ELSE IF n = N THEN a ELSE history[n - 1]]
  BY DEF Anchors!InsertAt
<1>3. h = Append(history, a)
  <2>1. \A n \in 1..N : (IF n < N THEN history[n] ELSE IF n = N THEN a ELSE history[n - 1])
                        = Append(history, a)[n]
    OBVIOUS
  <2>2. Append(history, a) = [n \in 1..N |-> Append(history, a)[n]]
    <3>1. Append(history, a) \in Seq(TrueAnchor) /\ Len(Append(history, a)) = N
      OBVIOUS
    <3> DEFINE p == Append(history, a)
    <3>2. p \in [1..N -> TrueAnchor]
      <4>1. p \in [1..Len(p) -> TrueAnchor]
        BY <3>1, LenProperties
      <4> QED BY <3>1, <4>1
    <3> HIDE DEF p
    <3>3. p = [n \in 1..N |-> p[n]]
      BY <3>2
    <3> QED BY <3>3 DEF p
  <2> QED BY <1>2, <2>1, <2>2
<1>4. h \in Seq(TrueAnchor) /\ Len(h) = N /\ h[N] = a
  BY <1>3
<1> HIDE DEF h
<1>5. Anchors!ActiveOf(h) = a
  BY <1>1, <1>4, ActiveIs
<1> QED BY <1>4, <1>5 DEF h

(* What a statement adds to the history is the bank's, and true.             *)
Stated == [from : 1..LastDay, to : 1..LastDay, opens : BOOLEAN, closes : BOOLEAN, dated : {TRUE}]

LEMMA BankAnchorsAre ==
  ASSUME NEW s \in Stated, NEW b \in Anchors!BankAnchors(s)
  PROVE  b.day \in 0..LastDay /\ b.amount = Anchors!Bank[b.day]
<1>1. s.from \in 1..LastDay /\ s.to \in 1..LastDay /\ s.dated = TRUE
  BY DEF Stated
<1>2. \/ b = [day |-> s.to, amount |-> Anchors!Bank[s.to]]
      \/ b = [day |-> s.from - 1, amount |-> Anchors!Bank[s.from - 1]]
  BY <1>1 DEF Anchors!BankAnchors
<1> QED BY <1>1, <1>2, AnchorsTyped

LEMMA NewIs ==
  ASSUME asked \in Nat, NEW s \in Stated
  PROVE  Anchors!New(s) \in Seq(BankAnchor)
<1> DEFINE V == Seq(BankAnchor)
           N == LastDay + 1
           unknown == {b \in Anchors!BankAnchors(s) : ~\E a \in Anchors!ToSet(anchors) :
                         a.source = "bank" /\ a.day = b.day /\ a.amount = b.amount}
           of(d) == [day |-> d - 1, source |-> "bank", id |-> asked,
                     amount |-> (CHOOSE b \in unknown : b.day = d - 1).amount]
           next(v, d) == IF \E b \in unknown : b.day = d - 1 THEN Append(v, of(d)) ELSE v
           step == [p \in V \X (1..N) |-> next(p[1], p[2])]
           Rec(f) == f = [d \in 0..N |-> IF d = 0 THEN <<>> ELSE next(f[d - 1], d)]
<1>1. N \in Nat
  BY AnchorsTyped
<1>2. ASSUME NEW v \in V, NEW d \in 1..N
      PROVE  next(v, d) \in V
  <2>1. CASE \E b \in unknown : b.day = d - 1
    <3> DEFINE c == CHOOSE b \in unknown : b.day = d - 1
    <3>1. c \in unknown /\ c.day = d - 1
      BY <2>1
    <3>2. c \in Anchors!BankAnchors(s)
      BY <3>1
    <3>3. d - 1 \in 0..LastDay /\ c.amount = Anchors!Bank[d - 1]
      BY <3>1, <3>2, BankAnchorsAre
    <3>4. Anchors!Bank[d - 1] \in Int
      BY <3>3, BankIs
    <3>5. of(d) = [day |-> d - 1, source |-> "bank", id |-> asked, amount |-> c.amount]
      OBVIOUS
    <3> HIDE DEF c, of
    <3>6. of(d) \in BankAnchor
      BY <3>3, <3>4, <3>5 DEF BankAnchor, TrueAnchor, Anchor
    <3> QED BY <2>1, <3>6
  <2>2. CASE ~\E b \in unknown : b.day = d - 1
    BY <2>2
  <2> QED BY <2>1, <2>2
<1> HIDE DEF next
<1>3. step \in [V \X (1..N) -> V]
  BY <1>2
<1>4. \A v \in V, d \in 1..N : step[<<v, d>>] = next(v, d)
  OBVIOUS
<1>5. <<>> \in V
  OBVIOUS
<1> HIDE DEF V, N, step
<1>6. PICK f \in [0..N -> V] : Steps(N, <<>>, step, f)
  BY <1>1, <1>3, <1>5, StepsAreThere
<1>7. Rec(f)
  <2>1. \A d \in 1..N : d - 1 \in 0..N /\ f[d - 1] \in V
    BY <1>1, <1>6
  <2>2. \A d \in 1..N : f[d] = next(f[d - 1], d)
    BY <1>4, <1>6, <2>1 DEF Steps
  <2>3. \A d \in 0..N : f[d] = IF d = 0 THEN <<>> ELSE next(f[d - 1], d)
    <3> TAKE d \in 0..N
    <3>1. CASE d = 0
      BY <1>6, <3>1 DEF Steps
    <3>2. CASE d # 0
      <4>1. d \in 1..N
        BY <1>1, <3>2
      <4> QED BY <2>2, <3>2, <4>1
    <3> QED BY <3>1, <3>2
  <2> QED BY <1>6, <2>3
<1>8. PICK g : g = (CHOOSE h : Rec(h)) /\ Anchors!New(s) = g[N]
  <2> DEFINE before[d \in 0..LastDay + 1] ==
        IF d = 0 THEN <<>>
        ELSE IF \E b \in unknown : b.day = d - 1
          THEN Append(before[d - 1], of(d))
          ELSE before[d - 1]
  <2>1. Anchors!New(s) = before[LastDay + 1]
    BY DEF Anchors!New
  <2>2. before = CHOOSE h : Rec(h)
    BY DEF N, next
  <2> QED BY <2>1, <2>2 DEF N
<1>9. Rec(g)
  <2> HIDE DEF Rec
  <2> QED BY <1>7, <1>8
<1>10. g[0] = <<>> /\ \A d \in 1..N : g[d] = next(g[d - 1], d)
  <2>1. 0 \in 0..N /\ \A d \in 1..N : d \in 0..N /\ d # 0
    BY <1>1
  <2> QED BY <1>9, <2>1
<1>11. \A d \in 0..N : g[d] \in V
  <2>1. StepsInside(N, V, <<>>, step, g)
    BY <1>4, <1>10 DEF StepsInside
  <2> HIDE DEF Rec
  <2> QED BY <1>1, <1>3, <1>5, <2>1, StepsStay
<1> QED BY <1>1, <1>8, <1>11 DEF V

LEMMA SameRow ==
  ASSUME heldDays' = heldDays, NEW a
  PROVE  Technical(a)' = Technical(a) /\ DateOf(a)' = DateOf(a)
<1>1. Anchors!Moved(0, a.day)' = Anchors!Moved(0, a.day)
  BY DEF Anchors!Moved
<1>2. Anchors!FirstHeld' = Anchors!FirstHeld
  BY DEF Anchors!FirstHeld
<1> QED BY <1>1, <1>2 DEF Technical, DateOf

LEMMA SameActive ==
  ASSUME anchors' = anchors
  PROVE  Anchors!Active' = Anchors!Active
BY DEF Anchors!Active, Anchors!ActiveOf

(* Of one request at a time: what it has read is still so, and once it has   *)
(* ended well the anchor that stands, if any, has its row.                   *)
WorldOK ==
  /\ account \in BOOLEAN /\ heldDays \subseteq 1..LastDay /\ closings \subseteq 1..LastDay
  /\ anchors \in Seq(TrueAnchor) /\ asked \in Nat /\ refused = FALSE
  /\ starting = <<>> \/ (account /\ \E x : starting = <<x>>)

Reads(q) ==
  \E at \in {"account", "rows", "remember", "record"}, s \in Stated,
     c \in SUBSET (1..LastDay), alone \in BOOLEAN :
    /\ q = [at |-> at, statement |-> s, anchors |-> anchors, closings |-> c, alone |-> alone]
    /\ at = "account" \/ account

Applies(q) ==
  /\ account
  /\ \E a \in TrueAnchor, alone \in BOOLEAN :
       /\ a = Anchors!Active
       /\ \/ q = [at |-> "movements", anchor |-> a, alone |-> alone]
          \/ q = [at |-> "earliest", anchor |-> a, alone |-> alone, technical |-> Technical(a)]
          \/ q = [at |-> "starting", anchor |-> a, alone |-> alone, technical |-> Technical(a),
                  date |-> DateOf(a)]
          \/ q = [at |-> "write", anchor |-> a, alone |-> alone, technical |-> Technical(a),
                  date |-> DateOf(a), row |-> Len(starting)]
          \/ /\ Applied(a)
             /\ \E n \in {0, 1} : q = [at |-> "settle", anchor |-> a, alone |-> alone,
                  technical |-> Technical(a), date |-> DateOf(a), row |-> n]

RequestOK(q) == q = Anchors!Idle \/ Reads(q) \/ Applies(q)

Settled(q) ==
  told = "ok" /\ q = Anchors!Idle =>
    Anchors!Active = None \/ \E a \in TrueAnchor : a = Anchors!Active /\ Applied(a)

AnchorsInv(r) ==
  /\ WorldOK
  /\ DOMAIN request = Requests /\ RequestOK(request[r]) /\ Settled(request[r])

LEMMA AnchorsStep ==
  ASSUME NEW only, Requests = {only}, AnchorsInv(only), Anchors!Next
  PROVE  AnchorsInv(only)'
<1> USE DEF AnchorsInv
<1>1. CASE Anchors!Die
  <2>1. request'[only] = Anchors!Idle /\ DOMAIN request' = Requests
    BY <1>1 DEF Anchors!Die
  <2>2. told' = "none"
    BY <1>1 DEF Anchors!Die
  <2>3. WorldOK'
    BY <1>1 DEF Anchors!Die, WorldOK
  <2> QED BY <2>1, <2>2, <2>3 DEF RequestOK, Settled, Anchors!Idle
<1>2. ASSUME NEW day \in Anchors!Days, NEW wrong \in Wrong,
             Anchors!SetBalance(only, day, Anchors!Bank[day] + wrong)
      PROVE  AnchorsInv(only)'
  <2> DEFINE a == [day |-> day, amount |-> Anchors!Bank[day] + wrong,
                   source |-> "manual", id |-> asked]
  <2>1. day \in 0..LastDay /\ Anchors!Bank[day] + wrong \in Int
    BY AnchorsTyped, BankIs
  <2>2. a \in TrueAnchor /\ a.source = "manual"
    BY <2>1 DEF WorldOK, TrueAnchor, Anchor
  <2>3. /\ account /\ anchors' = Anchors!InsertAt(anchors, Len(anchors) + 1, a)
        /\ UNCHANGED <<account, heldDays, starting, closings, told, refused>>
        /\ asked' = asked + 1
    BY <1>2 DEF Anchors!SetBalance, Anchors!Recorded, Anchors!Begins, Anchors!GoesOn
  <2>4. /\ request'[only] = [at |-> "movements", anchor |-> a, alone |-> Anchors!Alone]
        /\ DOMAIN request' = Requests
    BY <1>2 DEF Anchors!SetBalance, Anchors!Begins
  <2>5. Anchors!Alone \in BOOLEAN
    BY DEF Anchors!Alone
  <2> HIDE DEF a
  <2>6. anchors' \in Seq(TrueAnchor) /\ a = Anchors!Active'
    BY <2>2, <2>3, ManualStandsAlone DEF WorldOK, Anchors!Active
  <2>7. WorldOK'
    BY <2>3, <2>6 DEF WorldOK
  <2>8. Applies(request[only])'
    BY <2>2, <2>3, <2>4, <2>5, <2>6 DEF Applies
  <2>9. request'[only] # Anchors!Idle
    BY <2>4 DEF Anchors!Idle
  <2> QED BY <2>4, <2>7, <2>8, <2>9 DEF RequestOK, Settled, Anchors!Idle
<1>3. ASSUME NEW s \in Stated, Anchors!BeginImport(only, s)
      PROVE  AnchorsInv(only)'
  <2>1. /\ UNCHANGED <<account, heldDays, starting, anchors, closings, told, refused>>
        /\ asked' = asked + 1
    BY <1>3 DEF Anchors!BeginImport, Anchors!Begins, Anchors!GoesOn
  <2>2. /\ request'[only] = [at |-> "account", statement |-> s, anchors |-> anchors,
                             closings |-> closings, alone |-> Anchors!Alone]
        /\ DOMAIN request' = Requests
    BY <1>3 DEF Anchors!BeginImport, Anchors!Begins
  <2>3. Anchors!Alone \in BOOLEAN
    BY DEF Anchors!Alone
  <2>4. WorldOK'
    BY <2>1 DEF WorldOK
  <2>5. Reads(request[only])'
    BY <2>1, <2>2, <2>3 DEF Reads, WorldOK
  <2>6. request'[only] # Anchors!Idle
    BY <2>2 DEF Anchors!Idle
  <2> QED BY <2>2, <2>4, <2>5, <2>6 DEF RequestOK, Settled, Anchors!Idle
<1>4. ASSUME Anchors!Ask(only) PROVE AnchorsInv(only)'
  <2>1. CASE \E day \in Anchors!Days, wrong \in Wrong :
               Anchors!SetBalance(only, day, Anchors!Bank[day] + wrong)
    BY <1>2, <2>1
  <2>2. CASE \E from, to \in Anchors!Days, opens, closes \in BOOLEAN, dated \in {TRUE, ~FALSE} :
               Anchors!BeginImport(only, [from |-> from, to |-> to, opens |-> opens,
                                          closes |-> closes, dated |-> dated])
    <3>1. PICK from \in Anchors!Days, to \in Anchors!Days, opens \in BOOLEAN, closes \in BOOLEAN,
               dated \in {TRUE, ~FALSE} :
               Anchors!BeginImport(only, [from |-> from, to |-> to, opens |-> opens,
                                          closes |-> closes, dated |-> dated])
      BY <2>2
    <3>2. [from |-> from, to |-> to, opens |-> opens, closes |-> closes, dated |-> dated] \in Stated
      BY AnchorsTyped DEF Stated
    <3> QED BY <1>3, <3>1, <3>2
  <2> QED BY <1>4, <2>1, <2>2 DEF Anchors!Ask
<1>5. CASE Anchors!FindAccount(only)
  <2>1. PICK s \in Stated, c \in SUBSET (1..LastDay), alone \in BOOLEAN :
          /\ request[only] = [at |-> "account", statement |-> s, anchors |-> anchors, closings |-> c,
                             alone |-> alone]
          /\ TRUE
    BY <1>5 DEF Anchors!FindAccount, Anchors!Goes, RequestOK, Reads, Applies, Anchors!Idle
  <2>2. /\ request'[only] = [at |-> "rows", statement |-> s, anchors |-> anchors, closings |-> c,
                             alone |-> alone]
        /\ DOMAIN request' = Requests
    BY <1>5, <2>1 DEF Anchors!FindAccount, Anchors!Goto, Anchors!Then
  <2>3. UNCHANGED <<heldDays, anchors, closings, told, refused, asked>> /\ account' = TRUE
    BY <1>5 DEF Anchors!FindAccount, Anchors!Goes, Anchors!GoesOn
  <2>4. WorldOK'
    <3>1. starting' = starting \/ (starting = <<>> /\ \E x : starting' = Append(starting, x))
      BY <1>5 DEF Anchors!FindAccount, WorldOK
    <3>2. \A x : Append(<<>>, x) = <<x>>
      OBVIOUS
    <3>3. starting' = <<>> \/ \E x : starting' = <<x>>
      BY <3>1, <3>2 DEF WorldOK
    <3> QED BY <2>3, <3>3 DEF WorldOK
  <2>5. Reads(request[only])'
    BY <2>2, <2>3 DEF Reads
  <2>6. request'[only] # Anchors!Idle
    BY <2>2 DEF Anchors!Idle
  <2> QED BY <2>2, <2>4, <2>5, <2>6 DEF RequestOK, Settled, Anchors!Idle
<1>6. CASE Anchors!ImportRows(only)
  <2>1. PICK s \in Stated, c \in SUBSET (1..LastDay), alone \in BOOLEAN :
          /\ request[only] = [at |-> "rows", statement |-> s, anchors |-> anchors, closings |-> c,
                             alone |-> alone]
          /\ account
    BY <1>6 DEF Anchors!ImportRows, Anchors!Goes, RequestOK, Reads, Applies, Anchors!Idle
  <2>2. /\ request'[only] = [at |-> "remember", statement |-> s, anchors |-> anchors, closings |-> c,
                             alone |-> alone]
        /\ DOMAIN request' = Requests
    BY <1>6, <2>1 DEF Anchors!ImportRows, Anchors!Goto, Anchors!Then
  <2>3. /\ UNCHANGED <<account, starting, anchors, closings, told, refused, asked>>
        /\ heldDays' = heldDays \cup Anchors!Booked(s.from, s.to)
    BY <1>6, <2>1 DEF Anchors!ImportRows, Anchors!Goes, Anchors!GoesOn
  <2>4. WorldOK'
    <3>1. s.from \in 1..LastDay /\ s.to \in 1..LastDay
      BY DEF Stated
    <3>2. Anchors!Booked(s.from, s.to) \subseteq 1..LastDay
      BY <3>1, AnchorsTyped DEF Anchors!Booked
    <3> QED BY <2>3, <3>2 DEF WorldOK
  <2>5. Reads(request[only])'
    BY <2>1, <2>2, <2>3 DEF Reads
  <2>6. request'[only] # Anchors!Idle
    BY <2>2 DEF Anchors!Idle
  <2> QED BY <2>2, <2>4, <2>5, <2>6 DEF RequestOK, Settled, Anchors!Idle
<1>7. CASE Anchors!Remember(only)
  <2>1. PICK s \in Stated, c \in SUBSET (1..LastDay), alone \in BOOLEAN :
          /\ request[only] = [at |-> "remember", statement |-> s, anchors |-> anchors, closings |-> c,
                             alone |-> alone]
          /\ account
    BY <1>7 DEF Anchors!Remember, Anchors!Goes, RequestOK, Reads, Applies, Anchors!Idle
  <2>2. /\ request'[only] = [at |-> "record", statement |-> s, anchors |-> anchors, closings |-> c,
                             alone |-> alone]
        /\ DOMAIN request' = Requests
    BY <1>7, <2>1 DEF Anchors!Remember, Anchors!Goto, Anchors!Then
  <2>3. /\ UNCHANGED <<account, heldDays, starting, told, refused, asked>>
        /\ anchors' = anchors /\ closings' = c
    BY <1>7, <2>1 DEF Anchors!Remember, Anchors!Goes, Anchors!GoesOn
  <2>4. WorldOK'
    BY <2>3 DEF WorldOK
  <2>5. Reads(request[only])'
    BY <2>1, <2>2, <2>3 DEF Reads
  <2>6. request'[only] # Anchors!Idle
    BY <2>2 DEF Anchors!Idle
  <2> QED BY <2>2, <2>4, <2>5, <2>6 DEF RequestOK, Settled, Anchors!Idle
<1>8. CASE Anchors!Record(only)
  <2>1. PICK s \in Stated, c \in SUBSET (1..LastDay), alone \in BOOLEAN :
          /\ request[only] = [at |-> "record", statement |-> s, anchors |-> anchors, closings |-> c,
                             alone |-> alone]
          /\ account
    BY <1>8 DEF Anchors!Record, Anchors!Goes, RequestOK, Reads, Applies, Anchors!Idle
  <2>2. /\ UNCHANGED <<account, heldDays, starting, asked>>
        /\ anchors' = anchors \o Anchors!New(s)
        /\ closings' = closings \cup Anchors!Closed(s)
    BY <1>8, <2>1 DEF Anchors!Record, Anchors!Goes
  <2>3. anchors' \in Seq(TrueAnchor)
    <3>1. Anchors!New(s) \in Seq(BankAnchor)
      BY NewIs DEF WorldOK
    <3>2. BankAnchor \subseteq TrueAnchor
      BY DEF BankAnchor
    <3>3. Anchors!New(s) \in Seq(TrueAnchor)
      BY <3>1, <3>2
    <3> QED BY <2>2, <3>3 DEF WorldOK
  <2>4. Anchors!Closed(s) \subseteq 1..LastDay
    BY DEF Anchors!Closed, Stated
  <2>5. Anchors!Active' \in TrueAnchor \cup {None}
    BY <2>3, ActiveIs DEF Anchors!Active
  <2>6. CASE Anchors!Active' = None
    <3>1. /\ request'[only] = Anchors!Idle /\ DOMAIN request' = Requests
          /\ refused' = FALSE
      BY <1>8, <2>6 DEF Anchors!Record, Anchors!Ends, Anchors!Then, WorldOK
    <3>2. WorldOK'
      BY <2>2, <2>3, <2>4, <3>1 DEF WorldOK
    <3> QED BY <2>6, <3>1, <3>2 DEF RequestOK, Settled, Anchors!Idle
  <2>7. CASE Anchors!Active' # None
    <3>1. /\ request'[only] = [at |-> "movements", anchor |-> Anchors!Active', alone |-> alone]
          /\ DOMAIN request' = Requests /\ UNCHANGED <<told, refused>>
      BY <1>8, <2>1, <2>7 DEF Anchors!Record, Anchors!Then, Anchors!GoesOn
    <3>2. WorldOK'
      BY <2>2, <2>3, <2>4, <3>1 DEF WorldOK
    <3>3. Applies(request[only])'
      BY <2>1, <2>2, <2>5, <2>7, <3>1 DEF Applies
    <3>4. request'[only] # Anchors!Idle
      BY <3>1 DEF Anchors!Idle
    <3> QED BY <3>1, <3>2, <3>3, <3>4 DEF RequestOK, Settled, Anchors!Idle
  <2> QED BY <2>6, <2>7
<1>9. CASE Anchors!ReadMovements(only)
  <2>1. PICK a \in TrueAnchor, alone \in BOOLEAN :
          /\ account /\ a = Anchors!Active
          /\ request[only] = [at |-> "movements", anchor |-> a, alone |-> alone]
    BY <1>9 DEF Anchors!ReadMovements, Anchors!Goes, RequestOK, Reads, Applies, Anchors!Idle
  <2>2. /\ request'[only] = [at |-> "earliest", anchor |-> a, alone |-> alone, technical |-> Technical(a)]
        /\ DOMAIN request' = Requests
    BY <1>9, <2>1 DEF Anchors!ReadMovements, Anchors!Then, Technical
  <2>3. UNCHANGED <<account, heldDays, starting, anchors, closings, told, refused, asked>>
    BY <1>9 DEF Anchors!ReadMovements, Anchors!Goes, Anchors!GoesOn
  <2>4. WorldOK'
    BY <2>3 DEF WorldOK
  <2>5. a = Anchors!Active' /\ Technical(a)' = Technical(a) /\ DateOf(a)' = DateOf(a)
    BY <2>1, <2>3, SameActive, SameRow
  <2>6. Applies(request[only])'
    BY <2>1, <2>2, <2>3, <2>5 DEF Applies
  <2>7. request'[only] # Anchors!Idle
    BY <2>2 DEF Anchors!Idle
  <2> QED BY <2>2, <2>4, <2>6, <2>7 DEF RequestOK, Settled, Anchors!Idle
<1>10. CASE Anchors!ReadEarliest(only)
  <2>1. PICK a \in TrueAnchor, alone \in BOOLEAN :
          /\ account /\ a = Anchors!Active
          /\ request[only] = [at |-> "earliest", anchor |-> a, alone |-> alone, technical |-> Technical(a)]
    BY <1>10 DEF Anchors!ReadEarliest, Anchors!Goes, RequestOK, Reads, Applies, Anchors!Idle
  <2>2. /\ request'[only] = [at |-> "starting", anchor |-> a, alone |-> alone, technical |-> Technical(a),
                             date |-> DateOf(a)]
        /\ DOMAIN request' = Requests
    BY <1>10, <2>1 DEF Anchors!ReadEarliest, Anchors!Then, DateOf
  <2>3. UNCHANGED <<account, heldDays, starting, anchors, closings, told, refused, asked>>
    BY <1>10 DEF Anchors!ReadEarliest, Anchors!Goes, Anchors!GoesOn
  <2>4. WorldOK'
    BY <2>3 DEF WorldOK
  <2>5. a = Anchors!Active' /\ Technical(a)' = Technical(a) /\ DateOf(a)' = DateOf(a)
    BY <2>1, <2>3, SameActive, SameRow
  <2>6. Applies(request[only])'
    BY <2>1, <2>2, <2>3, <2>5 DEF Applies
  <2>7. request'[only] # Anchors!Idle
    BY <2>2 DEF Anchors!Idle
  <2> QED BY <2>2, <2>4, <2>6, <2>7 DEF RequestOK, Settled, Anchors!Idle
<1>11. CASE Anchors!ReadStarting(only)
  <2>1. PICK a \in TrueAnchor, alone \in BOOLEAN :
          /\ account /\ a = Anchors!Active
          /\ request[only] = [at |-> "starting", anchor |-> a, alone |-> alone, technical |-> Technical(a),
                             date |-> DateOf(a)]
    BY <1>11 DEF Anchors!ReadStarting, Anchors!Goes, RequestOK, Reads, Applies, Anchors!Idle
  <2>2. /\ request'[only] = [at |-> "write", anchor |-> a, alone |-> alone, technical |-> Technical(a),
                             date |-> DateOf(a), row |-> Len(starting)]
        /\ DOMAIN request' = Requests
    <3>1. PICK i \in (IF starting = <<>> THEN {0} ELSE 1..Len(starting)) :
            Anchors!Then(only, [at |-> "write", anchor |-> request[only].anchor,
              alone |-> request[only].alone, technical |-> request[only].technical,
              date |-> request[only].date, row |-> i])
      BY <1>11 DEF Anchors!ReadStarting
    <3>2. i = Len(starting)
      <4>1. \A x : Len(<<x>>) = 1 /\ <<x>> # <<>>
        OBVIOUS
      <4> QED BY <3>1, <4>1 DEF WorldOK
    <3> QED BY <2>1, <3>1, <3>2 DEF Anchors!Then
  <2>3. UNCHANGED <<account, heldDays, starting, anchors, closings, told, refused, asked>>
    BY <1>11 DEF Anchors!ReadStarting, Anchors!Goes, Anchors!GoesOn
  <2>4. WorldOK'
    BY <2>3 DEF WorldOK
  <2>5. a = Anchors!Active' /\ Technical(a)' = Technical(a) /\ DateOf(a)' = DateOf(a)
    BY <2>1, <2>3, SameActive, SameRow
  <2>6. Applies(request[only])'
    BY <2>1, <2>2, <2>3, <2>5 DEF Applies
  <2>7. request'[only] # Anchors!Idle
    BY <2>2 DEF Anchors!Idle
  <2> QED BY <2>2, <2>4, <2>6, <2>7 DEF RequestOK, Settled, Anchors!Idle
<1>12. CASE Anchors!Write(only)
  <2>1. PICK a \in TrueAnchor, alone \in BOOLEAN :
          /\ account /\ a = Anchors!Active
          /\ request[only] = [at |-> "write", anchor |-> a, alone |-> alone, technical |-> Technical(a),
                             date |-> DateOf(a), row |-> Len(starting)]
    BY <1>12 DEF Anchors!Write, Anchors!Goes, RequestOK, Reads, Applies, Anchors!Idle
  <2>2. /\ \E n \in {0, 1} :
             request'[only] = [at |-> "settle", anchor |-> a, alone |-> alone,
                               technical |-> Technical(a), date |-> DateOf(a), row |-> n]
        /\ DOMAIN request' = Requests
    <3>1. Len(starting) \in {0, 1}
      BY DEF WorldOK
    <3>2. request' = [request EXCEPT ![only] = [request[only] EXCEPT !.at = "settle"]]
      BY <1>12 DEF Anchors!Write, Anchors!Goto, Anchors!Then
    <3>3. [request[only] EXCEPT !.at = "settle"]
            = [at |-> "settle", anchor |-> a, alone |-> alone, technical |-> Technical(a),
               date |-> DateOf(a), row |-> Len(starting)]
      BY <2>1
    <3>4. DOMAIN request' = Requests /\ request'[only] = [request[only] EXCEPT !.at = "settle"]
      BY <3>2
    <3> QED BY <3>1, <3>3, <3>4
  <2>3. UNCHANGED <<account, heldDays, anchors, closings, told, refused, asked>>
    BY <1>12 DEF Anchors!Write, Anchors!Goes, Anchors!GoesOn
  <2>4. starting' = <<[date |-> DateOf(a), amount |-> Technical(a)]>>
    <3> DEFINE to == [date |-> DateOf(a), amount |-> Technical(a)]
    <3>1. starting' = IF Len(starting) = 0 THEN Append(starting, to)
                      ELSE [starting EXCEPT ![Len(starting)] = to]
      BY <1>12, <2>1 DEF Anchors!Write
    <3> HIDE DEF to
    <3>2. Append(<<>>, to) = <<to>>
      OBVIOUS
    <3>3. \A x : Len(<<x>>) = 1 /\ [<<x>> EXCEPT ![1] = to] = <<to>>
      OBVIOUS
    <3>4. Len(<<>>) = 0
      OBVIOUS
    <3>5. starting' = <<to>>
      <4>1. CASE starting = <<>>
        BY <3>1, <3>2, <3>4, <4>1
      <4>2. CASE \E x : starting = <<x>>
        <5>1. PICK x : starting = <<x>>
          BY <4>2
        <5>2. starting' = [starting EXCEPT ![1] = to]
          BY <3>1, <3>3, <5>1
        <5> QED BY <3>3, <5>1, <5>2
      <4> QED BY <4>1, <4>2 DEF WorldOK
    <3> QED BY <3>5 DEF to
  <2>5. WorldOK'
    BY <2>1, <2>3, <2>4 DEF WorldOK
  <2>6. a = Anchors!Active' /\ Technical(a)' = Technical(a) /\ DateOf(a)' = DateOf(a)
    BY <2>1, <2>3, SameActive, SameRow
  <2>7. Applied(a)'
    BY <2>4, <2>6 DEF Applied
  <2>8. Applies(request[only])'
    BY <2>1, <2>2, <2>3, <2>6, <2>7 DEF Applies
  <2>9. request'[only] # Anchors!Idle
    BY <2>2 DEF Anchors!Idle
  <2> QED BY <2>2, <2>5, <2>8, <2>9 DEF RequestOK, Settled, Anchors!Idle
<1>13. CASE Anchors!Settle(only)
  <2>1. PICK a \in TrueAnchor : /\ account /\ a = Anchors!Active /\ Applied(a)
                               /\ request[only].anchor = a
    BY <1>13 DEF Anchors!Settle, Anchors!Goes, RequestOK, Reads, Applies, Anchors!Idle
  <2>2. Anchors!Balance(a.day) = a.amount
    BY <2>1, AppliedHolds DEF WorldOK
  <2>3. Anchors!Ends(only, "ok")
    BY <1>13, <2>1, <2>2 DEF Anchors!Settle
  <2>4. request'[only] = Anchors!Idle /\ DOMAIN request' = Requests /\ refused' = FALSE
    BY <2>3 DEF Anchors!Ends, Anchors!Then, WorldOK
  <2>5. UNCHANGED <<account, heldDays, starting, anchors, closings, asked>>
    BY <1>13 DEF Anchors!Settle, Anchors!Goes
  <2>6. WorldOK'
    BY <2>4, <2>5 DEF WorldOK
  <2>7. a = Anchors!Active' /\ Technical(a)' = Technical(a) /\ DateOf(a)' = DateOf(a)
    BY <2>1, <2>5, SameActive, SameRow
  <2>8. Applied(a)'
    BY <2>1, <2>5, <2>7 DEF Applied
  <2> QED BY <2>4, <2>6, <2>7, <2>8 DEF RequestOK, Settled, Anchors!Idle
<1> QED BY <1>1, <1>4, <1>5, <1>6, <1>7, <1>8, <1>9, <1>10, <1>11, <1>12, <1>13
        DEF Anchors!Next, Anchors!Step

LEMMA AnchorsStutter ==
  ASSUME NEW only, AnchorsInv(only), UNCHANGED anchorVars
  PROVE  AnchorsInv(only)'
<1>1. /\ UNCHANGED <<account, heldDays, starting, anchors, closings, request, asked, told, refused>>
  BY DEF anchorVars
<1>2. WorldOK'
  BY <1>1 DEF AnchorsInv, WorldOK
<1>3. Anchors!Active' = Anchors!Active
  BY <1>1, SameActive
<1>4. \A a : Technical(a)' = Technical(a) /\ DateOf(a)' = DateOf(a)
  BY <1>1, SameRow
<1>5. \A a : Applied(a)' <=> Applied(a)
  BY <1>1, <1>4 DEF Applied
<1>6. Settled(request[only])'
  BY <1>1, <1>3, <1>5 DEF AnchorsInv, Settled
<1>7. RequestOK(request[only])'
  <2>1. CASE request[only] = Anchors!Idle
    BY <1>1, <2>1 DEF RequestOK, Anchors!Idle
  <2>2. CASE Reads(request[only])
    BY <1>1, <2>2 DEF RequestOK, Reads
  <2>3. CASE Applies(request[only])
    BY <1>1, <1>3, <1>4, <1>5, <2>3 DEF RequestOK, Applies
  <2> QED BY <2>1, <2>2, <2>3 DEF AnchorsInv, RequestOK
<1> QED BY <1>1, <1>2, <1>6, <1>7 DEF AnchorsInv

LEMMA AnchorsHold ==
  ASSUME NEW only, Requests = {only}, AnchorsInv(only)
  PROVE  Anchors!AnchorHolds /\ Anchors!BalanceTrue /\ Anchors!AloneWorks
<1>1. heldDays \subseteq 1..LastDay /\ refused = FALSE
  BY DEF AnchorsInv, WorldOK
<1>2. ASSUME Anchors!Alone, told = "ok", Anchors!Active # None
      PROVE  \E a \in TrueAnchor : a = Anchors!Active /\ Applied(a)
  BY <1>2 DEF AnchorsInv, Settled, Anchors!Alone
<1>3. Anchors!AnchorHolds
  BY <1>1, <1>2, AppliedHolds DEF Anchors!AnchorHolds
<1>4. Anchors!BalanceTrue
  <2> SUFFICES ASSUME Anchors!Alone, told = "ok", Anchors!Active # None,
                      Anchors!Active.source = "bank", NEW d \in Anchors!Days,
                      d >= Anchors!Active.day \/ (heldDays # {} /\ d >= Anchors!FirstHeld),
                      Anchors!Booked(d + 1, Anchors!Active.day)
                        \cup Anchors!Booked(Anchors!Active.day + 1, d) \subseteq heldDays
               PROVE  Anchors!Balance(d) = Anchors!Bank[d]
    BY DEF Anchors!BalanceTrue
  <2>1. PICK a \in TrueAnchor : a = Anchors!Active /\ Applied(a)
    BY <1>2
  <2>2. a \in BankAnchor /\ d \in 1..LastDay
    BY <2>1, AnchorsTyped DEF BankAnchor
  <2> QED BY <1>1, <2>1, <2>2, AppliedIsTrue
<1>5. Anchors!AloneWorks
  BY <1>1 DEF Anchors!AloneWorks
<1> QED BY <1>3, <1>4, <1>5

(* One request at a time, wherever AYQ dies and whatever is imported or      *)
(* stated in which order, for any movements of any number of days: a request *)
(* does not fail, and once it has ended well the budget's balance is the     *)
(* anchor that stands on its day, and if the bank's word stands, the bank's  *)
(* on each day with which all between is held.                               *)
THEOREM BalancesHonestHolds ==
  ASSUME NEW only, Requests = {only}
  PROVE  MCSpec => []BalancesHonest
<1>1. MCInit => AnchorsInv(only)
  <2> SUFFICES ASSUME MCInit PROVE AnchorsInv(only)
    OBVIOUS
  <2>1. Anchors!Init
    BY DEF MCInit
  <2>2. WorldOK
    <3>1. <<>> \in Seq(TrueAnchor)
      OBVIOUS
    <3> QED BY <2>1, <3>1 DEF Anchors!Init, WorldOK
  <2>3. request[only] = Anchors!Idle /\ DOMAIN request = Requests /\ told = "none"
    BY <2>1 DEF Anchors!Init
  <2> QED BY <2>2, <2>3 DEF AnchorsInv, RequestOK, Settled
<1>2. AnchorsInv(only) /\ [MCNext]_<<vars, coverageVars, anchorVars, part>> => AnchorsInv(only)'
  BY AnchorsStep, AnchorsStutter DEF MCNext
<1>3. AnchorsInv(only) => BalancesHonest
  BY AnchorsHold DEF BalancesHonest
<1> QED BY <1>1, <1>2, <1>3, PTL DEF MCSpec
=============================================================================
