---------------------------- MODULE AyqIdentity ----------------------------
(* Who a counterparty is.  The bank prints a key, an alias of the owner     *)
(* says that it is really another, rules and chosen names hang on the key   *)
(* that results, and the payee of every row in the budget follows.          *)
EXTENDS Integers, Sequences, SequencesExt, FiniteSets

CONSTANTS
  Slots,       \* how many requests the engine may be answering at a time
  Keys,        \* counterparty keys
  Rows,        \* the imported transactions
  RecordedKey, \* the key each row's provenance recorded when it was imported
  Fold,        \* the key today's rule makes of a recorded one
  Categories,
  Titles,      \* names an owner may choose
  None

ASSUME RowsFinite == IsFiniteSet(Rows) /\ IsFiniteSet(Keys)
ASSUME KeysRecorded == RecordedKey \in [Rows -> Keys]
ASSUME FoldFolds == Fold \in [Keys -> Keys] /\ \A k \in Keys : Fold[Fold[k]] = Fold[k]
ASSUME NoneIsNone == None \notin Keys \cup Categories \cup Titles \cup Slots

VARIABLES
  store,    \* alias: variant -> counterparty; rules; names chosen; folded: the marker
  payee,    \* the budget: the key of the name each row carries
  open,     \* the budget is open, and requests are answered
  run,      \* what each slot is doing
  smooth    \* history: no request was interrupted since payees were last applied

vars == <<store, payee, open, run, smooth>>

Idle == [pc |-> "idle", kind |-> "none", todo |-> <<>>, from |-> None, to |-> None,
         rows |-> {}, read |-> <<>>, had |-> {}]

Rule == [key : Keys, category : Categories]

(* ayqCanonicalKey: the owner's alias, then the key folded anew. *)
Canonical(st, k) ==
  IF st.alias[k] # None THEN st.alias[k]
  ELSE IF st.alias[Fold[k]] # None THEN st.alias[Fold[k]] ELSE Fold[k]

Party(st, row) == Canonical(st, RecordedKey[row])
Present(st, k) == \E row \in Rows : Party(st, row) = k
Printed(k) == \E row \in Rows : RecordedKey[row] = k
Variants(st, k) == {RecordedKey[row] : row \in {r \in Rows : Party(st, r) = k}}

(* A budget from before the folding rule changed carries the old keys.      *)
Init ==
  /\ store = [alias |-> [k \in Keys |-> None], rules |-> {},
              names |-> [k \in Keys |-> None], folded |-> FALSE]
  /\ payee = RecordedKey
  /\ open = FALSE
  /\ run = [s \in Slots |-> Idle]
  /\ smooth = FALSE

-----------------------------------------------------------------------------
(* Writing one alias. *)

(* The target may itself be aliased: the alias is to where it ends up.      *)
Target(st, t) == IF st.alias[t] # None THEN st.alias[t] ELSE t

Refused(st, v, t) == v = t \/ v = Target(st, t)

(* Mutant: what pointed at the variant goes on pointing at it. *)
UnpointedTable(st, v, c) == [st.alias EXCEPT ![v] = c]

(* Kept flat: what pointed at the variant now points at the target.         *)
Table(st, v, c) ==
  [k \in Keys |-> IF k = v \/ st.alias[k] = v THEN c ELSE st.alias[k]]

(* Mutant: the variant's rule moves although the target has one.            *)
CrowdedRules(st, v, c) ==
  {[r EXCEPT !.key = IF r.key = v THEN c ELSE r.key] : r \in st.rules}

(* A rule of the variant moves with it, unless the target has its own.      *)
MovedRules(st, v, c) ==
  IF \E r \in st.rules : r.key = c
    THEN {r \in st.rules : r.key # v}
    ELSE {[r EXCEPT !.key = IF r.key = v THEN c ELSE r.key] : r \in st.rules}

(* ayqCarryNameOnMerge: the target's own name, or else the variant's. *)
CarriedNames(st, v, c) ==
  IF st.names[c] = None THEN [st.names EXCEPT ![c] = st.names[v]] ELSE st.names

WithAlias(st, v, t) ==
  LET c == Target(st, t) IN
  [st EXCEPT !.alias = Table(st, v, c), !.rules = MovedRules(st, v, c),
             !.names = CarriedNames(st, v, c)]

-----------------------------------------------------------------------------
Go(s, job) == run' = [run EXCEPT ![s] = job]

(* The loop over variants holds the thread: nothing comes in between.       *)
Yielding == \A s \in Slots : run[s].pc # "remember"
Free(s) == open /\ Yielding /\ run[s] = Idle

Reached(st, row) == \E r \in st.rules : r.key = Party(st, row)
Named(st, row) == st.names[Party(st, row)] # None

(* What a merge must not lose: which rows a rule reached, and which were    *)
(* shown under a name of the owner's.                                       *)
Had(st, k) == {row \in Rows : Party(st, row) = k /\ Reached(st, row)}
              \X {"rule"}
              \cup {row \in Rows : Party(st, row) = k /\ Named(st, row)} \X {"name"}

(* The counterparty's own keys before those that were moved in.            *)
InOrder(st, order) ==
  \A i, j \in DOMAIN order : st.alias[order[i]] = None /\ st.alias[order[j]] # None => i < j

(* alias.create: the target must be somebody.                              *)
AskAlias(s, v, t) ==
  /\ Free(s)
  /\ Present(store, t)
  /\ Go(s, [Idle EXCEPT !.pc = "look", !.kind = "alias", !.todo = <<v>>, !.to = t])
  /\ UNCHANGED <<store, payee, open, smooth>>

(* counterparty.merge: one alias for every variant of the one merged. *)
AskMerge(s, k, t) ==
  /\ Free(s)
  /\ k # t /\ Variants(store, k) # {}
  /\ \E order \in SetToSeqs(Variants(store, k)) :
       /\ InOrder(store, order)
       /\ Go(s, [Idle EXCEPT !.pc = "look", !.kind = "merge", !.todo = order,
                             !.from = k, !.to = t])
  /\ UNCHANGED <<store, payee, open, smooth>>

(* transactions.correctCounterparty: every name behind the rows picked that *)
(* is not the target's already.                                            *)
AskScope(s, T, t) ==
  /\ Free(s)
  /\ Present(store, t)
  /\ Go(s, [Idle EXCEPT !.pc = "look", !.kind = "scope", !.rows = T, !.to = t])
  /\ UNCHANGED <<store, payee, open, smooth>>

(* The details are read, and now every alias is written, one after another. *)
Look(s) ==
  LET job == run[s]
      moving == {RecordedKey[row] : row \in {r \in job.rows : Party(store, r) # job.to}}
  IN
  /\ Yielding
  /\ job.pc = "look"
  /\ CASE job.kind = "alias" -> Go(s, [job EXCEPT !.pc = "remember"])
       [] job.kind = "merge" ->
            IF Present(store, job.to)
              THEN Go(s, [job EXCEPT !.pc = "remember", !.had = Had(store, job.from)])
              ELSE Go(s, Idle)
       [] job.kind = "scope" ->
            IF moving \ {job.to} = {} THEN Go(s, Idle)
            ELSE \E order \in SetToSeqs(moving \ {job.to}) :
                   Go(s, [job EXCEPT !.pc = "remember", !.todo = order])
  /\ UNCHANGED <<store, payee, open, smooth>>

(* ayqRememberAlias writes the store every time; a refusal ends the request. *)
Remember(s) ==
  LET job == run[s]
      v == Head(job.todo)
  IN
  /\ job.pc = "remember"
  /\ UNCHANGED <<payee, open>>
  /\ IF Refused(store, v, job.to)
       THEN /\ UNCHANGED store
            /\ Go(s, Idle)
            /\ smooth' = FALSE
       ELSE /\ store' = WithAlias(store, v, job.to)
            /\ UNCHANGED smooth
            /\ IF Len(job.todo) > 1
                 THEN Go(s, [job EXCEPT !.todo = Tail(job.todo)])
                 ELSE Go(s, [job EXCEPT !.pc = "wanted", !.todo = <<>>, !.read = store'])

(* alias.remove: only the alias goes; then the payees are applied. *)
RemoveAlias(s, v) ==
  /\ Free(s)
  /\ store.alias[v] # None
  /\ store' = [store EXCEPT !.alias[v] = None]
  /\ Go(s, [Idle EXCEPT !.pc = "wanted", !.kind = "remove", !.read = store'])
  /\ UNCHANGED <<payee, open, smooth>>

-----------------------------------------------------------------------------
(* ayqApplyAliases, from the store it read first. *)

(* Mutant: only rows with an alias are looked at. *)
OutstandingAliased(s) ==
  {row \in Rows : /\ run[s].read.alias[RecordedKey[row]] # None
                  /\ payee[row] # Party(run[s].read, row)}

Outstanding(s) == {row \in Rows : payee[row] # Party(run[s].read, row)}

(* The fold pass ends with its marker; a correction goes on with the rules, *)
(* for which the store is read again.                                      *)
Applied(s) ==
  IF run[s].kind = "fold"
    THEN /\ store' = [store EXCEPT !.folded = TRUE]
         /\ open' = TRUE
         /\ Go(s, Idle)
    ELSE /\ UNCHANGED <<store, open>>
         /\ Go(s, [run[s] EXCEPT !.pc = "rules", !.read = store])

Wanted(s) ==
  /\ Yielding
  /\ run[s].pc = "wanted"
  /\ UNCHANGED payee
  /\ IF Outstanding(s) = {}
       THEN Applied(s) /\ smooth' = TRUE
       ELSE /\ Go(s, [run[s] EXCEPT !.pc = "move", !.rows = Outstanding(s)])
            /\ UNCHANGED <<store, open, smooth>>

(* The batch of ayqSetPayees, of the rows found then. *)
Move(s) ==
  /\ Yielding
  /\ run[s].pc = "move"
  /\ payee' = [row \in Rows |-> IF row \in run[s].rows THEN Party(run[s].read, row)
                                                      ELSE payee[row]]
  /\ Go(s, [run[s] EXCEPT !.pc = "settle", !.rows = {}])
  /\ UNCHANGED <<store, open, smooth>>

Settle(s) ==
  /\ Yielding
  /\ run[s].pc = "settle"
  /\ Outstanding(s) = {}
  /\ Applied(s)
  /\ smooth' = TRUE
  /\ UNCHANGED payee

(* ayqSettle gives up: a request fails, the opening goes on unmarked. *)
GiveUp(s) ==
  /\ Yielding
  /\ run[s].pc = "settle"
  /\ Outstanding(s) # {}
  /\ open' = TRUE
  /\ smooth' = FALSE
  /\ Go(s, Idle)
  /\ UNCHANGED <<store, payee>>

(* ayqApplyRules: if it filed anything, the store it read is written whole. *)
ApplyRules(s) ==
  /\ Yielding
  /\ run[s].pc = "rules"
  /\ \/ run[s].read.rules # {} /\ store' = run[s].read
     \/ UNCHANGED store
  /\ Go(s, Idle)
  /\ UNCHANGED <<payee, open, smooth>>

(* ayqRememberRule, then the rules. *)
Learn(s, k, c) ==
  /\ Free(s)
  /\ store' = [store EXCEPT !.rules = {r \in @ : r.key # k}
                                        \cup {[key |-> k, category |-> c]}]
  /\ Go(s, [Idle EXCEPT !.pc = "rules", !.read = store'])
  /\ UNCHANGED <<payee, open, smooth>>

(* ayqSetDisplayName; an empty name clears it. *)
SetName(s, k, title) ==
  /\ Free(s)
  /\ store' = [store EXCEPT !.names[k] = title]
  /\ UNCHANGED <<payee, open, run, smooth>>

-----------------------------------------------------------------------------
(* foldCounterparties, while the budget opens: once, by its marker.         *)
Launch(s) ==
  /\ ~open
  /\ \A q \in Slots : run[q] = Idle
  /\ IF store.folded
       THEN open' = TRUE /\ UNCHANGED run
       ELSE /\ Go(s, [Idle EXCEPT !.pc = "wanted", !.kind = "fold", !.read = store])
            /\ UNCHANGED open
  /\ UNCHANGED <<store, payee, smooth>>

Crash ==
  /\ open' = FALSE
  /\ run' = [s \in Slots |-> Idle]
  /\ smooth' = FALSE
  /\ UNCHANGED <<store, payee>>

Ask(s) ==
  \/ \E v, t \in Keys : Printed(v) /\ AskAlias(s, v, t)
  \/ \E k, t \in Keys : AskMerge(s, k, t)
  \/ \E T \in SUBSET Rows, t \in Keys : AskScope(s, T, t)
  \/ \E v \in Keys : RemoveAlias(s, v)
  \/ \E k \in Keys, c \in Categories : Learn(s, k, c)
  \/ \E k \in Keys, title \in Titles \cup {None} : SetName(s, k, title)

Step(s) ==
  \/ Look(s) \/ Remember(s)
  \/ Wanted(s) \/ Move(s) \/ Settle(s) \/ GiveUp(s) \/ ApplyRules(s)

Next ==
  \/ \E s \in Slots : Ask(s) \/ Step(s) \/ Launch(s)
  \/ Crash

Spec == Init /\ [][Next]_vars

-----------------------------------------------------------------------------
Stores == [alias : [Keys -> Keys \cup {None}], rules : SUBSET Rule,
           names : [Keys -> Titles \cup {None}], folded : BOOLEAN]

Job == [pc : {"idle", "look", "remember", "wanted", "move", "settle", "rules"},
        kind : {"none", "alias", "merge", "scope", "remove", "fold"},
        todo : Seq(Keys), from : Keys \cup {None}, to : Keys \cup {None},
        rows : SUBSET Rows, read : {<<>>} \cup Stores,
        had : SUBSET (Rows \X {"rule", "name"})]

(* What a request works from at each of its steps. *)
JobOK(job) ==
  /\ job.pc = "look" => job.to \in Keys /\ job.kind \in {"alias", "merge", "scope"}
  /\ job.pc = "look" /\ job.kind # "scope" => job.todo # <<>>
  /\ job.pc = "remember" => job.to \in Keys /\ job.todo # <<>>
  /\ job.pc \in {"wanted", "move", "settle", "rules"} => job.read \in Stores

(* An alias, a rule and a payee name counterparties there are. *)
TypeOK ==
  /\ store \in Stores
  /\ payee \in [Rows -> Keys]
  /\ open \in BOOLEAN
  /\ smooth \in BOOLEAN
  /\ run \in [Slots -> Job]
  /\ \A s \in Slots : JobOK(run[s])

(* One lookup answers who a counterparty is (ayq-aliases.ts:297): no alias  *)
(* points at a key that has an alias itself, whatever was aliased, merged   *)
(* and removed before.                                                      *)
FlatTable(st) ==
  \A k \in Keys : st.alias[k] # None => st.alias[k] # k /\ st.alias[st.alias[k]] = None
Flat == FlatTable(store)

(* Two rules for one counterparty is not a state AYQ keeps                  *)
(* (ayq-aliases.ts:303).                                                    *)
OneRuleEach(st) == \A r, q \in st.rules : r.key = q.key => r = q
OneRule == OneRuleEach(store)

(* The owner's decision is the last word (ayq-aliases.ts:23): who is whose  *)
(* alias changes only where the owner aliases, merges or removes.           *)
AliasStands ==
  [][store'.alias # store.alias =>
       \E s \in Slots : run[s].pc = "remember"
                        \/ (run[s] = Idle /\ run'[s].kind = "remove")]_vars

(* Every transaction carries the payee its identity implies                 *)
(* (ayq-aliases.ts:260), once no request is under way and none was          *)
(* interrupted since it was last seen to.                                   *)
PayeesFollow ==
  smooth /\ open /\ (\A s \in Slots : run[s] = Idle) =>
    \A row \in Rows : payee[row] = Party(store, row)

Ends(s) == run[s].pc = "remember" /\ run'[s].pc = "wanted" /\ run[s].kind = "merge"

Kept(st, had) == \A row \in Rows :
  /\ <<row, "rule">> \in had => Reached(st, row)
  /\ <<row, "name">> \in had => Named(st, row)

(* A merge leaves no transaction without the rule it had or without the     *)
(* name the owner chose for it (ayq-merge.ts:13, ayq-names.ts:106).         *)
MergeKeeps ==
  [][\A s \in Slots : Ends(s) => Kept(store', run[s].had)]_vars

(* The same for a counterparty whose own key is one the bank printed.      *)
PrintedMergeKeeps ==
  [][\A s \in Slots : Ends(s) /\ Printed(run[s].from) => Kept(store', run[s].had)]_vars
=============================================================================
