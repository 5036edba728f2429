# AYQ in TLA+

AYQ is a desktop application that keeps a person's money in a local
[Actual Budget](https://actualbudget.org) file.  This directory holds models of
its engine (`ayq/ayq-desktop/src`), of the relay in front of it, and of the part of
Actual under it that is a distributed algorithm (`packages/crdt`, and the
synchronisation in `packages/loot-core`): TLA+ modules, TLC configurations that
check them on small instances, and TLAPS proofs, for every instance, of all
the safety that is checked.  File names below without a path are in `ayq/ayq-desktop/src`.

`PROJECT.json` is the machine-readable side of this file: which definition
stands for which lines, every run with its properties, a mutant of the code for
every property, the hazards, the findings and the theorems.

To run: `tlc -workers 2 -config MCAyqGate.cfg MCAyqGate`, and
`tlapm AyqGateProofs.tla`.

Contents: [1 the system](#1-the-system), [2 the modules](#2-the-modules),
[3 the runs](#3-the-runs), [4 fairness](#4-fairness),
[5 what is proved](#5-what-is-proved), [6 findings](#6-findings),
[7 not modelled](#7-what-is-not-modelled), [8 plan](#8-plan).

## 1. The system

```
renderer (ayq-client)  --typed IPC-->  main process (ayq-main.ts)
                                          | pending: request id -> resolve
                                          v
                                engine process (ayq-engine.ts)
                   channel.onMessage -> gate (ayq-gate.ts) -> handler
                          |                                   |
             @actual-app/api (the budget)           ayq-store.json (the store)
                          |
        messages with timestamps, kept in tries  <-- synchronised by Actual -->
```

The engine is one JavaScript thread.  Nothing in it is parallel, but every
`await` lets another request's handler run, and requests are answered as they
come: only `backup.create` and `backup.restore` go alone.  State is in two
halves that no transaction joins: the budget, written through Actual's library,
which may show a write only some time after the call that made it returned
(`ayq-settle.ts:3-11`), and the store, one JSON file read and written whole and
synchronously.  Almost every hard question about AYQ is about those two halves:
what is written to one, then to the other, with awaits, other requests, failures
and the death of the process in between.

### Components

| component | state it keeps | operations | what makes it correct |
|---|---|---|---|
| gate, `ayq-gate.ts` | `alone`, `working`, `whenIdle` | `shared`, `exclusive` | exclusive work is alone; nobody waits for ever |
| backup and restore, `ayq-backup.ts`, `createBackup` and `restoreBackup` of `ayq-engine.ts` | `ayq-backups/<id>/`, `.ayq-restore/`, the live budget folder and store | capture, prune, check, replace, finish, recover | whatever dies or fails, what stands is one whole state; nothing removed is the only copy |
| retention, `ayq-backup.ts` | the finished backups and a clock | is one due, write, prune, list | the newest written are kept |
| opening, `openBudget`, `ayq-taxonomy.ts` | `opened`, `opening`, a marker | find, make or load, provision | opened once however many ask; a failure may be retried; the starter list is given once |
| store, `ayq-store.ts` | `ayq-store.json` and copies kept before a migration | read, migrate, write, set aside | never half written; what is written over was copied |
| categorising, `ayq-rules.ts`, `ayq-bulk.ts`, `ayq-settle.ts`, `ayq-batch.ts`, `ayq-filing.ts` | category of a transaction (budget); decisions and rules (store) | file one, a counterparty, a scope; learn, correct, forget, apply rules; AYQ's own filing | a person outranks a rule outranks AYQ's reading; budget and record agree |
| identity, `ayq-aliases.ts`, `ayq-merge.ts`, `ayq-names.ts` | aliases, names, payees of the budget | remember, forget, merge, fold, apply | the table is flat; one rule to a counterparty; the payees follow |
| categories, `ayq-categories.ts` | categories (budget), rules and planned records by name (store) | create, rename, move, remove | what names a category moves with it |
| import, `ayq-camt-import.ts` | transactions, provenance, evidence, anchors | import a set of statements | importing again changes nothing; coverage only over rows that are there |
| coverage, `ayq-evidence.ts` | intervals that statements prove | merge, complete months | a month is complete only if all its entries are held |
| anchors, `ayq-anchors.ts` | anchors (store), a starting row (budget) | record, apply, reconcile | the balance on the anchor's day is the bank's |
| plan, `ayq-plan.ts`, `ayq-match.ts` | records, decisions about their dates, matches | plan, accept, dismiss, match, refuse, retire | one transaction settles one payment; a person's decision stands |
| forecast, `ayq-forecast.ts`, `ayq-funds.ts`, `ayq-today.ts` | none | computed per request | counts everything once |
| relay, `ayq-main.ts` | `pending` and its timers | ask, deliver, engine gone, patience | each request answered once |
| Actual: `packages/crdt`, `server/sync` | a clock, a log of messages, a trie, what is shown | send, receive, pass by pass | unique and causal timestamps; devices converge |
| reads, renderer, CAMT parser, bridge, prototype | none that another part depends on | - | section 7 |

### What is hard here

Interleavings at awaits; a stale copy of the store written back; the budget
showing yesterday's write; two files that must change together, with no
transaction; the process dying between any two file operations, and again
during the recovery from that; a failing step in the middle of a swap; clocks
that are set back; an answer that comes after the patience ran out; a key that
changes while something hangs on it.  `PROJECT.json` lists each hazard at its
line, with the property that would catch it or where it is in section 6.

## 2. The modules

| module | what it is | proofs |
|---|---|---|
| `AyqExclusion`, `AyqGate` | what the gate promises; the gate as written, which implements it | `AyqGateProofs` |
| `AyqOneState`, `AyqRestore` | what backup and restore promise; capture, replacement and recovery file by file, which implement it | `AyqRestoreProofs` |
| `AyqRelay` | the main process between window and engine | `AyqHostProofs` |
| `AyqOpening` | several requests open the budget at once | `AyqHostProofs` |
| `AyqStoreFile` | reading, migrating and writing the store | `AyqHostProofs` |
| `AyqBackupSets` | the finished backups over many starts | `AyqHostProofs` |
| `AyqCategorise` | who decides a category, across the budget and the store | `AyqRulesProofs` |
| `AyqCategories` | categories and their traces in the store | `AyqRulesProofs` |
| `AyqIdentity` | aliases, merges, names and what moves with them | `AyqIdentityProofs` |
| `AyqImport` | statements into the budget and the store | `AyqImportsProofs` |
| `AyqEvidence`, `AyqAnchors` | what statements prove, and what an account holds | `AyqImportsProofs` |
| `AyqPlan`, `AyqForecast` | what is expected, what settles it, what is left | `AyqPlanProofs` |
| `ActualTimestamp`, `ActualClock` | the order of messages; the clocks that make it | `ActualProofs` |
| `ActualMerkle`, `ActualTries` | the trie; two sides that exchange what differs | `ActualProofs` |
| `ActualReplicas`, `ActualSync` | what synchronising promises; devices and a server, which implement it | `ActualProofs` |
| `MC...` | instances for TLC | |

The modules of proofs extend the `MC` module of their run (`AyqGateProofs` and
`AyqRestoreProofs` the component itself), so that a theorem states the very
definition the run checks.  A theorem about one part of a run of several is about
that part's own specification, where the property is guarded by no part.

The modules compose by what the lower one promises.  `AyqRestore` uses the gate
as `AyqExclusion` describes it: exclusive work starts when no request is under
way and none starts until it is done.  That is the content of `MutualExclusion`
and of `ExclusionSpec`, checked and proved on the gate itself.  `ActualSync` is
built from the operators of `ActualTimestamp` and `ActualMerkle`, which
`ActualClock` and `ActualTries` examine alone.  A definition named in a comment as
a mutant is a wrong version of the operation after it; no specification uses one.

The request modules share one shape.  A step is what the code does between two
awaits; what a handler carries across an await (a copy of the store, rows it
read, where it is) is a record in one variable (`run`, `task`, `request`,
`importing`, `doing`), indexed by the requests under way.  The store is
written back whole where the code does that.  `Crash` or `Die` forgets what was
carried and keeps what was written.  How many requests are under way at once is
a constant, so the same module answers "one at a time" and "when they cross".

**AyqGate.**  `waiting` is the list of callers
awaiting the promise in `alone`; when that work settles they become `woken`, and
since promise reactions run before the next message is handled, `Call` needs
`woken = <<>>` and `Resume` takes the head.  A resumed caller looks at `alone`
again, as the `while` does.  `whenIdle` is the list of parked exclusive work;
`FinishShared` resolves all of it when the count reaches zero.

**AyqRestore.**  The variables are the places on disk (`folder`, `storeFile`,
`sets`; in `.ayq-restore`: `journal`, `inBudget`, `inStore`, `prevBudget`,
`prevStore`), the folder that is open, and where the engine stands (`job`, `pc`,
`back`, `chosen`).  A half holds a set of pieces of work: a request adds itself to
the budget, then, later, to the store.  Every `renameSync`, `cpSync` and `rmSync`
is a step; a copy or a removal that can stop half way leaves `Torn`; an atomic
write or rename does not.  `back` is what a JavaScript stack remembers: where the
recovery was called from.  `Damage` is a backup that rots, which is what the check
before a restore is for.  `Fail` is an exception at a step listed in `Faults`, taken
to where the code catches it.

**AyqBackupSets.**  Backups by trigger and date over a clock of a few hours that
may be set back (`SetBack`); `n` is a history of the order they were written in,
which the code does not have.

**AyqOpening.**  `opening` is the promise several requests share, `run` how far
`openBudgetOnce` is; the marker and the categories are on disk, the promise is
not.  `Fail` may strike at any step; the owner files, adds and removes categories
in between; the host may give a request up while the opening goes on.

**AyqStoreFile.**  A store is a version and a body, or damaged; a copy or a write
under way is a file that is not whole yet.  `copies` are the copies kept before a
migration, under the plain name or one with a stamp.

**AyqCategorise.**  `cat` is what a query of the budget answers, `writes` what was
handed to the budget and no query shows yet, `decisions` and `rules` the store,
`run[s]` a request's progress with its copy of the store (`read`) and rows
(`rows`).  The handlers read the store, await, read the rows, decide, write the
budget, await, write the store back whole, read back until it agrees.  `Decided`
is the part that differs.  `api.updateTransaction` returns before its change lands;
the batch call waits for its own, unless another call's batch is open and takes
it in, as `batchMessages` in `packages/loot-core/src/server/sync/index.ts` does
when nested (`Returned`).  `guess` is what the shipped tables make of the evidence;
another version may be started after a crash, so `Crash` may change it.  `smooth` is
a history variable, false once the process has died or a request was given up on.

**AyqIdentity.**  A key is a name the bank prints, and `Fold` takes one an older AYQ
recorded to the one today's rule makes of it.  The store holds a table of aliases,
the rules, the chosen names and the marker of the fold pass; the budget a payee
for each row.  `Launch` is the pass on opening.

**AyqCategories.**  The budget keeps categories by id, the store rules and planned
records by name.  Every request is check, wait, write the one, write the other.
`income` are the categories with a mark of their own for money in: those that came
with the budget in such a group, and none that AYQ makes.  `forward` is Actual's
mapping of removed categories, by which a row is shown.
`meant` is a history: the category the owner put each record in.

**AyqImport, AyqEvidence, AyqAnchors.**  An import finds or makes the account,
adds the rows the account has not (the budget matches by `imported_id` inside the
account), stores what the bank sent, records coverage.  `AyqEvidence` has the days
and the intervals, `AyqAnchors` the balances: one account, a starting row that is
looked for, added or corrected in steps, with the wait for each.

**AyqPlan, AyqForecast.**  Records repeat every `Period` days; a decision is about
a record and a day.  `Proposals` is the matching: the dates in order, each the
best transaction left.  `AyqForecast` has the arithmetic of positions, months and
plans, and the requests that put it together from three reads.

**AyqRelay.**  Messages to and from the engine are in flight, the engine's end is
noticed later than it happens, and the timer may come before either.  `Host` is
how the engine was forked: the two answer differently to a message that is sent to
a process that is gone.

**ActualClock, ActualTries, ActualSync.**  A timestamp is milliseconds, counter
and node.  The clock in memory reaches the disk only with the messages it applies
(`saved`); wall clocks jump both ways.  A trie's hash is the set of what was hashed.
A device's pass sends what it has since a time, gets what the server has since,
compares, and goes on from the time they differ; requests or answers get lost,
and changes are made, stamped and applied in the middle of it.

## 3. The runs

Some runs check several specifications at once: an initial state chooses one
(`part`), whose variables then move while those of the others stand still.  The
parts share no state and say nothing about each other: such a run is a union of
instances, and a property of it is guarded by the part it is about.  To run one
part alone, give `Parts` that one.

| run | distinct states | instance | bounds and why they are enough |
|---|---|---|---|
| `gate` | 110 000 | `gate`: 4 callers, each any number of times.  `opening`: 3 requests, 2 starter categories, 1 placeholder, 1 failure, 1 death | one that holds the gate, two behind it (so that their order, and the first of them taking it again, matter), one that comes in between; one request that opens and two that wait, of which one may come after the failure |
| `restore` | 79 000 | 3 folders, 1 writing request, 1 piece of work from elsewhere in a copied backup, 1 backup made, 1 automatic kept, a failure at any step the code undoes | the budget may come back under another name or the same, with something in the way or not; a restore makes a backup itself.  With 2 backups made (2.3 million states, 3.5 minutes) the same properties hold; the proofs have no bounds |
| `rules` | 2.9 million | `filing`: 1 request at a time, 2 transactions of one counterparty, 2 categories, 2 readings of the evidence.  `alone`, `crossing`: 3 categories, 2 names, 1 rule key, 1 record; 4 requests one at a time, or 2 that cross, and a death | a pass treats each row by itself and only the count of the unfiled joins them; nothing relates two counterparties.  Two names for three categories make a name that is taken, one free again, and one of two categories at once.  Takes 2 minutes with 2 workers.  `crossing` is there for what is proved of it (`RemovalNotRefused`, `OneRuleEach`, which hold in it) and for the rows of section 6 |
| `identity` | 2.7 million | 4 keys, one of them recorded with a reference that is folded today, 3 rows, 2 categories, 1 chosen name; every request alone, or aliases made and removed while others are | three keys make the longest chain that could arise in one step; the fourth is the folded one |
| `actual` | 276 000 | `clock`: 2 devices, drift 1, counter to 1, walls 0..1, 3 messages.  `tries`: all sets of 6 stamps over three digits.  `sync`: 2 devices, 1 cell, 2 changes, 1 loss or restart, walls 9 and 10 | walls and counters small enough that both limits are hit; the minutes chosen fork at every level; two changes, one of them in the middle of a pass |
| `host` | 704 000 | `relay`: 5 requests.  `opening`: as in `gate`.  `store`: versions 1 to 3, two bodies, 3 stamps, 2 restores, 1 damaged file.  `sets`: 2 kept, 4 written, a clock to 6 | one answered, one late, one cut off, one after the end; one older, this and one newer; one more than are kept, twice |
| `imports` | 808 000 | `alone`, `crossing`: 3 entries in 2 files that overlap, 4 imports by one or by two at a time, 1 death.  `coverage`: 2 accounts, 2 months of 3 days, 3 statements.  `anchors`: 4 days, one without an entry, 3 requests one after another, 1 death | files overlap as daily exports do; three statements join two others or leave a hole; amounts are such that no two sums agree by accident |
| `plan` | 391 000 | 2 records, 3 payments, 3 days and a period of 2; what is decided about dates (4 requests), about records (3), or 2 requests crossing (3).  `forecast`: 5 days in months of 3, an expense in a planned category, an income, an expense of no category on another account | two records compete for one payment and one record falls twice; the near and the far window differ; the forecast passes a month's end |
| `restore_finish_fails`, `categorise_together`, `categories_forecast`, `category_sides` | - | as `restore` with a failure at the last write; `filing` with 2 requests at a time; `alone`; `alone` | the four findings of section 6: each run checks one property, up to the first state or step that breaks it |

`CHECK_DEADLOCK FALSE` is where a run ends at its bounds: all requests asked, all
days passed.  `gate` and `identity` cannot stop, and are checked for it.

What each property says:

- **gate.** `MutualExclusion`, `ExclusionSpec`: exclusive work is beside nothing.
  `NoLostWake`: parked work always has shared work under way that will wake it.
  `EveryoneGetsIn`: whoever calls gets in.  `Opens`: whatever failed and died, the
  budget is opened; it is here, and not with the rest of the opening in `host`,
  for the fairness it needs.
- **restore.** `BackupIsOneMoment`: a backup never holds half of a request.
  `NothingLost`: work that was answered is in the state that stands or in a backup
  AYQ never removes.  `ServedStateStands`: what requests work on is what the next
  start opens.  `RemovesNoOnlyCopy`: no step takes away the last copy of any work.
  `OneStateSpec`: all of it implements `AyqOneState`.  `ComesBack`: when the deaths
  stop, requests are served again.
- **rules.** `ManualStands`: a decision of a person is only replaced by a person's.
  `RulesObeyed`: when all is answered every rule has reached every row it may touch.
  `NoFalseAlarm`: no pass waits for a number of unfiled rows that the budget will never
  show, also where it counted rows whose change had yet to land.  `RulesLive`: no
  rule names a category that is gone, one request at a time.  `SaidSo`: a row loses its
  category only where its owner said so, along any chain of removals, one request at
  a time.
- **identity.** `Flat`, `OneRule`: an alias never points at a key that has one, and a
  counterparty never has two rules, whatever crosses.  `AlonePayeesFollow`: every row
  carries the payee its identity implies, one request at a time and none interrupted.
- **actual.** `Unique`: no timestamp is given twice, through restarts and clocks set
  back.  `NoRunaway`: no clock is ahead of the highest wall clock.  `LaterIsNewer`: a
  change is newer than all its device had applied.  `EveryPassMoves`: tries that
  differ lead to a time from which something is exchanged, and what is pruned does
  not depend on the order things came in.  `Implements`, `Converges`: the devices
  show the newest of what reached them, and come to agree.
- **host.** `ToldOnce`, `Answered`: each question is answered, once.  `StoreKept`: an
  older store is copied whole before it is written over, copies stay, a damaged or a
  newer store is not written over.  `BackupsKept`: only automatic backups go, the
  oldest of them, never the one just written, and a start leaves a recent one.
  `OneBudget`: however many ask, one opens and one budget is made.
  `NeverComesBack`: a starter category its owner removed is not given again.
- **imports.** `EvidenceBacked`: a file proves coverage only when its entries are in
  the budget.  `AloneExplained`: an import leaves every row of it with what the bank
  said of it, also rows an import that died had added.  `CoverageHonest`: no month
  is complete with an entry missing.  `BalancesHonest`: the anchor that stands is the
  balance of its day, the days on either side balance as the bank's do, and a
  request that nothing crosses does not fail.
- **plan.** `OneEach`: a transaction settles one payment.  `AloneSure`: what is matched
  without asking was the only pair of its kind, and changes nothing a person
  decided.  `KeepsCounting`: a payment stays expected until somebody decides
  otherwise.  `LowestTrue`: the lowest position is the lowest there can be, and each
  month closes at what it takes in and pays.  `SpentOnce`: from expected to matched,
  a payment booked this month, and due this month or before, is not subtracted twice
  or not at all; otherwise it is set against the plan of one month while it is
  expected and of another once it is booked, and no such equation holds.

Each of these has a mutant of the code in `PROJECT.json` that breaks it in its run.
The modules state more, which holds on the same instances and is in no run so as
not to repeat itself.  Proved for all instances (section 5): type invariants,
`HeldWhileTaken`, `OthersUntouched`, `KeptForGood`, `Agreement`, `OneRuleEach`,
`RemovalNotRefused` (what the store has moved for a removal the budget does not refuse
to move, whatever crosses and dies),
`TrieOfHeld`, `EachPassEarlier`, `ShowsNewest`, `OneWait`, `NeverTorn`, `AllThere`.
Only checked: `NobodyForgotten`, `ForeignStays`, `NoFalseAlarm` of `ActualSync`,
`PrintedMergeKeeps` (without crossing), `NothingLeftOut`, `TheirsStays`, `NotOfNobody`,
`NewerStands`.  (`MCActual` gives `MaxCounter` the value 9, though that part needs
less: TLC evaluates the set `Clock`, which the modules of the clocks and of the
devices both extend, once, with the outer value.  No other definition is shared
that way.)

## 4. Fairness

`gate`: weak fairness of `Resume`, `StartAlone`, `FinishShared`, `FinishExclusive`.
A promise reaction that is ready runs; and work settles, because handlers await
only the library and polls with a limit (`ayq-settle.ts:18-42`).  No fairness for
`Call`: nobody is obliged to ask.

`restore`: weak fairness of exclusive work as a whole and of each request once
asked.  The file operations are synchronous and in one thread, so the engine's
next step is its own; `Crash`, `Damage`, `Fail` and new requests are never obliged.

Its part `opening`: weak fairness of the engine's steps and of asking, for each request: the
engine goes on with what it began, and the window polls for its status.
`[]<>opened` then says that the one failure and the one death do not stop it for
ever; that the promise of a failed opening is dropped is what it rests on.

`host`: weak fairness of noticing the engine's end, of a failed send being reported,
of an answer on its way being delivered, and of the timer of each request, which
the main process always sets (`ayq-main.ts:386-402`).  None for the engine: it may
stay silent, and `Answered` rests on the timer.

`actual`: a device synchronises again and again - after each change and on opening -
so a step of a pass is taken for ever (`[]<><<Pass(c)>>_vars`; one is always possible,
so this is its weak fairness), and a change that was stamped is applied.  No
fairness for losses, restarts or edits, of which there are finitely many: that
is when convergence is promised.

## 5. What is proved

Every invariant and every action property of the passing runs, and the three
refinements besides: all but liveness.  For every value of the constants, under
the assumptions the modules state: values that stand for nothing differ from the
others; the sets of callers, transactions, rows, keys and records are finite; the
bounds are numbers; the fold is idempotent; node ids differ; starter and
placeholder names differ; days follow each other; the fractions of a trie fit
its keys.  What a theorem assumes beyond that:

| theorems | of | assumed besides |
|---|---|---|
| `Gate...`, `OneWait...`, `ToldOnce...`, `Clock...`, `Opening...` | gate, relay, clocks, opening | nothing |
| `Restore...` | restore | `Faults \cap Unhandled = {}`, below |
| `StoreKeptHolds`, `NeverTornHolds` | store | nothing |
| `BackupsKeptHolds` | backups | the clock is not set back |
| `CategoriseTypes` | filing | nothing |
| `CategoriseManualStands`, `RulesObeyedHolds`, `AgreementHolds`, `NoFalseAlarmHolds` | filing | one request at a time |
| `RemovalNotRefusedHolds`, `OneRuleEachHolds` | categories | nothing |
| `RulesLiveHolds`, `SaidSoHolds` | categories | one request at a time, no death |
| `IdentityTypes`, `IdentityFlat`, `IdentityOneRule` | identity | nothing |
| `PayeesFollowHolds` | identity | the part in which requests do not cross |
| `ImportTypes`, `ImportEvidenceBacked`, `CoverageHonestHolds` | import, coverage | nothing |
| `AloneExplainedHolds` | import | the part in which imports do not cross |
| `BalancesHonestHolds` | anchors | one request at a time |
| `PlanTypes`, `OneEachHolds`, `KeepsCountingHolds` | plan | nothing |
| `AloneSureHolds` | plan | requests do not cross |
| `LowestTrueHolds`, `SpentOnceHolds` | forecast | nothing |
| `ImplementsHolds`, `ShowsNewestHolds`, `TrieOfHeldHolds` | devices, tries | nothing |
| `EveryPassMovesHolds`, `EachPassEarlierHolds` | tries | keys of full width (1997 to 2051) |

"Nothing" includes any number of requests that cross, and deaths and failures
anywhere the module has them.  Where requests must not cross, section 6 has what
goes wrong when they do: a store read before is written after.

*Gate.*  `GateExcludes`, `GateLosesNoWake`, `GateHolds`, `GateImplementsExclusion`.
Mutual exclusion is not inductive: that nobody shares while somebody is alone
rests on `working` being the number of sharers, on who is parked or alone being
exactly the holder in `alone`, and on no sharer being counted while somebody is
ready or alone (`GateInv`).

*Restore.*  Each theorem assumes `Faults \cap Unhandled = {}`: no exception at the
last write of a restore or at a file operation of a recovery other than the
final clean-up - section 6 says what happens without it.  Every step of the rest
may fail and the process may die anywhere.  The heart of `RestoreInv` is `Shape`:
whatever step the last process died at, the disk is in one of three shapes -

- `Untouched`: the budget and the store are live and nothing is aside, or nothing
  aside matters because no journal says staged;
- `BudgetAside`: the journal says staged, the budget is in `previous/`, and any
  folder of AYQ's in the data directory came from the backup;
- `StoreAside`: a recovery has put the budget back and not yet the store.

In each the state that stands is readable off the disk, which is why a recovery
that is interrupted can run again.  The other conjuncts tie the engine's place to
a shape and say that from the safety backup on, the state being replaced is among
the backups that are never removed (`SafetySound`).  `RestoreRemovesNoOnlyCopy` needs
one invariant more (`CopiesLast`): a copy anywhere on disk is a copy of what
stands or of a backup that lasts.  `RestoreImplementsOneState` maps every step to
a step of `AyqOneState` or to none.

*Filing.*  `ManualStands`, for one request at a time: while it works, its copy of the
store is the store (`Current`), and what a pass decides takes no decision of a
person away (`DecidedSound`); crashes, failures and late writes are all in.  With
two requests `Current` is false, and so is the property.  `RulesObeyed`, `Agreement`
and `NoFalseAlarm` are about a budget that lags behind, and rest on one invariant,
`SmoothInv`: each row has a category it will have once all has landed (`Aim`); what is
on its way takes it there and not back (`Way`); the store says that
category unless the request still has the row in hand; a rule that is owed a
row has a pass before it; and the number a pass waits for is at least, for a scope
just, the number of rows that will then have no category (`Counted`, by `Recount`:
of those that had none, less the ones it fills, with the ones it empties).

*Categories.*  `RemovalNotRefused`: the mark a category was made with never changes and
outlives it, so that what a request read of it, however old, is so when the budget
looks (`SidesInv`).  `RulesLive`: a rule names a category that is there, or the
request under way is about to rename it (`RuleHeld`).  `SaidSo`: a removal without a
stated destination found no row in the category (`UnsaidUnused`), and what a
removed category is forwarded to is there, since what is removed is forwarded on
with all that was forwarded to it (`ShownThere`, `StaysShown`).

*Identity.*  `IdentityFlat`, `IdentityOneRule`, for any number of requests at a time:
here a stale copy does no harm, since it was sound when it was read, and every
operation makes a sound store of a sound one (`Sound`, `JobSound`).  The core is
`TableFlat` and `RulesSingle`: an alias is settled to the end of its target's and
what pointed at the variant is moved with it, and two rules that meet are one.
`AlonePayeesFollow` (`AloneInv`): what the request that is under way read is the store,
and whenever none has begun to write, each row's payee follows from it.

*Opening.*  `OpeningOneBudget`, `OpeningNeverComesBack`, `OpeningAllThere`.  What they
rest on is that a run under way is the one the promise stands for (`RunOK`), so that
nobody else looks for a budget, makes one or seeds it; and that while it seeds,
what it has not yet to do is there.

*Store.*  `StoreKept`, `NeverTorn`: what the engine holds of an older store is held with
a whole copy beside it, from the moment it was read until it is written
(`StoreInv`), and a copy that is being made is made under a name no whole copy has.

*Backups.*  `BackupsKept`: where the clock only goes forward, the order of dates is
the order of writing (`SetsInv`), so the ones kept are the ones last written; among
finitely many dated things there is a latest.

*Import.*  `EvidenceBacked`, however many imports cross: rows are never taken
away, coverage is recorded after them, and what is written back late was backed
when it was read and is still (`BackedStays`).  `AloneExplained`: what an import has
written to the provenance nothing takes from it until it ends (`Known`).

*Coverage.*  `CoverageHonest`: merging, interval by interval in order, leaves intervals
that are apart and ascending and hold just the days of those merged (`Tidy`); so a
month inside one is covered day by day by statements, each of which brought all
its entries (`CoverageInv`).  The merge is a recursive function on sets of intervals: that
it has a value, and what the value is, holds for a set because it does for each
smaller one.

*Anchors.*  `BalancesHonest`: what the one request has read is still so (`RequestOK`), there
is at most one starting row, and it carries what makes the anchor that was applied
true (`Applied`); between two days all of whose movements are held the budget moves
as the bank did.  Here a death may leave an anchor not applied: the request after
it does not fail.

*Plan.*  `OneEach` holds though the matching is a recursion over the dates and a store
read long before may be written: `Sound` is about the store and every copy of it
that is carried, and two dates that are both sure of a transaction would each take
it from the other, so neither is.  `KeepsCounting`: the window of the plan begins no
later than any record.  `AloneSure`: what a pass works from is what is there
(`AloneInv`), and a sure pair is the only one of its kind.  That the recursion has a
value is itself proved: among the sets of dates on which it has none there would
be a smallest.

*Forecast.*  `LowestTrue`, `SpentOnce`.  Sums over finite sets do not depend on an order,
and are split and joined (the first part of these proofs).  The events are in a
total order; a position is that after some beginning of them (`Whence`); the lowest
is reached at an expense, or is where it began.  A month's close is the sum of its
events, which is income, less what is outside the plan, less the larger of plan and
records for each category.  From expected to matched, one amount leaves the
events and comes off the funds and the plan alike.

*Relay.*  `ToldOnce`, `OneWait`: who waits is who is pending and has a timer,
and one who waits was told nothing yet.

*Clocks.*  `Unique`, `NoRunaway`, `LaterIsNewer`: sending and receiving
move a clock past both what it read and what it received (`SentMovesOn`,
`ReceivedMovesOn`); what was applied under a device's own node id is never ahead of
its saved clock, also where the clock in memory was lost.

*Tries.*  A trie is a function of the set its side has, in whatever batches that came
and however often it was pruned (`TriesInv`): what was pruned once would be pruned
again, as only the last branches at a node stay and those only grow later
(`TrieGrows`).  So two tries differ exactly if the sets do (`DiffersIs`), and the key
where the walk down both ends has a different hash on either side (`DiffIs`): one
side has something at or after its time (`EveryPassMoves`), and once that is
exchanged the next difference is earlier (`EachPassEarlier`).  `FullWidth` is needed:
shorter keys are filled up on the wrong side, section 6.

*Devices.*  `Implements` maps each step of a pass to a step of `ActualReplicas` or to none.
It needs that nothing is anywhere which its maker has not applied (`Theirs`), that a
maker's stamps are its own once each (`OwnOnce`), that what waits to be applied is
past all the device applied (`Covered`), and that what is shown is computed from the
log, whatever the order (`TablesShow`).

Only model-checked: liveness (`EveryoneGetsIn`, `ComesBack`, `Opens`, `Answered`,
`Converges`), which is out of this prover's reach, as `ENABLED` is.  `EachPassEarlier`
is the part of `Converges` that is safety: passes cannot go on for ever.  What the
modules state beyond the runs and section 3 lists as only checked is not proved.
The properties of section 6 are false.

## 6. Findings

1. **A restore whose last write fails** (`restore_finish_fails`).  If
   `ayqFinishRestore` throws at its write of the journal, the restored budget
   stays open and is served while the journal says staged.  The next recovery
   removes it, with all that was done since, though `ayq-backup.ts:774` says
   nothing it removes is the only copy.
2. **Two requests at a time lose a decision** (`categorise_together`).  A pass writes
   back a whole store that it read before several awaits; what a person filed in
   between is no longer recorded as theirs.  `ayq-rules.ts:8` calls a manual choice
   the last word.
3. **Plan and record both** (`categories_forecast`).  Renaming a category takes its
   rules along and not its planned records; the forecast then finds no record under
   the new name and subtracts the plan as well, though `ayq-forecast.ts:95-97` says
   "The larger of the two, never their sum".
4. **A category changes sides** (`category_sides`).  Moving and removing compare a
   category's own mark of income (`ayq-categories.ts:33`, 104, 216) with the group's or
   the other's.  AYQ makes a category with a name and a group only
   (`ayq-categories.ts:61`), and Actual then marks it as one for money out
   (`packages/loot-core/src/server/budget/app.ts:327`), also under Income.  So it moves
   to a group for money out with its rows, though `ayq-categories.ts:91-94` says "Only
   to a group of the same kind ... a category that changed sides would change what
   every total says about the transactions in it".

### Other disagreements met while modelling

Each of these is a definition of the module named.  TLC violates it when it is
put in the place of the properties of the run's cfg, with the settings given.
What a comment says is quoted from the line given.

| property, module | settings | the code does | a comment says |
|---|---|---|---|
| `RemovesNoOnlyCopy`, `AyqRestore` | `restore_finish_fails`, `Faults <- RecoveryFails` | a recovery that throws at start is logged and the engine goes on (`ayq-engine.ts:570`); the first request makes a new budget and store, and a later recovery removes that store | "Nothing it removes is the only copy of anything" (`ayq-backup.ts:774`) |
| `AnswersReflect`, `AyqCategorise` | `rules`, part `filing`, two slots | a pass waits for the number of unfiled rows (`ayq-rules.ts:293`, 405, 520), which re-filing does not change; where another request's batch took its rows in, it is answered before they landed | "nothing proceeds on an answer that does not yet reflect the change" (`ayq-settle.ts:13-14`) |
| `RuleOutranksAuto`, `AyqCategorise` | `rules`, part `filing` | a row already where its rule files it keeps the mark of AYQ's filing (`ayq-rules.ts:260`), which a later reading moves | "a rule ... never touched; a rule outranks this" (`ayq-rules.ts:438-439`) |
| `AliasStands`, `AyqIdentity` | `identity`, part `crossing` | applying rules writes back the store read before (`ayq-rules.ts:291`); an alias recorded meanwhile is gone | "the person's own decision, and the last word" (`ayq-aliases.ts:23-25`) |
| `MergeKeeps`, `AyqIdentity` | `identity`, part `alone`, `RecordedKey <- FoldedOnly` | a merge aliases recorded keys (`ayq-merge.ts:53`); rules and names hang on the folded one, and stay behind | "A rule keyed on the merged counterparty follows ..." (`ayq-merge.ts:13-15`) |
| `JustWrittenStays`, `MCAyqHost` | `host`, part `sets`, `SetBack = TRUE` | with the clock set back, an automatic backup is written at every start and removed again as the oldest (`ayq-backup.ts:391`) | "older ones are removed once a newer one has been written" (`ayq-backup.ts:77-78`) |
| `EveryPassMoves`, `ActualTries` | `actual`, part `tries`, `TrieStamps <- ShortKeys` | keys of minutes before 1997 have fewer digits and are filled on the right (`packages/crdt/src/crdt/merkle.ts:50`); the pass from there exchanges nothing | "Ensure it's padded to create the full value" (`merkle.ts:37-38`) |
| `OneCopyEach`, `AyqStoreFile` | `host`, part `store` | the store is compared with the copy under the plain name only (`ayq-store.ts:869`); where that is another's, each read makes a copy more | "One per version, not one per launch" (`ayq-store.ts:847`) |
| `PlaceholdersGone`, `AyqOpening` | `opening` | that a budget is fresh is known to the run that made it only (`ayq-engine.ts:264`); after a failure the next leaves Actual's placeholders | "An interrupted run leaves the marker where it was, so the next launch finishes the job" (`ayq-taxonomy.ts:27`) |
| `SaidSoAcross`, `MCAyqRules` | `rules`, part `crossing` | what uses a category is counted, then awaited over (`ayq-categories.ts:198`); a row filed meanwhile loses it | "Removes a category, and nothing else in silence" (`ayq-categories.ts:183`) |
| `RulesLiveAcross`, `MCAyqRules` | `rules`, part `crossing` | a rename writes the budget first and the rules in the store after (`ayq-engine.ts:922`); a rule remembered in between by the old name, or a death, leaves one that names no category | the rules are moved, for otherwise it "would quietly orphan every rule" (`ayq-engine.ts:926-928`) |
| `RemovalKeepsRules`, `MCAyqRules` | `rules`, part `alone` | two categories may have one name in two groups, and rules go by name: when the one is removed into the other, each rule is taken to be there already (`ayq-categories.ts:232-243`) and dropped | "the destination's stands and this one goes" (`ayq-categories.ts:237-238`) |
| `NoRulePointsAtIt`, `AyqCategories` | `rules`, part `crossing` | a rule learnt while the budget deletes the category (`ayq-categories.ts:267`) points at nothing | "so that a rule never points at a category that has just ceased to exist even for a moment" (`ayq-categories.ts:225-226`) |
| `GoneAnswers`, `AyqRelay` | `host`, part `relay`, without `WF_vars(Timeout(id))`; holds with `Host = "node"` | a request after the engine's end is posted to a process that is gone (`ayq-main.ts:379`); only the timer answers it | "An engine that is gone answers every question at once, and says so" (`ayq-main.ts:196-198`) |
| `RowsOnce`, `AyqImport` | `imports`, part `crossing` | two first imports both find no account and both make one (`ayq-camt-import.ts:196`); entries of both are there twice | "every mapped transaction carries an `imported_id` ... and Actual matches on it" (`ayq-camt-import.ts:217-219`) |
| `ChoicesKept`, `AyqImport` | `imports`, part `crossing` | the store read before the rows were imported is written whole (`ayq-camt-import.ts:351`); what another request stored is gone | "it is remembered, and it is remembered per budget" (`ayq-preferences.ts:6-7`) |
| `EvidenceStays`, `Explained`, `AyqImport` | `imports`, part `crossing` | the same write loses what another import proved, and what it said of its rows | "Every interval is kept, not just the furthest" (`ayq-camt-import.ts:406-407`) |
| `AloneWorks`, `AyqAnchors` | `imports`, part `anchors`, `Requests = {r1, r2}`, two days | two requests add two starting rows (`ayq-anchors.ts:251`), one is ever corrected, and every later balance fails | "the earliest is the one the balance is built on and the one that gets corrected" (`ayq-anchors.ts:149-150`) |
| `DifferenceMeansMissing`, `AyqAnchors` | the same with one request, `Wrong <- {0, 1}` | reconciliation measures from the latest anchor, whoever stated it (`ayq-anchors.ts:340`) | "between two things the bank itself said" (`ayq-anchors.ts:319-327`) |
| `AnchorsTrue`, `AyqAnchors` | the same, `Undated <- TRUE` | where a statement says no end, its closing balance is recorded for the day of each entry (`ayq-camt-import.ts:172`) | "The closing balance applies on the statement's `toDate`" (`ayq-camt-import.ts:154-155`) |
| `ManualStands`, `AyqAnchors` | the same, `ClockBack <- TRUE` | decisions are ordered by the wall clock (`ayq-anchors.ts:80`) | "an explicit later manual re-anchor becomes active" (`ayq-anchors.ts:64`) |
| `AutomationYields`, `AyqPlan` | `plan`, part `crossing` | matching writes whole the store it read (`ayq-plan.ts:674`) | "Never over a person's decision, in either direction" (`ayq-plan.ts:687`) |
| `SoleApplied`, `AyqPlan` | `plan`, part `dates` | an earlier date that is merely near takes the transaction a later one alone qualifies for (`ayq-match.ts:259`) | "A confident match beats an offer" (`ayq-match.ts:267`) |
| `KeepsAccepted`, `AyqPlan` | `plan`, part `records` | accepting a suggestion expects nothing before that day (`ayq-plan.ts:331`), as the comment there says ("The day it was accepted is the day it starts expecting things", `ayq-plan.ts:326`); what was overdue stops counting | "an expected expense keeps counting until it is matched, rescheduled or dismissed, however long that takes" (`ayq-plan-series.ts:221-222`; the pane of an overdue payment promises it too, `ayq-client/src/ayq-strings.ts:812-813`) |
| `MatchesReachable`, `AyqPlan` | `plan`, part `records` | accepting a suggestion moves the first day it expects (`ayq-plan.ts:331`), and a date matched before that is no date of the record any more | "moving the date forward would silently drop occurrences already matched against it" (`ayq-plan.ts:328-330`) |
| `OneOffer`, `AyqPlan` | `plan`, part `records` | a rhythm is known by the amount its record has now (`ayq-plan.ts:448`); once that is corrected it is offered again | "running this twice creates nothing" (`ayq-plan.ts:430-431`) |
| `AcceptedStays`, `AyqPlan` | `plan`, part `crossing` with `Asks <- {"suggest", "confirm", "import"}` | a suggestion accepted while the history is read is withdrawn (`ayq-plan.ts:560`) | "a suggestion a person has already confirmed is theirs too" (`ayq-plan.ts:544-545`) |
| `TodayAgrees`, `AyqForecast` | `plan`, part `forecast` | Today counts the overdue before it matches | "so the number on Today and the rows on Upcoming cannot come to disagree" (`ayq-today.ts:24-26`) |
| `OfOneMoment`, `AyqForecast` | the same, with `Tasks = {q1, q2}`, and `MaxAsked <- 2`, `Crossing <- TRUE` for the instance in `MCAyqPlan` | a forecast joins a store read before with balances read after another request wrote | "answered from one reading of the budget rather than from four that could disagree" (`ayq-today.ts:3-7`) |

Two more the models do not state as a property.  "Not the same payment after all"
(`ayq-strings.ts:829`) undoes a match without refusing the pair, so the next pass
matches it again; a test expects that.  And a detected expense inside a plan moves
money from the month's start to a later date, so that counting it can show more
in between, where `ayq-forecast.ts:53-55` says less.

## 7. What is not modelled

Within the modelled parts:

- *Backups*: the manifest, digests and status file (a check is one fact, damaged or
  not), disk space, the wording of failures; in `AyqRestore` the newest backup is the
  one with the highest id, and dates are the business of `AyqBackupSets`.
- *Store*: what a migration does to the fields of a store.
- *Categorising*: a decision's history beyond the one that stands; a batch of more
  than a thousand rows goes in several calls, here in one.
- *Identity*: the texts names are folded by; a key stands for its name.
- *Categories*: names are compared without case nearly everywhere, here with; a
  planned record that is moved carries the name the request read.
- *Import*: the parser, files that cannot be read.  The rules, filing and matching it
  runs at its end are `AyqCategorise` and `AyqPlan`.
- *Anchors*: one account; a write is seen by the next read; rows changed in Actual
  itself.  `anchor-disagrees` is never reached, as `ayqSettle` throws first.
- *Plan*: one rhythm length, no end date and no mandate, expenses only; which rhythms
  the history holds is any subset of those given.
- *Forecast*: each payment has one clear match; the accounts view and the comparison
  of months.
- *Relay*: the three requests the host answers itself, windows, the single-instance
  lock.
- *Synchronising*: groups, resets, uploads, encryption, the limit of a hundred passes,
  wall clocks of two devices that disagree (`ActualClock` has those).  Changes applied
  inside `receiveMessages` are not counted by the code, as a comment there admits
  (`sync/index.ts:752-764`): `NoFalseAlarm` allows for them.

Whole components: the renderer and the reads keep no state another part depends
on; the CAMT parser and the bridge convert text and records, one at a time; the
prototype was replaced.  Actual Budget itself (`packages/`: screens, reports,
spreadsheets, importers, bank connections, the server) is by far the most of this
repository, another project that AYQ uses as a published library; of it only the
clocks, the trie and the synchronisation are modelled.  What the models cover is
small beside the repository for that reason, and most of AYQ's own decisions.

## 8. Plan

Done: the gate, backup and restore, retention, opening, the store's file,
categorising, identity, categories, import, coverage, anchors, plan and matching,
forecast, relay, Actual's clocks, tries and synchronisation; and proofs of every
invariant, action property and refinement their runs check.

Left, in this order:

1. The properties of section 3 that are only checked: `ForeignStays` of
   `AyqCategorise` and `NoFalseAlarm` of `ActualSync` first.
2. The whole of an import as one composition of `AyqImport`, `AyqCategorise` and
   `AyqPlan`; more rhythms in `AyqPlan`, with an end and with income.
3. Of Actual, what AYQ leans on most: the spreadsheet's dependency order and undo.
