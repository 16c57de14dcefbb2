# A TLA+ verification of the investment warehouse

This directory holds TLA+ modules that model the parts of the warehouse that
keep state, TLC configurations that check them on small instances, and theorems
that TLAPS proves about them for every value of the constants. Paths are
relative to `src/warehouse/` unless they begin with `docs/` or `tests/`.

Run TLC with `tlc -config X.cfg MCY.tla` and TLAPS with `tlapm Y_proofs.tla`
(`Operators_proofs` and `Computations_proofs` take about ten minutes each).

## 1. The system

The warehouse is a set of command-line programs (`cli.py`) and a dashboard
over one SQLite file, plus a directory tree of artifacts (`runs/`).
There is no server that serialises the commands: an advisor, a nightly job and
the dashboard, whose pages set the demo household up as they are opened, are
separate processes on the same database. Within
a process everything is a synchronous call.

### What all parts share: the session (`infra/db/base.py:28-38`)

A command opens one SQLAlchemy session, commits it on success, rolls it back on
an exception and closes it always. `autoflush` is off. From that follow the
four facts every module with processes is built on:

1. Reads take no lock and hold no snapshot; each sees what is committed at that
   moment, and rows stay in the session as they were when first read.
2. Writes are in memory until the flush. The flush takes SQLite's one write
   lock and keeps it until commit or rollback. A second writer waits for the
   busy timeout and then fails with "database is locked".
3. An UPDATE names only the columns that changed.
4. A failed command leaves no row. Files it wrote and events it emitted stay.

### Components

| Component | State | Operations | Meets others through | Correct if |
| --- | --- | --- | --- | --- |
| Approval gate (`decision/approval`) | `approval_requests`, its audit rows | create for a run or for a report, decide, look up | OMS and report delivery read its decisions | a request is decided once and never reopened; every decision is audited |
| Order management (`execution/oms`) | `staged_orders`, its audit rows | stage from an approval, submit, fill, cancel | reads approvals and runs; emits `order.filled` | no order without a sign-off; one order per trade; orders move along their edges |
| Report delivery (`reporting/report_writer/writer.py`, `pdf.py`) | `runs/reports/…`, report requests, audit rows | build a pack, approve and render, `report pdf` | reads breaks and approvals; runs Pandoc | no client PDF past a closed gate; the digest on record is the one on disk |
| Report collection and rendering (`collect.py`, `render.py`) | none; reads earlier bundles | collect, find the prior bundle, compare, render two packs | reads the ledger, OMS, breaks, analyst, risk, disk | compares with the nearest strictly earlier bundle; admits what it lacks; both packs and the panel tell one story |
| Month-end batch (`workflows/month_end.py`) | packs on disk, `report_build` rows | all households, or one | dispatches `report.build`, one session | a household's failure stays its own; the record speaks of whole packs |
| Custodian ingest (`data/ingest`) | `ingest_runs`, `custodian_positions` | parse, resolve tickers, store | the security master | a run is stored whole or not at all |
| Reconciliation (`execution/reconciliation`) | `reconciliation_breaks` | compare a run with the books | ledger, marks, security master | a break for each difference and no other |
| Daily refresh (`workflows/daily_refresh.py`) | refresh and step rows, the sandbox | ingest, reconcile, three bookkeeping steps | ingest, reconciliation, events, dashboard | one unit of work on the file it was handed |
| Messaging (`messaging`) | handler registry, two capped logs | register, dispatch, subscribe, emit | every command | a failure is told where it happened and nothing is asked after it; evaluations need no session; a subscriber harms nobody |
| Orchestrator (`orchestrator`) | an in-memory register of requests in flight | receive, route, advance, complete, fail | dispatches to handlers | a request ends completed or failed, on its own record |
| Bootstrap (`infra/db/bootstrap.py`, `seed.py`, `migrate.py`) | every table | migrate, seed or top up | runs at the start of every command | idempotent; leaves the user's rows alone |
| Ledger (`data/ledger`) | `lots` | views, stock splits, wash-sale chains | reconciliation, optimizers, tax | total basis invariant; chains are the transitive closure |
| Alternatives (`data/alternatives`) | holdings and events | mark, capital call, distribution | reports | holding and events agree |
| Policy statements (`decision/ips`) | `ips_policies` | save, load, drift | optimizers, reports | one current policy per household |
| Optimizers, constraints, tax (`decision/optimizer`, `constraints.py`, `tax`, `reporting/tax`) | `optimization_runs` and trades | harvest, MIP, rebalance, tax of lots | ledger, policy; advice, reports | bounds and budget kept; no sale ties lots into a wash-sale chain; claimed saving is reported tax |
| Analyst (`decision/analyst`) | none | attribute, judge theses, flag non-performing lots | advice, reports, dashboard | its panels agree on what breaches |
| Portfolio manager (`decision/pm.py`) | none | ask five specialists, score seven axioms | messaging, orchestrator | the headline is as bad as the worst axiom |
| Beliefs (`decision/beliefs`, `data/ingest/fiij.py`) | none | load a signal snapshot, blend | optimizers | no signal of a later day |
| Synthetic households (`research/synthetic`, `infra/db/synthetic_seed.py`) | bundles; rows of a stored household | emit, validate, smoke, store | policy drift, optimizers, dashboard matrix | the validator refuses what it should; the smoke ends; one bundle per household is stored |
| Risk engine (`research/risk`) | none | evaluate a portfolio, overlay, diff; `POST /api/risk` | advice, reports, dashboard, notifications | the levels of a report add up; deltas go from the whole of one portfolio to the whole of the other |
| Backtest and statistics (`research/backtest`, `research/stats`) | none | evaluate as of a day | ledger, marks | nothing of a later day is read |
| Dashboard (`dashboard`) | none of its own; its set-ups write refreshes, runs, decisions and orders | open a page: run the set-ups its loaders call, then show what is stored | reads everything; decides and stages like an advisor | a page without an error has its demo; opening pages comes to rest; it decides nothing decided |
| Audit log (`infra/audit`) | `audit_log` | `write_audit` in the caller's session | all writers | a row for each mutation, in its commit |
| Notifications and health (`infra/notify`, `infra/health.py`) | none | send an alert; check what the machine offers | risk engine, dashboard | the check foretells what an alert will do |
| Security gate, frozen registry | none | build scripts | – | – |

`PROJECT.json` lists the same parts with their source files and status.

### What is hard here

* **Overlapping sessions.** Checks and writes are apart and nothing but the
  write lock orders them: decide twice, stage twice, fill beside cancel, seed
  twice, a gate read and stale by the commit.
* **Files beside rows.** PDFs, packs and sandbox copies appear at once and
  survive a rollback.
* **Events beside rows.** `emit_event` writes its log before the commit.
* **Failure paths inside a unit of work.** `*_failed` audit rows join the
  session that the re-raised error rolls back; a failed flush leaves a session
  unusable that other households share.
* **Boundaries of pure code.** Break detection with absent, zero and duplicate
  positions; the walk-forward cut-off; budgets and bounds that both bind; the
  turn of a year; lots without a mark, a cost or a value.
* **Two computations of one thing.** Two wash-sale rules, three holding-period
  rates, two tables of asset classes, a panel and a report that show the same
  bundle, a health check and the alert it speaks of.

The full list, each item at its line with the properties that watch it, is
under `hazards` in `PROJECT.json`.

## 2. Modules

| Module | Models | Composes |
| --- | --- | --- |
| `ApprovalGate` | abstract: what an advisor is promised about decisions and orders | |
| `ApprovalOms` | approval gate + order management, sessions step by step | instances `ApprovalGate` |
| `ReportDelivery` | report packs, sign-off, gates, Pandoc, `report pdf` | |
| `Reconciliation` | `reconcile_ingest` as operators, with a reference definition | |
| `TaxLots` | harvests, the two solvers, the tax of lots, wash-sale chains | |
| `WalkForward` | the readers of dated evidence: positions, performance, statistics, backtest, signals | |
| `SumsAndOrders` | sums and stable orders, for the modules below | |
| `Rebalance` | the advised rebalance inside bounds and budget | |
| `Analyst` | attribution, theses, watch panel, review, non-performing flags | extends `TaxLots`, `Rebalance` |
| `Advisory` | policy check, advice, axioms, headline, the gate's register | extends `Analyst` |
| `RiskEngine` | a portfolio's risk by levels, overlays and deltas | extends `Rebalance` |
| `RiskDesk` | the risk request and panel, alerts, health checks | extends `RiskEngine` |
| `ReportCollection` | a report's bundle, its two packs, the report panel | extends `Advisory`, `RiskDesk` |
| `Messaging` | dispatch, legs, events and their logs | |
| `IngestLog` | abstract: the record grows by whole runs | |
| `DailyRefresh` | ingest, daily refresh, demo refresh, sandbox, events | extends `Reconciliation`, instances `IngestLog` |
| `MonthEnd` | the batch, three-file packs, audit rows, prior bundles | |
| `DemoSeed` | data: what the demo seed stores and in which order it is topped up | |
| `Bootstrap` | the record of the migration and the seed, check by check | |
| `DemoPages` | the set-ups behind the dashboard's pages, beside an advisor's commands | |
| `SyntheticHouseholds` | the household generator, its policy, the validator, the smoke and the storing | |
| `X_proofs` | theorems about `X` | extends `X`, `TLAPS` |
| `Seeds_proofs` | theorems about `Bootstrap` and `SyntheticHouseholds`, which share no state | extends both, `TLAPS` |
| `Operators_proofs`, `Computations_proofs` | theorems about the pure computations; the second goes on where the first ends | extend `MCComputations`, `TLAPS` |
| `MCX` | constants, symmetry and inputs for TLC | extends `X` |
| `MCComputations` | every small input of the pure computations, and what their results must be | extends `Reconciliation`, `WalkForward`, `ReportCollection`, `Messaging` |

A process is a record `sess[p]` whose `pc` says where its command stands; what
it carries besides is what the Python session has read or not yet written.
Definitions named `Thing_Slip` are plausible slips of `Thing`, kept beside it:
replacing `Thing` by one makes a run report the property that watches it.

### ApprovalOms

One session per command. `Create` is `_create_approval`; `LoadForDecision`,
`LoadForApproval` and `LoadForStaging` are the reads of `approval.decide`,
`approve decide` and `orders.stage`; `CheckStaged` is the look-up of existing
orders; `CommitApproval` writes what the session decided; `LoadOrder` and
`CommitOrder` are `order advance`. `Abort` is every exception, crash or
lock timeout. Since no command writes between its first write and its commit
anything that another reads, flush and commit are one step.

`Exclusive = TRUE` keeps sessions from overlapping: the assumption under which
the documents speak. `FALSE` lets them overlap in any way.

### ReportDelivery

Here flush and commit are apart, because `report approve` renders in between
while it holds the write lock. `Stamp` draws `created_at` (before the wait for
the lock), `FlushApproval` takes the lock, `Gate` reads both gates, `Render`
writes the PDF, `CommitApproval` the rows. `Draft`, `Bundle`, `CommitBuild` are
`report write`. `ReportPdf` is the command that renders again without gates.
`strays` records PDFs that a failed session or `report pdf` left.

### Reconciliation

A file is a sequence of positions; `Breaks` is the set of breaks the code
opens, by its three rules. `Agree` and `Differing` say without loops what
agreement means; `MCComputations` compares the two on every small input.

### The pure computations

What a command computes between its reads and its writes has no interleaving,
so it is written as operators, one for each function, and checked over inputs:
in `MCComputations` an initial state is one input of one computation and the
one step is the call. The properties compare the result with a definition
written without the code's order and loops, or with another computation that
speaks of the same input. Where the code raises, the operator returns a value of
its own (`Refused`, `Raised`, `Infeasible`, `NotAttributed`, `Rejected`,
`Uncollected`: constants, but for `Rejected`, a record no report is), and which inputs raise is part of what is checked.

* **TaxLots.** `TaxAwareOptimizer` and `MipOptimizer` are the two solvers,
  `AssignChains` is the merging of wash-sale chains sale by sale,
  `ReportedTax` the tax report. `ClosureOfLinks` is the closure without the
  order.
* **WalkForward.** Every reader is asked about a day of evidence in which later
  days are recorded. `Blind` says that the answer is that of the evidence cut
  at the day, or a refusal.
* **Rebalance.** The optimum of the quadratic programme is left open: any grid
  point of the feasible region is given, so what is shown holds for any solver.
  `Project` is the projection of the step the budget pays for. Policies come
  with min at most max, which the policy model enforces.
* **Analyst** and **Advisory.** `Watch`, `FlagNonPerforming` and `Advise` are the
  analyst's panel, the flags and `pm.advise` with its five legs; `Axiom7` and
  `Headline` score them. The risk engine's verdicts on two axioms are given.
  `ReceiveRequest` and `Panels` are the gate's register over a series of
  requests: each is answered before the next, as threads are left out.
* **RiskEngine** and **RiskDesk.** Weights are parts of a whole, volatilities
  and correlations coarse whole numbers, shares of variance numerators over one
  variance: adding up is exact where the code rounds. `ApplyOverlay` drops, adds
  and tilts in the code's order. `EvaluateRiskJson` is a request from its bytes
  to its reply, with the alert a failure sends; `RunInfraChecks` is the health
  page.
* **ReportCollection.** `CollectReportBundle` is what `report write` collects,
  `RenderExternal` and `RenderInternal` take from it what each section shows,
  `LoadReportWriterPanel` shows the bundle generated last. Sections are values,
  not text. A month has `MonthDays` days, a year `YearMonths` months.
* **Messaging.** `DispatchMessage` is one dispatch with its refusals and notes,
  `PmAdvise` its five nested ones; `EmitAll` tells a series of events to
  subscribers that may raise.

### DailyRefresh

`Begin … Commit` follow `run_daily_refresh`; a session holds the lock from its
first flush. The sandbox is one path for all files of a name. `IngestFails` is
the failure path: rows are added, the error raised, `Rollback` drops them.

### MonthEnd

`Collect` draws the snapshot id and reads the prior bundle; `Write` writes one
of the three files; `Flush` adds the audit row under the lock; `FlushFails`
rolls the transaction back and poisons the session, after which `Skip` fails
every later household and `CommitFails` ends the batch. A file that a failure
interrupts may be `torn`: it exists and does not parse.

### Bootstrap

Every command that touches the database begins with it. `ReadMeta` and
`RecordMeta` are `record_migration_meta`; `ReadHousehold` chooses between a full
seed and a top-up; `ReadCheck` is one look-up of a top-up, in the order of
`DemoSeed!DemoChecks`; `ReadPolicy` is `seed_ips_policy`. Each look-up sees what
is committed at that moment, all writes come at `Commit`, which fails as a whole
(`CommitFails`) when a row with one of its keys is there by then. Relationship
rows have no key but a running number: that none is stored twice follows from
the rows they come with, which is what `LinkedOnce` says. `Legacy` admits a
policy from before migration 005 in the initial states.

### DemoPages

`Pages` lists for each page the set-ups its loaders run, in order, and whether
the page shows their failure: a loader catches its own exception and the
caller drops the error of the loaders it called. `LookForIngest` and `Refresh`
are `_ensure_demo_refresh`; `LookForRun` and `Decide` are
`_ensure_demo_decision_runs`; `LookForComparison` to `CommitExecute` are
`_ensure_demo_phase4`, look-up by look-up. `SetupFails` is any failure of a
set-up and `Onward` the loader going on. The advisor's commands are there as
whole units of work but for the decision, whose read and commit are apart.

### SyntheticHouseholds

A draw is what a seed yields every time it is used: weights within the cohort's
ranges, the issuer cap, the number of AAPL lots, and the restricted list. The
specification is `GeneratorSpec`, named apart from that of `Bootstrap` because one
module of proofs extends both. `Emit` is `emit_synthetic_household` with the validator
at its end; the fixture (`Holdings`, `Committed`) and the policy
(`ConcentrationLimit`, `MaxNav`, `MinNav`) are functions of draw and order. The
code divides the weights by their sum; here amounts are compared with shares of
the sum, in 200ths of a weight, so every comparison is one of whole numbers.
`RunLeg` and `LegFails` are the smoke's legs, `Store` is
`seed_synthetic_household` with its look-ups by primary key. The quantisation
of a weight to seven places and the numerical legs' results are abstracted.

## 3. Runs

| Run | Instance | What it shows |
| --- | --- | --- |
| `ApprovalOmsExclusive` | 2 processes, 2 requests, runs of one and two trades, 2 order batches | without overlap: one decision, one order per trade, and `ApprovalGate` is implemented, with staging only under an approval and orders along their edges |
| `ApprovalOmsConcurrent` | 2 overlapping sessions on one request | with any overlap: no order without a recorded sign-off, every mutation explained, nothing reopened |
| `ReportDelivery` | 2 processes, 2 snapshots, 2 requests, 2 digests, all failures, `report pdf` | gates hold at commit; a PDF without an approval or a pinned digest is from `report pdf` or from a sign-off that failed |
| `DailyRefresh` | 2 processes, 3 runs, 4 files of one name, all failures | whole runs of one's own file, breaks announced, `IngestLog` implemented, the lock is given back |
| `DailyRefreshUnrecorded` | 1 process, 1 run | *violation* of `FailureRecorded` by the rollback |
| `MonthEnd` | 2 batches, 4 households (one not reportable), 2 dates, 3 packs, all failures | record and readable bundles speak of whole packs, the prior is the nearest earlier bundle, a batch is on record whole or not at all |
| `Bootstrap` | 2 processes on a new database or one of an earlier release whose policy has a turnover budget (any subset of the seven later features missing) | no relationship twice or without its row, demo data complete after a seed, a later seed changes nothing |
| `DemoPages` | 2 processes, each a dashboard or an advisor, 2 requests, the research and the execution page (the longest lists of set-ups), any set-up failing | a page without an error has its demo data, orders come from a recorded sign-off, a page on a complete demo writes nothing, the first page takes back no decision |
| `SyntheticHouseholds` | every seed whose weights are at an end of their range, 15 issuer caps, emitted twice in any order, smoked and stored | which households the validator refuses; the drift report, the smoke and the database agree with what was emitted |
| `Computations` | every small input of fourteen computations, below | see the next table |
| `PerformancePeeks` | the evidence of `Computations` | *violation* of `ReportIsBlind`: an earlier day is valued at later marks |
| `LotsHideNames` | the books of `Computations` | *violation* of `NoNameIsOverLimit`: two lots of a name pass the limit on one |

| Property of `Computations` | Inputs | What it shows |
| --- | --- | --- |
| `BreaksAreTheDifferences` | files of 1–2 rows, ledgers over 4 positions, quantities 0–1, 2 dates, 3 identifier schemes | no break exactly when file and books agree; quantity breaks are exact |
| `ChainsAreClosure` | 2–4 lots of three securities, 1–2 sales (of four lots, at a loss), in any order | chains are the closure of the links |
| `HarvestsAreUnlinked`, `MipKeepsTheBest`, `HarvestIsAccounted` | 1–3 lots, with and without loss, mark, value, restriction | the two wash-sale rules agree; the MIP keeps the best; no loss is skipped in silence and the claimed saving is the reported tax |
| `NoPeeking` | marks of 5 security-days, 5 exports, 10 holdings, 3 days | positions, statistics, signals and backtest read nothing later |
| `RebalanceKeepsPolicy` | 3 sleeves in thirds, 4 bounds, 3 budgets, every grid optimum | sums to the book, keeps bounds, budget and direction; refused only when it must be |
| `PanelsAgree` | 1–3 lots in two accounts, 3 securities, 6 prices | watch panel, checkpoint and flags say the same of a lot |
| `HeadlineIsHonest` | 0–2 lots, 21 policies, 5 risk verdicts | the headline is a breach exactly when risk or book are out of policy |
| `RegisterTellsAnswers` | up to 5 requests, ids shared or not, 3 records kept | each panel shows the last answers |
| `OverlaysAddUp` | portfolios of 4 parts in 1–3 slots, 108 overlays and none | the levels add up; what is dropped is gone; the deltas are those of the two portfolios |
| `AlertsAreForetold` | 432 bodies and 3 that are none, 144 settings, 24 sites, each channel up or down | a failing request or panel sends and replies as the health check said |
| `ReportIsCandid` | books of 0–2 lots with 9 policies, requests and breaks; or 1–2 earlier bundles over two years | a report is written exactly when it can be; it says what it is compared with; packs, policy and panel agree |
| `MessagesAreContained` | 18 operations, any legs raising; 1–4 events, 0–3 subscribers | a failure is told where it happened, stops what follows it, and stays off the emitter and the other subscribers |

**Bounds.** Two processes suffice for the hazards listed: each is a race of a
reader-then-writer with one other writer, and what two do to each other, a third
can only repeat (the theorems remove the bound where they exist). Two order
batches are the least that shows a trade staged twice; two requests the least
that shows a newer request overtaking a sign-off or a reply that answers for
another; three packs let a report choose between two earlier ones; two dates
give an earlier and an equal one. In `Computations` three lots are the least in
which a third comes between two, five requests the least that fill a register
of three twice over a shared id, four parts the least that an overlay can halve
and tilt, two subscribers behind a raising one the least that could be missed,
and two-day months with three-month years the least in which a gap of one month,
of more, and of a year's turn differ. Every computation has inputs on which it
raises. Two rows per file are the least for mixed
dates and duplicates. Releases differ by seven features (`Features`), and
`MaxMissing = 7` admits every subset. `MaxAudit` and `MaxStamp` bound counters in the guards;
they leave every interleaving of the two sessions possible. Ids that a command
draws at random are members of a small set, each drawn once: a run stops when
they are used up, which is why deadlock is not checked.

The shares the validator compares are quotients of linear forms of the weights,
extreme at the ends of the ranges, which is why `SyntheticHouseholds` draws
only ends; the theorem removes that. The caps are those around the 25% split
and the ends and middle of their range. Types are not among the runs'
invariants where a theorem `TypeCorrect` proves them.

**Symmetry** is used for processes, fresh ids and digests, which no definition
tells apart, and never in the run with a liveness property.

**Fairness** is assumed in `DailyRefresh` alone: `WF_vars(Proceed(p))` for each
process, the operating system running a process that can run. Nothing in these
commands waits but for the write lock, and its holder waits for nothing; a
process that waits may also time out, which needs no fairness. `LockReleased`
says that who takes the lock gives it back on each path, the raising one
included. All else is safety and needs none.

**External code.** SQLite's locking and visibility, SQLAlchemy's unit of work
and Pandoc are modelled from how `src/` uses them, as described in section 1.

## 4. Proofs

Each theorem holds for any constants that satisfy the module's named
assumption; none limits the number of processes, rows or files.

| Module | Theorems | Inductive invariant, and why |
| --- | --- | --- |
| `ApprovalOms_proofs`, overlap allowed | `TypeCorrect`, `OrdersAreSignedOff`, `MutationsAreExplained`, `NothingIsReopened`, `FillsAreAnnounced` | `IInv`: what an open session has read stays good enough for what it will write. A session may hold stale rows, so `SignedOff` is not inductive without `SessionInv` |
| `ApprovalOms_proofs`, `Exclusive` | `DecidedAtMostOnce`, `StagedAtMostOnce`, `StagingIsApproved`, `OrdersMoveLegally`, `Refinement` | what the one open session has read is still current |
| `ReportDelivery_proofs` | `TypeCorrect`, `SignOffsExclude`, `GatesHold`, `PdfsBacked` | past its flush a sign-off holds the lock (`LockInv`); nobody else commits, so the gates it read stay open (`GateInv`); a PDF on disk is a committed sign-off's, or is owed to the session still rendering, a failed one or `report pdf` (`BackedInv`) |
| `Operators_proofs`, `Computations_proofs` | see below | `AnswerInv`: a result is that of the computation asked for, of an input that was given; the rest are facts about operators |
| `DailyRefresh_proofs` | `TypeCorrect`, `RunsAreWhole`, `FilesAreOwn`, `BreaksAreAnnounced`, `Refinement` | a break a session will commit is in the log from its flush on (`AnnounceInv`); the lock keeps the sandbox one's own from copy to read; each session's rows follow from its own file (`Faithful`); a run has one session (`ClaimInv`) |
| `MonthEnd_proofs` | `TypeCorrect`, `WholePacks` (from `AuditedAreWhole`, `ReadableAreWhole`), `NearestPrior` (from `PriorsAreEarlier`, `NothingIsPassedOver`), `BatchesAreWhole` | `OwnInv`: packs a session answers for are nobody else's and on no record; `RowsInv`: its rows are whole packs, and all it calls completed unless it is poisoned; `FilesInv`: files come in order; `ReadableInv`: bundles once read stay |
| `Seeds_proofs`, of `Bootstrap` | `TypeCorrect`, `RelationshipsAreSingle`, `SeedsComplete`, `SeedsAreWhole` (both), `SeedIsIdempotent` (the last three without a policy from before migration 005) | `Sound`: what the checks behind a session looked for is there or will be added (`LookedFor`), and a relationship is added with its row (`Paired`); `NothingInv`: a seed after another finds nothing to do |
| `DemoPages_proofs` | `TypeCorrect`, `CleanPages`, `OrdersBacked`, `SettledPages`, `FirstPage` | what a set-up has looked for stays stored, so a page past it without an error has it; a session that flushed the comparison holds the lock, so the request it picked is still pending; on a complete demo no look-up takes the writing branch |
| `Seeds_proofs`, of `SyntheticHouseholds` | `RefusalsAreFounders`, `SmokeOfValidated`, `StoredOnce`, `MonitorAgreement` | `Judged`: a bundle that was let through is valid and a refused one is not; `Verdicts` says by linear arithmetic over the ranges which are, with the founder's rounded limit by cases on the cap |

`Operators_proofs` is about operators (sums, reconciliation, tax lots, advice,
messages, the register), of any inputs; `Computations_proofs` about those of the risk
desk, the reports and the rebalance, and then, by `AnswerInv`, about the runs' inputs:

| Theorems | What they are of | Argument |
| --- | --- | --- |
| `QuantityBreaksAreExact`, `BreaksAreComplete` | `Breaks` | by cases on a position being reported, being held, and both |
| `ReadersDoNotPeek` | the five readers of `WalkForward` | what is later than the day is in neither the sums nor the choices; the latest mark is the same of both |
| `PanelsDoAgree` | `Watch`, `Attribute`, `FlagNonPerforming` | the stages of the panel split the lots a policy judges; the sums compared are the same |
| `HarvestDoesAccount`, `HarvestsAreAccounted` | `TaxAwareOptimizer`, `ReportedTax` | along the folds: what is sold, blocked and without a price splits the losses, and the saving is summed lot by lot like the tax |
| `MipDoesKeepTheBest`, `TheBestAreKept` | `MipOptimizer` | a stable order by score, so the first of it score as high as the rest |
| `FindFinds`, `ChainsAreClosed`, `ChainsAreTheClosure` | `Find`, `Union`, `AssignChains` | the parents stay a forest whose roots are fixed points; `Find` ends within as many turns as there are keys; each union joins two trees, each saturated set of links stays closed |
| `HarvestsDoNotLink`, `HarvestsMakeNoChains` | both solvers and `AssignChains` | a lot that would trigger the ledger's rule is blocked by the optimizer's, so no sale has a link |
| `AnswersTellWhereTheyFailed`, `EvaluationsArePure` | `DispatchMessage`, `PmAdvise` | along the five legs: as long as nothing raised the calls are the legs so far; the first that raises is the last |
| `EveryEventReachesItsOwn`, `MessagesDoStay` | `EmitAll` | over subscribers inside events: the log keeps the last `MaxLog` of what it was told (`KeepsLast`), raising or not |
| `PanelsShowTheAnswers`, `RegisterDoesTell` | `ReceiveRequest`, `Panels` | a patch finds the record the request started, the newest, so a request adds one record, its answer; the list keeps the last `MaxRecords` of what it was told (`KeepsLast`) |
| `OverlaysAreSound`, `OverlaysDoAddUp` | `ApplyOverlay`, `EvaluatePortfolioRisk`, `DiffReports` | a sum is the sum of its parts by any key (`TotalByParts`), the same under other names (`TotalRenamed`) and with zeros added (`TotalOfMore`); each level, each list of deltas and each overlay is one of the three |
| `BooksArePortfolios`, `RequestsAreForetold`, `PanelsAreForetold`, `AlertsDoForetell` | `PortfolioOf`, `EvaluateRiskJson`, `LoadRiskDashboard` | lots and funds are one sum, by class; of positive parts none exceeds the whole, so the demo overlay can only fail at equity; what a failure sends is by cases on what is set and up |
| `PolicyCheckIsExact`, `AdviceIsAnswered`, `HeadlinesAreHonest`, `HeadlineDoesTell` | `PolicyCheck`, `Advise` | rounding down passes no bound from below, and none from above that is a multiple of more than the value of the book (`RoundedBelow`, `RoundedAbove`); each leg raises exactly when `Advisable` says so; the axioms are a breach only where an alert is |
| `RebalancesKeepPolicy`, `RebalanceDoesKeep` | `Project`, `RunMvRebalance` | the total goes down by as much as there are sleeves between their bounds, the same number from one grain to the next (`TotalGoesDown`), so where it passes the whole it meets it (`TotalMeets`); what is in the policy stays, as totals in order are equal only for equals (`TotalsOrder`); what is paid for of a way that sums to nothing sums to nothing (`MovesPartWay`) |
| `ComparisonsAreCandid`, `PacksAreCandidOf`, `PanelsAreCandid`, `ReportsAreCandidOf`, `ReportsAreCandid` | `CollectReportBundle`, `WriteReports`, `BuildReport` | the prior bundle is the one the spec's choice by day and stamp picks; months between two days are the months begun (`MonthsAreBegun`, by a bijection); what is written is read back, and each pack says what the bundle holds |

Induction over numbers is made first-order: `EveryNumber` takes the set of
numbers a fact holds of, and `LoopExists` gives a loop its function, so that
each theorem speaks of the code's own loop. Beside the types of the constants the
proofs assume what the modules name: losses and limits are numbers and a
concentrated sleeve is no reserve (`LossAssumption`, `ExpectedAssumption`),
rates are numbers (`RatesAssumption`), so are volatilities, correlations and shocks
(`RiskAssumption`), the asset classes that are named have one (`DeskAssumption`,
`ClassesAssumption`), the values that stand for no reply, no text and no overlay are
none of the others (`DeskAssumption`), logs, the register and their panels keep
something (`LogsAssumption`, `RegisterAssumption`), the lots of the inputs have names (`BoundsAssumption`),
the surtax is a rate above 0 and what has no price or mark is no number
(`RatesAssumption`, `DeskAssumption`), months and years have days (`CalendarAssumption`),
the bounds of policies are multiples of more than a book is worth (`GridAssumption`) and a
third of the book divides into what budgets and sleeves share (`ShareAssumption`).
`PanelsDoAgree`, `HeadlineDoesTell`, `RebalanceDoesKeep` and `ReportsAreCandid` have the
hypothesis that the values that stand for a call that raised, for an attribution
or a comparison that was not made, and for nothing collected, are no functions: they are
none of the answers.

The last two assumptions are about whole numbers, not about the code, which divides
in floating point: weights are whole parts of `One`, and a share between two parts is
rounded down. `HeadlinesAreHonest` and `RebalancesKeepPolicy` state what has to divide as
hypotheses; for the inputs of the runs these follow from the two assumptions.

Every property of the passing runs but one is stated by a theorem. Only
model-checked is `LockReleased` (liveness). Proved without a run of its own:
`FillsAreAnnounced`. Out of TLAPS's reach are liveness
under fairness and `ENABLED`, induction over data by the library's theorems, and
modules with `RECURSIVE` operators; none of the modules with theorems declares one.

## 5. Where code and documents differ

The runs marked *violation* end in a counterexample and stand for a finding in `PROJECT.json`,
with the sentence they contradict. Met while reading, without a run of their own:

* A repeated `orders.stage` answers with the orders of the household, those of
  other approvals included (`execution/oms/service.py:95`), although
  `docs/messaging_protocol.md:202` says "returns existing orders for the
  approval": `ReplyIsOwnOrders` of `ApprovalOms` is violated.
* The households of a month-end batch share one session without a savepoint: a
  failed flush of one fails every later one (`workflows/month_end.py:153`),
  although line 125 says "with isolated failures": `IsolatedFailures` of
  `MonthEnd` is violated.
* A page opened later than the first approves and stages whatever request is
  the youngest pending, and can overwrite a rejection committed since it read
  the request (`dashboard/phase4_data.py:80`).
* A report's request as the youngest pending makes `_ensure_demo_phase4` raise
  and roll back, at every visit, what the page would have stored besides.
* A request may be decided twice by overlapping sessions, the later decision
  overwriting the first (`decision/approval/service.py:162`); a rejection may
  land between the gate and the orders; fill and cancel may both commit.
* `order.filled` is emitted before a commit that may fail.
* A crash after `report approve` has rendered leaves the PDF without its
  approval (`writer.py:184`); `report pdf` replaces a PDF whose digest an audit
  row pins, and nothing compares the two afterwards.
* `created_at` is taken before the wait for the lock: a request opened meanwhile
  makes the sign-off answer "Blocked" though it was approved.
* No code resolves a reconciliation break, so one break blocks every client PDF
  from then on, although the message says to resolve it and run again.
* Two rows of one position, each equal to the ledger, open no break.
* Two processes may both run the demo refresh.
* Two overlapping `orders.stage` for one approval both find no order and both
  stage every trade (`execution/oms/service.py:89`), although
  `docs/messaging_protocol.md:202` calls staging naturally idempotent;
  `StagedOnce` holds when sessions do not overlap and only then.
* Two commands that start together may both record the migration
  (`infra/db/migrate.py:41`).
* Opening the execution, reporting or data page signs off the youngest pending
  request as `advisor:demo` and stages its orders (`dashboard/phase4_data.py:88`),
  although `docs/research/pm_pivot_plan.md:198` says "the human approval gate
  dominates": `OrdersAreAdvisors` of `DemoPages` is violated.
* A bundle at rung 4 with a split equity sleeve cannot be stored in a database
  without AAPL: each lot adds the security and its price again, because a
  session without autoflush does not find what it has just added
  (`infra/db/synthetic_seed.py:43,82`). `SealedIsStorable` is violated.
* `docs/synthetic_ips_implementation.md:246` promises that every emission passes
  `validate_ips`; founders at rung 4 with an issuer cap below 25% never do.
* `workflow_smoke.py:33-35` and `302-304` say that the concentrated cohorts fail
  `validate_ips` at seed 42, of a founder at rung 3 and a stress household at rung 4, as
  do `dashboard/analyst_data.py:55` and `docs/portfolio_optimization_implementation.md:384`.
  Neither is ever refused: the founder has no issuer's lot at that rung, and the stress
  household passes because it runs into its limits. `ConcentratedCohortsFail` of
  `SyntheticHouseholds` is violated; `OnlyFoundersAreRefused` is what holds.
* `workflow_smoke.py:5` says that a leg that raises is surfaced as not ok; the
  policy, overlay and scenario legs are not caught, so one ends the matrix.
* The outcomes of a month-end batch are printed before its only commit.
* `report pdf` renders past both gates (`cli.py:515`): `NoUnsignedPdf` of
  `ReportDelivery` is violated.
* A policy from before migration 005 is deleted by one seed and inserted by the
  next (`infra/db/seed.py:77`), although `seed.py:1` and `cli.py:33` call the seed
  idempotent: `Idempotent` of `Bootstrap` is violated with `Legacy = TRUE`.
* The watch panel passes over a lot's residual breach when another lot of the
  name is stronger (`dashboard/analyst_data.py:79`), although `thesis.py:12-14`
  wants each criterion judged: `ListsEveryBreach` of `Analyst` is violated.
* A price of zero drops the last return from the statistics while the move keeps
  the last date (`research/stats/__init__.py:93,200`); a first price of zero leaves
  a holding neither attributed nor unscored, although line 295 says "coverage gap
  surfaced, not hidden"; a flat prior is scored against all returns (191-192).
* `walk_forward.py:84` says "not yet wired", which it is; no caller passes `as_of`
  to `list_lot_positions`.
* The first checkpoint of the review is "pre-committed" (`review.py:42-45`), but no
  effective date is compared.
* A headline "within tolerance" cannot be reached: one axiom is never computed.
* A rebalance from a book outside its bounds may exceed the turnover budget, as
  `rebalance.py:206-209` says.
* A risk request that is not UTF-8 gets no reply; a horizon or notional that is no
  number is a 500; a mail server that is down loses the reply of the request and
  the alert of the other channel (`infra/notify/dispatch.py:62`).
* The dashboard's demo overlay refuses a household with less than a tenth in equity.
* The confidence band of the risk engine inverts when an estimated sleeve hedges:
  its share of variance is negative and not clamped below (`engine.py:98-104`),
  although the band is labelled "widens_with_fermi_risk_share": `BandIsOrdered` of
  `RiskEngine` is violated.
* Duration buckets, stress by class and deltas do not add up for a portfolio that
  names a class twice (`by_duration.py:35`, `overlay.py:126`).
* A report calls its tax deltas "zero-stubbed" whenever no lot has a gain
  (`collect.py:178-183`), calls itself the first when the earlier bundle cannot be
  read, and drops from the comparison sleeves that are gone; more than 500 newer
  requests hide a pending one.
* The kind of a message is never compared with the kind its operation is registered
  with (`messaging/core.py:60`), although `docs/messaging_protocol.md:40` says that
  "the kind is the protocol": a message that calls itself an evaluation runs a
  command.

## 6. Plan

Done: the modules above, their abstract specifications where worth stating, and
their proofs. Next, in this order:

1. The orchestrator's register under several threads.
2. The asset test suite and the stress harness of the synthetic households.

### Not modelled

* Stock splits and the events of alternative holdings (`corporate_actions.py`,
  `data/alternatives/service.py`): nothing in the program calls them; only tests do.
* Black-Litterman, the quadratic programme, the robust overlay, value at risk,
  expected shortfall, sensitivities and regimes: floating-point functions without
  state; the modules take what they decide as given.
* Page layout and Markdown (`dashboard/render_*.py`, `decision/pm_workout.py`), the
  registries of test and build reports, option parsing and printing: no state and
  no decision.
* The security gate and the frozen registry: build scripts.
* Threads of one process on the register of requests and on the event logs.
