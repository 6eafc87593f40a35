# A verification of codex-usage-tracker

This directory holds TLA+ models of the parts of codex-usage-tracker whose
correctness depends on the order in which several processes act, on crashes
between two steps, and on clocks, and of what is derived little by little from
files that keep growing. TLC checks them on small instances, and TLAPS proves the
most important safety properties of the operational sidecar, the artifact pointer,
the parser's threads, the refresh from source files, the rows it writes and the
journal of the stream for every instance.

Paths below are relative to `src/codex_usage_tracker/`.

## The system

The package holds two generations of one product: a local tracker that reads
the JSONL session logs of a coding agent, keeps their facts in SQLite and
answers queries about usage.

**The agent kernel** (`agent_kernel/`) is the newer one.

| part | state | operations | hard because |
| --- | --- | --- | --- |
| operational sidecar (`storage/operational.py`) | jobs, leases, fencing tokens, recovery intents, recorded pointer pairs, dirty hints | start or join, transition, force terminal, heartbeat, acquire/release/validate lease, intents, pairs | several processes, old clock readings, workers that die or overrun |
| publication (`publication/recovery.py`, `writer.py`) | artifact files, each with a head publication; the artifact pointer file | publish in place, promote an isolated artifact, select a readable artifact, recover at startup, clean up | a file, an analytical database and the sidecar are changed one after the other, and a crash may come in between |
| planner (`publication/planner.py`) | none | classify a change set, bounded moving-tail catch-up | budgets, boundaries that keep moving |
| lifecycle (`storage/lifecycle.py`) | transitions per entity | append, fold | late and reordered observations |
| adapter (`adapters/codex_jsonl/`) | cursors per source file; queues and slots while it parses | discover, select, classify a cursor, parse with several threads | files are appended to, truncated, replaced, also while they are read; threads wait for one another |
| preparation and writer (`publication/preparation.py`, `writer.py`, `validation.py`) | rows of sources, cursors, coverage and entities; counts, bounds, deltas | prepare a write set from what is published, write it in one transaction, validate an artifact | everything is brought up to date from what it was, and has to be what a rebuild would give |
| storage (`storage/*.py`) | analytical rows | repositories | constraints of the schema |
| queries, evidence (`query/`, `evidence/`) | none (page cursors carry theirs) | execute a plan, read a page | publications go on between two pages |
| accounting (`domain/`) | none | valuation, derivations | arithmetic |

**The released kernel** (`kernel/`) is what the installed tool runs.

| part | state | operations | hard because |
| --- | --- | --- | --- |
| refresh leases (`lease.py`) | `refresh_runs` | acquire (create, join, busy), renew, progress, complete, fail | an owner may lose its lease while it works |
| cutover (`operational.py`) | `cutover_control`, source registry, coverage | transition, promote, roll back, reset | one row, several writers |
| ingestion (`ingest.py`, `writer.py`) | analytical generations | refresh, recover an interrupted build, catch up | many transactions per refresh |
| journal and stream (`live/`) | `live_events` | append, replay, read | retention, clients that reconnect, gaps |
| console (`interfaces/http/`) | what a browser tab shows, its stream | status, events, follow the stream | answers that are late, lost or refused |
| jobs and application (`application/`) | launch guard, query cache | refresh, wait, query | launch races, stale results |
| queries, evidence, allowance, interfaces | none | reads, transports | - |

The host calls publishers and recovery; both talk to the sidecar only through
`OperationalStore`, whose every mutation is one `BEGIN IMMEDIATE` transaction.
Publishers and recovery meet in three places: the sidecar's rows, the head of
an artifact file, and the pointer file, which is replaced by `os.replace`. There
is no lock around the three together.

### What would make each part correct

- sidecar: one active operation per compatibility key; terminal rows immutable;
  a lease goes only from a holder that is stale; a lost lease stays lost.
- publication: readers are always served; what was published stays visible;
  what is reported is what happened; a sealed rollback is not written; every
  visible publication is eventually reported and every intent settled.
- planner: budgets respected, and a tail reported pending exactly when it is.
- lifecycle and rows: what is published little by little is what one publication of
  everything would give, and an artifact passes its own validation.
- adapter: no record is skipped or read twice, whoever refreshes at the same
  time; threads change nothing but the speed, and come to an end.
- queries: all pages of a cursor come from one publication.
- refresh leases and cutover: one owner writes, and a lost owner changes
  neither the run nor the cutover of its successor.
- journal: a publication is announced once while the journal holds it; a client either sees every generation
  or is told to take a snapshot, and ends up showing the active one.
- jobs: a request gets a job that is really running; no stale result is served.

## Modules

| module | models |
| --- | --- |
| `OperationalStore` | the rows and mutations of the sidecar, as operators: one transaction, one step |
| `Sidecar` | job and lease mutations under arbitrary clients: any live worker, any call, any clock reading, any old snapshot |
| `SidecarProofs` | the theorems about `Sidecar` |
| `PublicationProtocol` | publishers, recovery and the host, composed with `OperationalStore` |
| `PublicationRegister` | what publication promises its clients (abstract) |
| `PublicationProperties` | properties of the protocol, and the refinement mapping to the register |
| `PublicationProofs` | the theorems about the artifact pointer, and that recovery is never refused |
| `RegisterProofs` | the theorem that the protocol implements the register |
| `AnalyticalArtifact` | the released kernel's database: each transaction of its writer and rollup builder, and the plan of one source, as operators |
| `RefreshControl` | the released sidecar: refresh leases, cutover record, source registry, coverage; one operator per transaction |
| `KernelRefresh` | refresh workers step by step, over these two |
| `KernelRefreshProperties` | what refresh promises its readers and workers |
| `KernelRefreshProofs` | the theorems about ownership, generations, readers and rollups of the released refresh |
| `GenerationJournal` | the table of announcements, and one page of the stream, as operators |
| `LiveConsole` | promoting workers, a user who rolls back, and consoles that follow the stream |
| `LiveConsoleProperties` | what the stream promises a console |
| `LiveConsoleProofs` | the theorems about the journal |
| `SequentialParse` | the batches of all sources as one worker would hand them over (abstract) |
| `ParsePipeline` | the feeder, the workers and the coordinator of the parser |
| `ParsePipelineProperties` | their slots, their end, and the refinement of `SequentialParse` |
| `ParsePipelineProofs` | the theorems about `ParsePipeline` |
| `SourceCursors` | source files, inventory, selection and cursors, as operators |
| `SourceRefresh` | refreshes that read the files and publish cursors, occurrences, diagnostics and coverage |
| `SourceRefreshProperties` | what a publication says of its sources |
| `SourceRefreshProofs` | the theorems about coverage, cursors and what is before them |
| `LifecycleFold`, `SessionTree` | the fold of transitions; roots, depths and relatives in the session hierarchy |
| `PublishedRows` | the rows, counts, bounds and deltas a publication makes of the records it reads |
| `PublishedRowsProperties` | what the rows promise, and the comparison with a rebuild |
| `PublishedRowsProofs` | the theorems about roots, validation and deltas |
| `MCSidecar`, `MCPublication`, `MCKernelRefresh`, `MCLiveConsole`, `MCParsePipeline`, `MCSourceRefresh`, `MCPublishedRows` | the instances TLC checks |

The modules are four families that share no variables: the sidecar with the
publication protocol, the released refresh, the released stream, and the agent
kernel's path from files to rows (`ParsePipeline`, `SourceRefresh`,
`PublishedRows`). Where one rests on another, it takes the other's promise as a
step: `SourceRefresh` reads sources one after the other because `ParsePipeline`
implements `SequentialParse`; `SourceRefresh` and `PublishedRows` commit in one
step because `PublicationProtocol` has shown what surrounds a commit;
`LiveConsole` promotes in one step because `KernelRefresh` has its details.

### OperationalStore and Sidecar

A row is a record, an absent row is `None`. A guard that is false is a call that
raises, after which the transaction is rolled back. Every operator takes the
caller's clock reading `now`: the code takes `now_us` as an argument and checks
it against the rows, so a client may pass an old one. The CHECK constraints of
`operational.sql` that a call can run into are guards (`MayRenew`, `MayTake`).
A worker identity stands for PID, start token and owner nonce together.
The stage, the progress and the error columns are left out: nothing reads them
to decide. `force_terminal` reads the job before its guarded UPDATE; since the
UPDATE repeats the condition, the two are one step.

### PublicationProtocol

Operation `o` publishes publication `o`; an isolated operation's candidate is
artifact `o`. The content of a file is identified by the publication at its
head, so a file digest is that publication. One action is one sidecar
transaction, one analytical commit, one `os.replace`, or the reads between two
of them:

- in place: `Begin` (lease), `ReadPointerSmall`, `CommitAnalytical`,
  `FenceSmall`, `WritePointerSmall`, `RecordSmall`, `Complete`, `Unwind`;
- isolated: `Begin`, `LockPromotion`, `Preflight`, `PrepareIntent`,
  `SealRollback`, `FenceIsolated`, `WritePointerIsolated`, `MarkWritten`,
  `Verify`, `RecordIsolated`, `MarkReconciled`, `Complete`, `Unwind`;
- recovery: `ReadPointer` and `OpenSelected` (selection), `RepairPointer`,
  `SnapshotStatus`, `CompleteSelected`, `RecordCompleted`, the page of intents
  (`ListIntents`, `RecoverIntent`, `ReconcileIntent`, `UndoOperation`), the
  stale leases (`ListLeases`, `RemoveLease`, `FailHolder`) and the jobs without
  lease (`ListJobs`, `RecoverJob`).

A publisher or recovery may die before any of these (`Crash`, `CrashRecovery`),
and other processes act between any two. An exception goes to `Unwind`, the
`finally` blocks that release the leases.

The host is not in the repository; only tests and scripts call the publishers.
What it may do is a constant of the model:

- `Recovery = "first"`: it recovers before it publishes again after a process
  stopped, and not while a publisher runs (without a pointer nothing can be
  selected, so nothing is recovered);
- `"alone"`: not while a publisher runs, but it may also go on without;
- `"anytime"`: recovery and publishers run side by side.
- `Overrun = FALSE`: a live worker is done before its lease expires and its job
  is kept alive meanwhile; `TRUE`: it may be slower.

The host's own transitions between `planned` and `writing` or `promoting`, and
the isolated build, are one action, `Prepare`: no other process reads the states
in between. A retry of an isolated operation keeps its plan and candidate; a
retry in place plans again.

### PublicationRegister

A chain of publications that only grows at its end, and per operation an outcome
that is reported once: published, if it is in the chain, or abandoned, if it is
not and never will be. `PublicationProperties` maps the protocol to it: the
chain is the ancestry of the head that a reader opening the pointer now is
given, the outcome comes from the job's state.

### AnalyticalArtifact and RefreshControl

A source file has a path and an inode, which together are its source id, and a
content: a version and a number of complete lines. Appending keeps the version,
any other rewrite gives a new one; the fingerprint that `plan_source` samples is
the version. A line stands for the rows of calls and activities read from it, which
are inserted once (`ON CONFLICT DO NOTHING`) and carry the generation that inserted
them. A line may also observe the allowance (`Reading`). Such observations share
rows: one that reads the same as the newest row of its source extends that row and
writes its own generation into it (`InsertState`), whether the row is published or
not, and also when the line is observed once more by a retry. One window of the
allowance is modelled, of which a line observes one value at most; the count of
observations and the call that triggered the last one are left out. The cursor of a
source is where its next parse starts. The rollups of a generation are the set of
lines they count.

The transactions of `commit_refresh` that insert the rows of a plan, one per
table, are one step.

`control` is the one row of `cutover_control`. The state `ready` is passed
through only inside `promote_cutover`, so the model has no such state. The
integrity digest of a generation is bound to its row: "the digest matches" is
"the row is there and valid".

### KernelRefresh

A worker is a process with one run. Its actions are those of
`KernelIngestor.refresh` in their order:

- start: `Launch` (the guard and the list of files), `Initialize`, `Wipe`,
  `Observe`, `Acquire`;
- recovery of an earlier build: `Recover` (the reads), `RecoverRollups`,
  `RecoverBegin`, `RecoverPromote`, `Interrupt`, `Discard`, `Admit`;
- plans: `MakePlans`, `Stage`, and `Catalog` or `Capture` when nothing is to do;
- build: `Prepare`, `Clone` (in place, isolated, or isolated with rollups that
  go on from the prior ones), `Begin`, then `Open`, `Facts`, `Seal` or, for a
  streamed build, `Batch`, `Finalize`; `CatchUp` and `Replan`, at most three
  times; `Rollup`, `Promote`, `Register`, `Complete`;
- failure: `FailRun`, `Blame`, `Condemn`.

`Fence` is the lease check before a commit, and the commit is a later step, so a
worker can be overtaken in between. `Heartbeat` renews a lease where the code
runs its heartbeat thread, which is around the build only. `Fault` raises inside
the `try` block, `Crash` ends the process anywhere. `ChangeFile` appends to,
overwrites, replaces or creates a file; `Rollback` is `repair --rollback`.

Constants select what happens around the workers:

- `Worlds`: which changes there are, which of them also while a worker is at
  work, and which failures (crashes, exceptions). A behaviour is in one world; a
  rollback happens between refreshes only;
- `Lapses`: which lease may run out: that of a dead worker only, also that of a
  live worker outside of the heartbeat or before its first beat
  (`"unmaintained"`), or any (`"any"`, a process that is stalled between a check
  and its commit);
- `Guarded`: whether workers are started under the launch guard. `FALSE` is the
  guard after its timeout;
- `Starts`: whether a first generation is there, or nothing yet.

Reads that only feed the next transaction are merged with it: the catalog row is
staged after the plans are made, and the current catalog is compared when they
are made. Left out: schema upgrades and the backfill of rollups and indexes,
presets of hydration and the hydration states of the registry, selection of
duplicates, rows that are upserted (a tool gets the larger generation when its end is
read, `writer.py:815`, and its call by `_link_unresolved_tool_calls`; a thread its last
generation, `writer.py:510`: a build in place may hide or change these as it does
those of the allowance), parser upgrades, cleanup of old artifacts,
files that disappear, rewrites that no sampled fingerprint sees, the journal's
row at promotion, and a refresh without
any file.

### GenerationJournal and LiveConsole

A worker that promoted a publication reads which one is active *then*
(`ReadPublication`) and announces that one (`Announce`), or dies or fails to
write the journal (`GiveUp`). A console's requests take three steps: sent,
answered, handled. The stream reads the active publication (`Poll`), then the
bounds, the latest entry and the page of the journal in three statements of
their own (`ReadBounds`, `ReadLatest`, `ReadPage`); `HandleEvents` and
`HandleSnapshot` are the handlers of `app.js`. `LosePoll` is a lost answer, which
the browser asks for again; `RefusePoll` an answer that is no stream, which ends
an `EventSource` for good; `FailStatus` a status request that raises. The server has a
thread per request (`ThreadingHTTPServer`, `interfaces/http/server.py:62`) and the
console does not number its requests, so those of one tab are answered and
handled in any order. What a tab shows last may hence be older than what it was shown
before; `told` is the newest status it was ever shown. Constants say when a user rolls
back (`Rollbacks`) and whether a tab may open before anything is published.

### ParsePipeline

One action is one blocking call of a thread: `Feed` puts on the work queue,
`Take`, `Parse`, `AcquireSource`, `AcquireSlot`, `Put` are a worker's loop, `Get` and
`Yield` the coordinator's. `Fail` is the parser raising anywhere before its last
batch, after which the worker hands over a terminal batch of its own. What is in
a batch is left out; an unchanged source has one, another at least two. The
consumer of the iterator is taken to go on.

### SourceCursors and SourceRefresh

A file is a sequence of records and possibly an unterminated line; a hash is
the bytes it is of. A refresher reads the cursors (`Begin`), lists and chooses
files (`Discover`), and for each chosen source classifies it, reads complete
records and hashes the prefix again (`ClassifySource`, `ReadSource`, `HashSource`:
three looks at a file that may change in between); then it prepares rows and
coverage from what was published (`Prepare`) and commits or is refused
(`Publish`, `Refused`). `KeysDangle` and `RanksClash` are the two constraints that
make a commit fail: a record under the key of a replacement that nobody
inserts, and a rank that an older source has.

`Habits` says how files change in a world, which changes also happen while a
file is read, and how often a refresher may die.

### LifecycleFold, SessionTree and PublishedRows

A record is the observation it is normalised to: a time, a source and a place
in it, an entity and what it says of the entity. `Publish(S)` reads all that is
new in the sources `S`, sorts it, appends transitions, folds them, and derives
session rows with roots and depths, tools, calls with their tail, components,
counts and the delta, each by the rule of `preparation.py` for rows that are new
and rows that are there. A publication that the fold, the hierarchy or a CHECK
refuses changes nothing. `S` is any set of sources: a refresh reads its sources
one after the other, so that a record may be published before an older one.

Sessions, tools, calls and components stand for the forms a row can have: with
transitions and a hierarchy, with transitions and write-once columns, with
transitions and the tail, and with none of these. Observations of an allowance are
inserted once, known by the source and place they were read at (`normalize.py:693`),
and derive more: an interval for each two neighbours of what is new and the last
one published (`NewIntervals`), and whether the cycle is complete (`NewCycle`). There
is one limit with one cycle, numbered by the provider; a second would have rows and
intervals of its own. The parent of a session is told by its own source, or by another
one once the session is published; in the worlds of `"late_parent_elsewhere"` also
before, so that the relationship may be published before its child.
`Worlds` says which kinds of records there are and how many.

## Runs

Passing:

| run | instance | shows |
| --- | --- | --- |
| `sidecar` | 2 operations of one key, 2 workers, 1 lease, clock 0..1, tokens to 2 | every order of calls keeps one active operation per key, terminal rows, fencing and takeovers |
| `settle` | 1 operation in place, 1 isolated, 2 attempts each, 1 recovery that may crash once, under a host that recovers first | publication implements the register, no generation is skipped or repeated, recovery is never refused, the recorded pair is the pointer; visible publications are reported, intents settle |
| `damage` | a pointer with rollback and one file damaged at any moment | readers are still served |
| `anytime` | recovery at any moment | active served, rollback sealed |
| `refresh` | 3 workers, 2 files; either workers that may die anywhere over files that grow, with 1 rollback, or files that appear, are overwritten or renamed between refreshes; from nothing, or from a published generation | what readers see, what is counted and what is reported agree; calls and activities of the published generation stay as they are, and no observation of the allowance is missing when one is published; generations follow one another and no abandoned build is published |
| `refresh_unrenewed` | 2 workers that die, raise, or lose a lease that nothing renews; 2 files that grow | only the owner promotes its build, and what it promotes is complete |
| `live_console` | 2 workers, 3 publications, 1 rollback at any time, 1 console whose requests are answered in any order, a journal of 2 entries and pages of 1; 1 lost answer, 1 failed request or 1 refresh from the console | no publication is announced twice while the journal holds it, and the journal is a suffix of what was announced; silence hides nothing; the console is shown the active publication in the end |
| `parse` | 2 workers with the default capacities, 4 sources of up to 3 batches, 2 of them unchanged; parsers that raise | the caller sees a sequential parse, slots are accounted for, and it ends |
| `sources` | 2 refreshers, 2 files, 3 changes; either files that grow and refreshers that die, or files that change in every way, also while they are read | cursors are behind nothing that is missing and never go back; coverage is what a count would give; a place holds one record; files that grow are published |
| `rows` | 3 sessions, 1 tool, 2 calls, 1 component, 1 allowance, 2 sources, 3 to 5 records of the kinds of 10 worlds, published in any division | roots and depths are current; an artifact passes its validation; the rows of tidy files are those of a rebuild; deltas are differences; everything of tidy files is published |

Violations, each with its finding in `PROJECT.json`:

| run | shows |
| --- | --- |
| `refresh_lost_source` | a new file's cursor is committed before its facts, and a crash in between loses the facts |
| `parse_stuck` | four unchanged sources behind a changed one take every slot of the pool, and the parse never ends |

The passing runs of refresh leave out what these findings need: a crash with a
file that is new or overwritten, a rewrite during a build, a rename before a
rollback. In `refresh` the worlds are apart for this reason.
`refresh_unrenewed` starts from a published generation and checks what
is promoted only: a worker without lease can spoil the rest, as the
configurations below show. So `SuccessIsTrue` in `refresh` says nothing of
new files and crashes. In the same way some properties of the other runs have
an antecedent, and the configurations below show what is behind it:
`EverythingIsPublished` of `sources` is about files that only grow, and not while
they are read (`Growing`); `SameAsRebuilt` and `EverythingIsPublished` of `rows` about
tidy files (`Tidy`): tools start before they end, in the files and in time, no other file
tells the parent of a session that is not published yet (`MCLostEdge` shows what happens
then), no session is told a parent late and ends afterwards, and one source tells of an
allowance, whose cycle stays open; `ArtifactValidates` about tools whose start is
somewhere. `SilenceIsCurrent` and `ConsoleCatchesUp` exempt behaviours in which a
request of a console failed, a rollback came before the active publication was
announced or while a worker had one to announce, or a publication came after a rollback
(`Exempt`), and speak of what a console was shown, not of what is on its page in the
end. `PublishedAllowance` is about publications, before and after a rollback, and not
about the rollback itself; `ReadersUndisturbed` is about calls and activities;
`ParseEnds` about at least as many slots as sources.

The type invariants `PublicationProperties!TypeOK`, `KernelRefresh!TypeOK`,
`ConsoleTypeOK` and `RowsTypeOK` hold when they are added to `MCSettle.cfg`,
`MCRefresh.cfg`, `MCLiveConsole.cfg` and `MCRows.cfg`, and so does `PoolSuffices`, that no
worker waits for one of at least as many slots as sources, in `MCParse.cfg`.

### Configurations beside the runs

These are kept for a reader who changes the code they are about. Run them with
`tlc -config X.cfg M`, with `MCPublication` or, if the name starts with `MCRefresh`,
`MCKernelRefresh`. TLC finds the property violated:

| configuration | property | shows |
| --- | --- | --- |
| `MCOverrunSealed` | `RollbackSealed` | an in-place publisher that outlives its lease writes the sealed rollback |
| `MCTakenOver` | `RecoveryRequiredEnds` | a job demoted by a takeover stays in `recovery_required` |
| `MCRefreshCatchUpInPlace` | `ReadersUndisturbed` | a file rewritten during an in-place build loses its published rows before the promotion |
| `MCRefreshRecoveredRollups` | `RollupsMatchFacts` | recovery advances rollups that it had to rebuild |
| `MCRefreshRenamed` | `SuccessIsTrue` | a file replaced by rename during a build is published with both contents |
| `MCRefreshFailedByLoser` | `FailsOwnBuild` | a failed worker fails its successor's cutover |
| `MCRefreshRecoveryOvertaken` | `RecoveryIsOwned` | a worker without lease promotes its successor's build |
| `MCRefreshCatalogOvertaken` | `CoverageIsTruth` | a worker without lease publishes coverage of lines that no reader has |
| `MCRefreshEarlyObserver` | `SuccessIsTrue` | a worker that looked at the files before another one failed reports success without plans, though the failed one's lines are in no published generation |

More are one of these configurations or of the runs' with some lines changed, and one
property alone in place of its own:

| configuration | changed | property | TLC says | shows |
| --- | --- | --- | --- | --- |
| `MCAnytime` | `Recoverers = {r1, r2}`, `Recovery = "first"` | `ImplementsRegister` | holds | two recoveries side by side, of which each may die once |
| `MCAnytime` | none | `CompletedIsPublished` | violated | recovery beside a promotion repairs an old pointer over the new one |
| `MCAnytime` | `Small = {s1, s2}`, `MaxCrashes = 0`, `MaxClock = 0` | `RecordedPairIsPointer` | violated | after such a repair the next publication has the generation of the one it lost, for which another pair is recorded |
| `MCAnytime` | none | `LiveJobsAreLeft` | violated | a heartbeat newer than recovery's clock counts as stale |
| `MCAnytime` | `Recovery = "alone"` | `RolledBackIsUnpublished` | violated | an overtaken promotion is reported rolled back though it is visible |
| `MCSettle` | `Recovery = "alone"` | `ImplementsRegister` | violated | a promotion dies behind its pointer, a publication in place goes on from it and dies behind its commit; recovery then completes the last one only, and reports the promotion abandoned though it is visible |
| `MCSettle` | `Recoverers = {r1, r2}` | `RecoveryNeverRefused` | violated | of two recoveries that listed one stale lease, the second to remove it finds it gone |
| `MCOverrunSealed` | none | `CompletedIsPublished` | violated | a promoter that outlives its lease overwrites a newer pointer |
| `MCRefreshRenamed` | `Workers = {w1, w2}`, `Worlds <- MCRolledBack`, `Starts = {"published"}`, `MaxRollbacks = 1` | `SuccessIsTrue` | violated | the same after a rollback, which leaves the registry as it is |
| `MCRefresh` | `Sources = {fileA}`, `MaxLines = 3`, `MaxRollbacks = 2` | `SuccessIsTrue` | violated | a build in place is sealed and dies; two rollbacks return to its database without the record of its build, and its cursors stay: the next refresh finds nothing to do and reports success over lines that no reader sees |
| `MCRefresh` | `Sources = {fileA}`, `Workers = {w1, w2, w3, w4}`, `MaxLines = 4`, `MaxRollbacks = 2` | `RollupsMatchFacts` | violated | a build in place dies when it has its rollups, and two rollbacks return to its database without the record of it; a copy of that database is built under the same number and dies before its own rollups, and recovery publishes it with the old ones |
| `MCRefresh` | `Worlds <- MCFaults`, `Workers = {w1, w2}` | all of the run | holds | the same with workers that raise anywhere |
| `MCRefresh` | `Worlds <- MCGrows`, `Workers = {w1, w2}`, `Lapses = "any"` | `NextGeneration` | holds | the same with leases that run out anywhere, also between a check and its commit |
| `MCRefresh` | none | `AllowanceUndisturbed` | violated | an observation that reads the same as the newest published row of the allowance moves this row to the generation that is being built in place (`writer.py:1174`): readers, who select `generation <= ?` (`allowance/service.py:42`), lose it until that generation is published, or for good if the build fails; `docs/archive/spike/KERNEL_STABLE_CONTRACT_0_28.md:36`: "Readers retain the prior published generation while a writer is active or fails" |
| `MCRefresh` | `Sources = {fileA}`, `MaxLines = 3`, `Worlds <- MCExtended` | `AllowanceOnlyHidden`, `PublishedAllowance` | hold | that is all a build does to these rows, also one that dies, and is retried over lines that read 1, 1 and 2 |
| `MCRefresh` | `Sources = {fileA}`, `MaxLines = 3`, `Worlds <- MCExtended` | `ServedAllowance` | violated | a build in place dies after it extended a row, an isolated one is published instead, and a rollback returns to the database in which the row waits for a later generation |
| `MCRefresh` | `Worlds <- MCQuiet`, `Guarded = FALSE` | `ReadersUndisturbed` | violated | a second first build wipes the one that was published (`ingest.py:541`) |
| `MCLiveConsole` | `MaxDisturbances = 3` | all of the run | holds | a lost answer, a failed request and a refresh, all of them |
| `MCLiveConsole` | `MaxFailures = 0`, `Rollbacks = "none"` | `ConsoleRecovers` | holds | without a rollback and a failure there is no exception, in whatever order answers arrive |
| `MCLiveConsole` | `MaxFailures = 0` | `ConsoleRecovers` | violated | after a rollback the next publication repeats a generation, and `app.js:1516` takes its event for old; `docs/archive/spike/OVERLAY_ADAPTER_CONTRACT_0_28.md:79`: "Silently bridging a gap is forbidden" |
| `MCLiveConsole` | `MaxFailures = 0` | `ConsoleShows` | violated | an older status that arrives late replaces a newer one on the page, and nothing asks again |
| `MCLiveConsole` | `Rollbacks = "none"` | `ConsoleRecovers` | violated | a publication counts as seen before its status was read, and a failed request is not repeated; a refused stream is not opened again |
| `MCLiveConsole` | `MaxFailures = 0`, `Rollbacks = "none"`, `Empty = TRUE` | `ConsoleRecovers` | violated | a tab opened before the first publication never opens a stream |
| `MCLiveConsole` | `MaxFailures = 0`, `Retention = 1` | `NothingIsSkipped` | violated | bounds and page are read at different times, and retention runs in between |
| `MCLiveConsole` | `MaxFailures = 0` | `SnapshotsEnd` | violated | a publication that was never announced (`ingest.py:492`) makes every poll ask for a snapshot |
| `MCRows` | `Worlds <- MCOrphanEnd` | `RowsReconcile` | violated | a tool whose start is in no file gets its end as its start, which the fold does not (`preparation.py:1148`): validation rejects the artifact |
| `MCRows` | `Worlds <- MCComponent` | `RowsReconcile` | violated | context components are counted (`writer.py:506`), and validation does not know the count (`validation.py:62`) |
| `MCRows` | `Worlds <- MCBareEnd` | `SameHoweverCut` | violated | what is known of a tool depends on whether its start and its end were published together; `docs/architecture/AGENT_KERNEL_DATABASE_V1_SCHEMA_CONTRACT.md:295`: "Arrival order and SQLite row order are never ordering inputs" |
| `MCRows` | `Worlds <- MCLostEdge` | `SameHoweverCut` | violated | a relationship whose child is not published yet is passed over (`preparation.py:969`), and its source is not read again: a rebuild would give the child its parent; the contract as in the row above |
| `MCRows` | `Worlds <- MCReset` | `SameHoweverCut` | violated | the end of a session, which names no parent, erases one that was told late |
| `MCRows` | `Worlds <- MCSkewed` | `AllIsPublished` | violated | a tool that ends before it starts, by the clock, is refused for ever (CHECK in `analytical.sql:743`, though `lifecycle.py:25` allows for it) |
| `MCRows` | `Worlds <- MCCopied` | `AllIsPublished` | violated | a copy of a published source brings a start after an end, and is refused for ever |
| `MCRows` | `Worlds <- MCTwice` | `AllIsPublished` | violated | a copied observation of an allowance gets a name of its own (`normalize.py:693`) and the number of the first, and is refused for ever (`analytical.sql:1002`); `docs/architecture/AGENT_KERNEL_DATABASE_V1_SCHEMA_CONTRACT.md:2069`: "Allowance-observation identity is copy-stable" |
| `MCRows` | `Worlds <- MCElsewhere` | `IntervalsAreAdjacent` | violated | an observation read late is joined with the last one published, over those in between (`preparation.py:1462`), and what it splits stays; `docs/architecture/FORMULA_AND_SELECTOR_CONTRACT.md:101`: "one row for each pair of distinct, adjacent, compatible observations" |
| `MCRows` | `Worlds <- MCCompleted` | `SameHoweverCut` | violated | of the rows of one cycle in one publication the last in the order of their text counts (`writer.py:1943`): a cycle that ends is stored as open unless its end is published alone; `docs/architecture/PLAN_OPERAND_AND_FACT_CONTRACT.md:197`: "Publication preparation preserves cycle bounds and completion status" |
| `MCSources` | `Habits <- MCGrown` | `PublishedAnyhow` | violated | a record appended between the read and the hash is covered by the cursor's size and suffix, so the file counts as unchanged until it changes again (`cursor.py:82`) |
| `MCSources` | `Habits <- MCReplaced` | `PublishedAnyhow` | violated | what is found of a replaced or truncated file has a key that nobody inserts, and every refresh is refused (`parser.py:77`) |
| `MCSources` | `Habits <- MCEarlier` | `PublishedAnyhow` | violated | a new file that sorts before an old one takes its rank, and every refresh is refused (`analytical.sql:217`) |
| `MCSources` | `Habits <- MCSwapped` | `PrefixIsPublished` | violated | a file rewritten between the read and the hash: the cursor's prefix was never read |
| `MCSources` | `Habits <- MCWild` | `PlacesAreUnique`, `CursorsAdvance` | violated | a file replaced, removed or created while it is read: what was found does not end where its cursor does |
| `MCSources` | `Habits <- MCRemoved` | `RemovalIsDisclosed` | violated | a file that is gone stays counted as selected |
| `MCSources` | `Habits <- MCEarlier` | `IdleRefreshIsSilent` | violated | an unchanged source gives its cursor back as an update, so a refresh of nothing new publishes |

### Bounds

Two clock readings tell apart "before" and "at" an expiry, since with `TTL = 1`
a lease taken at 0 is stale at 1; the publication runs use 2 so that a worker in
time and one that overruns differ. Two operations of one key are what uniqueness
needs; two operations in place and one isolated give both orders of every pair
of kinds. Each publication commits once, so artifacts and chains are finite.
Crashes of recovery and attempts per operation are bounded by constants; a crash
of a publisher needs no bound, as attempts bound it. `MaxToken = 2` allows one
takeover per lease and the retry of the loser.

A refresh needs two workers for one to take over from the other, and a third
for a refresh after that; two files for a build whose transactions are several;
two lines for an append; two versions for a rewrite. `MaxGeneration` is two or
three: one that readers have, one that is built, one that follows. A worker that
would build beyond it stops at `Prepare`, as one that is slow for ever.

Runs state `CHECK_DEADLOCK FALSE` because every instance ends: all operations
terminal, the clock at its bound.

The console needs three publications and a page of one event for an event that is
skipped, late or out of the journal's two entries; one rollback and one lost answer,
failed request or refresh, since what follows one is what follows the next. Of the
allowance the two lines of `refresh` read the same, so that a build extends a published
row; a third one, beside the run, reads something else, so that a retry finds a newer
row in its way. The parser
has 4 slots with 2 workers, which is its default, and 4 or 5 sources: as many
as slots, and one more. Refreshes of files need two refreshers for a conflict,
two files for ranks and a byte budget of 5, which leaves out one of two files of
two records, and three changes: one published, one while a refresh is under way,
one after it. Rows need three sessions for a parent with a parent that changes,
two calls for ordinals, and as many records as a world's kinds can interact:
five where sessions get parents late, two to four elsewhere. `Malformed = {2}` is
one record that does not parse.

### Fairness

`FairSpec` asks weak fairness of each running publisher and recovery: a process
that is not dead takes its next step, as nothing in the code waits for another
process (a lease conflict raises). It also asks the host, once a recovery is due,
to stop the workers that only wait, so that recovery gets its turn. Crashes,
retries, planning and the clock are not fair.

`LiveConsole` asks weak fairness of what a tab does by itself and the server's
answers to it: the browser opens a stream again, and each request has a thread of the
server that waits for no other request, so that it is answered after some time, not in
turn. Workers are not fair; nothing may be announced. `ParsePipeline` asks weak
fairness of the feeder, each worker and the coordinator: threads that are not
blocked go on, and a blocked one is not enabled. In `SourceRefresh` some refresh
can always take a step (an idle one can begin), so its weak fairness is
`[]<><<\E r : Refresh(r)>>_vars`: refreshes are started again and again. In
`PublishedRows` a refresh of everything is not put off for ever while there is
something to publish that would be accepted; `Refreshing` is weak fairness of
`Publish(Sources)` with its guard written out. `KernelRefresh` has no fairness and
no liveness property: what its users wait for is in `PublishedIsComplete` and
`SuccessIsTrue`, at the moment a refresh ends.

## Proofs

### The sidecar

`SidecarProofs` proves, for any sets of operations, workers and leases, any
`TTL` and any bounds:

- `TypeCorrect`, with the foreign key `LeasedJobsExist` as the strengthening: the
  demotion inside `acquire_lease` updates the row of the previous holder, which
  must exist for the row to stay well formed;
- `OneActive`: `JobSteps` shows that a step changes rows of active jobs only, or
  inserts one whose key no active job has;
- `TerminalStays`, from the same lemma;
- `FencingHolds`: `TokensBounded` (no token exceeds the recorded one, neither in
  a row nor in a client's hands) makes the token of a takeover new, so an old
  snapshot cannot match it;
- `TakeoverIsStale`: `LeaseSteps` lists what a step can do to a lease row;
  staleness at an old clock reading implies staleness now.

The assumptions are those of `OperationalStore` and `Sidecar`: `TTL` is positive,
`None` is no identifier and no row.

### The parser's threads

`ParsePipelineProofs` proves, for any number of workers and sources, any
capacities and any number of batches of at least two:

- `PipelineTyped` and, with it, the inductive invariant `IInv`. Types alone are not
  inductive: that a release never exceeds a slot's bound needs to know where the
  batch of a taken slot is. `Placed` says so: no two workers have the same source
  (`OneWorker`, since a source is taken from the queue once), and the source's slot
  is held while its batch is with its worker, in the output queue or in the
  reorder buffer, and in one of them only (`HeldByWorker`, `HeldInQueue`,
  `HeldInBuffer`). `Pool` counts: the free slots are those of the pool minus the
  sources with a batch in flight. There is one lemma per action;
- `SlotsAreAccounted`: `OneFlies` from `Placed`, and `QueueShort`: the sources in the
  output queue are distinct and in flight, so a worker that holds a slot finds
  room in the queue;
- `PoolIsEnough` (`PoolSuffices`): a worker that waits for a slot has a source that is not in
  flight, so fewer than N are, and one of N slots is free;
- `CallerSeesSequence`: each step is a step of `SequentialParse` or a stutter
  (`StepMaps`). `Yield` hands over the buffered batch with the expected source and
  index, and at most one is buffered per source.

The assumption is `PipelineAssumption`: workers are finitely many and capacities
positive.

### The artifact pointer

`PublicationProofs` proves, for any numbers of operations in place and isolated, of
attempts, crashes, recoveries side by side and clock readings, any `TTL` and
`StaleAfter`:

- `GenerationsFollow`: every pointer replaces the one before it in the next
  generation;
- `RollbackStaysSealed`;
- `ActiveStaysServed` and `PairsStayRecorded`, with undamaged files
  (`MaxDamage = 0`);
- `FallbackStaysServed`, with one damaged file at most.

Each has the hypothesis `Serial`: the host recovers `"first"` or `"alone"`, and a
live worker is done before its lease expires. That is the host of `settle` and
`damage`. Without it they are false or only model-checked: an overrun breaks
`RollbackSealed`, recovery at any time breaks `RecordedPairIsPointer`
(configurations above); `ActiveServed` and `RollbackSealed` hold in run `anytime`.
The hypotheses on damage are as weak as they can be: with one file damaged the
active artifact may be gone, and a recovery that reads the fallback records a pair
that names it.

The inductive invariant `IInv` says why no process needs a lock around pointer, files
and sidecar:

- `Holds`: a publisher at work has the writer lease, and it is not expired; so one
  publisher is at work. This is what the clock must not break, and `InTime` the
  reason that it does not;
- `Apart`: publishers and recoveries take turns;
- `Works`: from one step to the next a publisher knows the pointer, and how far
  the head of the artifact is. `PlanIsOld` is what makes it true of a promotion: an
  isolated operation keeps its plan when it is retried, and a candidate that is
  already the pointer's artifact has a plan older than the pointer, so that
  `Preflight` refuses it. Without this conjunct a second promotion of one candidate
  would name one artifact as active and rollback;
- `RecoveryWorks`: what a recovery selected is the pointer, or it is one repair
  behind (`Follows`), since another recovery repaired it meanwhile; both write the
  same document;
- `PointerServes`: the head of the active artifact is the pointer's publication or a
  child of it, and the rollback is another artifact at the publication and digest it
  was sealed at. `HeadsAreOwn` tells an isolated candidate from what is published
  in place;
- `RowsFollow`: no recorded pair is of a later generation, and that of this one is
  the pointer.

There is one lemma per action, and two frame lemmas: what a process knows does not
change while the files, and its own state, stay as they are. The assumptions are those
of `PublicationProtocol`: bounds are natural numbers, operations in place and
isolated are distinct, `None` is nothing else.

### The register of publications

`RegisterProofs` proves `PublicationIsRegister`: the protocol implements
`PublicationRegister`, for any operations, attempts, recoveries, crashes and clock
readings. What readers see, the chain of ancestors of the publication they select,
grows by one operation at its end; an operation is reported once, `published` only if
readers see it, and `abandoned` only if no reader saw it or ever will.

The hypothesis is `RecoversFirst`, the host of run `settle`: recovery comes before the
next publication, a worker is done before its lease expires, and files stay readable.
A host that only keeps recovery and publication apart (`"alone"`) does not suffice
(`MCSettle` above): a publisher then goes on from an operation that committed and
died, and recovery completes only the one at the head.

The chain is a recursive function of `parent`. `AncestryKnown` says that its equation
has one solution, which holds since a publication gets its parent once, and before it
is anybody's parent (`Rooted`, `AncestryGrows`). On it and on `IInv` rests the
invariant `Progress`:

- `Built`, `Past`: a candidate has the parent that its plan expects, and what is in the
  chain cannot be published again: its parent is set, or its plan is older than the
  pointer;
- `Unreported`: a publisher at work has an active job;
- `ChainReported`, `Settled`: all of the chain is reported published, but possibly its
  last operation, which is being published or awaits a recovery that is due;
- `Judged`: a recovery reports that operation before it fails any intent or job, so
  what it fails is not in the chain.

`RegisterNext` has one lemma per action: each is a `Publishes`, a `Reports` or
leaves chain and outcomes as they are; `StepIsRegisters` maps these to the register.

### Startup recovery

`PublicationProofs` also proves `RecoveryStaysAccepted`: recovery never ends in an exception of
its own making, wherever publishers or earlier recoveries died. The hypothesis is
`RecoversAlone`: publishers and recovery take turns, workers are in time, files stay
readable, and there is one recovery at a time; two of them do trip over each other
(`MCSettle` above). The invariant, beside `IInv`:

- `Stamped`, `ReadingsPast`: no job or intent is newer than the clock, nor than the
  reading a recovery took when it opened its selection, for nobody else writes
  meanwhile;
- `OwnRows`, `OwnIntents`: the pair of the pointer and the intent of its candidate are
  owned by the pointer's publication, so that what recovery records again is equal to
  what the publisher had recorded, its owner included;
- `PageHolds`: the rows of a page that are still to be dealt with are as they were
  read, since no two of them are about one lease or one intent.

### The refresh from source files

`SourceRefreshProofs` proves `CoverageStaysReconciled`, for any refreshers, files,
records and budgets, and files that change at any time in any way. Coverage is
counted on from the prior publication (`CountedOn`), and the refresher prepares it in
one step from what it read in earlier ones. `PreparedUnderHead` says what it then
has: for a refresher that was not overtaken, the numbers a recount would give after
its publication; one that was overtaken does not publish. That needs to know that what was
found malformed is disclosed once and belongs to a listed source (`Listing`,
`DisclosedAreKnown`), and that a source is read once (`Orderly`).

It also proves `PrefixStaysPublished`, `PlacesStayUnique` and
`CursorsNeverGoBack` under `Steady`: while a file is being read it may grow, and
nothing else happens to it; between two reads everything may. The condition cannot be
dropped: the three are violated when files are rewritten while they are read
(`MCSwapped` and `MCWild` above), since the prefix is hashed after the records were
read. The invariant ties together what a refresher has read and where it got
(`Reached`): everything between the old cursor and the new one was found
(`NothingSkipped`), nothing else was (`FoundReached`, `MalformedReached`), and it
began under the head unless it was overtaken (`BeganUnderHead`). Then what is
published is exactly what is before the cursors (`Tables`).

The assumptions are those of `SourceCursors` and `SourceRefresh`: files are finitely
many, budgets are natural numbers, and `None` is no file, cursor, row or tally.

### The released refresh

`KernelRefreshProofs` is about any files, workers, lengths of files and numbers of
generations, and any interleaving of crashes, exceptions and rollbacks of any number.
`RefreshTypesCorrect` has no hypothesis. The others say what they need of the host:

- `PublishingIsOwned` (`PromotionIsOwned`): with or without the launch guard, for leases
  that lapse where nothing renews them (`Lapses # "any"`). A worker stalled between the
  check of its lease and its commit is what the hypothesis leaves out. The check is at the
  start of the build, and nothing checks before the promotion: `BuildOwned` carries the
  lease from the fence of `Clone`, where the heartbeat begins, to `Promote`;
- `GenerationsAreNext` (`NextGeneration`) and `ReadersStayUndisturbed`
  (`ReadersUndisturbed`, of the rows of calls and activities; those of the allowance are
  rewritten, and `AllowanceUndisturbed` shows that readers notice): for `Attended` hosts. Workers are started under the launch guard, a
  live worker keeps its lease, and what a worker observed may grow while it is at
  work, but is not rewritten. Between refreshes anything may happen to the files. Readers
  need the first and the last: `MCRefresh` without the guard, and
  `MCRefreshCatchUpInPlace`, violate `ReadersUndisturbed` (see above).

The invariant of these two has three layers over the types:

- `Exclusive`: of the launched workers one may still write or publish (`Alone`), and from
  `Acquire` on it holds the lease (`Leased`);
- `Ordered`. `RecordsFit`: active, rollback and staging are different databases, except that
  staging may be active, and none of them holds a valid generation more than one above
  the one it serves. `Numbered`: the generation that a worker recovers or builds
  is the one after the published one, and its own path is nowhere on record until it
  begins. A rollback is what makes this need an invariant: it takes an older generation
  back into service, and a later build gives the next number again;
- `Aligned`. Files only grew since a worker observed them, and plans are for what was
  observed. For a build in the active database, each source has a plan, or a cursor
  that `Fits` its file: same version, not past the end. So `CatchUp` finds nothing that was
  replaced, and `Replan` never plans to replace published rows in place.

`AddedUnseen` then says that facts are added under the next generation only, so a reader of the
published one sees the same lines until `Promote`. Nothing of this is said of the
allowance's rows, whose types alone are proved.

`RollupsStayRight` proves `RollupsMatchFacts` for `Growing` hosts, up to and after a first
rollback. These are attended hosts on which files only come and grow; workers, recoveries
and builds may die or fail anywhere. Its invariant has two more layers:

- `Grown`: every source still has its first identity and version, in the files, in
  what workers observed and in the cursors of every database (`FilesGrow`), and no cursor is
  past what was observed. So no plan replaces a source (`GrownUnreplaced`), and a
  build takes no line away from what the prior rollups counted;
- `Rolls`. `Rolled` says of a database and the generation it serves that the rollups of
  this generation count its visible lines, and those of a build on top, once they are
  there, all of its lines. It holds of the active and the staging database, and of the
  one a rollback would return to. `Unbuilt` says that nothing sealed is on top, which
  is so in the active database unless that build is the one staged; `RollsAt` has what
  a worker in the middle of a build or a recovery knows of it. `Promoted` then turns the
  build's rollups into those of the published generation.

Neither condition can be dropped. `MCRefreshRecoveredRollups` violates the property
where a file is replaced, and `MCRefresh` does with two rollbacks (see above).

The assumptions are those of `AnalyticalArtifact`, `RefreshControl` and `KernelRefresh`:
bounds are natural numbers and a file has a first content, `None` is no database, no
observation and no cursor, and the base database is none of the workers' own.

### The rows

`PublishedRowsProofs` proves three theorems for any finite sets of sessions, tools,
calls, components and sources, any kinds and numbers of records, and any division
of the records into publications, also one that reads a later record first:

- `RowsAlwaysCurrent`: stored roots and depths are those of the stored parents. A
  publication derives them again for `Available` only, the sessions it tells of and
  their relatives. `RelativesAreClosed` is why that is enough: nobody outside is a
  parent or a child of a relative, so what is outside keeps its way to the root.
  `Climbs` and `AllTheWay` are the induction over that way, and `SameWay` compares
  it in the old and the new hierarchy;
- `PublishedValidates`: an artifact passes its validation, with the two exceptions
  that `ArtifactValidates` names. The inductive invariant `ArtifactInv` has a part
  for each thing that is brought up to date from its former content: `FoldsStand`, a
  row is the fold of the stored transitions; `CountsStand`, a count is the number of
  rows; `TailReconciles`, the ordinals of calls have no gap and the bounds are those
  of the rows. `ReadKnown` ties rows to records: what was read of an entity is among
  its transitions. The start of a tool is written once, and stays that of the fold only
  if it is recorded, and hence read, before the end: `LogKinds` says that it is;
- `DeltaAlwaysTheDifference`: the delta is the difference of the two publications. It
  is counted on the rows as they are proposed, while a tool that is there keeps
  some of its columns (`RowsDiffer`: the version grows, so the row that is kept
  differs as well). The tokens are added up over the calls that a publication tells
  of, which is the difference of the sums over all calls (`SumsDiffer`); a sum is a
  fold over a set, described by `Adds` without an order.

All three rest on `LogInv`, which names a record by its source and place, so that a
change set is the unread records of its sources in one order (`SortedHas`,
`ChangeSetHas`). Records are any that the actions of the module write, of any kinds
together: what the run keeps in worlds apart, late parents and skewed clocks, say,
may meet. The assumptions are `SessionsAssumption`, `RowsAssumption` (finite sets,
and no identifier names two kinds of entity: `semantic_id` hashes the kind into it)
and `AbsentAssumption` (`None` is no value and no row).

### The journal

`LiveConsoleProofs` proves `JournalHoldsSuffix` and `AnnouncementsAreNew` for any
workers, consoles and retention. `LatestIsCount` is why: an append prunes the
oldest entries and never the newest, so the highest id is the number of
announcements. A publication that left the journal can be announced again, by a worker
that promoted it, stalled, and reads that a rollback made it active again; so
`AnnouncedOnce` says that the first announcement is out of the journal by then.

### What is only model-checked

- What the released refresh says of lines (`CoverageIsTruth`, `SuccessIsTrue`,
  `PublishedIsComplete`). These depend on what fails beside what changes (the worlds are
  apart for that reason), and need an invariant that relates the cursors and the facts of
  every database, and the catalog, over all transactions of a build. `RollupsMatchFacts` is
  proved where files only grow; where they are also replaced it is checked, in the worlds
  in which nothing dies.
- `SameAsRebuilt` of the rows. It compares with one publication of everything, for any
  division, so it needs the result of one record after another to be that of all of
  them at once, in every table: an induction over divisions.
- `AllowanceOnlyHidden` and `PublishedAllowance`, about rows that builds rewrite.
- The steps of consoles (`SilenceIsCurrent`).
- `ActiveServed` and `RollbackSealed` where recovery and publishers run side by side.
- Liveness: fairness and ENABLED are out of the prover's reach.

## Not modelled, and the plan

What has no module is listed in `PROJECT.json` with the reason, and the hazards
without a property with a note. Left out of modelled parts, beside what the
sections above say:

- rows of turns, activities, compactions, state changes, projects and resources have
  the forms of the rows that are modelled;
- `bounded_moving_tail_catchup` has no caller but a test, and both what moves and
  what is accepted are its callbacks;
- reading services run in one transaction and keep no state;
- parsing and normalisation of single records, plan compilation and valuation are
  data transformation;
- the experiments, scripts and release tooling are not part of the running
  program.

In order, what is left to do:

1. rows of tools and threads of the released kernel, which are upserted;
2. turns and their foreign keys in `PublishedRows`;
3. cleanup of artifacts beside publication and recovery;
4. liveness of the released refresh: a file that stays as it is becomes visible
   once workers succeed, and no run stays `running`;
5. proofs: `CoverageIsTruth` of the released refresh, in the worlds where files only
   grow, on top of `Grown`.
