# Agentmetry: a TLA+ verification of the telemetry service

Agentmetry receives OpenTelemetry exports from coding agents, keeps them in a
local SQLite database, archives and deletes them by policy, and serves queries
to a web interface, a desktop shell and an MCP server. This directory models
the parts of the program whose correctness depends on the order of events, or
on two computations of the same thing agreeing, and checks the models with TLC
and, where a statement should hold for every size, with TLAPS.

## 1. Inventory

| Part | Source | State it keeps | Operations | Interacts with |
|---|---|---|---|---|
| OTLP receiver | `internal/ingest/otel` | none (stateless normalisation) | `Export` for traces, logs, metrics; `Replay` | calls the committer, waits for its durable answer |
| Batching export committer | `internal/ingest/batching_export_committer.go` | pending queue, admission counters, window and timer, first commit error, channels | `CommitExport`, `Close`, goroutine `run` | receiver handlers call it; it calls `Store.CommitExportBatch` |
| Store | `internal/storage/sqlite/{store,rollup,trace_rollup,session_graph,model_calls,model_rates,claude_*,codex_*,replay}.go` | journal, rows of spans and logs, versions of spans, rollups, memberships, model calls and rates; write mutex | `CommitBatch`, `CommitExportBatch`, `CommitReplayBatch`, removal and return of exports, a rate manifest, `Close` | committer, replay, retention and queries |
| Activity synchronisation | `internal/storage/sqlite/activity_sync.go` | none (a read transaction per page) | pages of mutations between two positions | open sessions and traces of the web interface |
| Projection feed | `internal/storage/sqlite/projection_feed.go`, `internal/query/changes.go` | change rows with revisions, retained floor, wait channel | append in the writer's transaction, prune, read page, wait, notify | store writers; `WatchProjectionChanges` of the Connect API |
| Retention store | `internal/storage/sqlite/retention.go` | policy, export states and holds, segments, memberships, operations, authorities, cycles; write gate | claim, publish, fail and complete archive, restore and delete operations; startup recovery | retention service; archive directory |
| Retention service | `internal/retention` | cycle lock, running restores | maintenance cycle, restore requests | retention store, archive directory |
| Archive directory | `internal/archivefs` | one file per segment: absent, installed or staged for deletion | build, verify, stage, remove, restore | retention store and service |
| Replay pipeline | `internal/compaction/{compaction,replay_pipeline,validation,legacy}.go` | a private candidate database, two goroutines and a handoff | read, prepare, commit, copy the catalog, complete, validate | source database, candidate store |
| Storage compaction | `internal/compaction` | replacement manifest, source, candidate, backup and retired files | plan, replay, validate, install, recover | storage ownership lock, store |
| Storage ownership | `internal/storage/ownership` | one file lock | acquire, release | service start, compaction |
| Application lifecycle | `internal/app`, `cmd/agentmetry` | listeners, services, shutdown order | start, serve, shut down | everything above |
| Desktop shell | `src-tauri/src` | sidecar process, update state | start sidecar, check and install updates, restart | the service binary |
| Queries | `internal/query`, `internal/storage/sqlite/{overview,rollup,trace*,session_*,api}.go` | none (read transactions) | overview, sessions, traces, rework, comparison | store |
| Source plugins | `internal/source`, `sourceplugin` | none | recognise and normalise agent telemetry | receiver, projections |
| Pricing | `internal/billing`, `internal/modelcall`, `*_cost_projection.go`, `model_rates.go` | rate tables | price a model call | projections, queries |
| Transports | `internal/transport/{connectapi,mcpserver,httpapi}` | subscriptions | request handlers, change streaming | queries, retention service |
| Live views | `web/src/controllers`, `trace-catalog.ts`, `agentmetry-app.ts` | cursor, pending targets, render window; the rows and requests of every view | follow the stream, apply windows, read, hide, refilter, take down | watch stream and queries of the Connect API |
| Other web components | `web/src/{components,app,model}` | none that is shared | rendering and routing | live views |
| Generated code | `gen`, `proto` | none | message types | transports |

### What is hard in this program

The single steps are well tested; their order is not. The places where order
decides, in the words of `PROJECT.json` "hazards":

- *Goroutines and channels.* The committer's handlers, its `run` goroutine, its
  timer and several `Close` calls share a queue, two counters, a one-slot
  wake-up channel and a broadcast channel. What makes it correct: every export
  is answered once and truthfully, nothing sleeps on work, the counters follow
  what is held, a shutdown ends.
- *A catalog and files.* Retention moves content between SQLite rows and
  archive files in separate durable steps and yields the write gate half-way
  through a deletion. Correct means: content is never gone before its deletion
  is irrevocable, outcomes are true, and a crash anywhere is repaired at the
  next start.
- *Renames under a manifest.* A compaction swaps the database file. Correct
  means: whatever crash, power loss or failing call interrupts it, every export
  is still in one whole database, an incomplete one is never served, and the
  service comes back.
- *A feed with a moving floor.* A watcher reads a feed that is pruned, paged and
  replaced, sleeps on a channel that is swapped at every commit, and a page
  that comes and goes acknowledges positions. Correct means: no change the
  page acknowledged is missing from what it shows, and it converges.
- *Derived tables.* A commit updates summaries, links, calls and costs in place;
  an archive, a restore and a compaction come to the same tables on other ways.
  Correct means: whatever the order of exports and upkeep, what is stored is what
  a replay of the active exports gives, and every answer is what the rows say.
- *A handoff between two goroutines.* While one batch of a replay commits, the
  next is prepared. Correct means: a rebuild is whole or leaves nothing, and
  both goroutines end.
- *Four owners that stop in parallel* under a deadline and then by force. Correct
  means: the process ends, and an exit without an error left nothing running.
- *Reports written after the fact.* A cycle whose process ended is reported by a
  later cycle or start. Correct means: a report is true of all its operations.

## 2. Modules and how they correspond to the code

| Module | Models | Runs | Proofs |
|---|---|---|---|
| `ExportLedger` | what live ingest promises senders (abstract) | as a property | |
| `BatchingCommitter` | `batching_export_committer.go`, implements `ExportLedger` | `committer_*` | `BatchingCommitterProofs` |
| `TelemetryCustody` | what retention promises about an export (abstract) | as a property | |
| `RetentionLifecycle` | `retention.go`, `retention/service.go`, the file operations of `archivefs`; implements `TelemetryCustody` | `retention_*` | `RetentionCatalogProofs`, `RetentionLifecycleProofs` |
| `MaintenanceReports` | the rows `retention_cycles` and `retention_operations`: plan, aggregate, resumption, recovery | `services` | `MaintenanceReportsProofs` |
| `CompactionReplacement` | `compaction/replacement.go`, `compaction.go`, ownership lock, start of the service | `compaction_*` | `CompactionReplacementProofs` |
| `ReplayPipeline` | `compaction/replay_pipeline.go`, `compaction.go`, `validation.go` | `services` | `ServicesProofs` |
| `ServingShutdown` | `cmd/agentmetry/main.go`, `app/services.go`, `app/maintenance.go` | `services` | `ServicesProofs` |
| `ProjectionFeed` | `projection_feed.go`, the sets of `query/changes.go`, the handler `WatchProjectionChanges` | through `LiveUpdates` | `LiveUpdatesProofs` |
| `LiveUpdates` | `live-update-controller.ts`, `session-list-controller.ts`, `trace-catalog.ts`, composed with `ProjectionFeed` | `live_*` | `LiveUpdatesProofs` |
| `SessionGraph` | `session_graph.go`: delegation links to memberships | `store_*` | `StoreProofs` |
| `SessionRollups`, `TraceRollups` | `rollup.go`, `trace_rollup.go`: in place, rebuilt, and their reference | `store_*` | |
| `ModelRates` | `billing`, `model_rates.go` | `store_*` | `StoreProofs` |
| `ModelCalls` | `modelcall`, `model_calls.go`, `claude_*.go`, `codex_cost_projection.go` | `store_*` | |
| `StoreProjection` | `store.go`, `replay.go`, removal and return in `retention.go`, the scopes of `projection_feed.go`: one export as a function on the tables | `store_*` | |
| `TelemetryStore` | the store over its life | `store_*` | |
| `ActivityViews` | `activity_sync.go`, the live updates of `conversations-controller.ts` and `trace-controller.ts` | `store_life` | |
| `ActivityPages` | order and paging of activities in SQL | `store_life` | |
| `SessionQueries`, `UsageOverview`, `TraceQueries` | `api.go`, `session_summary.go`, `conversation.go`, `overview.go`, `query/overview.go`, `trace*.go` | `store_life` | |
| `StoreAnswers` | the questions asked of a store | `store_life` | |
| `ReworkEvents`, `ReworkAnalysis` | `query/rework.go`, `rework_comparison.go` | `services` | |

`MC*` modules give the constants of the runs their values.
Definitions marked "Fault:" stand beside the definition they distort; no
specification uses them. Each is a plausible bug of the code at that place
(a lost signal, a dropped check, an ignored error) and is there to
show which property notices it (`PROJECT.json` "mutants").

`StoreAnswers` composes the store, an open view and the queries. The other
modules are not composed into one state space: what connects them is one
action wide. A commit is `CommitSucceeds` of the committer, `Receive` of the
lifecycle, `Accept` of the compaction, `Commit` of the feed and `Commit` of the
store, each time one SQLite transaction under the write gate. `MCServices` puts
four modules that share nothing into one run, one of them in a behaviour.

### BatchingCommitter

Every critical section of `committer.mu` is one action, as is every channel
operation another goroutine can observe. `call`, `close` and `work` are the
points the callers, the `Close` calls and `run` have reached; `ready` is the
one-slot channel; `woken` are the callers whose `capacityChanged` was closed
after they took it; `result` are the one-slot result channels. A caller's
context may end at any time, `CommitExportBatch` may fail, and an export that
no window could hold is refused.

### RetentionLifecycle

A transaction is one action, and so is each durable file operation.
`gate` is the store's write gate where the code keeps it across several
durable steps, `mu` is `service.mu`. `Maintenance(c)` is a cycle: plan, archive
group by group, delete segment by segment, with the deferred convergence of a
deletion (`ConvergeDeletion`). `Restoring(r)` is the claim under the gate and
then `restoreClaim` in its goroutine. `Recovery` is
`recoverRetentionLifecycle` in its stages. Any call may fail where the code has
an error path ("fault"), the process may crash or be closed between any two
steps, recovery included, and a segment may go bad.

Abstractions: an export is its receive day; days stand for instants. The byte
limit of a segment is `GroupLimit` exports. A period scope is an interval of
export ids, since ids are given in receive order. A terminal operation record is
read only by the report of its cycle, so its slot is used again. Changing the days of the policy
is a new revision that leaves the days alone: the code compares revisions. The
reads of one plan are one step, because everything planned is checked again
when it is claimed. `ValidateRetentionCatalog` is what a compaction demands of the copy it
made of the catalog; `RecoveryIsComplete` includes that a recovered catalog passes
(its cycle check on replacements is left out). A fixed pool of segments acts as
a full disk (`NoCapacity`): building
an archive then fails, as it may in the code.

### CompactionReplacement

`dir` says which file each name stands for, and holds the phase of the manifest;
`db` says what a file holds. `since` is what a power loss may leave:
the states of the directory since its last sync. The rebuild of a candidate is
one step that succeeds or fails. A rename and the sync after it are
one action with three outcomes (done; failed and not done; failed and done);
metadata operations of one directory are durable in order; a database file is
durable when it is named, since SQLite runs with `synchronous = FULL` and the
candidate is checkpointed before it is placed. After a migration that failed the
process keeps a maintenance page, which uses neither lock nor files: it counts
as stopped.

### ProjectionFeed and LiveUpdates

A feed row is the set of targets one commit touched. `log` keeps all rows that
ever were; `first` is the retained floor, which pruning moves at every
`RetainEvery`-th sequence (512 in the code) and which also stands for the
byte limit. `generation` is the identity of the database file. `WatchProjectionChanges` is the
program counter `watch.pc`: `take` and `second` are the two sides of the
channel swap in `WaitForProjectionChange`. One stream is modelled; the limit of
eight subscribers is one more reason for a connection to fail.

The controller is translated field by field. The views are a session list and a
trace catalog, of which one is in front, because they share the two mechanisms
all views have: re-reading behind a request token, and remembering while hidden
that a read is due. They differ in one way the code has: the session list
reports a failed read to the window that caused it and the catalog does not
(`Catalogs`). What a view shows is the newest row, among those it depends on,
that its data includes; so "missing a change" is a comparison of two numbers.

`acknowledged` is a history variable: the newest place of the feed the page ever
acknowledged. The code has only the cursor, and the cursor can fall back. After
two reconnects a window that was sent and not received is followed by one sent
again from an older position, and the end of that one is acknowledged last.
TLC shows this with three broken streams and four commits. It loses nothing, since
the rows in between were acknowledged once and the views still show them; but
"pending or being applied" holds only for rows that never were.

Abstractions: a handler goes on when its window was received (what it does
before, its subscriber cannot tell from what it does after); the 100 and 300 ms
timers are interleaving; promise callbacks that run in one turn of the event
loop are one action; a filter affects both views; the feed that the replay of a
rebuilt database fills has one row that touches everything; commits
happen after the page was opened; further pages of a list are part of a read.

### The store: from SessionGraph to StoreAnswers

The tables are fields of one record, `db`, and each module adds operators that
map tables to tables. `CommitExport`, `ReplayExport` and `RemoveActiveExports` call them
in the order of the code. What is kept in place and what an aggregation of the
rows would give are written separately: `ApplySessions` and `ApplyTraces` follow the
subtraction and addition of the code, `SessionRollups` and `AgentRollups` the
aggregating SQL. `TelemetryStore` lets exports arrive in every order and puts archives,
restores, compactions and rate manifests between them. Two defects of the code
(findings 4 and *Stale attribution* below) make a store and its replay disagree;
the constant `Disagreements` says which of them may happen, so that everything else is
checked without them. The feed's retention is left to `ProjectionFeed`, the files and
states of an archive to `RetentionLifecycle`.

Abstractions: one source and one kind of every counter; an export has one signal
and names a span once; one label stands for the descriptions of an agent;
overview targets and the coarsening of many targets are left out; the agent ""
also stands for "main". In `ActivityViews` one head holds a whole scope.

The queries are read from any such store. Where the code answers from rollups the
model does, and where it reads rows it reads rows; the properties compare the two.
`AnswersAreExact` is evaluated in the states of the store without an open view. The
identities of spans are ordered by `NameOrder`. The parents of agents are a set
of possible ones, because the code reads at most eight spans per agent in no
declared order. `buildTrace`, which nothing calls, serves as a reference.

### Rework

Activities of a session are stored one by one, some of them missing, and
a report is computed from what is there. Words, errors and outcomes of an activity are
abstract; the order in which the code asks them is kept. Failures that are still
pending at the end and began at the same time are listed in the order of a Go map
(`rework.go:334`); the model fixes one, and no property depends on it.

### ReplayPipeline, ServingShutdown, MaintenanceReports

`ReplayPipeline` has the producer and the consumer as program counters with the
unbuffered channel as a rendezvous, each `select` as a choice, and cancellation and
failure at every call. `CatalogReadsFail` allows that reading `retained_exports` breaks
off without an error: `compaction.go:317` closes those rows without asking
`rows.Err()`. It is FALSE in the run; with TRUE a candidate may lack rows of the
catalog, and the validation does not notice.

`ServingShutdown` has the phases of `run`, the four owners of `shutdownServing`, one call
of each kind, the scheduler with its loop and cycle, and the committer. A live
client's stream ends only with its connection. So a stop with an open page
always waits for the deadline, although
`docs/design/live-telemetry-updates.md:96` says that live clients do not delay a
shutdown; `StopServing` and the deadline show it, no property forbids it.

`MaintenanceReports` prunes terminal operations as early as the code may. A planned
cycle whose plan was not fully published and whose deletion a restore finished,
and an archive-only cycle whose completion failed to be written, stay "running" until
the next start; `ReportsAreTrue` demands no more.

## 3. Properties and runs

| Run | Question | Mishaps | Properties |
|---|---|---|---|
| `committer_safety` | three calls, one `Close`, byte limits that bind before the counts | failing batch, expiring contexts, forced close | `TypeOK`, `Accounting`, `NobodyStranded`, `CancelOnlyAfterClose`, `NoLostWakeup`, `WindowIsTimed`, `ImplementsLedger` |
| `committer_liveness` | two calls, two `Close` calls that need not come | the same | `CleanCloseIsDurable`, `AdmittedIsAnswered`, `BlockedGoesOn`, `CloseTerminates` |
| `retention_interleaved` | a cycle and a restore; two restores against a cycle; two cycles over three exports | one of any kind, or two, or one and a changed policy | `AuthorityIsExact`, `ClaimHoldsUntilPublished`, `PlanStaysExact`, `FilesFollowSegments`, `OutcomesAreTrue`, `DecisionStillStands`, `RecoveryIsComplete`, `KeepsCustody` |
| `retention_progress` | a cycle and two restores, fair | two crashes or shutdowns | `EveryOperationEnds`, `EveryoneGetsThrough` |
| `retention_corrupt_mark` | finding 1 | one shutdown | `CorruptMarkIsTrue` (violated) |
| `compaction_interrupted` | a service and a compaction by hand, two generations | any two | `JournalIsKept`, `ServesEverything`, `NoOrphanedBackup`, `ServiceReturns` |
| `compaction_stuck_recovery` | finding 2 | two crashes | `RecoveryResolves` (violated) |
| `live_updates` | two commits of a paged, pruned feed; a page that moves once | one failed read, broken stream, restart or rebuilt database | `WaiterIsSignalled`, `AcknowledgedIsShown`, `HiddenIsStaleOrCurrent`, `ReceivedIsKept`, `Converges` |
| `live_catalog_fails` | finding 3 | one failed read | `AcknowledgedIsApplied` (violated) |
| `store_life` | sixteen small sets of exports, in every order, with upkeep, an open view and all queries | archives, restores, compactions, new rates | `RollupsAreRebuilds`, `ReplayAgrees`, `CallsAreBilledOnce`, `ViewIsFresh`, `AnswersAreExact` |
| `store_sequence_reused` | finding 4 | an archive, a compaction | `SessionsMatchTheirRows` (violated) |
| `services` | the rework of sessions; a rebuild; a process from start to exit; two cycles and their reports | up to two failures, cancellations or crashes | `ReworkIsExact`, `BuiltIsWhole`, `CleanExitIsQuiet`, `ReportsAreTrue`, `EverythingEnds` |

All runs but those of the four findings hold. Each property is stated in words above
its definition.

### Findings

1. **A shutdown marks intact segments as corrupt** (`retention_corrupt_mark`).
   `restoreClaim` takes every error of `OpenVerified` that is not about the
   metadata for a corrupt payload, also the cancelled context of a shutdown, and
   writes the mark with a context of its own. The retention specification asks
   for an integrity state that is truthful.
2. **A recovery interrupted once more can get stuck** (`compaction_stuck_recovery`).
   When `recoverOwned` has renamed the backup back and is interrupted before the
   manifest is removed, the manifest still says `source-preserved`. The next
   recovery finds the old database, of an older generation than the manifest's
   target, and no backup; it refuses, and so does every later start. No data is
   lost. The comment on `recoverOwned` says it resolves every durable state.
3. **A failed trace catalog acknowledges its window** (`live_catalog_fails`).
   `load()` keeps its error, so the window is acknowledged and the read is not
   retried, where the design document demands the retry.
4. **A compacted store counts a span twice** (`store_sequence_reused`). The
   sequences of replayed rows are reset, those of span candidates are not. A
   span that falls back to a candidate carries an old sequence, and the live change
   that gets this number adds the span to its session again.

Met while modelling, without a run of their own:

- *Stale attribution.* `removeActiveExports` does not attribute the remaining logs of
  a Claude call anew: an archive that takes the span which knew the agent leaves
  the log with that agent, and a replay does not. With
  `Disagreements = {"stale attribution"}` TLC violates `ReplayAgrees` in four steps.
- *The first window of an open session.* `syncCursor` is empty after a selection, so the
  first live update lays the head over the resident activities without asking for
  mutations (`conversations-controller.ts:249`); what left the session stays shown.
  `ViewIsFresh` excludes such a view (`view.merged`).
- *Upserts of unknown kind.* A span of an unknown kind is sent to the open
  conversations of its session and not loaded by a fresh one; `ViewIsFresh` compares the
  activities both count.
- *Two names of the main agent.* Lists and the dashboard add up `agent_count`, so an
  agent named like its session and "main" count as two, while the summary merges
  them; the agent filter "main" finds nothing once a session is grouped.
- *Usage on a page.* What a call used is counted once per page of a trace, so a
  call whose log and span are on two pages contributes to both.

### What the properties say exactly, and what they do not

- `JournalIsKept` is checked for two mishaps of any kind and does not hold for
  three: the directory sync after the rename of `PlaceCandidate` fails, the one
  after the removal of the manifest fails too, the service opens and accepts an
  export, and a power loss brings back the old directory with the outdated backup. The
  code cannot do much better against a disk that fails this often. Section 4
  proves it for any number of mishaps, if power losses and failing operations
  do not come together.
- `ServiceReturns` is conditional on `Calm`: one mishap at most, because of finding 2,
  and no further compaction by hand, because it may take the lock
  whenever the service would.
- `FilesFollowSegments` exempts what a failed file operation left, which the code
  reports or ignores on purpose; the next start removes it (`RecoveryIsComplete`).
- `ReplayAgrees` compares facts, not the order rows were stored in, and descriptions
  of agents only while no archive or restore aggregated them out of order: of two
  descriptions the later one wins, and a restore makes an old one later.
- `CleanExitIsQuiet` excepts a restore that was accepted after `Service.Close` had
  waited: `RequestRestore` then adds to a wait group nobody waits for any more.
- `EverythingEnds` needs no call to end by itself: what has to end is what was
  cancelled.
- `AcknowledgedIsShown` and `HiddenIsStaleOrCurrent` exempt a view that shows an
  error; that exemption is what finding 3 is about.
- `Converges` excludes a session list that failed and was hidden then. It
  refuses every window that affects it, because `refreshListForLive` looks at a
  `failed` that stems from an earlier read; the position is not acknowledged and
  the retries go on until the list is shown again. The design document demands
  final convergence.

### Bounds, and why they are enough

Every bound is a constant, and TLC explores the bounded space completely.

- *Committer*: three exports of different sizes are the least for which a
  window closes by bytes while another export is pending and a third is blocked.
- *Retention*: `MaxTime` 2 with `ArchiveDays` 1, `DeleteDays` 2 and `HoldDays` 1
  lets an export be archived, restored, held and deleted. Two exports are the
  least that a restore can split (one selected, one left in a replacement
  segment); three make a group boundary inside a day as well as one between days.
  Two revisions are one policy and one change. Three or four segments let every
  segment be replaced once, and more builds run into `NoCapacity`, an
  error path. Two mishaps are a failure and the failure of its repair.
- *Compaction*: two generations are the least that need a rebuild. Six files are
  all a process names at once plus those a power loss may bring back. Two
  exports tell "lost the last one" from "lost them all".
- *Live updates*: with limits of one, two commits page a window in two, expire a
  subscriber, make targets coarse and leave one change behind the render
  window that is being applied. One mishap and one move of the user meet at any
  pair of points, which is what a race needs.

- *Store*: a set of two to four exports brings about one kind of trouble each: revised
  and moved spans, retracted usage, calls whose span comes late, is lost or shows that
  two calls are one, prices that change, delegation cycles. One or two
  upkeep steps of one export each are an archive and its restore, or one of them and
  a compaction. Pages of two and an overview of three cut every such store.
- *Services*: five sessions of up to nine activities, in three orders, every subset
  that keeps the order; journals of up to five exports against batches of two
  records; an export, a request and a stream are the kinds of calls; two
  cycles of two operations are the least of which a later one reports an earlier.

`CHECK_DEADLOCK FALSE` stands where a run may really be over: all callers
answered and closed, days and policy updates used up, all commits shown or exports
stored, a process exited. It
is not set for the other runs.

### Fairness, and why the code justifies it

- *Committer*: weak fairness of the goroutines, the timer and the handlers' next
  steps. Nobody has to call, to close, or to let a context expire.
- *Retention*: strong fairness of every goroutine, because Go mutexes hand
  themselves to waiters that starve, and channels serve their waiters in order;
  weak fairness of recovery and of the exit after a shutdown, because the
  service is started again and a stopping process ends. Restores need not come,
  and mishaps never have to happen.
- *Compaction*: strong fairness of a process's steps (the lock is waited for),
  weak fairness of starting the service: the desktop shell or the user starts it
  again. Compactions by hand need not come.
- *Live updates*: weak fairness of the signal after a commit, of the handler's loop,
  of the event loop (reconnect, receive, timers) and of reads. Commits, moves
  and mishaps are not fair; an expired timer and an unhindered request are what a
  browser does deliver.
- *Services*: weak fairness of both goroutines of a rebuild, and of the steps of a
  process; calls, cycles and restores have to end only once they were cancelled.
  The loop of the scheduler is strongly fair: when a tick and the cancellation are both
  ready, Go's `select` picks either, and not always the tick.
- *Store*: none; the store's properties are about states.

## 4. Proofs

Twenty-six of the forty properties the runs check are proved, for every value of the
constants that the assumptions admit. The runs check the same properties on the
instances of section 3, where a mutant of the code violates each.

`BatchingCommitterProofs` proves for every set of requests and closers, every
assignment of sizes and every policy that `batchingPolicy.validate` accepts
(`PolicyAssumption`, `RequestAssumption`):

| Theorem | States |
|---|---|
| `TypeCorrect` | every variable keeps its type |
| `DrainIsFinal` | the lifecycle is cancelled only after admission stopped, so the drain of a forced shutdown misses nobody |
| `NoWakeupIsLost` | `run` never sleeps on a request or a `Close` it has not been signalled |
| `SleepingWindowIsTimed` | a window `run` sleeps on has its timer running |
| `NobodyIsStranded` | a call that waits for its result is held exactly once, and `run` has not returned |
| `CleanCloseMeansDurable` | a `Close` without an error, none being forced, means everything admitted is durable and told so |
| `CommitterKeepsTheLedger` | the refinement of `ExportLedger`: `ImplementsLedger` |
| `CountsNeverDrift` | the half of `Accounting` that counts exports: `CountsAreExact` |
| `AccountsAreExact` | `Accounting`: the counts of exports and bytes are exact and within their limits, and so is every batch committed |

None of them is inductive alone. `CommitterInv` is `TypeOK`
with `Control`: `NextInHand` (when `run` holds a request outside queue and
window), `ShutdownOrder` (admission, `closeOnce`, cancellation and the exit of
`run` happen in this order), `TimerCoversWindow` (a window exists only while its
timer does, except inside a flush), `NothingLeftAtExit` (an exit finds the queue
empty), `CountedExports` (the admission counter counts what is held, also in the
middle of a flush) and `NoLostWakeup`. `TypeStep` and `ControlStep` prove that
each action preserves them; `CommitterInvariant` puts them together.

`HeldInv` follows the exports: queue, request in hand and window never repeat one
(`HeldOnce`), a call waits for its result exactly while its request is held
(`HeldIffWaiting`), a durable export is one whose caller was or is about to be told "ok"
(`DurableIsOk`), and nothing is held when `run` is done. It is proved over the seven
facts about appending to, joining and taking from sequences that stand first. From it, `CountsInv` bounds the
window by what is left of its limit, and `CloseInv` says that no failure is
forgotten before a `Close` returns. `BytesInv` follows the bytes: `unresolvedBytes` is the
sum of window, request in hand and queue (`CountedBytes`), `windowBytes` is what
the window holds and fits its limit (`CountedWindow`), and nobody who waits is over
the limit of a batch (`NobodyOversize`). The sums are folds over sequences. They are defined by a function on
sets of places that is chosen, so before anything is known of their values it
must exist: `FoldExists` extends one for k places to k + 1, and `Climb` concludes
for all from the fact that a set of numbers has a least element. `RunningTotal`
then gives a total for every prefix, and from it follow the sizes of what is
appended, joined or taken. The refinement maps a call to `StartCall` (taken), a
successful batch to `Persist` and a resolved one to `Tell`; `LedgerStep` has a case per
action, all others being stutters.

`LiveUpdatesProofs` proves the four safety invariants of feed and page for any
targets, views, limits and bounds and any number of mishaps and moves. `FeedAssumption` and
`ViewAssumption` say that every limit is positive, and that the kinds of
targets are finitely many, as are the targets one commit touches.

| Theorem | States |
|---|---|
| `NothingReceivedIsLost` | `ReceivedIsKept`: what was received and never acknowledged is pending or being applied; no window, sent or collected, is over the limit |
| `FrontIsCurrent` | `AcknowledgedIsShown`: the view in front shows or loads all changes up to the cursor, or an error |
| `HiddenKnows` | `HiddenIsStaleOrCurrent`: a hidden view is no older than the cursor, or knows that it is |
| `SleeperIsSignalled` | `WaiterIsSignalled`: a watch handler that sleeps behind the feed sleeps on a channel that is closed or whose writer is about to close it |

The first three follow from one inductive invariant, `LiveInv` (`LiveInvariant`):

- `FeedOK`: databases begin within the feed. A step only adds rows (`FeedGrows`), so a
  place once compared stays where it is, though generations change.
- `StreamInv`: the handler stands where the controller has received, or not after a
  place acknowledged once (`StreamFollows`), and a window on its way covers every
  row that is new in it (`WindowHolds`), however its targets were made coarse.
- `ControllerInv`: rows received and never acknowledged are covered by pending and
  applied targets (`ReceivedHeld`), those after the window being applied by the
  pending ones alone (`BehindHeld`), so that acknowledging it forgets nothing.
- `FreshInv`: every view shows each row that concerns it, is loading it, reports an error or
  knows that it is stale, up to what was ever acknowledged and, while a window is being
  applied, up to the end of that one.

Targets are collected by folds. `AddTargetsTakes` and `RowsTaken` say of them, for every
finite input, that what they return covers each element and is within the
limit. They rest on `FoldExists` and on `FiniteInduction`, which is carried out by hand on
sizes of sets.

The invariant showed that the earlier form of `ReceivedIsKept`, over the rows
after the cursor, was not preserved; `acknowledged` (section 2) is the repair.
`SleeperIsSignalled` has an invariant of its own, `SleepInv`: a handler goes to
sleep in `CheckAgain`, at the newest position; a commit leaves its signal
outstanding; the signal closes the channel of whoever took one; every other step
leaves the handler alone, or awake.

`MaintenanceReportsProofs` proves `ReportsHold`, that is `ReportsAreTrue`, for any cycles, any
number of operations and any mishaps: the row of a cycle that has ended agrees with its
operations, in status and counts, and none the code promises is left open.
The invariant is `ReportsInv`. For every cycle (`Fits`), `CycleFollows` relates the
goroutine to its row; `OpenIsKept` says that no operation of an open row has been
pruned, so the aggregate, which sees stored rows only, sees all; `OnlyLastIsOpen` that a
cycle goes on only after an operation that ended well; `WrittenIsTrue` is the property itself,
row by row. That a report stays true needs the second and third: an aggregate that is not
"running" is of operations that have all ended, and what has ended changes no more, nor do
pruned rows change what was counted. Between cycles, `OneAtATime` is the service's lock,
`StartFollows` says what each stage of a start has ended, and `ResumptionFollows` that a
resumption leaves no cycle it should report, but the one it is about.

`ServicesProofs` proves two properties. One is `ExitIsQuiet`, that is `CleanExitIsQuiet`, for any
kinds of calls and any bound of failures: a process that exits without an error left
no call, no cycle, no admitted export and no torn connection. The invariant is
`QuietInv`. `StopsInOrder` says that nothing of a stop happens before it
begins, and that no server listens afterwards; `TearingIsTold` that a torn connection has a
cause, the deadline or a failure; `ServersAreIdle` and `ServicesAreOver` that an owner
which returned while nothing had gone wrong left nothing behind; `ExitIsEarned` carries
this through collecting the errors to the exit. Each is needed since an owner's
return lies many steps before the exit, and calls still arrive in between
unless their server has stopped listening.

The other is `RebuildIsWhole`, that is `BuiltIsWhole`, for any
journals and batch limits (`PipelineAssumption`, `DatabasesAssumption`) and any
failures, if reads of the catalog report their errors (`~CatalogReadsFail`, the case
the run checks). The invariant is `WholeInv`. The exports committed, the
batch handed over and the batch being made are runs of numbers that follow each
other without a gap, as long as the producer met no error (`BatchesAreConsecutive`);
rows that ended without an error have been read to the end (`EndsAreEnds`), so a
join without an error leaves the whole journal in the candidate; what comes after the
join keeps it and adds the catalog (`RestIsWhole`). `RunsJoin` and `RunGrows`
are the facts about such runs.

`StoreProofs` proves what two algorithms of the store promise, for all their inputs.

| Theorem | States |
|---|---|
| `MembershipsAreTrees` | whatever links are stored (`Sensible`: finitely many that are `IsLink`, the only ones `StoreBatch` keeps), the rows made of them are trees: one row per session, each parent has a row with the same root, a parent is one the links leave no alternative to, and a session goes without one only where there is an alternative, none at all, or a cycle |
| `ConversationsAreApart` | a conversation shows the session it is opened by, and two of them have all their sessions in common or none |
| `RatesAreAppended` | rates added to a history that `LoadRates` accepts leave one it accepts, forget and change no price, and do not reprice a call made before the rates that are new |

`SessionGraph` climbs from a session to its parent, as often as there are sessions, to find the
root. That this is often enough follows from the pigeonhole principle: where no
session is above itself, the sessions on a chain differ (`ChainsEnd`). For the rates, `RateIsAppended`
has a case for a rate that is known, one that begins a series and one that follows the last;
in the third, the rates that fit an earlier call are matched one to one with those
that fitted before (`SameFitSamePrice`). The fold over a manifest is treated like that of
`Accounting`. It is proved for the rates of a manifest in any order, since the value of
`SetToSortSeq` is nothing the prover could compute; the order decides whether a
manifest is accepted, and these facts hold of it whenever it is. These theorems are about operators and
state no property of a run.

`CompactionReplacementProofs` proves for any processes, files, releases and exports, and
any number of mishaps, `BackupHasManifest` (that is `NoOrphanedBackup`), and, under the
hypothesis `Recoverable`, `ExportsAreKept` (`JournalIsKept`) and `ServiceIsComplete`
(`ServesEverything`). `Recoverable` says that the mishaps do not include both
power losses and failing operations; crashes and damaged candidates may always be among them.
Without it the two are false for three mishaps (section 3), and the run
checks them for two of every kind. The invariant has two halves.
`ControlInv`, proved without the hypothesis as `ControlHolds`: the lock is held by
the one process inside the directory (`OwnerRuns`); every directory a power loss could leave is
one `recoverOwned` can read (`Shapes`: no backup without a manifest, with a
manifest a source or a backup, a candidate only before it is installed); and each step of the
owner finds the phase and the files its operation needs (`Stages`). `DataInv` is
about the databases: whichever of the possible directories comes back,
the backup, or else the source, holds all accepted exports (`AllKept`); a candidate that is written to is
the source of none of them and all agree on the database that is served (`Apart`);
and a candidate is complete before it is registered, the installed database whole before its
backup is dropped (`AllReady`). There is a lemma per action for each half.

Two modules prove all eight safety properties of `RetentionLifecycle` for any pools of exports,
segments and operations, any cycles and restores, any policy days and group
limit, and any scenarios of mishaps (`PolicyDays`, `Pools`). The assumptions only say
that the pools are finite sets of positive numbers, that a cycle is no restore, and that days of
deletion come after those of archiving (`Policy.Validate`).

- `RetentionCatalogProofs` states the inductive `Invariant`: types; the catalog
  (`ExportsFit`, `SegmentsFit`, `OwnedTogether`, `OperationsFit`: a running operation owns exactly its
  targets, segments are claimed as a whole); `LocksFit` (`mu` and `gate` are with
  the goroutine whose step needs them); `CycleFits`, `PlanFits` and `RestoreFits`
  (what each goroutine has read and claimed is still so at its next step);
  `HandsApart`; `FilesFit` (a file is where the phase of the deletion on its segment
  says); `StagesFit` (a finished stage of the recovery left nothing running). It proves
  types, locks, catalog and restores. The claims survive the others' steps because
  every step touches the rows of one operation only (`Elsewhere`), and two
  goroutines never hold the same one. Its first section proves `OneGroupLess`: the first
  group of some candidates is not empty, and taking it away leaves one group less. It needs
  no induction: the candidates of a day are numbered by how many come no later (`Place`),
  the count is that of the candidates that begin a group, and taking the first
  `GroupLimit` of a day away lowers the places of the rest of that day by exactly
  `GroupLimit`.
- `RetentionLifecycleProofs` proves the rest of it: cycles, files, recovery
  (`LifecycleHolds`).

| Theorem | States |
|---|---|
| `AuthorityHolds`, `ClaimsHold`, `PlansHold` | `AuthorityIsExact`, `ClaimHoldsUntilPublished`, `PlanStaysExact`: each follows from the invariant in one state; the plan by `OneGroupLess` |
| `FilesHold` | `FilesFollowSegments`, from a second invariant, `FilesHaveReasons`: as long as no file operation failed, a file that is nobody's has a goroutine or a later start that will remove it |
| `OutcomesHold`, `DecisionsHold`, `RecoveryHolds` | the action properties `OutcomesAreTrue`, `DecisionStillStands`, `RecoveryIsComplete` |
| `LifecycleKeepsCustody` | `KeepsCustody`: the refinement of `TelemetryCustody` |

The last four rest on `StepFates`: a step is quiet (no export changes state, no deletion
passes its point of no return, what ends ends truthfully), or it is a received
export, an archived group, a cutover, a finished deletion or a published restore.
`Fate` is the custody of an export in terms of the catalog; each of the five moves changes
the fates of its own targets only, and in the way the custody allows.

### Only model-checked

- Liveness (`AdmittedIsAnswered`, `BlockedGoesOn`, `CloseTerminates`, `ServiceReturns`,
  `EveryOperationEnds`, `EveryoneGetsThrough`, `Converges`, `EverythingEnds`): it needs fairness
  and `ENABLED`, which the prover has no rules for.
- The store, its queries and the rework analysis (`RollupsAreRebuilds`, `ReplayAgrees`,
  `CallsAreBilledOnce`, `ViewIsFresh`, `AnswersAreExact`, `ReworkIsExact`). Each compares a fold over
  exports or activities with another one, and the step of either fold is a chain of
  operators over a dozen tables. Since the library's induction theorems cannot be
  instantiated here, each fold needs an induction by hand like that for
  `Accounting`, first for its existence and then for what it computes, and that for
  commits, replays, archives and restores in any order.

## 5. Not modelled, and why

- *OTLP receiver, source plugins, journal, transports*: handlers and mappings without
  state or order. The call is the committer's `StartCall`; what a batch holds is an
  input of `StoreProjection`.
- *Generated code, rendering, routing.*
- *Desktop shell*: its races depend on the Tauri runtime. One is known from reading: the
  handle of a sidecar that ended by itself is kept (`main.rs:102`).
- *Parts of the web interface*: loading older pages, requests for one session that
  overtake each other, a session still loading when a window arrives. Since the first
  window is applied without a cursor (see the findings), only conditional statements
  about them would hold.
- *Parts of the store*: metrics, plan usage, harness evidence, names of sessions, sources,
  file reads. They are appended and read, and nothing is derived from them in place.
- *Parts of the queries*: the enrichment of a page, conditions on models, tools and
  durations, the comparison of harnesses; a depth limit of 64 in the tree of agents.
- *Parts of a rebuild*: the formats of legacy journals; the copying of rates.
- *Parts of retention*: capacity reports, listings, counts of a classification.
- *A batch that names one span twice*: `trace_rollup.go:139` takes its waiting children off
  the count twice. The inputs here name a span once.

`PROJECT.json` "components" lists each part with its reason.

## 6. Plan

1. The activity windows with older pages, once their first window has a cursor.
