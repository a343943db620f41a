# Verification of the OpenCanon project runtime

OpenCanon keeps a *project runtime* beside every repository it watches: a
single-threaded server process that analyses the project on every change,
publishes the result, answers clients, runs their checks and feeds them events.
Other processes work with it: analysis and indexing workers, a machine-wide
background service that supervises the runtimes and owns one inference model,
the children of check commands, and the clients. This directory holds TLA+
models of the parts in which these interleave, fail and restart, the TLC runs
that check them on small instances, and TLAPS proofs about them.

All paths below are relative to the repository. `PROJECT.json` maps each
definition to the lines it models, each run to its properties, each hazard to
its line, and holds the findings in full.

## 1. Inventory

### Components, their state and their operations

| Component | State | Operations | Hard behaviour | What makes it correct | Status |
|---|---|---|---|---|---|
| **Project runtime state manager** `packages/runtime/src/state-manager.ts` | three revision numbers, current snapshot, active and queued intent, abort controller, failure, waiters, exclusive operation, shutdown state | `requestRebuild`, `scheduleRebuild`, `rebuildAndPublish`, `waitForRevision`, `waitForRebuildIdle`, `runExclusiveOperation`, `beginShutdown`, `waitForIdle`, `finishShutdown`, the loop `runLoop` | continuations of several callers between any two awaits; work superseded while it runs; shutdown anywhere | only the newest change is published; none is forgotten; analyses and operations never overlap; every waiter is answered | modelled, proved |
| **Inference coordinator** `inference-coordinator.ts`, `inference-host.ts` | two queues with a byte account, burst counter, active operation, host, resident model, timers | `enqueue`, cancel, drain loop, `ensureHost`, `retireHost`, eviction, `describe`, `stop` | deadlines and aborts at any await; host crash; a host that outlives its owner's interest | admission account exact; both priorities progress; no orphan process; requests go to a live host with the right model | modelled, proved |
| **Project events** `server-events.ts`, `protocol_event_store.rs`, `server-routes.ts`, `cli/src/changes.ts` | durable log with retention, one queue per stream, cursors | append, broadcast, replay, resync, backpressure, follow a check run | lost connections, full queues, expired history, runtime restarts | every event is delivered once, in order, or covered by a resync | mostly modelled |
| **Project State and code graph publication** `publication_store.rs`, `code_graph_connection.rs`, `project-refresh-publication.ts` | the publication row, one database file per generation, a file lock | open, create first generation, stage, copy, index, remove inactive, commit, swap connection | several processes; orphans of a dead runtime; kill at any step | the published generation is whole and is the one served | mostly modelled |
| **Runtime worker processes** `project-analysis-operation.ts`, `process-tree.ts` | child process, pending result | spawn, collect, terminate | kill against a late answer; orphaned workers | a worker that is over changes nothing any more | with publication |
| **Change check runner** `change-check-runner.ts`, `job_store.rs` | queue, drain loop, controllers, completions, job rows, job events | `start`, `cancel`, `stop`, `reconcileInterruptedRuns`, `execute`, `appendOutput`, `flushOutput` | rows and events in separate transactions; late writes; failing storage | every admitted run ends, with one kept result, told by its events | modelled, retention apart |
| **Project Knowledge index** `semantic_store.rs`, `semantic_delta_store.rs`, `semantic_vector_store.rs`, `knowledge-index-*.ts` | chunk rows and a snapshot row, three directories of vectors, a pending marker, a file lock | scan, plan, full rebuild, delta, roll back, abandon | two stores without a common transaction; a worker killed or failing at any step; a worker that outlives its runtime | a search never pairs rows with foreign vectors; a rebuild never costs the index | mostly modelled, proved |
| **Vector store** `crates/opencanon-vector` | memory-mapped vectors, graph, id map, deleted set, segmented write-ahead log, checkpoint | insert, delete, flush, rotate, checkpoint, truncate, replay, compact, recover | kill between two files; compaction beside writers | what was flushed survives; an id leads to its own vector | mostly modelled, proved |
| **Runtime supervision** `service-start.ts`, `service-process.ts`, `service-reconcile.ts`, `service-storage.ts`, `service-discovery.ts` | registry entry with its lifecycle, startup lock, worker lease, a client's view of each | start, stop, inspect, reconcile, restart with backoff, retire peers, acquire and release the lease | exclusive files without holders; several starters; a lifecycle overwritten between read and write; crashes and hangs | one worker owns the project's state; no worker is forgotten; every call returns | mostly modelled, one theorem |
| **Worktree coordination** `worktree-coordination.ts`, `server-routes.ts` | task leases, worktree records, lifecycle events | claim, check owner, release, expire; create, remove, reap and list worktrees | several runtimes and command lines on one database, statement by statement; directories that vanish | one holder of a task; a lease ends for a reason | mostly modelled, proved |
| **Change state** `core/src/change-state.ts`, `commit-approvals.ts` | status of Changes, tasks and checks, from events | which transition is admitted | a status read before it is acted on; advice that cannot be followed | an admitted transition is one the history allows | task status with worktrees |
| Check command guardian `check-command-guardian.ts` | process tree of a command | guard, terminate | who kills it when its owner dies | no command outlives its run | planned |
| Runtime lifecycle `server.ts`, `runtime-shutdown.ts` | phase, activity, idle timer | open, idle stop, settings restart, shutdown | work admitted while it stops | no admitted work is dropped | planned |
| Background service `service-server.ts`, `service-entrypoint.ts` | its own lock and endpoint, forwarded requests | start, stop, forward | two starters; a dead owner | one service per machine | planned |
| Type producer supervisor `type-producer/runtime.ts` | child, pending requests | request, restart, time out | late answer after restart | each request is answered once | planned |
| Update and install `distribution/src/update.ts` | installed version, staging | download, swap, roll back | crash in the swap | some whole version is installed | planned |
| Concurrency helpers `core/src/singleflight.ts`, ... | in-flight calls, permits | run, retry, cache | failing leaders | callers share one result | planned |
| Protocol admission `protocol-policy.ts`, `local-protocol.ts` | capacity | admit, release | early disconnects | the bound holds, nothing leaks | planned |
| File watcher `watcher.rs` | pending paths | debounce, overflow | lost notifications | a change is never lost silently | planned |

Not planned, with the reasons in `PROJECT.json`: the vector search algorithms
(floating point, correctness is recall), fact extraction and
definitions/validation/rendering (sequential, pure), schemas (declarations), the
command line apart from its run follower and its worktree commands, the model
host (third-party numerics; InferenceCoordinator lets it load, answer, fail or
die at any time), observability (written and never read back by the logic), site
and release scripts. By lines these are most of the repository: parsers,
renderers, schemas, argument handling and user interface. What is modelled is a
small share of the lines and nearly all of those in which two processes, or a
process and its own death, meet.

### How the parts interact

- The watcher and the routes call `requestRebuild`; the **state manager** calls
  back into `server.ts`, which starts an **analysis worker**, collects its
  candidate, and publishes it through **publication_store**.
- Committing a publication appends an event; finalizing it appends two progress
  events; the **broadcaster** sends them, in that other order, to the open
  **streams**.
- **Project Knowledge** indexing runs as an exclusive operation of the state
  manager, in a worker process that embeds through the **inference coordinator**
  of the background service and writes one row store and one **vector store**.
- The **check runner** appends job events and asks the broadcaster to send an
  operation event whenever a run starts or ends.
- Clients and the **background service** start, stop and restart the runtime of
  a project. They share three files with the worker and with each other, and no
  memory.
- Runtimes of several checkouts of one repository, and the command line, share
  the database of **worktree coordination**. A lifecycle event is admitted from
  the **Change state** that the runtime read from it.
- The serving store is shared with workers through the database files and the
  generation lock alone.

### Modules

| Module | Models | Kind |
|---|---|---|
| `RevisionPublication` | what clients are promised about revisions | abstract specification |
| `RuntimeStateManager` | state manager; implements `RevisionPublication` | component |
| `InferenceCoordinator` | coordinator with its host processes | component |
| `ProtocolEvents` | log, broadcaster, streams and two kinds of client together | composition |
| `CodeGraphPublication` | runtime, workers and indexers on one set of files | composition |
| `ChangeCheckRuns` | check runner with the job tables | component |
| `ProjectKnowledge` | index workers, rows and vector directories | composition |
| `VectorStore` | one embedded vector database and its files | component |
| `ProjectOwnership` | who owns a project's state: what every other module takes for granted | shared by `RuntimeSupervision` and the proofs |
| `RuntimeSupervision` | clients, service and workers of one project | composition |
| `WorktreeCoordination` | runtimes and command lines on one coordination database | composition |
| `RuntimeStateManagerProofs`, `InferenceCoordinatorProofs`, `ProtocolEventsProofs`, `CodeGraphPublicationProofs`, `ChangeCheckRunsProofs`, `ProjectKnowledgeProofs`, `VectorStoreProofs`, `WorktreeCoordinationProofs` | what is proved of each (section 4); of `RuntimeSupervision` in `RuntimeStateManagerProofs` | proofs |
| `MC*` | instances for TLC | |

Constants, their assumptions and every bound are declared at the head of each
module. Operators called `Mutant...` are plausible bugs, one for every checked
property; they are used by no specification, and each property fails when its
mutant takes the place of the definition it was made from.

## 2. How the models correspond to the code

A model of one process treats it as the single-threaded program it is: an action
is what the event loop executes between two awaits, and a continuation whose
promise has settled is an action of its own, so that any other continuation may
come first. Where the process may die or a transaction may fail *inside* such a
segment and the properties notice, the segment is split at its store calls
(`turn` in ProtocolEvents, `step` in ChangeCheckRuns); while one is in progress,
nothing but its next call, a failure or a death may happen. Where several
processes share files or a database, the segments are split at every operation
on those, and the steps of different processes interleave (`pc` in
CodeGraphPublication, ProjectKnowledge and VectorStore, `todo` in
RuntimeSupervision, `call` in WorktreeCoordination).

### RuntimeStateManager

State: `revision`, `snapshot`, `phase`, `active`, `queued`, `failure`,
`exclusiveOperation`, `shutdownState` and `waiters` are the fields of the class;
`loop` is where `runLoop` awaits (`building`, `discarding`, and `settled` for
the gap between its return and its `finally` handler); `aborted` is the signal
of the active controller; `pc`, `target` and `got` are the callers' stacks;
`drain` is how far the coordinator's part of `performShutdown` is.

| Actions | Code |
|---|---|
| `ScheduleRebuild`, `RebuildAndPublish`, `RefuseWhileStopping` | `requestRebuild` with the loop it starts, and `waitForRevision` after it |
| `WaitForRevision`, `InterruptWait`, `Return` | `waitForRevision`: answered at once, registered, timed out or aborted |
| `PublishCandidate`, `SupersedeCandidate`, `DiscardCandidate`, `RebuildThrows`, `InventoryThrows`, `DiscardThrows`, `LoopSettles` | the iterations of `runLoop`, its catch block, and the `finally` that restarts it. `InventoryThrows` is the throw of `readProjectInventory` between the durable commit with its snapshot and the publication of the revision |
| `RequestOperation`, `ResumeAfterRevision`, `ResumeAfterLoop`, `ClaimOperation`, `FinishOperation` | `runExclusiveOperation` and the awaits of `waitForRebuildIdle` inside it |
| `BeginShutdown`, `WaitForIdleReturns`, `FinishShutdown` | shutdown, with the exception `finishShutdown` throws when work remains |

`spinning` stands for a `while` loop that would go round without awaiting, and
`GapRequests` for a change requested by the very job that lies between
`waitForRebuildIdle`'s return and the claim (section 3, weaknesses). Snapshot
overlays (`setSnapshot`, the validation cache) keep a snapshot's revision and
are data.

### InferenceCoordinator

State: the fields of the coordinator, with `step` for the await that the drain
loop is at, `pending` for the callers' unsettled promises, and `process` and
`loaded` for the host processes it has started, however it refers to them.
`overtaken` is a history variable. Actions: `Enqueue`, `CancelQueued`,
`CancelActive`, `DeadlinePasses`, `Describe`, `Stop`; the loop's `StartHost`,
`HostStarts`, `HostStartFails`, `HostMismatches` (a host that is assigned and then refused,
because it reports another model, stays the current one), `SendRequest`, `SendEmbed`,
`OperationCompletes`, `AnswerRejected`, `OperationFails`,
`ResumeAfterRetirement`; `IdleTimerFires`; and the processes' own `HostCrashes`,
`KilledHostExits`, `TerminationEnds`. Taking the next operation is part of
whatever step led to the head of the loop, as in the code.

A slot is free again once `terminateProcessTree` has resolved. That is
optimistic for a process that survives SIGKILL. When no slot is free a start
waits: a bound of the model, so two slots bound how many terminations overlap.
`interactiveBurst` saturates at 4, past which the code cannot tell values apart.

### ProtocolEvents

`history` and `log` are the `protocol_events` table (all that was ever in it,
and what retention left); `stream` and `queue` are the broadcaster's; `turn`,
`pending` and `left` are the middle of a publication: `CommitPublication`
appends, `FinalizePublished` or `FinalizeThrows` comes next, and `OnPublished`
broadcasts last; after `InventoryThrows` the turn ends with nothing broadcast
and the failure is announced. `Connect` and `Resync` are the stream endpoint; `Receive`,
`StreamEnds`, `ReadRun` and `RefreshRun` the clients. A watcher keeps the
highest sequence it has received as its cursor, as the CLI's parser does; after
a resync it refetches and goes on from the latest sequence. `EndRun` and
`AnnounceEnd` also stand for `reconcileInterruptedRuns` after a restart. Left
out: the limit of three reconnections of the CLI, heartbeats, and an append
that fails after a run has ended. Events are all of one size.

### CodeGraphPublication

`publication` is the row in the state database; `files` what each generation's
file holds: nothing, part of a copy (`partial`), a whole copy that has still to
be indexed (`copy`), or a finished analysis (`complete`). Every process that
opens the store goes through `Open`, `InitializeGraph` and `RecordInitial` (the
first time), `RemoveInactive`, file by file, and `Opened`, all under the
generation lock; a worker then takes `Stage`, `StartCopy`, `EndCopy`, `Index`.
The runtime takes `StartAnalysis`, `CollectResult`, `Discard`,
`LockForPublication`, `Commit` or `CommitFails`, and `SwapGraph`.
`StartIndexing`, `EndIndexing` and `RestartStore` are the exclusive operation
and the settings route. `Die` kills a worker at any point, `RuntimeDies` the
runtime, and `Boot` starts the next one; the workers of a dead runtime carry on
as orphans. A graceful shutdown is `RuntimeDies` followed by `Die`s. SQLite's
transactions are atomic and the lock file is released on death, both external.
The names of generations are random in the code and are reused here only when
nothing refers to them.

The runtime's part is what RuntimeStateManager does, seen from the files: one
analysis at a time, superseded by a newer change, never beside indexing.

### ChangeCheckRuns

`status` and `events` are the job tables; `queue`, `controllers`, `completions`
are the runner's fields; `drain` and `item` are where its loop is; `step` is the
next store call of the segment being executed, with `subject` the run that a
cancellation or the reconciliation works on. `Start`, `CancelQueued`,
`CancelRunning` and `Stop` are the methods; `BeginRun` to `Retained` the
execution of one run, `Output`, `Flush`, `SaveOutput` and `EmitOutput` its
output; `Recover` and `Recovered` the loop's catch block;
`RuntimeDies`, `Boot`, `Reconcile`, `InterruptRun` and `Ready` the crash and what the
next runtime makes of it. `StoreFails` lets any store call throw, and sends
control where the code's exception handlers send it: to the request, to the
loop's catch block, to nobody. Reads succeed, there is one runtime namespace,
and retention removes nothing.

### ProjectKnowledge

`source` is what the project's files contain, `inventory` the files table,
`snapshot` and `rows` the two tables of the index; `live`, `staging` and
`backup` are the vector directories, `pending` the marker, `lock` the
publication lock. One chunk stands for one file. A worker runs from `Scan`,
which records the inventory at once, through `Plan`, which decides between a
full rebuild and a delta, to `Publish`:

| Steps | Code |
|---|---|
| `LockFull`, `MarkPending`, `BuildStaging`, `RetireLive`, `SwapStaging`, `Transaction`, `DropBackup`, `Unmark` | a full rebuild: lock and remove leftovers, build beside the live directory, move the live one away, move the new one in, write the rows, end |
| `SwapFails`, `TransactionFails`, `RemoveUnpublished`, `RestoreBackup` | its roll back |
| `LockDelta`, `WriteVectors`, `UnlinkMarker`, `RenameMarker`, `Transaction`, `Unmark` | a delta: lock and mark, change the live vectors, replace their marker, write the rows, end |
| `WritingFails`, `Abandon`, `RuntimeDies` | a failing call, a worker that is killed, and a worker that outlives its runtime |

`Healthy` is what a reader checks before it searches with vectors. `lost` is a
history variable.

### VectorStore

`main`, `temp` and `backup` are the three directories with their three files,
`sealed` the full segments of the write-ahead log and `active` the one that is
written, `lsn` its counter, `checkpoint` the marker file, `memory` what the open
database holds. `spilled` says how much of the active segment has left the
writer's buffer: the rest is gone when the process dies. `Insert` and
`Delete` log and apply; `StartFlush`, `SaveGraph`, `SaveIds`, `LogCheckpoint`,
`MarkCheckpoint`, `Truncate` are a flush in the order of its writes;
`BuildNewFiles`, `Retire`, `Install`, `Reload` are a compaction, one rename at a
time, and `StartCopy`, `EndCopy` the background compaction beside writers. The
process ends by `Crash` (anywhere) or `Close`, and comes back through `Open`,
`Restore` (recovery of a compaction, one rename at a time), `Load`, and the replay
of the log, record by record (`Replay`, up to `EndReplay`, which flushes what it
added): `at` is the record it has come to, `changed` whether it applied any.
Pages written through a memory map survive a kill. A kill inside `SaveGraph` or
`SaveIds` leaves the file torn, and no later `Load` gets past it. `since`,
`latest`, `raced`, `interrupted` and `halfSaved` are history variables.

### RuntimeSupervision

`entry` is the project's registration with its lifecycle, `ripe` whether the
deadline in it has passed, `slock` the startup lock, `lease` the file
`worker.lock` with its creator, `worker` (in `ProjectOwnership`) the stage of each
worker process. A
client, and the service, has a list `todo` of the steps it still has to make and
a memory `me` of what it has read; `current` holds those whose copy of the
lifecycle is still what is registered, which is what the registry's
compare-and-set compares.

| Steps | Code |
|---|---|
| `TakeLock`, `BreakLock`, `BreakIdleLock`, `GiveUpLock`, `Unlock` | `withProjectRuntimeStartupLock` |
| `Read`, `ReadUnregistered`, `ProbeAnswered`, `ProbeFails` | `inspectProjectRuntime` with the lifecycle it writes |
| `Reap`, `ForgetVictim`, `RetireUnreadable`, `RetireRegistered`, `RetireOther`, `DropLease` | ending a worker, forgetting it, retiring a conflicting lease |
| `Choose`, `Spawn`, `Register`, `KidIsReady`, `Confirm`, `KidExited`, `KidIsLate`, `Discard`, `OtherIsReady`, `OtherIsNot` | `startProjectRuntime` |
| `Stop`, `StopUnregistered` | `stopProjectRuntime` |
| `Reconcile`, `KeepRegistered`, `ListPeers`, `Cull`, `Culled`, `JudgeFine`, `JudgeDue`, `JudgeUnhealthy`, `JudgeStale`, `Restarted` | one round of the reconciler |
| `CreateLease`, `WriteLease`, `FindDeadOwner`, `BreakLease`, `Refused`, `Serves`, `Leaves`, `Exits` | a worker's life |
| `Crashes`, `Hangs`, `BootFails`, `SpawnFails`, `Killed`, `ServiceDies`, `TimePasses` | what goes wrong, and time |

A start runs inside the service, for whichever client asked for it, so that all
starts, the restarts and the reconciler end together when the service does
(`ServiceDies`), and the lock they held has no living owner (`Orphaned`); another
service then begins with the files alone. A stop runs in the client's own
process, which may be killed between any two steps (`Killed`). All who take the
startup lock are therefore one process at a time: it finds a dead holder's lock,
removes it and takes it without a pause, and only a client that stops can come
in between its own look at a dead holder's lock and its removal
(`BreakIdleLock`, `BreakLock`).

Named abstractions: the sections under the registry's own lock are atomic;
synchronous stretches are merged except between an exclusive creation and its
write, and between a read and a removal; the time is read at the step that
judges, and a deadline may pass at any moment, also while the worker it is about
is still awaited (a start makes 720 attempts, of up to two seconds each against a
worker that accepts connections and does not answer, which is longer than the
grace of 210 seconds). One project; the mismatch of identities and versions,
malformed registries, ports and the reuse of process ids are left out, and so are
how the service itself is started and stopped, rounds of reconciliation outside
its timer, and a stop requested through the service, whose steps are those of a
client's own.

### WorktreeCoordination

`lease` and `worktree` are the active rows of the two tables, `present` the
directories that exist, `last` the latest event of each task and `result` its
checks, `call` what each process is doing. A runtime handles one event at a
time, since its handler never awaits after the body is parsed: `Receive` stamps
it and reads the history, `SelectRunOut` and `EndSelected` are the sweep of
leases that ran out (`EndBeforeClaim` that of a claim), `ListLeases` reads the leases and validates, then
`EndBeforeClaim` and `Claim`, or `RequireOwner`, or `Release`, and `WriteEvent`
at last. `pending` keeps the runtimes in the order of their stamps: an event
that is written later with an older stamp is not the latest one. The command
line has `CreateWorktree`, `RecordWorktree`, `UndoCreate`, `RemoveWorktree`,
`UnlistWorktree`, `Reap`, `FindMissing` and `MarkMissing`. `CheckStarts` and
`CheckEnds` are the events of checks, which the check runner writes and anybody
may post, in any order; `LeaseRunsOut`, `DirectoryVanishes`
and `Dies` may happen at any time. `robbed` is a history variable.

Named abstractions: one Change, whose own lifecycle is left out, and no event
ids; `MaxCalls` calls are under way at a time; an empty sweep is merged with the
read after it (not with the transaction of a claim); `valid` keeps of the history that was read only for which sets of
leased tasks it admits the event; the id of an ended lease is used again once no
call refers to it; `stale` and `removed` worktrees are both `gone`, a check
that is queued is running, one that fails leaves its task as a blocked one; the
refusal of a dirty worktree changes nothing; equal stamps are ordered. The unique
index on active leases is not modelled: `WorkIsExclusive` shows that it never
has to act.

## 3. What the runs show

| Run | Specification and bounds | Properties, and what they say |
|---|---|---|
| `state_manager` | `Spec`; two callers and the watcher, revisions 1..4 | `NewestRevisionIsOwned`: no change is forgotten. `NoOverlap`: an operation runs alone. `WaitersAreAnswered`, `ShutdownCompletes`. `ImplementsPublication`: `RevisionPublication` is implemented, its liveness included |
| `inference` | `Spec`; two interactive and one background operation, three models, one unfit, two requests and four bytes of queue, two processes | `QueueAccounting`, `BoundedOvertaking`, `NoOrphanHost`, `InFlightIsServed`; `OperationsAreAnswered`; `StopEndsEverything` |
| `events` | `FairSpec`; one watcher, one follower, three events, retention 3, replay 2, queue 1, two faults | `NothingElseIsMissed` and `MissedPublicationWasOvertaken`: what a client may miss without knowing. `ExpiredHistoryResyncs`. `WatchersCatchUp`: only a replay that outgrows the queue for ever keeps a watcher behind. `FollowersFinish` |
| `publication` | `FairSpec`; two workers, one indexer, five generations, revisions up to 3, two deaths of the runtime, one settings restart | `PublishedGraphIsComplete`, `PublicationIsUndisturbed`, `OpensNeverFail`, `AtMostTwoGenerations`; `ChangesSettle` |
| `checks` | `FairSpec`; two runs, capacity 2, one output event each, one death, two failing store calls | `EventsTellTheResult`, `ActiveRunsAreHeld`, `RunsEnd`, `CancelsAreAnswered`, as long as no store call has failed; `ResultsAreKept` in any case |
| `knowledge` | `FairSpec`; two files, two workers, one change of each file, one fault | `SearchMatchesRows`: no search pairs rows with foreign vectors. `MissesOnlyLostScans`: which file an up-to-date index may miss. `RebuildKeepsServing`; `BecomesSearchableAgain` |
| `vectors` | `Spec`; two ids, segments of two records, four writes, two flushes or compactions, two kills | `FlushedSurvives`: files stay readable unless a kill fell into their saving, and recovery gives back what was flushed unless one fell into a swap. `ReadsSeeWrites` and `MappedIdsAreSearchable` |
| `vectors_crash` | as `vectors` | **violates** `CompactionIsCrashSafe` (finding 1) |
| `supervision` | `FairSpec`; one client that starts or stops, the service, three workers, one port tried, one crash or hang, one death of the client or the service | `OnlyALostLeaseIsShared`; `OrphansAreRetired`, `DeadEntriesAreResolved`, `CallsReturn`, `HungWorkersAreEnded` |
| `supervision_restart` | `FairSpec`; one client that starts, two workers, one crash or hang | **violates** `CrashedIsRestarted` (finding 2) |
| `worktrees` | `Spec`; two checkouts, one command line, one task with one check, no named agent, two lease ids, one worktree record, two calls at a time | `WorkIsExclusive`: one holder of a task, and only he announces work. `LeasesEndForAReason` |
| `worktrees_advice` | `Spec`; one checkout, a named agent, one call at a time | **violates** `AdviceCanBeFollowed` (finding 3) |

### Why the bounds are enough

- *state_manager*: superseding a queued intent needs three changes (one being
  analysed, one queued, one that replaces it); a second caller is needed for one
  operation to wait for another. Both callers may call again without limit.
- *inference*: operations are submitted again and again, so the burst limit of 4
  is reached although there are only three; two bytes per large operation against
  four lets either limit of admission refuse.
- *events*: one publication appends three events, and whatever an earlier one left
  has expired when time has passed (a retention age of 0). A replay of two is
  within the limit and does not fit the queue of one, a replay of three is beyond
  the limit: with `ReplayLimit <= QueueLimit` the first could not arise. They
  share nothing but the log: instances with four events were checked with the
  watcher alone (retention 4, replay 3, queue 2) and with the follower alone.
- *publication*: the published generation, a staged one and the leftovers of two
  dead or killed workers need four names; with four a `Stage` could still wait
  for a name, which the code never does, hence five.
- *checks*: one run behind another is what cancellation, stop and recovery have
  to tell apart. Two faults let a recovery fail after a failure. The capacity of
  two never refuses two runs; that the refusal changes nothing is plain in
  `Start`.
- *knowledge*: two files let a delta touch one and leave the other; the second
  worker is the one that starts beside an orphan. A fault in a delta leaves the
  marker, and the next rebuild runs without faults: two faults break
  `SearchMatchesRows` (weaknesses below).
- *vectors*: two records fill a segment, so the log rotates and truncates; the
  second flush is the one whose checkpoint lies over an older one, and the
  second kill falls into the recovery from the first.
- *supervision*: an old worker, the one that replaces it, and one that a second
  start or a restart spawns. The client makes one call, a start or a stop, while
  the service goes on reconciling and restarting. One death falls between any two
  steps, and what is left is dealt with by a service that starts from the files.
  A second attempt of one start, at another port, is in `supervision_restart`, and
  was checked with two workers. Two clients at once
  are in `supervision_lock.cfg` only (weaknesses below).
- *worktrees*: two calls at a time are what every race between two processes
  needs; the second checkout comes and goes. Agents are told apart by their
  checkout. Symmetry of lease and record ids is used here only, without
  liveness.

`CHECK_DEADLOCK FALSE` is set except in the two `worktrees` configurations: the
bounds stop the changes, and a stopped or finished component has nothing left to
do.

### Fairness, and why the code justifies it

- *State manager*: the event loop runs settled continuations. That an analysis
  and an operation end is an assumption about the workers: each computes over
  finitely many files and then answers or exits, but neither has a time limit
  (project-analysis-operation.ts, knowledge-index-operation.ts), and a worker
  that hangs holds its waiters until a newer change aborts it. Nobody has to
  call, time out or shut down. The liveness properties hold once changes stop,
  here at `MaxRevision`.
- *Inference*: continuations run, timers fire, a start has a timeout and
  SIGKILL ends a process. No answer of a host is fair.
- *Events*: the runtime finishes a turn; a client reads what arrives and
  reconnects. Lost connections and restarts are finite.
- *Publication*: the operating system grants the lock to whoever keeps waiting
  (strong fairness) and releases it on death; processes go on, and the runtime
  collects its workers. Deaths have no fairness.
- *Checks*: a command ends by its time limit, the event loop goes on, and a
  runtime that is off is started again.
- *Knowledge*: workers run, and indexing is asked for again, by the next change
  or by the user. No fault is fair.
- *Supervision*: each process runs, the service sets its timer again after every
  round, one that died is started again (the clients do that before any request),
  a worker told to end does, and time passes. Calls, crashes, hangs and deaths
  are not fair.
- *Vectors* and *worktrees* have safety properties only.

### Findings

1. `vectors_crash`. `recover_compaction` (compaction.rs:552) restores the backup
   only when `vectors.bin` is missing, and then removes it in any case. A process
   killed after that file was moved, and before the other two were, loses what
   had been flushed. The comment at compaction.rs:98 says the operation is
   crash-safe.
2. `supervision_restart`. The reconciler retires a conflicting lease before it
   looks at what it inspected (service-reconcile.ts:50). The lease file of a
   crashed worker names the registered process, which no longer runs, so the
   project is forgotten instead of restarted. The lifecycle specification says
   that dead projects can restart, and the repository's own test of it has a dead
   runtime without a lease file.
3. `worktrees_advice`. A refused event tells its sender to claim the task first
   (worktree-coordination.ts:500), but the claim of a task whose lease ran out,
   or that runs because of its check, or that is blocked, is refused too.

### Weaknesses met while modelling

Found in runs of other instances, or by changing one bound. Where a configuration
is named, TLC shows it with that one:

- *State manager.* The inventory is read after the durable commit and after the
  snapshot was assigned (state-manager.ts:160). When git cannot be spawned that
  read throws (server-fs.ts:114), and the revision is reported as failed and stays
  unpublished while its snapshot is committed and served:
  `FailurePreservesSnapshot`, which is what runtime-operations-spec.md:165 says,
  fails (`state_manager_failure.cfg`). `runExclusiveOperation` rechecks shutdown and other
  operations after `waitForRebuildIdle`, but not the loop (state-manager.ts:304):
  with `GapRequests = TRUE`, `NoOverlap` fails. Today's callers do not produce
  that order. In CodeGraphPublication such an overlap would let an indexing
  worker remove a staged generation. A steady stream of changes faster than an
  analysis starves publication.
- *Inference.* The host is dropped before its termination has ended
  (inference-coordinator.ts:391, inference-host.ts:52), so that two processes may
  hold model memory for a while: `OnlyOneHost` fails. The completion of an
  eviction overwrites `hostStatus` after a new host has started (371).
- *Events.* A publication is appended before, and broadcast after, its progress
  events (state-manager.ts:165), so a connection lost between them leaves the
  cursor beyond a publication that is never replayed: `ReconnectReplaysUnseen`
  fails, and `MissedPublicationWasOvertaken` is what holds instead. A replay of up
  to 500 events is written into a queue of 256 KiB before the client reads any of
  it (server-events.ts:150): one that does not fit fails the stream, the client
  reconnects with the cursor it had, as it is advised to (91), and meets the same
  replay. `ReconnectingSuffices` fails (`events_replay.cfg`), against
  domain-protocol-spec.md:71.
  Progress events carry the previous revision. A wall clock set back makes
  retention leave holes that the gap test misses.
- *Checks.* `queueOutput` flushes in a data handler, where a failing store call
  ends the process (change-check-runner.ts:236): `RuntimeSurvivesFailures` fails.
  A terminal event may be persisted twice, and stay contradictory, when
  `recordTerminalCanonEvent` fails after it (295-310). A cancellation whose first
  write fails, or a `start` whose broadcast fails (121), leaves a run active and
  held by nobody until a restart; the next cancel of it waits for ever. `stop`
  rejects on such a failure without aborting the running check.
- *Publication.* After a power loss the publication row may name a generation
  whose last transaction is gone (code_graph_connection.rs:239), and a cleanup
  that cannot remove one file fails the whole open (283).
- *Knowledge.* The inventory is recorded at the scan, before the index is made
  (project.rs:112-195): a run that fails, or a file that changes between the scan
  and its reading and back again, leaves an index that is ready and not current
  (`ReadyIndexIsCurrent`, against docs/opencanon-architecture.md:237). The rollback
  of a full rebuild restores the live directory and clears the marker, even if an
  interrupted delta had left it (semantic_vector_store.rs:187-202):
  `SearchMatchesRows` fails with two faults. The worker of a dead runtime may
  publish over newer content.
- *Vectors.* `flush` truncates `hnsw.db` and `idmap.db` and writes them anew
  (hnsw/persist.rs:31, store/idmap.rs:46). A kill in between leaves a file on
  which every later open fails before it comes to the log, whose replay wal.rs:29
  promises: `StartupReplays` fails (`vectors_flush.cfg`). Writes are not blocked
  during a background compaction, as compaction.rs:321 says they are, and its swap
  undoes them: `WritesSurviveCompaction` fails (`vectors_compaction.cfg`). The
  engine calls no compaction today. The log buffers records until a flush,
  whatever wal.rs:3-6 says.
- *Supervision.* A client that stops a project looks at the startup lock of a dead
  service and removes whatever file is there by then, which may be the lock of the
  next service (service-storage.ts:283-288): `StartsAreSerialized` fails
  (`supervision_lock.cfg`), against project-runtime-lifecycle-spec.md:103. A lease
  between its creation and its write is unreadable, and whoever retires leases
  removes it, even if it was written meanwhile (service-process.ts:78-82), so that
  two workers own the state: `SingleOwner` fails (`supervision_owner.cfg`), and
  `OnlyALostLeaseIsShared` is what holds. `Unlock` removes whatever file is there. The reconciler may kill
  a runtime that was registered after its snapshot of whom to keep, and judge and
  restart one that is still awaited. A failed restart forgets the registration,
  so the limit on restarts is hardly ever reached. A stop is undone by a start or
  restart under way, and `Confirm` overwrites `stopping`.
- *Worktrees.* A lease that runs out, or goes with its worktree, between the check
  of it and the event (server-routes.ts:494) does not keep its former owner from
  announcing his work (`robbed`), and one renewed after a sweep had selected it
  is ended all the same. The history is read before the leases, so a slow runtime may
  claim a task that was worked through and closed meanwhile, and its event, with
  its older stamp, is never the latest. The claim comes before the validation
  that may refuse its event, and a claim repeated after a crash is refused though
  its lease is held. A check run reopens a closed task; creating a worktree
  claims without looking at status or dependencies; a lease claimed from inside
  a managed worktree is not released with it; a removal during a creation leaves
  a lease on a record that is gone.

## 4. What is proved

The proofs hold for every value of the constants that satisfies the assumptions
named in the modules (callers, operations, slots, workers, files, checkouts of
any number; any policy; any bound), and use safety specifications only, so no
fairness is assumed.

**State manager.** `IInv` is `TypeOK`, `AnalysisInv`, `DrainInv` and `CallerInv`.
`NewestRevisionIsOwned` is not inductive by itself. A rejected analysis is
ignored when it was aborted and a successor is queued, so the invariant must
know that an abort means a newer intent or a shutdown (`AbortMeansSuperseded`)
and that whatever is analysed or queued was observed (`WorkIsNumbered`). The
phase and failure parts are needed for each other. `DrainInv` ties the shutdown
task to the state, and `CallerInv` each waiter to the await it is in.
`NeverOverlap` needs one more conjunct, that an admitted caller still finds the
manager idle, which holds only without gap requests: that assumption is in the
theorem's statement.

| Theorem | Establishes |
|---|---|
| `TypeCorrect` | `TypeOK` |
| `NewestRevisionOwned` | the newest change is published, queued, analysed or reported |
| `FailureAboutNewest` | `FailureIsAboutTheNewest`: superseded work never fails the runtime |
| `PhaseAgrees` | `PhaseAgreesWithRevisions`: the phase shown agrees with the revisions |
| `NoSpin`, `NoneStranded` | waits always await, and no waiter outlives its answer |
| `WaitersSeeRevision` | `WaitersSeeTheirRevision`: a resolved waiter got a snapshot at least as new as asked |
| `CleanShutdown` | `ShutdownIsClean`: `finishShutdown` never throws |
| `NeverOverlap` | `NoOverlap`, assuming `~GapRequests` |
| `OnlyNewestPublished` | `PublishesOnlyTheNewest`, an action property |
| `PublicationRefinement` | the initial states and steps of the manager are those of `RevisionPublication` or stutter. That specification lets a failure leave the new snapshot served (section 3, weaknesses), and nothing else of the kind |

**Coordinator.** `IInv` is `TypeOK`, `QueueInv`, `HostInv` and `PendingInv`.
`BoundedOvertaking` needs `QueueInv`: the overtaking of a waiting background
operation is at most the burst counter, and each queue holds only its own
priority. `QueueAccounting` needs that each operation waits once, in the queue of
its priority; that a sum over a finite set changes by what one element adds to
it is proved for the fold it is written with. The host properties need `StepInv`, what each await says of the host
and the process being used; this is where a host that crashed, was killed by an
abort, was refused for the model it reports, or has loaded another model is told
from one that may serve.
`PendingInv` adds that a retiring operation has been answered. The lemmas about
heads, tails, appended and filtered queues are stated once and cited.

| Theorem | Establishes |
|---|---|
| `TypeCorrect` | `TypeOK` |
| `OvertakingBounded` | `BoundedOvertaking` |
| `QueueIsAccounted` | `QueueAccounting`: the queued bytes are the sum of what waits |
| `CallersOwned`, `QueueNeverStalls` | `PendingIsOwned`; `NoStall`: queued work always has a loop that will take it |
| `HostsAccounted`, `RequestsServed`, `EvictionWatchesIdle` | `NoOrphanHost`, `InFlightIsServed`, `IdleHostIsWatched` |
| `NothingServedAfterStop` | `StoppedServesNothing` |
| `LiveHostInherited` | `NextOperationGetsLiveHost`, an action property |

**Events.** None of the three invariants about what a watcher receives is
inductive: they speak of events that are past. `IInv` is `TypeOK`, `Queues`,
`LogInv`, `TurnInv` and `Delivery(w)` of every watcher. `LogInv` says that the log
is an unbroken end of the history (retention by age and by count removes only
from its beginning, as timestamps grow along it), `TurnInv` that only progress
events follow a publication before it is broadcast, and `Delivery` where the
cursor may be: not beyond a publication still to be announced, and beyond a
queued event only if that is a publication behind a progress event of its own.
The replay sorts its events, which the model says by choosing the sequence that
is in order; the lemmas derive that there is one.

| Theorem | Establishes |
|---|---|
| `TypeCorrect` | `TypeOK` |
| `NothingElseGoesMissing` | `NothingElseIsMissed`: a watcher that is told to resume has missed publications only |
| `MissedPublicationsWereOvertaken` | `MissedPublicationWasOvertaken`: and only those its own progress events overtook |
| `ExpiredHistoryIsResynced` | `ExpiredHistoryResyncs`: whoever asks for what retention removed is told to resynchronize |

**Code graph publication.** That the published generation stays whole says
nothing of who may write to a file or remove it. `IInv` adds the discipline of
the lock: it is held by exactly the process whose place in the code holds it
(`LockIsHeld`), what a holder has read of the publication is still true
(`HoldersKnow`), no two processes stage under one name (`NamesDiffer`), and what a
worker has reported is indexed or was removed by a cleanup (`ReportsAreIndexed`).
The proofs hold for any number of workers, indexers, generations, changes and
deaths.

| Theorem | Establishes |
|---|---|
| `TypeCorrect` | `TypeOK` |
| `PublishedGraphStaysComplete` | `PublishedGraphIsComplete` |
| `CandidateIsNotRemoved` | `PublicationIsUndisturbed`: no cleanup removes what is being published |
| `OpeningAlwaysSucceeds` | `OpensNeverFail` |
| `GenerationsDoNotPileUp` | `AtMostTwoGenerations` |
| `RuntimeServesWhatIsPublished` | an open runtime reads the generation that the publication row names |

**Check runs.** `LoopInv` says at every store call of every segment what the row
said when the segment read it (`RowsAsRead`), where the loop can be meanwhile
(`Shape`), and that no run is queued and executed at once (`QueueIsApart`); that
is what keeps a result, for any number of runs, deaths and failing store calls.
As long as no store call has failed, `Held` and `Told` follow: what the runner
holds is what is active, and which terminal events are still to be written.

| Theorem | Establishes |
|---|---|
| `TypeCorrect` | `TypeOK` |
| `ResultsNeverReopen` | `ResultsAreKept`, an action property |
| `EventsAgreeWithRows` | `EventsTellTheResult` |
| `RunnerHoldsWhatIsActive` | `ActiveRunsAreHeld` |

**Project Knowledge.** Four invariants, each standing on the one before.
`IInv` follows the directory that serves through a full rebuild: live until it is
retired, backup until the rows are written or not, then whichever was kept
(`Stage(w)`); `HoldersHold` (who is past the lock holds it) keeps the other
workers out, dying ones included. The health is seen at the last step only, but
depends on all of these. `StoredInv` types what is stored. `ScanInv` follows a file
from the scan that records it to the rows made of it. `AgreeInv` follows the
vectors of the rows, and counts the faults it takes to part them: one never
does, two may (section 3, weaknesses), so the theorem says so.

| Theorem | Establishes |
|---|---|
| `TypeCorrect` | `TypeOK` |
| `RebuildsKeepServing` | `RebuildKeepsServing`: a rebuild that runs to its end, rolled back or not, leaves a searchable index if there was one |
| `OnlyLostScansAreMissed` | `MissesOnlyLostScans` |
| `SearchesMatchRows` | `SearchMatchesRows` as long as there was at most one fault |

**Vector store.** The three invariants speak of an open database at rest; what
they need lies in the files and the log while a step is half done. `IInv` is
`TypeOK`, `LogInv` and `DataInv`. `LogInv` says that the records of the log are
numbered upwards across its segments (`Ordered`), that the counter and the
checkpoint follow them wherever a kill may cut the log (`Numbered`, `Marked`), and
that what a replay can apply was written since the last flush (`Recoverable`), so
that a replay over files newer than the log does no harm. `DataInv` says of every
file that a recovery may open that it is complete or known to be torn, fits its
index, and holds what each id had at the last flush or later (`Whole`): in the
main directory while the database is open or saved, in two directories together
while a compaction swaps them, and after a kill. The renames of a swap keep the
two together what they were (`Merged`, `Apart`); that a compaction numbers the
vectors it copies 1, 2, ... without a gap is proved from the cardinalities that
define the numbers. For any ids, segment size, writes, flushes and kills.

| Theorem | Establishes |
|---|---|
| `TypeCorrect` | `TypeOK` |
| `FlushedDataSurvivesKills` | `FlushedSurvives`, which needs `ReadableInv` beside it: a file is torn only after a kill inside its saving |
| `ReadsAnswerTheLatestWrite` | `ReadsSeeWrites` |
| `MappedIdsAreFound` | `MappedIdsAreSearchable` |

**Supervision.** `OwnersAreExclusive` establishes `OnlyALostLeaseIsShared`: two
workers own the state at once only after the lease of a live worker was removed.
`SingleOwner` says nothing of a worker between the creation of its lease and the
write of it, nor of whose lease there is, so `LeaseInv` adds that whom the lease
names is past its boot (`LeaseFollowsBoot`), and that as long as no lease of a
live worker was lost, whoever created one and still runs is the one it names
(`HolderIsNamed`). The proof stands in `RuntimeStateManagerProofs`, because the
lease is why a project has one state manager at a time: that module has an
instance `Sup` of `RuntimeSupervision`, and the assumption `Founded` on its
constants is the theorem's hypothesis. `ProjectOwnership` holds the property,
which speaks of the workers and not of those who start and stop them.

**Worktrees.** `TaskHasOneHolder` establishes `WorkIsExclusive`. That a task has
one lease follows from the transaction of a claim alone; that whoever is about
to announce work holds it does not, because between the check and the event every
other process may end leases by their ids, their owner or their worktree. `IInv`
adds what a call carries along (`Formed`). `LeasesEndWithReason` establishes
`LeasesEndForAReason`, an action property. A statement ends what an earlier one
selected, so `Reasons` says that whatever is selected and still active has a
reason by now (`Doomed`: it ran out, or its record is gone), that an id under
way is not given to a new lease, that named records are rows, and that an
owner's request is about his own checkout. `MainCheckoutStays` has no run: no
command removes the checkout that was there first, neither the removal of a
worktree by its record nor the undoing of a creation, because neither a row nor
the call of a command line ever names it (`Spared`). That nobody deletes it by
hand is assumed (`DirectoryVanishes`).

**Induction.** The library's induction theorems take an operator as a parameter,
which the provers here cannot instantiate. Where a proof needs induction over
data (the sum over the queue, the sequence in order of a finite set of numbers)
it takes a smallest counterexample instead, which the well-foundedness of `<` on
the naturals provides.

**Only model-checked.** All liveness, which rests on fairness and ENABLED; with
it the liveness half of `ImplementsPublication`, whose steps are proved. Every
invariant of a run is proved. `TypeOK` of RuntimeSupervision and
WorktreeCoordination is stated for the reader: the proofs use the parts they
need, and the requests that wait in `pending` are taken out by `SelectSeq`, a
recursive definition of which the provers know nothing.
Some theorems have no run: their property
follows from the same inductive invariant as one that is run.

## 5. Plan

In this order; the first one is the next to be written.

1. Proofs: type correctness of RuntimeSupervision, and of WorktreeCoordination but
   for `pending`.
2. `RuntimeLifecycle`: idle stop and admission, settings restart, shutdown and
   its deadline, composed with RuntimeStateManager; the start and death of the
   service itself, composed with RuntimeSupervision.
3. `CheckCommandGuardian`: process ownership, refining the one-step command of
   ChangeCheckRuns. `TypeProducerSupervisor`: requests and restarts.
4. The lifecycle of a Change, its dependencies and work queue, and commit
   approvals, composed with WorktreeCoordination.
5. Small modules for single-flight, semaphore and retry, admission, the update's
   swap and the watcher's debounce.

Each will have an abstract promise where its clients rely on one, as
`RevisionPublication` is for the state manager.

### Not modelled

Besides what the plan names: power loss (only kills of processes are modelled),
search and ranking, the contents of facts, findings, diffs and documents, the
text of messages, and everything that is a pure function of one process's data
(parsing, validation, rendering, schemas, argument handling). Their tests in the
repository reach what a model of them would.

## 6. Running it

    tlc -workers 2 -config state_manager.cfg MCRuntimeStateManager
    tlapm RuntimeStateManagerProofs.tla

The longest runs, `worktrees`, `supervision` and `events`, take two to three
minutes, the others a minute or less; each proof module takes a few minutes.
