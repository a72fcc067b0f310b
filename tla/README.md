# Warp job processing in TLA+

Formal models of Warp, a .NET library for background jobs, messages and
in-process mediation that keeps all of its state in one relational database
(PostgreSQL or SQL Server), and of its dashboard, a React application.  The models
are translated from the C# sources (`src/core/...`), from the SQL of the PostgreSQL
provider and from the dashboard's TypeScript (`src/ui/...`); TLC checks them on small
instances and TLAPS proves every invariant of the passing runs for every instance.

## 1. The system

### 1.1 Parts, state and interaction

Every process that references Warp may publish jobs; processes that call
`AddWarpWorker` are *servers* and run worker loops, a dispatcher or both, a set of
periodic *server tasks* and user-supplied *background services*.  Processes never
talk to each other directly: they share the tables of the database, and a
notification (LISTEN/NOTIFY, Service Broker) only wakes somebody up earlier than
his timer would.

| Component | State it keeps | Operations | Talks to |
|---|---|---|---|
| Publishing (`Publisher`, `BatchPublisher`) | rows of `Job` | Publish, Schedule, continuation, batch, message | inserts rows; notifies queues |
| Bare workers (`WarpWorker`, `WarpWorkerService`) | the claimed entity (tracked copy), the handler's token, the monitor | claim, execute, monitor, finalize | `Job`, counters; server tasks through the rows |
| Dispatcher mode (`WarpDispatcher`, `WarpDispatcherWorker`, `CompletionBatch`) | bounded channel, buffered completions | claim many, hand out, unclaim at shutdown, flush in batches | `Job`, counters |
| `StaleJobRecovery` | none | take over rows whose keep-alive is older than `InvisibilityTimeout` | `Job` |
| `ScheduledJobActivation` | none | Scheduled to Enqueued when due | `Job` |
| `ExpirationCleanup` | ids selected for deletion | delete expired and surplus rows | `Job`, logs |
| Job commands (`JobCommandService`) | snapshot of a chunk | delete, requeue, their bulk and by-type forms | `Job`, counters, logs |
| `MessageRouter` | none | claim a message, insert one job per handler | `Job` |
| `Orchestrator` | sets read by the pass | finalize parents, activate continuations, fail orphans | `Job` |
| Server registration, `Heartbeat`, `ServerCleanup` | rows of `Server`, `Worker` | register, beat, delete dead servers | leases, workers |
| Background services and leases | lease row, supervisor state, last beat | acquire, renew, lose, take over, restart | heartbeat |
| Server task loop and signals | next run, latched signal | lock, run, rerun at once | every server task |
| Recurring jobs | next execution, concurrency token | publish due, trigger, pause | publishing |
| Counters | counter rows, statistics | aggregate | dashboard |
| Mutex, semaphore | lock session, slot rows | acquire, release | workers |
| Rate limit | buckets | take a token, defer | workers |
| Circuit breaker | breaker row | open, half-open, close | workers |
| Retry, timeout, no-restart | job metadata | decide the outcome of an execution | workers |
| Sagas | saga rows, token | start, advance, complete | mutex, workers |
| Endpoints, mediator, generators | caches only | query, dispatch by type | read-only |
| Dashboard session (`App`, `MainLayout`, stores, extensions) | login gate, hub connection, poller, registrations, statistics | boot, log in and out, load extensions, connect, reconnect, poll | endpoints, hub |
| Dashboard lists (jobs, rate and concurrency limits, recurring jobs, servers) | query cache, tab, page, filter, selection, dialog, row being edited | fetch, poll, select, act in bulk, edit, add, delete | endpoints |
| Dashboard detail pages (job or batch, server, worker, recurring job, saga, service) | what was fetched last, part by part, and errors | fetch, refetch on events, command, navigate | endpoints, hub |
| Trace page | the trace loaded, the arrow under the mouse | lay out, fade | endpoint |

### 1.2 What is hard here

- **Interleavings over rows.** Claim, finalization, recovery, user commands and
  orchestration are separate transactions of different processes on the same row;
  several write *by id alone*, trusting what they read earlier.
- **Stale copies.** A worker keeps a tracked entity for the length of a handler and
  writes the difference to *that copy* at the end.
- **Crashes.** Every in-memory hold (a running job, a channel, a buffer, a lease) is
  lost with its process; a timeout decides that it was.
- **Timeouts against slow but live processes** (keep-alives, leases, heartbeats).
- **Read committed multi-statement passes** that read at one moment and write at
  another.
- **Counters** kept apart from the rows they count.
- **Answers that overtake one another.** The dashboard cancels almost no request: a poll, an
  event's refetch, a command's refetch and the answer to a question asked before the user
  moved on all arrive in any order.
- **Partial failures**: a save that throws after the tracker was changed.

The list of places where these bite is `hazards` in `PROJECT.json`.

### 1.3 What makes each part correct

- *Execution*: a job runs on one worker at a time, only when somebody authorised
  the run, and is never stuck; its row says who runs it; the counters agree with the rows.
- *Recovery*: every claimed row whose worker is gone is taken over, once; a
  NoRestart job is not run again.
- *Retention*: only Completed and Deleted rows are removed.
- *Commands*: each moves a row and its counters together; a bulk call is a sequence of
  single ones; every id given is reported once.
- *Orchestration*: a parent's verdict fits its jobs; a continuation waits for its parent and
  does not wait for ever; a batch moves with its jobs.
- *Dispatcher*: as for bare workers, and nothing is lost in the channel, the buffer or a
  shutdown.
- *Leases*: one holder at a time, a holder that loses the lease hears of it, a dead
  one is replaced.
- *Task loop*: a signal that arrives during a run is not lost; one server runs a task at a time.
- *Recurring jobs*: one job per due time, no due time skipped by a race.
- *Session*: the poller runs exactly when the hub does not push, a slot holds one extension, the first that
  registered for it, the numbers catch up.
- *Lists and details*: what is ticked was shown on the list that is on the screen, what a command was reported to have done is
  shown, rows belong to their header, a page that polls ends on what the server has.
- *Trace*: every arrow joins two boxes that are drawn and follows the layout.
- *Limits*: never more holders than slots, tokens never negative, one probe of a half-open circuit.
- *Sagas*: one message at a time per saga, no update lost.

## 2. Modules

| Module | Models | EXTENDS / INSTANCE |
|---|---|---|
| `JobLifecycle` | rows of plain jobs, worker loops, monitor, recovery, activation, cleanup, DeleteJob, RequeueJob | INSTANCE `JobPromise` |
| `JobPromise` | abstract specification: what the table promises | |
| `JobLifecycle_proofs` | theorems, the refinement of `JobPromise` among them | `JobLifecycle`, `TLAPS` |
| `Orchestration` | messages, batches, continuations, router, Orchestrator, single commands on trees | |
| `Orchestration_proofs` | theorems | `Orchestration`, `TLAPS` |
| `BulkCommands` | BulkDeleteJobs and BulkRequeueJobs against each other, the workers and the orchestrator | |
| `BulkCommands_proofs` | theorems | `BulkCommands`, `TLAPS` |
| `Dispatcher` | dispatcher mode: batch claims, channel, workers, completion buffers, shutdown | |
| `Dispatcher_proofs` | theorems | `Dispatcher`, `TLAPS` |
| `ServiceLease` | a singleton background service: lease, supervisors, host, heartbeat, server cleanup | |
| `ServiceLease_proofs` | theorems | `ServiceLease`, `TLAPS` |
| `DashboardSession` | a tab: login gate, extensions, hub connections, poller, statistics | |
| `DashboardSession_proofs` | theorems | `DashboardSession`, `TLAPS` |
| `QueryCache` | what the pages rely on of React Query, with the application's options | |
| `JobListPage`, `AdminPages` | the pages behind the query cache | `QueryCache` |
| `JobDetailPage`, `ResourcePages`, `ServiceDetail`, `ServiceLog` | the pages that fetch without a cache | |
| `TraceGraph` | graph, layout and fading of the trace page | |
| `QueryPages` | composition of the trace page and the pages behind the cache | `TraceGraph`; INSTANCE `JobListPage`, `AdminPages` |
| `QueryPages_proofs` | theorems about the trace page, the job lists and the other polled pages | `QueryPages`, `TLAPS` |
| `FetchPages` | composition of the pages without a cache | INSTANCE `JobDetailPage`, `ResourcePages`, `ServiceDetail`, `ServiceLog` |
| `FetchPages_proofs` | theorems | `FetchPages`, `TLAPS` |
| other `MC...` | small instances, model values, symmetry | the module of the same name |

### 2.1 JobLifecycle

State.  `state`, `owner`, `keepAlive`, `cancelling`, `expires` are the columns
CurrentState, CurrentWorkerId, LastKeepAlive, CancellationMode and ExpireAt of a row.
A keep-alive is `"none"` (NULL), `"fresh"`, or `"stale"` (older than
`InvisibilityTimeout`), ExpireAt is set or not: the code compares nothing finer.  `pc`, `task`,
`snapshot`, `token`, `monitor`, `outcome`, `threw` and `tracked` are the locals of
`GetAndProcessJob` and of the monitor task beside it.  `condemned` are the ids
`ExpirationCleanup` holds between its two statements.  The rest are accounts:
`stats[j]` is job j's share of the global counters (a counter row is +1 or -1 caused by one
job, so the global counters are the sums of the shares), `asked`, `claims`,
`grants`, `requeues`.

Actions.  One database statement, or one transaction that holds its row locks
throughout, is one step.  `GetAndProcessJob` is `Claim` (the UPDATE with
RETURNING), `Begin` (the save of the Processing log, start of monitor and handler), `HandlerEnds`
(any outcome the pipeline can give by returning or throwing), then `Finalize`,
`SaveFails` (the save throws inside the try block and the catch block starts over on
the same tracker), or `Abandon` (a save throws where nothing catches it).
The monitor is `MonitorRead`, `MonitorUpdate`, `MonitorStop`; it has a place (`monitor`) and a job (`watched`) of
its own, and nothing but the worker's wait for it (`MonitorJoined`, a guard of what comes after the handler) keeps its
last update from landing on a row that has left Processing.  A process death is `Crash` of each of its
workers; a dead worker never returns (a restarted process has new worker ids).

Regimes.  Three constants say what the environment does: `Timely` (a worker's own
steps stay below `InvisibilityTimeout`), `PromptHandlers` (so does a handler whose monitor
has left), `DbFailures` (a save may fail).  `Timely`, `PromptHandlers` and no
`DbFailures` is the regime the documentation assumes; the proofs call it
`Regular`.  The properties of the other regimes are stated separately.

Left out: job log and progress rows, traces, hourly keys of counters and
`stats:requeued`, queue names and their order, pause, polling back-off, HandlerType and metadata other
than CanBeRestarted (the constant set `NoRestart`).

### 2.2 JobPromise

The table as its users see it: a job is absent, waiting, running, finished or
gone; `busy` says what each worker is at; a run is ended only by the worker busy
with it and taken over only when nobody is; totals move with the job.
`JobLifecycle` implements it (`KeepsPromise`) with `phase` the state, `runner` the owner,
`busy` the task and `tally` the counters.

### 2.3 Orchestration

A forest of rows (`Kind`, `Parent`, `Continuation`, `OnAny`) is a constant; `state`
is CurrentState.  A pass of the Orchestrator is one READ COMMITTED transaction, a
step per statement: `SelectReady`, `JudgeReady`, `WriteParents`, `SelectAwaiting`, for each child
`Activate` and, if it is a batch, `ActivateMembers`, `SelectOrphaned`, for each orphaned batch
`FailMembers`, and `FailOrphaned`, which commits.  What the pass wrote and has not committed is
`held`: others see the committed state and wait for the row.  `RequeueJob` takes the lock of
the row (`RequeueLock`) and then that of the parent, the order opposite to the pass's; the
deadlock ends by the failure of one (`RequeueAborted`, `Rollback`).  Workers are reduced to a
claim and an end.  Left out: JobCount (display only), ServerTaskBatchSize, logs, the
cancellation mark on Processing rows, purging.

### 2.4 BulkCommands

A call works in chunks of at most `ChunkSize` ids, and a chunk may end anywhere: the rows of the instance stand for
some of those selected.  It reads the states of a chunk outside any transaction (`Snapshot`), then in one transaction
updates each group of rows on the condition that they are still in the state read
(`Update`), locks parents (`LockParent`) and commits (`Commit`) or fails (`Fail`).  `written` holds what is not
committed.  `seen` are the parents that the call's DbContext tracks since an earlier chunk: the query that locks such a
parent gives back the entity as that chunk left it, so that it is not reopened (`Reopened`).  `Claim` and `End` are
workers, `Settle` is the orchestrator that finishes a waiting batch, in one step here.  Rows are read in the order
of their ids, an id is given once, and a statement takes all its locks at once.  The ByType loops are left out.

### 2.5 Dispatcher

A *group* is one `WarpDispatcher` with its workers, in a process of its own.  `phase`, `claimed` and
`channel` are the dispatcher's loop, the claimed jobs it has not handed over and its bounded
channel; `pc`, `task`, `monitor`, `outcome`, `buffer` are the locals of a `WarpDispatcherWorker` and of its
monitor, and `ranges` the recursion stack of `CompletionBatch.FlushRangeAsync`: the parts of the
drained buffer still to be written.  `dropped` remembers the jobs that a failed statement, a
cancelled one or a dead process has let go of: those, and no others, are left to recovery.

`Claim`, `Deliver`, `Unclaim` and `StopPolling` are the dispatcher's loop (a cancelled token makes `WriteAsync`
throw, and what was not delivered is taken back); `Receive`, `Begin` (or `BeginFails`), `HandlerEnds`, `Complete`
one job of a worker; `StartFlush`, `FlushRange`, `SplitRange`, `FlushThrows` a flush; `StopWorker` the end of the drain.
`MayAge` is real time against `InvisibilityTimeout`: a job nobody holds ages; a held one does
only with `LongHandlers`, and then while it waits in the channel or in a buffer behind a
handler of more than `InvisibilityTimeout`, because only a job whose handler runs has a monitor.
The stopping tokens of a group's dispatcher and workers are one (`WarpDispatcherHost` cancels them one after the
other).  Left out: pause, polling back-off, wake-up signals, log rows, the retry of a deadlocked flush, and
the final flush of a worker whose shutdown timed out (the process is taken to die then).

### 2.6 ServiceLease

`holder` and `expired` are the lease row, `registered` and `stale` the server rows, `status` the
instance rows.  `pc`, `token` and `why` are the locals of a supervisor's loop (the linked token of
`SingletonServiceStrategy`, and how the iteration ended), `stopping` and `deleting` the host's token and its
fire-and-forget deletion, `beat` and `previousHeld` a heartbeat between its statement and
`SwapAndComputeLost`, and the tracker.

One statement or transaction is one step: `TryAcquire` or `HeldElsewhere`, `AcquireThrows` (the commit
arrived, its answer did not), `Subscribe`, `MarkRunning` or `MarkThrows`, `InvokeEnds` (user code
returns, throws or obeys its token, whenever it likes), `Release`, `Record`, `Quit`; `StopHost`,
`DeleteLeaseRow` and `DeleteInstanceRow` (the host's deletion, two statements), `Unregister`, `Crash`; `Beat` (the CTE: server row and unexpired leases in one
statement) and `SwapAndComputeLost`; `CleanUpServers`.  Time is seen as the code sees it: a lease has
expired or has not, a beat is too old or is not.  It passes freely for dead servers; each time it outruns a
live one is counted in `late`.  A restarted process registers under a new id and is another server.

### 2.7 The dashboard

A page's view of the server is a *version*: `history` is the sequence of states the server went
through, a request is answered with the newest version when the server answers and delivered when the network
delivers it.  A page then holds version numbers, and "stale" is an inequality.  `MaxVersions` bounds
what others change, `MaxCommands` what the user sends, `MaxMoves` where the user goes, `MaxFaults` how many requests fail.

- `DashboardSession`: `Probe` and `Login` open the gate of `App.tsx`; `onUnauthorized` closes it, also by a late
  401 of an earlier session.  Behind it the layout mounts (`LayoutMounts`: the feed subscribes and connects)
  and unmounts.  `connectIfEnabled` builds connection `c` and `Started`, `Drop`, `Retried` drive it;
  all write one `status`, whatever became of the others.  `applyMode` starts or stops the poller.  `Ask` and `fetchStats` are
  the two ends of a poll.  `Loaded`, `Manifests`, `Install` and `Mounts` are a run of
  `loadExtensions` (a step per script), its registrations and the observer of the DOM; what is compared on mounting is the
  slot, a mode and a selector, and not the extension (`regKey`).
- `QueryCache`: an entry holds the version shown, the version of the fetch under way, and whether it is
  invalid, old or failed.  The library is external; its rules are those the options of
  `lib/queryClient.ts` choose (fresh for 5 s, one fetch at a time per entry, invalidation refetches what is in use).
- `JobListPage`: tabs, pages, sizes, type filter, ticked rows, dialogs; a command per row, per
  selection or per type, which the server carries out (`Serve`) and whose answer comes later (`Succeeds`).  A change of
  state empties the selection and leaves the dialog and its ids (`pending`) as they are.
- `AdminPages`: rate limits, concurrency limits, recurring jobs, servers: edit in place, add modal,
  confirmation, while other operators change the same rows.  `Served` is what the endpoints and the managers of the two
  kinds of limits make of a command.
- `JobDetailPage`: the row, its counts and `FilteredJobsTable` fetch separately, on mount, on events and every
  30 s; a command is carried out (`Serve`) and answered (`Succeeds`) in two steps, and refetches on the answer; `ResourcePages`: server, worker, recurring job and saga; `ServiceDetail`: a service and
  its lease, polled every 2 s; `ServiceLog`: its log tail by cursor.
- `TraceGraph`: `buildGraph` as operators on a trace (jobs, kinds, parents, spawners); the layout library is
  external and answers with any placement that puts the end of an edge it was given to the right of its
  start.

## 3. Runs

Passing runs:

| Run | Question | Bounds |
|---|---|---|
| `job_regular` | exclusivity, counters, retention, clean idle rows and refinement of `JobPromise` in the intended regime | 1 job, 2 mortal workers, 3 claims, 2 requeues |
| `job_adverse` | what holds with slow workers, handlers that ignore their token and failing saves: recoverability, authorised executions; no job stuck Processing or queued | 1 NoRestart job, a mortal and an immortal worker, 2 claims, 1 requeue |
| `orch_batch` | verdicts, waiting, batches moving as one, without user commands | a batch of two jobs with a plain and a batch continuation, a message |
| `orch_user` | no continuation forgotten, no orphan left, no parent running for ever, under any command and whoever loses a deadlock | a plain job with a plain and a batch continuation, 2 commands |
| `bulk_race` | counters exact, every id reported once, each commit does what single commands would | 2 callers, a batch with 2 jobs in every initial state, in one chunk or two, a worker, the orchestrator |
| `disp_regular` | a job is in one place; nothing lost in channel, buffer or shutdown; counters exact; every shutdown and claim ends | 1 server, 2 workers, 2 jobs, buffers of 2, 2 claims, a shutdown, a crash, failing statements |
| `service_lease` | never two that run; a loss once renewed is heard; somebody always runs it again | 2 servers, one of them unsteady (crash, shutdown, outrun by time once), 1 failed statement |
| `session` | poller against hub, one mount per slot and the right one, statistics catch up | 2 extensions that ask for one slot, 2 connections, 2 runs of the loader, 2 polls at a time, 1 change, 1 fault, 1 expiry |
| `query_pages` | the pages behind the cache, and the trace page | 2 jobs of 2 types, 2 tabs, 2 page sizes, 1 or 2 rows of the other pages, 2 versions, 1 command, 2 moves, 1 fault; every trace of 4 jobs |
| `fetch_pages` | the pages without a cache | a batch of 2 jobs, an empty batch, 2 requests at a time, 2 servers of a service, 2 log entries, 2 versions, 1 command, 1 or 2 moves, 1 fault |

Why these bounds are enough for the interesting cases: two workers are needed for a
take-over and two suffice for it, as a row has one owner column; the third claim gives retry, recovery and
requeue in one life; a second requeue lets a mark that survived the
first one act.  Two jobs in a batch give "one failed, one not", "one ended,
one running"; one continuation of each kind takes each branch of the
activation, and a batch activated while one of its jobs is requeued gives the deadlock of the two lock orders.
Two callers and two ids give both lock orders;
with chunks of one or two ids a call has a second chunk, which is what the first can leave something stale to.  Two jobs for two dispatcher workers
give a claim of two that is handed over in part, two jobs in one buffer and one in each, and a split down to single entries.
For the lease, one server must stay (or nobody runs anything) and one must be able to fail in every way; with
two, every take-over is between them; one late moment shows what `OneRuns` excludes and one failed
statement strikes any of the writes.  For the pages, two versions are "before" and "after", and two requests
at a time give every overtaking; a second connection, a second loader run, a second extension in a slot and a second tab
or page are the first that can collide.  Ticks are not counted as moves.  Four jobs make every shape of a trace that `buildGraph` tells
apart: a batch, two members, a continuation or a spawner.
The counters of claims, requeues, commands and worker runs are the only bounds
on behaviours (`MaxClaims`, `MaxRequeues`, `MaxCommands`, `MaxRuns`); everything else is finite by itself.

`CHECK_DEADLOCK FALSE` stands where a system may really stop: every job is
purged or its bound is used up and every worker idle or dead, every call has returned, every host is shut down.

Violation runs check one statement of a document or comment each and are
explained under `findings`:

| Run | What happens |
|---|---|
| `job_purged_after_requeue` | cleanup deletes a job requeued after its select |
| `lease_unheard` | a live server whose row the cleanup removed is never told that its lease went with it, and executes the service beside the next holder |

Configurations kept for a reader, which show a divergence of the same kind and are run by hand
(`tlc -config X.cfg M`); each ends in a counterexample:

| Configuration | Module | What it shows |
|---|---|---|
| `JobTakenOver.cfg` | `MCJobLifecycle` | a worker slower than `InvisibilityTimeout` is taken over while it executes, and two workers run one job |
| `JobStaleCancel.cfg` | `MCJobLifecycle` | a late cancellation request survives and cancels the next execution |
| `OrchReopened.cfg` | `MCOrchestration` | a batch is finalized with a job requeued after the pass read it |
| `OrchPremature.cfg` | `MCOrchestration` | a batch's plain continuation starts with the batch |
| `OrchTorn.cfg` | `MCOrchestration` | a batch orphaned by a deleted job takes the batch that waits for it along as if it were one of its jobs: that batch fails and its own jobs wait on |
| `BulkStaleParent.cfg` | `MCBulkCommands` | a batch settled between two chunks of a requeue stays finished though the second chunk requeues another of its jobs |
| `BulkLog.cfg` | `MCBulkCommands` | the loser of a race logs a deletion |
| `DispLongHandler.cfg` | `MCDispatcher` | a completion buffered behind a long handler is not flushed; its job is requeued and runs again |
| `SessionLive.cfg` | `MCDashboardSession` | statistics stay stale after the hub connects, until the next change |
| `ServiceLogOrder.cfg` | `MCServiceLog` | answers that cross leave the log tail out of order, with an entry twice or with one the filter excludes |

The type invariant of `JobLifecycle` is checked by `job_adverse`; it and those of `ServiceLease`, `Dispatcher`,
`BulkCommands`, `Orchestration` and `DashboardSession` are proved.

Behaviours of the models that no run lists, because they contradict no document or follow from one of the
regimes a user can leave:

- a handler that ignores its token for longer than `InvisibilityTimeout` runs on while recovery has
  set its row to Deleted (`MayAge` with `PromptHandlers` FALSE);
- after a failed save of a Completed attempt the row is Failed and keeps the ExpireAt the first
  finalization put on the tracked entity (`SaveFails`, then `Finalize`), so that cleanup removes a Failed job;
- a worker slower than `InvisibilityTimeout` and its successor both finalize and both count
  (`StatsAgree` needs `Timely`);
- a failed save of the Processing log leaves a claimed job to recovery without an execution (`Abandon`);
- a batch with a job that was deleted, and not finished otherwise, is never finalized;
- requeueing a continuation puts a plain, finished parent into Processing although no worker has it;
- failing an orphan is not counted in `stats:failed`, and its requeue counts one down;
- two bulk calls that were given ids in opposite order may lock groups in opposite order; the
  database fails one of them;
- a failed write of the Running status keeps the lease over the back-off and not only until it (`MarkThrows`;
  the documents release first), and the heartbeat goes on renewing it though nobody runs under it;
- a live server that `ServerCleanup` removed cannot acquire again (the foreign key) and shows no instance row,
  until its process is restarted.

On the dashboard, where most are a matter of taste and none is stated otherwise by a document unless said so:

- *Session*: of two extensions that append to one slot the second is never mounted, and nothing says so, although
  `runtime.ts:91` speaks of "already mounted on this element for this registration"; a second login registers every extension page again and leaves an observer behind; a late 401 throws
  a user out who has just logged in; the comment at `realtime.ts:81` ("reuse the existing bridge bindings") does not
  hold while the first connection is reconnecting; an older poll overwrites a newer push.
- *Job lists*: the dialog outlives a change of the state and sends the ids of the state that was left; an unknown `/jobs/...` loads for ever; the header's checkbox
  replaces the selection made on other pages, and a bulk success clears what was ticked meanwhile; the first
  fetch of a list is not cancelled by an invalidation (`outrun`) and may leave it old; "This cannot be
  undone." though Delete leaves a row that can be requeued.
- *Limits and recurring jobs*: the success of a save closes whichever row is edited by then; errors appear on the wrong
  row; saving one field sends the other one back as it was read; the check for an existing name reads
  an old list; a failed background poll unmounts the modal; the recurring list neither polls nor hears of events,
  although `useRealtimeInvalidation.ts:11` says "every mounted page picks up fresh data".
- *Details*: the dialog stays when another job is shown under it; a first answer of the counts overrides the user's
  choice of a state; a late list answers under another tab or page number; a batch's counts may stay beside a row that is
  not a batch any more (`DetailPage.tsx:185`); overlapping fetches may leave a server or recurring
  page on the older row for good; failed commands go unhandled.
- *Services*: `IBackgroundServiceQueryService.cs:35` says `Id < fromId`, the code returns `Id > fromId`; a burst of
  more rows than the limit loses its middle; tabs are remembered by place and not by id.
- *Trace*: a batch's continuation cannot be told from its member; the continuation of a member creates a box without
  size in the layout (`TracePage.tsx:216`).

Hazards without a property in `PROJECT.json` say there why: in most the code does go wrong and one of the configurations above
shows it; the others are a trace the layout library is given no size for, and pages that do not poll.

Places that are exposed to a failure and have no property, because the models leave out what is at stake there: the monitor
that stops refreshing when it cancels a handler that runs on (`WarpWorkerService.cs:489`) and the failures between save and
commit (`:257`, `:305`); parents reopened for nobody and by-type loops that never end (`JobCommandService.cs:148`, `:628`); the
order in which bulk calls lock rows (`:231`); rows that the pass finishes without a counter (`Orchestrator.cs:183`); messages
routed twice after a requeue (`PostgresWarpSqlQueries.cs:67`); a stop that returns while a handler runs
(`WarpDispatcherWorker.cs:118`); a second `start` of the connection (`realtime.ts:88`); a loader that never
answers and leaves the screen blank (`loader.ts:20`); an interval and a bus that keep an old callback
(`useRealtimeRefetch.ts:17`).

## 4. Fairness

`JobLifecycle`: weak fairness of each worker's steps, of activation, of recovery,
of the second statement of cleanup, and of ageing: the loops of `WarpWorker` and
`ServerTaskLoop` run on timers until their process dies, and time passes.  Handlers are
assumed to return.  Saves may fail for ever: recovery is what saves the job.
Users owe nothing, and a dead worker owes nothing.

`Orchestration`: weak fairness of claims, routing and the pass's next statement; strong
fairness of an end other than a retry, since `RetryPipelineBehavior` counts attempts; and from
some point on no pass fails (a database that rolls back every pass for ever finalizes nothing).

`Dispatcher`: weak fairness of the dispatcher's and workers' loops, of flushes (which may fail), ageing and
recovery.  The monitor's periodic read is not owed, only the end of what it has begun and of the monitor itself, for which the worker waits.  A claim is
never owed: an idle dispatcher may be paused.

`ServiceLease`: weak fairness of each supervisor's own steps and of each heartbeat, which run on timers while their process
lives; of `Unregister`, since a shutdown has a timeout; of cleanup; and of time for the dead.  User code owes
nothing: it may run for ever, ignore its token or fail at once.

The dashboard: timers fire and requests are answered (`Poll`, `refresh`, the answers), a connection
attempt ends, a script loads or fails.  Users, other operators, jobs and the hub's drops owe nothing.

## 5. Proofs

TLAPS checks every leaf, for arbitrary sets of jobs, workers, rows or traces and all values of the
bounds.  Every invariant of every passing run is a theorem, and so are the two action properties
(`KeepsPromise`, `CommitIsManyCommands`).  Assumptions on constants are the named `ASSUME`s of the modules: rows
that are no null, finite sets where something is counted or awaited, bounds that are numbers.  Two of them say
what the code enforces: a batch has a job, as `BatchPublisher` refuses an empty list (`BatchAssumption`), and a type's name is not
a state's, as the lists of a type have keys of their own (`PagesAssumption`).  Theorems that need more than that
state it as a hypothesis.

- `JobLifecycle_proofs`, in every regime: `TypeCorrect`; `Recoverable`, inductive as it stands given the types;
  `OnlyAuthorisedExecutions`, by the invariant that claims plus the one a queued row still has coming do not
  exceed the grants.
  In the regime `Regular`: `Exclusive`, `CountersAgree`, `OnlyRetainedExpire`,
  `IdleClean`.  Exclusivity is not inductive: a step of worker w on row j is
  harmless only because the row's keep-alive is fresh while w holds it (so recovery keeps off), because no two
  workers hold one row, and because a monitor that is still updating belongs to a worker that
  still holds.  `RegularInv` adds these as `WorkerInOrder`, `HeldInOrder` and `RowInOrder`.
  From it follows `Refinement`: each action maps to a step of `JobPromise` or a stutter.
- `Orchestration_proofs`, without user commands (`MaxCommands = 0`) and in a forest as `Separate` has it:
  `ContinuationsRunAfter`, `VerdictsAreRight`, `BatchesMoveAsOne`.  A pass reads in one statement and
  writes in another, so the properties are not inductive: `Rows` says of the committed rows that parents and their
  jobs fit, and `Pass` of every row that the pass has selected, judged or written that no other process moves it
  before the commit; between the two updates of an activation, `Opening` tells the batch whose jobs are still to follow.  Each step of workers, router and publishers keeps both (`Kept`), and the commit carries them from what the
  pass sees to the rows.  With commands the pass's reading can be overtaken (`OrchReopened.cfg`); `Separate` leaves
  out the forests in which the code goes wrong without any (`OrchPremature.cfg`, `OrchTorn.cfg`): what waits for a waiting
  batch is a batch, and that waiting batch waits for no plain job.
- `BulkCommands_proofs`, for any table, callers and chunk size: `CallsAreSound`, `CountersAgree`, `EveryIdIsReported`,
  `BulkIsManyCommands` (which leaves out parents an earlier chunk of the call has locked, for
  which `BulkStaleParent.cfg` shows it false).  The snapshot of a chunk is stale when it is used.  A row that the conditional update hits is still as
  it was read, and its lock keeps it so until the commit (`Writes`); from there what is counted
  (`Counted`) and reported (`Reported`) follows.  `CommitIsManyCommands` speaks of jobs: a batch row moves only as the parent of
  one that is requeued.
- `Dispatcher_proofs`, in every regime: `NothingIsEverLost`.  With handlers shorter than `InvisibilityTimeout`
  (`~LongHandlers`; `DispLongHandler.cfg` shows why): `JobsAreHeldOnce`, `CountersAgree`.  `OnceInv` has the places of a
  job (claim, channel, hand, buffer, part of a flush) as sets: it stands once in a sequence (`Single`), in one place only
  (`Apart`), and its row is alive and names that place (`Owned`), so that no claim takes it again.  Buffers that are drained, cut in
  halves and written part by part need the lemmas on sequences that precede it.
- `ServiceLease_proofs`, for any servers, all of them unsteady if need be: `TypeCorrect`, `OneRunsAlways`,
  `RunningIsShownAlways`.  That two servers do not run at once is not
  inductive: it holds because whoever runs holds the lease, the lease cannot expire nor its holder's row be
  removed while beats are fresh, and a release deletes only one's own lease.  `LeaseInvariant` says
  so: `late = 0 => Sound`, where `Sound` gives every live server that is not being shut down a fresh beat,
  its rows, the unexpired lease from acquisition to release, and the status Running while it executes.
- `DashboardSession_proofs`, for any extensions, connections and answers under way: `FeedFitsHub`, `ExtensionsMountOnce`.
  They need each other's types, that nothing is mounted before the observer is there (`NothingBefore`) and that every
  slot registered for has a first extension that registered for it (`FirstIsThere`), whom a later registration never displaces.
- `QueryPages_proofs`.  The trace page, for every set of finite traces: `ArrowsJoinBoxes`, `ArrowsFollowLayout`, `PicturesAreWhole`: a group is no
  member of another, every box an arrow ends at is drawn, the arrows drawn are among the
  edges the library was given, boxes of a group standing where their group stands, and the room reserved for a group is what
  its children take.  `TracePageIsItself` carries them over to the composition.
  The job lists: `ListsSettleFresh`, `SelectionsWereShown`.  Entries of the cache are compared with versions: an entry is
  `Good` for a version if neither its fetch under way nor its valid data is older, an invalidation makes every entry good for what the
  server has by then, and only a first fetch that it leaves alone (`outrun`) is not.  `JobsInv` has this for all keys and the last
  command reported done.  The limit and server pages: `TablesAcknowledge`, by the same lemmas on one entry (`Polling`).
- `FetchPages_proofs`, for any number of requests under way: `RowsStayOwn`, since answers that may still write to the
  table were asked by it (`OwnRequests`; the `key` on the table is what makes it so);
  `ResourcesAcknowledge`, since a page at rest behind its last command has a fetch coming that was sent after it (`Looks`);
  `TailsStaySorted`, since an uncrossed answer holds only what is above the cursor, and the cursor is the highest of the tail
  (`LogInv`).  That an answer is in order at all rests on `Places`: counting the elements from the top gives each a place of its own.

`MaxCommands`, `MaxVersions`, `MaxFlight` and the like are bounds that TLC needs; no proof depends on their being small.

Only model-checked: liveness (`ProcessingEnds` and `QueuedIsTaken`, `AwaitingEnds` and `ParentEnds`, `ShutdownEnds`, `ConfirmedLossIsHeard`,
`ServiceKeepsRunning`, `StatsCatchUp`, `PageCatchesUp`, `PagesCatchUp`), as the prover has neither fairness nor ENABLED; the cap
on polls under way of `DashboardSession` (`MaxPolls`), which is a sum over a function and needs induction over data; and that the
recurring list (which does not poll) shows what it acknowledged, of which no property is stated.

## 6. Not modelled, and what could come next

See `components` in `PROJECT.json` for every part and its status.

- *Server task loop, signals and notifications*: every task may run at any time in the models, which
  is more than locks, intervals and signals allow; nothing but latency depends on a wake-up.
- *Recurring jobs, counter aggregation, mutex and semaphore, rate limit, circuit breaker, sagas, the arithmetic of
  retries*: their effect on a job is one of the outcomes of `HandlerEnds`; their own
  stores and optimistic tokens are not modelled.  They come next, in this order: `Recurring`, `Limits`, `Saga`.
- *Of modelled parts*: retention of trees and count-based cleanup; save and commit as two steps of a finalization;
  `PerServer` services and scope mismatches.
- *Proofs to come*: `Dispatcher` as a second implementation of `JobPromise`; the structure of `Orchestration` that commands
  do not disturb (a batch and its jobs, the two lock orders); type correctness of the pages.

Outside the models for good: wording, layout and styling of the dashboard and its demo data, the website, read-only
queries beyond what a page sees of them, compile-time generators and in-process mediator dispatch (no state
outlives a call).
