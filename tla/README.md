# Formal model of RepoAtlas

RepoAtlas is a local desktop application (Tauri) with a Rust core and a SQLite
database; an MCP server, `repoatlas-mcp`, is a second process on the same
database.  This directory models the parts of it where several threads, two
processes, a database and operating-system processes meet, checks them with TLC
on small instances and proves the most important properties with TLAPS for all
instances.

    tlc -workers 2 -config MCTaskExecution.cfg MCTaskExecution    # one run
    tlapm BrokerProofs.tla                                        # one module of proofs

`PROJECT.json` lists the components, the runs, the source lines behind every
definition, the mutants, the findings, the hazards and the theorems.

## 1. Inventory

Paths are below `crates/repoatlas-core/src/` unless they begin with
`src-tauri/`, `crates/` or `src/`.

### Task execution

| part | state | operations | works with |
| --- | --- | --- | --- |
| task broker, `broker.rs` | `BrokerInner`: the live runs with their child, terminal and job object; accepted stop requests; the limit | `start`, `stop`, `reap`, `wait_for_exit` (a thread per run), `request_normal_stop`, `take_stop_request` | writes the run's row; calls back `on_exit` |
| records, `core.rs`, `core/approvals.rs` | `task_runs`, `pending_approvals`, `projects.tasks_json` | request, resolve and mark approvals; finish runs; change tasks; remove projects; recover | both processes, one transaction each |
| adapter, `src-tauri/src/lib.rs` | the mutex around `Core` | `start_task`, `resolve_pending_approval`, `stop_task`, the exit handler | calls the broker and the records in sequence and repairs what fails half-way |
| task output, `broker.rs` | the terminal, the log's budget, the drain | the pump, the waiter, writers, `stop` | reports the exit to the adapter |
| run logs, `broker.rs`, `core.rs` | the log files, `managed_file_cleanup` | creation, removal with the project, retried clean-up | both processes |
| run monitor, `src-tauri/src/lib.rs` | the sampler's configurations, the cached preflight | preflight of ports, sampler, snapshots of a window | broker and records under separate locks |

Hard here: the mutex of the broker is given up between the check of the limit
and the registration of the run; a stop and a watcher race for the same child;
the exit handler may run before the start has been audited or after the run was
cancelled; every write may fail after its process was spawned; an MCP client,
which knows nothing of the broker, changes tasks and removes projects between
any two statements; a descendant keeps the terminal open; the desktop may end
anywhere and recovers when it is opened again.

It is correct when processes stay within the limit and alone in their slot,
every process has an owner and a row, every row and approval in progress has
somebody who will conclude it, a result is final, consent starts one run of
exactly what was shown, every exit is reported, a removed run leaves no log,
and nothing waits for ever.

### Sessions, Git and history

| part | state | hard behaviour | what makes it correct |
| --- | --- | --- | --- |
| session index, `core/sessions.rs` | sources, sessions and checkpoints in one database, documents in another | two databases without a common transaction; revocation while a worker indexes | a published revision has its documents; a revoked source keeps nothing |
| session refresh, `src-tauri/src/sessions.rs` | one job, `CANCEL`, `FORCE_AGAIN` | requests during a run, cancellation, a rebuild in its place | a forced request is served, nothing is skipped for good |
| Git operations, `src-tauri/src/lib.rs`, `core.rs`, `git.rs` | a lock per repository, forgotten when unused; a cached snapshot per project | operations on one repository, a project that moves, snapshots that arrive late | one operation at a time, in the place the record names; what it did stays visible |
| Git history refresh, `core/activity.rs` | one job, coverage per range | two workers, cancellation, moved projects, partial failures | coverage is only claimed for what was stored |
| activity history, `core/activity.rs`, `db.rs`, `src/components/footprints/useFootprints.ts` | counts per bucket, kept by triggers; a paged list in the window | pages behind a cursor while others write; buckets before 1970; late answers | a summary counts the records; who reads on misses nothing |

### The library and the other services

| part | state | hard behaviour | what makes it correct |
| --- | --- | --- | --- |
| projects, modules and scans, `core.rs`, `core/modules.rs`, `scan.rs` | roots, projects, modules, groups, the search index | a scan of many transactions among promotions, relocations and removals | projects can be found under what they are; user entries survive; origins follow the roots |
| collections, import and export, `core.rs`, `import_export.rs` | collections, an export file | an import that merges with what is there | what was exported comes back, and only that changes |
| path index, `project_files.rs`, `src-tauri/src/lib.rs` | one index job per project, one search | calls that overlap across an `await`; superseded jobs | a walk that goes on is wanted, or can be cancelled |
| port processes, `port_processes.rs` | associations, pending confirmations | process ids that are used again | what is stopped is what was shown, once |
| subscriptions, `core/usage.rs`, `src-tauri/src/usage.rs`, `subscriptions.rs` | a generation and a snapshot per provider, a flight per provider | an answer that arrives after the account was disconnected | a quota belongs to the connection it was read for |
| attention items, `core.rs` | acknowledgements by version | an item that changes, goes and returns | only what was seen is hidden |
| environment inspection, `environment.rs` | a cached version per runtime | overlapping probes with a deadline; runtimes that change | a verdict is about a version that was there |
| quick-search window, `src-tauri/src/quick_search.rs`, `src/lib/quick-search.ts` | generations, windows, mailboxes | workers in any order, a window built lazily, shutdown | the windows are as the last request left them |
| MCP adapter, `crates/repoatlas-mcp/src/` | one session: requests, queue, answers, flags | two ends that disconnect, calls in flight, audits that fail | what is answered is what happened; the session ends |

### Without a model

Session adapters and the providers of subscriptions (formats and network I/O),
token usage and pricing, detection (pure functions), launching of external
programs, the database schema apart from its triggers, data types, demo data,
most of the user interface, release scripts and website.

## 2. Order of the work

1. `Broker`, then `TaskRecords`, then `TaskExecution`, which composes them.
   Abstract specification: `RunLifecycle`.  Proofs of their safety properties.
2. `SessionIndex` and `SessionRefresh`, which composes it: two databases and a
   job.  Proofs of their safety properties.
3. `Checkouts`, which is shared, and on it `GitOperation` and `HistoryRefresh`,
   each with proofs: results computed outside a lock and published under it.
   `Footprints`, the view of the history, with its proofs beside those of the
   refresh.
4. The parts that share no state with these: `Library`, `PathIndex`,
   `PortProcesses`, `Subscriptions`, `QuickSearch`, `RunMonitor`, `Attention`,
   `Transfer`, `RunLogs`, `McpSession`, `TaskOutput`, `Environment`.  Proofs for
   eight of them in `DesktopProofs`, for `McpSession` in `ServicesProofs`, for
   `Library` in `LibraryProofs`.

What could follow: that operations on the library keep what a user entered
(`UserEntriesSurvive`) as a theorem, launch preferences and lineage, and the
manifests that an environment inspection reads.

## 3. Modules

| module | models | EXTENDS |
| --- | --- | --- |
| `TaskIds` | the run ids that broker and records share | |
| `Broker` | `broker.rs` | `TaskIds` |
| `TaskRecords` | the tables of task execution | `TaskIds` |
| `TaskExecution` | the desktop's commands and exit handlers, crash and recovery | `Broker`, `TaskRecords` |
| `RunLifecycle` | what users are promised about Task Runs | |
| `BrokerProofs`, `TaskExecutionProofs`, `TaskPromiseProofs` | proofs | each the previous |
| `TaskOutput`, `RunLogs`, `RunMonitor` | the terminal, the log files, the sampler | |
| `SessionIndex` | the tables and the documents of the session index | |
| `SessionRefresh` | the refresh job and the commands around it | `SessionIndex` |
| `SessionProofs` | proofs | `SessionRefresh` |
| `Checkouts` | the projects' locations and the repositories there | |
| `GitOperation` | `git_execute` | `Checkouts` |
| `HistoryRefresh` | the refresh of the history | `Checkouts` |
| `Footprints` | counts, summaries and pages of the history | |
| `HistoryProofs` | proofs | `HistoryRefresh`, `Footprints` |
| `Library`, `Transfer` | projects, modules, scans; collections, import, export | |
| `LibraryProofs` | proofs | `Library` |
| `PathIndex`, `PortProcesses`, `Subscriptions` | the services of these names | |
| `Attention`, `Environment`, `QuickSearch`, `McpSession` | the services of these names | |
| `DesktopProofs` | proofs | `RunLogs`, `Subscriptions`, `PathIndex`, `PortProcesses`, `Attention`, `QuickSearch`, `Environment`, `Transfer` |
| `ServicesProofs` | proofs | `McpSession`, `GitOperation` |
| `MCTaskExecution`, `MCSession` | instances for TLC | `TaskExecution`; `SessionRefresh` |
| `MCHistoryRefresh`, `MCServices`, `MCApplication` | carriers: instances of several machines | see section 4 |

**Broker.**  `live` is `BrokerInner.runs`, `stopRequests` its set of accepted
requests, `process` the operating-system processes with the exit status that is
still to be collected, `watcher` and `seen` the thread of `wait_for_exit` and
the code it passes to `on_exit`.  `start` and `stop` borrow the desktop's only
connection, which is inside `Mutex<Core>`, so one of them runs at a time: `call`
is that call and the place it has reached.  Its places are the points where the
broker's own mutex is free, so watchers, exits and the port manager interleave
exactly where they can.  A refused start changes nothing and is no action here.

**TaskRecords.**  One action per statement or transaction.  `approval[a].old`
is the 15-minute age, which comes at any time; `definition` is a task's saved
command, `Absent` when there is none.  Approvals without a task (possible in the
schema, never requested by the code) are left out, and so is the run status
`starting`, which recovery and `finish_run` look for and nothing writes.
`CatalogStep` is what an MCP client may do at any moment.

**TaskExecution.**  The thread that starts a run is named after it; its places
are the points where the Core mutex is free, plus the clean-up phases that hold
it (`undoing`, `retracting`, `condemned`).  `CoreFree` is the mutex: a broker
call holds it from its first step to the statement after it.  `RefuseStart`
stands for the port preflight and the other early refusals.  `TryFinish` and the
second disjuncts guarded by `WritesMayFail` are SQLite errors after the retries
of `retry_core_write`; a row or approval that such an error leaves behind is
remembered in `finishLost` and `markLost`, so that the invariants can say that
there is no other reason for one.  `HandleExit` is the whole handler, which
holds the mutex throughout.  `Crash` ends the threads, the broker's memory and
the children (they hang on the job object or the terminal of the desktop); what
a child started outside of these is not modelled.  `Reopen`, `Recovery` follow
`Core::open`: approvals first, then runs, one row at a time, and a crash may
interrupt them.

**TaskOutput.**  A chunk of output is counted, never spelled out.  The pump
(`pumpAt`) takes what is in the `terminal`, gives the log what its budget
admits (`logged`), and ends when nothing holds the terminal; the waiter
(`waiterAt`) reports the exit when the drain is done or two seconds have passed,
which may be at any time; `stopCall` is one call of `stop`.

**RunLogs.**  A start makes the file, then the row, then the process whose pump
opens the file again and would create it.  A removal queues the files in the
transaction that deletes the rows; each program then reads the queue once and
deletes file by file (`cleaner`), and may find one in use.

**RunMonitor.**  All runs are of one task, whose expected ports are edited.
`portCheck` is the cached preflight, `runtimeConfigs` the sampler's map,
`observer` the sampler and a window between reading and storing.

**SessionIndex.**  `row` is `agent_sessions`, `checkpoint` is
`agent_session_files`, `enabled` the authorisation; `docs` is the second
database.  A session's revision is a fresh UUID, here a number; 0 is the empty
revision that readers do not see.  `ingest` is
`ingest_session_cancelable`: its batches of documents are one write transaction
(`writing`), whose commit (`IngestCommit`) and the publication in the main
database (`IngestPublish`) are two steps, as are the three statements of a
rebuild and the two halves of a revocation.  A file's contents are its version;
`Holds` says which sessions a version has.

**SessionRefresh.** `running`, `cancel` and `forceAgain` are `JOB.running`,
`CANCEL` and `FORCE_AGAIN`; `worker` is the job with its local variables, one
action per step between two looks at the flags, the files or the database.
`asked` is the user's view of a forced request, which only a pass or a
cancellation ends.  A source may be authorised again at any time, also while a
job works on its files.  Two history variables name what commands and failures
spoil: `lost`, the revisions whose documents a command deleted before readers
stopped, or began, to see them; `doubtful`, the files whose checkpoint may be
untrue because the source was revoked under the job or because the job ended
between two statements, until the file is read again or the index rebuilt.  The
commands take the Core mutex (`CoreFree`); the job does not need it, since it
has a connection of its own.

**Checkouts.**  `path` is `projects.canonical_path`, `version` a repository's
state, which only grows.  Several paths may lie in one repository.

**GitOperation.**  `op` holds the local variables of `execute_git_operation`
and where it is: before, waiting for, or inside the lock of its repository.
`locks` is `git_write_locks`; the locks are weak references, so a lock is alive
while an operation uses it (`Users`), and it is named after the operation that
created it.  The check in `finish_git_operation` and the UPDATE after it are two
statements without a transaction, so they are two actions (`FinishOperation`,
`PublishSnapshot`) that hold the Core mutex, which the MCP server's moves and
removals do not need; `moved` remembers the projects moved in between.

**HistoryRefresh.**  `job` is the manager's slot: the status, the request, the
targets and the cancellation flag; `worker` the two scoped threads.  `commits`
and `coverage` are the tables.  The clock only decides which projects are left
out and which covering row was checked last, so any subset and any covering row
is possible.  Git's answer to a batch is a function of HEAD and range (`LogOf`);
reading a batch, the look at the flag before it and the check of the project's
location after it are one action, since nothing else sees them; the INSERT that
follows is another.

**Footprints.**  `counts` is the bag of rows that the triggers keep, `BucketOf`
SQL's division, `Division` the split of a day into buckets and edges, level by
level.  The sum of the counts of some rows is the number of places `1..n` that
the rows have together (`Total`).  `query`, `lists` and `calls` are the window's
hook: a call reads one page behind the cursor and its answer arrives later, when
the query may be another.  `ORDER BY ... LIMIT n` takes the rows that have fewer
than `n` before them (`Latest`); as in the SQL it is applied to each table and
then to what they give.  A page is a set, since its order is that of the rows,
and a list is the sequence of its pages.

**Library.**  A value of the operators is the part of the database that the
operations of a transaction hand on (`Upsert`, `Observe`, `Ingest`,
`PromoteModule`, ...), since the code nests them the same way: an ingestion of a
directory may add a project, attach its modules and move tasks.  Where the code
recurses, into the modules of a module or the directories of a walk, the model
folds over them (`Discovered`, `Promoted`), at most as often as there are
directories.  A scan is a job of one transaction per directory, project or
module (`scan`); commands of users and agents come in between.  `todo` holds the
directories that are left, the outer ones before those in them.  `Detected` is
what detection finds.  New rows get an id of their own (`Fresh`), and a commit
asks that one was left.  A directory that is still listed as a module of a
project which has moved away is not registered, as in the code, where the
prefix of its parent cannot be stripped and the transaction is rolled back.

**Transfer.**  Besides the display name, which is kept beside the one that
detection found (`name`, `found`), three fields stand for what an import
replaces, replaces only by something, and leaves to detection; the export is
three reads, the import one transaction.  An import that registers a project
stores the name in the file as the detected one too, so that a later detection
replaces it, as it replaces every name that is the detected one.  The target may
be another machine, where the library is empty.

**PathIndex.**  A job is named by its generation; `fileIndexes` is the map,
`indexCall` the calls that wait for the project's root with the map unlocked;
a job's `batch` is what each thread of its walk has reserved and not yet flushed.
`filesOpen` is what the view wants: a project since it asked for an index and
until it cancels; `late` marks a job that was inserted when the view had already
canceled.

**PortProcesses.**  An instance is a pid with its creation time; `pendingStop`
is the table of confirmations with its limit, `confirming` the one being
carried out.  An open handle keeps a pid from being given again, as in Windows.

**Subscriptions.**  `account` is the row with its generation, `flights` the lock
per provider, `usageCall` the calls between the look at the row, the request
and the publication.  An answer has windows of three kinds: a quota is dropped
when no share can be read from it, an unlimited one and a balance of money are
kept without (`Retained`).

**Attention.**  Items are derived at every read; their version is a stamp or a
fingerprint; `view` is what a window shows, possibly stale.

**Environment.**  Ranges are sequences of operator and bound, evaluated as the
code does, part by part; `Means` is their meaning in the notation of npm, with
which a verdict is compared; a bare bound as Cargo reads it is not told apart.
The clock ticks by itself.

**QuickSearch.**  A worker is named by its generation; the windows' lock, the
mailboxes with the acknowledgement by identity, and the listener of the page
with its reloads are separate state, as in the code.

**McpSession.**  Requests are named by their place in the input.  Reader,
worker, writer and the deadline's thread are machines of their own; a tool is
reduced to one of six kinds by what it does to the database and when it audits.

## 4. Runs

| run | instance | shows |
| --- | --- | --- |
| `task_execution` | 2 runs, 1 approval, limit 2, writes may fail | `ApprovedProcessesAreOwned`, `OneProcessPerSlot`, `ProcessesAreRecorded`, `ResultsAreFinal`, `NormalStopsEndCancelled`: rows, approvals and processes stay in step |
| `task_crash` | 2 runs, 1 approval, 2 definitions, 1 crash | `ActiveWorkHasProject`, `ConsentIsSpentOnce`, and `ImplementsLifecycle`, the refinement of `RunLifecycle` |
| `task_live` | 2 runs contending for the mutex | `RunsSettle`, `ApprovalsSettle` |
| `session_index` | 1 source, 1 file, 2 sessions, 2 versions, 3 revisions, failing statements | `RevokedSourcesKeepNothing`, `ManualAssociationsWin`, `CheckpointsAreUpToDate` |
| `session_rebuild` | 1 session, 1 version, 2 revisions, failing statements, cancellations, 1 rebuild, 1 crash | `PublishedSessionsAreIndexed`, `MissingSessionsCanReturn`, `ForcedPassesRun` |
| `history_refresh` | 2 jobs, 2 workers, 2 projects, 2 paths, 2 versions, 2 ranges of which one contains the other, batches of 1; or 3 records, 3 instants, pages of 1, 1 reload | `CoverageIsComplete`, `CompletedMeansCovered`; `SummariesCountRecords`, `PagesMissNothing` |
| `application` | eleven machines, each alone | see below |
| `services` | an MCP session of 2 lines, 2 Git operations in one repository, a task with 2 chunks of output, each alone | `DisconnectCancelsActiveWork`, `AnswersTellWhatHappened`, `SessionsEnd`; `OneOperationPerRepository`, `CacheIsOfTheRecordedPath`, `FinishedOperationsStayVisible`, `OperationsEnd`; `ExitsAreReported` |
| `stop_pending`, `unsampled_run`, `imported_search`, `stale_update` | the smallest that shows it | four claims of the documentation the code does not keep (section 7) |

**Carriers.**  `MCApplication`, `MCServices` and `MCHistoryRefresh` hold machines
that share no variable in the models, because the code shares none of what they
keep.  `part` chooses the machine at the start; the others rest in an initial
state.  So the run visits the states of each machine once and never their
product, and a property of one is checked on all of its states.  In `services`
no fair action of a resting machine is enabled, so that the fairness of all
three is that of the chosen one.

`application` holds: the broker (3 runs, 2 slots, limit 1, terminations may
fail; `ProcessesAreBounded`), the library (two nested roots, a checkout, a module
and a directory elsewhere, 4 operations; `ReadyProjectsAreSearchable`,
`OriginsFollowRoots`, `UserEntriesSurvive`), import and export
(2 directories, 1 collection, 4 edits; `ImportsRestoreEntries`), the path index
(2 calls, 1 search, 2 generations; `AbandonedIndexesAreCanceled`), port
processes (2 ids, one protected, 2 confirmations of which one may wait;
`StopsAreReviewed`), subscriptions (2 callers, 3 changes of the connection;
`QuotasAreOfTheConnection`), quick search (2 requests;
`WindowsFollowTheLastRequest`), the run monitor (1 run, 2 edits; it has no
property here, its run is `unsampled_run`), attention items
(4 stamps, 2 conditions; `VanishedProjectsAreShown`), run logs (2 runs,
2 programs, 2 crashes; `RemovedRunsLeaveNoLog`) and runtime probes (2 inspectors,
2 programs, a cache of 2 ticks, probes of 1, 4 ticks, one installation;
`VerdictsAreJustified`).

**Bounds.**  Two runs suffice for every race between runs that the code can have,
since all of them are about one slot, one approval or one mutex; the broker gets
a third, so that a slot can be taken again while an earlier child is still
being reaped.  One approval suffices because two approvals only meet through
their runs; one project and one kind make two runs compete for the slot.

In the session runs one file with two sessions, of which its second version
holds one, lets a session change, vanish and return; three revisions let an old
one be replaced twice.  In all of them the source may be revoked and authorised
again at any moment, and statements may fail.  What a rebuild, a crash or a
cancellation does to the index and to the flags of the job does not depend on
what the file contains, so that one version, and two revisions of its session,
the one before and the one after, are enough.

For Git operations all paths lie in one repository, since operations in
different ones meet only in the table of locks; the proofs cover any number.
Two operations are enough for a lock to be forgotten while another waits for it.
In the history a batch of one commit and a log of two make every batch of the
longer range full, the case in which a further, empty batch must be read; two
jobs let one refresh build on the coverage of another.  Hours of two seconds put
three instants, one before 1970, into different buckets of all three levels,
and the five days begin and end in and at the edges of buckets; one record per
page makes every record a page border.

Four operations on the library are an authorisation, a scan and two changes
during or after it, which is where projects, modules and roots meet; three
paths in each other are the deepest nesting the code distinguishes (root,
project, module).  Three changes of a connection are connect, disconnect,
connect.  Two requests to the windows are each pair of kinds, in either order
of their workers.  Two lines of an MCP session are a call and what overtakes it:
another call, a cancellation or an end.  Four ticks are a probe, the life of its
answer and one more.  The numbers that must only be big enough (`Ids`,
`MaxOutput`, `MaxTransferEdits`, `MaxClock`, `MaxTime`) are named in the
configurations and appear in the guards.

Symmetry over identifiers is used in runs that check safety only.  Deadlock is
not checked: when all identifiers are used and everything has settled the system
stops.

**Fairness.**  Weak fairness for a thread that has begun, each by itself: the
threads of starts, stops and exit handlers (`StartThread`, `StopThread`,
`ExitThread`), the watcher that polls every 25 ms, the recovery of a desktop
that ended, the session job and the commands that began (`JobStep`,
`CommandStep`), the threads of a task's output (`PumpStep`, `WaiterStep`,
`StopStep`), and an operation on a repository (`OperationStep`): weak fairness
suffices although it waits for a lock and for the mutex, because the number of
operations is finite and the others hold the mutex for one step.  In an MCP
session only the threads that noticed the end go on and the five seconds pass
(`ReaderDisconnect`, `WriterDisconnect`, `DeadlineExpires`); the worker may wait
for the database for ever.  None for users, MCP clients, the exit of a process,
other programs, or a failing write.

**Mutants.**  Every property of a passing run has a mutation of the model, the
way a plausible slip in the code would be, that TLC must find violating it
(`PROJECT.json`, "mutants").  Their definitions stand beside the originals.

## 5. Proofs

Assumptions: those named `...Assumption` in the modules (finitely many runs, a
limit of at least one, a kind for every definition, a repository for every path,
batches that are not empty, a version for every file, `NoRow` is no row; finitely
many directories, which are sequences of names; days that begin before they end,
in whole seconds, buckets that have a length, ids in an order, pages that are not
empty; a cache that lives for some
time, versions and bounds of at most three numbers).  The theorems hold for all
values of the constants these allow.

* `BrokerProofs`.  The limit is not inductive: at the check, `live` does not
  contain the run being spawned or reaped.  The invariant `BrokerInv` counts
  places: the runs in `live` together with the run of the call in progress hold
  all live processes, have distinct slots and are at most `MaxConcurrency`.
* `TaskExecutionProofs`.  Every step of the desktop is a step of the broker or
  the crash, so `BrokerInv` carries over.  `ExecutionInv` adds how a call fits
  its thread, that one thread at a time cleans up under the mutex, that rows
  and approvals are deleted exactly with their project, and that the approval
  of an unfinished start is `starting`; from these follow types, the limit,
  `ConsentIsSpentOnce` and `ActiveWorkHasProject`.
* `TaskPromiseProofs`.  Each promise about rows, approvals and stop requests is
  inductive relative to `ExecutionInv`.  `ProcessesAreRecorded` and, which
  follows from it, `ApprovedProcessesAreOwned` need `TerminateMayFail = FALSE`:
  a termination that fails while a start is undone leaves a process without an
  active row (section 7).
* `TaskPromiseProofs` ends with the refinement: task execution implements
  `RunLifecycle` when neither terminations nor writes fail; with a lost write, a
  start that failed would leave an active row that a later stop cancels although
  it never executed.
* `ServicesProofs`, Git operations.  `OneOperationPerRepository` is not
  inductive: that two operations on one repository have the same lock depends on
  the table never forgetting one that is used.  `GitInv` says that the lock of
  every operation that waits or works is the one in the table, and that the
  locks exclude.  For the snapshots it adds that a repository's version is at
  least what any operation left behind there, and that a snapshot taken inside
  the lock is at least as recent as whatever was published in its repository
  before; from this follows `FinishedOperationsStayVisible`.
* `ServicesProofs`, the MCP session.  That a disconnect reaches the request in
  the worker's hands is not inductive, because it says nothing of those still in
  the queue.  `McpInv` says that lines are queued and taken in the order in which
  they were read, that nothing was answered, audited or changed for one that is
  not yet in hand, and that the flag of a request is registered from its reading
  until the worker is done with it, so that whoever cancels what is registered
  misses none (`DisconnectCancelsActiveWork`); with the place of the worker it
  also gives `AnswersTellWhatHappened`.
* `HistoryProofs`.  `CoverageIsComplete` speaks of rows, but why a row is true is
  in the worker that writes it.  `HistoryInv` says that the first `skip` commits
  of a worker's log are stored, so that one that finishes without an error has
  stored them all, and that the covering row a target was skipped for is still
  true.  All this lasts because commits go only with their project.  For
  `CompletedMeansCovered` it follows every target of the job: it is left, in the
  hands of a worker, counted as a failure, covered, or the job is canceled.
* `HistoryProofs`, the list of the history.  `PagesMissNothing` says where the
  records of a first page have gone, but not that a call under way will go on
  there.  `PagesInv` says that one call is current, which begins the list or goes
  on at its cursor; that each list has what was there or goes on to it, and has
  nothing that is below its cursor; and the same of the list that an answer, once
  given, will make.  It lasts because an id is used once and its record does not
  change.  That a page is right is a lemma about orders: the first rows of each
  table suffice to find the first of all (`SelectedAreFirst`), and what is left
  is below the last of them (`PagesLead`).
* `HistoryProofs`, the summaries.  `CountsFit`: each row of the buckets has the
  number of the records in it, and each record its row at every level.  The rest
  is about a single state: the parts of a day tile it, since each level cuts a
  range at two multiples of its length or leaves it whole (`DividingKeepsTiles`);
  a bucket begins at the greatest multiple that is not after the time, also
  before 1970 (`BucketsBeginBefore`), so that between two multiples are the
  buckets of the records between them (`BucketsAreBetween`); and disjoint parts
  of a finite set have as many places as the set has elements (`CountsOfParts`).
  Lengths need not divide each other, and days may begin at any second.
* `SessionProofs`.  Every step of the refresh is reduced to what it does to the
  index (`IndexStep`), and every step of the job to one that leaves the file
  that is read or stays within it (`JobMoves`).  Three invariants build on each
  other.  `BaseInv`: only a running job reads files, a rebuild excludes it, the
  fingerprint it holds is at most the content it read, and the content's
  sessions are those it has left or is done with.  With it,
  `RevokedSourcesKeepNothing` and `ManualAssociationsWin` are inductive.
  `PublishedInv`: ids belong to one session each, and an ingestion's
  documents are in the index from their commit until another revision is
  published, unless their source is revoked; hence `PublishedSessionsAreIndexed`.
  `DoneInv`: what the job is done with is published with the content it
  read, so that the checkpoint it sets is true; hence `CheckpointsAreUpToDate`.
  `MissingSessionsCanReturn` is inductive relative to these.  None of them has a
  condition: sources are authorised again, statements fail, jobs are canceled and
  the desktop crashes at every step, also in a rebuild; what the code then leaves
  behind are the revisions in `lost` and the files in `doubtful`, which the
  properties except by name (section 7).
* `DesktopProofs`.  Eight inductive invariants.  Logs: what a clean-up holds
  belongs to a removed run, which never gets a row again.  Usage: what a call
  carries is a quota of the connection it asked for, and publication looks at
  the generation again, and a window without a share that is shown is unlimited
  or a balance.  Path index: every job that the map lost is canceled, also by the
  call that replaces a job started while it waited, and a job in the map is
  wanted unless it came late.  Ports: a
  confirmation, waiting or being carried out, names what its preview showed, and
  one that has ended a process is not given again.  Attention: a project that
  vanished is stamped with a number no acknowledgement has, and every edit of it
  with a later one.  Quick search: the lock of the windows has one holder, whom
  every check finds in its place; the worker of the latest request leaves the
  window as asked, and a worker that comes to the windows after it is stopped by
  a check or has only a report to give (`LatestIsObeyed`, `OlderWorkersStop`).
  Environment: each time that is kept, of the cache entry, of a probe's
  deadline, of an answer, is tied to when the version was last installed, and
  the addition of these spans is the property; the other half is arithmetic about
  versions of up to three numbers, compared in their order, and needs no state.
  Transfer: the shapes of the catalog and of an export, from which
  `ImportsRestoreEntries` is a calculation with `ApplyImport`.
* `LibraryProofs`.  The argument goes by the values that operations hand on.  One
  is sound when its records have distinct paths, are indexed as what they are when
  ready, name only roots around them, and the owners of modules are known
  (`SoundTables`).  Every operation turns a sound value into a sound one and moves
  no project; for the two that fold over directories this is shown by the least
  number of rounds at which it would fail (`LeastNumber`).  An origin that is
  handed on needs the root to be around what is found, which holds because every
  path is looked for, or resolved, below one that may name the root; so
  `LibraryInv` also says that a scan's list of things to do is inside its root
  (`ScanStaysInside`).  `ReadyProjectsAreSearchable` and `OriginsFollowRoots`
  follow.

Only model-checked: the liveness properties `RunsSettle`, `ApprovalsSettle`,
`ForcedPassesRun`, `OperationsEnd`, `SessionsEnd` and `ExitsAreReported`
(liveness under fairness is out of the prover's reach), and
`UserEntriesSurvive`.  That a refresh of the history ends is not checked: the
instance that has the interesting cases is too large for liveness.

## 6. Not modelled

The components without a model, for the reasons given in `PROJECT.json`: formats,
network I/O, pure functions that tests reach, scripts, and views.  Inside the
modelled components:

* broker: resizing, the quoting of command lines, and a recycled pid in `stop`
  on Unix (listed as a hazard); stopping a run that has ended changes nothing;
* task execution: audit and project events;
* session index: search, reading and resuming, which change no state of it;
* Git: what each command does to a repository; a directory that vanishes in the
  middle of a refresh;
* library: lineage, annotations of modules, launch preferences.  The one flag
  that cancels all scans is a cancellation that may come at any time, so a scan
  that another start revives (section 7) is not told apart;
* footprints: the cache of pages in the window and its loading of adjacent days;
* environment: manifests and lock files;
* path index: reading, previewing and saving single files;
* MCP: the arguments of each tool; quick search: the shortcut.

## 7. Where the code and its documentation disagree

Each of the first four has a run of its own.

* **Stopped is not failed** (`stop_pending`).  ADR 0019 says that `cancelled`
  means a run stopped by the user and that this is no failure.  When the output
  of a stopped process does not drain within two seconds, `stop` returns
  `stop_pending`, the command returns before it records `cancelled`, and the
  exit handler records `failed`.
* **Active runs are sampled** (`unsampled_run`).  ADR 0021 says that one sampler
  refreshes all active runs.  It reads the list of active runs under one lock
  and drops the configurations of all others under the next: a run registered
  in between is never sampled.
* **Records are searchable** (`imported_search`).  ADR 0012 says that search
  indexes structured metadata.  An import over an existing project replaces its
  search text by the words of the file alone.  (The substring search that follows
  when the indexes find no project at all reads some of the columns themselves.)
* **Omitted fields are kept** (`stale_update`).  The MCP tool `update_task`
  promises to preserve omitted fields.  It reads them first and writes them back
  later, over what the desktop wrote in between.

Seen while modelling, without a run:

* **Audited outcome.**  After an explicit stop the exit handler audits `failed`
  for a run whose row says `cancelled` (`src-tauri/src/lib.rs:1197`).
* **No process without its audit event.**  The result of `stop` is discarded when
  the audit of a start fails (`src-tauri/src/lib.rs:1296`), so a job object that
  fails to terminate leaves a process.
* **A forced request after a cancellation** is dropped at the end of the job
  (`src-tauri/src/sessions.rs:252`), although ADR 0027 schedules another pass.
* **A condition that returns** with the same fingerprint stays acknowledged
  (`core.rs:835`).
* **Ranges of versions** (`environment.rs:1011`): a bare `18.0` is read as
  `18.x`, since a written zero counts as not written; `!=` is read as `=`; the
  minimums of `rust-version` and `go` as exact.  A runtime that answers after
  the deadline is reported as missing for a minute.
* **A module of a project that moved** (`core/modules.rs:140`).  A directory that
  is still listed as a module of a project relocated elsewhere cannot be
  registered by itself: the transaction ends with "invalid module location".
* **A name that an import brought** (`import_export.rs:213`, `core.rs:2883`).  For
  a project that it registers an import stores the exported name as the detected
  one, so the next detection replaces it, although the user had given it.
* **One flag for all scans** (`src-tauri/src/lib.rs:868`): a scan that starts
  takes back the cancellation of one that has not yet noticed it.

Windows that the properties leave out, each by a named constant or variable,
where the code is weaker than one would like:

* **A project moved in the last moment.**  An MCP client that moves a project
  between the check in `finish_git_operation` and its UPDATE gets the state of
  the old directory cached with the new one, until the next refresh (`moved`).
* **A source authorised again under its job.**  The publication of a session only
  asks whether its source is enabled now (`core/sessions.rs:314`).  When the
  source was revoked and authorised again since the commit, the revocation has
  deleted the documents and the revision is published without them, although the
  comment there says that its index generation is durable by then (`lost`).  What
  the job had ingested of the same file before is gone as well, and the
  checkpoint it sets hides this until the file changes or the index is rebuilt;
  `doubtful` has the file from the revocation until it is read again.
* **A failure between two statements.**  A crash in a rebuild, or a rebuild whose
  later statements fail, leaves published revisions without documents (`lost`)
  or checkpoints without revisions (`doubtful`); a job that ends between the mark
  of a missing session and the removal of its file's checkpoint leaves a file
  that is skipped when it returns (`doubtful`).
* **A walk that came late.**  ADR 0023 says that the path index is discarded on
  refresh and project change.  A cancellation that comes while a call still waits
  for the project's directory (`src-tauri/src/lib.rs:1912`) finds no job; the
  call then starts one, which walks a project that nobody looks at and which the
  view cancels only if it comes back (`late`).
