------------------------ MODULE TaskExecutionProofs -------------------------
(***************************************************************************)
(* Proofs about task execution, for every set of runs, projects, tasks and *)
(* approvals and any number of crashes.  The argument: every step is one   *)
(* of the broker's or a crash, so the broker's invariant carries over; to  *)
(* it ExecutionInv adds how rows, approvals and threads are related, which *)
(* is inductive and implies the properties that the runs check.            *)
(***************************************************************************)
EXTENDS TaskExecution, BrokerProofs

\* A call of start belongs to a thread that is starting, whose run has no
\* watcher yet, and a row from the point where it was recorded.
StartCallsFit ==
  \A r \in Runs, p \in StartPoints : call = Starting(r, p) =>
    /\ thread[r] = "starting"
    /\ watcher[r] = "none"
    /\ p # "spawned" <=> process[r] = "none"
    /\ p # "admitted" => status[r] = "running"

\* What was never admitted has no process, no watcher and no row.
UnadmittedRunsAreFresh ==
  \A r \in Runs : slot[r] = NoSlot =>
    process[r] = "none" /\ watcher[r] = "none" /\ status[r] = "none"

\* A desktop that is not up has nothing left in memory.
DesktopDownIsEmpty ==
  desktop # "up" =>
    /\ live = {} /\ stopRequests = {} /\ call = Idle
    /\ \A r \in Runs : thread[r] \in {"idle", "done"}

\* One thread at a time cleans up under the Core mutex, and the only call in
\* progress is then its own.
MutexIsHeldOnce ==
  /\ \A q, r \in Runs :
       {thread[q], thread[r]} \subseteq {"undoing", "retracting", "condemned"} => q = r
  /\ \A r \in Runs :
       /\ thread[r] = "undoing" => \E p \in StopPoints : call = Stopping(r, p)
       /\ thread[r] = "retracting" => \/ call = Idle /\ tries < CleanupAttempts
                                      \/ \E p \in StopPoints : call = Stopping(r, p)
       /\ thread[r] = "condemned" => call = Idle

\* A thread's spec is what it was started with, idle threads have none, and
\* only a run with an approval gets to the places that resolve it.
SpecsFitThreads ==
  \A r \in Runs :
    /\ thread[r] = "idle" => spec[r] = NoSpec /\ status[r] = "none"
    /\ thread[r] # "idle" => spec[r].task \in Tasks /\ spec[r].def \in Definitions
    /\ thread[r] \in {"audited", "retracting", "condemned", "errored"} =>
         spec[r].cause # NoCause

\* Runs and approvals are deleted exactly with their project.
RowsFollowProjects ==
  /\ \A r \in Runs : status[r] = "none" => runTask[r] = NoTask
  /\ \A r \in Runs : status[r] # "none" =>
       /\ runTask[r] \in Tasks
       /\ runTask[r] = spec[r].task
       /\ status[r] = "deleted" <=> ProjectOf[runTask[r]] \notin projects
  /\ \A a \in Approvals : approval[a].status = "none" => approval[a].task = NoTask
  /\ \A a \in Approvals : approval[a].status # "none" =>
       /\ approval[a].task \in Tasks
       /\ approval[a].def \in Definitions
       /\ approval[a].status = "deleted" <=> ProjectOf[approval[a].task] \notin projects

\* The approval of a thread that is not done is still being started.
CausesAreStarting ==
  \A r \in Runs :
    (spec[r].cause # NoCause /\ thread[r] \notin {"idle", "done"}) =>
      approval[spec[r].cause].status = "starting"

\* A thread that registered its run's process has its row.
RegisteredRunsAreRecorded ==
  \A r \in Runs :
    thread[r] \in {"registered", "audited", "undoing", "retracting", "condemned"} =>
      status[r] # "none"

ExecutionInv ==
  /\ BrokerInv
  /\ TypeOK
  /\ StartCallsFit
  /\ UnadmittedRunsAreFresh
  /\ DesktopDownIsEmpty
  /\ MutexIsHeldOnce
  /\ SpecsFitThreads
  /\ RowsFollowProjects
  /\ CausesAreStarting
  /\ RegisteredRunsAreRecorded
  /\ ConsentIsSpentOnce
-----------------------------------------------------------------------------
USE DEF Idle, Starting, Stopping

\* Steps of the broker and the crash keep the broker's invariant.

\* A starting thread moves the broker by its own operations only.
LEMMA ThreadStepsBroker ==
  ASSUME SpecsFitThreads, NEW r \in Runs, StartThread(r)
  PROVE  [BrokerNext]_brokerVars
<1>1. CASE AdmitStart(r)
  <2>1. SlotOf(r) \in Slots
    BY <1>1, ExecutionAssumption, RecordsAssumption DEF AdmitStart, SpecsFitThreads, SlotOf
  <2>2. QED
    BY <1>1, <2>1 DEF AdmitStart, BrokerNext, BrokerStep
<1>2. CASE RecordStart(r) \/ SpawnStart(r) \/ FailStart(r) \/ RegisterStart(r)
  BY <1>2 DEF RecordStart, SpawnStart, FailStart, RegisterStart, BrokerNext, BrokerStep
<1>3. CASE AuditFails(r) \/ UndoStart(r) \/ RetractApproval(r) \/ StopRefusedOnce(r)
           \/ StopOnceMore(r) \/ RetractRun(r)
  BY <1>3 DEF AuditFails, UndoStart, RetractApproval, StopRefusedOnce, StopOnceMore,
              RetractRun, BrokerNext, BrokerStep
<1>4. CASE RefuseStart(r) \/ AuditStart(r) \/ ConfirmApproval(r) \/ FailApproval(r)
  BY <1>4 DEF RefuseStart, AuditStart, ConfirmApproval, FailApproval
<1>5. QED
  BY <1>1, <1>2, <1>3, <1>4 DEF StartThread

\* So does every other step, except the crash of the desktop.
LEMMA StepsBroker ==
  ASSUME SpecsFitThreads, Next
  PROVE  [BrokerNext]_brokerVars \/ Crash
<1>1. CASE \E r \in Runs : StartThread(r)
  BY <1>1, ThreadStepsBroker
<1>2. CASE \E r \in Runs : StopTask(r) \/ StopThread(r)
  BY <1>2 DEF StopTask, StopThread, CancelRun, RefuseStop, ContinueStop, BrokerNext, BrokerStep
<1>3. CASE \E r \in Runs : ExitThread(r) \/ Environment(r)
  BY <1>3 DEF ExitThread, HandleExit, HandleExitFails, Environment, BrokerNext, BrokerStep
<1>4. CASE \/ \E r \in Runs, t \in Tasks : StartTask(r, t)
           \/ \E r \in Runs, a \in Approvals : StartApproved(r, a)
           \/ \E a \in Approvals : RejectApproval(a)
           \/ Reopen \/ Recovery \/ Catalog
  BY <1>4 DEF StartTask, StartApproved, RejectApproval, Reopen, Recovery, RecoverApproval,
              RecoverStaleRun, FinishRecovery, Catalog
<1>5. QED
  BY <1>1, <1>2, <1>3, <1>4 DEF Next

\* The crash, which empties the broker, keeps its invariant.
LEMMA CrashKeepsBrokerInv ==
  ASSUME BrokerInv, Crash
  PROVE  BrokerInv'
<1> USE DEF Crash
<1>1. BrokerTypeOK'
  BY DEF BrokerInv, BrokerTypeOK, ProcessStates, WatcherStates, Calls, Reaped
<1>2. Occupied' = {}
  BY DEF Occupied, CallPlaces, StartPoints
<1>3. PlacesAreBounded'
  BY <1>2, FS_EmptySet, BrokerAssumption DEF PlacesAreBounded
<1>4. CallShape' /\ PlacesAreDistinct'
  BY <1>2 DEF CallShape, PlacesAreDistinct
<1>5. PlacesHoldProcesses'
  BY DEF PlacesHoldProcesses, Reaped, BrokerInv, BrokerTypeOK
<1>6. LiveRunsAreWatched' /\ StopRequestsAreAwaited' /\ StopsHaveEffect'
  BY DEF LiveRunsAreWatched, StopRequestsAreAwaited, StopsHaveEffect
<1>7. QED
  BY <1>1, <1>3, <1>4, <1>5, <1>6 DEF BrokerInv

\* Hence the broker's invariant survives every step of the desktop.
LEMMA StepsKeepBrokerInv ==
  ASSUME BrokerInv, SpecsFitThreads, [Next]_vars
  PROVE  BrokerInv'
<1>1. CASE Next
  BY <1>1, StepsBroker, NextInv, CrashKeepsBrokerInv
<1>2. CASE UNCHANGED vars
  BY <1>2, NextInv DEF vars
<1>3. QED
  BY <1>1, <1>2

-----------------------------------------------------------------------------
\* The types of the adapter and of the records.

\* Every operation of the database keeps the type of the records.
LEMMA RecordStepTypes ==
  ASSUME RecordsTypeOK
  PROVE  /\ \A r \in Runs, t \in Tasks : InsertRun(r, t) => RecordsTypeOK'
         /\ \A r \in Runs, s \in TerminalStatuses : FinishRun(r, s) => RecordsTypeOK'
         /\ \A a \in Approvals, s, t \in ApprovalStatuses : MoveApproval(a, s, t) => RecordsTypeOK'
         /\ \A a \in Approvals, r \in Runs : MarkStarted(a, r) => RecordsTypeOK'
         /\ CatalogStep => RecordsTypeOK'
<1> USE DEF RecordsTypeOK, RunStatuses, TerminalStatuses
<1>1. ASSUME NEW r \in Runs, NEW t \in Tasks, InsertRun(r, t) PROVE RecordsTypeOK'
  BY <1>1 DEF InsertRun
<1>2. ASSUME NEW r \in Runs, NEW s \in TerminalStatuses, FinishRun(r, s) PROVE RecordsTypeOK'
  BY <1>2 DEF FinishRun, Finished
<1>3. ASSUME NEW a \in Approvals, NEW s \in ApprovalStatuses, NEW t \in ApprovalStatuses,
             MoveApproval(a, s, t)
      PROVE  RecordsTypeOK'
  BY <1>3 DEF MoveApproval, ApprovalRows
<1>4. ASSUME NEW a \in Approvals, NEW r \in Runs, MarkStarted(a, r) PROVE RecordsTypeOK'
  <2>1. [approval[a] EXCEPT !.status = "started", !.run = r] \in ApprovalRows
    BY DEF ApprovalRows, ApprovalStatuses
  <2>2. approval' = [approval EXCEPT ![a] = [approval[a] EXCEPT !.status = "started", !.run = r]]
    BY <1>4 DEF MarkStarted
  <2>3. QED
    BY <1>4, <2>1, <2>2 DEF MarkStarted
<1>5. ASSUME NEW a \in Approvals, NEW t \in Tasks, RequestApproval(a, t) PROVE RecordsTypeOK'
  BY <1>5, RecordsAssumption DEF RequestApproval, ApprovalRows, ApprovalStatuses, NoApproval, Current
<1>6. ASSUME NEW a \in Approvals, GrowOld(a) PROVE RecordsTypeOK'
  BY <1>6 DEF GrowOld, ApprovalRows
<1>7. ASSUME NEW t \in Tasks, NEW d \in Definitions \cup {Absent}, ChangeTask(t, d)
      PROVE  RecordsTypeOK'
  BY <1>7 DEF ChangeTask
<1>8. ASSUME NEW p \in Projects, RemoveProject(p) PROVE RecordsTypeOK'
  BY <1>8 DEF RemoveProject, ApprovalRows, ApprovalStatuses
<1>9. QED
  BY <1>1, <1>2, <1>3, <1>4, <1>5, <1>6, <1>7, <1>8 DEF CatalogStep

\* A result that is written, or lost, keeps the types.
LEMMA TryFinishTypes ==
  ASSUME RecordsTypeOK, finishLost \in SUBSET Runs, NEW r \in Runs,
         NEW s \in TerminalStatuses, TryFinish(r, s)
  PROVE  RecordsTypeOK' /\ finishLost' \in SUBSET Runs
<1>1. CASE FinishRun(r, s) /\ UNCHANGED finishLost
  BY <1>1, RecordStepTypes
<1>2. CASE finishLost' = finishLost \cup {r} /\ UNCHANGED recordVars
  BY <1>2 DEF RecordsTypeOK, recordVars
<1>3. QED
  BY <1>1, <1>2 DEF TryFinish

\* Each step of a starting thread keeps every variable's type.
LEMMA ThreadTypes ==
  ASSUME TypeOK, BrokerTypeOK', SpecsFitThreads, StartCallsFit, MutexIsHeldOnce,
         NEW r \in Runs, StartThread(r)
  PROVE  TypeOK'
<1> USE DEF TypeOK, ThreadStates, Goto, GotoError
<1>1. CASE RefuseStart(r) \/ AdmitStart(r) \/ SpawnStart(r) \/ RegisterStart(r)
           \/ AuditStart(r) \/ AuditFails(r)
  BY <1>1 DEF RefuseStart, AdmitStart, SpawnStart, RegisterStart, AuditStart, AuditFails,
              recordVars, adapterVars, RecordsTypeOK
<1>2. CASE RecordStart(r)
  <2>1. spec[r].task \in Tasks
    BY <1>2 DEF RecordStart, StartRecord, StartCallsFit, StartPoints, SpecsFitThreads
  <2>2. RecordsTypeOK'
    BY <1>2, <2>1, RecordStepTypes DEF RecordStart
  <2>3. QED
    BY <1>2, <2>2 DEF RecordStart, adapterVars
<1>3. CASE FailStart(r) \/ UndoStart(r) \/ RetractRun(r)
  <2>1. TryFinish(r, "failed")
    BY <1>3 DEF FailStart, UndoStart, RetractRun
  <2>2. RecordsTypeOK' /\ finishLost' \in SUBSET Runs
    BY <2>1, TryFinishTypes DEF TerminalStatuses
  <2>3. QED
    BY <1>3, <2>2 DEF FailStart, UndoStart, RetractRun, CleanupAttempts
<1>4. CASE ConfirmApproval(r)
  <2>1. spec[r].cause \in Approvals
    BY <1>4 DEF ConfirmApproval, SpecsFitThreads, Specs
  <2>2. RecordsTypeOK'
    BY <1>4, <2>1, RecordStepTypes DEF ConfirmApproval
  <2>3. QED
    BY <1>4, <2>2 DEF ConfirmApproval
<1>5. CASE RetractApproval(r) \/ StopRefusedOnce(r)
  BY <1>5 DEF RetractApproval, StopRefusedOnce, recordVars, adapterVars, RecordsTypeOK, CleanupAttempts
<1>6. CASE StopOnceMore(r)
  <2>1. tries < CleanupAttempts
    BY <1>6 DEF StopOnceMore, StopBegin, MutexIsHeldOnce
  <2>2. tries' \in 0 .. CleanupAttempts
    BY <1>6, <2>1 DEF StopOnceMore, CleanupAttempts
  <2>3. QED
    BY <1>6, <2>2 DEF StopOnceMore, recordVars, RecordsTypeOK
<1>7. CASE FailApproval(r)
  <2>1. spec[r].cause \in Approvals
    BY <1>7 DEF FailApproval, SpecsFitThreads, Specs
  <2>2. RecordsTypeOK' /\ markLost' \in SUBSET Approvals
    BY <1>7, <2>1, RecordStepTypes
       DEF FailApproval, MarkFailed, ApprovalStatuses, recordVars, RecordsTypeOK
  <2>3. QED
    BY <1>7, <2>2 DEF FailApproval
<1>8. QED
  BY <1>1, <1>2, <1>3, <1>4, <1>5, <1>6, <1>7 DEF StartThread

\* Each step keeps every variable's type.
LEMMA StepTypes ==
  ASSUME ExecutionInv, Next
  PROVE  TypeOK'
<1>1. BrokerTypeOK'
  BY StepsKeepBrokerInv DEF ExecutionInv, BrokerInv
<1> USE DEF ExecutionInv
<1>2. CASE \E r \in Runs : StartThread(r)
  BY <1>1, <1>2, ThreadTypes
<1> USE DEF TypeOK
<1>3. CASE \E r \in Runs, t \in Tasks : StartTask(r, t)
  BY <1>1, <1>3 DEF StartTask, Goto, ThreadStates, Specs, Current, recordVars, RecordsTypeOK
<1>4. CASE \E r \in Runs, a \in Approvals : StartApproved(r, a)
  <2>1. PICK r \in Runs, a \in Approvals : StartApproved(r, a)
    BY <1>4
  <2>2. RecordsTypeOK'
    BY <2>1, RecordStepTypes DEF StartApproved, ApproveTask, ApprovalStatuses
  <2>3. [task |-> approval[a].task, def |-> approval[a].def, cause |-> a] \in Specs
    BY DEF RecordsTypeOK, ApprovalRows, Specs
  <2>4. QED
    BY <1>1, <2>1, <2>2, <2>3 DEF StartApproved, Goto, ThreadStates
<1>5. CASE \E a \in Approvals : RejectApproval(a)
  <2>1. RecordsTypeOK'
    BY <1>5, RecordStepTypes DEF RejectApproval, ExpireApproval, DenyApproval, ApprovalStatuses
  <2>2. QED
    BY <1>1, <1>5, <2>1 DEF RejectApproval, adapterVars
<1>6. CASE \E r \in Runs : StopTask(r) \/ RefuseStop(r) \/ ContinueStop(r) \/ Environment(r)
  BY <1>1, <1>6 DEF StopTask, RefuseStop, ContinueStop, Environment, adapterVars, recordVars, RecordsTypeOK
<1>7. CASE \E r \in Runs : CancelRun(r)
  <2>1. PICK r \in Runs : CancelRun(r)
    BY <1>7
  <2>2. RecordsTypeOK' /\ finishLost' \in SUBSET Runs
    BY <2>1, TryFinishTypes DEF CancelRun, TerminalStatuses
  <2>3. QED
    BY <1>1, <2>1, <2>2 DEF CancelRun
<1>8. CASE \E r \in Runs : ExitThread(r)
  <2>1. PICK r \in Runs : ExitThread(r)
    BY <1>8
  <2>2. CASE HandleExit(r)
    <3>1. RecordsTypeOK'
      BY <2>2, RecordStepTypes DEF HandleExit, Outcome, TerminalStatuses
    <3>2. QED
      BY <1>1, <2>2, <3>1 DEF HandleExit
  <2>3. CASE HandleExitFails(r)
    BY <1>1, <2>3 DEF HandleExitFails, recordVars, RecordsTypeOK
  <2>4. QED
    BY <2>1, <2>2, <2>3 DEF ExitThread
<1>9. CASE Crash
  BY <1>1, <1>9, ExecutionAssumption
     DEF Crash, DesktopStates, ThreadStates, CleanupAttempts, recordVars, RecordsTypeOK
<1>10. CASE Reopen
  BY <1>1, <1>10 DEF Reopen, DesktopStates, recordVars, RecordsTypeOK
<1>11. CASE Recovery
  <2>1. CASE \E a \in Approvals : RecoverApproval(a)
    <3>1. RecordsTypeOK'
      BY <2>1, RecordStepTypes DEF RecoverApproval, MarkFailed, ApprovalStatuses
    <3>2. QED
      BY <1>1, <2>1, <3>1 DEF RecoverApproval, adapterVars
  <2>2. CASE \E r \in Runs : RecoverStaleRun(r)
    <3>1. RecordsTypeOK'
      BY <2>2, RecordStepTypes DEF RecoverStaleRun, RecoverRun, TerminalStatuses
    <3>2. QED
      BY <1>1, <2>2, <3>1 DEF RecoverStaleRun, adapterVars
  <2>3. CASE FinishRecovery
    BY <1>1, <2>3 DEF FinishRecovery, DesktopStates, recordVars, RecordsTypeOK
  <2>4. QED
    BY <1>11, <2>1, <2>2, <2>3 DEF Recovery
<1>12. CASE Catalog
  <2>1. RecordsTypeOK'
    BY <1>12, RecordStepTypes DEF Catalog
  <2>2. QED
    BY <1>1, <1>12, <2>1 DEF Catalog, adapterVars
<1>13. QED
  BY <1>2, <1>3, <1>4, <1>5, <1>6, <1>7, <1>8, <1>9, <1>10, <1>11, <1>12 DEF Next, StopThread

-----------------------------------------------------------------------------
\* How calls, threads and the desktop fit together.

\* Each step keeps StartCallsFit: a call of start fits its thread and row.
LEMMA StepStartCalls ==
  ASSUME ExecutionInv, Next
  PROVE  StartCallsFit'
<1> USE DEF ExecutionInv, StartCallsFit, StartPoints
<1> USE DEF TypeOK, BrokerTypeOK, RecordsTypeOK
<1>1. CASE \E r \in Runs, t \in Tasks : StartTask(r, t)
  BY <1>1 DEF StartTask, CoreFree, brokerVars, recordVars
<1>2. CASE \E r \in Runs, a \in Approvals : StartApproved(r, a)
  BY <1>2 DEF StartApproved, CoreFree, brokerVars
<1>3. CASE \E a \in Approvals : RejectApproval(a)
  BY <1>3 DEF RejectApproval, ExpireApproval, DenyApproval, MoveApproval, CoreFree, brokerVars, adapterVars
<1>4. ASSUME NEW r \in Runs, StartThread(r) PROVE StartCallsFit'
  <2> USE DEF Goto
  <2>1. CASE AdmitStart(r)
    BY <2>1 DEF AdmitStart, StartAdmit, UnadmittedRunsAreFresh, recordVars
  <2>2. CASE RecordStart(r)
    BY <2>2 DEF RecordStart, StartRecord, InsertRun, adapterVars
  <2>3. CASE SpawnStart(r)
    BY <2>3 DEF SpawnStart, StartSpawn, recordVars, adapterVars
  <2>4. CASE FailStart(r) \/ RegisterStart(r)
    BY <2>4 DEF FailStart, StartFail, RegisterStart, StartRegister
  <2>5. CASE AuditFails(r) \/ UndoStart(r) \/ RetractApproval(r) \/ StopRefusedOnce(r)
             \/ StopOnceMore(r) \/ RetractRun(r)
    BY <2>5 DEF AuditFails, UndoStart, RetractApproval, StopRefusedOnce, StopOnceMore,
                RetractRun, StopBegin, StopReturn
  <2>6. CASE RefuseStart(r) \/ AuditStart(r) \/ ConfirmApproval(r)
    BY <2>6 DEF RefuseStart, AuditStart, ConfirmApproval, CoreFree, brokerVars
  <2>7. CASE FailApproval(r)
    BY <2>7 DEF FailApproval, CoreFree, MutexIsHeldOnce, brokerVars
  <2>8. QED
    BY <1>4, <2>1, <2>2, <2>3, <2>4, <2>5, <2>6, <2>7 DEF StartThread
<1>5. CASE \E r \in Runs : StopTask(r) \/ StopThread(r)
  BY <1>5 DEF StopTask, StopThread, CancelRun, RefuseStop, ContinueStop, StopBegin, StopReturn,
              StopRemove, StopReap
<1>6. CASE \E r \in Runs : ExitThread(r)
  BY <1>6 DEF ExitThread, HandleExit, HandleExitFails, CoreFree, Report
<1>7. CASE \E r \in Runs : Environment(r)
  BY <1>7 DEF Environment, ProcessExit, ObserveExit, ObserveReaped, LoseStatus, RequestNormalStop,
              adapterVars, recordVars, Reaped, ExitStatuses
<1>8. CASE Crash
  BY <1>8 DEF Crash
<1>9. CASE Reopen \/ Recovery
  BY <1>9 DEF Reopen, Recovery, RecoverApproval, RecoverStaleRun, FinishRecovery,
              DesktopDownIsEmpty, brokerVars
<1>10. CASE Catalog
  BY <1>10 DEF Catalog, CatalogStep, RequestApproval, GrowOld, ChangeTask, RemoveProject,
               brokerVars, adapterVars
<1>11. QED
  BY <1>1, <1>2, <1>3, <1>4, <1>5, <1>6, <1>7, <1>8, <1>9, <1>10 DEF Next

\* Each step leaves what was never admitted without process, watcher and row.
LEMMA StepUnadmitted ==
  ASSUME ExecutionInv, Next
  PROVE  UnadmittedRunsAreFresh'
<1> USE DEF ExecutionInv, UnadmittedRunsAreFresh, TypeOK, BrokerTypeOK, RecordsTypeOK
<1>1. \A r \in Runs, p \in StartPoints : call = Starting(r, p) => slot[r] # NoSlot
  BY BrokerAssumption DEF BrokerInv, PlacesAreDistinct, Occupied, CallPlaces
<1>2. \A r \in live : slot[r] # NoSlot
  BY BrokerAssumption DEF BrokerInv, PlacesAreDistinct, Occupied
<1>3. CASE \/ \E r \in Runs, t \in Tasks : StartTask(r, t)
           \/ \E r \in Runs, a \in Approvals : StartApproved(r, a)
           \/ \E a \in Approvals : RejectApproval(a)
  BY <1>3 DEF StartTask, StartApproved, ApproveTask, RejectApproval, ExpireApproval, DenyApproval,
              MoveApproval, brokerVars, recordVars
<1>4. ASSUME NEW r \in Runs, StartThread(r) PROVE UnadmittedRunsAreFresh'
  <2>1. CASE AdmitStart(r)
    BY <2>1, ExecutionAssumption, RecordsAssumption, BrokerAssumption
       DEF AdmitStart, StartAdmit, recordVars, SlotOf, SpecsFitThreads
  <2>2. CASE RecordStart(r) \/ SpawnStart(r) \/ RegisterStart(r)
    BY <1>1, <2>2 DEF RecordStart, StartRecord, InsertRun, SpawnStart, StartSpawn, RegisterStart,
                      StartRegister, recordVars, StartPoints
  <2>3. CASE FailStart(r) \/ UndoStart(r) \/ RetractRun(r)
    BY <2>3 DEF FailStart, StartFail, UndoStart, RetractRun, StopReturn, TryFinish, FinishRun,
                Finished, Reaped, recordVars
  <2>4. CASE AuditFails(r) \/ RetractApproval(r) \/ StopRefusedOnce(r) \/ StopOnceMore(r)
    BY <2>4 DEF AuditFails, RetractApproval, StopRefusedOnce, StopOnceMore, StopBegin, StopReturn,
                recordVars
  <2>5. CASE RefuseStart(r) \/ AuditStart(r) \/ ConfirmApproval(r) \/ FailApproval(r)
    BY <2>5 DEF RefuseStart, AuditStart, ConfirmApproval, MarkStarted, FailApproval, MarkFailed,
                MoveApproval, brokerVars, recordVars
  <2>6. QED
    BY <1>4, <2>1, <2>2, <2>3, <2>4, <2>5 DEF StartThread
<1>5. CASE \E r \in Runs : StopTask(r) \/ StopThread(r)
  BY <1>5 DEF StopTask, StopThread, CancelRun, RefuseStop, ContinueStop, StopBegin, StopReturn,
              StopRemove, StopReap, TryFinish, FinishRun, Finished, Reaped, recordVars
<1>6. CASE \E r \in Runs : ExitThread(r)
  BY <1>6 DEF ExitThread, HandleExit, HandleExitFails, Report, FinishRun, Finished, recordVars
<1>7. CASE \E r \in Runs : Environment(r)
  BY <1>2, <1>7 DEF Environment, ProcessExit, ObserveExit, ObserveReaped, LoseStatus,
              RequestNormalStop, Reaped, recordVars
<1>8. CASE Crash
  BY <1>8 DEF Crash, Reaped, recordVars
<1>9. CASE Reopen \/ Recovery
  BY <1>9 DEF Reopen, Recovery, RecoverApproval, MarkFailed, MoveApproval, RecoverStaleRun,
              RecoverRun, FinishRun, Finished, FinishRecovery, brokerVars, recordVars
<1>10. CASE Catalog
  BY <1>10, RecordsAssumption DEF Catalog, CatalogStep, RequestApproval, GrowOld, ChangeTask, RemoveProject,
               BelongsTo, RowsFollowProjects, brokerVars
<1>11. QED
  BY <1>3, <1>4, <1>5, <1>6, <1>7, <1>8, <1>9, <1>10 DEF Next

\* Each step leaves a desktop that is not up with nothing in memory.
LEMMA StepDesktop ==
  ASSUME ExecutionInv, Next
  PROVE  DesktopDownIsEmpty'
<1> USE DEF ExecutionInv, DesktopDownIsEmpty, TypeOK, BrokerTypeOK, Goto, GotoError
<1>1. CASE \/ \E r \in Runs, t \in Tasks : StartTask(r, t)
           \/ \E r \in Runs, a \in Approvals : StartApproved(r, a)
           \/ \E a \in Approvals : RejectApproval(a)
           \/ \E r \in Runs : StopTask(r) \/ ExitThread(r)
  BY <1>1 DEF StartTask, StartApproved, RejectApproval, StopTask, ExitThread, HandleExit,
              HandleExitFails, CoreFree, brokerVars, adapterVars
<1>2. ASSUME NEW r \in Runs, StartThread(r) PROVE DesktopDownIsEmpty'
  <2>1. CASE RefuseStart(r) \/ AdmitStart(r) \/ AuditStart(r) \/ AuditFails(r)
             \/ ConfirmApproval(r) \/ RetractApproval(r)
    BY <2>1 DEF RefuseStart, AdmitStart, AuditStart, AuditFails, ConfirmApproval,
                RetractApproval, CoreFree
  <2>2. CASE RecordStart(r) \/ SpawnStart(r) \/ FailStart(r) \/ RegisterStart(r)
    BY <2>2 DEF RecordStart, SpawnStart, FailStart, RegisterStart, StartRecord, StartSpawn,
                StartFail, StartRegister, StartPoints, adapterVars
  <2>3. CASE UndoStart(r) \/ StopRefusedOnce(r) \/ StopOnceMore(r) \/ RetractRun(r)
    BY <2>3 DEF UndoStart, StopRefusedOnce, StopOnceMore, RetractRun, adapterVars
  <2>4. CASE FailApproval(r)
    BY <2>4 DEF FailApproval, CoreFree
  <2>5. QED
    BY <1>2, <2>1, <2>2, <2>3, <2>4 DEF StartThread
<1>3. CASE \E r \in Runs : StopThread(r)
  BY <1>3 DEF StopThread, CancelRun, RefuseStop, ContinueStop, StopReturn, StopRemove, StopReap,
              adapterVars
<1>4. CASE \E r \in Runs : Environment(r)
  BY <1>4 DEF Environment, adapterVars
<1>5. CASE Crash
  BY <1>5 DEF Crash
<1>6. CASE Reopen \/ Recovery \/ Catalog
  BY <1>6 DEF Reopen, Recovery, RecoverApproval, RecoverStaleRun, FinishRecovery, Catalog,
              brokerVars, adapterVars
<1>7. QED
  BY <1>1, <1>2, <1>3, <1>4, <1>5, <1>6 DEF Next

\* Each step keeps the Core mutex with at most one thread.
LEMMA StepMutex ==
  ASSUME ExecutionInv, Next
  PROVE  MutexIsHeldOnce'
<1> USE DEF ExecutionInv, MutexIsHeldOnce, TypeOK, BrokerTypeOK, Goto, GotoError, StopPoints
<1>1. CASE \/ \E r \in Runs, t \in Tasks : StartTask(r, t)
           \/ \E r \in Runs, a \in Approvals : StartApproved(r, a)
           \/ \E a \in Approvals : RejectApproval(a)
           \/ \E r \in Runs : StopTask(r) \/ ExitThread(r)
  BY <1>1 DEF StartTask, StartApproved, RejectApproval, StopTask, ExitThread, HandleExit,
              HandleExitFails, CoreFree, adapterVars
<1>2. ASSUME NEW r \in Runs, StartThread(r) PROVE MutexIsHeldOnce'
  <2>1. CASE RefuseStart(r) \/ AdmitStart(r) \/ AuditStart(r) \/ ConfirmApproval(r)
    BY <2>1 DEF RefuseStart, AdmitStart, AuditStart, ConfirmApproval, CoreFree
  <2>2. CASE RecordStart(r) \/ SpawnStart(r)
    BY <2>2 DEF RecordStart, SpawnStart, StartRecord, StartSpawn, adapterVars
  <2>3. CASE FailStart(r) \/ RegisterStart(r)
    BY <2>3 DEF FailStart, RegisterStart, StartFail, StartRegister
  <2>4. CASE AuditFails(r) \/ RetractApproval(r)
    BY <2>4 DEF AuditFails, RetractApproval, CoreFree, StopBegin
  <2>5. CASE UndoStart(r) \/ StopRefusedOnce(r)
    BY <2>5 DEF UndoStart, StopRefusedOnce, StopReturn, adapterVars
  <2>6. CASE StopOnceMore(r)
    BY <2>6 DEF StopOnceMore, StopBegin
  <2>7. CASE RetractRun(r)
    BY <2>7 DEF RetractRun, StopReturn
  <2>8. CASE FailApproval(r)
    BY <2>8 DEF FailApproval, CoreFree, brokerVars
  <2>9. QED
    BY <1>2, <2>1, <2>2, <2>3, <2>4, <2>5, <2>6, <2>7, <2>8 DEF StartThread
<1>3. ASSUME NEW r \in Runs, StopThread(r) PROVE MutexIsHeldOnce'
  <2>1. CASE CancelRun(r) \/ RefuseStop(r)
    BY <2>1 DEF CancelRun, RefuseStop, StoppedByUser, StopReturn, adapterVars
  <2>2. CASE ContinueStop(r)
    BY <2>2 DEF ContinueStop, StopRemove, StopReap, adapterVars
  <2>3. QED
    BY <1>3, <2>1, <2>2 DEF StopThread
<1>4. CASE \E r \in Runs : Environment(r)
  BY <1>4 DEF Environment, ProcessExit, ObserveExit, ObserveReaped, LoseStatus,
              RequestNormalStop, adapterVars
<1>5. CASE Crash
  BY <1>5 DEF Crash
<1>6. CASE Reopen \/ Recovery \/ Catalog
  BY <1>6 DEF Reopen, Recovery, RecoverApproval, RecoverStaleRun, FinishRecovery, Catalog,
              brokerVars, adapterVars
<1>7. QED
  BY <1>1, <1>2, <1>3, <1>4, <1>5, <1>6 DEF Next

\* Each step keeps every thread's spec in accord with its place.
LEMMA StepSpecs ==
  ASSUME ExecutionInv, Next
  PROVE  SpecsFitThreads'
<1> USE DEF ExecutionInv, SpecsFitThreads, TypeOK, RecordsTypeOK, Goto, GotoError
<1>1. CASE \E r \in Runs, t \in Tasks : StartTask(r, t)
  BY <1>1 DEF StartTask, Current, recordVars, RowsFollowProjects, Specs
<1>2. CASE \E r \in Runs, a \in Approvals : StartApproved(r, a)
  BY <1>2 DEF StartApproved, ApproveTask, MoveApproval, RowsFollowProjects, Specs
<1>3. CASE \E a \in Approvals : RejectApproval(a)
  BY <1>3 DEF RejectApproval, ExpireApproval, DenyApproval, MoveApproval, adapterVars
<1>4. ASSUME NEW r \in Runs, StartThread(r) PROVE SpecsFitThreads'
  <2>1. CASE RefuseStart(r) \/ AdmitStart(r) \/ AuditStart(r) \/ AuditFails(r) \/ RetractApproval(r)
    BY <2>1 DEF RefuseStart, AdmitStart, AuditStart, AuditFails, RetractApproval, recordVars
  <2>2. CASE RecordStart(r) \/ SpawnStart(r) \/ RegisterStart(r)
    BY <2>2 DEF RecordStart, SpawnStart, RegisterStart, StartRecord, StartRegister, StartCallsFit,
                StartPoints, InsertRun, adapterVars, recordVars
  <2>3. CASE FailStart(r) \/ UndoStart(r) \/ RetractRun(r)
    BY <2>3 DEF FailStart, StartFail, StartCallsFit, UndoStart, RetractRun, TryFinish, FinishRun, Finished, recordVars
  <2>4. CASE ConfirmApproval(r) \/ FailApproval(r)
    BY <2>4 DEF ConfirmApproval, MarkStarted, FailApproval, MarkFailed, MoveApproval, recordVars
  <2>5. CASE StopRefusedOnce(r) \/ StopOnceMore(r)
    BY <2>5 DEF StopRefusedOnce, StopOnceMore, adapterVars, recordVars
  <2>6. QED
    BY <1>4, <2>1, <2>2, <2>3, <2>4, <2>5 DEF StartThread
<1>5. CASE \E r \in Runs : StopTask(r) \/ StopThread(r)
  BY <1>5 DEF StopTask, StopThread, CancelRun, RefuseStop, ContinueStop, TryFinish, FinishRun,
              Finished, adapterVars, recordVars
<1>6. CASE \E r \in Runs : ExitThread(r) \/ Environment(r)
  BY <1>6 DEF ExitThread, HandleExit, HandleExitFails, Environment, FinishRun, Finished,
              adapterVars, recordVars
<1>7. CASE Crash
  BY <1>7 DEF Crash, recordVars
<1>8. CASE Reopen \/ Recovery
  BY <1>8 DEF Reopen, Recovery, RecoverApproval, MarkFailed, MoveApproval, RecoverStaleRun,
              RecoverRun, FinishRun, Finished, FinishRecovery, recordVars, adapterVars
<1>9. CASE Catalog
  BY <1>9, RecordsAssumption DEF Catalog, CatalogStep, RequestApproval, GrowOld, ChangeTask,
              RemoveProject, BelongsTo, RowsFollowProjects, adapterVars
<1>10. QED
  BY <1>1, <1>2, <1>3, <1>4, <1>5, <1>6, <1>7, <1>8, <1>9 DEF Next

-----------------------------------------------------------------------------
\* How rows, approvals and specs fit together.

\* A result, written or lost, keeps rows with their projects.
LEMMA FinishKeepsRows ==
  ASSUME RowsFollowProjects, RecordsTypeOK, UNCHANGED spec, NEW r \in Runs,
         NEW s \in TerminalStatuses, FinishRun(r, s) \/ TryFinish(r, s)
  PROVE  RowsFollowProjects'
BY DEF RowsFollowProjects, RecordsTypeOK, TerminalStatuses, FinishRun, TryFinish, Finished, recordVars

\* An approval that moves on stays with its project.
LEMMA MoveKeepsRows ==
  ASSUME RowsFollowProjects, RecordsTypeOK, UNCHANGED spec, NEW a \in Approvals,
         \/ \E s \in ApprovalStatuses \ {"none", "deleted"}, t \in ApprovalStatuses \ {"none", "deleted"} :
              MoveApproval(a, s, t)
         \/ \E r \in Runs : MarkStarted(a, r)
         \/ GrowOld(a)
  PROVE  RowsFollowProjects'
BY DEF RowsFollowProjects, RecordsTypeOK, ApprovalRows, MoveApproval, MarkStarted, GrowOld

\* The operations of the catalog delete rows exactly with their projects.
LEMMA CatalogKeepsRows ==
  ASSUME RowsFollowProjects, RecordsTypeOK, UNCHANGED spec, CatalogStep
  PROVE  RowsFollowProjects'
<1> USE DEF RowsFollowProjects, RecordsTypeOK
<1>1. CASE \E a \in Approvals, t \in Tasks : RequestApproval(a, t)
  BY <1>1 DEF RequestApproval, Current, NoApproval
<1>2. CASE \E a \in Approvals : GrowOld(a)
  BY <1>2, MoveKeepsRows
<1>3. CASE \E t \in Tasks, d \in Definitions \cup {Absent} : ChangeTask(t, d)
  BY <1>3 DEF ChangeTask
<1>4. CASE \E p \in Projects : RemoveProject(p)
  <2>1. PICK p \in Projects : RemoveProject(p)
    BY <1>4
  <2>2. /\ projects' = projects \ {p}
        /\ UNCHANGED runTask
        /\ \A r \in Runs : status'[r] = IF BelongsTo(runTask[r], p) THEN "deleted" ELSE status[r]
    BY <2>1 DEF RemoveProject
  <2>3. \A a \in Approvals :
          /\ approval'[a].status = IF BelongsTo(approval[a].task, p) THEN "deleted"
                                   ELSE approval[a].status
          /\ approval'[a].task = approval[a].task
          /\ approval'[a].def = approval[a].def
    BY <2>1 DEF RemoveProject, ApprovalRows
  <2>4. p \in projects
    BY <2>1 DEF RemoveProject
  <2>5. \A a \in Approvals : approval'[a].status # "none" =>
          /\ approval'[a].task \in Tasks
          /\ approval'[a].def \in Definitions
          /\ approval'[a].status = "deleted" <=> ProjectOf[approval'[a].task] \notin projects'
    BY <2>2, <2>3, <2>4, RecordsAssumption DEF BelongsTo
  <2>6. \A a \in Approvals : approval'[a].status = "none" => approval'[a].task = NoTask
    BY <2>3
  <2>7. QED
    BY <2>2, <2>4, <2>5, <2>6, RecordsAssumption DEF BelongsTo
<1>5. QED
  BY <1>1, <1>2, <1>3, <1>4 DEF CatalogStep

\* Each step deletes runs and approvals exactly with their project.
LEMMA StepRows ==
  ASSUME ExecutionInv, Next
  PROVE  RowsFollowProjects'
<1> USE DEF ExecutionInv, TypeOK
<1>1. CASE \E r \in Runs, t \in Tasks : StartTask(r, t)
  BY <1>1 DEF StartTask, recordVars, RowsFollowProjects, SpecsFitThreads
<1>2. CASE \E r \in Runs, a \in Approvals : StartApproved(r, a)
  BY <1>2 DEF StartApproved, ApproveTask, MoveApproval, RowsFollowProjects, SpecsFitThreads,
              RecordsTypeOK, ApprovalRows
<1>3. CASE \E a \in Approvals : RejectApproval(a)
  BY <1>3, MoveKeepsRows DEF RejectApproval, ExpireApproval, DenyApproval, adapterVars, ApprovalStatuses
<1>4. ASSUME NEW r \in Runs, StartThread(r) PROVE RowsFollowProjects'
  <2>1. CASE RefuseStart(r) \/ AdmitStart(r) \/ SpawnStart(r) \/ RegisterStart(r) \/ AuditStart(r)
             \/ AuditFails(r) \/ RetractApproval(r) \/ StopRefusedOnce(r) \/ StopOnceMore(r)
    BY <2>1 DEF RefuseStart, AdmitStart, SpawnStart, RegisterStart, AuditStart, AuditFails,
                RetractApproval, StopRefusedOnce, StopOnceMore, recordVars, adapterVars, RowsFollowProjects
  <2>2. CASE RecordStart(r)
    BY <2>2 DEF RecordStart, StartRecord, StartCallsFit, StartPoints, SpecsFitThreads, InsertRun,
                adapterVars, RowsFollowProjects, RecordsTypeOK
  <2>3. CASE FailStart(r) \/ UndoStart(r) \/ RetractRun(r)
    BY <2>3, FinishKeepsRows DEF FailStart, UndoStart, RetractRun, TerminalStatuses
  <2>4. CASE ConfirmApproval(r)
    BY <2>4, MoveKeepsRows DEF ConfirmApproval, SpecsFitThreads, Specs
  <2>5. CASE FailApproval(r)
    <3>1. spec[r].cause \in Approvals
      BY <2>5 DEF FailApproval, SpecsFitThreads, Specs
    <3>2. CASE MarkFailed(spec[r].cause)
      BY <2>5, <3>1, <3>2, MoveKeepsRows DEF FailApproval, MarkFailed, ApprovalStatuses
    <3>3. CASE UNCHANGED recordVars
      BY <2>5, <3>3 DEF FailApproval, recordVars, RowsFollowProjects
    <3>4. QED
      BY <2>5, <3>2, <3>3 DEF FailApproval
  <2>6. QED
    BY <1>4, <2>1, <2>2, <2>3, <2>4, <2>5 DEF StartThread
<1>5. CASE \E r \in Runs : CancelRun(r) \/ HandleExit(r)
  BY <1>5, FinishKeepsRows DEF CancelRun, HandleExit, Outcome, TerminalStatuses
<1>6. CASE \E r \in Runs : StopTask(r) \/ RefuseStop(r) \/ ContinueStop(r) \/ HandleExitFails(r)
                            \/ Environment(r)
  BY <1>6 DEF StopTask, RefuseStop, ContinueStop, HandleExitFails, Environment,
              recordVars, adapterVars, RowsFollowProjects
<1>7. CASE Crash \/ Reopen \/ FinishRecovery
  BY <1>7 DEF Crash, Reopen, FinishRecovery, recordVars, RowsFollowProjects
<1>8. CASE \E a \in Approvals : RecoverApproval(a)
  BY <1>8, MoveKeepsRows DEF RecoverApproval, MarkFailed, adapterVars, ApprovalStatuses
<1>9. CASE \E r \in Runs : RecoverStaleRun(r)
  BY <1>9, FinishKeepsRows DEF RecoverStaleRun, RecoverRun, adapterVars, TerminalStatuses
<1>10. CASE Catalog
  BY <1>10, CatalogKeepsRows DEF Catalog, adapterVars
<1>11. QED
  BY <1>1, <1>2, <1>3, <1>4, <1>5, <1>6, <1>7, <1>8, <1>9, <1>10
     DEF Next, StopThread, ExitThread, Recovery

\* Each step keeps the approval of an unfinished start "starting", and spends it once.
LEMMA StepCauses ==
  ASSUME ExecutionInv, Next
  PROVE  CausesAreStarting' /\ ConsentIsSpentOnce'
<1> USE DEF ExecutionInv, CausesAreStarting, ConsentIsSpentOnce, TypeOK, RecordsTypeOK, Specs,
            Goto, GotoError
<1>1. CASE \E r \in Runs, t \in Tasks : StartTask(r, t)
  BY <1>1 DEF StartTask, recordVars, SpecsFitThreads, NoSpec
<1>2. CASE \E r \in Runs, a \in Approvals : StartApproved(r, a)
  <2>1. PICK r \in Runs, a \in Approvals : StartApproved(r, a)
    BY <1>2
  <2>2. \A q \in Runs : spec[q].cause # a
    BY <2>1, ExecutionAssumption DEF StartApproved, ApproveTask
  <2>3. /\ spec' = [spec EXCEPT ![r] = [task |-> approval[a].task, def |-> approval[a].def, cause |-> a]]
        /\ thread' = [thread EXCEPT ![r] = "prepared"]
        /\ approval' = [approval EXCEPT ![a].status = "starting"]
    BY <2>1 DEF StartApproved, ApproveTask, MoveApproval
  <2>4. CausesAreStarting'
    BY <2>2, <2>3 DEF ApprovalRows
  <2>5. ConsentIsSpentOnce'
    BY <2>2, <2>3 DEF ApprovalRows
  <2>6. QED
    BY <2>4, <2>5
<1>3. CASE \E a \in Approvals : RejectApproval(a)
  <2>1. PICK a \in Approvals, s \in {"expired", "denied"} : MoveApproval(a, "pending", s)
    BY <1>3 DEF RejectApproval, ExpireApproval, DenyApproval
  <2>2. UNCHANGED <<thread, spec>>
    BY <1>3 DEF RejectApproval, adapterVars
  <2>3. /\ approval[a].status = "pending"
        /\ \A b \in Approvals : /\ approval'[b].task = approval[b].task
                                /\ approval'[b].def = approval[b].def
                                /\ b # a => approval'[b].status = approval[b].status
    BY <2>1 DEF MoveApproval, ApprovalRows
  <2>4. \A r \in Runs : spec[r].cause # a
    BY <2>3, ExecutionAssumption
  <2>5. QED
    BY <2>2, <2>3, <2>4
<1>4. ASSUME NEW r \in Runs, StartThread(r) PROVE CausesAreStarting' /\ ConsentIsSpentOnce'
  <2>1. CASE RefuseStart(r) \/ AdmitStart(r) \/ AuditStart(r) \/ AuditFails(r) \/ RetractApproval(r)
    BY <2>1 DEF RefuseStart, AdmitStart, AuditStart, AuditFails, RetractApproval, recordVars
  <2>2. CASE RecordStart(r) \/ SpawnStart(r) \/ RegisterStart(r)
    BY <2>2 DEF RecordStart, SpawnStart, RegisterStart, StartRegister, StartCallsFit, StartPoints,
                InsertRun, adapterVars, recordVars
  <2>3. CASE FailStart(r) \/ UndoStart(r) \/ RetractRun(r)
    BY <2>3 DEF FailStart, StartFail, StartCallsFit, UndoStart, RetractRun, TryFinish, FinishRun,
                recordVars
  <2>4. CASE ConfirmApproval(r)
    BY <2>4 DEF ConfirmApproval, MarkStarted, ApprovalRows
  <2>5. CASE FailApproval(r)
    BY <2>5 DEF FailApproval, MarkFailed, MoveApproval, recordVars, ApprovalRows
  <2>6. CASE StopRefusedOnce(r) \/ StopOnceMore(r)
    BY <2>6 DEF StopRefusedOnce, StopOnceMore, adapterVars, recordVars
  <2>7. QED
    BY <1>4, <2>1, <2>2, <2>3, <2>4, <2>5, <2>6 DEF StartThread
<1>5. CASE \E r \in Runs : StopTask(r) \/ StopThread(r)
  BY <1>5 DEF StopTask, StopThread, CancelRun, RefuseStop, ContinueStop, TryFinish, FinishRun,
              adapterVars, recordVars
<1>6. CASE \E r \in Runs : ExitThread(r) \/ Environment(r)
  BY <1>6 DEF ExitThread, HandleExit, HandleExitFails, Environment, FinishRun, adapterVars, recordVars
<1>7. CASE Crash \/ Reopen \/ FinishRecovery
  BY <1>7 DEF Crash, Reopen, FinishRecovery, recordVars
<1>8. CASE \E a \in Approvals : RecoverApproval(a)
  BY <1>8 DEF RecoverApproval, MarkFailed, MoveApproval, DesktopDownIsEmpty, adapterVars, ApprovalRows
<1>9. CASE \E r \in Runs : RecoverStaleRun(r)
  BY <1>9 DEF RecoverStaleRun, RecoverRun, FinishRun, adapterVars
<1>10. CASE \E a \in Approvals, t \in Tasks : RequestApproval(a, t) /\ Catalog
  BY <1>10 DEF Catalog, RequestApproval, NoApproval, adapterVars, ApprovalRows
<1>11. CASE \E a \in Approvals : GrowOld(a) /\ Catalog
  BY <1>11 DEF Catalog, GrowOld, adapterVars, ApprovalRows
<1>12. CASE \E t \in Tasks, d \in Definitions \cup {Absent} : ChangeTask(t, d) /\ Catalog
  BY <1>12 DEF Catalog, ChangeTask, adapterVars
<1>13. CASE \E p \in Projects : RemoveProject(p) /\ Catalog
  BY <1>13 DEF Catalog, RemoveProject, adapterVars, ApprovalRows
<1>14. QED
  BY <1>1, <1>2, <1>3, <1>4, <1>5, <1>6, <1>7, <1>8, <1>9, <1>10, <1>11, <1>12, <1>13
     DEF Next, Recovery, Catalog, CatalogStep

\* Each step keeps the row of a run whose process was registered.
LEMMA StepRegistered ==
  ASSUME ExecutionInv, Next
  PROVE  RegisteredRunsAreRecorded'
<1> USE DEF ExecutionInv, RegisteredRunsAreRecorded, TypeOK, RecordsTypeOK, Goto, GotoError
<1>1. CASE \/ \E r \in Runs, t \in Tasks : StartTask(r, t)
           \/ \E r \in Runs, a \in Approvals : StartApproved(r, a)
           \/ \E a \in Approvals : RejectApproval(a)
           \/ \E r \in Runs : StopTask(r) \/ StopThread(r) \/ ExitThread(r) \/ Environment(r)
  BY <1>1 DEF StartTask, StartApproved, ApproveTask, RejectApproval, ExpireApproval, DenyApproval,
              MoveApproval, StopTask, StopThread, CancelRun, RefuseStop, ContinueStop, ExitThread,
              HandleExit, HandleExitFails, Environment, TryFinish, FinishRun, Finished,
              Outcome, adapterVars, recordVars
<1>2. ASSUME NEW r \in Runs, StartThread(r) PROVE RegisteredRunsAreRecorded'
  <2>1. CASE RefuseStart(r) \/ AdmitStart(r) \/ AuditStart(r) \/ AuditFails(r) \/ RetractApproval(r)
    BY <2>1 DEF RefuseStart, AdmitStart, AuditStart, AuditFails, RetractApproval, recordVars
  <2>2. CASE RecordStart(r) \/ SpawnStart(r) \/ RegisterStart(r)
    BY <2>2 DEF RecordStart, SpawnStart, RegisterStart, StartRegister, StartCallsFit, StartPoints,
                InsertRun, adapterVars, recordVars
  <2>3. CASE FailStart(r) \/ UndoStart(r) \/ RetractRun(r)
    BY <2>3 DEF FailStart, UndoStart, RetractRun, TryFinish, FinishRun, Finished, recordVars
  <2>4. CASE ConfirmApproval(r) \/ FailApproval(r)
    BY <2>4 DEF ConfirmApproval, MarkStarted, FailApproval, MarkFailed, MoveApproval, recordVars
  <2>5. CASE StopRefusedOnce(r) \/ StopOnceMore(r)
    BY <2>5 DEF StopRefusedOnce, StopOnceMore, adapterVars, recordVars
  <2>6. QED
    BY <1>2, <2>1, <2>2, <2>3, <2>4, <2>5 DEF StartThread
<1>3. CASE Crash \/ Reopen \/ FinishRecovery
  BY <1>3 DEF Crash, Reopen, FinishRecovery, recordVars
<1>4. CASE \/ \E a \in Approvals : RecoverApproval(a)
           \/ \E r \in Runs : RecoverStaleRun(r)
  BY <1>4 DEF RecoverApproval, MarkFailed, MoveApproval, RecoverStaleRun, RecoverRun, FinishRun,
              Finished, adapterVars
<1>5. CASE Catalog
  BY <1>5 DEF Catalog, CatalogStep, RequestApproval, GrowOld, ChangeTask, RemoveProject, adapterVars
<1>6. QED
  BY <1>1, <1>2, <1>3, <1>4, <1>5 DEF Next, Recovery

-----------------------------------------------------------------------------
\* The invariant holds in every reachable state.

\* ExecutionInv holds when the desktop is started on a fresh database.
LEMMA InitExecution == Init => ExecutionInv
<1> SUFFICES ASSUME Init PROVE ExecutionInv
  OBVIOUS
<1>1. BrokerInv
  BY InitInv DEF Init
<1>2. TypeOK
  <2>1. RecordsTypeOK
    BY DEF Init, RecordsInit, RecordsTypeOK, RunStatuses, ApprovalRows, ApprovalStatuses, NoApproval
  <2>2. NoSpec \in Specs
    BY DEF NoSpec, Specs
  <2>3. QED
    BY <1>1, <2>1, <2>2, ExecutionAssumption
       DEF Init, TypeOK, BrokerInv, DesktopStates, ThreadStates, CleanupAttempts
<1>3. StartCallsFit /\ UnadmittedRunsAreFresh /\ DesktopDownIsEmpty
  BY DEF Init, BrokerInit, RecordsInit, StartCallsFit, UnadmittedRunsAreFresh, DesktopDownIsEmpty
<1>4. MutexIsHeldOnce /\ SpecsFitThreads /\ RegisteredRunsAreRecorded
  BY DEF Init, RecordsInit, MutexIsHeldOnce, SpecsFitThreads, RegisteredRunsAreRecorded
<1>5. RowsFollowProjects
  BY DEF Init, RecordsInit, RowsFollowProjects, NoApproval
<1>6. CausesAreStarting /\ ConsentIsSpentOnce
  BY DEF Init, NoSpec, CausesAreStarting, ConsentIsSpentOnce
<1>7. QED
  BY <1>1, <1>2, <1>3, <1>4, <1>5, <1>6 DEF ExecutionInv

\* ExecutionInv is inductive: every step keeps all of its parts.
LEMMA NextExecution == ExecutionInv /\ [Next]_vars => ExecutionInv'
<1>1. ASSUME ExecutionInv, Next PROVE ExecutionInv'
  <2>1. BrokerInv'
    BY <1>1, StepsKeepBrokerInv DEF ExecutionInv
  <2>2. TypeOK' /\ StartCallsFit' /\ UnadmittedRunsAreFresh' /\ DesktopDownIsEmpty'
    BY <1>1, StepTypes, StepStartCalls, StepUnadmitted, StepDesktop
  <2>3. MutexIsHeldOnce' /\ SpecsFitThreads' /\ RowsFollowProjects'
    BY <1>1, StepMutex, StepSpecs, StepRows
  <2>4. CausesAreStarting' /\ RegisteredRunsAreRecorded' /\ ConsentIsSpentOnce'
    BY <1>1, StepCauses, StepRegistered
  <2>5. QED
    BY <2>1, <2>2, <2>3, <2>4 DEF ExecutionInv
<1>2. ASSUME ExecutionInv, UNCHANGED vars PROVE ExecutionInv'
  <2>1. BrokerInv'
    BY <1>2, StepsKeepBrokerInv DEF ExecutionInv
  <2>2. TypeOK'
    BY <1>2, <2>1 DEF ExecutionInv, BrokerInv, TypeOK, RecordsTypeOK, vars, recordVars, adapterVars
  <2>3. StartCallsFit' /\ UnadmittedRunsAreFresh' /\ DesktopDownIsEmpty' /\ MutexIsHeldOnce'
    BY <1>2 DEF ExecutionInv, vars, brokerVars, recordVars, adapterVars, StartCallsFit,
                UnadmittedRunsAreFresh, DesktopDownIsEmpty, MutexIsHeldOnce
  <2>4. SpecsFitThreads' /\ RowsFollowProjects' /\ CausesAreStarting'
        /\ RegisteredRunsAreRecorded' /\ ConsentIsSpentOnce'
    BY <1>2 DEF ExecutionInv, vars, recordVars, adapterVars, SpecsFitThreads, RowsFollowProjects,
                CausesAreStarting, RegisteredRunsAreRecorded, ConsentIsSpentOnce
  <2>5. QED
    BY <2>1, <2>2, <2>3, <2>4 DEF ExecutionInv
<1>3. QED
  BY <1>1, <1>2

\* The inductive invariant of task execution holds in every reachable state.
THEOREM ExecutionInvariance == Spec => []ExecutionInv
BY InitExecution, NextExecution, PTL DEF Spec

\* Every variable of task execution keeps its type.
THEOREM ExecutionTypeCorrect == Spec => []TypeOK
<1>1. ExecutionInv => TypeOK
  BY DEF ExecutionInv
<1>2. QED
  BY <1>1, ExecutionInvariance, PTL

\* The limit of the broker holds for the whole of task execution, crashes of
\* the desktop and the threads of its commands included.
THEOREM ExecutionConcurrencyLimit == Spec => [](ProcessesAreBounded /\ OneProcessPerSlot)
<1>1. ExecutionInv => ProcessesAreBounded /\ OneProcessPerSlot
  BY InvBounds, InvSeparates DEF ExecutionInv
<1>2. QED
  BY <1>1, ExecutionInvariance, PTL

\* An approval is spent by one run, which runs what the approval showed.
THEOREM ConsentSpentOnce == Spec => []ConsentIsSpentOnce
<1>1. ExecutionInv => ConsentIsSpentOnce
  BY DEF ExecutionInv
<1>2. QED
  BY <1>1, ExecutionInvariance, PTL

\* No interleaving of removals with starts leaves active work without project.
THEOREM ActiveWorkKeepsProject == Spec => []ActiveWorkHasProject
<1>1. ExecutionInv => ActiveWorkHasProject
  BY DEF ExecutionInv, RowsFollowProjects, ActiveWorkHasProject
<1>2. QED
  BY <1>1, ExecutionInvariance, PTL
=============================================================================
