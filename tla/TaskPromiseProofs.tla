------------------------- MODULE TaskPromiseProofs --------------------------
(***************************************************************************)
(* What task execution promises about rows, approvals and stop requests,   *)
(* proved from the invariant of TaskExecutionProofs: each promise is       *)
(* inductive relative to it.                                               *)
(***************************************************************************)
EXTENDS TaskExecutionProofs

USE DEF Idle, Starting, Stopping

\* When the mutex is free, a run whose watcher is not watching has no process.
LEMMA FreeMutexEndedRuns ==
  ASSUME ExecutionInv, call = Idle, NEW r \in Runs, watcher[r] # "watching"
  PROVE  process[r] # "alive"
BY DEF ExecutionInv, BrokerInv, PlacesHoldProcesses, LiveRunsAreWatched, Occupied, CallPlaces, StartPoints

\* Only active rows get a result, and only when their process is no more.
LEMMA StepRecorded ==
  ASSUME TerminateMayFail = FALSE, ExecutionInv, ProcessesAreRecorded, [Next]_vars
  PROVE  ProcessesAreRecorded'
<1> USE DEF ExecutionInv, ProcessesAreRecorded, Alive, TypeOK, BrokerTypeOK, RecordsTypeOK
<1>1. CASE \/ \E r \in Runs, t \in Tasks : StartTask(r, t)
           \/ \E r \in Runs, a \in Approvals : StartApproved(r, a)
           \/ \E a \in Approvals : RejectApproval(a)
  BY <1>1 DEF StartTask, StartApproved, ApproveTask, RejectApproval, ExpireApproval, DenyApproval,
              MoveApproval, brokerVars, recordVars
<1>2. ASSUME NEW r \in Runs, StartThread(r) PROVE ProcessesAreRecorded'
  <2>1. CASE RecordStart(r)
    BY <2>1 DEF RecordStart, StartRecord, InsertRun
  <2>2. CASE SpawnStart(r)
    BY <2>2 DEF SpawnStart, StartSpawn, StartCallsFit, StartPoints, recordVars
  <2>3. CASE FailStart(r)
    BY <2>3 DEF FailStart, StartFail, TryFinish, FinishRun, Finished, Reaped, recordVars
  <2>4. CASE UndoStart(r) \/ RetractRun(r)
    BY <2>4 DEF UndoStart, RetractRun, StopReturn, BrokerInv, StopsHaveEffect, TryFinish,
                FinishRun, Finished, recordVars
  <2>5. CASE AdmitStart(r) \/ RegisterStart(r) \/ AuditFails(r) \/ RetractApproval(r)
             \/ StopRefusedOnce(r) \/ StopOnceMore(r)
    BY <2>5 DEF AdmitStart, StartAdmit, RegisterStart, StartRegister, AuditFails, RetractApproval,
                StopRefusedOnce, StopOnceMore, StopBegin, StopReturn, recordVars
  <2>6. CASE RefuseStart(r) \/ AuditStart(r) \/ ConfirmApproval(r) \/ FailApproval(r)
    BY <2>6 DEF RefuseStart, AuditStart, ConfirmApproval, MarkStarted, FailApproval, MarkFailed,
                MoveApproval, brokerVars, recordVars
  <2>7. QED
    BY <1>2, <2>1, <2>2, <2>3, <2>4, <2>5, <2>6 DEF StartThread
<1>3. ASSUME NEW r \in Runs, StopTask(r) \/ StopThread(r) PROVE ProcessesAreRecorded'
  <2>1. CASE CancelRun(r)
    BY <2>1 DEF CancelRun, StopReturn, BrokerInv, StopsHaveEffect, TryFinish, FinishRun, Finished,
                recordVars
  <2>2. CASE StopTask(r) \/ RefuseStop(r) \/ ContinueStop(r)
    BY <2>2 DEF StopTask, RefuseStop, ContinueStop, StopBegin, StopReturn, StopRemove, StopReap,
                Reaped, recordVars
  <2>3. QED
    BY <1>3, <2>1, <2>2 DEF StopThread
<1>4. ASSUME NEW r \in Runs, ExitThread(r) PROVE ProcessesAreRecorded'
  <2>1. process[r] # "alive"
    BY <1>4, FreeMutexEndedRuns DEF ExitThread, HandleExit, HandleExitFails, CoreFree, Report
  <2>2. QED
    BY <1>4, <2>1 DEF ExitThread, HandleExit, HandleExitFails, Report, FinishRun, Finished, recordVars
<1>5. CASE \E r \in Runs : Environment(r)
  BY <1>5 DEF Environment, ProcessExit, ObserveExit, ObserveReaped, LoseStatus, RequestNormalStop,
              ExitStatuses, Reaped, recordVars
<1>6. CASE Crash
  BY <1>6 DEF Crash, Reaped
<1>7. CASE Reopen \/ FinishRecovery \/ \E a \in Approvals : RecoverApproval(a)
  BY <1>7 DEF Reopen, FinishRecovery, RecoverApproval, MarkFailed, MoveApproval, brokerVars, recordVars
<1>8. CASE \E r \in Runs : RecoverStaleRun(r)
  BY <1>8 DEF RecoverStaleRun, RecoverRun, FinishRun, Finished, DesktopDownIsEmpty, BrokerInv,
              PlacesHoldProcesses, Occupied, CallPlaces, StartPoints, brokerVars
<1>9. CASE Catalog
  BY <1>9, RecordsAssumption DEF Catalog, CatalogStep, RequestApproval, GrowOld, ChangeTask,
              RemoveProject, BelongsTo, brokerVars
<1>10. CASE UNCHANGED vars
  BY <1>10 DEF vars, brokerVars, recordVars
<1>11. QED
  BY <1>1, <1>2, <1>3, <1>4, <1>5, <1>6, <1>7, <1>8, <1>9, <1>10 DEF Next, Recovery

\* Unless the termination of a job object may fail, the guards of
\* remove_project, which read rows only, protect every live process.
THEOREM LiveProcessesAreRecorded ==
  ASSUME TerminateMayFail = FALSE
  PROVE  Spec => []ProcessesAreRecorded
<1>1. Init => ProcessesAreRecorded
  BY DEF Init, BrokerInit, ProcessesAreRecorded, Alive
<1>2. QED
  BY <1>1, StepRecorded, ExecutionInvariance, PTL DEF Spec

-----------------------------------------------------------------------------
\* Rows and approvals in progress keep an owner.

\* Every step keeps an owner for each active row.
LEMMA StepRowsOwned ==
  ASSUME ExecutionInv, RunningRowsAreOwned, [Next]_vars
  PROVE  RunningRowsAreOwned'
<1> USE DEF ExecutionInv, RunningRowsAreOwned, TypeOK, BrokerTypeOK, RecordsTypeOK, Goto, GotoError
<1>1. CASE \/ \E r \in Runs, t \in Tasks : StartTask(r, t)
           \/ \E r \in Runs, a \in Approvals : StartApproved(r, a)
           \/ \E a \in Approvals : RejectApproval(a)
  BY <1>1 DEF StartTask, StartApproved, ApproveTask, RejectApproval, ExpireApproval, DenyApproval,
              MoveApproval, brokerVars, recordVars, adapterVars
<1>2. ASSUME NEW r \in Runs, StartThread(r) PROVE RunningRowsAreOwned'
  <2>1. CASE RecordStart(r)
    BY <2>1 DEF RecordStart, StartRecord, InsertRun, StartCallsFit, StartPoints, adapterVars
  <2>2. CASE FailStart(r) \/ UndoStart(r) \/ RetractRun(r)
    BY <2>2 DEF FailStart, StartFail, UndoStart, RetractRun, StopReturn, TryFinish, FinishRun,
                Finished, recordVars
  <2>3. CASE AdmitStart(r) \/ SpawnStart(r) \/ RegisterStart(r)
    BY <2>3 DEF AdmitStart, StartAdmit, SpawnStart, StartSpawn, RegisterStart, StartRegister,
                recordVars, adapterVars
  <2>4. CASE AuditFails(r) \/ RetractApproval(r) \/ StopRefusedOnce(r) \/ StopOnceMore(r)
    BY <2>4 DEF AuditFails, RetractApproval, StopRefusedOnce, StopOnceMore, StopBegin, StopReturn,
                recordVars, adapterVars
  <2>5. CASE RefuseStart(r) \/ AuditStart(r) \/ ConfirmApproval(r) \/ FailApproval(r)
    BY <2>5 DEF RefuseStart, AuditStart, ConfirmApproval, MarkStarted, FailApproval, MarkFailed,
                MoveApproval, brokerVars, recordVars
  <2>6. QED
    BY <1>2, <2>1, <2>2, <2>3, <2>4, <2>5 DEF StartThread
<1>3. CASE \E r \in Runs : StopTask(r) \/ StopThread(r)
  BY <1>3 DEF StopTask, StopThread, CancelRun, RefuseStop, ContinueStop, StopBegin, StopReturn,
              StopRemove, StopReap, TryFinish, FinishRun, Finished, recordVars, adapterVars
<1>4. CASE \E r \in Runs : ExitThread(r)
  BY <1>4 DEF ExitThread, HandleExit, HandleExitFails, Report, FinishRun, Finished, Outcome, recordVars
<1>5. CASE \E r \in Runs : Environment(r)
  BY <1>5 DEF Environment, ProcessExit, ObserveExit, ObserveReaped, LoseStatus, RequestNormalStop,
              recordVars, adapterVars
<1>6. CASE Crash \/ Reopen
  BY <1>6 DEF Crash, Reopen
<1>7. CASE Recovery
  BY <1>7 DEF Recovery, RecoverApproval, RecoverStaleRun, FinishRecovery, recordVars, adapterVars
<1>8. CASE Catalog
  BY <1>8 DEF Catalog, CatalogStep, RequestApproval, GrowOld, ChangeTask, RemoveProject,
              brokerVars, adapterVars
<1>9. CASE UNCHANGED vars
  BY <1>9 DEF vars, brokerVars, recordVars, adapterVars
<1>10. QED
  BY <1>1, <1>2, <1>3, <1>4, <1>5, <1>6, <1>7, <1>8, <1>9 DEF Next

\* No row says "running" without a thread that will write its result, unless
\* a write failed.
THEOREM RunningRowsOwned == Spec => []RunningRowsAreOwned
<1>1. Init => RunningRowsAreOwned
  BY DEF Init, RecordsInit, RunningRowsAreOwned
<1>2. QED
  BY <1>1, StepRowsOwned, ExecutionInvariance, PTL DEF Spec

\* Every step keeps an owner for each approval being started.
LEMMA StepApprovalsOwned ==
  ASSUME ExecutionInv, StartingApprovalsAreOwned, [Next]_vars
  PROVE  StartingApprovalsAreOwned'
<1> USE DEF ExecutionInv, StartingApprovalsAreOwned, TypeOK, RecordsTypeOK, ApprovalRows, Specs, Goto
<1>1. CASE \E r \in Runs, t \in Tasks : StartTask(r, t)
  BY <1>1 DEF StartTask, recordVars
<1>2. CASE \E r \in Runs, a \in Approvals : StartApproved(r, a)
  <2>1. PICK r \in Runs, a \in Approvals : StartApproved(r, a)
    BY <1>2
  <2>2. thread[r] = "idle" /\ thread'[r] = "prepared" /\ spec'[r].cause = a
    BY <2>1 DEF StartApproved
  <2>3. \A q \in Runs : q # r => spec'[q] = spec[q] /\ thread'[q] = thread[q]
    BY <2>1 DEF StartApproved
  <2>4. \A b \in Approvals : b # a => approval'[b] = approval[b]
    BY <2>1 DEF StartApproved, ApproveTask, MoveApproval
  <2>5. QED
    BY <2>1, <2>2, <2>3, <2>4 DEF StartApproved
<1>3. CASE \E a \in Approvals : RejectApproval(a)
  BY <1>3 DEF RejectApproval, ExpireApproval, DenyApproval, MoveApproval, adapterVars
<1>4. ASSUME NEW r \in Runs, StartThread(r) PROVE StartingApprovalsAreOwned'
  <2>1. CASE RefuseStart(r) \/ FailStart(r) \/ UndoStart(r)
    BY <2>1, ExecutionAssumption DEF RefuseStart, FailStart, UndoStart, GotoError, TryFinish, FinishRun, recordVars
  <2>2. CASE AdmitStart(r) \/ RegisterStart(r) \/ AuditFails(r) \/ RetractApproval(r)
    BY <2>2 DEF AdmitStart, RegisterStart, AuditFails, RetractApproval, recordVars
  <2>3. CASE AuditStart(r)
    BY <2>3, ExecutionAssumption DEF AuditStart, recordVars
  <2>4. CASE RetractRun(r)
    BY <2>4 DEF RetractRun, TryFinish, FinishRun, recordVars
  <2>5. CASE RecordStart(r) \/ SpawnStart(r) \/ StopRefusedOnce(r) \/ StopOnceMore(r)
    BY <2>5 DEF RecordStart, InsertRun, SpawnStart, StopRefusedOnce, StopOnceMore, recordVars, adapterVars
  <2>6. CASE ConfirmApproval(r)
    BY <2>6 DEF ConfirmApproval, MarkStarted, SpecsFitThreads
  <2>7. CASE FailApproval(r)
    BY <2>7 DEF FailApproval, MarkFailed, MoveApproval, SpecsFitThreads, recordVars
  <2>8. QED
    BY <1>4, <2>1, <2>2, <2>3, <2>4, <2>5, <2>6, <2>7 DEF StartThread
<1>5. CASE \E r \in Runs : StopTask(r) \/ StopThread(r) \/ ExitThread(r) \/ Environment(r)
  BY <1>5 DEF StopTask, StopThread, CancelRun, RefuseStop, ContinueStop, ExitThread, HandleExit,
              HandleExitFails, Environment, TryFinish, FinishRun, recordVars, adapterVars
<1>6. CASE Crash \/ Reopen
  BY <1>6 DEF Crash, Reopen
<1>7. CASE Recovery
  BY <1>7 DEF Recovery, RecoverApproval, RecoverStaleRun, FinishRecovery, NoneStarting, recordVars, adapterVars
<1>8. CASE Catalog
  <2>1. \A a \in Approvals : approval'[a].status = "starting" => approval[a].status = "starting"
    <3>1. CASE \E a \in Approvals, t \in Tasks : RequestApproval(a, t)
      BY <3>1 DEF RequestApproval, NoApproval
    <3>2. CASE \E a \in Approvals : GrowOld(a)
      BY <3>2 DEF GrowOld
    <3>3. CASE \E p \in Projects : RemoveProject(p)
      BY <3>3 DEF RemoveProject
    <3>4. QED
      BY <1>8, <3>1, <3>2, <3>3 DEF Catalog, CatalogStep, ChangeTask
  <2>2. QED
    BY <1>8, <2>1 DEF Catalog, adapterVars
<1>9. CASE UNCHANGED vars
  BY <1>9 DEF vars, recordVars, adapterVars
<1>10. QED
  BY <1>1, <1>2, <1>3, <1>4, <1>5, <1>6, <1>7, <1>8, <1>9 DEF Next

\* No approval is being started without a thread that will resolve it, unless
\* a write failed: none blocks the removal of its project for ever.
THEOREM StartingApprovalsOwned == Spec => []StartingApprovalsAreOwned
<1>1. Init => StartingApprovalsAreOwned
  BY DEF Init, RecordsInit, NoApproval, StartingApprovalsAreOwned
<1>2. QED
  BY <1>1, StepApprovalsOwned, ExecutionInvariance, PTL DEF Spec

-----------------------------------------------------------------------------
\* What a step may never do to a result, to consent or to a stop request.

RunMoveOf(r) == status'[r] # status[r] => <<status[r], status'[r]>> \in RunMoves

\* A result is given to an active row only.
LEMMA FinishMoves ==
  ASSUME RecordsTypeOK, NEW r \in Runs, NEW s \in TerminalStatuses,
         FinishRun(r, s) \/ TryFinish(r, s)
  PROVE  \A q \in Runs : RunMoveOf(q)
BY DEF RecordsTypeOK, FinishRun, TryFinish, Finished, RunMoveOf, RunMoves, TerminalStatuses, recordVars

\* Every step changes a row's status along RunMoves.
LEMMA StepMoves ==
  ASSUME ExecutionInv, [Next]_vars
  PROVE  \A r \in Runs : RunMoveOf(r)
<1> USE DEF ExecutionInv, TypeOK
<1>1. CASE \/ \E r \in Runs, t \in Tasks : StartTask(r, t)
           \/ \E r \in Runs, a \in Approvals : StartApproved(r, a)
           \/ \E a \in Approvals : RejectApproval(a)
  BY <1>1 DEF StartTask, StartApproved, ApproveTask, RejectApproval, ExpireApproval, DenyApproval,
              MoveApproval, recordVars, RunMoveOf
<1>2. ASSUME NEW r \in Runs, StartThread(r) PROVE \A q \in Runs : RunMoveOf(q)
  <2>1. CASE RecordStart(r)
    BY <2>1 DEF RecordStart, InsertRun, RecordsTypeOK, RunMoveOf, RunMoves
  <2>2. CASE FailStart(r) \/ UndoStart(r) \/ RetractRun(r)
    BY <2>2, FinishMoves DEF FailStart, UndoStart, RetractRun, TerminalStatuses
  <2>3. CASE RefuseStart(r) \/ AdmitStart(r) \/ SpawnStart(r) \/ RegisterStart(r) \/ AuditStart(r)
             \/ AuditFails(r) \/ RetractApproval(r) \/ StopRefusedOnce(r) \/ StopOnceMore(r)
    BY <2>3 DEF RefuseStart, AdmitStart, SpawnStart, RegisterStart, AuditStart, AuditFails,
                RetractApproval, StopRefusedOnce, StopOnceMore, recordVars, RunMoveOf
  <2>4. CASE ConfirmApproval(r) \/ FailApproval(r)
    BY <2>4 DEF ConfirmApproval, MarkStarted, FailApproval, MarkFailed, MoveApproval, recordVars, RunMoveOf
  <2>5. QED
    BY <1>2, <2>1, <2>2, <2>3, <2>4 DEF StartThread
<1>3. CASE \E r \in Runs : CancelRun(r) \/ HandleExit(r)
  BY <1>3, FinishMoves DEF CancelRun, HandleExit, Outcome, TerminalStatuses
<1>4. CASE \E r \in Runs : StopTask(r) \/ RefuseStop(r) \/ ContinueStop(r) \/ HandleExitFails(r)
                            \/ Environment(r)
  BY <1>4 DEF StopTask, RefuseStop, ContinueStop, HandleExitFails, Environment, recordVars, RunMoveOf
<1>5. CASE Crash \/ Reopen \/ FinishRecovery \/ \E a \in Approvals : RecoverApproval(a)
  BY <1>5 DEF Crash, Reopen, FinishRecovery, RecoverApproval, MarkFailed, MoveApproval, recordVars, RunMoveOf
<1>6. CASE \E r \in Runs : RecoverStaleRun(r)
  BY <1>6, FinishMoves DEF RecoverStaleRun, RecoverRun, TerminalStatuses
<1>7. CASE \E p \in Projects : RemoveProject(p)
  BY <1>7, RecordsAssumption DEF RemoveProject, BelongsTo, RowsFollowProjects, RecordsTypeOK,
              RunStatuses, TerminalStatuses, RunMoveOf, RunMoves
<1>8. CASE Catalog /\ ~ \E p \in Projects : RemoveProject(p)
  BY <1>8 DEF Catalog, CatalogStep, RequestApproval, GrowOld, ChangeTask, RunMoveOf
<1>9. CASE UNCHANGED vars
  BY <1>9 DEF vars, recordVars, RunMoveOf
<1>10. QED
  BY <1>1, <1>2, <1>3, <1>4, <1>5, <1>6, <1>7, <1>8, <1>9
     DEF Next, StopThread, ExitThread, Recovery, Catalog, CatalogStep

\* A Task Run that has a result keeps it until its project is removed, and a
\* row without a result is never removed.
THEOREM FinalResults == Spec => ResultsAreFinal
<1>1. ExecutionInv /\ [Next]_vars =>
        [\A r \in Runs : status'[r] # status[r] => <<status[r], status'[r]>> \in RunMoves]_status
  BY StepMoves DEF RunMoveOf
<1>2. QED
  BY <1>1, ExecutionInvariance, PTL DEF Spec, ResultsAreFinal

\* A thread at these places has no process yet, or no more.
Processless == {"prepared", "errored", "condemned"}

\* An approval that failed, or whose start is about to fail it, has no process.
FailedApprovalsRunNothing ==
  \A r \in Runs :
    /\ thread[r] \in Processless => process[r] # "alive"
    /\ spec[r].cause # NoCause /\ approval[spec[r].cause].status = "failed" => process[r] # "alive"

\* What starts no process and fails no approval keeps it so.
LEMMA FailedFrame ==
  ASSUME TypeOK, FailedApprovalsRunNothing,
         \A r \in Runs :
           /\ process'[r] = "alive" => process[r] = "alive"
           /\ thread'[r] \in Processless =>
                thread[r] \in Processless \/ process'[r] # "alive"
           /\ spec'[r].cause # NoCause => spec'[r].cause = spec[r].cause \/ process'[r] # "alive",
         \A a \in Approvals : approval'[a].status = "failed" =>
           \/ approval[a].status = "failed"
           \/ \A r \in Runs : spec[r].cause = a => process[r] # "alive"
  PROVE  FailedApprovalsRunNothing'
<1> SUFFICES ASSUME NEW r \in Runs, process'[r] = "alive"
             PROVE  /\ thread'[r] \notin Processless
                    /\ spec'[r].cause # NoCause => approval'[spec'[r].cause].status # "failed"
  BY DEF FailedApprovalsRunNothing
<1>1. spec[r].cause \in Approvals \cup {NoCause}
  BY DEF TypeOK, Specs
<1>2. QED
  BY <1>1 DEF FailedApprovalsRunNothing

\* Every step keeps it: a start ends, and recovery fails its approval, only
\* after the process.
LEMMA StepFailed ==
  ASSUME TerminateMayFail = FALSE, ExecutionInv, ProcessesAreRecorded, FailedApprovalsRunNothing, [Next]_vars
  PROVE  FailedApprovalsRunNothing'
<1> USE DEF ExecutionInv, TypeOK, BrokerTypeOK, RecordsTypeOK
<1> DEFINE NoBirth == \A r \in Runs : process'[r] = "alive" => process[r] = "alive"
           NoError == \A r \in Runs : thread'[r] \in Processless =>
                        thread[r] \in Processless \/ process'[r] # "alive"
           NoFailure == \A a \in Approvals : approval'[a].status = "failed" => approval[a].status = "failed"
<1>1. CASE \/ \E r \in Runs, t \in Tasks : StartTask(r, t)
           \/ \E r \in Runs, a \in Approvals : StartApproved(r, a)
  <2>1. PICK r \in Runs : /\ thread[r] = "idle" /\ \A q \in Runs \ {r} : spec'[q] = spec[q]
                         /\ thread' = [thread EXCEPT ![r] = "prepared"] /\ process' = process
    BY <1>1 DEF StartTask, StartApproved, Goto, brokerVars
  <2>2. process[r] # "alive"
    BY <2>1 DEF SpecsFitThreads, ProcessesAreRecorded, Alive
  <2>3. NoFailure
    BY <1>1 DEF StartTask, StartApproved, ApproveTask, MoveApproval, ApprovalRows, recordVars
  <2>4. QED
    BY <2>1, <2>2, <2>3, FailedFrame
<1>2. ASSUME NEW r \in Runs, StartThread(r) PROVE FailedApprovalsRunNothing'
  <2>1. CASE SpawnStart(r)
    <3>1. /\ thread[r] = "starting" /\ thread[r] \notin Processless /\ UNCHANGED <<thread, spec, approval>>
          /\ process' = [process EXCEPT ![r] = "alive"]
      BY <2>1 DEF SpawnStart, StartSpawn, StartCallsFit, StartPoints, Processless, recordVars, adapterVars
    <3>2. spec[r].cause # NoCause => approval[spec[r].cause].status # "failed"
      BY <3>1 DEF CausesAreStarting
    <3>3. QED
      BY <3>1, <3>2 DEF FailedApprovalsRunNothing
  <2>2. CASE FailApproval(r)
    <3> DEFINE a == spec[r].cause
    <3>1. /\ thread[r] \in {"errored", "condemned"} /\ thread' = [thread EXCEPT ![r] = "done"]
          /\ UNCHANGED <<process, spec>>
          /\ \A b \in Approvals : approval'[b].status = "failed" => approval[b].status = "failed" \/ b = a
      BY <2>2 DEF FailApproval, MarkFailed, MoveApproval, Goto, brokerVars, recordVars
    <3>2. process[r] # "alive" /\ a # NoCause
      BY <3>1 DEF FailedApprovalsRunNothing, SpecsFitThreads, Processless
    <3>3. \A q \in Runs : spec[q].cause = a => q = r
      BY <3>2 DEF ConsentIsSpentOnce
    <3> HIDE DEF a
    <3>4. QED
      BY <3>1, <3>2, <3>3, FailedFrame DEF Processless
  <2>3. CASE FailStart(r) \/ RefuseStart(r) \/ UndoStart(r) \/ RetractRun(r)
    <3>1. process'[r] # "alive"
      <4>1. CASE FailStart(r)
        BY <4>1 DEF FailStart, StartFail, Reaped
      <4>2. CASE UndoStart(r) \/ RetractRun(r)
        BY <4>2 DEF UndoStart, RetractRun, StopReturn, BrokerInv, StopsHaveEffect
      <4>3. CASE RefuseStart(r)
        BY <4>3 DEF RefuseStart, FailedApprovalsRunNothing, Processless, brokerVars
      <4>4. QED
        BY <2>3, <4>1, <4>2, <4>3
    <3>2. \A q \in Runs \ {r} : thread'[q] = thread[q] /\ process'[q] = process[q]
      BY <2>3 DEF FailStart, RefuseStart, UndoStart, RetractRun, GotoError, Goto, StartFail, StopReturn, brokerVars
    <3>3. UNCHANGED <<spec, approval>>
      BY <2>3 DEF FailStart, RefuseStart, UndoStart, RetractRun, TryFinish, FinishRun, recordVars
    <3>4. QED
      BY <3>1, <3>2, <3>3, FailedFrame
  <2>4. CASE \/ AdmitStart(r) \/ RecordStart(r) \/ RegisterStart(r) \/ AuditStart(r) \/ AuditFails(r)
             \/ ConfirmApproval(r) \/ RetractApproval(r) \/ StopRefusedOnce(r) \/ StopOnceMore(r)
    <3>1. UNCHANGED <<process, spec>>
      BY <2>4 DEF AdmitStart, StartAdmit, RecordStart, StartRecord, RegisterStart, StartRegister, AuditStart,
                  AuditFails, ConfirmApproval, RetractApproval, StopRefusedOnce, StopOnceMore, StopBegin,
                  StopReturn, brokerVars, adapterVars
    <3>2. \A q \in Runs : thread'[q] = thread[q] \/ thread'[q] \notin Processless
      BY <2>4 DEF AdmitStart, RecordStart, RegisterStart, AuditStart, AuditFails, ConfirmApproval,
                  RetractApproval, StopRefusedOnce, StopOnceMore, Goto, Processless, adapterVars
    <3>3. NoFailure
      BY <2>4 DEF AdmitStart, RecordStart, InsertRun, RegisterStart, AuditStart, AuditFails, ConfirmApproval,
                  MarkStarted, RetractApproval, StopRefusedOnce, StopOnceMore, ApprovalRows, recordVars
    <3>4. QED
      BY <3>1, <3>2, <3>3, FailedFrame
  <2>5. QED
    BY <1>2, <2>1, <2>2, <2>3, <2>4 DEF StartThread
<1>3. CASE \E r \in Runs : StopTask(r) \/ StopThread(r) \/ ExitThread(r) \/ Environment(r)
  <2>1. NoBirth
    BY <1>3 DEF StopTask, StopThread, CancelRun, RefuseStop, ContinueStop, StopBegin, StopReturn, StopRemove,
                StopReap, ExitThread, HandleExit, HandleExitFails, Report, Environment, ProcessExit, ObserveExit,
                ObserveReaped, LoseStatus, RequestNormalStop, ExitStatuses, Reaped
  <2>2. UNCHANGED <<thread, spec, approval>>
    BY <1>3 DEF StopTask, StopThread, CancelRun, RefuseStop, ContinueStop, ExitThread, HandleExit, HandleExitFails,
                Environment, TryFinish, FinishRun, recordVars, adapterVars
  <2>3. QED
    BY <2>1, <2>2, FailedFrame
<1>4. CASE Crash
  <2>1. \A r \in Runs : process'[r] # "alive"
    BY <1>4 DEF Crash, Reaped
  <2>2. QED
    BY <2>1 DEF FailedApprovalsRunNothing
<1>5. CASE Reopen \/ Recovery
  <2>1. \A r \in Runs : process[r] # "alive"
    BY <1>5 DEF Reopen, Recovery, RecoverApproval, RecoverStaleRun, FinishRecovery, DesktopDownIsEmpty, BrokerInv,
                PlacesHoldProcesses, Occupied, CallPlaces, StartPoints
  <2>2. process' = process
    BY <1>5 DEF Reopen, Recovery, RecoverApproval, RecoverStaleRun, FinishRecovery, brokerVars
  <2>3. QED
    BY <2>1, <2>2 DEF FailedApprovalsRunNothing
<1>6. CASE Catalog \/ \E a \in Approvals : RejectApproval(a)
  <2>1. UNCHANGED <<process, thread, spec>>
    BY <1>6 DEF Catalog, RejectApproval, brokerVars, adapterVars
  <2>2. NoFailure
    <3>1. CASE \E a \in Approvals : RejectApproval(a)
      BY <3>1 DEF RejectApproval, ExpireApproval, DenyApproval, MoveApproval, ApprovalRows
    <3>2. CASE \E a \in Approvals, t \in Tasks : RequestApproval(a, t)
      BY <3>2 DEF RequestApproval, NoApproval
    <3>3. CASE \E a \in Approvals : GrowOld(a)
      BY <3>3 DEF GrowOld, ApprovalRows
    <3>4. CASE \E p \in Projects : RemoveProject(p)
      BY <3>4 DEF RemoveProject, ApprovalRows
    <3>5. CASE \E t \in Tasks, d \in Definitions \cup {Absent} : ChangeTask(t, d)
      BY <3>5 DEF ChangeTask
    <3>6. QED
      BY <1>6, <3>1, <3>2, <3>3, <3>4, <3>5 DEF Catalog, CatalogStep
  <2>3. QED
    BY <2>1, <2>2, FailedFrame
<1>7. CASE UNCHANGED vars
  BY <1>7, FailedFrame DEF vars, brokerVars, recordVars, adapterVars
<1>8. QED
  BY <1>1, <1>2, <1>3, <1>4, <1>5, <1>6, <1>7 DEF Next

\* A process that runs on somebody's consent has an approval that says so.
THEOREM ApprovedProcessesOwned ==
  ASSUME TerminateMayFail = FALSE
  PROVE  Spec => []ApprovedProcessesAreOwned
<1>1. Init => ProcessesAreRecorded /\ FailedApprovalsRunNothing
  BY DEF Init, BrokerInit, ProcessesAreRecorded, Alive, FailedApprovalsRunNothing, Processless
<1>2. ASSUME ExecutionInv, ProcessesAreRecorded, FailedApprovalsRunNothing PROVE ApprovedProcessesAreOwned
  <2> SUFFICES ASSUME NEW r \in Runs, process[r] = "alive", spec[r].cause # NoCause
               PROVE  approval[spec[r].cause].status \in {"starting", "started"}
    BY DEF ApprovedProcessesAreOwned, Alive
  <2> DEFINE a == spec[r].cause
  <2>1. status[r] = "running" /\ a \in Approvals
    BY <1>2 DEF ProcessesAreRecorded, Alive, ExecutionInv, TypeOK, Specs
  <2>2. /\ spec[r].task = approval[a].task
        /\ approval[a].status \in {"starting", "started", "failed", "deleted"}
    BY <1>2 DEF ExecutionInv, ConsentIsSpentOnce
  <2>3. approval[a].status # "failed"
    BY <1>2 DEF FailedApprovalsRunNothing
  <2>4. approval[a].status # "deleted"
    BY <1>2, <2>1, <2>2 DEF ExecutionInv, RowsFollowProjects
  <2>5. QED
    BY <2>2, <2>3, <2>4
<1>3. QED
  BY <1>1, <1>2, StepRecorded, StepFailed, ExecutionInvariance, PTL DEF Spec

-----------------------------------------------------------------------------
\* A normal stop is a promise about the run's result.

StopKept(r) ==
  (r \in stopRequests /\ status[r] = "running" /\ status'[r] # "running") =>
    \/ status'[r] = "cancelled"
    \/ thread[r] \in {"undoing", "retracting"}
    \/ desktop = "down"

\* A step that writes the result of one run breaks no promise to the others.
LEMMA OtherStopsKept ==
  ASSUME RecordsTypeOK, NEW r \in Runs, NEW s \in TerminalStatuses,
         FinishRun(r, s) \/ TryFinish(r, s)
  PROVE  \A q \in Runs \ {r} : StopKept(q)
BY DEF RecordsTypeOK, FinishRun, TryFinish, Finished, StopKept, recordVars

\* Every step that ends a run with an accepted stop request cancels it.
LEMMA StepStops ==
  ASSUME ExecutionInv, [Next]_vars
  PROVE  \A r \in Runs : StopKept(r)
<1> USE DEF ExecutionInv, TypeOK
<1>1. CASE \/ \E r \in Runs, t \in Tasks : StartTask(r, t)
           \/ \E r \in Runs, a \in Approvals : StartApproved(r, a)
           \/ \E a \in Approvals : RejectApproval(a)
  BY <1>1 DEF StartTask, StartApproved, ApproveTask, RejectApproval, ExpireApproval, DenyApproval,
              MoveApproval, recordVars, StopKept
<1>2. ASSUME NEW r \in Runs, StartThread(r) PROVE \A q \in Runs : StopKept(q)
  <2>1. CASE RecordStart(r)
    BY <2>1 DEF RecordStart, InsertRun, RecordsTypeOK, StopKept
  <2>2. CASE FailStart(r)
    <3>1. r \notin stopRequests
      BY <2>2 DEF FailStart, StartFail, StartCallsFit, BrokerInv, StopRequestsAreAwaited
    <3>2. \A q \in Runs \ {r} : StopKept(q)
      BY <2>2, OtherStopsKept DEF FailStart, TerminalStatuses
    <3>3. QED
      BY <3>1, <3>2 DEF StopKept
  <2>3. CASE UndoStart(r) \/ RetractRun(r)
    <3>1. \A q \in Runs \ {r} : StopKept(q)
      BY <2>3, OtherStopsKept DEF UndoStart, RetractRun, TerminalStatuses
    <3>2. QED
      BY <2>3, <3>1 DEF UndoStart, RetractRun, StopKept
  <2>4. CASE RefuseStart(r) \/ AdmitStart(r) \/ SpawnStart(r) \/ RegisterStart(r) \/ AuditStart(r)
             \/ AuditFails(r) \/ RetractApproval(r) \/ StopRefusedOnce(r) \/ StopOnceMore(r)
    BY <2>4 DEF RefuseStart, AdmitStart, SpawnStart, RegisterStart, AuditStart, AuditFails,
                RetractApproval, StopRefusedOnce, StopOnceMore, recordVars, StopKept
  <2>5. CASE ConfirmApproval(r) \/ FailApproval(r)
    BY <2>5 DEF ConfirmApproval, MarkStarted, FailApproval, MarkFailed, MoveApproval, recordVars, StopKept
  <2>6. QED
    BY <1>2, <2>1, <2>2, <2>3, <2>4, <2>5 DEF StartThread
<1>3. ASSUME NEW r \in Runs, CancelRun(r) \/ HandleExit(r) PROVE \A q \in Runs : StopKept(q)
  <2>1. \A q \in Runs \ {r} : StopKept(q)
    BY <1>3, OtherStopsKept DEF CancelRun, HandleExit, Outcome, TerminalStatuses
  <2>2. StopKept(r)
    BY <1>3 DEF CancelRun, HandleExit, Outcome, TryFinish, FinishRun, Finished, RecordsTypeOK,
                recordVars, StopKept
  <2>3. QED
    BY <2>1, <2>2
<1>4. CASE \E r \in Runs : StopTask(r) \/ RefuseStop(r) \/ ContinueStop(r) \/ HandleExitFails(r)
                            \/ Environment(r)
  BY <1>4 DEF StopTask, RefuseStop, ContinueStop, HandleExitFails, Environment, recordVars, StopKept
<1>5. CASE Crash \/ Reopen
  BY <1>5 DEF Crash, Reopen, recordVars, StopKept
<1>6. CASE Recovery
  BY <1>6 DEF Recovery, RecoverApproval, RecoverStaleRun, FinishRecovery, DesktopDownIsEmpty, StopKept
<1>7. CASE \E p \in Projects : RemoveProject(p)
  BY <1>7, RecordsAssumption DEF RemoveProject, BelongsTo, RowsFollowProjects, StopKept
<1>8. CASE Catalog /\ ~ \E p \in Projects : RemoveProject(p)
  BY <1>8 DEF Catalog, CatalogStep, RequestApproval, GrowOld, ChangeTask, StopKept
<1>9. CASE UNCHANGED vars
  BY <1>9 DEF vars, recordVars, StopKept
<1>10. QED
  BY <1>1, <1>2, <1>3, <1>4, <1>5, <1>6, <1>7, <1>8, <1>9
     DEF Next, StopThread, ExitThread, Catalog, CatalogStep

\* A run whose normal stop was accepted ends as cancelled, whoever observes
\* its exit and with whatever code.
THEOREM NormalStopsCancel == Spec => NormalStopsEndCancelled
<1>1. ExecutionInv /\ [Next]_vars =>
        [\A r \in Runs :
           (r \in stopRequests /\ status[r] = "running" /\ status'[r] # "running") =>
             \/ status'[r] = "cancelled"
             \/ thread[r] \in {"undoing", "retracting"}
             \/ desktop = "down"]_vars
  BY StepStops DEF StopKept
<1>2. QED
  BY <1>1, ExecutionInvariance, PTL DEF Spec, NormalStopsEndCancelled

-----------------------------------------------------------------------------
\* Started approvals and their runs.

StartedApprovalsHaveRun ==
  \A a \in Approvals : approval[a].status = "started" =>
    /\ approval[a].run \in Runs
    /\ spec[approval[a].run].cause = a
    /\ status[approval[a].run] # "none"

\* What leaves started approvals, specs and rows in place keeps the relation.
LEMMA StartedFrame ==
  ASSUME StartedApprovalsHaveRun,
         \A a \in Approvals : approval'[a].status = "started" =>
           approval[a].status = "started" /\ approval'[a].run = approval[a].run,
         \A r \in Runs : spec[r].cause # NoCause => spec'[r] = spec[r],
         \A r \in Runs : status[r] # "none" => status'[r] # "none"
  PROVE  StartedApprovalsHaveRun'
BY ExecutionAssumption DEF StartedApprovalsHaveRun

\* Every step keeps the run of a started approval.
LEMMA StepStarted ==
  ASSUME ExecutionInv, StartedApprovalsHaveRun, [Next]_vars
  PROVE  StartedApprovalsHaveRun'
<1> DEFINE KeepsStarted == \A a \in Approvals : approval'[a].status = "started" =>
                approval[a].status = "started" /\ approval'[a].run = approval[a].run
           KeepsSpecs == \A r \in Runs : spec[r].cause # NoCause => spec'[r] = spec[r]
           KeepsRows == \A r \in Runs : status[r] # "none" => status'[r] # "none"
<1>1. KeepsRows
  BY StepMoves DEF RunMoveOf, RunMoves
<1> USE DEF ExecutionInv, TypeOK, RecordsTypeOK
<1>2. KeepsSpecs
  <2>1. CASE \/ \E r \in Runs, t \in Tasks : StartTask(r, t)
             \/ \E r \in Runs, a \in Approvals : StartApproved(r, a)
    BY <2>1 DEF StartTask, StartApproved, SpecsFitThreads, NoSpec
  <2>2. CASE \E r \in Runs : StartThread(r)
    BY <2>2 DEF StartThread, RefuseStart, AdmitStart, RecordStart, SpawnStart, FailStart,
                RegisterStart, AuditStart, AuditFails, UndoStart, ConfirmApproval, RetractApproval,
                StopRefusedOnce, StopOnceMore, RetractRun, FailApproval, adapterVars
  <2>3. CASE \/ \E r \in Runs : StopTask(r) \/ StopThread(r) \/ ExitThread(r) \/ Environment(r)
             \/ \E a \in Approvals : RejectApproval(a)
    BY <2>3 DEF StopTask, StopThread, CancelRun, RefuseStop, ContinueStop, ExitThread, HandleExit,
                HandleExitFails, Environment, RejectApproval, adapterVars
  <2>4. CASE Crash \/ Reopen \/ Recovery \/ Catalog \/ UNCHANGED vars
    BY <2>4 DEF Crash, Reopen, Recovery, RecoverApproval, RecoverStaleRun, FinishRecovery, Catalog,
                vars, adapterVars
  <2>5. QED
    BY <2>1, <2>2, <2>3, <2>4 DEF Next
<1>3. CASE \E r \in Runs : ConfirmApproval(r)
  <2>1. PICK r \in Runs : ConfirmApproval(r)
    BY <1>3
  <2>2. spec[r].cause \in Approvals /\ status[r] # "none"
    BY <2>1 DEF ConfirmApproval, SpecsFitThreads, RegisteredRunsAreRecorded, Specs
  <2>3. /\ approval'[spec[r].cause].run = r
        /\ \A a \in Approvals : a # spec[r].cause => approval'[a] = approval[a]
        /\ UNCHANGED <<spec, status>>
    BY <2>1, <2>2 DEF ConfirmApproval, MarkStarted, ApprovalRows
  <2>4. QED
    BY <2>2, <2>3 DEF StartedApprovalsHaveRun
<1>4. CASE /\ ~ \E r \in Runs : ConfirmApproval(r)
           /\ \E r \in Runs : StartThread(r)
  <2>1. KeepsStarted
    BY <1>4 DEF StartThread, RefuseStart, AdmitStart, RecordStart, InsertRun, SpawnStart, FailStart,
                RegisterStart, AuditStart, AuditFails, UndoStart, RetractApproval,
                StopRefusedOnce, StopOnceMore, RetractRun, FailApproval, MarkFailed, MoveApproval,
                TryFinish, FinishRun, recordVars, ApprovalRows
  <2>2. QED
    BY <1>1, <1>2, <2>1, StartedFrame
<1>5. CASE \/ \E r \in Runs, a \in Approvals : StartApproved(r, a)
           \/ \E a \in Approvals : RejectApproval(a)
           \/ \E a \in Approvals : RecoverApproval(a)
  <2>1. PICK a \in Approvals, s \in {"expired", "denied", "starting", "failed"},
             f \in {"pending", "starting"} : MoveApproval(a, f, s)
    BY <1>5 DEF StartApproved, ApproveTask, RejectApproval, ExpireApproval, DenyApproval,
                RecoverApproval, MarkFailed
  <2>2. KeepsStarted
    BY <2>1 DEF MoveApproval, ApprovalRows
  <2>3. QED
    BY <1>1, <1>2, <2>2, StartedFrame
<1>6. CASE \/ \E r \in Runs, t \in Tasks : StartTask(r, t)
           \/ \E r \in Runs : StopTask(r) \/ StopThread(r) \/ ExitThread(r) \/ Environment(r)
           \/ Crash \/ Reopen \/ FinishRecovery \/ UNCHANGED vars
           \/ \E r \in Runs : RecoverStaleRun(r)
  <2>1. KeepsStarted
    BY <1>6 DEF StartTask, StopTask, StopThread, CancelRun, RefuseStop, ContinueStop, ExitThread,
                HandleExit, HandleExitFails, Environment, TryFinish, FinishRun, Crash, Reopen,
                RecoverStaleRun, RecoverRun, FinishRecovery, vars, recordVars
  <2>2. QED
    BY <1>1, <1>2, <2>1, StartedFrame
<1>7. CASE Catalog
  <2>1. KeepsStarted
    <3>1. CASE \E a \in Approvals, t \in Tasks : RequestApproval(a, t)
      BY <3>1 DEF RequestApproval, NoApproval
    <3>2. CASE \E a \in Approvals : GrowOld(a)
      BY <3>2 DEF GrowOld, ApprovalRows
    <3>3. CASE \E p \in Projects : RemoveProject(p)
      BY <3>3 DEF RemoveProject, ApprovalRows
    <3>4. CASE \E t \in Tasks, d \in Definitions \cup {Absent} : ChangeTask(t, d)
      BY <3>4 DEF ChangeTask
    <3>5. QED
      BY <1>7, <3>1, <3>2, <3>3, <3>4 DEF Catalog, CatalogStep
  <2>2. QED
    BY <1>1, <1>2, <2>1, StartedFrame
<1>8. QED
  BY <1>3, <1>4, <1>5, <1>6, <1>7 DEF Next, Recovery

\* The run of a started approval has a row that is not deleted.
LEMMA StartedRunsExist ==
  ASSUME ExecutionInv, StartedApprovalsHaveRun
  PROVE  StartedApprovalsNameTheirRun
<1> SUFFICES ASSUME NEW a \in Approvals, approval[a].status = "started"
             PROVE  /\ spec[approval[a].run].cause = a
                    /\ status[approval[a].run] \in {"running"} \cup TerminalStatuses
  BY DEF StartedApprovalsNameTheirRun
<1> DEFINE r == approval[a].run
<1>1. r \in Runs /\ spec[r].cause = a /\ status[r] # "none"
  BY DEF StartedApprovalsHaveRun
<1>2. runTask[r] = approval[a].task
  BY <1>1, ExecutionAssumption DEF ExecutionInv, RowsFollowProjects, ConsentIsSpentOnce
<1>3. status[r] # "deleted"
  BY <1>1, <1>2 DEF ExecutionInv, RowsFollowProjects
<1>4. QED
  BY <1>1, <1>3 DEF ExecutionInv, TypeOK, RecordsTypeOK, RunStatuses

\* An approval recorded as started names the run it caused, whose row exists.
THEOREM StartedApprovalsNamed == Spec => []StartedApprovalsNameTheirRun
<1>1. Init => StartedApprovalsHaveRun
  BY DEF Init, RecordsInit, NoApproval, StartedApprovalsHaveRun
<1>2. QED
  BY <1>1, StepStarted, StartedRunsExist, ExecutionInvariance, PTL DEF Spec

-----------------------------------------------------------------------------
(* Task execution implements RunLifecycle, for every number of runs and      *)
(* crashes, as long as the termination of a process and the statements of    *)
(* the database do not fail.  The places and slots of the lifecycle come     *)
(* from the broker's invariant (Occupied), the rows from the promises above, *)
(* and RowsFollowProcesses tells when a row is active.                       *)


\* The lifecycle's view of a run.
Place == [r \in Runs |-> IF status[r] = "none" THEN NoSlot ELSE slot[r]]
Work == [r \in Runs |-> CASE process[r] = "none" -> "before"
                          [] process[r] = "alive" -> "during"
                          [] OTHER -> "after"]

\* A watched run has had its process, and while the desktop is up an active
\* row without one belongs to the start that will spawn it.
RowsFollowProcesses ==
  /\ \A r \in Runs : watcher[r] # "none" => process[r] # "none"
  /\ desktop = "up" =>
       \A r \in Runs : status[r] = "running" /\ process[r] = "none" => call = Starting(r, "recorded")

\* Every step keeps rows and processes in step, when no write fails.
LEMMA StepRowsFollow ==
  ASSUME WritesMayFail = FALSE, ExecutionInv, RowsFollowProcesses, [Next]_vars
  PROVE  RowsFollowProcesses'
<1> USE DEF ExecutionInv, RowsFollowProcesses, TypeOK, BrokerTypeOK, RecordsTypeOK, Reaped
<1>1. CASE \/ \E r \in Runs, t \in Tasks : StartTask(r, t)
           \/ \E r \in Runs, a \in Approvals : StartApproved(r, a)
           \/ \E a \in Approvals : RejectApproval(a)
  BY <1>1 DEF StartTask, StartApproved, ApproveTask, RejectApproval, ExpireApproval, DenyApproval,
              MoveApproval, brokerVars, recordVars, adapterVars
<1>2. ASSUME NEW r \in Runs, StartThread(r) PROVE RowsFollowProcesses'
  <2>1. CASE AdmitStart(r)
    BY <2>1 DEF AdmitStart, StartAdmit, recordVars
  <2>2. CASE RecordStart(r)
    BY <2>2 DEF RecordStart, StartRecord, InsertRun, adapterVars
  <2>3. CASE SpawnStart(r)
    BY <2>3 DEF SpawnStart, StartSpawn, recordVars, adapterVars
  <2>4. CASE FailStart(r)
    BY <2>4 DEF FailStart, StartFail, StartPoints, TryFinish, FinishRun, Finished
  <2>5. CASE RegisterStart(r)
    BY <2>5 DEF RegisterStart, StartRegister, StartCallsFit, StartPoints, recordVars
  <2>6. CASE UndoStart(r) \/ RetractRun(r)
    BY <2>6 DEF UndoStart, RetractRun, StopReturn, TryFinish, FinishRun, Finished
  <2>7. CASE AuditFails(r) \/ RetractApproval(r) \/ StopRefusedOnce(r) \/ StopOnceMore(r)
    BY <2>7 DEF AuditFails, RetractApproval, StopRefusedOnce, StopOnceMore, StopBegin, StopReturn,
                recordVars, adapterVars
  <2>8. CASE RefuseStart(r) \/ AuditStart(r) \/ ConfirmApproval(r) \/ FailApproval(r)
    BY <2>8 DEF RefuseStart, AuditStart, ConfirmApproval, MarkStarted, FailApproval, MarkFailed,
                MoveApproval, brokerVars, recordVars
  <2>9. QED
    BY <1>2, <2>1, <2>2, <2>3, <2>4, <2>5, <2>6, <2>7, <2>8 DEF StartThread
<1>3. CASE \E r \in Runs : StopTask(r) \/ StopThread(r)
  BY <1>3 DEF StopTask, StopThread, CancelRun, RefuseStop, ContinueStop, StopBegin, StopReturn,
              StopRemove, StopReap, TryFinish, FinishRun, Finished, recordVars, adapterVars
<1>4. CASE \E r \in Runs : ExitThread(r)
  BY <1>4 DEF ExitThread, HandleExit, HandleExitFails, Report, FinishRun, Finished, Outcome
<1>5. CASE \E r \in Runs : Environment(r)
  BY <1>5 DEF Environment, ProcessExit, ObserveExit, ObserveReaped, LoseStatus, RequestNormalStop,
              ExitStatuses, recordVars, adapterVars
<1>6. CASE Crash \/ Reopen
  BY <1>6 DEF Crash, Reopen, brokerVars
<1>7. CASE Recovery
  BY <1>7 DEF Recovery, RecoverApproval, RecoverStaleRun, FinishRecovery, brokerVars, recordVars, adapterVars
<1>8. CASE Catalog
  BY <1>8 DEF Catalog, CatalogStep, RequestApproval, GrowOld, ChangeTask, RemoveProject,
              brokerVars, adapterVars
<1>9. CASE UNCHANGED vars
  BY <1>9 DEF vars, brokerVars, recordVars, adapterVars
<1>10. QED
  BY <1>1, <1>2, <1>3, <1>4, <1>5, <1>6, <1>7, <1>8, <1>9 DEF Next

-----------------------------------------------------------------------------
\* Steps of the lifecycle that a step of task execution is.

LifecycleStep == [Lifecycle!LifecycleNext]_(Lifecycle!lifecycleVars)

\* The refinement mapping's variables are status, Place and Work.
LEMMA MapIsPlaceAndWork ==
  /\ Lifecycle!lifecycleVars = <<status, Place, Work>>
  /\ Lifecycle!Executing = {r \in Runs : Work[r] = "during"}
BY DEF Lifecycle!lifecycleVars, Lifecycle!Executing, Place, Work

\* The cardinality the instance refers to is the one of FiniteSets.
LEMMA SameCardinality == \A S : Lifecycle!Cardinality(S) = Cardinality(S)
BY DEF Lifecycle!Cardinality, Cardinality

\* The runs the lifecycle counts as executing are the live processes.
LEMMA ExecutingIsAlive == Lifecycle!Executing = Alive
BY DEF Lifecycle!Executing, Alive, Work

\* What changes no row, no slot of a row and no process is no step.
LEMMA Stutter ==
  ASSUME UNCHANGED status,
         \A r \in Runs : status[r] # "none" => slot'[r] = slot[r],
         \A r \in Runs : Work'[r] = Work[r]
  PROVE  LifecycleStep
<1>1. Place' = Place /\ Work' = Work
  BY DEF Place, Work
<1>2. QED
  BY <1>1 DEF LifecycleStep, Lifecycle!lifecycleVars, Place, Work

\* Processes that end do so alone or together, and change nothing else.
LEMMA Ending ==
  ASSUME TypeOK, UNCHANGED <<status, slot>>,
         \A r \in Runs : process[r] = "none" <=> process'[r] = "none",
         \A r \in Runs : process'[r] = "alive" => process[r] = "alive"
  PROVE  LifecycleStep
<1> DEFINE Ended == {r \in Runs : process[r] = "alive" /\ process'[r] # "alive"}
<1>1. Work' = [r \in Runs |-> IF r \in Ended THEN "after" ELSE Work[r]]
  BY DEF Work
<1>2. Place' = Place
  BY DEF Place
<1>3. CASE Ended = {}
  <2>1. \A r \in Runs : Work'[r] = Work[r]
    BY <1>1, <1>3 DEF Work
  <2>2. QED
    BY <2>1, Stutter
<1>4. CASE Ended # {}
  <2>1. PICK e \in SUBSET Alive : e = Ended
    BY DEF Alive
  <2>2. Lifecycle!End(e)
    BY <1>1, <1>2, <1>4, <2>1 DEF Lifecycle!End, Place, Work
  <2>3. QED
    BY <2>2, ExecutingIsAlive DEF LifecycleStep, Lifecycle!LifecycleNext
<1>5. QED
  BY <1>3, <1>4

\* A result is written to an active row whose process has ended, or that
\* failed before it had one.
LEMMA Concluding ==
  ASSUME TypeOK, UNCHANGED <<slot, process>>, NEW r \in Runs, NEW s \in TerminalStatuses,
         FinishRun(r, s),
         status[r] = "running" =>
           process[r] # "alive" /\ (process[r] = "none" => s = "failed")
  PROVE  LifecycleStep
<1> USE DEF TypeOK, RecordsTypeOK, BrokerTypeOK
<1>1. Work' = Work
  BY DEF Work
<1>2. CASE status[r] # "running"
  <2>1. status' = status
    BY <1>2 DEF FinishRun, Finished
  <2>2. QED
    BY <1>1, <2>1, Stutter
<1>3. CASE status[r] = "running"
  <2>1. status' = [status EXCEPT ![r] = s]
    BY <1>3 DEF FinishRun, Finished
  <2>2. Place' = Place
    BY <1>3, <2>1 DEF Place, TerminalStatuses
  <2>3. Work[r] = "after" \/ (Work[r] = "before" /\ s = "failed")
    BY <1>3 DEF Work
  <2>4. Lifecycle!Conclude(r, s)
    BY <1>1, <1>3, <2>1, <2>2, <2>3 DEF Lifecycle!Conclude, Place, Work
  <2>5. QED
    BY <2>4 DEF LifecycleStep, Lifecycle!LifecycleNext, Lifecycle!Results, TerminalStatuses
<1>4. QED
  BY <1>2, <1>3

-----------------------------------------------------------------------------
\* The steps that are more than a stutter, an end or a result.

\* Inserting a run's row opens the run in the lifecycle.
LEMMA RecordOpens ==
  ASSUME ExecutionInv, NEW r \in Runs, RecordStart(r)
  PROVE  LifecycleStep
<1> USE DEF ExecutionInv, TypeOK, RecordsTypeOK, BrokerTypeOK
<1>1. status[r] = "none" /\ status' = [status EXCEPT ![r] = "running"]
  BY DEF RecordStart, InsertRun
<1>2. UNCHANGED <<slot, process>>
  BY DEF RecordStart, StartRecord
<1>3. PICK s \in Slots : s = slot[r]
  BY DEF RecordStart, StartRecord, BrokerInv, PlacesAreDistinct, Occupied, CallPlaces, StartPoints
<1>4. Lifecycle!Open(r, s)
  BY <1>1, <1>2, <1>3 DEF Lifecycle!Open
<1>5. QED
  BY <1>4 DEF LifecycleStep, Lifecycle!LifecycleNext

\* Spawning a run's process executes it, within the limit and its slot.
LEMMA SpawnExecutes ==
  ASSUME ExecutionInv, ProcessesAreRecorded, NEW r \in Runs, SpawnStart(r)
  PROVE  LifecycleStep
<1> USE DEF ExecutionInv, TypeOK, RecordsTypeOK, BrokerTypeOK
<1>1. /\ call = Starting(r, "recorded")
      /\ process' = [process EXCEPT ![r] = "alive"]
      /\ UNCHANGED <<slot, status>>
  BY DEF SpawnStart, StartSpawn, recordVars
<1>2. status[r] = "running" /\ process[r] = "none"
  BY <1>1 DEF StartCallsFit, StartPoints
<1>3. r \in Occupied /\ Alive \subseteq Occupied \ {r}
  BY <1>1, <1>2 DEF Occupied, CallPlaces, StartPoints, BrokerInv, PlacesHoldProcesses, Alive
<1>4. Cardinality(Alive) < MaxConcurrency
  <2>1. IsFiniteSet(Occupied)
    BY OccupiedFinite DEF BrokerInv
  <2>2. /\ Cardinality(Occupied \ {r}) = Cardinality(Occupied) - 1
        /\ Cardinality(Occupied) \in Nat
    BY <1>3, <2>1, FS_RemoveElement, FS_CardinalityType
  <2>3. /\ IsFiniteSet(Occupied \ {r})
        /\ Cardinality(Alive) <= Cardinality(Occupied \ {r})
        /\ Cardinality(Alive) \in Nat
    BY <1>3, <2>1, FS_RemoveElement, FS_Subset, FS_CardinalityType
  <2>4. QED
    BY <2>2, <2>3, BrokerAssumption DEF BrokerInv, PlacesAreBounded
<1>5. \A q \in Alive : Place[q] # Place[r]
  <2>1. \A q \in Alive : slot[q] # slot[r]
    BY <1>3 DEF BrokerInv, PlacesAreDistinct
  <2>2. \A q \in Alive : q \in Runs /\ status[q] = "running"
    BY DEF ProcessesAreRecorded, Alive
  <2>3. QED
    BY <1>2, <2>1, <2>2 DEF Place
<1>6. Work[r] = "before" /\ Work' = [Work EXCEPT ![r] = "during"]
  BY <1>1, <1>2 DEF Work
<1>7. Place' = Place
  BY <1>1 DEF Place
<1>8. Lifecycle!Execute(r)
  BY <1>1, <1>2, <1>4, <1>5, <1>6, <1>7, ExecutingIsAlive, SameCardinality DEF Lifecycle!Execute, Place, Work
<1>9. QED
  BY <1>8 DEF LifecycleStep, Lifecycle!LifecycleNext

\* A start that fails ends its run, if it had got a row.
LEMMA FailEnds ==
  ASSUME WritesMayFail = FALSE, ExecutionInv, NEW r \in Runs, FailStart(r)
  PROVE  LifecycleStep
<1> USE DEF ExecutionInv, TypeOK, RecordsTypeOK, BrokerTypeOK
<1>1. PICK p \in StartPoints : call = Starting(r, p)
  BY DEF FailStart, StartFail
<1>2. /\ process' = [process EXCEPT ![r] = Reaped(r)]
      /\ FinishRun(r, "failed")
      /\ UNCHANGED slot
  BY DEF FailStart, StartFail, TryFinish
<1>3. CASE process[r] = "alive"
  <2>1. status[r] = "running"
    BY <1>1, <1>3 DEF StartCallsFit, StartPoints
  <2>2. status' = [status EXCEPT ![r] = "failed"]
    BY <1>2, <2>1 DEF FinishRun, Finished
  <2>3. Work[r] = "during" /\ Work' = [Work EXCEPT ![r] = "after"]
    BY <1>2, <1>3 DEF Work, Reaped
  <2>4. Place' = Place
    BY <1>2, <2>1, <2>2 DEF Place
  <2>5. Lifecycle!EndAndFail(r)
    BY <2>1, <2>2, <2>3, <2>4 DEF Lifecycle!EndAndFail, Place, Work
  <2>6. QED
    BY <2>5 DEF LifecycleStep, Lifecycle!LifecycleNext
<1>4. CASE process[r] # "alive"
  <2>1. Work' = Work
    BY <1>2, <1>4 DEF Work, Reaped
  <2>2. CASE status[r] # "running"
    <3>1. status' = status
      BY <1>2, <2>2 DEF FinishRun, Finished
    <3>2. QED
      BY <1>2, <2>1, <3>1, Stutter
  <2>3. CASE status[r] = "running"
    <3>1. status' = [status EXCEPT ![r] = "failed"]
      BY <1>2, <2>3 DEF FinishRun, Finished
    <3>2. Place' = Place
      BY <1>2, <2>3, <3>1 DEF Place
    <3>3. Work[r] \in {"before", "after"}
      BY <1>4 DEF Work
    <3>4. Lifecycle!Conclude(r, "failed")
      BY <2>1, <2>3, <3>1, <3>2, <3>3 DEF Lifecycle!Conclude, Place, Work
    <3>5. QED
      BY <3>4 DEF LifecycleStep, Lifecycle!LifecycleNext, Lifecycle!Results
  <2>4. QED
    BY <2>2, <2>3
<1>5. QED
  BY <1>3, <1>4

\* Removing a project erases its runs, none of which is executing.
LEMMA RemovalErases ==
  ASSUME ExecutionInv, UNCHANGED brokerVars, NEW p \in Projects, RemoveProject(p)
  PROVE  LifecycleStep
<1> USE DEF ExecutionInv, TypeOK, RecordsTypeOK, BrokerTypeOK
<1>1. PICK e \in SUBSET Runs : e = {r \in Runs : BelongsTo(runTask[r], p) /\ status[r] # "deleted"}
  OBVIOUS
<1>2. status' = [r \in Runs |-> IF r \in e THEN "deleted" ELSE status[r]]
  BY <1>1 DEF RemoveProject
<1>3. \A r \in e : status[r] \in TerminalStatuses
  BY <1>1 DEF RemoveProject, BelongsTo, RowsFollowProjects, RunStatuses
<1>4. Place' = Place /\ Work' = Work
  BY <1>2, <1>3 DEF Place, Work, brokerVars, TerminalStatuses
<1>5. CASE e = {}
  BY <1>2, <1>4, <1>5 DEF LifecycleStep, Lifecycle!lifecycleVars, Place, Work
<1>6. CASE e # {}
  <2>1. Lifecycle!Erase(e)
    BY <1>2, <1>3, <1>4, <1>6 DEF Lifecycle!Erase, Lifecycle!Results, TerminalStatuses, Place, Work
  <2>2. QED
    BY <2>1 DEF LifecycleStep, Lifecycle!LifecycleNext
<1>7. QED
  BY <1>5, <1>6

-----------------------------------------------------------------------------
\* Every step of task execution is a step of the lifecycle or leaves it alone.

\* Each step of a starting thread is a step of the lifecycle or a stutter.
LEMMA ThreadRefines ==
  ASSUME TerminateMayFail = FALSE, WritesMayFail = FALSE, ExecutionInv, ProcessesAreRecorded,
         NEW r \in Runs, StartThread(r)
  PROVE  LifecycleStep
<1> USE DEF ExecutionInv, TypeOK, BrokerTypeOK
<1>1. CASE AdmitStart(r)
  <2>1. status[r] = "none"
    BY <1>1 DEF AdmitStart, StartAdmit, UnadmittedRunsAreFresh
  <2>2. UNCHANGED <<status, process>> /\ \A q \in Runs : q # r => slot'[q] = slot[q]
    BY <1>1 DEF AdmitStart, StartAdmit, recordVars
  <2>3. \A q \in Runs : Work'[q] = Work[q]
    BY <2>2 DEF Work
  <2>4. QED
    BY <2>1, <2>2, <2>3, Stutter
<1>2. CASE RecordStart(r)
  BY <1>2, RecordOpens
<1>3. CASE SpawnStart(r)
  BY <1>3, SpawnExecutes
<1>4. CASE FailStart(r)
  BY <1>4, FailEnds
<1>5. CASE UndoStart(r) \/ RetractRun(r)
  <2>1. FinishRun(r, "failed") /\ UNCHANGED <<slot, process>>
    BY <1>5 DEF UndoStart, RetractRun, StopReturn, TryFinish
  <2>2. process[r] # "alive"
    BY <1>5 DEF UndoStart, RetractRun, StopReturn, BrokerInv, StopsHaveEffect
  <2>3. QED
    BY <2>1, <2>2, Concluding DEF TerminalStatuses
<1>6. CASE RegisterStart(r) \/ AuditFails(r) \/ RetractApproval(r) \/ StopRefusedOnce(r) \/ StopOnceMore(r)
           \/ RefuseStart(r) \/ AuditStart(r) \/ ConfirmApproval(r) \/ FailApproval(r)
  <2>1. UNCHANGED <<status, slot, process>>
    BY <1>6 DEF RegisterStart, StartRegister, AuditFails, RetractApproval, StopRefusedOnce,
                StopOnceMore, StopBegin, StopReturn, RefuseStart, AuditStart, ConfirmApproval,
                MarkStarted, FailApproval, MarkFailed, MoveApproval, brokerVars, recordVars
  <2>2. \A q \in Runs : Work'[q] = Work[q]
    BY <2>1 DEF Work
  <2>3. QED
    BY <2>1, <2>2, Stutter
<1>7. QED
  BY <1>1, <1>2, <1>3, <1>4, <1>5, <1>6 DEF StartThread

\* Each step of task execution is a step of the lifecycle or a stutter.
LEMMA StepRefines ==
  ASSUME TerminateMayFail = FALSE, WritesMayFail = FALSE, ExecutionInv, ProcessesAreRecorded,
         RowsFollowProcesses, [Next]_vars
  PROVE  LifecycleStep
<1> USE DEF ExecutionInv, TypeOK, BrokerTypeOK
<1>1. CASE \E r \in Runs : StartThread(r)
  BY <1>1, ThreadRefines
<1>2. ASSUME NEW r \in Runs, CancelRun(r) PROVE LifecycleStep
  <2>1. FinishRun(r, "cancelled") /\ UNCHANGED <<slot, process>>
    BY <1>2 DEF CancelRun, StopReturn, TryFinish
  <2>2. process[r] # "alive"
    BY <1>2 DEF CancelRun, StopReturn, BrokerInv, StopsHaveEffect
  <2>3. status[r] = "running" => process[r] # "none"
    BY <1>2 DEF CancelRun, RowsFollowProcesses, DesktopDownIsEmpty
  <2>4. QED
    BY <2>1, <2>2, <2>3, Concluding DEF TerminalStatuses
<1>3. ASSUME NEW r \in Runs, HandleExit(r) PROVE LifecycleStep
  <2>1. FinishRun(r, Outcome(r)) /\ UNCHANGED <<slot, process>> /\ Outcome(r) \in TerminalStatuses
    BY <1>3 DEF HandleExit, Report, Outcome, TerminalStatuses
  <2>2. process[r] # "alive" /\ process[r] # "none"
    BY <1>3, FreeMutexEndedRuns DEF HandleExit, CoreFree, Report, RowsFollowProcesses
  <2>3. QED
    BY <2>1, <2>2, Concluding
<1>4. ASSUME NEW r \in Runs, RecoverStaleRun(r) PROVE LifecycleStep
  <2>1. FinishRun(r, "failed") /\ UNCHANGED <<slot, process>>
    BY <1>4 DEF RecoverStaleRun, RecoverRun, brokerVars
  <2>2. process[r] # "alive"
    BY <1>4 DEF RecoverStaleRun, DesktopDownIsEmpty, BrokerInv, PlacesHoldProcesses, Occupied,
                CallPlaces, StartPoints
  <2>3. QED
    BY <2>1, <2>2, Concluding DEF TerminalStatuses
<1>5. CASE \/ \E r \in Runs : ContinueStop(r) \/ Environment(r)
           \/ Crash
  <2>1. UNCHANGED <<status, slot>>
    BY <1>5 DEF ContinueStop, StopRemove, StopReap, Environment, ProcessExit, ObserveExit,
                ObserveReaped, LoseStatus, RequestNormalStop, Crash, recordVars
  <2>2. /\ \A r \in Runs : process[r] = "none" <=> process'[r] = "none"
        /\ \A r \in Runs : process'[r] = "alive" => process[r] = "alive"
    BY <1>5 DEF ContinueStop, StopRemove, StopReap, Environment, ProcessExit, ObserveExit,
                ObserveReaped, LoseStatus, RequestNormalStop, Crash, Reaped, ExitStatuses
  <2>3. QED
    BY <2>1, <2>2, Ending
<1>6. CASE \E p \in Projects : RemoveProject(p) /\ Catalog
  BY <1>6, RemovalErases DEF Catalog
<1>7. CASE \/ \E r \in Runs, t \in Tasks : StartTask(r, t)
           \/ \E r \in Runs, a \in Approvals : StartApproved(r, a)
           \/ \E a \in Approvals : RejectApproval(a)
           \/ \E r \in Runs : StopTask(r) \/ RefuseStop(r) \/ HandleExitFails(r)
           \/ \E a \in Approvals : RecoverApproval(a)
           \/ Reopen \/ FinishRecovery \/ UNCHANGED vars
           \/ Catalog /\ ~ \E p \in Projects : RemoveProject(p)
  <2>1. UNCHANGED <<status, slot, process>>
    BY <1>7 DEF StartTask, StartApproved, ApproveTask, RejectApproval, ExpireApproval, DenyApproval,
                MoveApproval, StopTask, StopBegin, RefuseStop, StopReturn, HandleExitFails, Report,
                RecoverApproval, MarkFailed, Reopen, FinishRecovery, Catalog, CatalogStep,
                RequestApproval, GrowOld, ChangeTask, vars, brokerVars, recordVars
  <2>2. \A r \in Runs : Work'[r] = Work[r]
    BY <2>1 DEF Work
  <2>3. QED
    BY <2>1, <2>2, Stutter
<1>8. QED
  BY <1>1, <1>2, <1>3, <1>4, <1>5, <1>6, <1>7
     DEF Next, StopThread, ExitThread, Recovery, Catalog, CatalogStep

\* Task execution is an implementation of the Task Run lifecycle.
THEOREM ExecutionImplementsLifecycle ==
  ASSUME TerminateMayFail = FALSE, WritesMayFail = FALSE
  PROVE  Spec => ImplementsLifecycle
<1>1. Init => Lifecycle!LifecycleInit
  BY DEF Init, BrokerInit, RecordsInit, Lifecycle!LifecycleInit
<1>2. Init => RowsFollowProcesses
  BY DEF Init, BrokerInit, RecordsInit, RowsFollowProcesses
<1>3. Spec => []RowsFollowProcesses
  BY <1>2, StepRowsFollow, ExecutionInvariance, PTL DEF Spec
<1>4. ExecutionInv /\ ProcessesAreRecorded /\ RowsFollowProcesses /\ [Next]_vars =>
        [Lifecycle!LifecycleNext]_(Lifecycle!lifecycleVars)
  BY StepRefines DEF LifecycleStep
<1>5. QED
  BY <1>1, <1>3, <1>4, ExecutionInvariance, LiveProcessesAreRecorded, PTL
     DEF Spec, ImplementsLifecycle, Lifecycle!LifecycleSpec
=============================================================================
