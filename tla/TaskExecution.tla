---------------------------- MODULE TaskExecution ---------------------------
(***************************************************************************)
(* The desktop's task execution (src-tauri/src/lib.rs): the commands that  *)
(* start, approve and stop Task Runs, composed of the broker and of the    *)
(* database records, with the exit handlers the broker calls back, crashes *)
(* of the desktop, and recovery when it is opened again.                   *)
(*                                                                         *)
(* A start belongs to one run, so the thread that executes it is named     *)
(* after the run.  The Core mutex is held from the first step of a broker  *)
(* call to the statement that follows the call, and by a thread that       *)
(* undoes a start: CoreFree says that no thread holds it.                  *)
(***************************************************************************)
EXTENDS Broker, TaskRecords

CONSTANTS
  Kinds, KindOf,    \* KindOf[d] is the kind of a definition
  NoCause,          \* the approval of a run started directly
  WritesMayFail,    \* SQLite statements may fail (busy, full disk)
  MaxCrashes        \* bound: crashes of the desktop

ASSUME ExecutionAssumption ==
  /\ KindOf \in [Definitions -> Kinds]
  /\ Slots = Projects \X Kinds
  /\ NoCause \notin Approvals
  /\ WritesMayFail \in BOOLEAN
  /\ MaxCrashes \in Nat

VARIABLES
  desktop,      \* the desktop process
  thread,       \* where the thread that starts each run is
  spec,         \* the TaskSpec each run was asked to start with
  tries,        \* cleanup_failed_approval_run's stop attempts so far
  finishLost,   \* runs whose result could not be written
  markLost,     \* approvals whose outcome could not be written
  crashes

adapterVars == <<desktop, thread, spec, tries, finishLost, markLost, crashes>>
vars == <<brokerVars, recordVars, adapterVars>>

DesktopStates == {"up", "down", "recovering"}
\* prepared: the spec is known; starting: in Broker::start; registered: the
\* process is the broker's; audited: the start is recorded; undoing,
\* retracting, condemned: cleaning up under the mutex; errored: an approval
\* is still to be failed.
ThreadStates == {"idle", "prepared", "starting", "registered", "audited",
                 "undoing", "retracting", "condemned", "errored", "done"}
Specs == [task : Tasks \cup {NoTask}, def : Definitions \cup {Absent},
          cause : Approvals \cup {NoCause}]
NoSpec == [task |-> NoTask, def |-> Absent, cause |-> NoCause]
CleanupAttempts == 3

SlotOf(r) == <<ProjectOf[spec[r].task], KindOf[spec[r].def]>>

CoreFree ==
  /\ desktop = "up"
  /\ call = Idle
  /\ \A r \in Runs : thread[r] \notin {"undoing", "retracting", "condemned"}

Goto(r, state) == thread' = [thread EXCEPT ![r] = state]

\* Mutant of GotoError: the approval of a start that failed is forgotten.
GotoDone(r) == Goto(r, "done")

\* A start that fails returns its error, or fails its approval first.
GotoError(r) == Goto(r, IF spec[r].cause = NoCause THEN "done" ELSE "errored")

\* finish_task_run(r, s), or the error of its statement when there is one.
TryFinish(r, s) ==
  \/ FinishRun(r, s) /\ UNCHANGED finishLost
  \/ /\ WritesMayFail
     /\ status[r] = "running"
     /\ finishLost' = finishLost \cup {r}
     /\ UNCHANGED recordVars

Init ==
  /\ BrokerInit
  /\ RecordsInit
  /\ desktop = "up"
  /\ thread = [r \in Runs |-> "idle"]
  /\ spec = [r \in Runs |-> NoSpec]
  /\ tries = 0
  /\ finishLost = {}
  /\ markLost = {}
  /\ crashes = 0

-----------------------------------------------------------------------------
\* Commands of the user: start a task, resolve an approval

\* start_task: task_for_start reads the definition, then the mutex is free.
StartTask(r, t) ==
  /\ CoreFree
  /\ thread[r] = "idle"
  /\ Current(t) # Absent
  /\ spec' = [spec EXCEPT ![r] = [task |-> t, def |-> Current(t), cause |-> NoCause]]
  /\ Goto(r, "prepared")
  /\ UNCHANGED <<brokerVars, recordVars, desktop, tries, finishLost, markLost, crashes>>

\* resolve_pending_approval(a, TRUE) goes on to start the approved snapshot.
StartApproved(r, a) ==
  /\ CoreFree
  /\ thread[r] = "idle"
  /\ ApproveTask(a)
  /\ spec' = [spec EXCEPT ![r] = [task |-> approval[a].task, def |-> approval[a].def, cause |-> a]]
  /\ Goto(r, "prepared")
  /\ UNCHANGED <<brokerVars, desktop, tries, finishLost, markLost, crashes>>

\* resolve_pending_approval that starts nothing.
RejectApproval(a) ==
  /\ CoreFree
  /\ \/ ExpireApproval(a)
     \/ \E approved \in BOOLEAN : DenyApproval(a, approved)
  /\ UNCHANGED <<brokerVars, adapterVars>>

-----------------------------------------------------------------------------
\* start_task_spec

\* A port conflict, or a check of Broker::start that needs no record.
RefuseStart(r) ==
  /\ CoreFree
  /\ thread[r] = "prepared"
  /\ GotoError(r)
  /\ UNCHANGED <<brokerVars, recordVars, desktop, spec, tries, finishLost, markLost, crashes>>

AdmitStart(r) ==
  /\ CoreFree
  /\ thread[r] = "prepared"
  /\ StartAdmit(r, SlotOf(r))
  /\ Goto(r, "starting")
  /\ UNCHANGED <<recordVars, desktop, spec, tries, finishLost, markLost, crashes>>

RecordStart(r) ==
  /\ StartRecord(r)
  /\ InsertRun(r, spec[r].task)
  /\ UNCHANGED adapterVars

SpawnStart(r) ==
  /\ StartSpawn(r)
  /\ UNCHANGED <<recordVars, adapterVars>>

\* Broker::start fails; it ignores the outcome of its own finish_run.
FailStart(r) ==
  /\ StartFail(r)
  /\ TryFinish(r, "failed")
  /\ GotoError(r)
  /\ UNCHANGED <<desktop, spec, tries, markLost, crashes>>

RegisterStart(r) ==
  /\ StartRegister(r)
  /\ Goto(r, "registered")
  /\ UNCHANGED <<recordVars, desktop, spec, tries, finishLost, markLost, crashes>>

\* The start_task audit event is written: a direct start returns its run.
AuditStart(r) ==
  /\ CoreFree
  /\ thread[r] = "registered"
  /\ Goto(r, IF spec[r].cause = NoCause THEN "done" ELSE "audited")
  /\ UNCHANGED <<brokerVars, recordVars, desktop, spec, tries, finishLost, markLost, crashes>>

\* The audit event cannot be written: stop the process again, whatever stop
\* returns, and fail the run.
AuditFails(r) ==
  /\ WritesMayFail
  /\ CoreFree
  /\ thread[r] = "registered"
  /\ StopBegin(r)
  /\ Goto(r, "undoing")
  /\ UNCHANGED <<recordVars, desktop, spec, tries, finishLost, markLost, crashes>>

UndoStart(r) ==
  /\ thread[r] = "undoing"
  /\ StopReturn(r)
  /\ TryFinish(r, "failed")
  /\ GotoError(r)
  /\ UNCHANGED <<desktop, spec, tries, markLost, crashes>>

-----------------------------------------------------------------------------
\* resolve_pending_approval after start_task_spec

ConfirmApproval(r) ==
  /\ CoreFree
  /\ thread[r] = "audited"
  /\ MarkStarted(spec[r].cause, r)
  /\ Goto(r, "done")
  /\ UNCHANGED <<brokerVars, desktop, spec, tries, finishLost, markLost, crashes>>

\* Mutant of RetractApproval: the approval is failed, its run goes on.
RetractNothing(r) ==
  /\ CoreFree
  /\ thread[r] = "audited"
  /\ WritesMayFail
  /\ Goto(r, "condemned")
  /\ UNCHANGED <<brokerVars, recordVars, desktop, spec, tries, finishLost, markLost, crashes>>

\* cleanup_failed_approval_run: at most CleanupAttempts stops, each one after
\* a refused one, then the run is failed and the approval with it.
RetractApproval(r) ==
  /\ CoreFree
  /\ thread[r] = "audited"
  /\ WritesMayFail
  /\ StopBegin(r)
  /\ tries' = 1
  /\ Goto(r, "retracting")
  /\ UNCHANGED <<recordVars, desktop, spec, finishLost, markLost, crashes>>

StopRefusedOnce(r) ==
  /\ thread[r] = "retracting"
  /\ call = Stopping(r, "refused")
  /\ tries < CleanupAttempts
  /\ StopReturn(r)
  /\ UNCHANGED <<recordVars, adapterVars>>

StopOnceMore(r) ==
  /\ thread[r] = "retracting"
  /\ StopBegin(r)
  /\ tries' = tries + 1
  /\ UNCHANGED <<recordVars, desktop, thread, spec, finishLost, markLost, crashes>>

RetractRun(r) ==
  /\ thread[r] = "retracting"
  /\ call = Stopping(r, "refused") => tries = CleanupAttempts
  /\ StopReturn(r)
  /\ TryFinish(r, "failed")
  /\ tries' = 0
  /\ Goto(r, "condemned")
  /\ UNCHANGED <<desktop, spec, markLost, crashes>>

\* mark_task_approval_failed; the error of a failed write is returned.
FailApproval(r) ==
  /\ thread[r] = "condemned" \/ (thread[r] = "errored" /\ CoreFree)
  /\ \/ MarkFailed(spec[r].cause) /\ UNCHANGED markLost
     \/ WritesMayFail /\ markLost' = markLost \cup {spec[r].cause} /\ UNCHANGED recordVars
  /\ Goto(r, "done")
  /\ UNCHANGED <<brokerVars, desktop, spec, tries, finishLost, crashes>>

-----------------------------------------------------------------------------
\* stop_task_inner, which holds the mutex throughout

StoppedByUser(r) == thread[r] \notin {"undoing", "retracting"}

\* The stop of a run that has ended changes nothing and is left out.
StopTask(r) ==
  /\ CoreFree
  /\ r \in live \/ status[r] = "running"
  /\ StopBegin(r)
  /\ UNCHANGED <<recordVars, adapterVars>>

CancelRun(r) ==
  /\ StoppedByUser(r)
  /\ call = Stopping(r, "confirmed")
  /\ StopReturn(r)
  /\ TryFinish(r, "cancelled")
  /\ UNCHANGED <<desktop, thread, spec, tries, markLost, crashes>>

\* The error of Broker::stop is returned: the row is left to the exit handler.
RefuseStop(r) ==
  /\ StoppedByUser(r)
  /\ call = Stopping(r, "refused")
  /\ StopReturn(r)
  /\ UNCHANGED <<recordVars, adapterVars>>

ContinueStop(r) ==
  /\ StopRemove(r) \/ StopReap(r)
  /\ UNCHANGED <<recordVars, adapterVars>>

-----------------------------------------------------------------------------
\* The processes, and the on_exit handler

\* What the processes, the watchers and the port manager do without the mutex.
Environment(r) ==
  /\ desktop = "up"
  /\ \/ \E s \in ExitStatuses : ProcessExit(r, s)
     \/ ObserveExit(r)
     \/ ObserveReaped(r)
     \/ LoseStatus(r)
     \/ RequestNormalStop(r)
  /\ UNCHANGED <<recordVars, adapterVars>>

\* Mutants of Outcome: the exit code wins over the stop request; the exit
\* status is stored as it is.
OutcomeByCode(r) ==
  IF seen[r] = "ok" THEN "succeeded"
  ELSE IF r \in stopRequests THEN "cancelled" ELSE "failed"

Outcome(r) ==
  IF r \in stopRequests THEN "cancelled"
  ELSE IF seen[r] = "ok" THEN "succeeded" ELSE "failed"

\* finish_task_run is followed by a project event and an audit event that
\* carry Outcome(r), whether or not the UPDATE found an active row.
HandleExit(r) ==
  /\ CoreFree
  /\ Report(r)
  /\ FinishRun(r, Outcome(r))
  /\ UNCHANGED <<desktop, thread, spec, tries, finishLost, markLost, crashes>>

\* All five attempts to write the result failed: the UI is told.
HandleExitFails(r) ==
  /\ WritesMayFail
  /\ CoreFree
  /\ Report(r)
  /\ finishLost' = finishLost \cup {r}
  /\ UNCHANGED <<recordVars, desktop, thread, spec, tries, markLost, crashes>>

-----------------------------------------------------------------------------
\* The desktop ends without warning: its threads, the broker's memory and the
\* children of its terminals end with it, the database stays.
Crash ==
  /\ desktop # "down"
  /\ crashes < MaxCrashes
  /\ crashes' = crashes + 1
  /\ desktop' = "down"
  /\ live' = {}
  /\ process' = [r \in Runs |-> Reaped(r)]
  /\ watcher' = [r \in Runs |-> IF watcher[r] = "reported" THEN "reported" ELSE "none"]
  /\ seen' = [r \in Runs |-> "none"]
  /\ stopRequests' = {}
  /\ call' = Idle
  /\ thread' = [r \in Runs |-> IF thread[r] = "idle" THEN "idle" ELSE "done"]
  /\ tries' = 0
  /\ finishLost' = {}
  /\ markLost' = {}
  /\ UNCHANGED <<slot, recordVars, spec>>

\* Core::open takes the runtime lock and recovers, one row at a time.
Reopen ==
  /\ desktop = "down"
  /\ desktop' = "recovering"
  /\ UNCHANGED <<brokerVars, recordVars, thread, spec, tries, finishLost, markLost, crashes>>

RecoverApproval(a) ==
  /\ desktop = "recovering"
  /\ MarkFailed(a)
  /\ UNCHANGED <<brokerVars, adapterVars>>

NoneStarting == \A a \in Approvals : approval[a].status # "starting"

RecoverStaleRun(r) ==
  /\ desktop = "recovering"
  /\ NoneStarting
  /\ RecoverRun(r)
  /\ UNCHANGED <<brokerVars, adapterVars>>

FinishRecovery ==
  /\ desktop = "recovering"
  /\ NoneStarting
  /\ \A r \in Runs : status[r] # "running"
  /\ desktop' = "up"
  /\ UNCHANGED <<brokerVars, recordVars, thread, spec, tries, finishLost, markLost, crashes>>

Catalog == CatalogStep /\ UNCHANGED <<brokerVars, adapterVars>>

-----------------------------------------------------------------------------
StartThread(r) ==
  \/ RefuseStart(r)
  \/ AdmitStart(r)
  \/ RecordStart(r)
  \/ SpawnStart(r)
  \/ FailStart(r)
  \/ RegisterStart(r)
  \/ AuditStart(r)
  \/ AuditFails(r)
  \/ UndoStart(r)
  \/ ConfirmApproval(r)
  \/ RetractApproval(r)
  \/ StopRefusedOnce(r)
  \/ StopOnceMore(r)
  \/ RetractRun(r)
  \/ FailApproval(r)

StopThread(r) == CancelRun(r) \/ RefuseStop(r) \/ ContinueStop(r)

ExitThread(r) == HandleExit(r) \/ HandleExitFails(r)

Recovery ==
  \/ \E a \in Approvals : RecoverApproval(a)
  \/ \E r \in Runs : RecoverStaleRun(r)
  \/ FinishRecovery

Next ==
  \/ \E r \in Runs, t \in Tasks : StartTask(r, t)
  \/ \E r \in Runs, a \in Approvals : StartApproved(r, a)
  \/ \E a \in Approvals : RejectApproval(a)
  \/ \E r \in Runs : StopTask(r)
  \/ \E r \in Runs : StartThread(r)
  \/ \E r \in Runs : StopThread(r)
  \/ \E r \in Runs : ExitThread(r)
  \/ \E r \in Runs : Environment(r)
  \/ Crash
  \/ Reopen
  \/ Recovery
  \/ Catalog

\* A thread that began goes on, a watcher polls until it has reported, and a
\* desktop that ended is opened again and recovers.  Users, other programs
\* and the processes owe nothing.
Fairness ==
  /\ \A r \in Runs :
       /\ WF_vars(StartThread(r))
       /\ WF_vars(StopThread(r))
       /\ WF_vars(ExitThread(r))
       /\ WF_vars(desktop = "up" /\ (ObserveExit(r) \/ ObserveReaped(r))
                  /\ UNCHANGED <<recordVars, adapterVars>>)
  /\ WF_vars(Reopen)
  /\ WF_vars(Recovery)

Spec == Init /\ [][Next]_vars /\ Fairness

-----------------------------------------------------------------------------
TypeOK ==
  /\ BrokerTypeOK
  /\ RecordsTypeOK
  /\ desktop \in DesktopStates
  /\ thread \in [Runs -> ThreadStates]
  /\ spec \in [Runs -> Specs]
  /\ tries \in 0 .. CleanupAttempts
  /\ finishLost \in SUBSET Runs
  /\ markLost \in SUBSET Approvals
  /\ crashes \in 0 .. MaxCrashes

\* Every process the desktop runs has an active row, so the guards of
\* remove_project, which look at rows only, protect live processes too,
\* also against an MCP client that never sees the broker.
ProcessesAreRecorded == \A r \in Alive : status[r] = "running"

\* While the desktop is up, a row says "running" only as long as some thread
\* will still write its result: the one that starts the run, or the run's
\* watcher.  Only a failed write leaves such a row behind.
RunningRowsAreOwned ==
  desktop = "up" =>
    \A r \in Runs : status[r] = "running" =>
      \/ thread[r] \in {"starting", "undoing", "retracting"}
      \/ watcher[r] \in {"watching", "exited"}
      \/ r \in finishLost

\* While the desktop is up, an approval that is being started, which blocks
\* the removal of its project, has a thread that will resolve it.
StartingApprovalsAreOwned ==
  desktop = "up" =>
    \A a \in Approvals : approval[a].status = "starting" =>
      \/ \E r \in Runs : spec[r].cause = a /\ thread[r] \notin {"idle", "done"}
      \/ a \in markLost

\* Consent starts one run: two runs never share an approval, a run executes
\* the definition its approval showed, and what was denied or expired has no
\* run.
ConsentIsSpentOnce ==
  \A r \in Runs : spec[r].cause # NoCause =>
    LET a == spec[r].cause IN
      /\ \A q \in Runs : spec[q].cause = a => q = r
      /\ spec[r].task = approval[a].task
      /\ spec[r].def = approval[a].def
      /\ approval[a].status \in {"starting", "started", "failed", "deleted"}

\* No child goes on without an approval that owns it (the comment on the
\* clean-up in resolve_pending_approval): a process that runs on somebody's
\* consent has an approval that is being started or was started, so a client
\* that reads "failed" may ask again; only the termination of a job object
\* that fails leaves one behind.
ApprovedProcessesAreOwned ==
  \A r \in Alive : spec[r].cause # NoCause =>
    \/ approval[spec[r].cause].status \in {"starting", "started"}
    \/ TerminateMayFail

\* An approval recorded as started names the run that it caused, and that
\* run's row exists.
StartedApprovalsNameTheirRun ==
  \A a \in Approvals : approval[a].status = "started" =>
    /\ spec[approval[a].run].cause = a
    /\ status[approval[a].run] \in {"running"} \cup TerminalStatuses

\* A run whose request for a normal stop was accepted ends as cancelled,
\* whatever its exit code and whoever observes its exit; only a start that
\* could not be recorded overrides the request.
NormalStopsEndCancelled ==
  [][\A r \in Runs :
       (r \in stopRequests /\ status[r] = "running" /\ status'[r] # "running") =>
         \/ status'[r] = "cancelled"
         \/ thread[r] \in {"undoing", "retracting"}
         \/ desktop = "down"]_vars

\* Task execution as its users see it.
Lifecycle == INSTANCE RunLifecycle WITH
  result <- status,
  place <- [r \in Runs |-> IF status[r] = "none" THEN NoSlot ELSE slot[r]],
  work <- [r \in Runs |-> CASE process[r] = "none" -> "before"
                             [] process[r] = "alive" -> "during"
                             [] OTHER -> "after"]

\* Every step of task execution is a step of the lifecycle or leaves it alone.
ImplementsLifecycle == Lifecycle!LifecycleSpec

\* A row leaves "running" once its process has ended or its start failed,
\* across crashes.
RunsSettle ==
  \A r \in Runs :
    (status[r] = "running" /\ process[r] \in ExitStatuses \cup {"gone"}) ~> status[r] # "running"

\* An approval being started is resolved.
ApprovalsSettle ==
  \A a \in Approvals :
    (approval[a].status = "starting") ~> (approval[a].status # "starting")

-----------------------------------------------------------------------------
\* A claim of the repository that the code does not keep.

\* ADR 0019: the runs a user stopped are cancelled, they are not failures.
\* Here: a run whose process a stop command is reaping never ends as failed.
UserStopsAreNotFailures ==
  \A r \in Runs :
    [](call = Stopping(r, "reaping") /\ StoppedByUser(r) => [](status[r] # "failed"))
=============================================================================
