----------------------------- MODULE TaskRecords ----------------------------
(***************************************************************************)
(* The records of task execution in repoatlas-core's database: projects    *)
(* and their task definitions, task_runs and pending_approvals.            *)
(*                                                                         *)
(* Every operation here is one transaction or one statement, so it is one  *)
(* action.  The desktop calls them under its Core mutex; repoatlas-mcp has *)
(* a connection of its own and interleaves between any two of them.        *)
(***************************************************************************)
EXTENDS TaskIds

CONSTANTS
  Projects, Tasks, ProjectOf,  \* ProjectOf[t] is the project task t belongs to
  Definitions,                 \* what a task may run: executable, argv, kind ...
  Absent,                      \* the definition of a task its project lacks
  Approvals,                   \* approval ids; each is used for one request
  NoTask

ASSUME RecordsAssumption ==
  /\ ProjectOf \in [Tasks -> Projects]
  /\ Absent \notin Definitions
  /\ NoTask \notin Tasks

VARIABLES
  projects,    \* the projects that exist
  definition,  \* tasks_json: the current definition of every task
  status,      \* task_runs.status; "none" before the insert
  runTask,     \* the task of every run's row
  approval     \* the pending_approvals rows, with the approved snapshot

recordVars == <<projects, definition, status, runTask, approval>>

TerminalStatuses == {"succeeded", "failed", "cancelled"}
RunStatuses == {"none", "running", "deleted"} \cup TerminalStatuses
ApprovalStatuses == {"none", "pending", "expired", "denied", "starting",
                     "started", "failed", "deleted"}
\* "old" holds once created_at is fifteen minutes ago.
ApprovalRows == [status : ApprovalStatuses, task : Tasks \cup {NoTask},
                 def : Definitions \cup {Absent}, run : Runs \cup {NoRun},
                 old : BOOLEAN]
NoApproval == [status |-> "none", task |-> NoTask, def |-> Absent,
               run |-> NoRun, old |-> FALSE]

\* The definition a lookup finds: none once the project is gone.
Current(t) == IF ProjectOf[t] \in projects THEN definition[t] ELSE Absent

BelongsTo(t, p) == t # NoTask /\ ProjectOf[t] = p

RecordsInit ==
  /\ projects = Projects
  /\ definition \in [Tasks -> Definitions]
  /\ status = [r \in Runs |-> "none"]
  /\ runTask = [r \in Runs |-> NoTask]
  /\ approval = [a \in Approvals |-> NoApproval]

-----------------------------------------------------------------------------
\* Task runs

\* insert_run: the row references its project, which must exist.
InsertRun(r, t) ==
  /\ status[r] = "none"
  /\ ProjectOf[t] \in projects
  /\ status' = [status EXCEPT ![r] = "running"]
  /\ runTask' = [runTask EXCEPT ![r] = t]
  /\ UNCHANGED <<projects, definition, approval>>

\* Mutant of Finished: the UPDATE without its status condition.
FinishedAgain(r, s) == [status EXCEPT ![r] = s]

\* finish_run's UPDATE ... WHERE status IN ('running', 'starting').
Finished(r, s) ==
  [status EXCEPT ![r] = IF status[r] = "running" THEN s ELSE status[r]]

FinishRun(r, s) ==
  /\ status' = Finished(r, s)
  /\ UNCHANGED <<projects, definition, runTask, approval>>

\* recover_interrupted_runtime, one autocommitted UPDATE per stale row.
RecoverRun(r) ==
  /\ status[r] = "running"
  /\ FinishRun(r, "failed")

-----------------------------------------------------------------------------
\* Approvals

\* request_task_approval_from snapshots the saved definition, whatever
\* command the request carried.
RequestApproval(a, t) ==
  /\ approval[a].status = "none"
  /\ Current(t) # Absent
  /\ approval' = [approval EXCEPT ![a] = [NoApproval EXCEPT
                    !.status = "pending", !.task = t, !.def = Current(t)]]
  /\ UNCHANGED <<projects, definition, status, runTask>>

GrowOld(a) ==
  /\ approval[a].status = "pending"
  /\ ~ approval[a].old
  /\ approval' = [approval EXCEPT ![a].old = TRUE]
  /\ UNCHANGED <<projects, definition, status, runTask>>

\* UPDATE pending_approvals ... WHERE id = a AND status = from.
MoveApproval(a, from, to) ==
  /\ approval[a].status = from
  /\ approval' = [approval EXCEPT ![a].status = to]
  /\ UNCHANGED <<projects, definition, status, runTask>>

\* Mutant of ApproveTask: an approval that was already resolved is claimed.
ApproveTaskAgain(a) ==
  /\ approval[a].status \in {"pending", "starting", "failed"}
  /\ ~ approval[a].old
  /\ approval' = [approval EXCEPT ![a].status = "starting"]
  /\ UNCHANGED <<projects, definition, status, runTask>>

\* approval_task_changed
TaskChanged(a) == Current(approval[a].task) # approval[a].def

\* resolve_task_approval(id, approved): expire, refuse what changed since the
\* request, deny, or claim the approval for the start that follows.
ExpireApproval(a) ==
  /\ approval[a].old
  /\ MoveApproval(a, "pending", "expired")

DenyApproval(a, approved) ==
  /\ approval[a].status = "pending"
  /\ ~ approval[a].old
  /\ approved => TaskChanged(a)
  /\ MoveApproval(a, "pending", "denied")

ApproveTask(a) ==
  /\ approval[a].status = "pending"
  /\ ~ approval[a].old
  /\ ~ TaskChanged(a)
  /\ MoveApproval(a, "pending", "starting")

\* mark_task_approval_started
MarkStarted(a, r) ==
  /\ approval[a].status = "starting"
  /\ approval' = [approval EXCEPT ![a].status = "started", ![a].run = r]
  /\ UNCHANGED <<projects, definition, status, runTask>>

\* mark_task_approval_failed, and recovery's UPDATE of a stale approval.
MarkFailed(a) == MoveApproval(a, "starting", "failed")

-----------------------------------------------------------------------------
\* Task definitions and projects

\* add_task, update_task and remove_task replace the project's tasks_json;
\* none of them looks at runs or approvals.
ChangeTask(t, d) ==
  /\ ProjectOf[t] \in projects
  /\ d # definition[t]
  /\ definition' = [definition EXCEPT ![t] = d]
  /\ UNCHANGED <<projects, status, runTask, approval>>

\* Mutant of RemoveProject: it looks at runs only, and leaves the approvals.
RemoveProjectStarting(p) ==
  /\ p \in projects
  /\ \A r \in Runs : BelongsTo(runTask[r], p) => status[r] # "running"
  /\ projects' = projects \ {p}
  /\ status' = [r \in Runs |-> IF BelongsTo(runTask[r], p) THEN "deleted" ELSE status[r]]
  /\ UNCHANGED <<definition, runTask, approval>>

\* remove_project refuses while a run is active or an approval is starting,
\* and cascades to the project's runs and approvals.
RemoveProject(p) ==
  /\ p \in projects
  /\ \A r \in Runs : BelongsTo(runTask[r], p) => status[r] # "running"
  /\ \A a \in Approvals : BelongsTo(approval[a].task, p) => approval[a].status # "starting"
  /\ projects' = projects \ {p}
  /\ status' = [r \in Runs |-> IF BelongsTo(runTask[r], p) THEN "deleted" ELSE status[r]]
  /\ approval' = [a \in Approvals |-> IF BelongsTo(approval[a].task, p)
                    THEN [approval[a] EXCEPT !.status = "deleted"] ELSE approval[a]]
  /\ UNCHANGED <<definition, runTask>>

\* What repoatlas-mcp may do at any moment, as the desktop itself may.
CatalogStep ==
  \/ \E a \in Approvals, t \in Tasks : RequestApproval(a, t)
  \/ \E a \in Approvals : GrowOld(a)
  \/ \E t \in Tasks, d \in Definitions \cup {Absent} : ChangeTask(t, d)
  \/ \E p \in Projects : RemoveProject(p)

RecordsTypeOK ==
  /\ projects \in SUBSET Projects
  /\ definition \in [Tasks -> Definitions \cup {Absent}]
  /\ status \in [Runs -> RunStatuses]
  /\ runTask \in [Runs -> Tasks \cup {NoTask}]
  /\ approval \in [Approvals -> ApprovalRows]

-----------------------------------------------------------------------------
\* An active run and an approval being started always have their project:
\* the foreign key admits them and the guards of remove_project keep it, so
\* a start in progress cannot lose the project it runs in.
ActiveWorkHasProject ==
  /\ \A r \in Runs : status[r] = "running" => ProjectOf[runTask[r]] \in projects
  /\ \A a \in Approvals :
       approval[a].status = "starting" => ProjectOf[approval[a].task] \in projects

\* How a Task Run may change: once it has a result, only the removal of its
\* project touches it.
RunMoves == {<<"none", "running">>, <<"running", "succeeded">>, <<"running", "failed">>,
             <<"running", "cancelled">>, <<"succeeded", "deleted">>,
             <<"failed", "deleted">>, <<"cancelled", "deleted">>}

ResultsAreFinal ==
  [][\A r \in Runs : status'[r] # status[r] => <<status[r], status'[r]>> \in RunMoves]_status
=============================================================================
