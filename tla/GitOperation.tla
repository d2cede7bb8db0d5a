---------------------------- MODULE GitOperation -----------------------------
(***************************************************************************)
(* The Git operations of the desktop (git_execute): prepared under the     *)
(* Core mutex, executed outside it, one at a time per repository, and      *)
(* finished by storing a snapshot of the repository in the project's       *)
(* record.  Meanwhile projects are refreshed, moved and removed by both    *)
(* processes, and the repositories are changed by other programs.          *)
(*                                                                         *)
(* The locks are weak references: one that no operation uses is forgotten. *)
(* A lock is named after the operation that created it.                    *)
(***************************************************************************)
EXTENDS Checkouts

CONSTANTS Operations, NoLock, NoSnapshot

ASSUME OperationsAssumption ==
  /\ NoLock \notin Operations
  /\ NoSnapshot \notin Versions

VARIABLES
  cache,  \* projects.git_json: the version in the snapshot and where it was taken
  locks,  \* git_write_locks
  op,     \* every operation, with its local variables
  moved   \* projects that were moved between the last check and the UPDATE

vars == <<path, version, cache, locks, op, moved>>

NoCache == [seen |-> NoSnapshot]
Caches == [path : Paths, seen : Versions]

Idle == [at |-> "idle"]
Done == [at |-> "done"]

\* made is the version that the operation left behind, seen its snapshot.
Places == {"prepared", "waiting", "held", "running", "ran", "executed", "failed", "checked",
           "published"}
Ops == [at : Places, project : Projects, path : Paths, lock : Operations \cup {NoLock},
        made : Versions, seen : Versions \cup {NoSnapshot}]

\* Mutant of Inside: the lock is released before the result is stored.
InsideUntilExecuted(o) == op[o].at \in {"held", "running", "ran"}

\* The operation is inside the lock of its repository; its last check and the
\* UPDATE that follows hold the Core mutex as well.
Inside(o) == op[o].at \in {"held", "running", "ran", "executed", "failed", "checked"}
Ended(o) == op[o].at \in {"published", "done"}

\* Mutant of CoreFree: the mutex is kept while waiting for the repository.
CoreFreeUnlessWaiting == \A o \in Operations : op[o].at \notin {"waiting", "checked"}

CoreFree == \A o \in Operations : op[o].at # "checked"

Init ==
  /\ CheckoutsInit
  /\ cache = [p \in Projects |-> NoCache]
  /\ locks = [r \in Roots |-> NoLock]
  /\ op = [o \in Operations |-> Idle]
  /\ moved = {}

-----------------------------------------------------------------------------
\* An operation, as execute_git_operation performs it

Goto(o, place) == op' = [op EXCEPT ![o].at = place]
End(o) == op' = [op EXCEPT ![o] = Done]

Prepare(o, p) ==
  /\ op[o] = Idle
  /\ CoreFree
  /\ Recorded(p)
  /\ op' = [op EXCEPT ![o] = [at |-> "prepared", project |-> p, path |-> path[p],
                              lock |-> NoLock, made |-> 0, seen |-> NoSnapshot]]
  /\ UNCHANGED <<path, version, cache, locks, moved>>

\* The directory is gone, or is no longer part of a checkout.
RefuseOperation(o) ==
  /\ op[o].at = "prepared"
  /\ End(o)
  /\ UNCHANGED <<path, version, cache, locks, moved>>

\* The operations that keep lock l alive.
Users(l) == {o \in Operations : (op[o].at = "waiting" \/ Inside(o)) /\ op[o].lock = l}

\* Mutant of Alive: the reference of the only user does not count.
Contended(l) == \E o \in Users(l) : Users(l) # {o}

Alive(l) == Users(l) # {}

\* The unused locks are forgotten, then the repository's is found or created.
FindLock(o) ==
  /\ op[o].at = "prepared"
  /\ LET root == RootOf[op[o].path]
         kept == [r \in Roots |-> IF Alive(locks[r]) THEN locks[r] ELSE NoLock]
         lock == IF kept[root] = NoLock THEN o ELSE kept[root]
     IN  /\ locks' = [kept EXCEPT ![root] = lock]
         /\ op' = [op EXCEPT ![o].at = "waiting", ![o].lock = lock]
  /\ UNCHANGED <<path, version, cache, moved>>

AcquireLock(o) ==
  /\ op[o].at = "waiting"
  /\ \A q \in Operations : Inside(q) => op[q].lock # op[o].lock
  /\ Goto(o, "held")
  /\ UNCHANGED <<path, version, cache, locks, moved>>

\* Mutant of Unmoved: the project only has to exist.
StillRecorded(o) == Recorded(op[o].project)

\* validate_git_operation: the project is where it was.
Unmoved(o) == path[op[o].project] = op[o].path

ValidateOperation(o) ==
  /\ op[o].at = "held"
  /\ CoreFree
  /\ IF Unmoved(o) THEN Goto(o, "running") ELSE End(o)
  /\ UNCHANGED <<path, version, cache, locks, moved>>

\* Git changes the repository or not; it may not even start.
RunGit(o) ==
  /\ op[o].at = "running"
  /\ LET root == RootOf[op[o].path]
     IN  \/ /\ version[root] < MaxVersion
            /\ version' = [version EXCEPT ![root] = @ + 1]
            /\ op' = [op EXCEPT ![o].at = "ran", ![o].made = version[root] + 1]
         \/ /\ op' = [op EXCEPT ![o].at = "ran", ![o].made = version[root]]
            /\ UNCHANGED version
         \/ /\ Goto(o, "failed")
            /\ UNCHANGED version
  /\ UNCHANGED <<path, cache, locks, moved>>

TakeSnapshot(o) ==
  /\ op[o].at = "ran"
  /\ \E seen \in {RepositoryOf(op[o].path), NoSnapshot} :
       op' = [op EXCEPT ![o].at = "executed", ![o].seen = seen]
  /\ UNCHANGED <<path, version, cache, locks, moved>>

\* finish_git_operation up to its check: a failed operation, a failing write of
\* the audit event, a moved project and a missing snapshot all end it.
FinishOperation(o) ==
  /\ op[o].at \in {"executed", "failed"}
  /\ CoreFree
  /\ \/ op[o].at = "executed" /\ Unmoved(o) /\ op[o].seen # NoSnapshot /\ Goto(o, "checked")
     \/ End(o)
  /\ UNCHANGED <<path, version, cache, locks, moved>>

\* UPDATE projects ... WHERE id, which finds no row when the project was
\* removed and may fail.
PublishSnapshot(o) ==
  /\ op[o].at = "checked"
  /\ LET p == op[o].project
     IN  \/ /\ Recorded(p)
            /\ cache' = [cache EXCEPT ![p] = [path |-> op[o].path, seen |-> op[o].seen]]
            /\ Goto(o, "published")
         \/ End(o) /\ UNCHANGED cache
  /\ UNCHANGED <<path, version, locks, moved>>

-----------------------------------------------------------------------------
\* Everybody else.  The transactions that refresh, move and remove a project
\* are atomic for both processes; the desktop's also need the Core mutex,
\* which the MCP server's do not.

\* The snapshot of a directory, if Git answers.
Snapshots(d) == {[path |-> d, seen |-> RepositoryOf(d)], NoCache}

RefreshProject(p) ==
  /\ Recorded(p)
  /\ \E snapshot \in Snapshots(path[p]) : cache' = [cache EXCEPT ![p] = snapshot]
  /\ UNCHANGED <<path, version, locks, op, moved>>

\* The moved record is refreshed in the same transaction.
RelocateProject(p, d) ==
  /\ Relocate(p, d)
  /\ \E snapshot \in Snapshots(d) : cache' = [cache EXCEPT ![p] = snapshot]
  /\ moved' = moved \cup {q \in {p} : \E o \in Operations : op[o].at = "checked" /\ op[o].project = q}
  /\ UNCHANGED <<locks, op>>

RemoveProject(p) ==
  /\ RemoveRecord(p)
  /\ cache' = [cache EXCEPT ![p] = NoCache]
  /\ UNCHANGED <<locks, op, moved>>

OtherProgram(r) ==
  /\ ChangeRepository(r)
  /\ UNCHANGED <<cache, locks, op, moved>>

-----------------------------------------------------------------------------
OperationStep(o) ==
  \/ RefuseOperation(o)
  \/ FindLock(o)
  \/ AcquireLock(o)
  \/ ValidateOperation(o)
  \/ RunGit(o)
  \/ TakeSnapshot(o)
  \/ FinishOperation(o)
  \/ PublishSnapshot(o)

Next ==
  \/ \E o \in Operations : OperationStep(o) \/ \E p \in Projects : Prepare(o, p)
  \/ \E p \in Projects : RefreshProject(p) \/ RemoveProject(p)
  \/ \E p \in Projects, d \in Paths : RelocateProject(p, d)
  \/ \E r \in Roots : OtherProgram(r)

\* An operation that was prepared goes on; Git ends after 15 seconds at most.
Fairness == \A o \in Operations : WF_vars(OperationStep(o))

Spec == Init /\ [][Next]_vars /\ Fairness

-----------------------------------------------------------------------------
\* Types of all variables (lib.rs git_write_locks, core.rs PreparedGitOperation).
TypeOK ==
  /\ CheckoutsTypeOK
  /\ cache \in [Projects -> Caches \cup {NoCache}]
  /\ locks \in [Roots -> Operations \cup {NoLock}]
  /\ op \in [Operations -> Ops \cup {Idle, Done}]
  /\ moved \in SUBSET Projects

\* Two operations are never at work in one repository, not even when they
\* belong to different projects, and although the table forgets locks.
OneOperationPerRepository ==
  \A o, q \in Operations :
    Inside(o) /\ Inside(q) /\ RootOf[op[o].path] = RootOf[op[q].path] => o = q

\* The cached state of a project describes the directory its record names,
\* unless another client moved it between the last check and the UPDATE.
CacheIsOfTheRecordedPath ==
  \A p \in Projects :
    cache[p] # NoCache => cache[p].path = path[p] \/ p \in moved

\* What an operation did stays visible: no later refresh, and no operation on
\* the same repository, replaces its snapshot by one that is older.
FinishedOperationsStayVisible ==
  \A o \in Operations :
    op[o].at = "published" =>
      LET shown == cache[op[o].project]
      IN  shown # NoCache /\ shown.path = op[o].path => shown.seen >= op[o].made

\* Every prepared operation ends: the mutex of the core and the locks of the
\* repositories are never awaited in a circle.
OperationsEnd == \A o \in Operations : op[o].at = "prepared" ~> Ended(o)
=============================================================================
