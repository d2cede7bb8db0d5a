--------------------------- MODULE HistoryRefresh ----------------------------
(***************************************************************************)
(* The refresh of the Git history (core/activity.rs): one job at a time,   *)
(* with two workers that share its list of projects.  A worker reads the   *)
(* commits of a range in batches, outside the Core mutex, stores every     *)
(* batch and at last a row of coverage, which says up to which HEAD the    *)
(* range was read and whether that failed.  The coverage decides what the  *)
(* next refresh may skip.                                                  *)
(***************************************************************************)
EXTENDS Checkouts, Sequences, FiniteSets

CONSTANTS
  Heads, NoHead,  \* NoHead: the repository has no commit
  HeadOf,         \* HeadOf[v] is the HEAD of a repository in version v
  Ranges,         \* ranges that may be asked for: <<start, end>>
  Commits, LogOf, \* LogOf[h][r] is what git log lists for head h and range r
  BatchSize,      \* 500
  Workers,        \* 2
  MaxJobs,        \* bound: jobs that are started
  NoRow, NoTarget

Row == [head : Heads \cup {NoHead}, error : BOOLEAN]

Contains(q, r) == q[1] <= r[1] /\ r[2] <= q[2]
Listed(h, r) == {LogOf[h][r][i] : i \in DOMAIN LogOf[h][r]}

ASSUME HistoryAssumption ==
  /\ NoHead \notin Heads
  /\ HeadOf \in [Versions -> Heads \cup {NoHead}]
  /\ Ranges \subseteq Nat \X Nat
  /\ LogOf \in [Heads -> [Ranges -> Seq(Commits)]]
  /\ \A h \in Heads, r, q \in Ranges : Contains(q, r) => Listed(h, r) \subseteq Listed(h, q)
  /\ BatchSize \in Nat \ {0}
  /\ Workers # {}
  /\ MaxJobs \in Nat
  /\ NoRow \notin Row

VARIABLES
  commits,   \* project_git_commits, by project
  coverage,  \* git_history_coverage, by project and range
  job,       \* the job in the manager's slot
  worker,    \* the threads of the job
  jobs       \* jobs started so far

vars == <<path, version, commits, coverage, job, worker, jobs>>

\* A project to refresh: what prepare_history found for it.
Targets == [project : Projects, path : Paths, previous : Heads \cup {NoHead}, covered : BOOLEAN]

Jobs == [state : {"running", "completed", "partial", "canceled"}, range : Ranges,
         targets : SUBSET Targets, left : SUBSET Targets, failures : SUBSET Projects,
         cancel : BOOLEAN]
NoJob == [state |-> "idle"]

\* "storing" and "recording" follow the check of the project's location and
\* hold the Core mutex.
WorkerPlaces == {"next", "head", "batch", "storing", "finish", "recording", "stopped"}
Thread == [at : WorkerPlaces, target : Targets \cup {NoTarget}, head : Heads \cup {NoHead},
           skip : Nat, error : BOOLEAN]
At(place) == [at |-> place, target |-> NoTarget, head |-> NoHead, skip |-> 0, error |-> FALSE]

CoreFree == \A w \in Workers : worker[w].at \notin {"storing", "recording"}

Init ==
  /\ CheckoutsInit
  /\ commits = [p \in Projects |-> {}]
  /\ coverage = [p \in Projects |-> [r \in Ranges |-> NoRow]]
  /\ job = NoJob
  /\ worker = [w \in Workers |-> At("stopped")]
  /\ jobs = 0

-----------------------------------------------------------------------------
\* git log --max-count --skip: the index of the last commit of the batch that
\* follows the first skip commits.
LastOfBatch(h, r, skip) ==
  LET length == Len(LogOf[h][r])
  IN  IF skip + BatchSize < length THEN skip + BatchSize ELSE length

\* The rows of p whose range contains r.
CoveringRows(p, r) ==
  {coverage[p][q] : q \in {q \in Ranges : Contains(q, r)}} \ {NoRow}

\* Mutant of Covered: a row that reports a failure counts as well.
CoveredAnyway(row) == row # NoRow

Covered(row) == row # NoRow /\ ~ row.error

\* The target for p: previous is the covering row that was checked last, which
\* may be any of them, since it is the wall clock that tells.
TargetsFor(p, r) ==
  {[project |-> p, path |-> path[p], covered |-> Covered(row),
    previous |-> IF row = NoRow THEN NoHead ELSE row.head] :
     row \in IF CoveringRows(p, r) = {} THEN {NoRow} ELSE CoveringRows(p, r)}

\* start, when no job runs.  Projects that are unavailable or were checked less
\* than five minutes ago, those that were not asked for, are left out.
StartRefresh(r) ==
  /\ job.state # "running"
  /\ jobs < MaxJobs
  /\ CoreFree
  /\ \E chosen \in SUBSET {p \in Projects : Recorded(p)} :
       \E target \in [chosen -> UNION {TargetsFor(p, r) : p \in chosen}] :
         LET targets == {target[p] : p \in chosen}
         IN  /\ \A p \in chosen : target[p] \in TargetsFor(p, r)
             /\ job' = [state |-> IF targets = {} THEN "completed" ELSE "running",
                        range |-> r, targets |-> targets, left |-> targets,
                        failures |-> {}, cancel |-> FALSE]
             /\ worker' = [w \in Workers |-> At(IF targets = {} THEN "stopped" ELSE "next")]
  /\ jobs' = jobs + 1
  /\ UNCHANGED <<path, version, commits, coverage>>

CancelRefresh ==
  /\ job.state = "running"
  /\ job' = [job EXCEPT !.cancel = TRUE]
  /\ UNCHANGED <<path, version, commits, coverage, worker, jobs>>

-----------------------------------------------------------------------------
\* A worker

Goto(w, place) == worker' = [worker EXCEPT ![w].at = place]
Fail(w) == worker' = [worker EXCEPT ![w].at = "finish", ![w].error = TRUE]

Unmoved(t) == path[t.project] = t.path

NextTarget(w) ==
  /\ worker[w].at = "next"
  /\ IF job.cancel \/ job.left = {}
     THEN /\ worker' = [worker EXCEPT ![w] = At("stopped")]
          /\ UNCHANGED job
     ELSE \E t \in job.left :
            /\ job' = [job EXCEPT !.left = @ \ {t}]
            /\ worker' = [worker EXCEPT ![w] = [At("head") EXCEPT !.target = t]]
  /\ UNCHANGED <<path, version, commits, coverage, jobs>>

\* history_head; a HEAD that is covered already is not read again.
ReadHead(w) ==
  /\ worker[w].at = "head"
  /\ LET t == worker[w].target
         head == HeadOf[RepositoryOf(t.path)]
         known == t.covered /\ t.previous = head
     IN  \/ worker' = [worker EXCEPT ![w].head = head,
                                     ![w].at = IF known \/ head = NoHead THEN "finish" ELSE "batch"]
         \/ Fail(w)
  /\ UNCHANGED <<path, version, commits, coverage, job, jobs>>

\* history_batch, unless the job was canceled; then persist_history_batch looks
\* where the project is.  What others do between the two shows only there.
ReadBatch(w) ==
  /\ worker[w].at = "batch"
  /\ \/ ~ job.cancel /\ CoreFree /\ Unmoved(worker[w].target) /\ Goto(w, "storing")
     \/ Fail(w)
  /\ UNCHANGED <<path, version, commits, coverage, job, jobs>>

\* It inserts the commits, which fails when the project was removed.  A full
\* batch may have a successor.
StoreBatch(w) ==
  /\ worker[w].at = "storing"
  /\ LET me == worker[w]
         p == me.target.project
         last == LastOfBatch(me.head, job.range, me.skip)
     IN  \/ /\ Recorded(p)
            /\ commits' = [commits EXCEPT ![p] =
                 @ \cup {LogOf[me.head][job.range][i] : i \in me.skip + 1 .. last}]
            /\ worker' = [worker EXCEPT ![w].skip = last,
                 ![w].at = IF last < me.skip + BatchSize THEN "finish" ELSE "batch"]
         \/ /\ Fail(w)
            /\ UNCHANGED commits
  /\ UNCHANGED <<path, version, coverage, job, jobs>>

\* Mutant of Failures: an error in saving the coverage is not counted.
ReadFailures(w, saved) ==
  IF worker[w].error THEN job.failures \cup {worker[w].target.project} ELSE job.failures

Failures(w, saved) ==
  IF worker[w].error \/ ~ saved THEN job.failures \cup {worker[w].target.project} ELSE job.failures

CountTarget(w, saved) ==
  /\ job' = [job EXCEPT !.failures = Failures(w, saved)]
  /\ worker' = [worker EXCEPT ![w] = At("next")]

\* The end of a target, which a canceled job does not record.  finish_history
\* gives no row to a project that moved ...
FinishTarget(w) ==
  /\ worker[w].at = "finish"
  /\ \/ /\ job.cancel
        /\ worker' = [worker EXCEPT ![w] = At("stopped")]
        /\ UNCHANGED job
     \/ /\ ~ job.cancel
        /\ CoreFree
        /\ IF Unmoved(worker[w].target) THEN Goto(w, "recording") /\ UNCHANGED job
                                        ELSE CountTarget(w, FALSE)
  /\ UNCHANGED <<path, version, commits, coverage, jobs>>

\* ... and the row of one that was removed in between is refused.
RecordTarget(w) ==
  /\ worker[w].at = "recording"
  /\ LET me == worker[w]
         p == me.target.project
     IN  \/ /\ Recorded(p)
            /\ coverage' = [coverage EXCEPT ![p][job.range] = [head |-> me.head, error |-> me.error]]
            /\ CountTarget(w, TRUE)
         \/ /\ CountTarget(w, FALSE)
            /\ UNCHANGED coverage
  /\ UNCHANGED <<path, version, commits, jobs>>

\* The thread that waits for the workers.
EndJob ==
  /\ job.state = "running"
  /\ \A w \in Workers : worker[w].at = "stopped"
  /\ job' = [job EXCEPT !.state = IF job.cancel THEN "canceled"
                                  ELSE IF job.failures = {} THEN "completed" ELSE "partial"]
  /\ UNCHANGED <<path, version, commits, coverage, worker, jobs>>

-----------------------------------------------------------------------------
\* Everybody else: moved projects keep their history, removed ones lose it.

RelocateProject(p, d) ==
  /\ Relocate(p, d)
  /\ UNCHANGED <<commits, coverage, job, worker, jobs>>

RemoveProject(p) ==
  /\ RemoveRecord(p)
  /\ commits' = [commits EXCEPT ![p] = {}]
  /\ coverage' = [coverage EXCEPT ![p] = [r \in Ranges |-> NoRow]]
  /\ UNCHANGED <<job, worker, jobs>>

OtherProgram(r) ==
  /\ ChangeRepository(r)
  /\ UNCHANGED <<commits, coverage, job, worker, jobs>>

-----------------------------------------------------------------------------
WorkerStep(w) ==
  \/ NextTarget(w)
  \/ ReadHead(w)
  \/ ReadBatch(w)
  \/ StoreBatch(w)
  \/ FinishTarget(w)
  \/ RecordTarget(w)

Next ==
  \/ \E r \in Ranges : StartRefresh(r)
  \/ CancelRefresh
  \/ \E w \in Workers : WorkerStep(w)
  \/ EndJob
  \/ \E p \in Projects : RemoveProject(p)
  \/ \E p \in Projects, d \in Paths : RelocateProject(p, d)
  \/ \E r \in Roots : OtherProgram(r)

Spec == Init /\ [][Next]_vars

-----------------------------------------------------------------------------
\* Types of all variables (activity.rs RefreshJob, HistoryTarget; db.rs).
TypeOK ==
  /\ CheckoutsTypeOK
  /\ commits \in [Projects -> SUBSET Commits]
  /\ coverage \in [Projects -> [Ranges -> Row \cup {NoRow}]]
  /\ job \in Jobs \cup {NoJob}
  /\ worker \in [Workers -> Thread]
  /\ \A w \in Workers : worker[w].head # NoHead =>
       worker[w].skip <= Len(LogOf[worker[w].head][job.range])
  /\ jobs \in 0 .. MaxJobs

\* What a row of coverage claims is there: all commits of its HEAD in its range,
\* even if they were read for another range, in another place, or in a job that
\* came after a failed or canceled one.
CoverageIsComplete ==
  \A p \in Projects, r \in Ranges :
    LET row == coverage[p][r]
    IN  row # NoRow /\ ~ row.error /\ row.head # NoHead
          => Listed(row.head, r) \subseteq commits[p]

\* A job that reports "completed" has left coverage without an error for every
\* project that it was to refresh, unless the project was removed afterwards.
CompletedMeansCovered ==
  job.state = "completed" =>
    \A t \in job.targets : Recorded(t.project) =>
      LET row == coverage[t.project][job.range] IN row # NoRow /\ ~ row.error
=============================================================================
