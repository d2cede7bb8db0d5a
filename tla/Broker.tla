------------------------------- MODULE Broker -------------------------------
(***************************************************************************)
(* The task broker of repoatlas-core (broker.rs): it starts at most        *)
(* MaxConcurrency processes, at most one per (project, kind), watches each *)
(* one from a thread of its own and reports its exit exactly once.         *)
(*                                                                         *)
(* start and stop take the desktop's only database connection by           *)
(* reference, so one call is in progress at a time: "call" is that call    *)
(* and the point it has reached.  Watcher threads, the processes and the   *)
(* port manager's request_normal_stop take only the broker's own mutex and *)
(* interleave with every point of it.                                      *)
(***************************************************************************)
EXTENDS TaskIds, Naturals, FiniteSets

CONSTANTS
  Slots,             \* the (project_id, kind) pairs
  NoSlot,            \* the slot of a run that was never admitted
  MaxConcurrency,    \* max_concurrency of the broker
  TerminateMayFail   \* TRUE on Windows, where job.terminate() returns an error

ASSUME BrokerAssumption ==
  /\ IsFiniteSet(Runs)
  /\ NoSlot \notin Slots
  /\ MaxConcurrency \in Nat \ {0}
  /\ TerminateMayFail \in BOOLEAN

VARIABLES
  live,          \* BrokerInner.runs: the runs whose child the broker owns
  slot,          \* the (project, kind) each run was admitted for
  process,       \* each run's operating-system process, with its exit status
  watcher,       \* each run's watcher thread
  seen,          \* the exit code a watcher holds for on_exit; "none" is None
  stopRequests,  \* BrokerInner.stop_requests: accepted requests for a normal stop
  call           \* the call of start or stop in progress

brokerVars == <<live, slot, process, watcher, seen, stopRequests, call>>

ExitStatuses == {"ok", "bad"}            \* code zero; another code or a signal
\* An ended process keeps its status until it is waited for ("gone").
ProcessStates == {"none", "alive", "gone"} \cup ExitStatuses
WatcherStates == {"none", "watching", "exited", "reported"}
StartPoints == {"admitted", "recorded", "spawned"}
StopPoints == {"signalled", "reaping", "confirmed", "refused"}
Calls == [op : {"none", "start", "stop"}, run : Runs \cup {NoRun},
          at : {"idle"} \cup StartPoints \cup StopPoints]

Idle == [op |-> "none", run |-> NoRun, at |-> "idle"]
Starting(r, p) == [op |-> "start", run |-> r, at |-> p]
Stopping(r, p) == [op |-> "stop", run |-> r, at |-> p]

\* What is left of r's process once it was killed and waited for.
Reaped(r) == IF process[r] = "none" THEN "none" ELSE "gone"

\* The LiveRun of r still holds the terminal's writer: stop takes it first.
HasWriter(r) == r \in live /\ call # Stopping(r, "signalled")

BrokerInit ==
  /\ live = {}
  /\ slot = [r \in Runs |-> NoSlot]
  /\ process = [r \in Runs |-> "none"]
  /\ watcher = [r \in Runs |-> "none"]
  /\ seen = [r \in Runs |-> "none"]
  /\ stopRequests = {}
  /\ call = Idle

-----------------------------------------------------------------------------
\* Broker::start.  A start the checks refuse changes nothing here.

\* Mutants of StartAdmit: the limit is off by one; the slot is not checked.
StartAdmitOneMore(r, s) ==
  /\ call = Idle
  /\ slot[r] = NoSlot
  /\ Cardinality(live) <= MaxConcurrency
  /\ \A q \in live : slot[q] # s
  /\ slot' = [slot EXCEPT ![r] = s]
  /\ call' = Starting(r, "admitted")
  /\ UNCHANGED <<live, process, watcher, seen, stopRequests>>

StartAdmitAnySlot(r, s) ==
  /\ call = Idle
  /\ slot[r] = NoSlot
  /\ Cardinality(live) < MaxConcurrency
  /\ slot' = [slot EXCEPT ![r] = s]
  /\ call' = Starting(r, "admitted")
  /\ UNCHANGED <<live, process, watcher, seen, stopRequests>>

\* The limit and the slot are checked under the mutex, which is then released.
StartAdmit(r, s) ==
  /\ call = Idle
  /\ slot[r] = NoSlot
  /\ Cardinality(live) < MaxConcurrency
  /\ \A q \in live : slot[q] # s
  /\ slot' = [slot EXCEPT ![r] = s]
  /\ call' = Starting(r, "admitted")
  /\ UNCHANGED <<live, process, watcher, seen, stopRequests>>

\* The log file is created, the command resolved and the run's row inserted.
StartRecord(r) ==
  /\ call = Starting(r, "admitted")
  /\ call' = Starting(r, "recorded")
  /\ UNCHANGED <<live, slot, process, watcher, seen, stopRequests>>

StartSpawn(r) ==
  /\ call = Starting(r, "recorded")
  /\ process' = [process EXCEPT ![r] = "alive"]
  /\ call' = Starting(r, "spawned")
  /\ UNCHANGED <<live, slot, watcher, seen, stopRequests>>

\* Mutant of StartFail: an early return without abort_spawn.
StartFailLeaks(r) ==
  /\ \E p \in StartPoints : call = Starting(r, p)
  /\ call' = Idle
  /\ UNCHANGED <<live, slot, process, watcher, seen, stopRequests>>

\* start returns an error, after abort_spawn if there is a child to abort.
StartFail(r) ==
  /\ \E p \in StartPoints : call = Starting(r, p)
  /\ process' = [process EXCEPT ![r] = Reaped(r)]
  /\ call' = Idle
  /\ UNCHANGED <<live, slot, watcher, seen, stopRequests>>

\* The LiveRun is pushed under the mutex and its two threads are started.
StartRegister(r) ==
  /\ call = Starting(r, "spawned")
  /\ live' = live \cup {r}
  /\ watcher' = [watcher EXCEPT ![r] = "watching"]
  /\ call' = Idle
  /\ UNCHANGED <<slot, process, seen, stopRequests>>

-----------------------------------------------------------------------------
\* Broker::stop

\* With a LiveRun: take its terminal and signal the process tree; the job
\* object's termination may fail and leaves everything as it was.  Without
\* one (the watcher or an earlier stop removed it) there is nothing to do.
StopBegin(r) ==
  /\ call = Idle
  /\ slot[r] # NoSlot
  /\ \/ r \in live /\ call' = Stopping(r, "signalled")
     \/ r \in live /\ TerminateMayFail /\ call' = Stopping(r, "refused")
     \/ r \notin live /\ call' = Stopping(r, "confirmed")
  /\ UNCHANGED <<live, slot, process, watcher, seen, stopRequests>>

\* reap removes the LiveRun under the mutex ...
StopRemove(r) ==
  /\ call = Stopping(r, "signalled")
  /\ live' = live \ {r}
  /\ call' = Stopping(r, "reaping")
  /\ UNCHANGED <<slot, process, watcher, seen, stopRequests>>

\* Mutant of StopReap: it neither kills nor waits for the child.
StopReapWithoutWait(r) ==
  /\ call = Stopping(r, "reaping")
  /\ \E result \in {"confirmed", "refused"} : call' = Stopping(r, result)
  /\ UNCHANGED <<live, slot, process, watcher, seen, stopRequests>>

\* ... and waits for the child outside it; then the output drains within two
\* seconds, or stop returns the error stop_pending.
StopReap(r) ==
  /\ call = Stopping(r, "reaping")
  /\ process' = [process EXCEPT ![r] = Reaped(r)]
  /\ \E result \in {"confirmed", "refused"} : call' = Stopping(r, result)
  /\ UNCHANGED <<live, slot, watcher, seen, stopRequests>>

StopReturn(r) ==
  /\ \E result \in {"confirmed", "refused"} : call = Stopping(r, result)
  /\ call' = Idle
  /\ UNCHANGED <<live, slot, process, watcher, seen, stopRequests>>

-----------------------------------------------------------------------------
\* The processes, their watchers and the port manager

ProcessExit(r, status) ==
  /\ process[r] = "alive"
  /\ process' = [process EXCEPT ![r] = status]
  /\ UNCHANGED <<live, slot, watcher, seen, stopRequests, call>>

\* try_wait returned the exit status: the watcher removes the LiveRun.
ObserveExit(r) ==
  /\ watcher[r] = "watching"
  /\ r \in live
  /\ process[r] \in ExitStatuses
  /\ live' = live \ {r}
  /\ watcher' = [watcher EXCEPT ![r] = "exited"]
  /\ seen' = [seen EXCEPT ![r] = process[r]]
  /\ process' = [process EXCEPT ![r] = "gone"]
  /\ UNCHANGED <<slot, stopRequests, call>>

\* Mutant of ObserveReaped: the watcher goes on waiting for its LiveRun.
KeepWatching(r) ==
  /\ watcher[r] = "watching"
  /\ r \notin live
  /\ UNCHANGED brokerVars

\* An explicit stop already removed the LiveRun: the code stays unknown.
ObserveReaped(r) ==
  /\ watcher[r] = "watching"
  /\ r \notin live
  /\ watcher' = [watcher EXCEPT ![r] = "exited"]
  /\ UNCHANGED <<live, slot, process, seen, stopRequests, call>>

\* try_wait failed: the child is killed rather than leaked.
LoseStatus(r) ==
  /\ watcher[r] = "watching"
  /\ r \in live
  /\ live' = live \ {r}
  /\ process' = [process EXCEPT ![r] = Reaped(r)]
  /\ watcher' = [watcher EXCEPT ![r] = "exited"]
  /\ UNCHANGED <<slot, seen, stopRequests, call>>

\* on_exit(run, code), whose handler consumes the run's stop request.
Report(r) ==
  /\ watcher[r] = "exited"
  /\ watcher' = [watcher EXCEPT ![r] = "reported"]
  /\ seen' = [seen EXCEPT ![r] = "none"]
  /\ stopRequests' = stopRequests \ {r}
  /\ UNCHANGED <<live, slot, process, call>>

\* request_normal_stop writes ^C to the terminal and remembers the request.
RequestNormalStop(r) ==
  /\ HasWriter(r)
  /\ stopRequests' = stopRequests \cup {r}
  /\ UNCHANGED <<live, slot, process, watcher, seen, call>>

-----------------------------------------------------------------------------
BrokerStep(r) ==
  \/ \E s \in Slots : StartAdmit(r, s)
  \/ StartRecord(r)
  \/ StartSpawn(r)
  \/ StartFail(r)
  \/ StartRegister(r)
  \/ StopBegin(r)
  \/ StopRemove(r)
  \/ StopReap(r)
  \/ StopReturn(r)
  \/ \E status \in ExitStatuses : ProcessExit(r, status)
  \/ ObserveExit(r)
  \/ ObserveReaped(r)
  \/ LoseStatus(r)
  \/ Report(r)
  \/ RequestNormalStop(r)

BrokerNext == \E r \in Runs : BrokerStep(r)

\* A call that began runs to its end, and a watcher polls every 25 ms until
\* it has reported; neither start, nor stop, nor the exit of a process is
\* promised by anyone.
BrokerFairness ==
  \A r \in Runs :
    /\ WF_brokerVars(StartRecord(r) \/ StartSpawn(r) \/ StartFail(r) \/ StartRegister(r))
    /\ WF_brokerVars(StopRemove(r) \/ StopReap(r) \/ StopReturn(r))
    /\ WF_brokerVars(ObserveExit(r) \/ ObserveReaped(r) \/ LoseStatus(r) \/ Report(r))

BrokerSpec == BrokerInit /\ [][BrokerNext]_brokerVars /\ BrokerFairness

-----------------------------------------------------------------------------
BrokerTypeOK ==
  /\ live \in SUBSET Runs
  /\ slot \in [Runs -> Slots \cup {NoSlot}]
  /\ process \in [Runs -> ProcessStates]
  /\ watcher \in [Runs -> WatcherStates]
  /\ seen \in [Runs -> {"none"} \cup ExitStatuses]
  /\ stopRequests \in SUBSET Runs
  /\ call \in Calls

Alive == {r \in Runs : process[r] = "alive"}

\* No more than MaxConcurrency task processes are alive at once, the child
\* being spawned and the one being reaped included: the limit is checked
\* before the run is in BrokerInner.runs and the run leaves it before its
\* process has ended, so the vector alone does not bound the processes.
ProcessesAreBounded == Cardinality(Alive) <= MaxConcurrency

\* Two processes alive at once never belong to the same (project, kind),
\* although the slot is checked under one acquisition of the mutex and the
\* LiveRun is pushed under another.
OneProcessPerSlot == \A q, r \in Alive : slot[q] = slot[r] => q = r

\* A process that is alive can still be stopped: the broker holds its child,
\* or the call that is spawning or reaping it does.
ProcessesAreOwned == \A r \in Alive : r \in live \/ call.run = r

\* An accepted request for a normal stop is still going to be consumed by the
\* run's exit handler: none stays behind in BrokerInner.stop_requests.
StopRequestsAreAwaited ==
  \A r \in stopRequests : watcher[r] \in {"watching", "exited"}
=============================================================================
