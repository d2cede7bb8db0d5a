----------------------------- MODULE RunMonitor -----------------------------
(***************************************************************************)
(* What the desktop observes of running tasks (src-tauri/src/lib.rs and    *)
(* repoatlas-core::broker).  A start checks the ports the task expects,    *)
(* or uses a check of the last three seconds; it registers the run with    *)
(* the broker and then stores what the sampler needs to know of it.  The   *)
(* sampler and the window take snapshots of the runs' process trees        *)
(* outside the lock of Core and store them under it.                       *)
(*                                                                         *)
(* All runs are of one task, whose expected ports are edited meanwhile.    *)
(* Load stands for processor and memory.                                   *)
(***************************************************************************)
EXTENDS Naturals, FiniteSets, FiniteSetsExt

CONSTANTS MonitorRuns,  \* runs started in one life of the desktop
          TaskPorts,    \* ports a task may expect
          MaxLoad,      \* bound on what is measured
          MaxPortEdits  \* bound on edits of the expected ports

ASSUME RunMonitorAssumption ==
    /\ MaxLoad \in Nat /\ MaxPortEdits \in Nat
    /\ IsFiniteSet(MonitorRuns) /\ IsFiniteSet(TaskPorts)

NoCheck == [at |-> "none"]
Sleeping == [at |-> "sleep"]

VARIABLES expected,     \* the ports the task expects, and how often edited
          taken,        \* ports other programs listen on
          portCheck,    \* preflight_task_ports and its cached answer
          monitored,    \* each run
          peaks,        \* the highest load stored of each run
          runtimeConfigs, \* runs the sampler knows of
          observer      \* the sampler and a window

monitorVars == <<expected, taken, portCheck, monitored, peaks, runtimeConfigs, observer>>

MonitorInit ==
    /\ expected = [ports |-> {}, edits |-> 0]
    /\ taken \in SUBSET TaskPorts
    /\ portCheck = NoCheck
    /\ monitored = [r \in MonitorRuns |-> [at |-> "none", ports |-> {}, load |-> 0]]
    /\ peaks = [r \in MonitorRuns |-> 0]
    /\ runtimeConfigs = {}
    /\ observer = [o \in {"sampler", "window"} |-> Sleeping]

Live(r) == monitored[r].at \in {"registered", "configured"}
Held(r) == IF Live(r) THEN monitored[r].ports ELSE {}
Listening == taken \cup UNION {Held(r) : r \in MonitorRuns}

\* port_conflicts: expected ports some process outside the run listens on.
Conflicts(ports) == ports \cap Listening

-----------------------------------------------------------------------------
EditPorts ==
    /\ expected.edits < MaxPortEdits
    /\ \E ports \in SUBSET TaskPorts :
          expected' = [ports |-> ports, edits |-> expected.edits + 1]
    /\ UNCHANGED <<taken, portCheck, monitored, peaks, runtimeConfigs, observer>>

OtherListener(port) ==
    /\ taken' = (taken \ {port}) \cup ({port} \ taken)
    /\ UNCHANGED <<expected, portCheck, monitored, peaks, runtimeConfigs, observer>>

\* preflight_task_ports: the task is read under Core, the listeners later.
ReadExpectedPorts ==
    /\ portCheck.at \in {"none", "cached"}
    /\ portCheck' = [at |-> "inspect", ports |-> expected.ports]
    /\ UNCHANGED <<expected, taken, monitored, peaks, runtimeConfigs, observer>>

CachePreflight ==
    /\ portCheck.at = "inspect"
    /\ portCheck' = [at |-> "cached", conflicts |-> Conflicts(portCheck.ports)]
    /\ UNCHANGED <<expected, taken, monitored, peaks, runtimeConfigs, observer>>

\* Listeners cannot be inspected, or three seconds have passed.
DropPreflight ==
    /\ portCheck.at \in {"inspect", "cached"}
    /\ portCheck' = NoCheck
    /\ UNCHANGED <<expected, taken, monitored, peaks, runtimeConfigs, observer>>

-----------------------------------------------------------------------------
\* start_task takes the cached check, if there is one, and reads the task.
\* Only one start at a time: the broker refuses a second run of the task
\* while one is registered.
StartMonitored(r) ==
    /\ monitored[r].at = "none"
    /\ monitored' = [monitored EXCEPT ![r] =
          [at |-> "check", ports |-> expected.ports, load |-> 0,
           cached |-> portCheck.at = "cached",
           conflicts |-> IF portCheck.at = "cached" THEN portCheck.conflicts ELSE {}]]
    /\ portCheck' = IF portCheck.at = "cached" THEN NoCheck ELSE portCheck
    /\ UNCHANGED <<expected, taken, peaks, runtimeConfigs, observer>>

CheckPorts(r) ==
    LET conflicts == IF monitored[r].cached THEN monitored[r].conflicts
                     ELSE Conflicts(monitored[r].ports)
    IN  /\ monitored[r].at = "check"
        /\ \E allowed \in BOOLEAN :
              monitored' = [monitored EXCEPT ![r] =
                  [at |-> IF conflicts = {} \/ allowed THEN "start" ELSE "refused",
                   ports |-> @.ports, load |-> 0]]
        /\ UNCHANGED <<expected, taken, portCheck, peaks, runtimeConfigs, observer>>

RegisterRun(r) ==
    /\ monitored[r].at = "start"
    /\ monitored' = [monitored EXCEPT ![r].at =
          IF \E q \in MonitorRuns : Live(q) THEN "refused" ELSE "registered"]
    /\ UNCHANGED <<expected, taken, portCheck, peaks, runtimeConfigs, observer>>

\* The process may have ended before its configuration is stored.
ConfigureRun(r) ==
    /\ monitored[r].at \in {"registered", "ended early"}
    /\ runtimeConfigs' = runtimeConfigs \cup {r}
    /\ monitored' = [monitored EXCEPT ![r].at =
          IF @ = "registered" THEN "configured" ELSE "ended"]
    /\ UNCHANGED <<expected, taken, portCheck, peaks, observer>>

ChangeLoad(r) ==
    /\ Live(r)
    /\ \E n \in 0..MaxLoad : monitored' = [monitored EXCEPT ![r].load = n]
    /\ UNCHANGED <<expected, taken, portCheck, peaks, runtimeConfigs, observer>>

EndMonitored(r) ==
    /\ Live(r)
    /\ monitored' = [monitored EXCEPT ![r].at =
          IF @ = "registered" THEN "ended early" ELSE "ended"]
    /\ UNCHANGED <<expected, taken, portCheck, peaks, runtimeConfigs, observer>>

-----------------------------------------------------------------------------
\* ensure_runtime_sampler, started with the first run: which runs are
\* active, which of them are known, what they use, and the peaks.
SampleActive ==
    /\ observer["sampler"] = Sleeping
    /\ \E r \in MonitorRuns : monitored[r].at \in {"configured", "ended"}
    /\ observer' = [observer EXCEPT !["sampler"] =
          [at |-> "retain", active |-> {r \in MonitorRuns : Live(r)}]]
    /\ UNCHANGED <<expected, taken, portCheck, monitored, peaks, runtimeConfigs>>

RetainConfigs ==
    /\ observer["sampler"].at = "retain"
    /\ runtimeConfigs' = runtimeConfigs \cap observer["sampler"].active
    /\ observer' = [observer EXCEPT !["sampler"] =
          [at |-> "collect", requests |-> runtimeConfigs']]
    /\ UNCHANGED <<expected, taken, portCheck, monitored, peaks>>

\* get_task_runtime_snapshots of the runs a window shows.
RequestSnapshots ==
    /\ observer["window"] = Sleeping
    /\ \E r \in MonitorRuns :
          observer' = [observer EXCEPT !["window"] = [at |-> "collect", requests |-> {r}]]
    /\ UNCHANGED <<expected, taken, portCheck, monitored, peaks, runtimeConfigs>>

\* collect_runtime_snapshots leaves out runs the broker does not list.
CollectSnapshots(o) ==
    LET found == {r \in observer[o].requests : Live(r)}
    IN  /\ observer[o].at = "collect"
        /\ observer' = [observer EXCEPT ![o] =
              IF found = {} THEN Sleeping
              ELSE [at |-> "persist", loads |-> [r \in found |-> monitored[r].load]]]
        /\ UNCHANGED <<expected, taken, portCheck, monitored, peaks, runtimeConfigs>>

\* persist_runtime_snapshots, in one transaction for all runs of the batch.
PersistSnapshots(o) ==
    /\ observer[o].at = "persist"
    /\ peaks' = [r \in MonitorRuns |->
          IF r \in DOMAIN observer[o].loads
          THEN Max({peaks[r], observer[o].loads[r]}) ELSE peaks[r]]
    /\ observer' = [observer EXCEPT ![o] = Sleeping]
    /\ UNCHANGED <<expected, taken, portCheck, monitored, runtimeConfigs>>

\* The row of one run is gone with its project: nothing is stored.
FailSnapshots(o) ==
    /\ observer[o].at = "persist"
    /\ \E r \in DOMAIN observer[o].loads : monitored[r].at = "ended"
    /\ observer' = [observer EXCEPT ![o] = Sleeping]
    /\ UNCHANGED <<expected, taken, portCheck, monitored, peaks, runtimeConfigs>>

-----------------------------------------------------------------------------
MonitorNext ==
    \/ EditPorts \/ ReadExpectedPorts \/ CachePreflight \/ DropPreflight
    \/ \E port \in TaskPorts : OtherListener(port)
    \/ \E r \in MonitorRuns :
          StartMonitored(r) \/ CheckPorts(r) \/ RegisterRun(r) \/ ConfigureRun(r)
          \/ ChangeLoad(r) \/ EndMonitored(r)
    \/ SampleActive \/ RetainConfigs \/ RequestSnapshots
    \/ \E o \in {"sampler", "window"} :
          CollectSnapshots(o) \/ PersistSnapshots(o) \/ FailSnapshots(o)

MonitorSpec == MonitorInit /\ [][MonitorNext]_monitorVars

-----------------------------------------------------------------------------
\* "One application-level sampler refreshes the operating-system process and
\* listening-port snapshots once for all active Task Runs every five seconds"
\* (docs/adr/0021): a run that was started and still runs is one the
\* sampler knows of.
ActiveRunsAreSampled ==
    \A r \in MonitorRuns : monitored[r].at = "configured" => r \in runtimeConfigs
=============================================================================
