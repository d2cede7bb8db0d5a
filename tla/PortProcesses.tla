--------------------------- MODULE PortProcesses ---------------------------
(***************************************************************************)
(* Stopping a process that listens on a port                               *)
(* (repoatlas-core::port_processes and its commands).  The window shows an *)
(* inventory, asks for a preview of a stop and confirms it with the        *)
(* preview's token.  Meanwhile processes end, the system gives their ids   *)
(* to others, services restart and projects are removed.                   *)
(*                                                                         *)
(* An instance of a process is its id with its time of creation, here a    *)
(* number; its executable is part of that identity.  An inventory is one   *)
(* step: the code fences it by reading every identity before and after.    *)
(***************************************************************************)
EXTENDS Naturals, FiniteSets

CONSTANTS Pids,            \* ids of processes
          ProtectedPids,   \* the application, its parents, the system
          PortSets,        \* sets of ports a process may listen on
          ManagedRuns,     \* runs of the broker
          NoManagedRun,
          PortProjects,    \* projects in the library
          Tokens,          \* confirmations; each is given once
          MaxPending,      \* confirmations kept at a time: 16 in the code
          MaxBirths        \* bound on the processes ever created

ASSUME PortAssumption == MaxPending \in Nat \ {0} /\ MaxBirths \in Nat

NoProcess == [born |-> 0, run |-> NoManagedRun, ports |-> {}]
NoPreview == [pid |-> 0, born |-> 0]

VARIABLES osProcess,      \* the processes of the machine
          births,         \* how many there have been
          listed,         \* projects of the library
          associations,   \* PortProcessManager::associations
          pendingStop,    \* PortProcessManager::pending
          expired,        \* confirmations older than 60 seconds
          confirming,     \* the confirmation that is being carried out
          reviewed,       \* history: what each preview showed
          ended           \* history: instances that confirmations ended

portVars == <<osProcess, births, listed, associations, pendingStop, expired,
              confirming, reviewed, ended>>

Existing == {p \in Pids : osProcess[p] # NoProcess}
Identity(p) == [pid |-> p, born |-> osProcess[p].born]
Same(identity) == osProcess[identity.pid].born = identity.born

\* PortProcessManager::inventory: processes that listen, and the label a
\* user gave to one of them while its project is in the library.
Inventory ==
    {[id |-> Identity(p), ports |-> osProcess[p].ports, run |-> osProcess[p].run] :
        p \in {p \in Existing : osProcess[p].ports # {}}}
Remembered == {a \in associations : a.project \in listed /\ Same(a.id)}

\* What a stop of this target would affect.
Scope(target) ==
    {x \in Inventory : IF target.run # NoManagedRun THEN x.run = target.run
                       ELSE x.id.pid = target.id.pid}

PortInit ==
    /\ osProcess = [p \in Pids |-> NoProcess]
    /\ births = 0
    /\ listed = PortProjects
    /\ associations = {}
    /\ pendingStop = [t \in {} |-> NoPreview]
    /\ expired = {}
    /\ confirming = [at |-> "idle"]
    /\ reviewed = [t \in {} |-> NoPreview]
    /\ ended = {}

-----------------------------------------------------------------------------
\* The machine.  An open handle keeps the id of its process from others.
Spawn(p, run, ports) ==
    /\ births < MaxBirths
    /\ p \notin Existing
    /\ confirming.at = "opened" => confirming.handle.pid # p
    /\ births' = births + 1
    /\ osProcess' = [osProcess EXCEPT ![p] = [born |-> births', run |-> run, ports |-> ports]]
    /\ UNCHANGED <<listed, associations, pendingStop, expired, confirming, reviewed, ended>>

ProcessEnds(p) ==
    /\ p \in Existing
    /\ osProcess' = [osProcess EXCEPT ![p] = NoProcess]
    /\ UNCHANGED <<births, listed, associations, pendingStop, expired, confirming,
                   reviewed, ended>>

DelistProject(project) ==
    /\ project \in listed
    /\ listed' = listed \ {project}
    /\ UNCHANGED <<osProcess, births, associations, pendingStop, expired, confirming,
                   reviewed, ended>>

PassMinute(t) ==
    /\ t \in DOMAIN pendingStop \ expired
    /\ expired' = expired \cup {t}
    /\ UNCHANGED <<osProcess, births, listed, associations, pendingStop, confirming,
                   reviewed, ended>>

-----------------------------------------------------------------------------
\* associate_port_process: the label of the instance the window shows.
Associate(identity, project) ==
    /\ Same(identity)
    /\ project \in listed
    /\ associations' = {a \in associations : a.id # identity}
                          \cup {[id |-> identity, project |-> project]}
    /\ UNCHANGED <<osProcess, births, listed, pendingStop, expired, confirming,
                   reviewed, ended>>

Dissociate(identity) ==
    /\ Same(identity)
    /\ associations' = {a \in associations : a.id # identity}
    /\ UNCHANGED <<osProcess, births, listed, pendingStop, expired, confirming,
                   reviewed, ended>>

ListProcesses ==
    /\ associations' = Remembered
    /\ UNCHANGED <<osProcess, births, listed, pendingStop, expired, confirming,
                   reviewed, ended>>

\* preview_process_stop
Preview(t, identity, mode) ==
    LET kept == [u \in DOMAIN pendingStop \ expired |-> pendingStop[u]]
        room == IF Cardinality(DOMAIN kept) >= MaxPending THEN [u \in {} |-> NoPreview] ELSE kept
    IN  /\ t \notin DOMAIN reviewed
        /\ Same(identity)
        /\ \E target \in Inventory :
              LET preview == [target |-> target, mode |-> mode, affected |-> Scope(target)]
              IN  /\ target.id = identity
                  /\ identity.pid \notin ProtectedPids
                  /\ mode = "graceful" => target.run # NoManagedRun
                  /\ pendingStop' = [u \in DOMAIN room \cup {t} |->
                                        IF u = t THEN preview ELSE room[u]]
                  /\ reviewed' = [u \in DOMAIN reviewed \cup {t} |->
                                     IF u = t THEN target ELSE reviewed[u]]
        /\ associations' = Remembered
        /\ UNCHANGED <<osProcess, births, listed, expired, confirming, ended>>

\* PortProcessManager::consume: the confirmation is gone whatever comes of
\* it; the identity, the run and the ports must be those of the preview.
Confirmed(t) ==
    LET preview == pendingStop[t]
        target == preview.target
    IN  /\ t \notin expired
        /\ Same(target.id)
        /\ target.id.pid \notin ProtectedPids
        /\ \E x \in Inventory : x.id = target.id /\ x.run = target.run
        /\ {<<x.id, x.ports>> : x \in Scope(target)}
              = {<<x.id, x.ports>> : x \in preview.affected}

Consume(t) ==
    /\ confirming.at = "idle"
    /\ t \in DOMAIN pendingStop
    /\ pendingStop' = [u \in DOMAIN pendingStop \ {t} |-> pendingStop[u]]
    /\ IF Confirmed(t)
       THEN confirming' = [at |-> "consumed", token |-> t, preview |-> pendingStop[t]]
       ELSE UNCHANGED confirming
    /\ associations' = Remembered
    /\ UNCHANGED <<osProcess, births, listed, expired, reviewed, ended>>

\* confirm_process_stop, once the intent is in the audit: a run is stopped
\* by its id, a signal asks it to stop; other processes need a handle.
StopRun ==
    LET run == confirming.preview.target.run
        members == {p \in Existing : osProcess[p].run = run}
    IN  /\ confirming.at = "consumed"
        /\ run # NoManagedRun
        /\ IF confirming.preview.mode = "force"
           THEN /\ osProcess' = [p \in Pids |-> IF p \in members THEN NoProcess ELSE osProcess[p]]
                /\ ended' = ended \cup {[token |-> confirming.token, id |-> Identity(p),
                                         run |-> run] : p \in members}
           ELSE UNCHANGED <<osProcess, ended>>
        /\ confirming' = [at |-> "idle"]
        /\ UNCHANGED <<births, listed, associations, pendingStop, expired, reviewed>>

OpenHandle ==
    LET target == confirming.preview.target
    IN  /\ confirming.at = "consumed"
        /\ target.run = NoManagedRun
        /\ confirming' = IF target.id.pid \in Existing
                         THEN [at |-> "opened", token |-> confirming.token,
                               preview |-> confirming.preview,
                               handle |-> Identity(target.id.pid)]
                         ELSE [at |-> "idle"]
        /\ UNCHANGED <<osProcess, births, listed, associations, pendingStop, expired,
                       reviewed, ended>>

\* Mutant of Verified: the handle of the id is trusted.
VerifiedById == TRUE

\* stop_verified: identity and termination through one handle.
Verified == confirming.handle = confirming.preview.target.id

TerminateHandle ==
    LET h == confirming.handle
    IN  /\ confirming.at = "opened"
        /\ IF Verified /\ Same(h)
           THEN /\ osProcess' = [osProcess EXCEPT ![h.pid] = NoProcess]
                /\ ended' = ended \cup {[token |-> confirming.token, id |-> h,
                                         run |-> NoManagedRun]}
           ELSE UNCHANGED <<osProcess, ended>>
        /\ confirming' = [at |-> "idle"]
        /\ UNCHANGED <<births, listed, associations, pendingStop, expired, reviewed>>

\* What the window may still show: instances that have been.
Identities == {[pid |-> p, born |-> b] : p \in Pids, b \in 1..births}

PortNext ==
    \/ \E p \in Pids, r \in ManagedRuns \cup {NoManagedRun}, ports \in PortSets : Spawn(p, r, ports)
    \/ \E p \in Pids : ProcessEnds(p)
    \/ \E project \in PortProjects : DelistProject(project)
    \/ \E t \in Tokens : PassMinute(t) \/ Consume(t)
    \/ \E id \in Identities, project \in PortProjects : Associate(id, project)
    \/ \E id \in Identities : Dissociate(id)
    \/ ListProcesses
    \/ \E t \in Tokens, id \in Identities, mode \in {"graceful", "force"} : Preview(t, id, mode)
    \/ StopRun \/ OpenHandle \/ TerminateHandle

PortSpec == PortInit /\ [][PortNext]_portVars
-----------------------------------------------------------------------------
\* A confirmation ends the instance its preview showed, or processes of the
\* run it showed, and nothing else, whatever ended, restarted or took over
\* the id in between; and it is good for one stop (consume, stop_verified).
StopsAreReviewed ==
    /\ \A e \in ended :
          /\ e.run = reviewed[e.token].run
          /\ e.run = NoManagedRun => e.id = reviewed[e.token].id
    /\ \A d, e \in ended : (d.token = e.token /\ d.run = NoManagedRun) => d = e
=============================================================================
