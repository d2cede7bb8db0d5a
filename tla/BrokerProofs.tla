---------------------------- MODULE BrokerProofs ----------------------------
(***************************************************************************)
(* Proofs about the broker, for every set of runs and slots and every      *)
(* limit.  The argument: the places of BrokerInner.runs together with the  *)
(* run of the call in progress (Occupied) hold every live process, never   *)
(* exceed the limit and never share a slot, because only StartAdmit adds   *)
(* to them, when no call is in progress and they are the vector itself.    *)
(***************************************************************************)
EXTENDS Broker, FiniteSetTheorems, TLAPS

\* The run of a call that may hold a process outside BrokerInner.runs.
CallPlaces ==
  IF call.at \in StartPoints \cup {"signalled", "reaping"} THEN {call.run} ELSE {}

Occupied == live \cup CallPlaces

CallShape ==
  \/ call = Idle
  \/ \E r \in Runs, p \in StartPoints : call = Starting(r, p)
  \/ \E r \in Runs, p \in StopPoints : call = Stopping(r, p)

PlacesHoldProcesses == \A r \in Runs : process[r] = "alive" => r \in Occupied

PlacesAreDistinct ==
  /\ \A r \in Occupied : slot[r] \in Slots
  /\ \A q, r \in Occupied : slot[q] = slot[r] => q = r

PlacesAreBounded == Cardinality(Occupied) <= MaxConcurrency

LiveRunsAreWatched == \A r \in live : watcher[r] = "watching"

\* A stop that has come to its end has ended the process, unless the job
\* object's termination may fail.
StopsHaveEffect ==
  \A r \in Runs, p \in {"confirmed", "refused"} :
    ~ TerminateMayFail /\ call = Stopping(r, p) => process[r] # "alive"

BrokerInv ==
  /\ BrokerTypeOK
  /\ CallShape
  /\ PlacesHoldProcesses
  /\ PlacesAreDistinct
  /\ PlacesAreBounded
  /\ LiveRunsAreWatched
  /\ StopRequestsAreAwaited
  /\ StopsHaveEffect

-----------------------------------------------------------------------------
USE DEF Idle, Starting, Stopping

\* Every set of places is a finite set of runs.
LEMMA OccupiedFinite ==
  ASSUME live \in SUBSET Runs, CallShape
  PROVE  Occupied \in SUBSET Runs /\ IsFiniteSet(Occupied) /\ IsFiniteSet(live)
<1>1. Occupied \in SUBSET Runs
  BY DEF Occupied, CallPlaces, CallShape, StartPoints, StopPoints
<1>2. QED
  BY <1>1, FS_Subset, BrokerAssumption

\* The types of the broker's variables are invariant.
LEMMA InitType == BrokerInit => BrokerTypeOK
BY DEF BrokerInit, BrokerTypeOK, ProcessStates, WatcherStates, Calls

\* Every operation of the broker keeps the type of its variables.
LEMMA StepType ==
  ASSUME BrokerTypeOK, NEW r \in Runs, BrokerStep(r)
  PROVE  BrokerTypeOK'
<1> USE DEF BrokerTypeOK, ProcessStates, WatcherStates, Calls, ExitStatuses,
            StartPoints, StopPoints, Reaped
<1>1. CASE \E s \in Slots : StartAdmit(r, s)
  BY <1>1 DEF StartAdmit
<1>2. CASE StartRecord(r) \/ StartSpawn(r) \/ StartFail(r) \/ StartRegister(r)
  BY <1>2 DEF StartRecord, StartSpawn, StartFail, StartRegister
<1>3. CASE StopBegin(r) \/ StopRemove(r) \/ StopReap(r) \/ StopReturn(r)
  BY <1>3 DEF StopBegin, StopRemove, StopReap, StopReturn
<1>4. CASE \E status \in ExitStatuses : ProcessExit(r, status)
  BY <1>4 DEF ProcessExit
<1>5. CASE ObserveExit(r) \/ ObserveReaped(r) \/ LoseStatus(r)
  BY <1>5 DEF ObserveExit, ObserveReaped, LoseStatus
<1>6. CASE Report(r) \/ RequestNormalStop(r)
  BY <1>6 DEF Report, RequestNormalStop
<1>7. QED
  BY <1>1, <1>2, <1>3, <1>4, <1>5, <1>6 DEF BrokerStep

-----------------------------------------------------------------------------
\* The broker starts with all its places free.
LEMMA InitInv == BrokerInit => BrokerInv
<1> SUFFICES ASSUME BrokerInit PROVE BrokerInv
  OBVIOUS
<1>1. BrokerTypeOK
  BY InitType
<1>2. Occupied = {}
  BY DEF BrokerInit, Occupied, CallPlaces, StartPoints
<1>3. PlacesAreBounded
  BY <1>2, FS_EmptySet, BrokerAssumption DEF PlacesAreBounded
<1>4. CallShape /\ PlacesHoldProcesses /\ PlacesAreDistinct
  BY <1>2 DEF BrokerInit, CallShape, PlacesHoldProcesses, PlacesAreDistinct
<1>5. LiveRunsAreWatched /\ StopRequestsAreAwaited /\ StopsHaveEffect
  BY DEF BrokerInit, LiveRunsAreWatched, StopRequestsAreAwaited, StopsHaveEffect
<1>6. QED
  BY <1>1, <1>3, <1>4, <1>5 DEF BrokerInv

\* Places that are only given up stay distinct and bounded.
LEMMA PlacesShrink ==
  ASSUME BrokerInv, Occupied' \subseteq Occupied, slot' = slot
  PROVE  PlacesAreDistinct' /\ PlacesAreBounded'
<1>1. PlacesAreDistinct'
  BY DEF BrokerInv, PlacesAreDistinct
<1>2. IsFiniteSet(Occupied)
  BY OccupiedFinite DEF BrokerInv, BrokerTypeOK
<1>3. /\ Cardinality(Occupied') <= Cardinality(Occupied)
      /\ Cardinality(Occupied') \in Nat
      /\ Cardinality(Occupied) \in Nat
  BY <1>2, FS_Subset, FS_CardinalityType
<1>4. PlacesAreBounded'
  BY <1>3, BrokerAssumption DEF BrokerInv, PlacesAreBounded
<1>5. QED
  BY <1>1, <1>4

\* An admission takes one more place, which was free, in a slot nobody has.
LEMMA AdmitPlaces ==
  ASSUME BrokerInv, NEW r \in Runs, NEW s \in Slots, StartAdmit(r, s)
  PROVE  PlacesHoldProcesses' /\ PlacesAreDistinct' /\ PlacesAreBounded'
<1> USE DEF BrokerInv, BrokerTypeOK
<1>1. Occupied = live /\ Occupied' = live \cup {r}
  BY DEF StartAdmit, Occupied, CallPlaces, StartPoints
<1>2. r \notin live
  BY <1>1, BrokerAssumption DEF PlacesAreDistinct, StartAdmit
<1>3. PlacesHoldProcesses'
  BY <1>1 DEF StartAdmit, PlacesHoldProcesses
<1>4. PlacesAreDistinct'
  BY <1>1, <1>2 DEF StartAdmit, PlacesAreDistinct
<1>5. IsFiniteSet(live)
  BY OccupiedFinite
<1>6. Cardinality(live \cup {r}) = Cardinality(live) + 1 /\ Cardinality(live) \in Nat
  BY <1>2, <1>5, FS_AddElement, FS_CardinalityType
<1>7. PlacesAreBounded'
  BY <1>1, <1>6, BrokerAssumption DEF StartAdmit, PlacesAreBounded
<1>8. QED
  BY <1>3, <1>4, <1>7

-----------------------------------------------------------------------------
\* Every point of start keeps the invariant.
LEMMA StartKeepsInv ==
  ASSUME BrokerInv, NEW r \in Runs,
         \/ \E s \in Slots : StartAdmit(r, s)
         \/ StartRecord(r) \/ StartSpawn(r) \/ StartFail(r) \/ StartRegister(r)
  PROVE  BrokerInv'
<1>1. BrokerTypeOK'
  BY StepType DEF BrokerInv, BrokerStep
<1> USE DEF BrokerInv, BrokerTypeOK
<1>2. ASSUME NEW s \in Slots, StartAdmit(r, s) PROVE BrokerInv'
  <2>1. PlacesHoldProcesses' /\ PlacesAreDistinct' /\ PlacesAreBounded'
    BY <1>2, AdmitPlaces
  <2>2. CallShape' /\ StopsHaveEffect'
    BY <1>2 DEF StartAdmit, CallShape, StartPoints, StopsHaveEffect
  <2>3. LiveRunsAreWatched' /\ StopRequestsAreAwaited'
    BY <1>2 DEF StartAdmit, LiveRunsAreWatched, StopRequestsAreAwaited
  <2>4. QED
    BY <1>1, <2>1, <2>2, <2>3
<1>3. CASE StartRecord(r) \/ StartSpawn(r) \/ StartFail(r) \/ StartRegister(r)
  <2> USE <1>3 DEF StartRecord, StartSpawn, StartFail, StartRegister
  <2>1. CallShape' /\ StopsHaveEffect'
    BY DEF CallShape, StartPoints, StopsHaveEffect
  <2>2. Occupied' \subseteq Occupied /\ slot' = slot
    BY DEF Occupied, CallPlaces, StartPoints
  <2>3. PlacesAreDistinct' /\ PlacesAreBounded'
    BY <2>2, PlacesShrink
  <2>4. PlacesHoldProcesses'
    BY DEF PlacesHoldProcesses, Occupied, CallPlaces, StartPoints, Reaped
  <2>5. LiveRunsAreWatched' /\ StopRequestsAreAwaited'
    BY DEF LiveRunsAreWatched, StopRequestsAreAwaited
  <2>6. QED
    BY <1>1, <2>1, <2>3, <2>4, <2>5
<1>4. QED
  BY <1>2, <1>3

\* Every point of stop keeps the invariant.
LEMMA StopKeepsInv ==
  ASSUME BrokerInv, NEW r \in Runs,
         StopBegin(r) \/ StopRemove(r) \/ StopReap(r) \/ StopReturn(r)
  PROVE  BrokerInv'
<1>1. BrokerTypeOK'
  BY StepType DEF BrokerInv, BrokerStep
<1> USE DEF BrokerInv, BrokerTypeOK, StopBegin, StopRemove, StopReap, StopReturn
<1>2. CallShape'
  BY DEF CallShape, StopPoints
<1>3. Occupied' \subseteq Occupied /\ slot' = slot
  BY DEF Occupied, CallPlaces, StartPoints
<1>4. PlacesAreDistinct' /\ PlacesAreBounded'
  BY <1>3, PlacesShrink
<1>5. PlacesHoldProcesses'
  BY DEF PlacesHoldProcesses, Occupied, CallPlaces, StartPoints, Reaped
<1>6. LiveRunsAreWatched' /\ StopRequestsAreAwaited'
  BY DEF LiveRunsAreWatched, StopRequestsAreAwaited
<1>7. StopsHaveEffect'
  <2>1. CASE StopBegin(r)
    BY <2>1 DEF StopsHaveEffect, PlacesHoldProcesses, Occupied, CallPlaces, StartPoints
  <2>2. CASE StopRemove(r) \/ StopReap(r) \/ StopReturn(r)
    BY <2>2 DEF StopsHaveEffect, Reaped
  <2>3. QED
    BY <2>1, <2>2
<1>8. QED
  BY <1>1, <1>2, <1>4, <1>5, <1>6, <1>7

\* So do the exit of a process, its watcher and a request for a normal stop.
LEMMA WatchKeepsInv ==
  ASSUME BrokerInv, NEW r \in Runs,
         \/ \E status \in ExitStatuses : ProcessExit(r, status)
         \/ ObserveExit(r) \/ ObserveReaped(r) \/ LoseStatus(r)
         \/ Report(r) \/ RequestNormalStop(r)
  PROVE  BrokerInv'
<1>1. BrokerTypeOK'
  BY StepType DEF BrokerInv, BrokerStep
<1> USE DEF BrokerInv, BrokerTypeOK, ProcessExit, ObserveExit, ObserveReaped,
            LoseStatus, Report, RequestNormalStop, ExitStatuses
<1>2. call' = call /\ slot' = slot /\ live' \subseteq live
  OBVIOUS
<1>3. CallShape'
  BY <1>2 DEF CallShape
<1>4. Occupied' \subseteq Occupied
  BY <1>2 DEF Occupied, CallPlaces
<1>5. PlacesAreDistinct' /\ PlacesAreBounded'
  BY <1>2, <1>4, PlacesShrink
<1>6. PlacesHoldProcesses'
  BY DEF PlacesHoldProcesses, Occupied, CallPlaces, Reaped
<1>7. LiveRunsAreWatched' /\ StopRequestsAreAwaited'
  BY DEF LiveRunsAreWatched, StopRequestsAreAwaited, HasWriter
<1>8. StopsHaveEffect'
  BY DEF StopsHaveEffect, Reaped
<1>9. QED
  BY <1>1, <1>3, <1>5, <1>6, <1>7, <1>8

-----------------------------------------------------------------------------
\* The invariant is inductive.
LEMMA NextInv == BrokerInv /\ [BrokerNext]_brokerVars => BrokerInv'
<1> SUFFICES ASSUME BrokerInv, [BrokerNext]_brokerVars PROVE BrokerInv'
  OBVIOUS
<1>1. ASSUME NEW r \in Runs, BrokerStep(r) PROVE BrokerInv'
  BY <1>1, StartKeepsInv, StopKeepsInv, WatchKeepsInv DEF BrokerStep
<1>2. CASE UNCHANGED brokerVars
  BY <1>2 DEF brokerVars, BrokerInv, BrokerTypeOK, CallShape, PlacesHoldProcesses,
              PlacesAreDistinct, PlacesAreBounded, Occupied, CallPlaces,
              LiveRunsAreWatched, StopRequestsAreAwaited, StopsHaveEffect
<1>3. QED
  BY <1>1, <1>2 DEF BrokerNext

\* The invariant bounds the processes: each live one has a place.
LEMMA InvBounds == BrokerInv => ProcessesAreBounded
<1> SUFFICES ASSUME BrokerInv PROVE ProcessesAreBounded
  OBVIOUS
<1>1. IsFiniteSet(Occupied)
  BY OccupiedFinite DEF BrokerInv, BrokerTypeOK
<1>2. Alive \subseteq Occupied
  BY DEF BrokerInv, PlacesHoldProcesses, Alive
<1>3. /\ Cardinality(Alive) <= Cardinality(Occupied)
      /\ Cardinality(Alive) \in Nat
      /\ Cardinality(Occupied) \in Nat
  BY <1>1, <1>2, FS_Subset, FS_CardinalityType
<1>4. QED
  BY <1>3, BrokerAssumption DEF BrokerInv, PlacesAreBounded, ProcessesAreBounded

\* The invariant keeps live processes in slots of their own, with an owner.
LEMMA InvSeparates == BrokerInv => OneProcessPerSlot /\ ProcessesAreOwned
BY DEF BrokerInv, PlacesHoldProcesses, PlacesAreDistinct, Occupied, CallPlaces,
       Alive, OneProcessPerSlot, ProcessesAreOwned

\* The broker's inductive invariant holds in every reachable state.
THEOREM BrokerInvariance == BrokerSpec => []BrokerInv
BY InitInv, NextInv, PTL DEF BrokerSpec

\* Every variable of the broker keeps its type.
THEOREM BrokerTypeCorrect == BrokerSpec => []BrokerTypeOK
<1>1. BrokerInv => BrokerTypeOK
  BY DEF BrokerInv
<1>2. QED
  BY <1>1, BrokerInvariance, PTL

\* For every set of runs and every limit, no more than max_concurrency task
\* processes are ever alive, those of calls in progress included.
THEOREM ConcurrencyLimit == BrokerSpec => []ProcessesAreBounded
BY InvBounds, BrokerInvariance, PTL

\* Two live processes never share a (project, kind).
THEOREM SlotExclusion == BrokerSpec => []OneProcessPerSlot
<1>1. BrokerInv => OneProcessPerSlot
  BY InvSeparates
<1>2. QED
  BY <1>1, BrokerInvariance, PTL

\* No live process is beyond the reach of stop or of the call that owns it.
THEOREM NoLeakedProcess == BrokerSpec => []ProcessesAreOwned
<1>1. BrokerInv => ProcessesAreOwned
  BY InvSeparates
<1>2. QED
  BY <1>1, BrokerInvariance, PTL

\* Every accepted request for a normal stop has a watcher to consume it.
THEOREM NoStaleStopRequest == BrokerSpec => []StopRequestsAreAwaited
<1>1. BrokerInv => StopRequestsAreAwaited
  BY DEF BrokerInv
<1>2. QED
  BY <1>1, BrokerInvariance, PTL
=============================================================================
