---------------------------- MODULE RunLifecycle ----------------------------
(***************************************************************************)
(* What task execution promises about Task Runs, without saying how: a run *)
(* is opened once, executes at most once, in one of MaxConcurrency places  *)
(* and alone in its slot, gets one result only after its process has       *)
(* ended, a run that never executed can only fail, and only the removal of *)
(* its project makes a result disappear.                                   *)
(***************************************************************************)
EXTENDS Naturals, FiniteSets

CONSTANTS Runs, Slots, NoSlot, MaxConcurrency

VARIABLES
  result,   \* "none", "running", a result, or "deleted"
  place,    \* the slot of every opened run
  work      \* "before", "during" or "after" the run's process

lifecycleVars == <<result, place, work>>

Results == {"succeeded", "failed", "cancelled"}

Executing == {r \in Runs : work[r] = "during"}

LifecycleInit ==
  /\ result = [r \in Runs |-> "none"]
  /\ place = [r \in Runs |-> NoSlot]
  /\ work = [r \in Runs |-> "before"]

Open(r, s) ==
  /\ result[r] = "none"
  /\ result' = [result EXCEPT ![r] = "running"]
  /\ place' = [place EXCEPT ![r] = s]
  /\ UNCHANGED work

Execute(r) ==
  /\ result[r] = "running"
  /\ work[r] = "before"
  /\ Cardinality(Executing) < MaxConcurrency
  /\ \A q \in Executing : place[q] # place[r]
  /\ work' = [work EXCEPT ![r] = "during"]
  /\ UNCHANGED <<result, place>>

\* Processes end, one at a time or all at once with the desktop.
End(ended) ==
  /\ ended # {}
  /\ work' = [r \in Runs |-> IF r \in ended THEN "after" ELSE work[r]]
  /\ UNCHANGED <<result, place>>

Conclude(r, s) ==
  /\ result[r] = "running"
  /\ \/ work[r] = "after"
     \/ work[r] = "before" /\ s = "failed"
  /\ result' = [result EXCEPT ![r] = s]
  /\ UNCHANGED <<place, work>>

\* abort_spawn and the failed row are one step of a start.
EndAndFail(r) ==
  /\ result[r] = "running"
  /\ work[r] = "during"
  /\ work' = [work EXCEPT ![r] = "after"]
  /\ result' = [result EXCEPT ![r] = "failed"]
  /\ UNCHANGED place

Erase(erased) ==
  /\ erased # {}
  /\ \A r \in erased : result[r] \in Results
  /\ result' = [r \in Runs |-> IF r \in erased THEN "deleted" ELSE result[r]]
  /\ UNCHANGED <<place, work>>

LifecycleNext ==
  \/ \E r \in Runs, s \in Slots : Open(r, s)
  \/ \E r \in Runs : Execute(r)
  \/ \E ended \in SUBSET Executing : End(ended)
  \/ \E r \in Runs, s \in Results : Conclude(r, s)
  \/ \E r \in Runs : EndAndFail(r)
  \/ \E erased \in SUBSET Runs : Erase(erased)

LifecycleSpec == LifecycleInit /\ [][LifecycleNext]_lifecycleVars
=============================================================================
