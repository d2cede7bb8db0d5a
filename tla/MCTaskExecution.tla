--------------------------- MODULE MCTaskExecution --------------------------
(* Task execution of one project's task for TLC: two runs compete for the   *)
(* only place, one of them may come from an approval.                       *)
EXTENDS TaskExecution, TLC

CONSTANTS p1, k1

MCProjectOf == [t \in Tasks |-> p1]
MCKindOf == [d \in Definitions |-> k1]
MCSlots == Projects \X Kinds

Symmetry == Permutations(Runs) \cup Permutations(Definitions)
=============================================================================
