------------------------------ MODULE MCSession ------------------------------
(* The session refresh for TLC: one source with one file.  Its first version *)
(* holds all sessions, its second version holds one of them.                 *)
EXTENDS SessionRefresh, TLC

CONSTANTS s1, f1, e1

MCSourceOf == [f \in Files |-> s1]
MCFileOf == [e \in Sessions |-> f1]
MCHolds == [f \in Files |-> [v \in Versions |-> IF v = 1 THEN Sessions ELSE {e1}]]
=============================================================================
