---------------------------- MODULE MCServices -----------------------------
(* The services of the two programs that answer, retry and wait, for TLC:    *)
(* one connection of repoatlas-mcp, Git operations of two projects in one    *)
(* repository, and the output of one task.  They share no state: part is the *)
(* one that runs; the others rest in their initial states, where none of     *)
(* their fair actions is enabled.                                            *)
EXTENDS McpSession, GitOperation, TaskOutput

CONSTANTS r1

MCRootOf == [d \in Paths |-> r1]

VARIABLE part

servicesVars == <<part, mcpVars, vars, outputVars>>

ServicesInit ==
    /\ part \in {"mcp", "git", "output"}
    /\ McpInit /\ Init /\ OutputInit
    /\ part # "output" => ~holder

ServicesNext ==
    \/ part = "mcp" /\ McpNext /\ UNCHANGED <<part, vars, outputVars>>
    \/ part = "git" /\ Next /\ UNCHANGED <<part, mcpVars, outputVars>>
    \/ part = "output" /\ OutputNext /\ UNCHANGED <<part, mcpVars, vars>>

ServicesSpec ==
    /\ ServicesInit /\ [][ServicesNext]_servicesVars
    /\ McpFairness /\ Fairness /\ OutputFairness
=============================================================================
