----------------------------- MODULE TaskOutput -----------------------------
(***************************************************************************)
(* The terminal of one task run (repoatlas-core::broker).  One thread      *)
(* reads the pseudo-terminal and keeps what it reads in the log, as far as *)
(* the budget of the log goes; another waits for the process, whose end is *)
(* reported after the output was read or after two seconds.  A stop kills  *)
(* the process, closes the terminal and waits for the same output.         *)
(*                                                                         *)
(* A chunk of output is counted, never spelled out.                        *)
(***************************************************************************)
EXTENDS Naturals

CONSTANTS MaxOutput,   \* bound on the chunks the process writes
          MaxLogChunks \* MAX_LOG_BYTES

ASSUME TaskOutputAssumption == MaxOutput \in Nat /\ MaxLogChunks \in Nat

VARIABLES program,     \* "running", "exited"
          holder,      \* a descendant keeps the terminal open
          terminal,    \* chunks written and not read, and chunks written
          logged,      \* the budget left, chunks in the log and shown
          runEntry,    \* the run's entry in the broker
          pumpAt,      \* the thread that reads
          waiterAt,    \* the thread that waits for the process
          stopCall     \* one call of stop

outputVars == <<program, holder, terminal, logged, runEntry, pumpAt, waiterAt, stopCall>>

OutputInit ==
    /\ program = "running" /\ holder \in BOOLEAN
    /\ terminal = [unread |-> 0, written |-> 0]
    /\ logged = [budget |-> MaxLogChunks, log |-> 0, shown |-> 0]
    /\ runEntry = [listed |-> TRUE, writer |-> TRUE, master |-> TRUE]
    /\ pumpAt = "reading" /\ waiterAt = "polling" /\ stopCall = "none"

-----------------------------------------------------------------------------
\* The program and its descendants.
Write ==
    /\ program = "running" \/ holder
    /\ terminal.written < MaxOutput
    /\ terminal' = [unread |-> terminal.unread + 1, written |-> terminal.written + 1]
    /\ UNCHANGED <<program, holder, logged, runEntry, pumpAt, waiterAt, stopCall>>

EndProgram ==
    /\ program = "running" /\ program' = "exited"
    /\ UNCHANGED <<holder, terminal, logged, runEntry, pumpAt, waiterAt, stopCall>>

\* write_stdin, while the broker lists the run and has its writer.
TypeInput ==
    /\ runEntry.listed /\ runEntry.writer /\ program = "running"
    /\ program' = "exited"
    /\ UNCHANGED <<holder, terminal, logged, runEntry, pumpAt, waiterAt, stopCall>>

-----------------------------------------------------------------------------
\* pump: one read takes what is there; without budget it is thrown away.
\* The chunk is in the log before it is shown.
Granted(n) == IF n < logged.budget THEN n ELSE logged.budget

ReadTerminal ==
    /\ pumpAt = "reading" /\ terminal.unread > 0
    /\ \E n \in 1..terminal.unread :
          /\ terminal' = [terminal EXCEPT !.unread = @ - n]
          /\ logged' = [logged EXCEPT !.budget = @ - Granted(n), !.log = @ + Granted(n)]
          /\ pumpAt' = IF Granted(n) = 0 THEN "reading" ELSE "showing"
    /\ UNCHANGED <<program, holder, runEntry, waiterAt, stopCall>>

ShowChunk ==
    /\ pumpAt = "showing" /\ pumpAt' = "reading"
    /\ logged' = [logged EXCEPT !.shown = logged.log]
    /\ UNCHANGED <<program, holder, terminal, runEntry, waiterAt, stopCall>>

\* The terminal ends when nothing holds it any more.
EndOfOutput ==
    /\ pumpAt = "reading" /\ terminal.unread = 0
    /\ program = "exited" /\ ~holder
    /\ pumpAt' = "drained"
    /\ UNCHANGED <<program, holder, terminal, logged, runEntry, waiterAt, stopCall>>

-----------------------------------------------------------------------------
\* wait_for_exit.  On Windows the job kills the descendants, elsewhere they
\* may live on.
Released == [listed |-> FALSE, writer |-> FALSE, master |-> FALSE]

SeeExit ==
    /\ waiterAt = "polling" /\ runEntry.listed /\ program = "exited"
    /\ runEntry' = Released
    /\ waiterAt' = "waiting"
    /\ holder' \in {holder, FALSE}
    /\ UNCHANGED <<program, terminal, logged, pumpAt, stopCall>>

SeeStopped ==
    /\ waiterAt = "polling" /\ ~runEntry.listed
    /\ waiterAt' = "waiting"
    /\ UNCHANGED <<program, holder, terminal, logged, runEntry, pumpAt, stopCall>>

\* Mutant of ReportExit: the report waits for the end of the output.
ReportExitAfterOutput ==
    /\ waiterAt = "waiting" /\ pumpAt = "drained"
    /\ waiterAt' = "reported"
    /\ UNCHANGED <<program, holder, terminal, logged, runEntry, pumpAt, stopCall>>

\* The output is drained, or two seconds have passed.
ReportExit ==
    /\ waiterAt = "waiting"
    /\ waiterAt' = "reported"
    /\ UNCHANGED <<program, holder, terminal, logged, runEntry, pumpAt, stopCall>>

-----------------------------------------------------------------------------
\* stop: a run that is no longer listed has nothing to stop.
StopRun ==
    /\ stopCall = "none"
    /\ IF runEntry.listed
       THEN /\ runEntry' = [runEntry EXCEPT !.writer = FALSE, !.master = FALSE]
            /\ program' = "exited"
            /\ holder' \in {holder, FALSE}
            /\ stopCall' = "reap"
       ELSE stopCall' = "stopped" /\ UNCHANGED <<runEntry, program, holder>>
    /\ UNCHANGED <<terminal, logged, pumpAt, waiterAt>>

ReapStopped ==
    /\ stopCall = "reap" /\ stopCall' = "drain"
    /\ runEntry' = Released
    /\ UNCHANGED <<program, holder, terminal, logged, pumpAt, waiterAt>>

AwaitDrain ==
    /\ stopCall = "drain"
    /\ stopCall' \in (IF pumpAt = "drained" THEN {"stopped and drained"} ELSE {"stop_pending"})
    /\ UNCHANGED <<program, holder, terminal, logged, runEntry, pumpAt, waiterAt>>

-----------------------------------------------------------------------------
PumpStep == ReadTerminal \/ ShowChunk \/ EndOfOutput
WaiterStep == SeeExit \/ SeeStopped \/ ReportExit
StopStep == ReapStopped \/ AwaitDrain

OutputNext ==
    \/ Write \/ EndProgram \/ TypeInput
    \/ PumpStep \/ WaiterStep \/ StopRun \/ StopStep

\* Threads run; the program and its descendants may do anything.
OutputFairness ==
    /\ WF_outputVars(PumpStep) /\ WF_outputVars(WaiterStep) /\ WF_outputVars(StopStep)

OutputSpec == OutputInit /\ [][OutputNext]_outputVars /\ OutputFairness

-----------------------------------------------------------------------------
\* The end of a process is reported, although a descendant may keep its
\* terminal open for ever, and after a stop too, whichever thread takes the
\* run out of the broker's list.
ExitsAreReported == (program = "exited") ~> (waiterAt = "reported")
=============================================================================
