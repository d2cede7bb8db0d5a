------------------------------ MODULE RunLogs ------------------------------
(***************************************************************************)
(* The log files of task runs (repoatlas-core::broker, ::core).  A start   *)
(* creates the file before the run is recorded, and the thread that reads  *)
(* the terminal opens it again; removing a project deletes the rows of its *)
(* runs and queues their files in one transaction, and each program        *)
(* empties the queue afterwards and whenever it opens the database.        *)
(*                                                                         *)
(* One project at a time.  A file, a row and a queue entry are named by    *)
(* their run; the desktop owns the runs, both programs clean up.           *)
(***************************************************************************)
EXTENDS Naturals, FiniteSets

CONSTANTS LoggedRuns,  \* runs that may be started
          MaxLogCrashes

ASSUME LogsAssumption == IsFiniteSet(LoggedRuns) /\ MaxLogCrashes \in Nat

Programs == {"desktop", "mcp"}
NoLog == "none"

VARIABLES logFiles,   \* runs whose file exists
          logRow,     \* logRow[r]: "none", or the row's state, or "removed"
          attempt,    \* attempt[r]: what became of the start of r
          pump,       \* pump[r]: the thread that writes the file
          logQueue,   \* managed_file_cleanup
          cleaner,    \* cleaner[c]: the clean-up of program c
          reopened,   \* files created anew by their pump
          logCrashes

logVars == <<logFiles, logRow, attempt, pump, logQueue, cleaner, reopened, logCrashes>>

NoCleaner == [at |-> "idle", todo |-> {}, unlinked |-> NoLog]

LogsInit ==
    /\ logFiles = {} /\ logQueue = {} /\ reopened = {} /\ logCrashes = 0
    /\ logRow = [r \in LoggedRuns |-> "none"]
    /\ attempt = [r \in LoggedRuns |-> "new"]
    /\ pump = [r \in LoggedRuns |-> "none"]
    /\ cleaner = [c \in Programs |-> NoCleaner]

-----------------------------------------------------------------------------
\* Broker::start: the file, then the row, then the process and its pump.
CreateLog(r) ==
    /\ attempt[r] = "new"
    /\ attempt' = [attempt EXCEPT ![r] = "created"]
    /\ logFiles' = logFiles \cup {r}
    /\ UNCHANGED <<logRow, pump, logQueue, cleaner, reopened, logCrashes>>

\* The command is not found, or the project has gone: nothing knows the file.
AbandonLog(r) ==
    /\ attempt[r] = "created"
    /\ attempt' = [attempt EXCEPT ![r] = "abandoned"]
    /\ UNCHANGED <<logFiles, logRow, pump, logQueue, cleaner, reopened, logCrashes>>

RecordLog(r) ==
    /\ attempt[r] = "created"
    /\ attempt' = [attempt EXCEPT ![r] = "recorded"]
    /\ logRow' = [logRow EXCEPT ![r] = "running"]
    /\ UNCHANGED <<logFiles, pump, logQueue, cleaner, reopened, logCrashes>>

\* The process is spawned, or the run ends as failed.
SpawnPump(r) ==
    /\ attempt[r] = "recorded"
    /\ attempt' = [attempt EXCEPT ![r] = "spawned"]
    /\ \/ pump' = [pump EXCEPT ![r] = "started"] /\ UNCHANGED logRow
       \/ logRow' = [logRow EXCEPT ![r] = "done"] /\ UNCHANGED pump
    /\ UNCHANGED <<logFiles, logQueue, cleaner, reopened, logCrashes>>

\* pump: OpenOptions::create(true).
OpenLog(r) ==
    /\ pump[r] = "started"
    /\ pump' = [pump EXCEPT ![r] = "open"]
    /\ logFiles' = logFiles \cup {r}
    /\ reopened' = IF r \in logFiles THEN reopened ELSE reopened \cup {r}
    /\ UNCHANGED <<logRow, attempt, logQueue, cleaner, logCrashes>>

ClosePump(r) ==
    /\ pump[r] = "open"
    /\ pump' = [pump EXCEPT ![r] = "none"]
    /\ UNCHANGED <<logFiles, logRow, attempt, logQueue, cleaner, reopened, logCrashes>>

\* The watcher does not wait for the pump.
RecordExit(r) ==
    /\ logRow[r] = "running" /\ attempt[r] = "spawned"
    /\ logRow' = [logRow EXCEPT ![r] = "done"]
    /\ UNCHANGED <<logFiles, attempt, pump, logQueue, cleaner, reopened, logCrashes>>

-----------------------------------------------------------------------------
Ended == {r \in LoggedRuns : logRow[r] = "done"}
NoRunIsActive == \A r \in LoggedRuns : logRow[r] # "running"

\* remove_project, remove_folder_records, remove_scan_root: refused while a
\* run is active; the rows go and their files are queued together.
RemoveLoggedProject(c) ==
    /\ cleaner[c] = NoCleaner /\ Ended # {} /\ NoRunIsActive
    /\ logRow' = [r \in LoggedRuns |-> IF r \in Ended THEN "removed" ELSE logRow[r]]
    /\ logQueue' = logQueue \cup Ended
    /\ cleaner' = [cleaner EXCEPT ![c].at = "removed"]
    /\ UNCHANGED <<logFiles, attempt, pump, reopened, logCrashes>>

\* retry_managed_file_cleanup, after a removal and when a program opens the
\* database: the queue is read once.
ReadQueue(c) ==
    /\ cleaner[c].at \in {"removed", "opened"}
    /\ cleaner' = [cleaner EXCEPT ![c] = IF logQueue = {} THEN NoCleaner
                      ELSE [at |-> "cleaning", todo |-> logQueue, unlinked |-> NoLog]]
    /\ UNCHANGED <<logFiles, logRow, attempt, pump, logQueue, reopened, logCrashes>>

\* What a cleaner does after r: the next file, or nothing.
After(c, r) == IF cleaner[c].todo \subseteq {r} THEN NoCleaner
               ELSE [at |-> "cleaning", todo |-> cleaner[c].todo \ {r}, unlinked |-> NoLog]

\* Mutant of UnlinkLog: an entry is dropped although its file is in use.
UnlinkLogAnyway(c, r) ==
    /\ cleaner[c].at = "cleaning" /\ r \in cleaner[c].todo /\ cleaner[c].unlinked = NoLog
    /\ logFiles' \in {logFiles, logFiles \ {r}}
    /\ cleaner' = [cleaner EXCEPT ![c].unlinked = r]
    /\ UNCHANGED <<logRow, attempt, pump, logQueue, reopened, logCrashes>>

\* remove_file; a file that is gone counts as removed.
UnlinkLog(c, r) ==
    /\ cleaner[c].at = "cleaning" /\ r \in cleaner[c].todo /\ cleaner[c].unlinked = NoLog
    /\ logFiles' = logFiles \ {r}
    /\ cleaner' = [cleaner EXCEPT ![c].unlinked = r]
    /\ UNCHANGED <<logRow, attempt, pump, logQueue, reopened, logCrashes>>

\* The file is in use or protected: its entry keeps the error.
KeepLog(c, r) ==
    /\ cleaner[c].at = "cleaning" /\ r \in cleaner[c].todo /\ cleaner[c].unlinked = NoLog
    /\ r \in logFiles
    /\ cleaner' = [cleaner EXCEPT ![c] = After(c, r)]
    /\ UNCHANGED <<logFiles, logRow, attempt, pump, logQueue, reopened, logCrashes>>

DequeueLog(c) ==
    LET r == cleaner[c].unlinked IN
    /\ r # NoLog
    /\ logQueue' = logQueue \ {r}
    /\ cleaner' = [cleaner EXCEPT ![c] = After(c, r)]
    /\ UNCHANGED <<logFiles, logRow, attempt, pump, reopened, logCrashes>>

\* A program ends and is started again.  With the desktop go its threads and
\* starts, and the rows it left running are recovered.
RestartProgram(c) ==
    /\ logCrashes < MaxLogCrashes /\ logCrashes' = logCrashes + 1
    /\ cleaner' = [cleaner EXCEPT ![c] = [NoCleaner EXCEPT !.at = "opened"]]
    /\ IF c = "mcp" THEN UNCHANGED <<logRow, attempt, pump>>
       ELSE /\ logRow' = [r \in LoggedRuns |-> IF logRow[r] = "running" THEN "done" ELSE logRow[r]]
            /\ attempt' = [r \in LoggedRuns |-> CASE attempt[r] = "created" -> "abandoned"
                                                  [] attempt[r] = "recorded" -> "spawned"
                                                  [] OTHER -> attempt[r]]
            /\ pump' = [r \in LoggedRuns |-> "none"]
    /\ UNCHANGED <<logFiles, logQueue, reopened>>

LogsNext ==
    \/ \E r \in LoggedRuns : \/ CreateLog(r) \/ AbandonLog(r) \/ RecordLog(r) \/ SpawnPump(r)
                             \/ OpenLog(r) \/ ClosePump(r) \/ RecordExit(r)
    \/ \E c \in Programs : \/ RemoveLoggedProject(c) \/ ReadQueue(c)
                           \/ \E r \in LoggedRuns : UnlinkLog(c, r) \/ KeepLog(c, r)
                           \/ DequeueLog(c) \/ RestartProgram(c)

LogsSpec == LogsInit /\ [][LogsNext]_logVars

-----------------------------------------------------------------------------
\* Whatever fails or restarts, the log of a removed run is gone or still
\* queued, unless its pump created it anew, and a run that is listed has its
\* log: nobody deletes the file of a run that a removal has not taken.
RemovedRunsLeaveNoLog ==
    \A r \in LoggedRuns :
        /\ logRow[r] = "removed" /\ r \in logFiles => r \in logQueue \cup reopened
        /\ logRow[r] \in {"running", "done"} => r \in logFiles
=============================================================================
