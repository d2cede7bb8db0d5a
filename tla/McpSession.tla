----------------------------- MODULE McpSession -----------------------------
(***************************************************************************)
(* One connection of an external Agent (repoatlas-mcp): the reader of      *)
(* stdin, the worker that answers one request after the other, the writer  *)
(* of stdout, and the thread that ends the process five seconds after the  *)
(* client is gone.                                                         *)
(*                                                                         *)
(* Requests are named by their place in the input, which also stands for   *)
(* the id: a client never uses an id twice.  A call has the name of its    *)
(* tool; what a tool reads and writes is reduced to one target (a          *)
(* project or a root that the desktop may remove meanwhile), two fields of *)
(* one of its tasks, and what of each request has been committed and       *)
(* audited.  The operations behind the tools are modelled in Library,      *)
(* Transfer and TaskRecords.                                               *)
(***************************************************************************)
EXTENDS Naturals, Sequences

CONSTANTS McpLines,     \* the lines and calls that are read, of those below
          MaxRequests,  \* bound on the lines that are read
          MaxEdits      \* bound on the desktop's edits of the task

NoRequest == 0
Numbers == 1..MaxRequests

\* The arms of call_with_cancel, by what they do to the database.
ProjectReads == {"list_projects", "list_collections"}
CollectionWrites == {"create_collection", "update_collection",
                     "delete_collection", "set_collection_members"}
SessionReads == {"search_projects", "search_agent_sessions", "get_agent_session",
                 "get_agent_session_messages", "get_project", "get_project_brief",
                 "list_modules"}
ModuleWrites == {"promote_module", "set_directory_group"}
ProjectWrites == {"register_project", "update_project"}
LocationWrites == {"relocate_project", "refresh_project",
                   "set_project_icon", "clear_project_icon"}
IconReads == {"read_project_icons"}
TaskWrites == {"add_task", "remove_task", "run_task"}
RunReads == {"list_task_runs", "get_task_run", "read_task_log",
             "inspect_project_environment", "list_project_events", "atlas_report"}
RootWrites == {"add_scan_root"}
Diagnostics == {"list_scan_roots", "list_audit_events", "list_attention_items",
                "git_status", "git_diff"}
Removals == {"remove_project", "remove_scan_root"}

Reads == ProjectReads \cup SessionReads \cup IconReads \cup RunReads \cup Diagnostics
Writes == CollectionWrites \cup ModuleWrites \cup ProjectWrites \cup LocationWrites
              \cup TaskWrites \cup RootWrites
Tools == Reads \cup Writes \cup Removals \cup {"update_task", "scan_root"}

\* What a line is, up to the method: no request, a broken one, a request.
Silent == {"blank", "notification"}
Plain == {"malformed", "initialize", "tools/list", "unknown method", "invalid params"}

\* Lines that have an id.
Identified == (Plain \ {"malformed"}) \cup Tools

ASSUME McpAssumption ==
    /\ McpLines \subseteq Silent \cup Plain \cup Tools
    /\ MaxRequests \in Nat /\ MaxEdits \in Nat

VARIABLES mcpRequest,   \* the lines read so far and their cancel flags
          mcpActive,    \* requests whose flag is registered under their id
          mcpQueue,     \* lines for the worker
          mcpReader, mcpWorker, mcpWriter,
          mcpStopped, mcpDeadline, mcpExited,
          mcpInitialized,
          mcpOutput,    \* responses for the writer
          mcpAnswer,    \* what the worker answered to each request
          mcpStore,     \* the target and its task
          mcpChanged,   \* requests that have committed a change
          mcpAudited    \* requests with their audit row

mcpVars == <<mcpRequest, mcpActive, mcpQueue, mcpReader, mcpWorker, mcpWriter,
             mcpStopped, mcpDeadline, mcpExited, mcpInitialized, mcpOutput,
             mcpAnswer, mcpStore, mcpChanged, mcpAudited>>

Threads == <<mcpReader, mcpWorker, mcpWriter>>
Data == <<mcpAnswer, mcpStore, mcpChanged, mcpAudited>>
Ending == <<mcpStopped, mcpDeadline, mcpExited>>
Input == <<mcpRequest, mcpActive, mcpQueue, mcpInitialized, mcpOutput>>

Resting == [at |-> "idle", request |-> NoRequest, read |-> 0]

McpInit ==
    /\ mcpRequest = << >> /\ mcpQueue = << >> /\ mcpOutput = << >>
    /\ mcpActive = {}
    /\ mcpReader = "reading" /\ mcpWriter = "writing" /\ mcpWorker = Resting
    /\ mcpStopped = FALSE /\ mcpDeadline = FALSE /\ mcpExited = FALSE
    /\ mcpInitialized = FALSE
    /\ mcpAnswer = [n \in Numbers |-> "none"]
    /\ mcpStore = [known |-> TRUE, omitted |-> 0, meant |-> 0]
    /\ mcpChanged = {} /\ mcpAudited = {}
-----------------------------------------------------------------------------
\* Mutant of ReadLine: the flag is registered when the worker takes the line.
ReadLineUnregistered(line) ==
    /\ ~mcpExited /\ mcpReader = "reading" /\ Len(mcpRequest) < MaxRequests
    /\ mcpRequest' = Append(mcpRequest, [tool |-> line, cancel |-> FALSE])
    /\ mcpReader' = "sending"
    /\ UNCHANGED <<mcpActive, mcpQueue, mcpInitialized, mcpOutput, mcpWorker, mcpWriter, Ending, Data>>

\* The reader: a request's flag is registered before the worker can see it.
ReadLine(line) ==
    /\ ~mcpExited /\ mcpReader = "reading" /\ Len(mcpRequest) < MaxRequests
    /\ mcpRequest' = Append(mcpRequest, [tool |-> line, cancel |-> FALSE])
    /\ mcpActive' = IF line \in Identified THEN mcpActive \cup {Len(mcpRequest) + 1}
                    ELSE mcpActive
    /\ mcpReader' = "sending"
    /\ UNCHANGED <<mcpQueue, mcpInitialized, mcpOutput, mcpWorker, mcpWriter, Ending, Data>>

SendWork ==
    /\ ~mcpExited /\ mcpReader = "sending"
    /\ IF mcpWorker.at = "ended"
       THEN mcpReader' = "disconnecting" /\ UNCHANGED mcpQueue
       ELSE mcpReader' = "reading" /\ mcpQueue' = Append(mcpQueue, Len(mcpRequest))
    /\ UNCHANGED <<mcpRequest, mcpActive, mcpInitialized, mcpOutput, mcpWorker,
                   mcpWriter, Ending, Data>>

\* notifications/cancelled
ReadCancelled(n) ==
    /\ ~mcpExited /\ mcpReader = "reading"
    /\ n \in mcpActive
    /\ mcpRequest' = [mcpRequest EXCEPT ![n].cancel = TRUE]
    /\ UNCHANGED <<mcpActive, mcpQueue, mcpInitialized, mcpOutput, Threads, Ending, Data>>

ReadEnd ==
    /\ ~mcpExited /\ mcpReader = "reading"
    /\ mcpReader' = "disconnecting"
    /\ UNCHANGED <<Input, mcpWorker, mcpWriter, Ending, Data>>

\* Mutant of StopSession: the deadline waits for the threads.
StopSessionJoining ==
    /\ mcpStopped' = TRUE /\ UNCHANGED <<mcpDeadline, mcpExited>>

\* SessionShutdown::disconnect, by the reader or the writer: the first to
\* set the flag starts the deadline and then cancels what is registered.
StopSession ==
    /\ mcpStopped' = TRUE /\ mcpDeadline' = TRUE
    /\ UNCHANGED mcpExited
CancelRegistered ==
    mcpRequest' = [n \in DOMAIN mcpRequest |->
        IF n \in mcpActive THEN [mcpRequest[n] EXCEPT !.cancel = TRUE] ELSE mcpRequest[n]]

ReaderDisconnect ==
    /\ ~mcpExited /\ mcpReader = "disconnecting"
    /\ IF mcpStopped THEN mcpReader' = "joining" /\ UNCHANGED Ending
       ELSE mcpReader' = "cancelling" /\ StopSession
    /\ UNCHANGED <<Input, mcpWorker, mcpWriter, Data>>
ReaderCancel ==
    /\ ~mcpExited /\ mcpReader = "cancelling"
    /\ CancelRegistered
    /\ mcpReader' = "joining"
    /\ UNCHANGED <<mcpActive, mcpQueue, mcpInitialized, mcpOutput, mcpWorker,
                   mcpWriter, Ending, Data>>

WriterDisconnect ==
    /\ ~mcpExited /\ mcpWriter = "disconnecting"
    /\ IF mcpStopped THEN mcpWriter' = "ended" /\ UNCHANGED Ending
       ELSE mcpWriter' = "cancelling" /\ StopSession
    /\ UNCHANGED <<Input, mcpReader, mcpWorker, Data>>
WriterCancel ==
    /\ ~mcpExited /\ mcpWriter = "cancelling"
    /\ CancelRegistered
    /\ mcpWriter' = "ended"
    /\ UNCHANGED <<mcpActive, mcpQueue, mcpInitialized, mcpOutput, mcpReader,
                   mcpWorker, Ending, Data>>

\* The writer: a write fails when the client is gone.
WriteResponse ==
    /\ ~mcpExited /\ mcpWriter = "writing" /\ mcpOutput # << >>
    /\ mcpOutput' = Tail(mcpOutput)
    /\ mcpWriter' \in {"writing", "disconnecting"}
    /\ UNCHANGED <<mcpRequest, mcpActive, mcpQueue, mcpInitialized, mcpReader,
                   mcpWorker, Ending, Data>>
WriterEnds ==
    /\ ~mcpExited /\ mcpWriter = "writing" /\ mcpOutput = << >>
    /\ mcpWorker.at = "ended"
    /\ mcpWriter' = "ended"
    /\ UNCHANGED <<Input, mcpReader, mcpWorker, Ending, Data>>

\* main returns, or the thread that disconnect started ends the process,
\* whatever the other threads wait for.
JoinAll ==
    /\ ~mcpExited /\ mcpReader = "joining"
    /\ mcpWorker.at = "ended" /\ mcpWriter = "ended"
    /\ mcpExited' = TRUE
    /\ UNCHANGED <<Input, Threads, mcpStopped, mcpDeadline, Data>>
DeadlineExpires ==
    /\ ~mcpExited /\ mcpDeadline
    /\ mcpExited' = TRUE
    /\ UNCHANGED <<Input, Threads, mcpStopped, mcpDeadline, Data>>
-----------------------------------------------------------------------------
\* The worker.
TakeWork ==
    /\ ~mcpExited /\ mcpWorker.at = "idle"
    /\ IF mcpQueue # << >>
       THEN /\ mcpWorker' = [Resting EXCEPT !.at = "taken", !.request = Head(mcpQueue)]
            /\ mcpQueue' = Tail(mcpQueue)
       ELSE /\ mcpReader = "joining"
            /\ mcpWorker' = [Resting EXCEPT !.at = "ended"]
            /\ UNCHANGED mcpQueue
    /\ UNCHANGED <<mcpRequest, mcpActive, mcpInitialized, mcpOutput, mcpReader,
                   mcpWriter, Ending, Data>>

CheckStopped ==
    /\ ~mcpExited /\ mcpWorker.at = "taken"
    /\ mcpWorker' = IF mcpStopped THEN [Resting EXCEPT !.at = "ended"]
                    ELSE [mcpWorker EXCEPT !.at = "handling"]
    /\ UNCHANGED <<Input, mcpReader, mcpWriter, Ending, Data>>

Current == mcpWorker.request
CurrentTool == mcpRequest[Current].tool
Handling(point) == ~mcpExited /\ mcpWorker.at = point
Calling(tools) == Handling("handling") /\ mcpInitialized /\ CurrentTool \in tools
Answered(answer) ==
    /\ mcpWorker' = [mcpWorker EXCEPT !.at = "answered"]
    /\ mcpAnswer' = [mcpAnswer EXCEPT ![Current] = answer]
    /\ UNCHANGED <<Input, mcpReader, mcpWriter, Ending>>
Continue(point) ==
    /\ mcpWorker' = [mcpWorker EXCEPT !.at = point]
    /\ UNCHANGED <<Input, mcpReader, mcpWriter, Ending, mcpAnswer>>

\* handle_line: notifications and blank lines have no response.
HandleSilent ==
    /\ Handling("handling") /\ CurrentTool \in Silent
    /\ Continue("retiring")
    /\ UNCHANGED <<mcpStore, mcpChanged, mcpAudited>>

HandleInitialize ==
    /\ Handling("handling") /\ CurrentTool = "initialize"
    /\ mcpInitialized' = TRUE
    /\ mcpWorker' = [mcpWorker EXCEPT !.at = "answered"]
    /\ mcpAnswer' = [mcpAnswer EXCEPT ![Current] = "ok"]
    /\ UNCHANGED <<mcpRequest, mcpActive, mcpQueue, mcpOutput, mcpReader, mcpWriter,
                   Ending, mcpStore, mcpChanged, mcpAudited>>

\* Malformed lines, calls before initialize, unknown methods, bad params.
HandlePlain ==
    /\ Handling("handling")
    /\ CurrentTool \notin Silent \cup {"initialize"}
    /\ mcpInitialized => CurrentTool \in Plain
    /\ Answered(IF mcpInitialized /\ CurrentTool = "tools/list" THEN "ok" ELSE "error")
    /\ UNCHANGED <<mcpStore, mcpChanged, mcpAudited>>

CallRead ==
    /\ Calling(Reads)
    /\ \E answer \in {"ok", "error"} : Answered(answer)
    /\ UNCHANGED <<mcpStore, mcpChanged, mcpAudited>>

\* Arguments are refused (shell mode among them), the target is gone, or the
\* change and its audit row are committed together.
Refuse ==
    /\ Answered("error")
    /\ UNCHANGED <<mcpStore, mcpChanged, mcpAudited>>
CommitChange(store) ==
    /\ mcpStore' = store
    /\ mcpChanged' = mcpChanged \cup {Current}
    /\ mcpAudited' = mcpAudited \cup {Current}

CallWrite ==
    /\ Calling(Writes)
    /\ \/ Refuse
       \/ mcpStore.known /\ Answered("ok") /\ CommitChange(mcpStore)

\* require_confirmation, then the removal.  A target that is already gone is
\* no error; the row that says so is written on its own.
CallRemove ==
    /\ Calling(Removals)
    /\ \/ Refuse
       \/ mcpStore.known /\ Answered("ok") /\ CommitChange([mcpStore EXCEPT !.known = FALSE])
       \/ /\ ~mcpStore.known /\ Answered("not_found")
          /\ mcpAudited' = mcpAudited \cup {Current}
          /\ UNCHANGED <<mcpStore, mcpChanged>>

\* update_task reads the task, fills in the fields the request omits, and
\* replaces the whole task in a transaction of its own.
UpdateRead ==
    /\ Calling({"update_task"})
    /\ \/ Refuse
       \/ /\ mcpStore.known
          /\ mcpWorker' = [mcpWorker EXCEPT !.at = "filling", !.read = mcpStore.omitted]
          /\ UNCHANGED <<Input, mcpReader, mcpWriter, Ending, Data>>
UpdateCommit ==
    /\ Handling("filling")
    /\ \/ Refuse
       \/ /\ mcpStore.known /\ Answered("ok")
          /\ CommitChange([mcpStore EXCEPT !.omitted = mcpWorker.read])

\* Mutant of ScanEnd: the failure to write the result's row is ignored.
ScanEndUnaudited ==
    /\ Handling("scanning") /\ mcpStore.known
    /\ Answered(IF mcpRequest[Current].cancel THEN "cancelled" ELSE "ok")
    /\ mcpAudited' \in {mcpAudited, mcpAudited \cup {Current}}
    /\ UNCHANGED <<mcpStore, mcpChanged>>

\* scan_root: a row before the scan, one transaction per directory, a row
\* with the result.  What was committed stays when that row cannot be.
ScanBegin ==
    /\ Calling({"scan_root"})
    /\ \/ Refuse
       \/ mcpStore.known /\ Continue("scanning") /\ UNCHANGED <<mcpStore, mcpChanged, mcpAudited>>
ScanIngest ==
    /\ Handling("scanning") /\ ~mcpRequest[Current].cancel /\ mcpStore.known
    /\ Current \notin mcpChanged
    /\ Continue("scanning")
    /\ mcpChanged' = mcpChanged \cup {Current}
    /\ UNCHANGED <<mcpStore, mcpAudited>>
ScanEnd ==
    /\ Handling("scanning")
    /\ \/ Answered("error") /\ UNCHANGED mcpAudited
       \/ /\ mcpStore.known
          /\ Answered(IF mcpRequest[Current].cancel THEN "cancelled" ELSE "ok")
          /\ mcpAudited' = mcpAudited \cup {Current}
    /\ UNCHANGED <<mcpStore, mcpChanged>>

\* The response is queued first; then the id is free.
SendResponse ==
    /\ Handling("answered")
    /\ mcpOutput' = Append(mcpOutput, Current)
    /\ mcpWorker' = [mcpWorker EXCEPT !.at = "retiring"]
    /\ UNCHANGED <<mcpRequest, mcpActive, mcpQueue, mcpInitialized, mcpReader,
                   mcpWriter, Ending, Data>>
RetireRequest ==
    /\ Handling("retiring")
    /\ mcpActive' = mcpActive \ {Current}
    /\ mcpWorker' = Resting
    /\ UNCHANGED <<mcpRequest, mcpQueue, mcpInitialized, mcpOutput, mcpReader,
                   mcpWriter, Ending, Data>>
-----------------------------------------------------------------------------
\* The desktop removes the target, or edits the field that calls omit.
DesktopRemove ==
    /\ mcpStore.known
    /\ mcpStore' = [mcpStore EXCEPT !.known = FALSE]
    /\ UNCHANGED <<Input, Threads, Ending, mcpAnswer, mcpChanged, mcpAudited>>
DesktopEdit ==
    /\ mcpStore.known /\ mcpStore.meant < MaxEdits
    /\ mcpStore' = [mcpStore EXCEPT !.meant = @ + 1, !.omitted = mcpStore.meant + 1]
    /\ UNCHANGED <<Input, Threads, Ending, mcpAnswer, mcpChanged, mcpAudited>>

McpRead ==
    \/ \E line \in McpLines : ReadLine(line)
    \/ \E n \in Numbers : ReadCancelled(n)
    \/ ReadEnd
McpShutdown ==
    \/ SendWork \/ ReaderDisconnect \/ ReaderCancel
    \/ WriterDisconnect \/ WriterCancel \/ WriteResponse \/ WriterEnds
    \/ JoinAll \/ DeadlineExpires
McpWork ==
    \/ TakeWork \/ CheckStopped
    \/ HandleSilent \/ HandleInitialize \/ HandlePlain
    \/ CallRead \/ CallWrite \/ CallRemove
    \/ UpdateRead \/ UpdateCommit
    \/ ScanBegin \/ ScanIngest \/ ScanEnd
    \/ SendResponse \/ RetireRequest

McpNext == McpRead \/ McpShutdown \/ McpWork \/ DesktopRemove \/ DesktopEdit

\* The client may say nothing for ever and a call may wait for the database
\* for ever; the threads that noticed the end go on, and five seconds pass.
McpFairness ==
    /\ WF_mcpVars(ReaderDisconnect) /\ WF_mcpVars(WriterDisconnect)
    /\ WF_mcpVars(DeadlineExpires)
McpSpec == McpInit /\ [][McpNext]_mcpVars /\ McpFairness
-----------------------------------------------------------------------------
\* README: when a connection closes stdin or a response pipe fails, the
\* process cancels scans.  However the two disconnects, the registration of
\* a request and the worker's check of the flag interleave, no request goes
\* on uncanceled once the registered ones were canceled.
DisconnectCancelsActiveWork ==
    (/\ mcpStopped /\ mcpReader # "cancelling" /\ mcpWriter # "cancelling"
     /\ mcpWorker.at \in {"handling", "filling", "scanning"}
     /\ CurrentTool \in Identified)
        => mcpRequest[Current].cancel

\* main.rs: mutations are only acknowledged after their audit record is
\* durable; and a call that is answered with an error has changed nothing,
\* unless it is a scan, which says so.
AnswersTellWhatHappened ==
    \A n \in DOMAIN mcpRequest :
        /\ (mcpAnswer[n] \in {"ok", "cancelled", "not_found"}
              /\ mcpRequest[n].tool \in Tools \ Reads) => n \in mcpAudited
        /\ (mcpAnswer[n] = "error" /\ n \in mcpChanged) => mcpRequest[n].tool = "scan_root"

\* README: ... and exits within five seconds, although the worker or the
\* reader may be blocked for ever.
SessionsEnd == (mcpReader = "disconnecting" \/ mcpWriter = "disconnecting") ~> mcpExited

\* The description of the tool update_task promises to preserve the fields
\* that a request omits: they hold what the desktop last gave them.
OmittedFieldsAreKept == mcpStore.omitted = mcpStore.meant
=============================================================================
