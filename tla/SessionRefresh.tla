--------------------------- MODULE SessionRefresh ----------------------------
(***************************************************************************)
(* The desktop's session refresh (src-tauri/src/sessions.rs): one          *)
(* background job at a time walks the authorised sources and ingests the   *)
(* files whose fingerprint changed.  A request during a job is remembered  *)
(* in FORCE_AGAIN, CANCEL stops the job at its next check, and a rebuild   *)
(* of the index takes the place of the job.                                *)
(***************************************************************************)
EXTENDS SessionIndex

CONSTANTS
  Cancels,       \* the user may cancel a job
  MaxRebuilds,   \* bound: rebuilds of the index
  MaxCrashes     \* bound: crashes of the desktop

ASSUME RefreshAssumption ==
  /\ Cancels \in BOOLEAN
  /\ MaxRebuilds \in Nat
  /\ MaxCrashes \in Nat

VARIABLES
  running,     \* JOB.running
  cancel,      \* CANCEL
  forceAgain,  \* FORCE_AGAIN
  worker,      \* where the job is, with its local variables
  revoke,      \* the source that set_session_source is to revoke
  asked,       \* a forced request waits for its pass
  rebuilds,
  crashes,
  lost,        \* revisions that a command left without documents
  doubtful     \* files whose checkpoint a revocation or a failure may have made untrue

\* What no step reads: it tells the exceptions of the properties apart.
history == <<lost, doubtful>>
jobVars == <<running, cancel, forceAgain, worker, revoke, asked, rebuilds, crashes, history>>
vars == <<indexVars, jobVars>>

Places == {"off", "begin", "sources", "files", "read", "sessions", "finish", "missing", "forget", "end"}
Workers == [at : Places, force : BOOLEAN, sources : SUBSET Sources, source : Sources \cup {NoSource},
            files : SUBSET Files, seen : SUBSET Files, file : Files \cup {NoSource},
            fingerprint : 0 .. MaxVersion, content : 0 .. MaxVersion,
            sessions : SUBSET Sessions, ids : SUBSET Sessions, failed : BOOLEAN]
Off == [at |-> "off", force |-> FALSE, sources |-> {}, source |-> NoSource, files |-> {},
        seen |-> {}, file |-> NoSource, fingerprint |-> 0, content |-> 0,
        sessions |-> {}, ids |-> {}, failed |-> FALSE]
Begin(force) == [Off EXCEPT !.at = "begin", !.force = force]

\* The worker is done with a file; failed says that one of them was not read.
NextFile(failed) ==
  [worker EXCEPT !.at = "files", !.file = NoSource, !.fingerprint = 0, !.content = 0,
                 !.sessions = {}, !.ids = {}, !.failed = (@ \/ failed)]

\* finish_session_source was the last step of a source.
NextSource == [Off EXCEPT !.at = "sources", !.force = worker.force, !.sources = worker.sources]

Init ==
  /\ IndexInit
  /\ running = FALSE
  /\ cancel = FALSE
  /\ forceAgain = FALSE
  /\ worker = Off
  /\ revoke = NoSource
  /\ asked = FALSE
  /\ rebuilds = 0
  /\ crashes = 0
  /\ lost = {}
  /\ doubtful = {}

-----------------------------------------------------------------------------
\* Commands

StartRefresh(force) ==
  /\ ~ running
  /\ running' = TRUE
  /\ cancel' = FALSE
  /\ worker' = Begin(force)
  /\ UNCHANGED <<indexVars, forceAgain, revoke, asked, rebuilds, crashes, history>>

\* A request during a job; one that is not forced changes nothing.
ForceRefresh ==
  /\ running
  /\ forceAgain' = TRUE
  /\ asked' = TRUE
  /\ UNCHANGED <<indexVars, running, cancel, worker, revoke, rebuilds, crashes, history>>

\* cancel_session_refresh also withdraws what was asked before.
CancelRefresh ==
  /\ Cancels
  /\ running
  /\ cancel' = TRUE
  /\ asked' = FALSE
  /\ UNCHANGED <<indexVars, running, forceAgain, worker, revoke, rebuilds, crashes, history>>

\* set_session_source(enabled = FALSE) cancels the job before it waits for
\* the mutex; a job that starts meanwhile takes the cancellation back.
CancelForRevocation(s) ==
  /\ enabled[s]
  /\ revoke = NoSource
  /\ revoke' = s
  /\ cancel' = TRUE
  /\ UNCHANGED <<indexVars, running, forceAgain, worker, asked, rebuilds, crashes, history>>

RevokeSource(s) ==
  /\ revoke = s
  /\ Revoke(s)
  /\ revoke' = NoSource
  /\ doubtful' = doubtful \cup {f \in Files : f = worker.file /\ SourceOf[f] = s /\ worker.ids # {}}
  /\ UNCHANGED <<running, cancel, forceAgain, worker, asked, rebuilds, crashes, lost>>

FinishRevocation ==
  /\ DeleteDocuments
  /\ lost' = IF ingest.at = "indexed" /\ Document \notin docs' THEN lost \cup {ingest.revision} ELSE lost
  /\ UNCHANGED <<running, cancel, forceAgain, worker, revoke, asked, rebuilds, crashes, doubtful>>

\* A source may be authorised again while the job reads its files.
EnableSource(s) == Enable(s) /\ UNCHANGED jobVars

LinkSession(e) == Link(e) /\ UNCHANGED jobVars

\* The revisions that readers see.
ReadersSee == {row[e].revision : e \in {d \in Sessions : Published(d)}}

\* Mutant of StartRebuild: a job that runs is not noticed.
StartRebuildAnyway ==
  /\ rebuilds < MaxRebuilds
  /\ RebuildRemove
  /\ rebuilds' = rebuilds + 1
  /\ running' = TRUE
  /\ lost' = lost \cup ReadersSee
  /\ UNCHANGED <<cancel, forceAgain, worker, revoke, asked, crashes, doubtful>>

\* rebuild_session_index marks the job as running while it works.
StartRebuild ==
  /\ ~ running
  /\ rebuilds < MaxRebuilds
  /\ RebuildRemove
  /\ rebuilds' = rebuilds + 1
  /\ running' = TRUE
  /\ lost' = lost \cup ReadersSee
  /\ UNCHANGED <<cancel, forceAgain, worker, revoke, asked, crashes, doubtful>>

ContinueRebuild == RebuildUnpublish /\ UNCHANGED jobVars

FinishRebuild ==
  /\ RebuildForget
  /\ running' = FALSE
  /\ doubtful' = {}
  /\ UNCHANGED <<cancel, forceAgain, worker, revoke, asked, rebuilds, crashes, lost>>

\* Its checkpoints are not to be relied on.
FailRebuild ==
  /\ RebuildFail
  /\ running' = FALSE
  /\ doubtful' = Files
  /\ UNCHANGED <<cancel, forceAgain, worker, revoke, asked, rebuilds, crashes, lost>>

-----------------------------------------------------------------------------
\* The job

\* A pass opens a connection, under the mutex, and reads the sources.
BeginPass ==
  /\ CoreFree
  /\ worker.at = "begin"
  /\ worker' = [worker EXCEPT !.at = "sources", !.sources = {s \in Sources : enabled[s]}]
  /\ asked' = (asked /\ ~ worker.force)
  /\ UNCHANGED <<indexVars, running, cancel, forceAgain, revoke, rebuilds, crashes, history>>

\* Unless forced, a source that was scanned within a minute is left out.
SkipSource(s) ==
  /\ worker.at = "sources"
  /\ ~ cancel
  /\ s \in worker.sources
  /\ ~ worker.force
  /\ worker' = [worker EXCEPT !.sources = @ \ {s}]
  /\ UNCHANGED <<indexVars, running, cancel, forceAgain, revoke, asked, rebuilds, crashes, history>>

\* The files of a source are enumerated, or this fails.
EnumerateSource(s) ==
  /\ worker.at = "sources"
  /\ ~ cancel
  /\ s \in worker.sources
  /\ LET found == {f \in present : SourceOf[f] = s}
     IN  worker' = [worker EXCEPT !.at = "files", !.source = s, !.sources = @ \ {s},
                                  !.files = found, !.seen = found]
  /\ UNCHANGED <<indexVars, running, cancel, forceAgain, revoke, asked, rebuilds, crashes, history>>

FailEnumeration(s) ==
  /\ worker.at = "sources"
  /\ ~ cancel
  /\ s \in worker.sources
  /\ worker' = [worker EXCEPT !.sources = @ \ {s}]
  /\ UNCHANGED <<indexVars, running, cancel, forceAgain, revoke, asked, rebuilds, crashes, history>>

\* The fingerprint is taken before the file is read; a file whose checkpoint
\* has this fingerprint is not read.
TakeFingerprint(f) ==
  /\ worker.at = "files"
  /\ ~ cancel
  /\ f \in worker.files
  /\ worker' =
       IF f \in present /\ checkpoint[f] # version[f]
       THEN [worker EXCEPT !.at = "read", !.files = @ \ {f}, !.file = f, !.fingerprint = version[f]]
       ELSE [worker EXCEPT !.files = @ \ {f}, !.failed = (@ \/ f \notin present)]
  /\ doubtful' = IF worker'.at = "read" THEN doubtful \ {f} ELSE doubtful
  /\ UNCHANGED <<indexVars, running, cancel, forceAgain, revoke, asked, rebuilds, crashes, lost>>

\* Mutant of ReadFile: the fingerprint is taken after the file was read.
ReadFileFirst ==
  /\ worker.at = "read"
  /\ worker.file \in present
  /\ worker' = [worker EXCEPT !.at = "sessions", !.content = worker.fingerprint,
                              !.sessions = Holds[worker.file][worker.fingerprint],
                              !.fingerprint = version[worker.file]]
  /\ UNCHANGED <<indexVars, running, cancel, forceAgain, revoke, asked, rebuilds, crashes, history>>

ReadFile ==
  /\ worker.at = "read"
  /\ worker.file \in present
  /\ worker' = [worker EXCEPT !.at = "sessions", !.content = version[worker.file],
                              !.sessions = Holds[worker.file][version[worker.file]]]
  /\ UNCHANGED <<indexVars, running, cancel, forceAgain, revoke, asked, rebuilds, crashes, history>>

\* The file cannot be read or parsed, or finish_session_file failed.
FailFile ==
  /\ worker.at = "read" \/ (WritesMayFail /\ worker.at = "finish")
  /\ worker' = NextFile(TRUE)
  /\ UNCHANGED <<indexVars, running, cancel, forceAgain, revoke, asked, rebuilds, crashes, history>>

BeginSession(e) ==
  /\ worker.at = "sessions"
  /\ ~ cancel
  /\ e \in worker.sessions
  /\ IngestBegin(e, worker.content)
  /\ worker' = [worker EXCEPT !.sessions = @ \ {e}, !.ids = @ \cup {e}]
  /\ UNCHANGED <<running, cancel, forceAgain, revoke, asked, rebuilds, crashes, history>>

\* The source was revoked: source_disabled ends the file, as running out of
\* revisions does (a bound).
RefuseSession ==
  /\ worker.at = "sessions"
  /\ ~ cancel
  /\ ingest = NoIngest
  /\ worker.sessions # {}
  /\ ~ enabled[worker.source] \/ revisions = MaxRevisions
  /\ worker' = NextFile(TRUE)
  /\ UNCHANGED <<indexVars, running, cancel, forceAgain, revoke, asked, rebuilds, crashes, history>>

\* The last check for a cancellation comes before the commit of the index.
ContinueSession ==
  /\ (IngestWrite /\ ~ cancel) \/ IngestCommit \/ IngestPublish \/ IngestClean
  /\ UNCHANGED jobVars

\* A cancelled or failed ingestion ends the file.
StopSession ==
  /\ (cancel /\ ingest.at \in {"begun", "writing"}) \/ WritesMayFail
  /\ IngestStop
  /\ worker' = NextFile(TRUE)
  /\ UNCHANGED <<running, cancel, forceAgain, revoke, asked, rebuilds, crashes, history>>

\* A file that was cancelled is neither finished nor counted as an error.
LeaveFile ==
  /\ worker.at = "sessions"
  /\ cancel
  /\ ingest = NoIngest
  /\ worker' = NextFile(FALSE)
  /\ UNCHANGED <<indexVars, running, cancel, forceAgain, revoke, asked, rebuilds, crashes, history>>

\* The check of CANCEL and the statements after it are two steps.
CheckFile ==
  /\ worker.at = "sessions"
  /\ worker.sessions = {}
  /\ ingest = NoIngest
  /\ ~ cancel
  /\ worker' = [worker EXCEPT !.at = "finish"]
  /\ UNCHANGED <<indexVars, running, cancel, forceAgain, revoke, asked, rebuilds, crashes, history>>

CompleteFile ==
  /\ worker.at = "finish"
  /\ FinishFile(worker.file, worker.fingerprint, worker.ids)
  /\ worker' = NextFile(FALSE)
  /\ UNCHANGED <<running, cancel, forceAgain, revoke, asked, rebuilds, crashes, history>>

\* A cancelled or incomplete source draws no conclusions from what it saw.
LeaveSource ==
  /\ worker.at = "files"
  /\ cancel \/ (worker.files = {} /\ worker.failed)
  /\ worker' = NextSource
  /\ UNCHANGED <<indexVars, running, cancel, forceAgain, revoke, asked, rebuilds, crashes, history>>

\* finish_session_source lists the source's sessions whose file was not seen.
FinishSource ==
  /\ worker.at = "files"
  /\ ~ cancel
  /\ worker.files = {}
  /\ ~ worker.failed
  /\ worker' = [worker EXCEPT !.at = "missing", !.sessions =
                  {e \in Sessions : /\ row[e] # NoRow
                                    /\ SourceFor(e) = worker.source
                                    /\ FileOf[e] \notin worker.seen}]
  /\ UNCHANGED <<indexVars, running, cancel, forceAgain, revoke, asked, rebuilds, crashes, history>>

MissSession(e) ==
  /\ worker.at = "missing"
  /\ e \in worker.sessions
  /\ IF row[e] = NoRow THEN UNCHANGED indexVars ELSE MarkMissing(e)
  /\ worker' = [worker EXCEPT !.at = "forget", !.sessions = @ \ {e}, !.file = FileOf[e]]
  /\ UNCHANGED <<running, cancel, forceAgain, revoke, asked, rebuilds, crashes, history>>

\* Mutant of ForgetMissed: the checkpoint is kept.
KeepMissed ==
  /\ worker.at = "forget"
  /\ worker' = [worker EXCEPT !.at = "missing", !.file = NoSource]
  /\ UNCHANGED <<indexVars, running, cancel, forceAgain, revoke, asked, rebuilds, crashes, history>>

ForgetMissed ==
  /\ worker.at = "forget"
  /\ ForgetFile(worker.file)
  /\ worker' = [worker EXCEPT !.at = "missing", !.file = NoSource]
  /\ UNCHANGED <<running, cancel, forceAgain, revoke, asked, rebuilds, crashes, history>>

EndSource ==
  /\ worker.at = "missing"
  /\ worker.sessions = {}
  /\ worker' = NextSource
  /\ UNCHANGED <<indexVars, running, cancel, forceAgain, revoke, asked, rebuilds, crashes, history>>

\* The session is marked as missing, its file's checkpoint still there.
Forgetting == {f \in Files : worker.at = "forget" /\ f = worker.file}

\* A statement of the pass itself failed: the other sources are left out.
FailPass ==
  /\ WritesMayFail
  /\ worker.at \in {"begin", "files", "missing", "forget"}
  /\ worker' = [Off EXCEPT !.at = "end"]
  /\ asked' = (asked /\ ~ (worker.at = "begin" /\ worker.force))
  /\ doubtful' = doubtful \cup Forgetting
  /\ UNCHANGED <<indexVars, running, cancel, forceAgain, revoke, rebuilds, crashes, lost>>

EndPass ==
  /\ worker.at = "sources"
  /\ worker.sources = {} \/ cancel
  /\ worker' = [Off EXCEPT !.at = "end"]
  /\ UNCHANGED <<indexVars, running, cancel, forceAgain, revoke, asked, rebuilds, crashes, history>>

\* Mutant of Again: the request is not looked at.
NotAgain == FALSE

\* FORCE_AGAIN.swap(false) && !CANCEL
Again == forceAgain /\ ~ cancel

EndJob ==
  /\ worker.at = "end"
  /\ forceAgain' = FALSE
  /\ worker' = IF Again THEN Begin(TRUE) ELSE Off
  /\ running' = Again
  /\ UNCHANGED <<indexVars, cancel, revoke, asked, rebuilds, crashes, history>>

\* The desktop ends without warning; uncommitted statements are rolled back.
Crash ==
  /\ crashes < MaxCrashes
  /\ crashes' = crashes + 1
  /\ ingest' = NoIngest
  /\ revoking' = NoSource
  /\ rebuilding' = "idle"
  /\ running' = FALSE
  /\ cancel' = FALSE
  /\ forceAgain' = FALSE
  /\ worker' = Off
  /\ revoke' = NoSource
  /\ asked' = FALSE
  /\ doubtful' = IF rebuilding = "idle" THEN doubtful \cup Forgetting ELSE Files
  /\ UNCHANGED <<version, present, enabled, row, checkpoint, docs, revisions, rebuilds, lost>>

-----------------------------------------------------------------------------
JobStep ==
  \/ BeginPass
  \/ \E s \in Sources : SkipSource(s) \/ EnumerateSource(s) \/ FailEnumeration(s)
  \/ \E f \in Files : TakeFingerprint(f)
  \/ ReadFile
  \/ FailFile
  \/ \E e \in Sessions : BeginSession(e)
  \/ RefuseSession
  \/ ContinueSession
  \/ StopSession
  \/ LeaveFile
  \/ CheckFile
  \/ CompleteFile
  \/ LeaveSource
  \/ FinishSource
  \/ \E e \in Sessions : MissSession(e)
  \/ ForgetMissed
  \/ EndSource
  \/ FailPass
  \/ EndPass
  \/ EndJob

CommandStep == FinishRevocation \/ ContinueRebuild \/ FinishRebuild \/ FailRebuild

Next ==
  \/ \E f \in Files : (EditFile(f) \/ MoveFile(f)) /\ UNCHANGED jobVars
  \/ \E force \in BOOLEAN : StartRefresh(force)
  \/ ForceRefresh
  \/ CancelRefresh
  \/ \E s \in Sources : CancelForRevocation(s) \/ RevokeSource(s) \/ EnableSource(s)
  \/ \E e \in Sessions : LinkSession(e)
  \/ StartRebuild
  \/ CommandStep
  \/ JobStep
  \/ Crash

\* The job and the commands that began go on; users and other programs owe
\* nothing.
Spec == Init /\ [][Next]_vars /\ WF_vars(JobStep) /\ WF_vars(CommandStep)

-----------------------------------------------------------------------------
\* The state of the job fits together: what it knows of a file is gone when it
\* is done with the file, and only it ingests.
TypeOK ==
  /\ IndexTypeOK
  /\ running \in BOOLEAN /\ cancel \in BOOLEAN /\ forceAgain \in BOOLEAN /\ asked \in BOOLEAN
  /\ worker \in Workers
  /\ revoke \in Sources \cup {NoSource}
  /\ rebuilds \in 0 .. MaxRebuilds /\ crashes \in 0 .. MaxCrashes
  /\ lost \in SUBSET Revisions /\ doubtful \in SUBSET Files
  /\ ingest # NoIngest => worker.at = "sessions" /\ ingest.session \in worker.ids
  /\ \A e \in worker.ids : FileOf[e] = worker.file

\* Every session that readers see has the documents of exactly the revision
\* they see, whichever of the two databases was written last, except a revision
\* that lost its documents to a command: to a rebuild before it was unpublished,
\* or to a revocation between its commit and its publication.
PublishedSessionsAreIndexed ==
  \A e \in Sessions : Published(e) => Indexed(e) \/ row[e].revision \in lost

\* A checkpoint that equals the file's fingerprint makes every later refresh
\* skip the file: its sessions are then published, with their latest content
\* and their documents.  The exceptions are a file whose source was revoked
\* when the job had ingested some of it, until the file is read again, and a
\* rebuild that ended before it forgot the checkpoints.
CheckpointsAreUpToDate ==
  rebuilding = "idle" =>
    \A f \in Files : checkpoint[f] = version[f] /\ f \notin doubtful =>
      \A e \in Holds[f][version[f]] :
        Published(e) /\ row[e].content = version[f] /\ Indexed(e)

\* A session whose file was gone comes back with the file: no checkpoint makes
\* later refreshes skip a file that holds a session marked as missing, unless
\* the job ended between its statements for the session and for the file.
MissingSessionsCanReturn ==
  \A e \in Sessions :
    LET f == FileOf[e]
    IN  row[e] # NoRow /\ row[e].missing /\ checkpoint[f] = version[f] =>
          \/ e \notin Holds[f][version[f]]
          \/ worker.at = "forget" /\ worker.file = f
          \/ f \in doubtful

\* A forced request that the job remembers gets its pass, unless the job is
\* canceled.
ForcedPassesRun == asked /\ forceAgain /\ worker.at # "off" ~> ~ asked \/ cancel
=============================================================================
