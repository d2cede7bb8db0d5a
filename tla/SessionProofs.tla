---------------------------- MODULE SessionProofs -----------------------------
(***************************************************************************)
(* Proofs about the session index and its refresh, for every number of     *)
(* sources, files, sessions, versions and revisions.  BaseInv says where   *)
(* the job may be and what it may know of a file; PublishedInv relates the *)
(* two databases through the ingestion that is under way; DoneInv relates  *)
(* the checkpoints to what was ingested.  Steps are first reduced to what  *)
(* they do to the index (IndexStep), so that each invariant is preserved   *)
(* by a handful of cases instead of by every action of the refresh.        *)
(***************************************************************************)
EXTENDS SessionRefresh, TLAPS

-----------------------------------------------------------------------------
\* What a step does to the index, whichever part of the desktop takes it.
CrashIndex ==
  /\ ingest' = NoIngest /\ revoking' = NoSource /\ rebuilding' = "idle"
  /\ UNCHANGED <<version, present, enabled, row, checkpoint, docs, revisions>>

IngestStep ==
  \/ \E e \in Sessions : worker.at = "sessions" /\ e \in worker.sessions /\ IngestBegin(e, worker.content)
  \/ IngestWrite \/ IngestCommit \/ IngestPublish \/ IngestClean \/ IngestStop

CommandOnIndex ==
  \/ \E f \in Files : EditFile(f) \/ MoveFile(f)
  \/ \E s \in Sources : Revoke(s) \/ Enable(s)
  \/ \E e \in Sessions : Link(e)
  \/ DeleteDocuments
  \/ RebuildRemove /\ ~ running
  \/ RebuildUnpublish \/ RebuildForget \/ RebuildFail
  \/ CrashIndex

FileStep ==
  \/ worker.at = "finish" /\ FinishFile(worker.file, worker.fingerprint, worker.ids)
  \/ \E e \in Sessions : MissSession(e) /\ MarkMissing(e)
  \/ worker.at = "forget" /\ ForgetFile(worker.file)

IndexStep == UNCHANGED indexVars \/ IngestStep \/ CommandOnIndex \/ FileStep

\* Every step of the refresh is, for the index, one of these steps.
LEMMA IndexSteps == ASSUME [Next]_vars PROVE IndexStep
  <1>1. CASE UNCHANGED vars
    BY <1>1 DEF vars, IndexStep
  <1>2. ASSUME NEW f \in Files, (EditFile(f) \/ MoveFile(f)) PROVE IndexStep
    BY <1>2 DEF IndexStep, CommandOnIndex
  <1>3. ASSUME NEW force, StartRefresh(force) \/ ForceRefresh \/ CancelRefresh PROVE UNCHANGED indexVars
    BY <1>3 DEF StartRefresh, ForceRefresh, CancelRefresh
  <1>4. ASSUME NEW s \in Sources, CancelForRevocation(s) \/ RevokeSource(s) \/ EnableSource(s) PROVE IndexStep
    BY <1>4 DEF CancelForRevocation, RevokeSource, EnableSource, IndexStep, CommandOnIndex
  <1>5. ASSUME NEW e \in Sessions, LinkSession(e) PROVE IndexStep
    BY <1>5 DEF LinkSession, IndexStep, CommandOnIndex
  <1>6. CASE StartRebuild \/ CommandStep
    BY <1>6 DEF StartRebuild, CommandStep, FinishRevocation, ContinueRebuild, FinishRebuild, FailRebuild,
             IndexStep, CommandOnIndex
  <1>7. CASE Crash
    BY <1>7 DEF Crash, CrashIndex, IndexStep, CommandOnIndex
  <1>8. CASE JobStep
    <2>1. ASSUME NEW s, SkipSource(s) \/ EnumerateSource(s) \/ FailEnumeration(s) PROVE UNCHANGED indexVars
      BY <2>1 DEF SkipSource, EnumerateSource, FailEnumeration
    <2>2. ASSUME NEW f, TakeFingerprint(f) PROVE UNCHANGED indexVars
      BY <2>2 DEF TakeFingerprint
    <2>3. ASSUME NEW e \in Sessions, BeginSession(e) PROVE IndexStep
      BY <2>3 DEF BeginSession, IndexStep, IngestStep
    <2>4. ASSUME NEW e \in Sessions, MissSession(e) PROVE IndexStep
      BY <2>4 DEF MissSession, IndexStep, FileStep
    <2>5. CASE \/ BeginPass \/ ReadFile \/ FailFile \/ RefuseSession \/ LeaveFile \/ CheckFile
               \/ LeaveSource \/ FinishSource \/ EndSource \/ FailPass \/ EndPass \/ EndJob
      BY <2>5 DEF BeginPass, ReadFile, FailFile, RefuseSession, LeaveFile, CheckFile,
               LeaveSource, FinishSource, EndSource, FailPass, EndPass, EndJob, IndexStep
    <2>6. CASE ContinueSession \/ StopSession
      BY <2>6 DEF ContinueSession, StopSession, IndexStep, IngestStep
    <2>7. CASE CompleteFile \/ ForgetMissed
      BY <2>7 DEF CompleteFile, ForgetMissed, IndexStep, FileStep
    <2> QED BY <1>8, <2>1, <2>2, <2>3, <2>4, <2>5, <2>6, <2>7 DEF JobStep, IndexStep
  <1> QED BY <1>1, <1>2, <1>3, <1>4, <1>5, <1>6, <1>7, <1>8 DEF Next, IndexStep

\* A step keeps the types of the index if what the job read of a file is one of
\* the file's versions.
LEMMA TypesAreKept ==
  ASSUME IndexTypeOK, IndexStep, worker.at = "sessions" => worker.content \in Versions,
         worker.fingerprint \in 0 .. MaxVersion
  PROVE  IndexTypeOK'
  <1> USE DEF IndexTypeOK
  <1>0. MaxVersion \in Nat /\ 0 \in 0 .. MaxVersion
    BY IndexAssumption
  <1>1. CASE UNCHANGED indexVars
    BY <1>1 DEF indexVars
  <1>2. CASE IngestStep
    <2>1. ASSUME NEW e \in Sessions, worker.content \in Versions, IngestBegin(e, worker.content)
          PROVE  IndexTypeOK'
      <3>1. revisions' \in Revisions /\ revisions' = revisions + 1
        BY <2>1, IndexAssumption DEF IngestBegin, Revisions
      <3>2. row[e] # NoRow => row[e].id \in Revisions /\ row[e].manual \in BOOLEAN
        BY DEF Rows
      <3>3. ingest' \in Ingests
        BY <2>1, <3>1, <3>2 DEF IngestBegin, Ingests, IngestPlaces
      <3> QED BY <2>1, <3>1, <3>3 DEF IngestBegin
    <2>2. ASSUME ingest \in Ingests, NEW x \in IngestPlaces
          PROVE  [ingest EXCEPT !.at = x] \in Ingests
      BY <2>2 DEF Ingests
    <2>3. ingest # NoIngest => ingest \in Ingests
      OBVIOUS
    <2>4. ASSUME ingest \in Ingests PROVE Document \in Documents
      <3>1. FileOf[ingest.session] \in Files
        BY <2>4, IndexAssumption DEF Ingests
      <3> QED BY <2>4, <3>1, IndexAssumption DEF Ingests, Document, Documents, SourceFor
    <2>5. CASE IngestWrite
      BY <2>2, <2>3, <2>5 DEF IngestWrite, NoIngest, IngestPlaces
    <2>6. CASE IngestCommit
      BY <2>2, <2>3, <2>4, <2>6 DEF IngestCommit, NoIngest, IngestPlaces
    <2>7. CASE IngestPublish
      <3>1. ingest \in Ingests
        BY <2>3, <2>7 DEF IngestPublish, NoIngest
      <3>2. SourceFor(ingest.session) \in Sources
        BY <3>1, IndexAssumption DEF Ingests, SourceFor
      <3>3. ingest' \in Ingests
        BY <2>7, <3>1, <3>2 DEF IngestPublish, Ingests, IngestPlaces
      <3>4. PublishedRow \in [Sessions -> Rows \cup {NoRow}]
        <4>1. Association \in {"matched", "chosen"}
          BY DEF Association
        <4>2. row[ingest.session] # NoRow => row[ingest.session].manual \in BOOLEAN
          BY <3>1 DEF Ingests, Rows
        <4> QED BY <3>1, <4>1, <4>2 DEF PublishedRow, Ingests, Rows
      <3> QED BY <2>7, <3>3, <3>4 DEF IngestPublish
    <2>8. CASE IngestClean \/ IngestStop
      BY <2>8 DEF IngestClean, IngestStop
    <2> QED BY <1>2, <2>1, <2>5, <2>6, <2>7, <2>8 DEF IngestStep
  <1>3. CASE CommandOnIndex
    <2>1. ASSUME NEW f \in Files, EditFile(f) \/ MoveFile(f) PROVE IndexTypeOK'
      <3>1. CASE EditFile(f)
        <4>1. version[f] + 1 \in Versions
          BY <1>0, <3>1 DEF EditFile, Versions
        <4> QED BY <3>1, <4>1 DEF EditFile
      <3>2. CASE MoveFile(f)
        BY <3>2 DEF MoveFile
      <3> QED BY <2>1, <3>1, <3>2
    <2>2. ASSUME NEW s \in Sources, Revoke(s) \/ Enable(s) PROVE IndexTypeOK'
      <3>1. CASE Revoke(s)
        <4>1. checkpoint' \in [Files -> 0 .. MaxVersion]
          BY <1>0, <3>1 DEF Revoke
        <4>2. row' \in [Sessions -> Rows \cup {NoRow}]
          BY <3>1 DEF Revoke
        <4> QED BY <3>1, <4>1, <4>2 DEF Revoke
      <3>2. CASE Enable(s)
        BY <3>2 DEF Enable
      <3> QED BY <2>2, <3>1, <3>2
    <2>3. ASSUME NEW e \in Sessions, Link(e) PROVE IndexTypeOK'
      <3>1. row[e] \in Rows
        BY <2>3 DEF Link
      <3>2. [[row[e] EXCEPT !.manual = TRUE] EXCEPT !.project = "chosen"] \in Rows
        BY <3>1 DEF Rows
      <3>3. row' = [row EXCEPT ![e] = [[row[e] EXCEPT !.manual = TRUE] EXCEPT !.project = "chosen"]]
        BY <2>3 DEF Link
      <3> QED BY <2>3, <3>2, <3>3 DEF Link
    <2>4. CASE RebuildUnpublish
      <3>1. ASSUME NEW e \in Sessions, row[e] # NoRow PROVE [row[e] EXCEPT !.revision = 0] \in Rows
        <4>1. row[e] \in Rows
          BY <3>1
        <4>2. 0 \in Revisions
          BY IndexAssumption DEF Revisions
        <4> QED BY <4>1, <4>2 DEF Rows
      <3> QED BY <2>4, <3>1 DEF RebuildUnpublish
    <2>5. CASE DeleteDocuments \/ RebuildRemove \/ RebuildForget \/ RebuildFail \/ CrashIndex
      <3>1. docs' \in SUBSET Documents /\ revoking' \in Sources \cup {NoSource}
        BY <2>5 DEF DeleteDocuments, RebuildRemove, RebuildForget, RebuildFail, CrashIndex
      <3>2. checkpoint' \in [Files -> 0 .. MaxVersion]
        BY <1>0, <2>5 DEF DeleteDocuments, RebuildRemove, RebuildForget, RebuildFail, CrashIndex
      <3> QED BY <2>5, <3>1, <3>2 DEF DeleteDocuments, RebuildRemove, RebuildForget, RebuildFail, CrashIndex
    <2> QED BY <1>3, <2>1, <2>2, <2>3, <2>4, <2>5 DEF CommandOnIndex
  <1>4. CASE FileStep
    <2>1. CASE FinishFile(worker.file, worker.fingerprint, worker.ids)
      <3>1. ASSUME NEW e \in Sessions, row[e] # NoRow
            PROVE  [row[e] EXCEPT !.missing = e \notin worker.ids] \in Rows
        BY <3>1 DEF Rows
      <3> QED BY <2>1, <3>1 DEF FinishFile
    <2>2. ASSUME NEW e \in Sessions, MarkMissing(e) PROVE IndexTypeOK'
      <3>1. [row[e] EXCEPT !.missing = TRUE] \in Rows
        BY <2>2 DEF MarkMissing, Rows
      <3> QED BY <2>2, <3>1 DEF MarkMissing
    <2>3. CASE ForgetFile(worker.file)
      BY <1>0, <2>3 DEF ForgetFile
    <2> QED BY <1>4, <2>1, <2>2, <2>3 DEF FileStep
  <1> QED BY <1>1, <1>2, <1>3, <1>4 DEF IndexStep

-----------------------------------------------------------------------------
\* Where the job may be, and what it may know of a file

\* The parts of TypeOK.
JobTypes ==
  /\ running \in BOOLEAN /\ cancel \in BOOLEAN /\ forceAgain \in BOOLEAN /\ asked \in BOOLEAN
  /\ worker \in Workers
  /\ revoke \in Sources \cup {NoSource}
  /\ rebuilds \in 0 .. MaxRebuilds /\ crashes \in 0 .. MaxCrashes

IngestsAreOfTheFile ==
  /\ ingest # NoIngest => worker.at = "sessions" /\ ingest.session \in worker.ids
  /\ \A e \in worker.ids : FileOf[e] = worker.file

\* A rebuild excludes the job, and only the job ingests.
PlaceFits ==
  /\ ~ running => worker.at = "off"
  /\ rebuilding # "idle" => worker.at = "off" /\ running /\ rebuilds > 0

\* The job reads one file at a time: its checkpoint is older than the
\* fingerprint, the fingerprint not newer than what was read, and what was
\* read is not newer than the file.
Reading == worker.at \in {"read", "sessions", "finish"}

FileFits ==
  /\ worker.at \notin {"sessions", "finish"} => worker.ids = {}
  /\ Reading =>
       /\ worker.file \in Files
       /\ worker.fingerprint \in 1 .. version[worker.file]
       /\ checkpoint[worker.file] < worker.fingerprint
  /\ worker.at \in {"sessions", "finish"} =>
       /\ worker.content \in worker.fingerprint .. version[worker.file]
       /\ Holds[worker.file][worker.content] = worker.sessions \cup worker.ids
  /\ worker.at = "finish" => worker.sessions = {} /\ ingest = NoIngest
  /\ \A f \in Files : checkpoint[f] <= version[f]

HistoryTypes == lost \in SUBSET Revisions /\ doubtful \in SUBSET Files

BaseInv == IndexTypeOK /\ JobTypes /\ HistoryTypes /\ IngestsAreOfTheFile /\ PlaceFits /\ FileFits

\* What the job ingests is a version of the file that it reads.
LEMMA ContentsAreVersions ==
  ASSUME BaseInv PROVE worker.at = "sessions" => worker.content \in Versions
  <1> SUFFICES ASSUME worker.at = "sessions" PROVE worker.content \in Versions
    OBVIOUS
  <1>1. version[worker.file] \in Versions
    BY DEF BaseInv, FileFits, IndexTypeOK, Reading
  <1>2. MaxVersion \in Nat
    BY IndexAssumption
  <1>3. /\ worker.fingerprint \in 1 .. version[worker.file]
        /\ worker.content \in worker.fingerprint .. version[worker.file]
    BY DEF BaseInv, FileFits, Reading
  <1> QED BY <1>1, <1>2, <1>3 DEF Versions

\* The forms that worker takes are records of its type.
LEMMA WorkersAreTyped ==
  /\ Off \in Workers
  /\ \A force \in BOOLEAN : Begin(force) \in Workers /\ Begin(force).at = "begin" /\ Begin(force).ids = {}
  /\ worker \in Workers => /\ NextSource \in Workers
                           /\ \A failed \in BOOLEAN : NextFile(failed) \in Workers
  <1>0. 0 \in 0 .. MaxVersion
    BY IndexAssumption
  <1>1. Off \in Workers
    BY <1>0 DEF Off, Workers, Places
  <1>2. ASSUME NEW force \in BOOLEAN PROVE Begin(force) \in Workers /\ Begin(force).at = "begin" /\ Begin(force).ids = {}
    BY <1>0 DEF Off, Workers, Places, Begin
  <1>3. ASSUME worker \in Workers PROVE NextSource \in Workers
    BY <1>0, <1>3 DEF Off, Workers, Places, NextSource
  <1>4. ASSUME worker \in Workers, NEW failed \in BOOLEAN PROVE NextFile(failed) \in Workers
    BY <1>0, <1>4 DEF Workers, Places, NextFile
  <1> QED BY <1>1, <1>2, <1>3, <1>4

\* Every step of the job keeps the type of its local variables.
LEMMA WorkerTypes ==
  ASSUME BaseInv, JobStep
  PROVE  worker' \in Workers
  <1> worker \in Workers
    BY DEF BaseInv, JobTypes
  <1>1. CASE BeginPass
    BY <1>1 DEF BeginPass, Workers, Places
  <1>2. ASSUME NEW s \in Sources, SkipSource(s) \/ FailEnumeration(s) PROVE worker' \in Workers
    BY <1>2 DEF SkipSource, FailEnumeration, Workers, Places
  <1>3. ASSUME NEW s \in Sources, EnumerateSource(s) PROVE worker' \in Workers
    <2> DEFINE found == {f \in present : SourceOf[f] = s}
    <2>1. found \in SUBSET Files
      BY DEF BaseInv, IndexTypeOK
    <2>2. worker' = [worker EXCEPT !.at = "files", !.source = s, !.sources = @ \ {s},
                                   !.files = found, !.seen = found]
      BY <1>3 DEF EnumerateSource
    <2> HIDE DEF found
    <2> QED BY <2>1, <2>2 DEF Workers, Places
  <1>4. ASSUME NEW f \in Files, TakeFingerprint(f) PROVE worker' \in Workers
    <2>1. version[f] \in 0 .. MaxVersion
      BY DEF BaseInv, IndexTypeOK, Versions
    <2>2. \/ worker' = [worker EXCEPT !.at = "read", !.files = @ \ {f}, !.file = f, !.fingerprint = version[f]]
          \/ worker' = [worker EXCEPT !.files = @ \ {f}, !.failed = (@ \/ f \notin present)]
      BY <1>4 DEF TakeFingerprint
    <2>3. (worker.failed \/ f \notin present) \in BOOLEAN
      OBVIOUS
    <2>4. [worker EXCEPT !.files = @ \ {f}, !.failed = (@ \/ f \notin present)] \in Workers
      BY <2>3 DEF Workers
    <2>5. [worker EXCEPT !.at = "read", !.files = @ \ {f}, !.file = f, !.fingerprint = version[f]] \in Workers
      BY <2>1 DEF Workers, Places
    <2> QED BY <2>2, <2>4, <2>5
  <1>5. CASE ReadFile
    <2> DEFINE v == version[worker.file]
               held == Holds[worker.file][v]
    <2>1. worker.file \in Files
      BY <1>5 DEF ReadFile, BaseInv, FileFits, Reading
    <2>2. v \in Versions /\ v \in 0 .. MaxVersion
      BY <2>1 DEF BaseInv, IndexTypeOK, Versions
    <2>3. held \in SUBSET Sessions
      BY <2>1, <2>2, IndexAssumption
    <2>4. worker' = [worker EXCEPT !.at = "sessions", !.content = v, !.sessions = held]
      BY <1>5 DEF ReadFile
    <2> HIDE DEF v, held
    <2> QED BY <2>2, <2>3, <2>4 DEF Workers, Places
  <1>6. ASSUME NEW e \in Sessions, BeginSession(e) PROVE worker' \in Workers
    BY <1>6 DEF BeginSession, Workers, Places
  <1>7. CASE FailFile \/ RefuseSession \/ StopSession \/ LeaveFile \/ CompleteFile
    BY <1>7, WorkersAreTyped DEF FailFile, RefuseSession, StopSession, LeaveFile, CompleteFile
  <1>8. CASE ContinueSession
    BY <1>8 DEF ContinueSession, jobVars
  <1>9. CASE CheckFile
    BY <1>9 DEF CheckFile, Workers, Places
  <1>10. CASE LeaveSource \/ EndSource
    BY <1>10, WorkersAreTyped DEF LeaveSource, EndSource
  <1>11. CASE FinishSource
    <2> DEFINE unseen == {e \in Sessions : /\ row[e] # NoRow
                                           /\ SourceFor(e) = worker.source
                                           /\ FileOf[e] \notin worker.seen}
    <2>1. unseen \in SUBSET Sessions
      OBVIOUS
    <2>2. worker' = [worker EXCEPT !.at = "missing", !.sessions = unseen]
      BY <1>11 DEF FinishSource
    <2> HIDE DEF unseen
    <2> QED BY <2>1, <2>2 DEF Workers, Places
  <1>12. ASSUME NEW e \in Sessions, MissSession(e) PROVE worker' \in Workers
    <2>1. FileOf[e] \in Files
      BY IndexAssumption
    <2>2. worker' = [worker EXCEPT !.at = "forget", !.sessions = @ \ {e}, !.file = FileOf[e]]
      BY <1>12 DEF MissSession
    <2> QED BY <2>1, <2>2 DEF Workers, Places
  <1>13. CASE ForgetMissed
    BY <1>13 DEF ForgetMissed, Workers, Places
  <1>14. CASE FailPass \/ EndPass
    <2>1. [Off EXCEPT !.at = "end"] \in Workers
      BY WorkersAreTyped DEF Workers, Places
    <2> QED BY <1>14, <2>1 DEF FailPass, EndPass
  <1>15. CASE EndJob
    BY <1>15, WorkersAreTyped DEF EndJob
  <1> QED BY <1>1, <1>2, <1>3, <1>4, <1>5, <1>6, <1>7, <1>8, <1>9, <1>10, <1>11, <1>12, <1>13, <1>14, <1>15
          DEF JobStep

\* A step that ends with no file being read.
Leaves ==
  /\ worker.at # "off"
  /\ ~ Reading'
  /\ worker'.ids = {}
  /\ ingest' = NoIngest
  /\ running' \/ worker'.at = "off"
  /\ UNCHANGED <<version, rebuilding>>
  /\ \A f \in Files : checkpoint'[f] <= version[f]

\* A step within a file.
Stays ==
  /\ worker.at # "off"
  /\ UNCHANGED <<version, checkpoint, running, rebuilding>>
  /\ \/ \E f \in Files : TakeFingerprint(f) /\ f \in present /\ checkpoint[f] # version[f]
     \/ ReadFile
     \/ \E e \in Sessions : BeginSession(e)
     \/ ContinueSession
     \/ CheckFile

\* Every step of the job leaves the file that is read or stays within it.
LEMMA JobMoves ==
  ASSUME BaseInv, JobStep
  PROVE  Leaves \/ Stays
  <1>0. /\ worker \in Workers
        /\ worker.at \notin {"sessions", "finish"} => worker.ids = {}
        /\ worker.at # "sessions" => ingest = NoIngest
        /\ \A f \in Files : checkpoint[f] <= version[f]
        /\ worker.at # "off" => running
    BY DEF BaseInv, JobTypes, FileFits, IngestsAreOfTheFile, PlaceFits
  <1>00. /\ \A failed : NextFile(failed).at = "files" /\ NextFile(failed).ids = {}
         /\ NextSource.at = "sources" /\ NextSource.ids = {}
         /\ Off.at = "off" /\ Off.ids = {}
         /\ \A force : Begin(force).at = "begin" /\ Begin(force).ids = {}
         /\ [Off EXCEPT !.at = "end"].at = "end" /\ [Off EXCEPT !.at = "end"].ids = {}
    BY <1>0 DEF NextFile, NextSource, Begin, Off, Workers
  <1>1. CASE \/ BeginPass
             \/ \E s \in Sources : SkipSource(s) \/ EnumerateSource(s) \/ FailEnumeration(s)
    BY <1>0, <1>1 DEF BeginPass, SkipSource, EnumerateSource, FailEnumeration, Leaves, Reading, indexVars, Workers
  <1>2. ASSUME NEW f \in Files, TakeFingerprint(f) PROVE Leaves \/ Stays
    <2>1. CASE f \in present /\ checkpoint[f] # version[f]
      BY <1>2, <2>1 DEF TakeFingerprint, Stays, indexVars
    <2>2. CASE ~ (f \in present /\ checkpoint[f] # version[f])
      BY <1>0, <1>2, <2>2 DEF TakeFingerprint, Leaves, Reading, indexVars, Workers
    <2> QED BY <2>1, <2>2
  <1>3. CASE ReadFile
    BY <1>3 DEF ReadFile, Stays, indexVars
  <1>4. CASE FailFile \/ RefuseSession \/ LeaveFile
    BY <1>0, <1>00, <1>4 DEF FailFile, RefuseSession, LeaveFile, Leaves, Reading, indexVars
  <1>5. ASSUME NEW e \in Sessions, BeginSession(e) PROVE Stays
    BY <1>5 DEF BeginSession, IngestBegin, Stays
  <1>6. CASE ContinueSession
    <2>1. ingest # NoIngest
      BY <1>6 DEF ContinueSession, IngestWrite, IngestCommit, IngestPublish, IngestClean, NoIngest
    <2> QED
      BY <1>0, <1>6, <2>1 DEF ContinueSession, IngestWrite, IngestCommit, IngestPublish, IngestClean, jobVars, Stays
  <1>7. CASE StopSession
    BY <1>0, <1>00, <1>7 DEF StopSession, IngestStop, Leaves, Reading
  <1>8. CASE CheckFile
    BY <1>8 DEF CheckFile, Stays, indexVars
  <1>9. CASE CompleteFile
    <2>1. /\ worker.file \in Files /\ worker.fingerprint \in 1 .. version[worker.file]
          /\ ingest = NoIngest
      BY <1>0, <1>9 DEF CompleteFile, BaseInv, FileFits, Reading
    <2>2. checkpoint \in [Files -> 0 .. MaxVersion]
      BY DEF BaseInv, IndexTypeOK
    <2>3. \A f \in Files : checkpoint'[f] <= version[f]
      BY <1>0, <1>9, <2>1, <2>2 DEF CompleteFile, FinishFile
    <2> QED BY <1>0, <1>00, <1>9, <2>1, <2>3 DEF CompleteFile, FinishFile, Leaves, Reading
  <1>10. CASE LeaveSource \/ EndSource \/ FinishSource \/ FailPass \/ EndPass
    BY <1>0, <1>00, <1>10 DEF LeaveSource, EndSource, FinishSource, FailPass, EndPass, Leaves, Reading, indexVars, Workers
  <1>11. ASSUME NEW e \in Sessions, MissSession(e) PROVE Leaves
    BY <1>0, <1>11 DEF MissSession, MarkMissing, Leaves, Reading, indexVars, Workers
  <1>12. CASE ForgetMissed
    <2>1. checkpoint \in [Files -> 0 .. MaxVersion] /\ \A f \in Files : version[f] \in Nat
      BY IndexAssumption DEF BaseInv, IndexTypeOK, Versions
    <2>2. \A f \in Files : checkpoint'[f] <= version[f]
      BY <1>0, <1>12, <2>1 DEF ForgetMissed, ForgetFile
    <2> QED BY <1>0, <1>12, <2>2 DEF ForgetMissed, ForgetFile, Leaves, Reading, Workers
  <1>13. CASE EndJob
    BY <1>0, <1>00, <1>13 DEF EndJob, Leaves, Reading, indexVars
  <1> QED BY <1>1, <1>2, <1>3, <1>4, <1>5, <1>6, <1>7, <1>8, <1>9, <1>10, <1>11, <1>12, <1>13
          DEF JobStep

\* Every step of the job keeps the types of the refresh's own state.
LEMMA JobKeepsTypes ==
  ASSUME BaseInv, JobStep
  PROVE  JobTypes'
  <1>1. worker' \in Workers
    BY WorkerTypes
  <1>2. UNCHANGED <<cancel, revoke, rebuilds, crashes>> /\ running' \in BOOLEAN
          /\ forceAgain' \in BOOLEAN /\ asked' \in BOOLEAN
    <2>1. running \in BOOLEAN /\ cancel \in BOOLEAN /\ forceAgain \in BOOLEAN /\ asked \in BOOLEAN
      BY DEF BaseInv, JobTypes
    <2>2. CASE BeginPass
      BY <2>1, <2>2 DEF BeginPass
    <2>3. CASE EndJob
      BY <2>1, <2>3 DEF EndJob, Again
    <2>4. ASSUME NEW s \in Sources, SkipSource(s) \/ EnumerateSource(s) \/ FailEnumeration(s)
          PROVE  UNCHANGED <<cancel, revoke, rebuilds, crashes, running, forceAgain, asked>>
      BY <2>4 DEF SkipSource, EnumerateSource, FailEnumeration
    <2>5. ASSUME NEW f \in Files, TakeFingerprint(f)
          PROVE  UNCHANGED <<cancel, revoke, rebuilds, crashes, running, forceAgain, asked>>
      BY <2>5 DEF TakeFingerprint
    <2>6. ASSUME NEW e \in Sessions, BeginSession(e) \/ MissSession(e)
          PROVE  UNCHANGED <<cancel, revoke, rebuilds, crashes, running, forceAgain, asked>>
      BY <2>6 DEF BeginSession, MissSession
    <2>7. CASE \/ ReadFile \/ FailFile \/ RefuseSession \/ ContinueSession \/ StopSession \/ LeaveFile
               \/ CheckFile \/ CompleteFile \/ LeaveSource \/ FinishSource \/ ForgetMissed \/ EndSource
               \/ EndPass
      <3>1. UNCHANGED <<cancel, revoke, rebuilds, crashes, running, forceAgain, asked>>
        BY <2>7 DEF ReadFile, FailFile, RefuseSession, ContinueSession, StopSession, LeaveFile, jobVars,
               CheckFile, CompleteFile, LeaveSource, FinishSource, ForgetMissed, EndSource, EndPass
      <3> QED BY <2>1, <3>1
    <2>8. CASE FailPass
      BY <2>1, <2>8 DEF FailPass
    <2> QED BY <2>1, <2>2, <2>3, <2>4, <2>5, <2>6, <2>7, <2>8 DEF JobStep
  <1> QED BY <1>1, <1>2 DEF BaseInv, JobTypes

\* A step that leaves the file keeps the invariant, since no ingestion and no
\* session of the file is left.
LEMMA LeavingKeepsBase ==
  ASSUME BaseInv, Leaves
  PROVE  IngestsAreOfTheFile' /\ PlaceFits' /\ FileFits'
  BY DEF BaseInv, Leaves, IngestsAreOfTheFile, PlaceFits, FileFits, Reading

\* A step within a file keeps the invariant: the fingerprint is taken before the
\* file is read, and only sessions of the content that was read are ingested.
LEMMA StayingKeepsBase ==
  ASSUME BaseInv, Stays
  PROVE  IngestsAreOfTheFile' /\ PlaceFits' /\ FileFits'
  <1>0. worker \in Workers /\ worker.at # "off" /\ UNCHANGED <<version, checkpoint, running, rebuilding>>
    BY DEF BaseInv, JobTypes, Stays
  <1>1. ASSUME NEW f \in Files, TakeFingerprint(f), f \in present, checkpoint[f] # version[f]
        PROVE  IngestsAreOfTheFile' /\ PlaceFits' /\ FileFits'
    <2>1. /\ worker' = [worker EXCEPT !.at = "read", !.files = @ \ {f}, !.file = f, !.fingerprint = version[f]]
          /\ worker.at = "files" /\ UNCHANGED ingest
      BY <1>1 DEF TakeFingerprint, indexVars
    <2>2. worker'.at = "read" /\ worker'.ids = worker.ids /\ worker'.file = f /\ worker'.fingerprint = version[f]
      BY <1>0, <2>1 DEF Workers
    <2>3. version[f] \in 1 .. version[f] /\ checkpoint[f] < version[f]
      BY <1>1, IndexAssumption DEF BaseInv, FileFits, IndexTypeOK, Versions
    <2>4. worker.ids = {} /\ ingest = NoIngest
      BY <2>1 DEF BaseInv, FileFits, IngestsAreOfTheFile
    <2>5. IngestsAreOfTheFile' /\ PlaceFits'
      BY <1>0, <2>1, <2>2, <2>4 DEF BaseInv, IngestsAreOfTheFile, PlaceFits
    <2>6. FileFits'
      BY <1>0, <2>1, <2>2, <2>3, <2>4 DEF BaseInv, FileFits, Reading
    <2> QED BY <2>5, <2>6
  <1>2. CASE ReadFile
    <2> DEFINE v == version[worker.file]
    <2>1. /\ worker' = [worker EXCEPT !.at = "sessions", !.content = v, !.sessions = Holds[worker.file][v]]
          /\ worker.at = "read" /\ UNCHANGED ingest
      BY <1>2 DEF ReadFile, indexVars
    <2>2. /\ worker'.at = "sessions" /\ worker'.ids = worker.ids /\ worker'.file = worker.file
          /\ worker'.fingerprint = worker.fingerprint /\ worker'.content = v
          /\ worker'.sessions = Holds[worker.file][v]
      BY <1>0, <2>1 DEF Workers
    <2>3. /\ worker.file \in Files /\ worker.fingerprint \in 1 .. v /\ checkpoint[worker.file] < worker.fingerprint
          /\ worker.ids = {} /\ ingest = NoIngest /\ \A f \in Files : checkpoint[f] <= version[f]
      BY <2>1 DEF BaseInv, FileFits, IngestsAreOfTheFile, Reading
    <2>4. v \in worker.fingerprint .. v
      <3>1. v \in Nat
        BY <2>3, IndexAssumption DEF BaseInv, IndexTypeOK, Versions
      <3> QED BY <2>3, <3>1
    <2>5. IngestsAreOfTheFile' /\ PlaceFits'
      BY <1>0, <2>1, <2>2, <2>3 DEF BaseInv, IngestsAreOfTheFile, PlaceFits
    <2>6. FileFits'
      BY <1>0, <2>1, <2>2, <2>3, <2>4 DEF FileFits, Reading
    <2> QED BY <2>5, <2>6
  <1>3. ASSUME NEW e \in Sessions, BeginSession(e)
        PROVE  IngestsAreOfTheFile' /\ PlaceFits' /\ FileFits'
    <2>1. /\ worker' = [worker EXCEPT !.sessions = @ \ {e}, !.ids = @ \cup {e}]
          /\ worker.at = "sessions" /\ e \in worker.sessions /\ ingest'.session = e
      BY <1>3 DEF BeginSession, IngestBegin
    <2>2. /\ worker'.at = "sessions" /\ worker'.ids = worker.ids \cup {e} /\ worker'.file = worker.file
          /\ worker'.fingerprint = worker.fingerprint /\ worker'.content = worker.content
          /\ worker'.sessions = worker.sessions \ {e}
      BY <1>0, <2>1 DEF Workers
    <2>3. FileOf[e] = worker.file
      <3>1. worker.content \in Versions /\ worker.file \in Files
        BY <2>1, ContentsAreVersions DEF BaseInv, FileFits, Reading
      <3>2. e \in Holds[worker.file][worker.content]
        BY <2>1 DEF BaseInv, FileFits
      <3> QED BY <3>1, <3>2, IndexAssumption
    <2>4. IngestsAreOfTheFile' /\ PlaceFits'
      BY <1>0, <2>1, <2>2, <2>3 DEF BaseInv, IngestsAreOfTheFile, PlaceFits
    <2>5. FileFits'
      BY <1>0, <2>1, <2>2 DEF BaseInv, FileFits, Reading
    <2> QED BY <2>4, <2>5
  <1>4. CASE ContinueSession
    <2>1. ingest # NoIngest /\ worker' = worker
      BY <1>4 DEF ContinueSession, IngestWrite, IngestCommit, IngestPublish, IngestClean, NoIngest, jobVars
    <2>2. ingest' = NoIngest \/ ingest'.session = ingest.session
      <3>1. ingest \in Ingests
        BY <2>1 DEF BaseInv, IndexTypeOK
      <3> QED BY <1>4, <3>1 DEF ContinueSession, IngestWrite, IngestCommit, IngestPublish, IngestClean, Ingests
    <2> QED BY <1>0, <2>1, <2>2 DEF BaseInv, IngestsAreOfTheFile, PlaceFits, FileFits, Reading
  <1>5. CASE CheckFile
    <2>1. /\ worker' = [worker EXCEPT !.at = "finish"] /\ worker.at = "sessions" /\ worker.sessions = {}
          /\ ingest = NoIngest /\ UNCHANGED ingest
      BY <1>5 DEF CheckFile, indexVars
    <2>2. /\ worker'.at = "finish" /\ worker'.ids = worker.ids /\ worker'.file = worker.file
          /\ worker'.fingerprint = worker.fingerprint /\ worker'.content = worker.content
          /\ worker'.sessions = {}
      BY <1>0, <2>1 DEF Workers
    <2> QED BY <1>0, <2>1, <2>2 DEF BaseInv, IngestsAreOfTheFile, PlaceFits, FileFits, Reading
  <1> QED BY <1>1, <1>2, <1>3, <1>4, <1>5 DEF Stays

\* Commands, other programs and crashes keep the invariant, wherever the job is.
LEMMA CommandsKeepBase ==
  ASSUME BaseInv,
         \/ UNCHANGED vars
         \/ \E f \in Files : (EditFile(f) \/ MoveFile(f)) /\ UNCHANGED jobVars
         \/ \E force \in BOOLEAN : StartRefresh(force)
         \/ ForceRefresh \/ CancelRefresh
         \/ \E s \in Sources : CancelForRevocation(s) \/ RevokeSource(s) \/ EnableSource(s)
         \/ \E e \in Sessions : LinkSession(e)
         \/ StartRebuild \/ CommandStep \/ Crash
  PROVE  JobTypes' /\ IngestsAreOfTheFile' /\ PlaceFits' /\ FileFits'
  <1> DEFINE Goal == JobTypes' /\ IngestsAreOfTheFile' /\ PlaceFits' /\ FileFits'
  <1>0. \A f \in Files : version[f] \in Nat /\ version[f] > 0 /\ checkpoint[f] \in Nat
    BY IndexAssumption DEF BaseInv, IndexTypeOK, Versions
  <1>00. /\ Off.at = "off" /\ Off.ids = {} /\ Off \in Workers
         /\ \A force \in BOOLEAN : /\ Begin(force).at = "begin" /\ Begin(force).ids = {}
                                   /\ Begin(force) \in Workers
    BY WorkersAreTyped DEF Off
  <1>1. CASE UNCHANGED vars
    BY <1>1 DEF vars, indexVars, jobVars, BaseInv, JobTypes, IngestsAreOfTheFile, PlaceFits, FileFits, Reading
  <1>2. ASSUME NEW f \in Files, EditFile(f) \/ MoveFile(f), UNCHANGED jobVars PROVE Goal
    <2>1. /\ \A g \in Files : version'[g] \in Nat /\ version[g] <= version'[g]
          /\ UNCHANGED <<checkpoint, ingest, rebuilding>>
      BY <1>0, <1>2 DEF EditFile, MoveFile, BaseInv, IndexTypeOK
    <2>2. JobTypes' /\ IngestsAreOfTheFile' /\ PlaceFits'
      BY <1>2, <2>1 DEF jobVars, BaseInv, JobTypes, IngestsAreOfTheFile, PlaceFits
    <2>3. FileFits'
      BY <1>0, <1>2, <2>1 DEF jobVars, BaseInv, FileFits, Reading
    <2> QED BY <2>2, <2>3
  <1>3. ASSUME NEW force \in BOOLEAN, StartRefresh(force) PROVE Goal
    <2>1. /\ worker' = Begin(force) /\ running' = TRUE /\ cancel' = FALSE /\ worker.at = "off"
          /\ UNCHANGED <<indexVars, forceAgain, revoke, asked, rebuilds, crashes>>
      BY <1>3 DEF StartRefresh, BaseInv, PlaceFits
    <2>2. ingest = NoIngest /\ rebuilding = "idle"
      BY <1>3, <2>1 DEF StartRefresh, BaseInv, IngestsAreOfTheFile, PlaceFits
    <2>3. JobTypes'
      BY <1>00, <2>1 DEF BaseInv, JobTypes
    <2>4. IngestsAreOfTheFile' /\ PlaceFits'
      BY <1>00, <2>1, <2>2 DEF indexVars, IngestsAreOfTheFile, PlaceFits
    <2>5. FileFits'
      BY <1>00, <2>1 DEF indexVars, BaseInv, FileFits, Reading
    <2> QED BY <2>3, <2>4, <2>5
  <1>4. CASE ForceRefresh \/ CancelRefresh
    <2>1. /\ UNCHANGED <<indexVars, running, worker, revoke, rebuilds, crashes>>
          /\ cancel' \in BOOLEAN /\ forceAgain' \in BOOLEAN /\ asked' \in BOOLEAN
      BY <1>4 DEF ForceRefresh, CancelRefresh, BaseInv, JobTypes
    <2>2. JobTypes'
      BY <2>1 DEF BaseInv, JobTypes
    <2> QED BY <2>1, <2>2 DEF indexVars, BaseInv, IngestsAreOfTheFile, PlaceFits, FileFits, Reading
  <1>5. ASSUME NEW s \in Sources, CancelForRevocation(s) PROVE Goal
    BY <1>5 DEF CancelForRevocation, indexVars, BaseInv, JobTypes, IngestsAreOfTheFile, PlaceFits, FileFits, Reading
  <1>6. ASSUME NEW s \in Sources, RevokeSource(s) PROVE Goal
    <2>1. \A f \in Files : checkpoint'[f] \in {0, checkpoint[f]}
      BY <1>6 DEF RevokeSource, Revoke
    <2>2. /\ UNCHANGED <<version, ingest, rebuilding, running, cancel, forceAgain, worker, asked, rebuilds, crashes>>
          /\ revoke' = NoSource
      BY <1>6 DEF RevokeSource, Revoke
    <2>3. JobTypes' /\ IngestsAreOfTheFile' /\ PlaceFits'
      BY <2>2 DEF BaseInv, JobTypes, IngestsAreOfTheFile, PlaceFits
    <2>4. FileFits'
      BY <1>0, <2>1, <2>2 DEF BaseInv, FileFits, Reading
    <2> QED BY <2>3, <2>4
  <1>7. ASSUME NEW s \in Sources, EnableSource(s) PROVE Goal
    BY <1>7 DEF EnableSource, Enable, jobVars, BaseInv, JobTypes, IngestsAreOfTheFile, PlaceFits, FileFits, Reading
  <1>8. ASSUME NEW e \in Sessions, LinkSession(e) PROVE Goal
    BY <1>8 DEF LinkSession, Link, jobVars, BaseInv, JobTypes, IngestsAreOfTheFile, PlaceFits, FileFits, Reading
  <1>9. CASE StartRebuild
    <2>1. rebuilds' \in 0 .. MaxRebuilds
      BY <1>9, RefreshAssumption DEF StartRebuild, BaseInv, JobTypes
    <2> QED
      BY <1>9, <2>1 DEF StartRebuild, RebuildRemove, BaseInv, JobTypes, IngestsAreOfTheFile, PlaceFits, FileFits,
                        Reading
  <1>10. CASE FinishRevocation
    BY <1>10 DEF FinishRevocation, DeleteDocuments, jobVars, BaseInv, JobTypes, IngestsAreOfTheFile, PlaceFits,
                 FileFits, Reading
  <1>11. CASE ContinueRebuild
    BY <1>11 DEF ContinueRebuild, RebuildUnpublish, jobVars, BaseInv, JobTypes, IngestsAreOfTheFile, PlaceFits,
                 FileFits, Reading
  <1>12. CASE FinishRebuild
    <2>1. /\ worker.at = "off" /\ running' = FALSE /\ rebuilding' = "idle"
          /\ \A f \in Files : checkpoint'[f] = 0
          /\ UNCHANGED <<version, ingest, cancel, forceAgain, worker, revoke, asked, rebuilds, crashes>>
      BY <1>12 DEF FinishRebuild, RebuildForget, BaseInv, PlaceFits
    <2>2. JobTypes' /\ IngestsAreOfTheFile' /\ PlaceFits'
      BY <2>1 DEF BaseInv, JobTypes, IngestsAreOfTheFile, PlaceFits
    <2>3. FileFits'
      BY <1>0, <2>1 DEF BaseInv, FileFits, Reading
    <2> QED BY <2>2, <2>3
  <1>14. CASE FailRebuild
    BY <1>14 DEF FailRebuild, RebuildFail, BaseInv, JobTypes, IngestsAreOfTheFile, PlaceFits, FileFits, Reading
  <1>13. CASE Crash
    <2>1. crashes' \in 0 .. MaxCrashes
      BY <1>13, RefreshAssumption DEF Crash, BaseInv, JobTypes
    <2> QED
      BY <1>00, <1>13, <2>1 DEF Crash, BaseInv, JobTypes, IngestsAreOfTheFile, PlaceFits, FileFits, Reading
  <1> QED BY <1>1, <1>2, <1>3, <1>4, <1>5, <1>6, <1>7, <1>8, <1>9, <1>10, <1>11, <1>12, <1>13, <1>14 DEF CommandStep

\* The initial state satisfies the invariant.
LEMMA BaseInitially == Init => BaseInv
  <1> SUFFICES ASSUME Init PROVE BaseInv
    OBVIOUS
  <1>1. Off \in Workers /\ Off.at = "off" /\ Off.ids = {}
    BY WorkersAreTyped DEF Off
  <1>2. JobTypes
    <2>1. 0 \in 0 .. MaxRebuilds /\ 0 \in 0 .. MaxCrashes
      BY RefreshAssumption
    <2>2. worker \in Workers
      BY <1>1 DEF Init
    <2> QED BY <2>1, <2>2 DEF Init, JobTypes
  <1>3. 1 \in Versions /\ 0 \in 0 .. MaxVersion /\ 0 \in Revisions
    BY IndexAssumption DEF Versions, Revisions
  <1>4. IndexTypeOK
    BY <1>3 DEF Init, IndexInit, IndexTypeOK
  <1>5. IngestsAreOfTheFile /\ PlaceFits
    BY <1>1 DEF Init, IndexInit, IngestsAreOfTheFile, PlaceFits
  <1>6. FileFits
    BY <1>1 DEF Init, IndexInit, FileFits, Reading
  <1>7. HistoryTypes
    BY DEF Init, HistoryTypes
  <1> QED BY <1>2, <1>4, <1>5, <1>6, <1>7 DEF BaseInv

-----------------------------------------------------------------------------
\* What a step does to lost and doubtful, the history of the exceptions

\* The commands and the steps of the job that the history is about.
Marks ==
  \/ \E s \in Sources : RevokeSource(s)
  \/ FinishRevocation \/ StartRebuild \/ FinishRebuild \/ FailRebuild
  \/ \E f \in Files : TakeFingerprint(f)
  \/ FailPass \/ Crash

Quiet ==
  /\ UNCHANGED history
  /\ rebuilding' = rebuilding \/ rebuilding' = "unpublished"
  /\ \A s \in Sources : enabled[s] => enabled'[s]
  /\ docs \subseteq docs' \/ ingest.at # "indexed"

\* The other steps leave the history as it is: they revoke nothing, end no
\* rebuild and delete no documents of a revision that waits to be published.
LEMMA OthersAreQuiet ==
  ASSUME IndexTypeOK, [Next]_vars, ~ Marks
  PROVE  Quiet
  <1>0. enabled \in [Sources -> BOOLEAN]
    BY DEF IndexTypeOK
  <1>1. CASE UNCHANGED vars
    BY <1>1 DEF vars, indexVars, jobVars, history, Quiet
  <1>2. ASSUME NEW f \in Files, EditFile(f) \/ MoveFile(f), UNCHANGED jobVars PROVE Quiet
    BY <1>2 DEF EditFile, MoveFile, jobVars, history, Quiet
  <1>3. ASSUME NEW force, StartRefresh(force) PROVE Quiet
    BY <1>3 DEF StartRefresh, indexVars, history, Quiet
  <1>4. CASE ForceRefresh \/ CancelRefresh
    BY <1>4 DEF ForceRefresh, CancelRefresh, indexVars, history, Quiet
  <1>5. ASSUME NEW s \in Sources, CancelForRevocation(s) \/ EnableSource(s) PROVE Quiet
    BY <1>0, <1>5 DEF CancelForRevocation, EnableSource, Enable, indexVars, jobVars, history, Quiet
  <1>6. ASSUME NEW e \in Sessions, LinkSession(e) PROVE Quiet
    BY <1>6 DEF LinkSession, Link, jobVars, history, Quiet
  <1>7. CASE ContinueRebuild
    BY <1>7 DEF ContinueRebuild, RebuildUnpublish, jobVars, history, Quiet
  <1>8. CASE JobStep
    <2>1. ASSUME NEW s, SkipSource(s) \/ EnumerateSource(s) \/ FailEnumeration(s) PROVE Quiet
      BY <2>1 DEF SkipSource, EnumerateSource, FailEnumeration, indexVars, history, Quiet
    <2>2. ASSUME NEW e \in Sessions, BeginSession(e) PROVE Quiet
      BY <2>2 DEF BeginSession, IngestBegin, history, Quiet
    <2>3. ASSUME NEW e \in Sessions, MissSession(e) PROVE Quiet
      BY <2>3 DEF MissSession, MarkMissing, indexVars, history, Quiet
    <2>4. CASE BeginPass \/ ReadFile \/ FailFile \/ RefuseSession \/ LeaveFile \/ CheckFile
      BY <2>4 DEF BeginPass, ReadFile, FailFile, RefuseSession, LeaveFile, CheckFile, indexVars, history, Quiet
    <2>5. CASE LeaveSource \/ FinishSource \/ EndSource \/ EndPass \/ EndJob
      BY <2>5 DEF LeaveSource, FinishSource, EndSource, EndPass, EndJob, indexVars, history, Quiet
    <2>6. CASE ContinueSession \/ StopSession
      BY <2>6 DEF ContinueSession, IngestWrite, IngestCommit, IngestPublish, IngestClean, StopSession, IngestStop,
                  jobVars, history, Quiet
    <2>7. CASE CompleteFile \/ ForgetMissed
      BY <2>7 DEF CompleteFile, FinishFile, ForgetMissed, ForgetFile, history, Quiet
    <2> QED BY <1>8, <2>1, <2>2, <2>3, <2>4, <2>5, <2>6, <2>7 DEF JobStep, Marks
  <1> QED BY <1>1, <1>2, <1>3, <1>4, <1>5, <1>6, <1>7, <1>8 DEF Next, CommandStep, Marks

\* What a command leaves without documents is lost, and stays so.
LostMoves ==
  /\ \/ lost' = lost
     \/ lost' = lost \cup ReadersSee
     \/ ingest.at = "indexed" /\ lost' = lost \cup {ingest.revision}
  /\ rebuilding = "idle" /\ rebuilding' = "removed" => ReadersSee \subseteq lost'
  /\ running /\ ingest.at = "indexed" /\ Document \in docs /\ Document \notin docs' /\ ingest' # NoIngest =>
       ingest.revision \in lost'

\* A file is in doubt from the step that leaves its checkpoint behind until the
\* file is read again or a rebuild forgets all checkpoints.
DoubtMoves ==
  /\ doubtful' \subseteq doubtful \cup Files
  /\ \A f \in doubtful :
       \/ f \in doubtful'
       \/ worker.at = "files" /\ checkpoint[f] # version[f] /\ UNCHANGED <<version, checkpoint>>
       \/ RebuildForget
  /\ \A s \in Sources : /\ enabled[s] /\ ~ enabled'[s] /\ worker.ids # {}
                        /\ worker.file \in Files /\ SourceOf[worker.file] = s
                        => worker.file \in doubtful'
  /\ rebuilding # "idle" /\ rebuilding' = "idle" => RebuildForget \/ doubtful' = Files

LEMMA HistoryMoves ==
  ASSUME BaseInv, [Next]_vars
  PROVE  LostMoves /\ DoubtMoves
  <1>0. NoIngest.at # "indexed" /\ IndexTypeOK
    BY DEF NoIngest, BaseInv
  <1>1. CASE ~ Marks
    BY <1>0, <1>1, OthersAreQuiet DEF Quiet, history, LostMoves, DoubtMoves
  <1>2. ASSUME NEW s \in Sources, RevokeSource(s) PROVE LostMoves /\ DoubtMoves
    <2>1. enabled \in [Sources -> BOOLEAN] /\ enabled' = [enabled EXCEPT ![s] = FALSE]
          /\ UNCHANGED <<docs, rebuilding, lost>>
          /\ doubtful' = doubtful \cup {f \in Files : f = worker.file /\ SourceOf[f] = s /\ worker.ids # {}}
      BY <1>0, <1>2 DEF RevokeSource, Revoke, IndexTypeOK
    <2> QED BY <2>1 DEF LostMoves, DoubtMoves
  <1>3. CASE FinishRevocation
    BY <1>0, <1>3 DEF FinishRevocation, DeleteDocuments, LostMoves, DoubtMoves
  <1>4. CASE StartRebuild
    BY <1>4 DEF StartRebuild, RebuildRemove, LostMoves, DoubtMoves
  <1>5. CASE FinishRebuild \/ FailRebuild
    <2>1. UNCHANGED <<enabled, docs, ingest, lost>> /\ rebuilding' = "idle"
      BY <1>5 DEF FinishRebuild, FailRebuild, RebuildForget, RebuildFail
    <2>2. (RebuildForget /\ doubtful' = {}) \/ (doubtful' = Files /\ doubtful \subseteq Files)
      BY <1>5 DEF FinishRebuild, FailRebuild, BaseInv, HistoryTypes
    <2> QED BY <2>1, <2>2 DEF LostMoves, DoubtMoves
  <1>6. ASSUME NEW f \in Files, TakeFingerprint(f) PROVE LostMoves /\ DoubtMoves
    <2>1. /\ worker.at = "files" /\ UNCHANGED <<indexVars, lost>>
          /\ \/ doubtful' = doubtful
             \/ doubtful' = doubtful \ {f} /\ worker'.at = "read"
      BY <1>6 DEF TakeFingerprint
    <2>2. worker'.at = "read" => checkpoint[f] # version[f]
      <3> SUFFICES ASSUME worker'.at = "read", checkpoint[f] = version[f] PROVE FALSE
        OBVIOUS
      <3>1. worker' = [worker EXCEPT !.files = @ \ {f}, !.failed = (@ \/ f \notin present)]
        BY <1>6 DEF TakeFingerprint
      <3> QED BY <2>1, <3>1
    <2> QED BY <2>1, <2>2 DEF LostMoves, DoubtMoves, indexVars
  <1>7. CASE FailPass
    BY <1>7 DEF FailPass, Forgetting, indexVars, LostMoves, DoubtMoves
  <1>8. CASE Crash
    <2>1. UNCHANGED <<enabled, docs, lost>> /\ ingest' = NoIngest /\ rebuilding' = "idle" /\ doubtful \subseteq Files
      BY <1>8 DEF Crash, BaseInv, HistoryTypes
    <2>2. doubtful' = IF rebuilding = "idle" THEN doubtful \cup Forgetting ELSE Files
      BY <1>8 DEF Crash
    <2>3. Forgetting \subseteq Files
      BY DEF Forgetting
    <2>4. LostMoves
      BY <1>0, <2>1 DEF LostMoves
    <2> QED BY <2>1, <2>2, <2>3, <2>4 DEF DoubtMoves
  <1> QED BY <1>1, <1>2, <1>3, <1>4, <1>5, <1>6, <1>7, <1>8 DEF Marks

\* The history is of revisions and files.
LEMMA HistoryIsTyped ==
  ASSUME BaseInv, [Next]_vars
  PROVE  HistoryTypes'
  <1>1. LostMoves /\ DoubtMoves /\ lost \in SUBSET Revisions /\ doubtful \in SUBSET Files
    BY HistoryMoves DEF BaseInv, HistoryTypes
  <1>2. ReadersSee \in SUBSET Revisions
    <2> SUFFICES ASSUME NEW e \in Sessions, Published(e) PROVE row[e].revision \in Revisions
      BY DEF ReadersSee
    <2>1. row[e] \in Rows
      BY DEF Published, BaseInv, IndexTypeOK
    <2> QED BY <2>1 DEF Rows
  <1>3. ingest.at = "indexed" => ingest.revision \in Revisions
    BY DEF BaseInv, IndexTypeOK, Ingests, NoIngest
  <1> QED BY <1>1, <1>2, <1>3 DEF LostMoves, DoubtMoves, HistoryTypes

\* The job's state fits together (refresh_sessions and run_job in
\* src-tauri/src/sessions.rs): only a running job reads files, a rebuild excludes
\* it, and what it knows of a file never runs ahead of the file.
THEOREM BaseInvariant == Spec => []BaseInv
  <1>1. BaseInv /\ [Next]_vars => BaseInv'
    <2> SUFFICES ASSUME BaseInv, [Next]_vars PROVE BaseInv'
      OBVIOUS
    <2>1. IndexTypeOK'
      BY IndexSteps, TypesAreKept, ContentsAreVersions DEF BaseInv, JobTypes, Workers
    <2>2. CASE JobStep
      BY <2>1, <2>2, JobMoves, JobKeepsTypes, HistoryIsTyped, LeavingKeepsBase, StayingKeepsBase DEF BaseInv
    <2>3. CASE ~ JobStep
      BY <2>1, <2>3, CommandsKeepBase, HistoryIsTyped DEF Next, BaseInv
    <2> QED BY <2>2, <2>3
  <1> QED BY <1>1, BaseInitially, PTL DEF Spec

\* The state of the index and of the job has its type, and what the job ingests
\* belongs to the file that it reads (run_job in src-tauri/src/sessions.rs).
THEOREM TypeInvariant == Spec => []TypeOK
  <1>1. BaseInv => TypeOK
    BY DEF BaseInv, JobTypes, HistoryTypes, IngestsAreOfTheFile, TypeOK
  <1> QED BY <1>1, BaseInvariant, PTL

-----------------------------------------------------------------------------
\* Revoked sources and manual associations

\* A revocation takes all rows and checkpoints of the source, and no later step
\* adds one unless the source is enabled: publication and the checkpoint look at
\* the authorisation again.
LEMMA RevocationsHold ==
  ASSUME BaseInv, RevokedSourcesKeepNothing, IndexStep
  PROVE  RevokedSourcesKeepNothing'
  <1>0. /\ enabled \in [Sources -> BOOLEAN] /\ row \in [Sessions -> Rows \cup {NoRow}]
        /\ checkpoint \in [Files -> 0 .. MaxVersion] /\ ingest \in Ingests \cup {NoIngest}
    BY DEF BaseInv, IndexTypeOK
  <1> USE DEF RevokedSourcesKeepNothing
  <1>1. CASE UNCHANGED <<enabled, row, checkpoint>>
    BY <1>1
  <1>2. UNCHANGED indexVars \/ (IngestStep /\ ~ IngestPublish) => UNCHANGED <<enabled, row, checkpoint>>
    BY DEF indexVars, IngestStep, IngestBegin, IngestWrite, IngestCommit, IngestClean, IngestStop
  <1>3. CASE IngestPublish
    <2>1. ingest.session \in Sessions
      BY <1>0, <1>3 DEF IngestPublish, NoIngest, Ingests
    <2> QED BY <1>0, <1>3, <2>1 DEF IngestPublish, PublishedRow
  <1>4. CASE CommandOnIndex
    <2>1. ASSUME NEW f, EditFile(f) \/ MoveFile(f) PROVE UNCHANGED <<enabled, row, checkpoint>>
      BY <2>1 DEF EditFile, MoveFile
    <2>2. ASSUME NEW s \in Sources, Revoke(s) PROVE RevokedSourcesKeepNothing'
      BY <1>0, <2>2 DEF Revoke
    <2>3. ASSUME NEW s \in Sources, Enable(s) PROVE RevokedSourcesKeepNothing'
      BY <1>0, <2>3 DEF Enable
    <2>4. ASSUME NEW e \in Sessions, Link(e) PROVE RevokedSourcesKeepNothing'
      BY <1>0, <2>4 DEF Link
    <2>5. CASE DeleteDocuments \/ RebuildRemove \/ RebuildFail \/ CrashIndex
      BY <1>1, <2>5 DEF DeleteDocuments, RebuildRemove, RebuildFail, CrashIndex
    <2>6. CASE RebuildUnpublish
      BY <1>0, <2>6 DEF RebuildUnpublish
    <2>7. CASE RebuildForget
      BY <1>0, <2>7 DEF RebuildForget
    <2> QED BY <1>1, <1>4, <2>1, <2>2, <2>3, <2>4, <2>5, <2>6, <2>7 DEF CommandOnIndex
  <1>5. CASE FileStep
    <2>1. CASE FinishFile(worker.file, worker.fingerprint, worker.ids)
      BY <1>0, <2>1 DEF FinishFile
    <2>2. ASSUME NEW e \in Sessions, MarkMissing(e) PROVE RevokedSourcesKeepNothing'
      BY <1>0, <2>2 DEF MarkMissing
    <2>3. CASE ForgetFile(worker.file)
      BY <1>0, <2>3 DEF ForgetFile
    <2> QED BY <1>5, <2>1, <2>2, <2>3 DEF FileStep
  <1> QED BY <1>1, <1>2, <1>3, <1>4, <1>5 DEF IndexStep

\* A publication takes the manual mark of the row as it is then, and the project
\* with it.
LEMMA LinksHold ==
  ASSUME BaseInv, ManualAssociationsWin, IndexStep
  PROVE  ManualAssociationsWin'
  <1>0. row \in [Sessions -> Rows \cup {NoRow}] /\ ingest \in Ingests \cup {NoIngest}
    BY DEF BaseInv, IndexTypeOK
  <1> USE DEF ManualAssociationsWin
  <1>1. CASE UNCHANGED row
    BY <1>1
  <1>2. UNCHANGED indexVars \/ (IngestStep /\ ~ IngestPublish) => UNCHANGED row
    BY DEF indexVars, IngestStep, IngestBegin, IngestWrite, IngestCommit, IngestClean, IngestStop
  <1>3. CASE IngestPublish
    <2> DEFINE e == ingest.session
    <2>1. e \in Sessions
      BY <1>0, <1>3 DEF IngestPublish, NoIngest, Ingests
    <2>2. row' = PublishedRow \/ row' = row
      BY <1>3 DEF IngestPublish
    <2>3. CASE row' = PublishedRow
      <3>1. /\ row'[e].manual = IF row[e] = NoRow THEN ingest.manual ELSE row[e].manual
            /\ row'[e].project = Association
        BY <1>0, <2>1, <2>3 DEF PublishedRow
      <3>2. row'[e].manual => row'[e].project = "chosen"
        BY <3>1 DEF Association, Linked
      <3>3. \A d \in Sessions : d # e => row'[d] = row[d]
        BY <1>0, <2>3 DEF PublishedRow
      <3> QED BY <3>2, <3>3
    <2> QED BY <1>1, <2>2, <2>3
  <1>4. CASE CommandOnIndex
    <2>1. ASSUME NEW f, EditFile(f) \/ MoveFile(f) PROVE UNCHANGED row
      BY <2>1 DEF EditFile, MoveFile
    <2>2. ASSUME NEW s \in Sources, Revoke(s) \/ Enable(s) PROVE ManualAssociationsWin'
      BY <1>0, <2>2 DEF Revoke, Enable
    <2>4. ASSUME NEW e \in Sessions, Link(e) PROVE ManualAssociationsWin'
      <3>1. row[e] \in Rows
        BY <1>0, <2>4 DEF Link
      <3> QED BY <1>0, <2>4, <3>1 DEF Link, Rows
    <2>5. CASE DeleteDocuments \/ RebuildRemove \/ CrashIndex \/ RebuildForget \/ RebuildFail
      BY <1>1, <2>5 DEF DeleteDocuments, RebuildRemove, CrashIndex, RebuildForget, RebuildFail
    <2>6. CASE RebuildUnpublish
      <3>1. \A e \in Sessions : row[e] # NoRow => row[e] \in Rows
        BY <1>0
      <3> QED BY <1>0, <2>6, <3>1 DEF RebuildUnpublish, Rows
    <2> QED BY <1>1, <1>4, <2>1, <2>2, <2>4, <2>5, <2>6 DEF CommandOnIndex
  <1>5. CASE FileStep
    <2>0. \A e \in Sessions : row[e] # NoRow => row[e] \in Rows
      BY <1>0
    <2>1. CASE FinishFile(worker.file, worker.fingerprint, worker.ids)
      BY <1>0, <2>0, <2>1 DEF FinishFile, Rows
    <2>2. ASSUME NEW e \in Sessions, MarkMissing(e) PROVE ManualAssociationsWin'
      BY <1>0, <2>0, <2>2 DEF MarkMissing, Rows
    <2>3. CASE ForgetFile(worker.file)
      BY <1>1, <2>3 DEF ForgetFile
    <2> QED BY <1>5, <2>1, <2>2, <2>3 DEF FileStep
  <1> QED BY <1>1, <1>2, <1>3, <1>4, <1>5 DEF IndexStep

\* A revoked source has neither rows nor checkpoints, however far the job is with
\* its files (set_session_source and ingest_session_cancelable in
\* core/sessions.rs).
THEOREM RevocationsKeepNothing == Spec => []RevokedSourcesKeepNothing
  <1>1. Init => RevokedSourcesKeepNothing
    BY DEF Init, IndexInit, RevokedSourcesKeepNothing, SourceFor
  <1>2. BaseInv /\ RevokedSourcesKeepNothing /\ [Next]_vars => RevokedSourcesKeepNothing'
    BY IndexSteps, RevocationsHold
  <1> QED BY <1>1, <1>2, BaseInvariant, PTL DEF Spec

\* A project that a user chose is never replaced by a match, whatever the job
\* read before (link_agent_session and ingest_session_cancelable in
\* core/sessions.rs).
THEOREM LinksWin == Spec => []ManualAssociationsWin
  <1>1. Init => ManualAssociationsWin
    BY DEF Init, IndexInit, ManualAssociationsWin
  <1>2. BaseInv /\ ManualAssociationsWin /\ [Next]_vars => ManualAssociationsWin'
    BY IndexSteps, LinksHold
  <1> QED BY <1>1, <1>2, BaseInvariant, PTL DEF Spec

-----------------------------------------------------------------------------
\* What a step does to the rows and to the ingestion

\* What a step other than a publication leaves of a row.
OldRow(e) ==
  \/ row'[e] = NoRow /\ (row[e] = NoRow \/ ~ enabled'[SourceFor(e)])
  \/ /\ row'[e] # NoRow /\ row[e] # NoRow
     /\ row'[e].id = row[e].id
     /\ row'[e].content = row[e].content
     /\ row'[e].revision = row[e].revision \/ (RebuildUnpublish /\ row'[e].revision = 0)
     /\ row'[e].missing =>
          \/ row[e].missing
          \/ MissSession(e) /\ MarkMissing(e)
          \/ worker.at = "finish" /\ FileOf[e] = worker.file /\ e \notin worker.ids

\* Only a publication adds a row, and only the end of a file or of a source marks
\* a session as missing.
LEMMA RowsAreKept ==
  ASSUME BaseInv, IndexStep, ~ IngestPublish, NEW e \in Sessions
  PROVE  OldRow(e)
  <1>0. /\ row \in [Sessions -> Rows \cup {NoRow}] /\ enabled \in [Sources -> BOOLEAN]
        /\ \A d \in Sessions : row[d] # NoRow => row[d] \in Rows
        /\ SourceFor(e) \in Sources
    BY IndexAssumption DEF BaseInv, IndexTypeOK, SourceFor
  <1>1. CASE UNCHANGED row
    BY <1>1 DEF OldRow
  <1>2. UNCHANGED indexVars \/ IngestStep => UNCHANGED row
    BY DEF indexVars, IngestStep, IngestBegin, IngestWrite, IngestCommit, IngestClean, IngestStop
  <1>3. CASE CommandOnIndex
    <2>1. ASSUME NEW f, EditFile(f) \/ MoveFile(f) PROVE UNCHANGED row
      BY <2>1 DEF EditFile, MoveFile
    <2>2. ASSUME NEW s \in Sources, Revoke(s) PROVE OldRow(e)
      <3>1. /\ row'[e] = IF SourceFor(e) = s THEN NoRow ELSE row[e]
            /\ ~ enabled'[s]
        BY <1>0, <2>2 DEF Revoke
      <3> QED BY <3>1 DEF OldRow
    <2>3. ASSUME NEW d \in Sessions, Link(d) PROVE OldRow(e)
      <3>1. CASE d = e
        <4> DEFINE new == [[row[e] EXCEPT !.manual = TRUE] EXCEPT !.project = "chosen"]
        <4>1. row[e] \in Rows /\ row[e] # NoRow /\ row'[e] = new
          BY <1>0, <2>3, <3>1 DEF Link
        <4>2. /\ new \in Rows /\ new.id = row[e].id /\ new.content = row[e].content
              /\ new.revision = row[e].revision /\ new.missing = row[e].missing
          BY <4>1 DEF Rows
        <4> HIDE DEF new
        <4> QED BY <4>1, <4>2, NoRowAssumption DEF OldRow
      <3>2. CASE d # e
        <4>1. row'[e] = row[e]
          BY <1>0, <2>3, <3>2 DEF Link
        <4> QED BY <4>1 DEF OldRow
      <3> QED BY <3>1, <3>2
    <2>4. CASE DeleteDocuments \/ RebuildRemove \/ CrashIndex \/ RebuildForget \/ RebuildFail
      BY <1>1, <2>4 DEF DeleteDocuments, RebuildRemove, CrashIndex, RebuildForget, RebuildFail
    <2>5. CASE RebuildUnpublish
      <3> DEFINE new == [row[e] EXCEPT !.revision = 0]
      <3>1. row'[e] = IF row[e] = NoRow THEN NoRow ELSE new
        BY <2>5 DEF RebuildUnpublish
      <3>2. 0 \in Revisions
        BY IndexAssumption DEF Revisions
      <3>3. row[e] # NoRow => /\ new \in Rows /\ new.id = row[e].id /\ new.content = row[e].content
                              /\ new.revision = 0 /\ new.missing = row[e].missing
        <4> SUFFICES ASSUME row[e] \in Rows
                     PROVE  /\ new \in Rows /\ new.id = row[e].id /\ new.content = row[e].content
                            /\ new.revision = 0 /\ new.missing = row[e].missing
          BY <1>0
        <4> QED BY <3>2 DEF Rows
      <3> HIDE DEF new
      <3> QED BY <2>5, <3>1, <3>3, NoRowAssumption DEF OldRow
    <2>6. ASSUME NEW s \in Sources, Enable(s) PROVE UNCHANGED row
      BY <2>6 DEF Enable
    <2> QED BY <1>1, <1>3, <2>1, <2>2, <2>3, <2>4, <2>5, <2>6 DEF CommandOnIndex
  <1>4. CASE FileStep
    <2>1. ASSUME NEW gone \in BOOLEAN, row[e] # NoRow, row'[e] = [row[e] EXCEPT !.missing = gone],
                 gone => \/ MissSession(e) /\ MarkMissing(e)
                         \/ worker.at = "finish" /\ FileOf[e] = worker.file /\ e \notin worker.ids
          PROVE  OldRow(e)
      <3> DEFINE new == [row[e] EXCEPT !.missing = gone]
      <3>1. row[e] \in Rows
        BY <1>0, <2>1
      <3>2. /\ new \in Rows /\ new.id = row[e].id /\ new.content = row[e].content
            /\ new.revision = row[e].revision /\ new.missing = gone
        BY <3>1 DEF Rows
      <3>3. row'[e] = new
        BY <2>1
      <3> HIDE DEF new
      <3> QED BY <2>1, <3>2, <3>3, NoRowAssumption DEF OldRow
    <2>2. CASE worker.at = "finish" /\ FinishFile(worker.file, worker.fingerprint, worker.ids)
      <3>1. row'[e] = IF row[e] # NoRow /\ FileOf[e] = worker.file
                      THEN [row[e] EXCEPT !.missing = e \notin worker.ids] ELSE row[e]
        BY <2>2 DEF FinishFile
      <3>2. CASE row[e] # NoRow /\ FileOf[e] = worker.file
        <4>1. (e \notin worker.ids) \in BOOLEAN
          OBVIOUS
        <4>2. row'[e] = [row[e] EXCEPT !.missing = e \notin worker.ids]
          BY <3>1, <3>2
        <4> QED BY <2>1, <2>2, <3>2, <4>1, <4>2
      <3>3. CASE ~ (row[e] # NoRow /\ FileOf[e] = worker.file)
        BY <3>1, <3>3 DEF OldRow
      <3> QED BY <3>2, <3>3
    <2>3. ASSUME NEW d \in Sessions, MissSession(d), MarkMissing(d) PROVE OldRow(e)
      <3>1. CASE d = e
        <4>1. row[e] # NoRow /\ row'[e] = [row[e] EXCEPT !.missing = TRUE]
          BY <1>0, <2>3, <3>1 DEF MarkMissing
        <4> QED BY <2>1, <2>3, <3>1, <4>1
      <3>2. CASE d # e
        <4>1. row'[e] = row[e]
          BY <1>0, <2>3, <3>2 DEF MarkMissing
        <4> QED BY <4>1 DEF OldRow
      <3> QED BY <3>1, <3>2
    <2>4. CASE ForgetFile(worker.file)
      BY <1>1, <2>4 DEF ForgetFile
    <2> QED BY <1>4, <2>2, <2>3, <2>4 DEF FileStep
  <1> QED BY <1>1, <1>2, <1>3, <1>4 DEF IndexStep

\* A publication writes the row of its session, if the source is enabled, and
\* nothing else of the main database.
LEMMA RowsArePublished ==
  ASSUME BaseInv, IngestPublish
  PROVE  LET e == ingest.session IN
         /\ e \in Sessions /\ ingest \in Ingests /\ ingest # NoIngest
         /\ \A d \in Sessions : d # e => row'[d] = row[d]
         /\ IF enabled[SourceFor(e)]
            THEN /\ row'[e].id = ingest.id /\ row'[e].revision = ingest.revision
                 /\ row'[e].content = ingest.content /\ row'[e] # NoRow
            ELSE row'[e] = row[e]
         /\ ingest' = [ingest EXCEPT !.at = "published", !.kept = enabled[SourceFor(e)]]
         /\ UNCHANGED <<version, enabled, checkpoint, docs, revisions, revoking, rebuilding>>
  <1>0. row \in [Sessions -> Rows \cup {NoRow}] /\ ingest \in Ingests \cup {NoIngest}
    BY DEF BaseInv, IndexTypeOK
  <1>1. ingest \in Ingests /\ ingest # NoIngest /\ ingest.session \in Sessions
    BY <1>0 DEF IngestPublish, NoIngest, Ingests
  <1>2. IndexTypeOK'
    BY TypesAreKept, ContentsAreVersions DEF BaseInv, JobTypes, Workers, IndexStep, IngestStep
  <1>3. ASSUME enabled[SourceFor(ingest.session)]
        PROVE  /\ row'[ingest.session].id = ingest.id /\ row'[ingest.session].revision = ingest.revision
               /\ row'[ingest.session].content = ingest.content
               /\ row'[ingest.session] # NoRow
    <2> DEFINE e == ingest.session
               new == [id |-> ingest.id, revision |-> ingest.revision, content |-> ingest.content,
                       missing |-> FALSE, project |-> Association,
                       manual |-> IF row[e] = NoRow THEN ingest.manual ELSE row[e].manual]
    <2>1. row'[e] = new
      BY <1>0, <1>1, <1>3 DEF IngestPublish, PublishedRow
    <2>2. new \in Rows
      <3>1. Association \in {"matched", "chosen"}
        BY DEF Association
      <3>2. row[e] # NoRow => row[e].manual \in BOOLEAN
        <4>1. row[e] # NoRow => row[e] \in Rows
          BY <1>0, <1>1
        <4> QED BY <4>1 DEF Rows
      <3> QED BY <1>1, <3>1, <3>2 DEF Ingests, Rows
    <2>3. row'[e] \in Rows
      BY <2>1, <2>2
    <2>4. new.id = ingest.id /\ new.revision = ingest.revision /\ new.content = ingest.content
      OBVIOUS
    <2>5. row'[e] # NoRow
      BY <2>3, NoRowAssumption
    <2> HIDE DEF new
    <2> QED BY <2>1, <2>4, <2>5
  <1> QED BY <1>0, <1>1, <1>3 DEF IngestPublish, PublishedRow

\* What a step does to an ingestion that goes on.
GoesOn ==
  /\ ingest # NoIngest /\ ingest \in Ingests
  /\ ingest'.session = ingest.session /\ ingest'.id = ingest.id
  /\ ingest'.revision = ingest.revision /\ ingest'.content = ingest.content
  /\ \/ ingest' = ingest /\ (docs' = docs \/ DeleteDocuments)
     \/ IngestWrite /\ ingest'.at = "writing"
     \/ IngestCommit /\ ingest'.at = "indexed" /\ docs' = docs \cup {Document}
     \/ IngestPublish /\ ingest'.at = "published" /\ ingest'.kept = enabled[SourceFor(ingest.session)]

\* An ingestion under way was begun by this step for a session of the file, or
\* goes on with the same session, id, revision and content.
LEMMA IngestsAreKept ==
  ASSUME BaseInv, IndexStep, ingest' # NoIngest
  PROVE  GoesOn \/ \E e \in Sessions : worker.at = "sessions" /\ IngestBegin(e, worker.content)
  <1>0. ingest \in Ingests \cup {NoIngest}
    BY DEF BaseInv, IndexTypeOK
  <1>1. ~ running => ingest = NoIngest
    BY DEF BaseInv, PlaceFits, IngestsAreOfTheFile
  <1>2. CASE IngestStep
    <2>1. CASE IngestWrite
      BY <1>0, <2>1 DEF IngestWrite, GoesOn, NoIngest, Ingests
    <2>2. CASE IngestCommit
      BY <1>0, <2>2 DEF IngestCommit, GoesOn, NoIngest, Ingests
    <2>3. CASE IngestPublish
      <3>1. ingest \in Ingests /\ ingest # NoIngest
        BY <2>3, RowsArePublished
      <3>2. ingest' = [ingest EXCEPT !.at = "published", !.kept = enabled[SourceFor(ingest.session)]]
        BY <2>3, RowsArePublished
      <3> HIDE DEF SourceFor
      <3> QED BY <2>3, <3>1, <3>2 DEF GoesOn, Ingests
    <2> QED BY <1>2, <2>1, <2>2, <2>3 DEF IngestStep, IngestClean, IngestStop
  <1>3. CASE CommandOnIndex
    <2>1. ASSUME NEW s \in Sources, Revoke(s) \/ Enable(s) PROVE UNCHANGED <<docs, ingest>>
      BY <2>1 DEF Revoke, Enable
    <2>2. ASSUME NEW f, EditFile(f) \/ MoveFile(f) PROVE UNCHANGED <<docs, ingest>>
      BY <2>2 DEF EditFile, MoveFile
    <2>3. ASSUME NEW e, Link(e) PROVE UNCHANGED <<docs, ingest>>
      BY <2>3 DEF Link
    <2>4. RebuildUnpublish \/ RebuildForget \/ RebuildFail => UNCHANGED <<docs, ingest>>
      BY DEF RebuildUnpublish, RebuildForget, RebuildFail
    <2>5. DeleteDocuments => UNCHANGED ingest
      BY DEF DeleteDocuments
    <2>6. ~ CrashIndex /\ ~ (RebuildRemove /\ ~ running)
      BY <1>1 DEF CrashIndex, RebuildRemove
    <2>7. ingest' = ingest /\ (docs' = docs \/ DeleteDocuments)
      BY <1>3, <2>1, <2>2, <2>3, <2>4, <2>5, <2>6 DEF CommandOnIndex
    <2> QED BY <1>0, <2>7 DEF GoesOn
  <1>4. CASE FileStep \/ UNCHANGED indexVars
    BY <1>0, <1>4 DEF FileStep, FinishFile, MarkMissing, ForgetFile, indexVars, GoesOn
  <1> QED BY <1>2, <1>3, <1>4 DEF IndexStep

-----------------------------------------------------------------------------
\* Ids, revisions and documents

\* An id is that of one session, and of the ingestion of this session.
IdsFit ==
  /\ \A e \in Sessions : row[e] # NoRow => row[e].id <= revisions
  /\ \A d, e \in Sessions : row[d] # NoRow /\ row[e] # NoRow /\ row[d].id = row[e].id => d = e

IngestOwnsItsId ==
  ingest # NoIngest =>
    /\ ingest.id <= revisions
    /\ row[ingest.session] # NoRow => row[ingest.session].id = ingest.id
    /\ \A d \in Sessions : d # ingest.session /\ row[d] # NoRow => row[d].id # ingest.id

\* The documents of a revoked source are deleted while it is not authorised, and
\* the file of an ingestion that this concerns is in doubt.
RevokingFits ==
  revoking # NoSource =>
    /\ ~ enabled[revoking]
    /\ ingest # NoIngest /\ SourceFor(ingest.session) = revoking => FileOf[ingest.session] \in doubtful

\* Documents that are not there were deleted by a revocation, which left the
\* file in doubt.
IngestIsIndexed ==
  ingest # NoIngest =>
    LET e == ingest.session IN
    /\ ingest.at = "indexed" => Document \in docs \/ (ingest.revision \in lost /\ FileOf[e] \in doubtful)
    /\ ingest.at = "published" =>
         \/ row[e] = NoRow
         \/ ingest.kept /\ row[e].revision = ingest.revision /\ row[e].content = ingest.content

PublishedInv ==
  /\ BaseInv /\ RevokedSourcesKeepNothing
  /\ IdsFit /\ IngestOwnsItsId /\ RevokingFits /\ IngestIsIndexed /\ PublishedSessionsAreIndexed

\* Revisions are given out in order.
LEMMA RevisionsGrow ==
  ASSUME BaseInv, IndexStep
  PROVE  /\ revisions \in Nat /\ revisions' \in Nat /\ revisions <= revisions'
         /\ \A e \in Sessions : row[e] # NoRow => row[e].id \in Nat
         /\ ingest # NoIngest => ingest.id \in Nat
  <1>0. \A n \in Revisions : n \in Nat
    BY IndexAssumption DEF Revisions
  <1>1. revisions \in Revisions
    BY DEF BaseInv, IndexTypeOK
  <1>2. revisions' = revisions \/ revisions' = revisions + 1
    BY DEF IndexStep, indexVars, IngestStep, IngestBegin, IngestWrite, IngestCommit, IngestPublish, IngestClean,
           IngestStop, CommandOnIndex, EditFile, MoveFile, Revoke, Enable, Link, DeleteDocuments, RebuildRemove,
           RebuildUnpublish, RebuildForget, RebuildFail, CrashIndex, FileStep, FinishFile, MarkMissing, ForgetFile
  <1>3. \A e \in Sessions : row[e] # NoRow => row[e].id \in Nat
    <2> SUFFICES ASSUME NEW e \in Sessions, row[e] # NoRow PROVE row[e].id \in Nat
      OBVIOUS
    <2>1. row[e] \in Rows
      BY DEF BaseInv, IndexTypeOK
    <2> QED BY <1>0, <2>1 DEF Rows
  <1>4. ingest # NoIngest => ingest.id \in Nat
    BY <1>0 DEF BaseInv, IndexTypeOK, Ingests
  <1> QED BY <1>0, <1>1, <1>2, <1>3, <1>4

\* No two sessions share an id: a new id is a fresh revision, and nobody else
\* writes the row of the session that is ingested.
LEMMA IdsAreKept ==
  ASSUME BaseInv, IdsFit, IngestOwnsItsId, IndexStep
  PROVE  IdsFit' /\ IngestOwnsItsId'
  <1>0. /\ revisions \in Nat /\ revisions' \in Nat /\ revisions <= revisions'
        /\ \A e \in Sessions : row[e] # NoRow => row[e].id \in Nat
        /\ ingest # NoIngest => ingest.id \in Nat
    BY RevisionsGrow
  <1>1. CASE IngestPublish
    <2> DEFINE e == ingest.session
    <2>1. /\ e \in Sessions /\ ingest \in Ingests /\ ingest # NoIngest
          /\ \A d \in Sessions : d # e => row'[d] = row[d]
          /\ row'[e] # NoRow => row'[e].id = ingest.id \/ row'[e] = row[e]
          /\ ingest' = [ingest EXCEPT !.at = "published", !.kept = enabled[SourceFor(e)]]
      BY <1>1, RowsArePublished
    <2>2. row'[e] # NoRow => row'[e].id = ingest.id
      BY <2>1 DEF IngestOwnsItsId
    <2>3. ingest'.session = e /\ ingest'.id = ingest.id
      BY <2>1 DEF Ingests
    <2> HIDE DEF e
    <2>4. \A d \in Sessions : d # e /\ row[d] # NoRow => row[d].id # ingest.id
      BY <2>1 DEF IngestOwnsItsId, e
    <2>5. ingest.id <= revisions
      BY <2>1 DEF IngestOwnsItsId
    <2>6. IdsFit'
      BY <1>0, <2>1, <2>2, <2>4, <2>5 DEF IdsFit
    <2>7. IngestOwnsItsId'
      BY <1>0, <2>1, <2>2, <2>3, <2>4, <2>5 DEF IngestOwnsItsId
    <2> QED BY <2>6, <2>7
  <1>2. CASE ~ IngestPublish
    <2>1. \A e \in Sessions : row'[e] # NoRow => row[e] # NoRow /\ row'[e].id = row[e].id
      BY <1>2, RowsAreKept DEF OldRow
    <2>2. IdsFit'
      BY <1>0, <2>1 DEF IdsFit
    <2>3. ASSUME GoesOn PROVE IngestOwnsItsId'
      <3>1. ingest # NoIngest /\ ingest'.session = ingest.session /\ ingest'.id = ingest.id
              /\ ingest.session \in Sessions
        BY <2>3 DEF GoesOn, Ingests
      <3> QED BY <1>0, <2>1, <3>1 DEF IngestOwnsItsId
    <2>4. ASSUME NEW e \in Sessions, IngestBegin(e, worker.content) PROVE IngestOwnsItsId'
      <3>1. /\ ingest'.session = e /\ row' = row /\ revisions' = revisions + 1
            /\ ingest'.id = IF row[e] = NoRow THEN revisions + 1 ELSE row[e].id
        BY <2>4 DEF IngestBegin
      <3> QED BY <1>0, <3>1 DEF IngestOwnsItsId, IdsFit
    <2>5. CASE ingest' = NoIngest
      BY <2>2, <2>5 DEF IngestOwnsItsId
    <2> QED BY <2>2, <2>3, <2>4, <2>5, IngestsAreKept
  <1> QED BY <1>1, <1>2

\* What is in doubt stays so while the job has ingested sessions of a file.
LEMMA DoubtStays ==
  ASSUME BaseInv, [Next]_vars, worker.ids # {}
  PROVE  doubtful \subseteq doubtful'
  <1>1. worker.at # "files" /\ rebuilding = "idle"
    BY DEF BaseInv, FileFits, PlaceFits
  <1> QED BY <1>1, HistoryMoves DEF DoubtMoves, RebuildForget

\* The session that is ingested is of the file that the job reads.
LEMMA IngestsAreRead ==
  ASSUME BaseInv, ingest # NoIngest
  PROVE  /\ ingest \in Ingests /\ ingest.session \in Sessions /\ ingest.session \in worker.ids
         /\ FileOf[ingest.session] = worker.file /\ worker.file \in Files
         /\ worker.at = "sessions" /\ running /\ rebuilding = "idle"
  BY DEF BaseInv, IndexTypeOK, Ingests, IngestsAreOfTheFile, PlaceFits, FileFits, Reading

\* The source whose documents are being deleted stays revoked; if the job is
\* ingesting a session of it, the file is in doubt since the revocation.
LEMMA RevokingIsKept ==
  ASSUME BaseInv, RevokingFits, [Next]_vars, IndexStep
  PROVE  RevokingFits'
  <1>0. enabled \in [Sources -> BOOLEAN] /\ revoking \in Sources \cup {NoSource} /\ NoSource \notin Sources
    BY IndexAssumption DEF BaseInv, IndexTypeOK
  <1>1. \/ UNCHANGED enabled /\ revoking' \in {revoking, NoSource}
        \/ \E s \in Sources : Revoke(s) \/ Enable(s)
    BY DEF IndexStep, indexVars, IngestStep, IngestBegin, IngestWrite, IngestCommit, IngestPublish, IngestClean,
           IngestStop, CommandOnIndex, EditFile, MoveFile, Link, DeleteDocuments, RebuildRemove,
           RebuildUnpublish, RebuildForget, RebuildFail, CrashIndex, FileStep, FinishFile, MarkMissing, ForgetFile
  <1>2. CASE UNCHANGED enabled /\ revoking' \in {revoking, NoSource}
    <2> SUFFICES ASSUME revoking # NoSource, revoking' = revoking, ingest' # NoIngest,
                        SourceFor(ingest'.session) = revoking
                 PROVE  FileOf[ingest'.session] \in doubtful'
      BY <1>2 DEF RevokingFits, SourceFor
    <2>1. ~ enabled[revoking]
      BY DEF RevokingFits
    <2>2. ~ \E e \in Sessions : IngestBegin(e, worker.content)
      <3> SUFFICES ASSUME NEW e \in Sessions, IngestBegin(e, worker.content) PROVE FALSE
        OBVIOUS
      <3>1. ingest'.session = e /\ enabled[SourceFor(e)]
        BY DEF IngestBegin
      <3> QED BY <2>1, <3>1
    <2>3. ingest # NoIngest /\ ingest'.session = ingest.session
      BY <2>2, IngestsAreKept DEF GoesOn
    <2>4. FileOf[ingest.session] \in doubtful /\ worker.ids # {}
      BY <2>3, IngestsAreRead DEF RevokingFits
    <2> QED BY <2>3, <2>4, DoubtStays
  <1>3. ASSUME NEW s \in Sources, Revoke(s) PROVE RevokingFits'
    <2>1. enabled[s] /\ ~ enabled'[s] /\ revoking' = s /\ ingest' = ingest
      BY <1>0, <1>3 DEF Revoke
    <2>2. ASSUME ingest # NoIngest, SourceFor(ingest.session) = s PROVE FileOf[ingest.session] \in doubtful'
      BY <2>1, <2>2, IngestsAreRead, HistoryMoves DEF DoubtMoves, SourceFor
    <2> QED BY <2>1, <2>2 DEF RevokingFits, SourceFor
  <1>4. ASSUME NEW s \in Sources, Enable(s) PROVE RevokingFits'
    BY <1>4 DEF Enable, RevokingFits, CoreFree
  <1> QED BY <1>1, <1>2, <1>3, <1>4

\* The documents of an ingestion are in the index from their commit to its end:
\* only the deletion for a revoked source removes them, which is noted.
LEMMA IngestsStayIndexed ==
  ASSUME PublishedInv, [Next]_vars, IndexStep
  PROVE  IngestIsIndexed'
  <1> SUFFICES ASSUME ingest' # NoIngest
               PROVE  LET e == ingest'.session IN
                      /\ ingest'.at = "indexed" =>
                           Document' \in docs' \/ (ingest'.revision \in lost' /\ FileOf[e] \in doubtful')
                      /\ ingest'.at = "published" =>
                           \/ row'[e] = NoRow
                           \/ /\ ingest'.kept /\ row'[e].revision = ingest'.revision
                              /\ row'[e].content = ingest'.content
    BY DEF IngestIsIndexed
  <1>1. CASE \E e \in Sessions : IngestBegin(e, worker.content)
    <2>1. ingest'.at = "begun"
      BY <1>1 DEF IngestBegin
    <2> QED BY <2>1
  <1>2. CASE GoesOn
    <2> DEFINE e == ingest.session
               s == SourceFor(e)
    <2>1. /\ ingest # NoIngest /\ ingest \in Ingests /\ e \in Sessions /\ s \in Sources
          /\ ingest'.session = e /\ ingest'.id = ingest.id /\ ingest'.revision = ingest.revision
          /\ ingest'.content = ingest.content
      BY <1>2, IndexAssumption DEF GoesOn, Ingests, SourceFor
    <2>2. Document' = Document /\ Document.source = s
      BY <2>1 DEF Document, SourceFor
    <2>3. /\ lost \subseteq lost' /\ doubtful \subseteq doubtful' /\ running
          /\ ingest.at = "indexed" /\ Document \in docs /\ Document \notin docs' => ingest.revision \in lost'
      BY <2>1, IngestsAreRead, DoubtStays, HistoryMoves DEF PublishedInv, LostMoves
    <2>4. /\ worker.at = "sessions" /\ ~ RebuildUnpublish
      BY <2>1 DEF PublishedInv, BaseInv, IngestsAreOfTheFile, PlaceFits, RebuildUnpublish
    <2>5. /\ ingest.at = "indexed" => Document \in docs \/ (ingest.revision \in lost /\ FileOf[e] \in doubtful)
          /\ ingest.at = "published" =>
               row[e] = NoRow \/ (ingest.kept /\ row[e].revision = ingest.revision /\ row[e].content = ingest.content)
      BY <2>1 DEF PublishedInv, IngestIsIndexed
    <2>6. CASE IngestPublish
      <3>1. ingest'.at = "published" /\ ingest'.kept = enabled[s]
        <4>1. ingest' = [ingest EXCEPT !.at = "published", !.kept = enabled[s]]
          BY <2>6, RowsArePublished DEF PublishedInv
        <4> HIDE DEF s, e
        <4> QED BY <2>1, <4>1 DEF Ingests
      <3>2. IF enabled[s] THEN row'[e].revision = ingest.revision /\ row'[e].content = ingest.content
                          ELSE row'[e] = row[e]
        BY <2>6, RowsArePublished DEF PublishedInv
      <3>3. ~ enabled[s] => row[e] = NoRow
        BY <2>1 DEF PublishedInv, RevokedSourcesKeepNothing
      <3> HIDE DEF s, e
      <3> QED BY <2>1, <3>1, <3>2, <3>3 DEF e
    <2>7. CASE ~ IngestPublish
      <3>1. OldRow(e)
        BY <2>1, <2>7, RowsAreKept DEF PublishedInv
      <3>2. row'[e] = NoRow \/ /\ row[e] # NoRow
                               /\ row'[e].revision = row[e].revision /\ row'[e].content = row[e].content
        BY <2>4, <3>1 DEF OldRow
      <3>3. CASE ingest' = ingest /\ (docs' = docs \/ DeleteDocuments)
        <4>1. ingest.at = "indexed" => Document \in docs' \/ (ingest.revision \in lost' /\ FileOf[e] \in doubtful')
          <5>1. Document \in docs /\ Document \notin docs' => s = revoking /\ revoking # NoSource
            BY <2>1, <2>2, <3>3, IndexAssumption DEF DeleteDocuments
          <5>2. s = revoking /\ revoking # NoSource => FileOf[e] \in doubtful
            BY <2>1 DEF PublishedInv, RevokingFits
          <5> QED BY <2>3, <2>5, <5>1, <5>2
        <4> HIDE DEF s
        <4> QED BY <2>1, <2>2, <2>5, <3>2, <3>3, <4>1 DEF s
      <3>4. CASE IngestWrite /\ ingest'.at = "writing"
        BY <3>4
      <3>5. CASE IngestCommit /\ ingest'.at = "indexed" /\ docs' = docs \cup {Document}
        BY <2>2, <3>5
      <3> QED BY <1>2, <2>7, <3>3, <3>4, <3>5 DEF GoesOn
    <2> QED BY <2>6, <2>7
  <1> QED BY <1>1, <1>2, IngestsAreKept DEF PublishedInv

\* The revision that readers see keeps its documents: the clean-up removes other
\* revisions of the session's id only, and the deletion other sources' only.
LEMMA IndexedStays ==
  ASSUME PublishedInv, IndexStep, ~ RebuildRemove, NEW e \in Sessions, Indexed(e), row[e] # NoRow,
         row'[e].id = row[e].id, row'[e].revision = row[e].revision
  PROVE  Indexed(e)'
  <1> DEFINE d == [id |-> row[e].id, revision |-> row[e].revision, source |-> SourceFor(e)]
  <1>0. SourceFor(e) \in Sources
    BY IndexAssumption DEF SourceFor
  <1>1. d \in docs /\ d.source = SourceFor(e)
    BY DEF Indexed
  <1>2. SourceFor(e) # revoking
    BY <1>0, IndexAssumption DEF PublishedInv, RevokedSourcesKeepNothing, RevokingFits
  <1>3. ~ Stale(d) \/ ~ IngestClean
    <2> SUFFICES ASSUME IngestClean, d.id = ingest.id PROVE d.revision = ingest.revision /\ ingest.kept
      BY DEF Stale
    <2>1. ingest # NoIngest /\ ingest.at = "published"
      BY DEF IngestClean, NoIngest
    <2>2. e = ingest.session
      BY <2>1 DEF PublishedInv, IngestOwnsItsId
    <2> QED BY <2>1, <2>2 DEF PublishedInv, IngestIsIndexed
  <1>4. \/ docs' = docs \/ docs' = docs \cup {Document}
        \/ docs' = {x \in docs : x.source # revoking}
        \/ IngestClean /\ docs' = {x \in docs : ~ Stale(x)}
    BY DEF IndexStep, indexVars, IngestStep, IngestBegin, IngestWrite, IngestCommit, IngestPublish, IngestClean,
         IngestStop, CommandOnIndex, EditFile, MoveFile, Revoke, Enable, Link, DeleteDocuments,
         RebuildUnpublish, RebuildForget, RebuildFail, CrashIndex, FileStep, FinishFile, MarkMissing, ForgetFile
  <1>5. d \in docs'
    <2> HIDE DEF d
    <2> QED BY <1>1, <1>2, <1>3, <1>4
  <1> QED BY <1>5 DEF Indexed, SourceFor

\* What readers see has documents or is noted as lost: a publication takes both
\* from its ingestion, and a rebuild notes what it removes.
LEMMA SessionsStayIndexed ==
  ASSUME PublishedInv, [Next]_vars, IndexStep
  PROVE  PublishedSessionsAreIndexed'
  <1> SUFFICES ASSUME NEW e \in Sessions, row'[e] # NoRow, row'[e].revision # 0
               PROVE  Indexed(e)' \/ row'[e].revision \in lost'
    BY DEF PublishedSessionsAreIndexed, Published
  <1>0. /\ lost \subseteq lost'
        /\ rebuilding = "idle" /\ rebuilding' = "removed" => ReadersSee \subseteq lost'
    BY HistoryMoves DEF LostMoves, PublishedInv
  <1>1. CASE IngestPublish /\ e = ingest.session /\ enabled[SourceFor(e)]
    <2>1. /\ row'[e].id = ingest.id /\ row'[e].revision = ingest.revision /\ docs' = docs
          /\ ingest # NoIngest /\ ingest.at = "indexed"
      BY <1>1, RowsArePublished DEF PublishedInv, IngestPublish
    <2>2. Document \in docs \/ ingest.revision \in lost
      BY <1>1, <2>1 DEF PublishedInv, IngestIsIndexed
    <2> QED BY <1>0, <1>1, <2>1, <2>2 DEF Document, Indexed, SourceFor
  <1>2. CASE ~ (IngestPublish /\ e = ingest.session /\ enabled[SourceFor(e)])
    <2>1. row[e] # NoRow /\ row'[e].id = row[e].id /\ row'[e].revision = row[e].revision
      <3>1. CASE IngestPublish
        BY <1>2, <3>1, RowsArePublished DEF PublishedInv
      <3>2. CASE ~ IngestPublish
        <4>1. OldRow(e)
          BY <3>2, RowsAreKept DEF PublishedInv
        <4> QED BY <4>1 DEF OldRow
      <3> QED BY <3>1, <3>2
    <2>2. Published(e)
      BY <2>1 DEF Published
    <2>3. CASE RebuildRemove
      <3>1. ReadersSee \subseteq lost'
        BY <1>0, <2>3 DEF RebuildRemove, CoreFree
      <3>2. row[e].revision \in ReadersSee
        BY <2>2 DEF ReadersSee
      <3> QED BY <2>1, <3>1, <3>2
    <2>4. CASE ~ RebuildRemove
      <3>1. Indexed(e) \/ row[e].revision \in lost
        BY <2>2 DEF PublishedInv, PublishedSessionsAreIndexed
      <3> QED BY <1>0, <2>1, <2>4, <3>1, IndexedStays
    <2> QED BY <2>3, <2>4
  <1> QED BY <1>1, <1>2

\* The two databases of the session index agree although no transaction spans
\* them (ingest_session_cancelable in core/sessions.rs): ids are unique, and an
\* ingestion's documents are there before its row and stay until the row names
\* another revision, whatever is revoked, authorised again, rebuilt or
\* interrupted meanwhile; what a command deletes under it is told apart.
THEOREM PublishedInvariant == Spec => []PublishedInv
  <1>1. Init => PublishedInv
    <2>1. Init => RevokedSourcesKeepNothing
      BY DEF Init, IndexInit, RevokedSourcesKeepNothing, SourceFor
    <2> QED
      BY <2>1, BaseInitially DEF Init, IndexInit, PublishedInv, IdsFit, IngestOwnsItsId, RevokingFits,
             IngestIsIndexed, PublishedSessionsAreIndexed, Published
  <1>2. PublishedInv /\ [Next]_vars /\ BaseInv' => PublishedInv'
    <2> SUFFICES ASSUME PublishedInv, [Next]_vars, BaseInv' PROVE PublishedInv'
      OBVIOUS
    <2>1. IndexStep
      BY IndexSteps
    <2>2. RevokedSourcesKeepNothing' /\ IdsFit' /\ IngestOwnsItsId' /\ RevokingFits'
      BY <2>1, RevocationsHold, IdsAreKept, RevokingIsKept DEF PublishedInv
    <2> QED BY <2>1, <2>2, IngestsStayIndexed, SessionsStayIndexed DEF PublishedInv
  <1> QED BY <1>1, <1>2, BaseInvariant, PTL DEF Spec

\* Every session that readers see has the documents of the revision they see,
\* unless a revocation or a rebuild deleted just these (ingest_session_cancelable
\* and rebuild_session_index in core/sessions.rs).
THEOREM PublishedAreIndexed == Spec => []PublishedSessionsAreIndexed
  BY PublishedInvariant, PTL DEF PublishedInv

-----------------------------------------------------------------------------
\* Checkpoints

\* What the job ingested of the file it reads is published and indexed, unless
\* the ingestion is still under way; a file that is not in doubt was not revoked
\* since its first session.
FileIsIngested ==
  worker.at \in {"sessions", "finish"} /\ worker.file \notin doubtful =>
    \A e \in worker.ids :
      /\ enabled[SourceOf[worker.file]]
      /\ \/ ingest # NoIngest /\ ingest.session = e /\ ingest.at # "published"
         \/ Published(e) /\ row[e].content = worker.content /\ Indexed(e)

IngestIsOfTheContent ==
  ingest # NoIngest => ingest.content = worker.content /\ ingest.revision # 0

DoneInv == PublishedInv /\ FileIsIngested /\ IngestIsOfTheContent /\ CheckpointsAreUpToDate

\* A step that is not the job's leaves the job as it is, starts it or ends it
\* with the desktop; it only ever resets checkpoints.
LEMMA CommandMoves ==
  ASSUME [Next]_vars, ~ JobStep
  PROVE  /\ \/ worker' = worker /\ ingest' = ingest
            \/ worker'.at \in {"begin", "off"} /\ ~ running
            \/ worker'.at = "off" /\ ingest' = NoIngest /\ Crash
         /\ UNCHANGED checkpoint \/ \A f \in Files : checkpoint'[f] \in {checkpoint[f], 0}
  <1>0. Off.at = "off" /\ \A force : Begin(force).at = "begin"
    BY DEF Off, Begin
  <1>1. CASE UNCHANGED vars
    BY <1>1 DEF vars, indexVars, jobVars
  <1>2. ASSUME NEW f \in Files, EditFile(f) \/ MoveFile(f), UNCHANGED jobVars
        PROVE  UNCHANGED <<worker, ingest, checkpoint>>
    BY <1>2 DEF EditFile, MoveFile, jobVars
  <1>3. ASSUME NEW force, StartRefresh(force)
        PROVE  worker'.at = "begin" /\ ~ running /\ UNCHANGED checkpoint
    BY <1>0, <1>3 DEF StartRefresh, indexVars
  <1>4. ASSUME NEW s \in Sources, CancelForRevocation(s) \/ EnableSource(s)
        PROVE  UNCHANGED <<worker, ingest, checkpoint>>
    BY <1>4 DEF CancelForRevocation, EnableSource, Enable, indexVars, jobVars
  <1>5. ASSUME NEW s \in Sources, RevokeSource(s)
        PROVE  UNCHANGED <<worker, ingest>> /\ \A f \in Files : checkpoint'[f] \in {checkpoint[f], 0}
    BY <1>5 DEF RevokeSource, Revoke
  <1>6. ASSUME NEW e \in Sessions, LinkSession(e) PROVE UNCHANGED <<worker, ingest, checkpoint>>
    BY <1>6 DEF LinkSession, Link, jobVars
  <1>7. CASE ForceRefresh \/ CancelRefresh \/ StartRebuild
    BY <1>7 DEF ForceRefresh, CancelRefresh, StartRebuild, RebuildRemove, indexVars
  <1>8. CASE CommandStep
    BY <1>8 DEF CommandStep, FinishRevocation, DeleteDocuments, ContinueRebuild, RebuildUnpublish,
                FinishRebuild, RebuildForget, FailRebuild, RebuildFail, jobVars
  <1>9. CASE Crash
    BY <1>0, <1>9 DEF Crash
  <1> QED BY <1>1, <1>2, <1>3, <1>4, <1>5, <1>6, <1>7, <1>8, <1>9 DEF Next

\* Files only get newer, and a checkpoint is only set by the end of its file, to
\* the fingerprint that was taken before the file was read.
LEMMA CheckpointMoves ==
  ASSUME BaseInv, IndexStep, NEW f \in Files
  PROVE  /\ version[f] \in Nat /\ version'[f] \in Nat /\ version[f] > 0 /\ version[f] <= version'[f]
         /\ \/ checkpoint'[f] \in {checkpoint[f], 0}
            \/ /\ worker.at = "finish" /\ worker.file = f /\ enabled[SourceOf[f]]
               /\ FinishFile(f, worker.fingerprint, worker.ids) /\ checkpoint'[f] = worker.fingerprint
  <1>0. /\ version \in [Files -> Versions] /\ checkpoint \in [Files -> 0 .. MaxVersion]
        /\ \A v \in Versions : v \in Nat /\ v > 0
    BY IndexAssumption DEF BaseInv, IndexTypeOK, Versions
  <1>1. UNCHANGED version \/ \E g \in Files : version' = [version EXCEPT ![g] = @ + 1]
    BY DEF IndexStep, indexVars, IngestStep, IngestBegin, IngestWrite, IngestCommit, IngestPublish, IngestClean,
           IngestStop, CommandOnIndex, EditFile, MoveFile, Revoke, Enable, Link, DeleteDocuments, RebuildRemove,
           RebuildUnpublish, RebuildForget, RebuildFail, CrashIndex, FileStep, FinishFile, MarkMissing, ForgetFile
  <1>2. \/ UNCHANGED checkpoint
        \/ \E s \in Sources : Revoke(s)
        \/ RebuildForget
        \/ worker.at = "finish" /\ FinishFile(worker.file, worker.fingerprint, worker.ids)
        \/ ForgetFile(worker.file)
    BY DEF IndexStep, indexVars, IngestStep, IngestBegin, IngestWrite, IngestCommit, IngestPublish, IngestClean,
           IngestStop, CommandOnIndex, EditFile, MoveFile, Enable, Link, DeleteDocuments, RebuildRemove,
           RebuildUnpublish, RebuildFail, CrashIndex, FileStep, MarkMissing
  <1>3. ASSUME NEW s \in Sources, Revoke(s) PROVE checkpoint'[f] \in {checkpoint[f], 0}
    BY <1>3 DEF Revoke
  <1>4. RebuildForget \/ ForgetFile(worker.file) => checkpoint'[f] \in {checkpoint[f], 0}
    BY <1>0 DEF RebuildForget, ForgetFile
  <1>5. ASSUME worker.at = "finish", FinishFile(worker.file, worker.fingerprint, worker.ids)
        PROVE  \/ checkpoint'[f] = checkpoint[f]
               \/ worker.file = f /\ enabled[SourceOf[f]] /\ checkpoint'[f] = worker.fingerprint
    BY <1>0, <1>5 DEF FinishFile
  <1>6. version[f] \in Nat /\ version'[f] \in Nat /\ version[f] > 0 /\ version[f] <= version'[f]
    BY <1>0, <1>1
  <1> QED BY <1>2, <1>3, <1>4, <1>5, <1>6

\* An ingestion has the content that the job read of the file.
LEMMA IngestsKeepTheContent ==
  ASSUME BaseInv, IngestIsOfTheContent, [Next]_vars, IndexStep
  PROVE  IngestIsOfTheContent'
  <1> SUFFICES ASSUME ingest' # NoIngest
               PROVE  ingest'.content = worker'.content /\ ingest'.revision # 0
    BY DEF IngestIsOfTheContent
  <1>0. ~ running => ingest = NoIngest
    BY DEF BaseInv, PlaceFits, IngestsAreOfTheFile
  <1>1. CASE ~ JobStep
    <2>1. CASE worker' = worker /\ ingest' = ingest
      BY <2>1 DEF IngestIsOfTheContent
    <2>2. CASE ~ running
      <3>1. GoesOn \/ worker.at = "sessions"
        BY IngestsAreKept
      <3> QED BY <1>0, <2>2, <3>1 DEF GoesOn, BaseInv, PlaceFits
    <2> QED BY <1>1, <2>1, <2>2, CommandMoves
  <1>2. CASE JobStep
    <2>1. Stays
      BY <1>2, JobMoves DEF Leaves
    <2>2. ASSUME NEW e \in Sessions, BeginSession(e)
          PROVE  ingest'.content = worker'.content /\ ingest'.revision # 0
      <3>1. /\ ingest'.content = worker.content /\ ingest'.revision = revisions + 1
            /\ worker' = [worker EXCEPT !.sessions = @ \ {e}, !.ids = @ \cup {e}]
        BY <2>2 DEF BeginSession, IngestBegin
      <3>2. worker'.content = worker.content
        BY <3>1 DEF BaseInv, JobTypes, Workers
      <3>3. revisions \in Nat
        BY RevisionsGrow
      <3> QED BY <3>1, <3>2, <3>3
    <2>3. CASE ~ \E e \in Sessions : BeginSession(e)
      <3>1. CASE ContinueSession
        <4>1. worker' = worker /\ worker.at # "off" /\ ingest # NoIngest /\ ingest \in Ingests
          BY <3>1 DEF ContinueSession, IngestWrite, IngestCommit, IngestPublish, IngestClean, NoIngest, jobVars,
                      BaseInv, IngestsAreOfTheFile, IndexTypeOK
        <4>2. ingest'.content = ingest.content /\ ingest'.revision = ingest.revision
          BY <3>1, <4>1 DEF ContinueSession, IngestWrite, IngestCommit, IngestPublish, IngestClean, Ingests
        <4> QED BY <4>1, <4>2 DEF IngestIsOfTheContent
      <3>2. CASE ~ ContinueSession
        <4>1. ingest' = ingest /\ (ingest = NoIngest \/ worker.at # "sessions")
          BY <2>1, <2>3, <3>2 DEF Stays, TakeFingerprint, ReadFile, CheckFile, indexVars
        <4> QED BY <4>1 DEF BaseInv, IngestsAreOfTheFile
      <3> QED BY <3>1, <3>2
    <2> QED BY <2>2, <2>3
  <1> QED BY <1>1, <1>2

\* The sessions that the job is done with are published with the content it
\* read until it leaves the file.
LEMMA FilesStayIngested ==
  ASSUME DoneInv, [Next]_vars, IndexStep, BaseInv'
  PROVE  FileIsIngested'
  <1> DEFINE Waits(e) == ingest # NoIngest /\ ingest.session = e /\ ingest.at # "published"
             Done(e) == Published(e) /\ row[e].content = worker.content /\ Indexed(e)
  <1> SUFFICES ASSUME worker'.at \in {"sessions", "finish"}, worker'.file \notin doubtful',
                      NEW e \in worker'.ids
               PROVE  enabled'[SourceOf[worker'.file]] /\ (Waits(e)' \/ Done(e)')
    BY DEF FileIsIngested
  <1>0. BaseInv /\ worker \in Workers
    BY DEF DoneInv, PublishedInv, BaseInv, JobTypes
  <1>1. ~ RebuildRemove /\ ~ RebuildUnpublish
    BY DEF BaseInv, PlaceFits, RebuildRemove, RebuildUnpublish
  <1>2. ASSUME worker' = worker
        PROVE  /\ enabled[SourceOf[worker.file]] /\ (Waits(e) \/ Done(e))
               /\ enabled'[SourceOf[worker.file]] /\ worker.file \in Files /\ FileOf[e] = worker.file
               /\ e \in Sessions
    <2>1. worker.file \in Files /\ SourceOf[worker.file] \in Sources /\ worker.ids # {}
      BY <1>0, <1>2, IndexAssumption DEF BaseInv, FileFits, Reading
    <2>2. worker.file \notin doubtful
      BY <1>0, <1>2, <2>1, DoubtStays
    <2>3. enabled[SourceOf[worker.file]] /\ (Waits(e) \/ Done(e))
      BY <1>2, <2>2 DEF DoneInv, FileIsIngested
    <2>4. enabled'[SourceOf[worker.file]]
      <3>1. enabled' \in [Sources -> BOOLEAN]
        BY DEF BaseInv, IndexTypeOK
      <3> QED BY <1>0, <1>2, <2>1, <2>3, <3>1, HistoryMoves DEF DoubtMoves
    <2>5. FileOf[e] = worker.file /\ e \in Sessions
      BY <1>0, <1>2 DEF BaseInv, IngestsAreOfTheFile, Workers
    <2> QED BY <2>1, <2>3, <2>4, <2>5
  <1>3. ASSUME worker' = worker, ~ IngestPublish, Done(e) PROVE Done(e)'
    <2>1. OldRow(e) /\ enabled'[SourceFor(e)]
      BY <1>0, <1>2, <1>3, RowsAreKept DEF SourceFor
    <2>2. /\ row'[e] # NoRow /\ row[e] # NoRow /\ row'[e].id = row[e].id /\ row'[e].content = row[e].content
          /\ row'[e].revision = row[e].revision /\ row[e].revision # 0
      BY <1>1, <1>3, <2>1 DEF OldRow, Published
    <2>3. Indexed(e)'
      BY <1>1, <1>2, <1>3, <2>2, IndexedStays DEF DoneInv
    <2> QED BY <1>3, <2>2, <2>3 DEF Published
  <1> HIDE DEF Waits, Done
  <1>4. CASE ~ JobStep
    <2>1. worker' = worker /\ ingest' = ingest
      BY <1>4, CommandMoves
    <2>2. ~ IngestPublish
      BY <1>0, <2>1, RowsArePublished DEF IngestPublish, Ingests
    <2> QED BY <1>2, <1>3, <2>1, <2>2 DEF Waits
  <1>5. CASE JobStep
    <2>0. Stays
      BY <1>0, <1>5, JobMoves DEF Leaves, Reading
    <2>1. ASSUME NEW f \in Files, TakeFingerprint(f) PROVE FALSE
      BY <1>0, <2>1 DEF TakeFingerprint, Workers
    <2>2. CASE ReadFile
      <3>1. worker.at = "read" /\ worker'.ids = worker.ids
        BY <1>0, <2>2 DEF ReadFile, Workers
      <3> QED BY <1>0, <3>1 DEF BaseInv, FileFits
    <2>3. ASSUME NEW d \in Sessions, BeginSession(d)
          PROVE  enabled'[SourceOf[worker'.file]] /\ (Waits(e)' \/ Done(e)')
      <3>1. /\ ingest'.session = d /\ ingest'.at = "begun" /\ ingest = NoIngest /\ worker.at = "sessions"
            /\ worker' = [worker EXCEPT !.sessions = @ \ {d}, !.ids = @ \cup {d}]
            /\ enabled[SourceFor(d)] /\ UNCHANGED <<row, docs, enabled, doubtful>>
        BY <2>3 DEF BeginSession, IngestBegin, history
      <3>2. /\ worker'.at = "sessions" /\ worker'.ids = worker.ids \cup {d}
            /\ worker'.content = worker.content /\ worker'.file = worker.file
        BY <1>0, <3>1 DEF Workers
      <3>3. ingest' # NoIngest
        BY <3>1 DEF NoIngest
      <3>4. enabled'[SourceOf[worker'.file]]
        BY <3>1, <3>2 DEF BaseInv, IngestsAreOfTheFile, SourceFor
      <3>5. CASE e = d
        BY <3>1, <3>3, <3>4, <3>5 DEF Waits
      <3>6. CASE e \in worker.ids
        <4>1. Published(e) /\ row[e].content = worker.content /\ Indexed(e)
          BY <3>1, <3>2, <3>6 DEF DoneInv, FileIsIngested
        <4> QED BY <3>1, <3>2, <3>4, <4>1 DEF Done, Published, Indexed, SourceFor
      <3> QED BY <3>2, <3>5, <3>6
    <2>4. CASE ContinueSession
      <3>1. worker' = worker /\ ingest # NoIngest /\ ingest \in Ingests
        BY <1>0, <2>4 DEF ContinueSession, IngestWrite, IngestCommit, IngestPublish, IngestClean, NoIngest,
                          jobVars, BaseInv, IndexTypeOK
      <3>2. CASE IngestWrite \/ IngestCommit
        <4>1. ingest'.session = ingest.session /\ ingest'.at # "published"
          BY <3>1, <3>2 DEF IngestWrite, IngestCommit, Ingests
        <4>2. ingest' # NoIngest /\ ~ IngestPublish
          BY <3>1, <3>2 DEF IngestWrite, IngestCommit, IngestPublish, NoIngest, Ingests
        <4> QED BY <1>2, <1>3, <3>1, <4>1, <4>2 DEF Waits
      <3>3. CASE IngestClean
        <4>1. ingest.at = "published" /\ ~ IngestPublish
          BY <3>3 DEF IngestClean, IngestPublish
        <4> QED BY <1>2, <1>3, <3>1, <4>1 DEF Waits
      <3>4. CASE IngestPublish
        <4>1. ingest.content = worker.content /\ ingest.revision # 0
          BY <3>1 DEF DoneInv, IngestIsOfTheContent
        <4>2. CASE e = ingest.session
          <5>1. enabled[SourceFor(e)]
            BY <1>2, <3>1 DEF SourceFor
          <5>2. /\ row'[e].id = ingest.id /\ row'[e].revision = ingest.revision
                /\ row'[e].content = ingest.content /\ row'[e] # NoRow /\ docs' = docs
            BY <1>0, <3>4, <4>2, <5>1, RowsArePublished
          <5>3. Document \in docs
            <6>1. ingest.at = "indexed" /\ FileOf[e] \notin doubtful
              <7>1. worker.file \notin doubtful
                BY <1>0, <1>2, <3>1, DoubtStays
              <7> QED BY <1>2, <3>1, <3>4, <7>1 DEF IngestPublish
            <6> QED BY <3>1, <4>2, <6>1 DEF DoneInv, PublishedInv, IngestIsIndexed
          <5>4. Indexed(e)'
            BY <4>2, <5>2, <5>3 DEF Indexed, Document, SourceFor
          <5> QED BY <1>2, <3>1, <4>1, <5>2, <5>4 DEF Done, Published
        <4>3. CASE e # ingest.session
          <5>1. row'[e] = row[e] /\ docs' = docs
            BY <1>0, <1>2, <3>1, <3>4, <4>3, RowsArePublished
          <5>2. Done(e)
            BY <1>2, <3>1, <4>3 DEF Waits
          <5> QED BY <1>2, <3>1, <5>1, <5>2 DEF Done, Published, Indexed, SourceFor
        <4> QED BY <4>2, <4>3
      <3> QED BY <2>4, <3>2, <3>3, <3>4 DEF ContinueSession
    <2>5. CASE CheckFile
      <3>1. /\ worker' = [worker EXCEPT !.at = "finish"] /\ worker.at = "sessions" /\ ingest = NoIngest
            /\ UNCHANGED <<row, docs, enabled, doubtful>>
        BY <2>5 DEF CheckFile, indexVars, history
      <3>2. worker'.ids = worker.ids /\ worker'.content = worker.content /\ worker'.file = worker.file
        BY <1>0, <3>1 DEF Workers
      <3>3. /\ enabled[SourceOf[worker.file]]
            /\ Published(e) /\ row[e].content = worker.content /\ Indexed(e)
        BY <3>1, <3>2 DEF DoneInv, FileIsIngested
      <3> QED BY <3>1, <3>2, <3>3 DEF Done, Published, Indexed, SourceFor
    <2> QED BY <2>0, <2>1, <2>2, <2>3, <2>4, <2>5 DEF Stays
  <1> QED BY <1>4, <1>5

\* A checkpoint that equals the file's fingerprint was set at the end of this
\* version or was so before; both ways the sessions are published with it.
LEMMA CheckpointsStay ==
  ASSUME DoneInv, [Next]_vars, IndexStep, PublishedInv'
  PROVE  CheckpointsAreUpToDate'
  <1> DEFINE Shown(e, v) == Published(e) /\ row[e].content = v /\ Indexed(e)
  <1> SUFFICES ASSUME rebuilding' = "idle", NEW f \in Files, checkpoint'[f] = version'[f], f \notin doubtful',
                      NEW e \in Holds[f][version'[f]]
               PROVE  Shown(e, version[f])' /\ version'[f] = version[f]
    BY DEF CheckpointsAreUpToDate
  <1>0. BaseInv /\ BaseInv' /\ worker \in Workers
    BY DEF DoneInv, PublishedInv, BaseInv, JobTypes
  <1>1. version'[f] \in Versions
    BY <1>0 DEF BaseInv, IndexTypeOK
  <1>2. e \in Sessions /\ FileOf[e] = f /\ SourceFor(e) \in Sources /\ SourceFor(e) = SourceOf[f]
    BY <1>1, IndexAssumption DEF SourceFor
  <1>3. /\ version[f] \in Nat /\ version'[f] \in Nat /\ version[f] > 0 /\ version[f] <= version'[f]
        /\ \/ checkpoint'[f] \in {checkpoint[f], 0}
           \/ /\ worker.at = "finish" /\ worker.file = f /\ enabled[SourceOf[f]]
              /\ FinishFile(f, worker.fingerprint, worker.ids) /\ checkpoint'[f] = worker.fingerprint
    BY <1>0, CheckpointMoves
  <1>4. enabled'[SourceFor(e)]
    BY <1>2, <1>3 DEF PublishedInv, RevokedSourcesKeepNothing, BaseInv, IndexTypeOK
  <1>5. ~ RebuildUnpublish /\ ~ RebuildRemove
    BY DEF RebuildUnpublish, RebuildRemove
  <1>6. ASSUME Shown(e, version[f]), version'[f] = version[f], ~ IngestPublish
        PROVE  Shown(e, version[f])'
    <2>1. OldRow(e)
      BY <1>0, <1>2, <1>6, RowsAreKept
    <2>2. /\ row'[e] # NoRow /\ row[e] # NoRow /\ row'[e].id = row[e].id /\ row'[e].content = row[e].content
          /\ row'[e].revision = row[e].revision /\ row[e].revision # 0
      BY <1>4, <1>5, <1>6, <2>1 DEF OldRow, Published
    <2>3. Indexed(e)'
      BY <1>2, <1>5, <1>6, <2>2, IndexedStays DEF DoneInv
    <2> QED BY <1>6, <2>2, <2>3 DEF Published
  <1>9. f \notin doubtful \/ checkpoint[f] # version[f] \/ RebuildForget
    BY <1>0, HistoryMoves DEF DoubtMoves
  <1>7. CASE /\ worker.at = "finish" /\ worker.file = f /\ enabled[SourceOf[f]]
             /\ FinishFile(f, worker.fingerprint, worker.ids) /\ checkpoint'[f] = worker.fingerprint
    <2>1. version' = version
      BY <1>7 DEF FinishFile
    <2>2. worker.content = version[f]
      <3>1. worker.content \in worker.fingerprint .. version[f] /\ worker.fingerprint = version[f]
        BY <1>0, <1>7, <2>1 DEF BaseInv, FileFits
      <3> QED BY <1>3, <3>1
    <2>3. e \in worker.ids /\ ingest = NoIngest
      BY <1>0, <1>7, <2>1, <2>2 DEF BaseInv, FileFits
    <2>4. Shown(e, version[f])
      <3>1. f \notin doubtful
        BY <1>0, <1>7, <2>3, DoubtStays
      <3> QED BY <1>7, <2>2, <2>3, <3>1 DEF DoneInv, FileIsIngested
    <2>5. ~ IngestPublish
      BY <1>0, <2>3, RowsArePublished
    <2> QED BY <1>6, <2>1, <2>4, <2>5
  <1>8. CASE checkpoint'[f] \in {checkpoint[f], 0}
    <2>1. checkpoint[f] = version[f] /\ version'[f] = version[f]
      <3>1. checkpoint[f] <= version[f] /\ checkpoint[f] \in Nat
        <4>1. MaxVersion \in Nat
          BY IndexAssumption
        <4> QED BY <1>0, <4>1 DEF BaseInv, FileFits, IndexTypeOK
      <3> QED BY <1>3, <1>8, <3>1
    <2>2. ~ RebuildForget /\ rebuilding = "idle"
      BY <1>0, <1>3, HistoryMoves DEF RebuildForget, DoubtMoves
    <2>3. Shown(e, version[f])
      BY <1>9, <2>1, <2>2 DEF DoneInv, CheckpointsAreUpToDate
    <2>4. CASE IngestPublish
      <3>1. ingest # NoIngest
        BY <1>0, <2>4, RowsArePublished
      <3>2. e # ingest.session
        <4> SUFFICES ASSUME e = ingest.session PROVE FALSE
          OBVIOUS
        <4>1. worker.at = "sessions" /\ worker.file = f
          BY <1>0, <1>2, <3>1 DEF BaseInv, IngestsAreOfTheFile
        <4>2. worker.fingerprint \in 1 .. version[f] /\ checkpoint[f] < worker.fingerprint
          BY <1>0, <4>1 DEF BaseInv, FileFits, Reading
        <4> QED BY <1>3, <2>1, <4>2
      <3>3. row'[e] = row[e] /\ docs' = docs
        BY <1>0, <1>2, <2>4, <3>2, RowsArePublished
      <3> QED BY <2>1, <2>3, <3>3 DEF Published, Indexed, SourceFor
    <2> QED BY <1>6, <2>1, <2>3, <2>4
  <1> QED BY <1>3, <1>7, <1>8

\* A file that is finished was ingested in full (refresh_sessions in
\* src-tauri/src/sessions.rs): what the job did of it so far is published, and
\* what a true checkpoint covers stays published.
THEOREM DoneInvariant == Spec => []DoneInv
  <1>1. Init /\ PublishedInv => DoneInv
    <2>1. Off.at = "off"
      BY DEF Off
    <2>2. Init => CheckpointsAreUpToDate
      BY DEF Init, IndexInit, CheckpointsAreUpToDate
    <2> QED BY <2>1, <2>2 DEF Init, IndexInit, DoneInv, FileIsIngested, IngestIsOfTheContent
  <1>2. DoneInv /\ [Next]_vars /\ PublishedInv' => DoneInv'
    <2> SUFFICES ASSUME DoneInv, [Next]_vars, PublishedInv' PROVE DoneInv'
      OBVIOUS
    <2>1. IndexStep
      BY IndexSteps
    <2>2. FileIsIngested' /\ IngestIsOfTheContent'
      BY <2>1, FilesStayIngested, IngestsKeepTheContent DEF DoneInv, PublishedInv
    <2> QED BY <2>1, <2>2, CheckpointsStay DEF DoneInv
  <1>3. Spec => []PublishedInv
    BY PublishedInvariant
  <1> QED BY <1>1, <1>2, <1>3, PTL DEF Spec

\* A checkpoint that makes later refreshes skip a file hides neither a session
\* nor a change of one, except after a revocation in the middle of the file or a
\* rebuild that was cut short (finish_session_file in core/sessions.rs).
THEOREM CheckpointsAreTrue == Spec => []CheckpointsAreUpToDate
  BY DoneInvariant, PTL DEF DoneInv

-----------------------------------------------------------------------------
\* Missing sessions

\* Between marking a session as missing and forgetting its file's checkpoint the
\* job does nothing else, unless it ends there and leaves the file in doubt.
LEMMA ForgettingGoesOn ==
  ASSUME BaseInv, [Next]_vars, worker.at = "forget", worker.file \in Files
  PROVE  worker' = worker \/ (ForgetFile(worker.file) /\ UNCHANGED version) \/ worker.file \in doubtful'
  <1>1. CASE ~ JobStep
    <2>1. running
      BY DEF BaseInv, PlaceFits
    <2>2. ASSUME Crash PROVE worker.file \in doubtful'
      BY <2>2 DEF Crash, Forgetting
    <2> QED BY <1>1, <2>1, <2>2, CommandMoves
  <1>2. CASE JobStep
    <2>1. ingest = NoIngest
      BY DEF BaseInv, IngestsAreOfTheFile
    <2>2. ForgetMissed \/ FailPass
      BY <1>2, <2>1 DEF JobStep, BeginPass, SkipSource, EnumerateSource, FailEnumeration, TakeFingerprint, ReadFile,
         FailFile, BeginSession, RefuseSession, ContinueSession, IngestWrite, IngestCommit, IngestPublish,
         IngestClean, NoIngest, StopSession, IngestStop, LeaveFile, CheckFile, CompleteFile, LeaveSource,
         FinishSource, MissSession, EndSource, EndPass, EndJob
    <2>3. FailPass => worker.file \in doubtful'
      BY DEF FailPass, Forgetting
    <2> QED BY <2>2, <2>3 DEF ForgetMissed, ForgetFile
  <1> QED BY <1>1, <1>2

\* A session is marked as missing with its checkpoint about to be forgotten, or
\* at the end of a file that no longer holds it.
LEMMA MissingStay ==
  ASSUME BaseInv, MissingSessionsCanReturn, [Next]_vars, IndexStep, BaseInv'
  PROVE  MissingSessionsCanReturn'
  <1> SUFFICES ASSUME NEW e \in Sessions, row'[e] # NoRow, row'[e].missing,
                      checkpoint'[FileOf[e]] = version'[FileOf[e]],
                      e \in Holds[FileOf[e]][version'[FileOf[e]]], FileOf[e] \notin doubtful'
               PROVE  worker'.at = "forget" /\ worker'.file = FileOf[e]
    BY DEF MissingSessionsCanReturn
  <1> DEFINE f == FileOf[e]
  <1>0. f \in Files /\ worker \in Workers /\ row \in [Sessions -> Rows \cup {NoRow}]
    BY IndexAssumption DEF BaseInv, JobTypes, IndexTypeOK
  <1> HIDE DEF f
  <1>3. /\ version[f] \in Nat /\ version'[f] \in Nat /\ version[f] > 0 /\ version[f] <= version'[f]
        /\ \/ checkpoint'[f] \in {checkpoint[f], 0}
           \/ /\ worker.at = "finish" /\ worker.file = f /\ enabled[SourceOf[f]]
              /\ FinishFile(f, worker.fingerprint, worker.ids) /\ checkpoint'[f] = worker.fingerprint
    BY <1>0, CheckpointMoves
  <1>1. checkpoint'[f] = version'[f] /\ e \in Holds[f][version'[f]] /\ f \notin doubtful'
    BY DEF f
  <1>2. f \notin doubtful \/ checkpoint[f] # version[f]
    <2>1. ~ RebuildForget
      BY <1>0, <1>1, <1>3 DEF RebuildForget
    <2> QED BY <1>1, <2>1, HistoryMoves DEF DoubtMoves
  <1>4. CASE /\ worker.at = "finish" /\ worker.file = f
             /\ FinishFile(f, worker.fingerprint, worker.ids) /\ checkpoint'[f] = worker.fingerprint
    <2>1. version' = version
      BY <1>4 DEF FinishFile
    <2>2. worker.content = version[f]
      <3>1. worker.content \in worker.fingerprint .. version[f] /\ worker.fingerprint = version[f]
        BY <1>1, <1>4, <2>1 DEF BaseInv, FileFits
      <3> QED BY <1>3, <3>1
    <2>3. e \in worker.ids
      BY <1>1, <1>4, <2>1, <2>2 DEF BaseInv, FileFits
    <2>4. row[e] # NoRow /\ row'[e] = [row[e] EXCEPT !.missing = e \notin worker.ids]
      BY <1>4 DEF FinishFile, f
    <2>5. row[e] \in Rows
      BY <1>0, <2>4
    <2>6. row'[e].missing = (e \notin worker.ids)
      BY <2>4, <2>5 DEF Rows
    <2> QED BY <2>3, <2>6
  <1>5. CASE checkpoint'[f] \in {checkpoint[f], 0}
    <2>1. checkpoint[f] = version[f] /\ version'[f] = version[f]
      <3>1. checkpoint[f] <= version[f] /\ checkpoint[f] \in Nat
        <4>1. MaxVersion \in Nat
          BY IndexAssumption
        <4> QED BY <1>0, <4>1 DEF BaseInv, FileFits, IndexTypeOK
      <3> QED BY <1>1, <1>3, <1>5, <3>1
    <2>2. worker.at \in {"read", "sessions", "finish"} => worker.file # f
      <3>1. Reading => /\ worker.fingerprint \in 1 .. version[worker.file]
                       /\ checkpoint[worker.file] < worker.fingerprint
        BY DEF BaseInv, FileFits
      <3> QED BY <1>3, <2>1, <3>1 DEF Reading
    <2>3. ASSUME row[e] # NoRow, row[e].missing PROVE worker'.at = "forget" /\ worker'.file = f
      <3>1. worker.at = "forget" /\ worker.file = f
        BY <1>1, <1>2, <2>1, <2>3 DEF MissingSessionsCanReturn, f
      <3>2. ~ (ForgetFile(worker.file) /\ UNCHANGED version)
        <4> SUFFICES ASSUME ForgetFile(worker.file) PROVE FALSE
          OBVIOUS
        <4>1. checkpoint'[f] = 0
          BY <1>0, <3>1 DEF ForgetFile, BaseInv, IndexTypeOK
        <4> QED BY <1>1, <1>3, <4>1
      <3> QED BY <1>0, <1>1, <3>1, <3>2, ForgettingGoesOn
    <2>4. CASE IngestPublish
      <3>1. ingest # NoIngest /\ worker.at = "sessions" /\ FileOf[ingest.session] = worker.file
        BY <2>4, RowsArePublished DEF BaseInv, IngestsAreOfTheFile
      <3>2. e # ingest.session
        BY <2>2, <3>1 DEF f
      <3>3. row'[e] = row[e]
        BY <2>4, <3>2, RowsArePublished
      <3> QED BY <2>3, <3>3 DEF f
    <2>5. CASE ~ IngestPublish
      <3>1. \/ row[e] # NoRow /\ row[e].missing
            \/ MissSession(e)
            \/ worker.at = "finish" /\ FileOf[e] = worker.file
        BY <2>5, RowsAreKept DEF OldRow
      <3>2. ASSUME MissSession(e) PROVE worker'.at = "forget" /\ worker'.file = f
        BY <1>0, <3>2 DEF MissSession, Workers, f
      <3> QED BY <2>2, <2>3, <3>1, <3>2 DEF f
    <2> QED BY <2>4, <2>5
  <1> QED BY <1>3, <1>4, <1>5

\* A session that was marked as missing is read again when its file is back
\* (finish_session_source in core/sessions.rs), unless the job ended between its
\* statements for the session and for the file.
THEOREM MissingReturn == Spec => []MissingSessionsCanReturn
  <1>1. Init => MissingSessionsCanReturn
    BY DEF Init, IndexInit, MissingSessionsCanReturn
  <1>2. BaseInv /\ MissingSessionsCanReturn /\ [Next]_vars /\ BaseInv' => MissingSessionsCanReturn'
    BY IndexSteps, MissingStay
  <1> QED BY <1>1, <1>2, BaseInvariant, PTL DEF Spec
=============================================================================
