---------------------------- MODULE SessionIndex -----------------------------
(***************************************************************************)
(* The index of agent sessions (core/sessions.rs).  The main database has  *)
(* the authorised sources, one row per session with the revision that is   *)
(* published, and a checkpoint per finished file; a second database has    *)
(* the documents of every revision.  No transaction spans the two.         *)
(*                                                                         *)
(* A background worker ingests sessions over a connection of its own while *)
(* the desktop's commands, which share Mutex<Core>, enable, revoke, link   *)
(* and rebuild.  The histories belong to other programs, which change them *)
(* at any time.                                                            *)
(***************************************************************************)
EXTENDS Naturals, FiniteSets

CONSTANTS
  Sources, Files, SourceOf,  \* SourceOf[f] is the source that file f lies in
  Sessions, FileOf,          \* FileOf[e] is the file that holds session e
  MaxVersion,                \* bound: versions of a file
  Holds,                     \* Holds[f][v] are the sessions in version v of f
  MaxRevisions,              \* bound: revisions that are ever given out
  WritesMayFail,             \* SQLite statements may fail (busy)
  NoRow, NoSource

Versions == 1 .. MaxVersion

ASSUME IndexAssumption ==
  /\ SourceOf \in [Files -> Sources]
  /\ FileOf \in [Sessions -> Files]
  /\ MaxVersion \in Nat \ {0}
  /\ MaxRevisions \in Nat
  /\ Holds \in [Files -> [Versions -> SUBSET Sessions]]
  /\ \A f \in Files, v \in Versions : \A e \in Holds[f][v] : FileOf[e] = f
  /\ WritesMayFail \in BOOLEAN
  /\ NoSource \notin Sources

VARIABLES
  version,     \* the fingerprint of every file
  present,     \* the files that exist
  enabled,     \* agent_session_sources.enabled
  row,         \* agent_sessions
  checkpoint,  \* agent_session_files: the version finished last; 0 is none
  docs,        \* the complete revisions in session-index.sqlite
  revisions,   \* revisions given out so far (fresh UUIDs)
  ingest,      \* the session that the worker is ingesting
  revoking,    \* the source that set_session_source is deleting documents of
  rebuilding   \* where rebuild_session_index is

indexVars == <<version, present, enabled, row, checkpoint, docs, revisions,
               ingest, revoking, rebuilding>>

SourceFor(e) == SourceOf[FileOf[e]]

\* revision 0 is the empty one, which no reader sees.
Revisions == 0 .. MaxRevisions
Rows == [id : Revisions, revision : Revisions, content : Versions,
         missing : BOOLEAN, manual : BOOLEAN, project : {"matched", "chosen"}]

\* NoRow stands for a session without a row.
ASSUME NoRowAssumption == NoRow \notin Rows

Documents == [id : Revisions, revision : Revisions, source : Sources]

\* writing: the worker holds the index's write lock.
IngestPlaces == {"begun", "writing", "indexed", "published"}
Ingests == [at : IngestPlaces, session : Sessions, id : Revisions, revision : Revisions,
            content : Versions, manual : BOOLEAN, kept : BOOLEAN]
NoIngest == [at |-> "idle"]

Document == [id |-> ingest.id, revision |-> ingest.revision, source |-> SourceFor(ingest.session)]

\* No command holds the desktop's Core mutex.
CoreFree == revoking = NoSource /\ rebuilding = "idle"

IndexInit ==
  /\ version = [f \in Files |-> 1]
  /\ present = Files
  /\ enabled = [s \in Sources |-> FALSE]
  /\ row = [e \in Sessions |-> NoRow]
  /\ checkpoint = [f \in Files |-> 0]
  /\ docs = {}
  /\ revisions = 0
  /\ ingest = NoIngest
  /\ revoking = NoSource
  /\ rebuilding = "idle"

-----------------------------------------------------------------------------
\* The programs that own the histories

EditFile(f) ==
  /\ version[f] < MaxVersion
  /\ version' = [version EXCEPT ![f] = @ + 1]
  /\ UNCHANGED <<present, enabled, row, checkpoint, docs, revisions, ingest, revoking, rebuilding>>

\* A file is moved away, or back, and keeps its fingerprint.
MoveFile(f) ==
  /\ present' = IF f \in present THEN present \ {f} ELSE present \cup {f}
  /\ UNCHANGED <<version, enabled, row, checkpoint, docs, revisions, ingest, revoking, rebuilding>>

-----------------------------------------------------------------------------
\* Commands of the desktop

Enable(s) ==
  /\ CoreFree
  /\ ~ enabled[s]
  /\ enabled' = [enabled EXCEPT ![s] = TRUE]
  /\ UNCHANGED <<version, present, row, checkpoint, docs, revisions, ingest, revoking, rebuilding>>

\* The authorisation is withdrawn first, with the rows and the checkpoints ...
Revoke(s) ==
  /\ CoreFree
  /\ enabled[s]
  /\ enabled' = [enabled EXCEPT ![s] = FALSE]
  /\ row' = [e \in Sessions |-> IF SourceFor(e) = s THEN NoRow ELSE row[e]]
  /\ checkpoint' = [f \in Files |-> IF SourceOf[f] = s THEN 0 ELSE checkpoint[f]]
  /\ revoking' = s
  /\ UNCHANGED <<version, present, docs, revisions, ingest, rebuilding>>

\* ... then the documents go, as soon as the index can be written.
DeleteDocuments ==
  /\ revoking # NoSource
  /\ \/ ingest.at # "writing" /\ docs' = {d \in docs : d.source # revoking}
     \/ WritesMayFail /\ UNCHANGED docs
  /\ revoking' = NoSource
  /\ UNCHANGED <<version, present, enabled, row, checkpoint, revisions, ingest, rebuilding>>

\* link_agent_session, on a session that can be read.
Link(e) ==
  /\ CoreFree
  /\ row[e] # NoRow
  /\ enabled[SourceFor(e)]
  /\ row[e].revision # 0
  /\ row' = [row EXCEPT ![e].manual = TRUE, ![e].project = "chosen"]
  /\ UNCHANGED <<version, present, enabled, checkpoint, docs, revisions, ingest, revoking, rebuilding>>

\* rebuild_session_index: the index files are removed, then the revisions and
\* the checkpoints are forgotten, each by a statement of its own.
RebuildRemove ==
  /\ CoreFree
  /\ docs' = {}
  /\ rebuilding' = "removed"
  /\ UNCHANGED <<version, present, enabled, row, checkpoint, revisions, ingest, revoking>>

RebuildUnpublish ==
  /\ rebuilding = "removed"
  /\ row' = [e \in Sessions |-> IF row[e] = NoRow THEN NoRow ELSE [row[e] EXCEPT !.revision = 0]]
  /\ rebuilding' = "unpublished"
  /\ UNCHANGED <<version, present, enabled, checkpoint, docs, revisions, ingest, revoking>>

RebuildForget ==
  /\ rebuilding = "unpublished"
  /\ checkpoint' = [f \in Files |-> 0]
  /\ rebuilding' = "idle"
  /\ UNCHANGED <<version, present, enabled, row, docs, revisions, ingest, revoking>>

\* The next statement fails: the command ends with what it did so far.
RebuildFail ==
  /\ WritesMayFail
  /\ rebuilding # "idle"
  /\ rebuilding' = "idle"
  /\ UNCHANGED <<version, present, enabled, row, checkpoint, docs, revisions, ingest, revoking>>

-----------------------------------------------------------------------------
\* ingest_session_cancelable, called with content v of session e

\* The source must be enabled; an existing row keeps its id, and its link.
IngestBegin(e, v) ==
  /\ ingest = NoIngest
  /\ enabled[SourceFor(e)]
  /\ revisions < MaxRevisions
  /\ revisions' = revisions + 1
  /\ ingest' = [at |-> "begun", session |-> e, revision |-> revisions + 1, content |-> v,
                id |-> IF row[e] = NoRow THEN revisions + 1 ELSE row[e].id,
                manual |-> row[e] # NoRow /\ row[e].manual, kept |-> FALSE]
  /\ UNCHANGED <<version, present, enabled, row, checkpoint, docs, revoking, rebuilding>>

\* The documents are inserted under the index's write lock.
IngestWrite ==
  /\ ingest.at = "begun"
  /\ ingest' = [ingest EXCEPT !.at = "writing"]
  /\ UNCHANGED <<version, present, enabled, row, checkpoint, docs, revisions, revoking, rebuilding>>

IngestCommit ==
  /\ ingest.at = "writing"
  /\ docs' = docs \cup {Document}
  /\ ingest' = [ingest EXCEPT !.at = "indexed"]
  /\ UNCHANGED <<version, present, enabled, row, checkpoint, revisions, revoking, rebuilding>>

\* The row of this id, as it is when the revision is published.
Linked == row[ingest.session] # NoRow /\ row[ingest.session].manual

\* Mutant of Association: the link that was read before indexing.
EarlierAssociation == IF ingest.manual THEN "chosen" ELSE "matched"

\* A link made while indexing wins over the earlier match.
Association == IF Linked \/ ingest.manual THEN "chosen" ELSE "matched"

\* INSERT ... ON CONFLICT(id) DO UPDATE: an existing row keeps its manual mark.
PublishedRow ==
  [row EXCEPT ![ingest.session] =
     [id |-> ingest.id, revision |-> ingest.revision, content |-> ingest.content,
      missing |-> FALSE, project |-> Association,
      manual |-> IF @ = NoRow THEN ingest.manual ELSE @.manual]]

\* Mutant of IngestPublish: the source's authorisation is not looked at again.
IngestPublishAnyway ==
  /\ ingest.at = "indexed"
  /\ row' = PublishedRow
  /\ ingest' = [ingest EXCEPT !.at = "published", !.kept = TRUE]
  /\ UNCHANGED <<version, present, enabled, checkpoint, docs, revisions, revoking, rebuilding>>

\* The revision is published if the source is still, or again, enabled.
IngestPublish ==
  /\ ingest.at = "indexed"
  /\ row' = IF enabled[SourceFor(ingest.session)] THEN PublishedRow ELSE row
  /\ ingest' = [ingest EXCEPT !.at = "published", !.kept = enabled[SourceFor(ingest.session)]]
  /\ UNCHANGED <<version, present, enabled, checkpoint, docs, revisions, revoking, rebuilding>>

\* The documents that the ingestion leaves behind.
Stale(d) == d.id = ingest.id /\ (d.revision # ingest.revision \/ ~ ingest.kept)

IngestClean ==
  /\ ingest.at = "published"
  /\ docs' = {d \in docs : ~ Stale(d)}
  /\ ingest' = NoIngest
  /\ UNCHANGED <<version, present, enabled, row, checkpoint, revisions, revoking, rebuilding>>

\* An error, or a cancellation, ends the ingestion where it is; documents that
\* are not committed are rolled back.
IngestStop ==
  /\ ingest # NoIngest
  /\ ingest' = NoIngest
  /\ UNCHANGED <<version, present, enabled, row, checkpoint, docs, revisions, revoking, rebuilding>>

-----------------------------------------------------------------------------
\* The end of a file and of a source

\* finish_session_file(f, fingerprint v, the sessions that were ingested)
FinishFile(f, v, ids) ==
  /\ row' = [e \in Sessions |-> IF row[e] # NoRow /\ FileOf[e] = f
               THEN [row[e] EXCEPT !.missing = e \notin ids] ELSE row[e]]
  /\ checkpoint' = [checkpoint EXCEPT ![f] = IF enabled[SourceOf[f]] THEN v ELSE @]
  /\ UNCHANGED <<version, present, enabled, docs, revisions, ingest, revoking, rebuilding>>

\* finish_session_source, on the session of a file that was not seen.
MarkMissing(e) ==
  /\ row[e] # NoRow
  /\ row' = [row EXCEPT ![e].missing = TRUE]
  /\ UNCHANGED <<version, present, enabled, checkpoint, docs, revisions, ingest, revoking, rebuilding>>

ForgetFile(f) ==
  /\ checkpoint' = [checkpoint EXCEPT ![f] = 0]
  /\ UNCHANGED <<version, present, enabled, row, docs, revisions, ingest, revoking, rebuilding>>

-----------------------------------------------------------------------------
IndexTypeOK ==
  /\ version \in [Files -> Versions]
  /\ present \in SUBSET Files
  /\ enabled \in [Sources -> BOOLEAN]
  /\ row \in [Sessions -> Rows \cup {NoRow}]
  /\ checkpoint \in [Files -> 0 .. MaxVersion]
  /\ docs \in SUBSET Documents
  /\ revisions \in Revisions
  /\ ingest \in Ingests \cup {NoIngest}
  /\ revoking \in Sources \cup {NoSource}
  /\ rebuilding \in {"idle", "removed", "unpublished"}

\* A session that a reader can find.
Published(e) == row[e] # NoRow /\ row[e].revision # 0

Indexed(e) == [id |-> row[e].id, revision |-> row[e].revision, source |-> SourceFor(e)] \in docs

\* A source that is not authorised has neither rows nor checkpoints, although
\* the worker goes on for a while with what it read before the revocation.
RevokedSourcesKeepNothing ==
  \A s \in Sources : ~ enabled[s] =>
    /\ \A e \in Sessions : SourceFor(e) = s => row[e] = NoRow
    /\ \A f \in Files : SourceOf[f] = s => checkpoint[f] = 0

\* The project that a user chose for a session is never replaced by a match
\* that the worker computed before the choice.
ManualAssociationsWin ==
  \A e \in Sessions : row[e] # NoRow /\ row[e].manual => row[e].project = "chosen"
=============================================================================
