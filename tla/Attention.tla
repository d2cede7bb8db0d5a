----------------------------- MODULE Attention -----------------------------
(***************************************************************************)
(* Attention items (repoatlas-core::core).  Items are not stored: each     *)
(* read derives them from unavailable projects, failed runs, environment   *)
(* observations and failed audit events, and leaves out those whose        *)
(* present version was acknowledged.  The version of an item is a stamp of *)
(* its source, or a fingerprint of what was observed.                      *)
(*                                                                         *)
(* One project, one run.  A stamp is a number of the clock, which counts   *)
(* the writes that leave stamps: no two of them fall into one second.      *)
(***************************************************************************)
EXTENDS Naturals, FiniteSets, Sequences, SequencesExt

CONSTANTS Mismatches,     \* environment conditions, each with its fingerprint
          MaxClock,       \* bound on stamped writes
          AuditWindow     \* audit events an attention read looks at

ASSUME AttentionAssumption == MaxClock \in Nat /\ AuditWindow \in Nat \ {0}

NoMismatch == "none"

VARIABLES stamp,        \* the clock
          checkout,     \* the project's row
          lastRun,      \* the run's row
          observation,  \* the environment observation
          audits,       \* audit events, the latest first
          acknowledged, \* attention_acknowledgements
          view,         \* items a window shows
          vanished      \* history: the project vanished, not acknowledged since

attentionVars == <<stamp, checkout, lastRun, observation, audits, acknowledged, view, vanished>>
sources == <<checkout, lastRun, observation>>

AttentionInit ==
    /\ stamp = 0
    /\ checkout = [available |-> TRUE, updated |-> 0]
    /\ lastRun = [status |-> "running", finished |-> 0]
    /\ observation = NoMismatch
    /\ audits = <<>>
    /\ acknowledged = {}
    /\ view = {}
    /\ vanished = FALSE

Now == stamp + 1
Passes == stamp < MaxClock /\ stamp' = Now

-----------------------------------------------------------------------------
\* record_audit_event.  Older events are beyond every window.
WithAudit(failed) == SubSeq(<<[at |-> Now, failed |-> failed]>> \o audits, 1,
                            IF Len(audits) < AuditWindow THEN Len(audits) + 1 ELSE AuditWindow)

\* finalize_folder_scan_ingest and refresh_project find the directory gone.
\* A scan stamps the row again although it was unavailable before.
ProjectVanishes ==
    /\ Passes
    /\ checkout' = [available |-> FALSE, updated |-> Now]
    /\ vanished' = (vanished \/ checkout.available)
    /\ UNCHANGED <<lastRun, observation, audits, acknowledged, view>>

ProjectReturns ==
    /\ Passes /\ ~checkout.available
    /\ checkout' = [available |-> TRUE, updated |-> Now]
    /\ UNCHANGED <<lastRun, observation, audits, acknowledged, view, vanished>>

\* An edit of its name, tags or tasks, or of its icon.
ProjectEdited ==
    /\ Passes
    /\ checkout' = [checkout EXCEPT !.updated = Now]
    /\ UNCHANGED <<lastRun, observation, audits, acknowledged, view, vanished>>

RunFails ==
    /\ Passes /\ lastRun.status = "running"
    /\ lastRun' = [status |-> "failed", finished |-> Now]
    /\ UNCHANGED <<checkout, observation, audits, acknowledged, view, vanished>>

\* persist_environment_observation: the version is the fingerprint of the
\* mismatches alone.
RecordInspection(condition) ==
    /\ observation' = condition
    /\ UNCHANGED <<stamp, checkout, lastRun, audits, acknowledged, view, vanished>>

\* Some operation is audited.
Audited(failed) ==
    /\ Passes
    /\ audits' = WithAudit(failed)
    /\ UNCHANGED <<sources, acknowledged, view, vanished>>

-----------------------------------------------------------------------------
\* list_attention_items.
Item(kind, id, version) == [kind |-> kind, id |-> id, version |-> version]

ItemIf(condition, item) == IF condition THEN {item} ELSE {}

Derived ==
    ItemIf(~checkout.available, Item("project_unavailable", 0, checkout.updated))
    \cup ItemIf(lastRun.status = "failed", Item("task_failed", 0, lastRun.finished))
    \cup ItemIf(observation # NoMismatch, Item("environment_mismatch", 0, observation))
    \cup {Item("system_failure", e.at, e.at) : e \in {a \in ToSet(audits) : a.failed}}

\* Mutant of AttentionItems: acknowledgements are joined by item alone.
AttentionItemsByName ==
    {item \in Derived : \A a \in acknowledged : <<a.kind, a.id>> # <<item.kind, item.id>>}

AttentionItems == Derived \ acknowledged

ReadAttention ==
    /\ view' = AttentionItems
    /\ UNCHANGED <<stamp, sources, audits, acknowledged, vanished>>

\* acknowledge_attention_item: the version the window shows must be current
\* when the items are listed; the acknowledgement and its audit event are
\* one transaction.
AcknowledgeItem(item) ==
    /\ item \in view /\ item \in AttentionItems
    /\ Passes
    /\ acknowledged' = acknowledged \cup {item}
    /\ audits' = WithAudit(FALSE)
    /\ view' = view \ {item}
    /\ vanished' = (vanished /\ item.kind # "project_unavailable")
    /\ UNCHANGED sources

AttentionNext ==
    \/ ProjectVanishes \/ ProjectReturns \/ ProjectEdited \/ RunFails
    \/ \E condition \in Mismatches \cup {NoMismatch} : RecordInspection(condition)
    \/ \E failed \in BOOLEAN : Audited(failed)
    \/ ReadAttention \/ \E item \in view : AcknowledgeItem(item)

AttentionSpec == AttentionInit /\ [][AttentionNext]_attentionVars

-----------------------------------------------------------------------------
\* A project that is unavailable again after it had returned is shown again:
\* what was acknowledged before it returned hides nothing, in whatever order
\* scans, edits, other acknowledgements and stale windows followed.
VanishedProjectsAreShown ==
    (\E item \in Derived \ AttentionItems : item.kind = "project_unavailable") => ~vanished
=============================================================================
