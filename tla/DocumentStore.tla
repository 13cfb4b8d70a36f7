--------------------------- MODULE DocumentStore ---------------------------
(***************************************************************************)
(* The versioned document store of OpenJson: json_documents, its           *)
(* append-only document_events log and the compacted document_snapshots of *)
(* one project, and the transactions of app/document_service.py and        *)
(* app/snapshot_compaction_service.py on them.                             *)
(*                                                                         *)
(* Every write runs in one BEGIN IMMEDIATE transaction: it commits whole   *)
(* or, on any error, rolls back whole.  An action is the accepted call;    *)
(* its guard is every check the call makes; a refused call changes nothing *)
(* and is no step.                                                         *)
(***************************************************************************)
EXTENDS Naturals, FiniteSets, FiniteSetsExt, Permissions

CONSTANTS
    Actor,          \* users; each is a client that loads and saves
    RoleOf,         \* project_members: the role of each actor
    DocumentId,     \* ids that _new_id("doc") may draw
    Path,           \* full paths in the project
    SchemaId,       \* the project's schemas: immutable once created
    NoSchema,       \* schema_id NULL
    Content,        \* canonical JSON documents
    None,           \* Python's None: the state before the create event
    Raised,         \* an operation that raises
    Patches,        \* the patches clients send
    MaxDocuments,   \* OPENJSON_MAX_PROJECT_DOCUMENTS
    MaxBytes,       \* OPENJSON_MAX_PROJECT_SNAPSHOT_BYTES
    MaxVersion,     \* bound on the versions of one document
    MaxEvents       \* bound on the events of the project

CONSTANTS
    AddRoot(_),             \* the patch of a create event
    ReplaceRoot(_),         \* the patch of a rollback event
    NoPatch,                \* the patch [] of delete and restore events
    Patched(_, _),          \* apply_patch(state, patch).document, or Raised
    GeneratedPatch(_, _),   \* the patch generated for a full-content save
    MergedContent(_, _, _), \* the content a stale save merges to, or Raised
    Same(_, _),             \* Python's == on decoded JSON
    Valid(_, _),            \* schema, content: the content validates
    Size(_)                 \* bytes of the stored content

ASSUME ActorAssumption == RoleOf \in [Actor -> Role]

ASSUME SchemaAssumption == NoSchema \notin SchemaId

ASSUME BoundAssumption ==
    MaxDocuments \in Nat /\ MaxBytes \in Nat /\ MaxVersion \in Nat /\ MaxEvents \in Nat

ASSUME ContentAssumption ==
    /\ None \notin Content
    /\ Raised \notin Content
    /\ \A c \in Content : Size(c) \in Nat /\ Same(c, c)

\* Root operations ignore what they replace; an empty patch is refused.
ASSUME PatchAssumption ==
    \A c \in Content :
        /\ AddRoot(c) # NoPatch /\ ReplaceRoot(c) # NoPatch
        /\ Patched(None, AddRoot(c)) = c
        /\ \A s \in Content : Patched(s, ReplaceRoot(c)) = c
        /\ Patched(c, NoPatch) = Raised

VARIABLES
    full_path,          \* json_documents, one function per column
    current_version,    \* 0: no row
    current_snapshot,
    schema_id,
    deleted,            \* deleted_at IS NOT NULL
    document_events,    \* the event log: a set of rows
    document_snapshots, \* the compacted snapshots: a set of rows
    loaded              \* what each client last loaded into its editor

documents == <<full_path, current_version, current_snapshot, schema_id, deleted>>
vars == <<documents, document_events, document_snapshots, loaded>>

-----------------------------------------------------------------------------
Exists(d) == current_version[d] > 0
Active(d) == Exists(d) /\ ~deleted[d]

EventsOf(d) == { e \in document_events : e.document_id = d }

\* The event of a document's log that produced a version.
EventIn(log, v) == CHOOSE e \in log : e.result_version = v
EventAt(d, v) == EventIn(EventsOf(d), v)

\* One turn of replay_events: an empty patch is skipped.
ReplayEvent(state, event) ==
    IF event.patch = NoPatch THEN state ELSE Patched(state, event.patch)

\* replay_events over a document's log, from a version whose state is known.
ReplayLog(log, state, from, to) ==
    LET replayed[v \in from..to] ==
            IF v = from THEN state ELSE ReplayEvent(replayed[v - 1], EventIn(log, v))
    IN  replayed[to]

Replay(d, v) == ReplayLog(EventsOf(d), None, 0, v)

SnapshotsUpTo(d, v) ==
    { s \in document_snapshots : s.document_id = d /\ s.version <= v }

\* reconstruct_document_at_version_with_compaction: from the nearest compacted
\* snapshot at or before the version, when there is one.
ReconstructWithCompaction(d, v) ==
    IF SnapshotsUpTo(d, v) = {} THEN Replay(d, v)
    ELSE LET nearest == CHOOSE s \in SnapshotsUpTo(d, v) :
                            \A t \in SnapshotsUpTo(d, v) : t.version <= s.version
         IN  ReplayLog(EventsOf(d), nearest.snapshot, nearest.version, v)

ActiveDocuments == { d \in DocumentId : Active(d) }

\* The bytes of these documents' contents.
Bytes(snapshots, S) == MapThenSumSet(LAMBDA d : Size(snapshots[d]), S)

\* ensure_project_usage_allows_snapshot: the active documents' count and bytes
\* after the write, the document being replaced (if any) counted at its new size.
UsageAllows(replaced, content, added) ==
    /\ Cardinality(ActiveDocuments) + added <= MaxDocuments
    /\ Bytes(current_snapshot, ActiveDocuments \ replaced) + Size(content) <= MaxBytes

SchemaAllows(schema, content) == schema = NoSchema \/ Valid(schema, content)

\* _insert_event with the unique index on (document_id, result_version).
InsertEvent(d, type, base, patch) ==
    /\ Cardinality(document_events) < MaxEvents
    /\ base < MaxVersion
    /\ \A e \in EventsOf(d) : e.result_version # base + 1
    /\ document_events' = document_events \cup
        {[ document_id |-> d, event_type |-> type, base_version |-> base,
           result_version |-> base + 1, patch |-> patch ]}

May(a, permission) == HasPermission(RoleOf[a], permission)

PathFree(p) == \A d \in DocumentId : Active(d) => full_path[d] # p

-----------------------------------------------------------------------------
Init ==
    /\ full_path = [d \in DocumentId |-> None]
    /\ current_version = [d \in DocumentId |-> 0]
    /\ current_snapshot = [d \in DocumentId |-> None]
    /\ schema_id = [d \in DocumentId |-> NoSchema]
    /\ deleted = [d \in DocumentId |-> FALSE]
    /\ document_events = {}
    /\ document_snapshots = {}
    /\ loaded = [a \in Actor |-> None]

\* create_document with a fresh id: the schema is the one given or matched by
\* path, and the active-path index refuses a path in use.
CreateDocument(a, d, p, schema, content) ==
    /\ May(a, "document:write")
    /\ ~Exists(d)
    /\ SchemaAllows(schema, content)
    /\ UsageAllows({}, content, 1)
    /\ PathFree(p)
    /\ InsertEvent(d, "create", 0, AddRoot(content))
    /\ full_path' = [full_path EXCEPT ![d] = p]
    /\ current_version' = [current_version EXCEPT ![d] = 1]
    /\ current_snapshot' = [current_snapshot EXCEPT ![d] = content]
    /\ schema_id' = [schema_id EXCEPT ![d] = schema]
    /\ UNCHANGED <<deleted, document_snapshots, loaded>>

\* Mutant of ApplyDocumentPatch: the schema is checked at creation only.
ApplyWithoutSchema(d, base, patch) ==
    LET next == Patched(current_snapshot[d], patch)
    IN  /\ base = current_version[d]
        /\ next \in Content
        /\ ~Same(next, current_snapshot[d])
        /\ UsageAllows({d}, next, 0)
        /\ InsertEvent(d, "update", base, patch)
        /\ current_snapshot' = [current_snapshot EXCEPT ![d] = next]
        /\ current_version' = [current_version EXCEPT ![d] = base + 1]
        /\ UNCHANGED <<full_path, schema_id, deleted, document_snapshots, loaded>>

\* apply_document_patch_in_transaction: the pipeline every update goes through.
ApplyDocumentPatch(d, base, patch) ==
    LET next == Patched(current_snapshot[d], patch)
    IN  /\ base = current_version[d]
        /\ next \in Content
        /\ ~Same(next, current_snapshot[d])
        /\ SchemaAllows(schema_id[d], next)
        /\ UsageAllows({d}, next, 0)
        /\ InsertEvent(d, "update", base, patch)
        /\ current_snapshot' = [current_snapshot EXCEPT ![d] = next]
        /\ current_version' = [current_version EXCEPT ![d] = base + 1]
        /\ UNCHANGED <<full_path, schema_id, deleted, document_snapshots, loaded>>

\* Mutant of PatchDocument: a deleted document can be patched.
PatchEvenDeleted(a, d, base, patch) ==
    /\ May(a, "document:write")
    /\ Exists(d)
    /\ ApplyDocumentPatch(d, base, patch)

PatchDocument(a, d, base, patch) ==
    /\ May(a, "document:write")
    /\ Active(d)
    /\ ApplyDocumentPatch(d, base, patch)

\* update_document_content, up to date or with merge_strategy "reject".
UpdateContent(a, d, base, content) ==
    /\ May(a, "document:write")
    /\ Active(d)
    /\ base = current_version[d]
    /\ ~Same(content, current_snapshot[d])
    /\ ApplyDocumentPatch(d, base, GeneratedPatch(current_snapshot[d], content))

\* update_document_content with a stale base and merge_strategy "auto".
UpdateContentAuto(a, d, base, content) ==
    LET merged == MergedContent(Replay(d, base), current_snapshot[d], content)
    IN  /\ May(a, "document:write")
        /\ Active(d)
        /\ base \in 1..(current_version[d] - 1)
        /\ Same(Replay(d, current_version[d]), current_snapshot[d])
        /\ merged # Raised
        /\ ApplyDocumentPatch(d, current_version[d], GeneratedPatch(current_snapshot[d], merged))

\* A mutant of DeleteDocument: the version stays.
DeleteKeepsVersion(a, d, base) ==
    /\ May(a, "document:delete")
    /\ Active(d)
    /\ base = current_version[d]
    /\ InsertEvent(d, "delete", base, NoPatch)
    /\ deleted' = [deleted EXCEPT ![d] = TRUE]
    /\ UNCHANGED <<full_path, current_version, current_snapshot, schema_id,
                   document_snapshots, loaded>>

\* delete_document: soft, the content stays.
DeleteDocument(a, d, base) ==
    /\ May(a, "document:delete")
    /\ Active(d)
    /\ base = current_version[d]
    /\ InsertEvent(d, "delete", base, NoPatch)
    /\ current_version' = [current_version EXCEPT ![d] = base + 1]
    /\ deleted' = [deleted EXCEPT ![d] = TRUE]
    /\ UNCHANGED <<full_path, current_snapshot, schema_id, document_snapshots, loaded>>

\* Mutants of RestoreDocument: the path is not looked at; the limits are not.
RestoreOverPath(a, d, base) ==
    /\ May(a, "document:restore")
    /\ Exists(d) /\ deleted[d]
    /\ base = current_version[d]
    /\ UsageAllows({}, current_snapshot[d], 1)
    /\ InsertEvent(d, "restore", base, NoPatch)
    /\ current_version' = [current_version EXCEPT ![d] = base + 1]
    /\ deleted' = [deleted EXCEPT ![d] = FALSE]
    /\ UNCHANGED <<full_path, current_snapshot, schema_id, document_snapshots, loaded>>

RestoreOverLimit(a, d, base) ==
    /\ May(a, "document:restore")
    /\ Exists(d) /\ deleted[d]
    /\ base = current_version[d]
    /\ PathFree(full_path[d])
    /\ InsertEvent(d, "restore", base, NoPatch)
    /\ current_version' = [current_version EXCEPT ![d] = base + 1]
    /\ deleted' = [deleted EXCEPT ![d] = FALSE]
    /\ UNCHANGED <<full_path, current_snapshot, schema_id, document_snapshots, loaded>>

\* restore_document: the path may have been taken meanwhile, and the content
\* counts against the limits again.
RestoreDocument(a, d, base) ==
    /\ May(a, "document:restore")
    /\ Exists(d)
    /\ base = current_version[d]
    /\ deleted[d]
    /\ PathFree(full_path[d])
    /\ SchemaAllows(schema_id[d], current_snapshot[d])
    /\ UsageAllows({}, current_snapshot[d], 1)
    /\ InsertEvent(d, "restore", base, NoPatch)
    /\ current_version' = [current_version EXCEPT ![d] = base + 1]
    /\ deleted' = [deleted EXCEPT ![d] = FALSE]
    /\ UNCHANGED <<full_path, current_snapshot, schema_id, document_snapshots, loaded>>

\* Mutants of RollbackDocument: its event has no patch, as a restore's; history is
\* rewound to the target instead of a version added.
RollbackWithoutPatch(a, d, base, target) ==
    LET content == Replay(d, target)
    IN  /\ Active(d)
        /\ base = current_version[d]
        /\ target \in 1..(base - 1)
        /\ SchemaAllows(schema_id[d], content)
        /\ UsageAllows({d}, content, 0)
        /\ InsertEvent(d, "rollback", base, NoPatch)
        /\ current_snapshot' = [current_snapshot EXCEPT ![d] = content]
        /\ current_version' = [current_version EXCEPT ![d] = base + 1]
        /\ UNCHANGED <<full_path, schema_id, deleted, document_snapshots, loaded>>

RollbackRewinds(a, d, base, target) ==
    /\ Active(d)
    /\ base = current_version[d]
    /\ target \in 1..(base - 1)
    /\ UsageAllows({d}, Replay(d, target), 0)
    /\ document_events' = { e \in document_events :
                                e.document_id = d => e.result_version <= target }
    /\ current_snapshot' = [current_snapshot EXCEPT ![d] = Replay(d, target)]
    /\ current_version' = [current_version EXCEPT ![d] = target]
    /\ UNCHANGED <<full_path, schema_id, deleted, document_snapshots, loaded>>

\* rollback_document: a new version with the replayed content of an older one.
RollbackDocument(a, d, base, target) ==
    LET content == Replay(d, target)
    IN  /\ May(a, "document:rollback")
        /\ Active(d)
        /\ base = current_version[d]
        /\ target \in 1..(base - 1)
        /\ content \in Content
        /\ SchemaAllows(schema_id[d], content)
        /\ UsageAllows({d}, content, 0)
        /\ InsertEvent(d, "rollback", base, ReplaceRoot(content))
        /\ current_snapshot' = [current_snapshot EXCEPT ![d] = content]
        /\ current_version' = [current_version EXCEPT ![d] = base + 1]
        /\ UNCHANGED <<full_path, schema_id, deleted, document_snapshots, loaded>>

\* Mutants of CompactSnapshot: the latest content is stored under an older version;
\* the events compacted away are dropped.
CompactLatest(d, v) ==
    /\ v \in 1..current_version[d]
    /\ \A s \in document_snapshots : s.document_id = d => s.version # v
    /\ document_snapshots' = document_snapshots \cup
        {[ document_id |-> d, version |-> v, snapshot |-> current_snapshot[d],
           source_event |-> EventAt(d, v) ]}
    /\ UNCHANGED <<documents, document_events, loaded>>

CompactAndPrune(d, v) ==
    /\ v \in 1..current_version[d]
    /\ \A s \in document_snapshots : s.document_id = d => s.version # v
    /\ document_snapshots' = document_snapshots \cup
        {[ document_id |-> d, version |-> v, snapshot |-> Replay(d, v),
           source_event |-> EventAt(d, v) ]}
    /\ document_events' = { e \in document_events :
                                e.document_id = d => e.result_version >= v }
    /\ UNCHANGED <<documents, loaded>>

\* compact_document_snapshot at any version that exists, run by the operator's
\* script; deleted documents too, and an existing row is left as it is.
CompactSnapshot(d, v) ==
    /\ v \in 1..current_version[d]
    /\ Same(Replay(d, current_version[d]), current_snapshot[d])
    /\ \A s \in document_snapshots : s.document_id = d => s.version # v
    /\ document_snapshots' = document_snapshots \cup
        {[ document_id |-> d, version |-> v, snapshot |-> Replay(d, v),
           source_event |-> EventAt(d, v) ]}
    /\ UNCHANGED <<documents, document_events, loaded>>

\* GET editor-state: the client keeps the content and the base version to send.
LoadDocument(a, d) ==
    /\ May(a, "document:read")
    /\ Active(d)
    /\ loaded' = [loaded EXCEPT ![a] =
        [ document_id |-> d, version |-> current_version[d],
          content |-> current_snapshot[d] ]]
    /\ UNCHANGED <<documents, document_events, document_snapshots>>

Next ==
    \E d \in DocumentId :
        \/ \E v \in 1..MaxVersion : CompactSnapshot(d, v)
        \/ \E a \in Actor :
            \/ LoadDocument(a, d)
            \/ \E p \in Path, schema \in SchemaId \cup {NoSchema}, content \in Content :
                    CreateDocument(a, d, p, schema, content)
            \/ \E base \in 1..MaxVersion :
                \/ \E patch \in Patches : PatchDocument(a, d, base, patch)
                \/ \E content \in Content : UpdateContent(a, d, base, content)
                \/ \E content \in Content : UpdateContentAuto(a, d, base, content)
                \/ DeleteDocument(a, d, base)
                \/ RestoreDocument(a, d, base)
                \/ \E target \in 1..MaxVersion : RollbackDocument(a, d, base, target)

Spec == Init /\ [][Next]_vars

-----------------------------------------------------------------------------
EventType == {"create", "update", "delete", "restore", "rollback"}

TypeOK ==
    /\ full_path \in [DocumentId -> Path \cup {None}]
    /\ current_version \in [DocumentId -> 0..MaxVersion]
    /\ current_snapshot \in [DocumentId -> Content \cup {None}]
    /\ schema_id \in [DocumentId -> SchemaId \cup {NoSchema}]
    /\ deleted \in [DocumentId -> BOOLEAN]
    /\ \A d \in DocumentId : Exists(d) => full_path[d] \in Path /\ current_snapshot[d] \in Content
    /\ \A e \in document_events :
        /\ e.document_id \in DocumentId
        /\ e.event_type \in EventType
        /\ e.base_version \in 0..MaxVersion
        /\ e.result_version \in 1..MaxVersion
    /\ \A s \in document_snapshots :
        s.document_id \in DocumentId /\ s.version \in 1..MaxVersion
    /\ loaded \in [Actor -> {None} \cup
            [document_id : DocumentId, version : 1..MaxVersion, content : Content]]

\* The log is one unbroken chain per document: each version up to the current
\* one, and no other, is the result of exactly one event, whose base is the version
\* before; the first event, and only the first, is the create.
ChainIsContiguous ==
    \A d \in DocumentId :
        /\ \A v \in 1..current_version[d] : \E e \in EventsOf(d) : e.result_version = v
        /\ \A e \in EventsOf(d) :
            /\ e.result_version \in 1..current_version[d]
            /\ e.base_version = e.result_version - 1
            /\ e.event_type = "create" <=> e.result_version = 1
            /\ \A f \in EventsOf(d) : e.result_version = f.result_version => e = f

\* The stored snapshot is a cache of the log: replaying every event up to the
\* current version gives it back, whatever mix of patches, merges, rollbacks,
\* deletes and restores came before (assert_replay_matches_latest).
ReplayMatchesLatest ==
    \A d \in DocumentId : Exists(d) => Replay(d, current_version[d]) = current_snapshot[d]

\* No two live documents share a path, however deletes, creates and restores
\* interleave.
ActivePathsUnique ==
    \A d, e \in ActiveDocuments : full_path[d] = full_path[e] => d = e

\* Every version a rollback could bring back validates under the schema the
\* document was bound to when it was created.
HistoryValid ==
    \A d \in DocumentId : \A v \in 1..current_version[d] :
        SchemaAllows(schema_id[d], Replay(d, v))

\* The project's live documents stay within its limits: a restore or a rollback
\* to a larger version counts like a create or an update.
WithinUsageLimits ==
    /\ Cardinality(ActiveDocuments) <= MaxDocuments
    /\ Bytes(current_snapshot, ActiveDocuments) <= MaxBytes

\* deleted_at is what the log says: a document is deleted exactly when its latest
\* event is a delete, and a deleted document's next event is a restore.
LifecycleMatchesLog ==
    \A d \in DocumentId : Exists(d) =>
        /\ deleted[d] <=> EventAt(d, current_version[d]).event_type = "delete"
        /\ \A v \in 2..current_version[d] :
            EventAt(d, v - 1).event_type = "delete" <=> EventAt(d, v).event_type = "restore"

\* Compaction never changes what a version is: from the nearest compacted snapshot
\* every version reads as it does from the whole log, and each compacted row still
\* names the event that produced its version.
CompactionAgrees ==
    /\ \A d \in DocumentId : \A v \in 1..current_version[d] :
        ReconstructWithCompaction(d, v) = Replay(d, v)
    /\ \A s \in document_snapshots :
        /\ s.source_event \in EventsOf(s.document_id)
        /\ s.source_event.result_version = s.version

\* A version number identifies its content for good: what a client loaded is what
\* the log replays at that version forever after, so a save that passes the base
\* version check overwrites exactly what its author was looking at.
LoadedIsHistory ==
    \A a \in Actor : loaded[a] # None =>
        LET l == loaded[a]
        IN  /\ l.version \in 1..current_version[l.document_id]
            /\ Replay(l.document_id, l.version) = l.content

\* Nothing rewrites history: events and compacted snapshots are only added, a
\* document that changes at all moves to its next version with one event of its
\* own, and no step touches two documents.
AppendStep ==
    /\ document_events \subseteq document_events'
    /\ document_snapshots \subseteq document_snapshots'
    /\ \A d \in DocumentId :
        \/ /\ current_version'[d] = current_version[d] + 1
           /\ \E e \in document_events' :
                /\ document_events' = document_events \cup {e}
                /\ e.document_id = d
                /\ e.result_version = current_version'[d]
        \/ /\ current_version'[d] = current_version[d]
           /\ current_snapshot'[d] = current_snapshot[d]
           /\ deleted'[d] = deleted[d]
           /\ EventsOf(d)' = EventsOf(d)

\* The log and the compacted snapshots are only ever added to: AppendStep, always.
HistoryIsAppendOnly == [][AppendStep]_vars

\* The versions of a document as readers of its history get them, from the nearest
\* compacted snapshot, with the kind of event that made each.
HistoryRead ==
    [d \in DocumentId |->
        [v \in 1..current_version[d] |->
            [type |-> EventAt(d, v).event_type, content |-> ReconstructWithCompaction(d, v)]]]

Promised == INSTANCE VersionHistory WITH history <- HistoryRead, latest <- current_snapshot

\* Rows, patches, replays and compacted snapshots together are a history of versions:
\* every transaction adds one version to one document or changes nothing that a reader
\* sees, as VersionHistory has it.
KeepsHistory == Promised!Spec
=============================================================================
