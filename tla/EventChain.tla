---------------------------- MODULE EventChain ----------------------------
(***************************************************************************)
(* The integrity checks of app/integrity_service.py over one document: its *)
(* event rows with all their fields, as the writes of                      *)
(* app/document_service.py store them, a fault that changes stored data,   *)
(* and a check that reads the document's row and then its event rows, with *)
(* no transaction around the two.                                          *)
(***************************************************************************)
EXTENDS JsonPatch

CONSTANTS
    Contents,          \* the contents documents are created with
    Snapshots,         \* the contents they come to have
    EventPatches,      \* the patches clients send
    StoredValues,      \* the values in all of them, with those inside them
    Equal(_, _),       \* Python's == on decoded JSON
    Differences(_, _), \* diff_json from one content to another
    MaxLogLength       \* bound on the versions of the document

VARIABLES
    rows,       \* document_events of the document, by result_version
    row,        \* its row of json_documents: snapshot, current_version, deleted
    history,    \* what was committed: the content of each version
    damage,     \* the field the fault changed, or "none"
    read,       \* the document row that the check has read, or Failed
    report      \* what the two checks say: "none", "ok" or "failed" each

chainVars == <<rows, row, history, damage, read, report>>

\* The document before there is one: Python's None.
Null == [null |-> TRUE]

-----------------------------------------------------------------------------
(* The rows that the writes store.                                          *)

\* _tracked_value; a value that does not exist is Failed.
Tracked(path, value) == [path |-> path, value |-> value]

\* One turn of the loop of apply_patch, with all that it records.
Recorded(result, op) ==
    LET doc == result.document
        next == ApplySingle(doc, op)
        path == ConcretePath(doc, op)
    IN  IF doc = Failed \/ next = Failed THEN [result EXCEPT !.document = Failed]
        ELSE [ document |-> next,
               inverse_patch |-> <<InverseOf(doc, op)>> \o result.inverse_patch,
               changed_paths |-> Append(result.changed_paths, path),
               before_values |-> Append(result.before_values,
                    IF path = op.path THEN Tracked(path, GetValue(doc, path))
                    ELSE Tracked(path, Failed)),
               after_values |-> Append(result.after_values, Tracked(path, GetValue(next, path))) ]

\* The fields of a row, together with the document it leads to.
Result(document, inverse, paths, before, after) ==
    [ document |-> document, inverse_patch |-> inverse, changed_paths |-> paths,
      before_values |-> before, after_values |-> after ]

PatchResult(doc, patch) ==
    FoldLeft(Recorded, Result(doc, << >>, << >>, << >>, << >>), patch)

CreateResult(content) ==
    Result(content, <<Removal(<< >>)>>, << << >> >>,
           <<Tracked(<< >>, Failed)>>, <<Tracked(<< >>, content)>>)

RollbackResult(state, target) ==
    LET changes == Differences(state, target)
    IN  Result(target, <<Operation("replace", << >>, state)>>,
               [i \in DOMAIN changes |-> changes[i].path],
               [i \in DOMAIN changes |-> Tracked(changes[i].path, changes[i].before)],
               [i \in DOMAIN changes |-> Tracked(changes[i].path, changes[i].after)])

\* (bound) Elements that a patch appends have decimal tokens among those in use.
TokensSuffice(doc, patch) ==
    \A i \in DOMAIN patch :
        HasToken(PatchResult(doc, SubSeq(patch, 1, i - 1)).document, patch[i])

\* What a rollback row tells of the content it restores.
ChangesTell(state, target) ==
    [i \in DOMAIN Differences(state, target) |->
        Tracked(Differences(state, target)[i].path, Differences(state, target)[i].after)]

\* The values that patches give a whole document.
RootValues ==
    {patch[1].value : patch \in {p \in EventPatches :
                                    Len(p) = 1 /\ p[1].path = << >> /\ p[1].op # "remove"}}

\* Contents are canonical JSON in which == tells any two apart (true and 1 it does
\* not), and so does diff_json: a change at the root is the whole content.
ASSUME ChainAssumption ==
    /\ MaxLogLength \in Nat
    /\ ClosedUnderMembers(StoredValues)
    /\ Contents \subseteq Snapshots /\ Snapshots \subseteq StoredValues
    /\ \A doc \in Snapshots : Canonical(doc)
    /\ \A patch \in EventPatches :
            /\ patch \in Seq(Range(patch))
            /\ \A i \in DOMAIN patch : IsOperation(patch[i], StoredValues)
            /\ \A doc \in Snapshots : TokensSuffice(doc, patch)
    /\ \A x, y \in Snapshots : Equal(x, y) <=> x = y
    /\ \A state, x \in Snapshots, y \in RootValues :
            ChangesTell(state, x) \in {ChangesTell(state, y), <<Tracked(<< >>, y)>>} => x = y

\* A soft delete and a restore leave the content alone.
MarkResult(state) ==
    Result(state, << >>, << >>, <<Tracked(<< >>, state)>>, <<Tracked(<< >>, state)>>)

EventRow(type, base, patch, result) ==
    [ event_type |-> type, base_version |-> base, result_version |-> base + 1, patch |-> patch,
      inverse_patch |-> result.inverse_patch, changed_paths |-> result.changed_paths,
      before_values |-> result.before_values, after_values |-> result.after_values ]

-----------------------------------------------------------------------------
(* The writes, each committed with its row.  One in the middle of a check   *)
(* comes between the two reads; after the fault there is none.              *)

ChainInit ==
    /\ \E content \in Contents :
        /\ rows = <<EventRow("create", 0, <<Operation("add", << >>, content)>>,
                             CreateResult(content))>>
        /\ row = [snapshot |-> content, current_version |-> 1, deleted |-> FALSE]
        /\ history = <<content>>
    /\ damage = "none"
    /\ read = Failed
    /\ report = [replay |-> "none", chain |-> "none"]

Write(type, patch, result, deleted) ==
    /\ damage = "none"
    /\ report.chain = "none"
    /\ row.current_version < MaxLogLength
    /\ rows' = Append(rows, EventRow(type, row.current_version, patch, result))
    /\ row' = [ snapshot |-> result.document, deleted |-> deleted,
                current_version |-> row.current_version + 1 ]
    /\ history' = Append(history, result.document)
    /\ UNCHANGED <<damage, read, report>>

PatchDocument(patch) ==
    LET result == PatchResult(row.snapshot, patch)
    IN  /\ ~row.deleted
        /\ patch # << >>
        /\ Canonical(result.document)
        /\ result.document \in Snapshots   \* (bound)
        /\ ~Equal(row.snapshot, result.document)
        /\ Write("update", patch, result, FALSE)

RollbackDocument(target) ==
    /\ ~row.deleted
    /\ target < row.current_version
    /\ Write("rollback", <<Operation("replace", << >>, history[target])>>,
             RollbackResult(row.snapshot, history[target]), FALSE)

DeleteDocument == ~row.deleted /\ Write("delete", << >>, MarkResult(row.snapshot), TRUE)

RestoreDocument == row.deleted /\ Write("restore", << >>, MarkResult(row.snapshot), FALSE)

-----------------------------------------------------------------------------
(* One fault in what is stored.  Rows keep their order, and no two have one *)
(* result_version.                                                          *)

ChangedRow(i, field, value) ==
    /\ rows[i][field] # value
    /\ rows' = [rows EXCEPT ![i][field] = value]
    /\ damage' = field
    /\ UNCHANGED row

LostRow(i) ==
    /\ rows' = RemoveAt(rows, i)
    /\ damage' = "row"
    /\ UNCHANGED row

ChangedDocument(field, value) ==
    /\ row[field] # value
    /\ row' = [row EXCEPT ![field] = value]
    /\ damage' = field
    /\ UNCHANGED rows

Fault ==
    /\ damage = "none"
    /\ read = Failed
    /\ \/ \E i \in DOMAIN rows :
            \/ \E type \in {"create", "update", "delete", "restore", "rollback", "other"} :
                    ChangedRow(i, "event_type", type)
            \/ \E patch \in EventPatches \cup {<< >>} :
                    \/ ChangedRow(i, "patch", patch)
                    \/ ChangedRow(i, "inverse_patch", patch)
            \/ \E field \in {"changed_paths", "before_values", "after_values"} :
                    ChangedRow(i, field, << >>)
            \/ \E n \in {-1, 1} : ChangedRow(i, "base_version", rows[i].base_version + n)
            \/ i = Len(rows) /\ ChangedRow(i, "result_version", rows[i].result_version + 1)
            \/ LostRow(i)
       \/ \E content \in Contents : ChangedDocument("snapshot", content)
       \/ \E n \in {-1, 1} : ChangedDocument("current_version", row.current_version + n)
       \/ ChangedDocument("deleted", ~row.deleted)
    /\ UNCHANGED <<history, read, report>>

-----------------------------------------------------------------------------
(* The checks.                                                              *)

\* One turn of replay_events: a row without a patch changes nothing.
ReplayEvent(replay, event) ==
    IF event.patch = << >> \/ event.result_version > replay.target_version THEN replay
    ELSE [replay EXCEPT !.state = PatchResult(replay.state, event.patch).document]

Replay(version) ==
    FoldLeft(ReplayEvent, [state |-> Null, target_version |-> version], rows).state

LatestVersion == IF rows = << >> THEN 0 ELSE Last(rows).result_version

\* _document_integrity_report, of the document row that was read.
ReplayOk ==
    /\ LatestVersion = read.current_version
    /\ Equal(Replay(read.current_version), read.snapshot)

RootReplacement(event, op) ==
    Len(event.patch) = 1 /\ event.patch[1].op = op /\ event.patch[1].path = << >>

\* What replay observes of a row: the fields it should have.
Expected(first, state, event) ==
    IF first /\ event.event_type = "create" /\ RootReplacement(event, "add")
    THEN CreateResult(event.patch[1].value)
    ELSE IF event.event_type = "rollback" /\ RootReplacement(event, "replace")
    THEN RollbackResult(state, event.patch[1].value)
    ELSE IF event.patch # << >> THEN PatchResult(state, event.patch)
    ELSE IF state = Null
    THEN Result(Null, << >>, << >>, <<Tracked(<< >>, Failed)>>, <<Tracked(<< >>, Failed)>>)
    ELSE MarkResult(state)

\* A mutant: the stored inverse_patch is not compared.
FieldsMatchButInverse(event, expected) ==
    /\ expected.document # Failed
    /\ \A field \in {"changed_paths", "before_values", "after_values"} :
            event[field] = expected[field]

\* _check_expected_field of the four fields; a patch that does not apply is a
\* failure of its own.
FieldsMatch(event, expected) ==
    /\ expected.document # Failed
    /\ \A field \in {"changed_paths", "inverse_patch", "before_values", "after_values"} :
            event[field] = expected[field]

\* One turn of the loop of _document_event_chain_report: after a patch that does
\* not apply the state stays.
CheckEvent(checked, event) ==
    LET expected == Expected(checked.first, checked.state, event)
    IN  [ ok |-> /\ checked.ok
                 /\ event.base_version = checked.version
                 /\ event.result_version = checked.version + 1
                 /\ checked.first => event.event_type = "create"
                 /\ event.event_type \in {"create", "update", "delete", "restore", "rollback"}
                 /\ FieldsMatch(event, expected),
          state |-> IF expected.document = Failed THEN checked.state ELSE expected.document,
          version |-> event.result_version,
          first |-> FALSE ]

Unchecked == [ok |-> TRUE, state |-> Null, version |-> 0, first |-> TRUE]

\* _document_event_chain_report.
ChainOk ==
    LET checked == FoldLeft(CheckEvent, Unchecked, rows)
    IN  /\ rows # << >>
        /\ checked.ok
        /\ Equal(checked.state, read.snapshot)
        /\ LatestVersion = read.current_version

\* check_document_replay_integrity and check_document_event_chain_integrity: the
\* SELECT of the document, then that of its events.
ReadDocument ==
    /\ read = Failed
    /\ read' = row
    /\ UNCHANGED <<rows, row, history, damage, report>>

ReadEvents ==
    /\ read # Failed
    /\ report.chain = "none"
    /\ report' = [ replay |-> IF ReplayOk THEN "ok" ELSE "failed",
                   chain |-> IF ChainOk THEN "ok" ELSE "failed" ]
    /\ UNCHANGED <<rows, row, history, damage, read>>

ChainNext ==
    \/ \E patch \in EventPatches : PatchDocument(patch)
    \/ \E target \in 1..MaxLogLength : RollbackDocument(target)
    \/ DeleteDocument
    \/ RestoreDocument
    \/ Fault
    \/ ReadDocument
    \/ ReadEvents

ChainSpec == ChainInit /\ [][ChainNext]_chainVars

-----------------------------------------------------------------------------
\* The rows tell the history: every version can be replayed, and from every
\* version the stored inverse leads back to the one before.
RowsTellHistory ==
    /\ Len(rows) = Len(history)
    /\ \A v \in DOMAIN history :
        /\ Replay(v) = history[v]
        /\ v > 1 /\ rows[v].patch # << >> =>
            PatchResult(history[v], rows[v].inverse_patch).document = history[v - 1]

\* The two reports can be trusted: a healthy document passes both; the event-chain
\* report says "ok" only of rows that tell the whole history, forwards and
\* backwards; the replay report says so only of a snapshot that is the content last
\* committed; and a save between the two reads never makes either say "ok".
ReportsTell ==
    report.chain # "none" =>
        /\ damage = "none" /\ read = row => report = [replay |-> "ok", chain |-> "ok"]
        /\ report.chain = "ok" => report.replay = "ok" /\ RowsTellHistory
        /\ report.replay = "ok" => read = row /\ row.snapshot = Last(history)
=============================================================================
