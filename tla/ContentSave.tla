---------------------------- MODULE ContentSave ----------------------------
(***************************************************************************)
(* A full-content editor save (update_document_content in                  *)
(* app/document_service.py) at the level of the JSON trees: one client     *)
(* opens a document, edits its buffer and saves; other writers save in     *)
(* between.  DocumentStore has the versions, the events and the lifecycle; *)
(* here it is what the generated patches and the auto-merge do to the      *)
(* content.                                                                *)
(***************************************************************************)
EXTENDS JsonMerge

CONSTANTS
    Documents,   \* the contents documents and buffers take
    MaxWrites    \* bound on the writes of others after the client's load

VARIABLES
    base,       \* the snapshot of the version the client's buffer started from
    current,    \* json_documents.current_snapshot_json
    writes,     \* accepted writes of others since the client's load
    candidate,  \* the content the client saved
    outcome     \* of the save: "none", "saved", "merged", "conflict", "failed"

contentVars == <<base, current, writes, candidate, outcome>>

\* The snapshot that a save over the current version commits, or Failed: the
\* generated patch must change something by Python's ==, and it is the patch
\* that is applied, never the candidate itself.
SaveOver(snapshot, content) ==
    IF PythonEqual(snapshot, content) THEN Failed
    ELSE ApplyPatch(snapshot, DiffPatch(snapshot, content))

ContentInit ==
    /\ base \in Documents
    /\ current = base
    /\ writes = 0
    /\ candidate = base
    /\ outcome = "none"

\* Another editor, up to date, saves.
OtherSave(content) ==
    /\ outcome = "none"
    /\ writes < MaxWrites
    /\ SaveOver(current, content) # Failed
    /\ current' = SaveOver(current, content)
    /\ writes' = writes + 1
    /\ UNCHANGED <<base, candidate, outcome>>

\* The client's save when nobody wrote since its load.
SaveCurrent(content) ==
    /\ outcome = "none"
    /\ writes = 0
    /\ candidate' = content
    /\ LET next == SaveOver(current, content)
       IN  /\ current' = IF next = Failed THEN current ELSE next
           /\ outcome' = IF next = Failed THEN "failed" ELSE "saved"
    /\ UNCHANGED <<base, writes>>

\* The client's save of a stale buffer with merge_strategy "reject".
SaveStaleReject(content) ==
    /\ outcome = "none"
    /\ writes > 0
    /\ candidate' = content
    /\ outcome' = "conflict"
    /\ UNCHANGED <<base, current, writes>>

\* The client's save of a stale buffer with merge_strategy "auto": the client's
\* patch is applied to the current snapshot in memory, and the difference between
\* the two is what goes through the update pipeline.
SaveStaleAuto(content) ==
    /\ outcome = "none"
    /\ writes > 0
    /\ candidate' = content
    /\ LET merged == AutoMerge(base, current, content)
           next == IF merged = Failed THEN Failed ELSE SaveOver(current, merged)
       IN  /\ current' = IF next = Failed THEN current ELSE next
           /\ outcome' = IF next = Failed THEN "conflict" ELSE "merged"
    /\ UNCHANGED <<base, writes>>

ContentNext ==
    \E content \in Documents :
        \/ OtherSave(content)
        \/ SaveCurrent(content)
        \/ SaveStaleReject(content)
        \/ SaveStaleAuto(content)

ContentSpec == ContentInit /\ [][ContentNext]_contentVars

-----------------------------------------------------------------------------
\* A save that is accepted over the version the client loaded stores exactly the
\* JSON the client sent: the diff finds every change and the patch made of it
\* reproduces them all (_diff_changes_to_patch: "preserving the same final snapshot").
SavedIsCandidate ==
    outcome = "saved" => current = candidate

\* The paths of all object members, at any depth, and the root.
MemberPaths(v) ==
    LET RECURSIVE Paths(_, _)
        Paths(node, at) ==
            {at} \cup
            IF IsObject(node)
            THEN UNION {Paths(node.obj[k], Append(at, k)) : k \in DOMAIN node.obj}
            ELSE {}
    IN  Paths(v, << >>)

\* Merging is three-way at every object member: where the client left a member as
\* it loaded it, the merge has the server's; where the server left it alone, the
\* client's.  Nothing of either is lost and nothing else appears.
ThreeWay(from, mine, theirs, result) ==
    \A path \in UNION {MemberPaths(v) : v \in {from, mine, theirs, result}} :
        LET at(v) == GetValue(v, path)
        IN  /\ at(mine) = at(from) => at(result) = at(theirs)
            /\ at(theirs) = at(from) => at(result) = at(mine)

\* What an accepted merge commits is the three-way merge of the loaded snapshot,
\* the client's buffer and what was current: no accepted write of either side is
\* overwritten by the other. And it does not depend on which side arrived first: with the
\* roles of client and server exchanged it is accepted too and commits the same content.
MergeIsThreeWay ==
    [][outcome' = "merged" =>
        /\ ThreeWay(base, candidate', current, current')
        /\ AutoMerge(base, candidate', current) = current']_contentVars

\* A save is refused only for a reason. Over the version the client loaded, it changes
\* nothing: the generated patch applies in the order it is written, array removals last
\* and descending. A stale one, when no array is anywhere in the documents: both sides
\* changed one and the same member, and not merely two members of an object that all
\* three documents have there.
RefusalIsJustified ==
    [][/\ SaveCurrent(candidate') /\ outcome' = "failed" => PythonEqual(current, candidate')
       /\ (/\ SaveStaleAuto(candidate')
           /\ outcome' = "conflict"
           /\ candidate' # base
           /\ \A v \in {base, current, candidate'} :
                  \A path \in MemberPaths(v) : ~IsArray(GetValue(v, path)))
          => \E path \in UNION {MemberPaths(v) : v \in {base, current, candidate'}} :
                /\ \E v \in {base, current, candidate'} : ~IsObject(GetValue(v, path))
                /\ GetValue(candidate', path) # GetValue(base, path)
                /\ GetValue(current, path) # GetValue(base, path)]_contentVars
=============================================================================
