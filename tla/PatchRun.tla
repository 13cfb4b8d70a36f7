----------------------------- MODULE PatchRun -----------------------------
(***************************************************************************)
(* The loop of apply_patch (app/json_patch.py) as a state machine: one     *)
(* step per operation, on a deep copy of the document, collecting the      *)
(* inverse operations front to back.  A failing operation ends the loop    *)
(* and the copy is dropped.                                                *)
(***************************************************************************)
EXTENDS JsonPatch

CONSTANTS
    JsonValue,      \* the values in documents and operations, with those inside them
    PatchDocuments, \* the documents patches are applied to
    Operations,     \* the operations a patch is made of
    MaxPatchLength  \* bound on the length of a patch

ASSUME PatchAssumption ==
    /\ MaxPatchLength \in Nat
    /\ ClosedUnderMembers(JsonValue)
    /\ PatchDocuments \subseteq JsonValue
    /\ \A op \in Operations : IsOperation(op, JsonValue)

VARIABLES
    document,           \* the argument: never touched by the loop
    patch,              \* the operations consumed so far
    working,            \* the working copy
    inverse_operations, \* undoes the operations consumed so far
    changed_paths,      \* concrete paths of the operations consumed so far
    status              \* "running", or "raised" after PatchApplyError

patchVars == <<document, patch, working, inverse_operations, changed_paths, status>>

PatchInit ==
    /\ document \in PatchDocuments
    /\ patch = << >>
    /\ working = document
    /\ inverse_operations = << >>
    /\ changed_paths = << >>
    /\ status = "running"

\* A mutant: a removed path is not recorded.
ApplyForgetsRemovals(op) ==
    /\ status = "running"
    /\ Len(patch) < MaxPatchLength
    /\ HasToken(working, op)
    /\ ApplySingle(working, op) # Failed
    /\ patch' = Append(patch, op)
    /\ working' = ApplySingle(working, op)
    /\ changed_paths' = IF op.op = "remove" THEN changed_paths
                        ELSE Append(changed_paths, ConcretePath(working, op))
    /\ UNCHANGED <<document, inverse_operations, status>>

\* One iteration that succeeds.
ApplyOperation(op) ==
    /\ status = "running"
    /\ Len(patch) < MaxPatchLength
    /\ HasToken(working, op)
    /\ ApplySingle(working, op) # Failed
    /\ patch' = Append(patch, op)
    /\ working' = ApplySingle(working, op)
    /\ inverse_operations' = <<InverseOf(working, op)>> \o inverse_operations
    /\ changed_paths' = Append(changed_paths, ConcretePath(working, op))
    /\ UNCHANGED <<document, status>>

\* One iteration that raises: the caller gets no result.
RaiseOn(op) ==
    /\ status = "running"
    /\ Len(patch) < MaxPatchLength
    /\ ApplySingle(working, op) = Failed
    /\ patch' = Append(patch, op)
    /\ status' = "raised"
    /\ UNCHANGED <<document, working, inverse_operations, changed_paths>>

PatchNext == \E op \in Operations : ApplyOperation(op) \/ RaiseOn(op)

PatchSpec == PatchInit /\ [][PatchNext]_patchVars

-----------------------------------------------------------------------------
(* What the event log stores for a patch must be usable later.              *)

\* The inverse patch of every successful prefix, applied to the patched
\* document, gives back the original exactly: array shifts, overwritten keys
\* and "-" appends included (inverse_operations.insert(0, ...) in apply_patch).
InverseUndoes ==
    status = "running" /\ patch # << >> =>
        ApplyPatch(working, inverse_operations) = document

\* changed_paths names what changed, for path history and blame: as long as no
\* operation replaced the root itself, a member of the root object that no changed
\* path starts with has the same value before and after the patch.
ChangedPathsCover ==
    (status = "running" /\ << >> \notin Range(changed_paths)
        /\ IsObject(document)) =>
        \A key \in DOMAIN document.obj \cup DOMAIN working.obj :
            GetValue(document, <<key>>) = GetValue(working, <<key>>)
            \/ \E i \in DOMAIN changed_paths : changed_paths[i][1] = key
=============================================================================
