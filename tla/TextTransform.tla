--------------------------- MODULE TextTransform ---------------------------
(***************************************************************************)
(* The single-operation transform of live text editing in                  *)
(* app/text_collaboration_service.py: how an operation made on an older    *)
(* revision is moved across one accepted since.                            *)
(*                                                                         *)
(* An operation has its 0-based index, the number of characters it removes *)
(* (0 for an insert) and the text it puts there (empty for a delete).      *)
(***************************************************************************)
EXTENDS Integers, Sequences

Operation(type, index, length, text) ==
    [type |-> type, index |-> index, length |-> length, text |-> text]

InsertText(index, text) == Operation("insert", index, 0, text)
DeleteText(index, length) == Operation("delete", index, length, << >>)
ReplaceText(index, length, text) == Operation("replace", index, length, text)

\* What _normalize_text_operation lets through, of any length: its bound on the length is
\* WithinLength of SessionState.
Normalized(op) ==
    /\ op.index \in Nat
    /\ op.length \in Nat
    /\ op.type \in {"insert", "delete", "replace"}
    /\ op.type = "insert" <=> op.length = 0
    /\ op.type = "insert" => op.text # << >>
    /\ op.type = "delete" => op.text = << >>

\* VERSION_CONFLICT: the transform would have to split the operation.
Conflict == [type |-> "conflict"]

-----------------------------------------------------------------------------
Larger(m, n) == IF m > n THEN m ELSE n
Smaller(m, n) == IF m < n THEN m ELSE n

EndOf(op) == op.index + op.length

MovedTo(op, index) == [op EXCEPT !.index = index]

\* _transform_operation, accepted insert: a range it falls strictly inside of
\* would have to be split.
AcrossInsert(op, accepted) ==
    IF op.type # "insert" /\ op.index < accepted.index /\ accepted.index < EndOf(op)
    THEN Conflict
    ELSE IF op.index >= accepted.index
    THEN MovedTo(op, op.index + Len(accepted.text))
    ELSE op

\* _transform_across_removed_range, incoming insert: from inside the removed
\* range to right after what replaced it.
InsertAcrossRemoved(op, accepted) ==
    IF op.index >= EndOf(accepted)
    THEN MovedTo(op, op.index + Len(accepted.text) - accepted.length)
    ELSE IF op.index > accepted.index
    THEN MovedTo(op, accepted.index + Len(accepted.text))
    ELSE op

\* A mutant: a delete on both sides of a replacement is not refused.
RangeAcrossRemovedInTwo(op, accepted) ==
    LET inserted == Len(accepted.text)
        left == Larger(0, Smaller(EndOf(op), accepted.index) - op.index)
        right == Larger(0, EndOf(op) - Larger(op.index, EndOf(accepted)))
    IN  IF EndOf(op) <= accepted.index
        THEN op
        ELSE IF op.index >= EndOf(accepted)
        THEN MovedTo(op, op.index + inserted - accepted.length)
        ELSE IF \/ op.type = "replace"
                \/ left + right = 0
        THEN Conflict
        ELSE IF left > 0
        THEN [op EXCEPT !.length = IF inserted > 0 THEN left ELSE left + right]
        ELSE [op EXCEPT !.index = accepted.index + inserted, !.length = right]

\* ... and incoming delete or replace: a replace may not overlap the removed
\* range at all; a delete keeps what is left of it on either side.
RangeAcrossRemoved(op, accepted) ==
    LET inserted == Len(accepted.text)
        left == Larger(0, Smaller(EndOf(op), accepted.index) - op.index)
        right == Larger(0, EndOf(op) - Larger(op.index, EndOf(accepted)))
    IN  IF EndOf(op) <= accepted.index
        THEN op
        ELSE IF op.index >= EndOf(accepted)
        THEN MovedTo(op, op.index + inserted - accepted.length)
        ELSE IF \/ op.type = "replace"
                \/ left + right = 0
                \/ inserted > 0 /\ left > 0 /\ right > 0
        THEN Conflict
        ELSE IF left > 0
        THEN [op EXCEPT !.length = IF inserted > 0 THEN left ELSE left + right]
        ELSE [op EXCEPT !.index = accepted.index + inserted, !.length = right]

Transform(op, accepted) ==
    IF accepted.type = "insert" THEN AcrossInsert(op, accepted)
    ELSE IF op.type = "insert" THEN InsertAcrossRemoved(op, accepted)
    ELSE RangeAcrossRemoved(op, accepted)

-----------------------------------------------------------------------------
\* _ensure_text_operation_within_bounds, for a text of this length.
WithinBounds(op, length) ==
    IF op.type = "insert" THEN op.index <= length
    ELSE op.index < length /\ EndOf(op) <= length

\* _apply_text_operation, on a text the operation is within the bounds of.
ApplyText(text, op) ==
    SubSeq(text, 1, op.index) \o op.text \o SubSeq(text, EndOf(op) + 1, Len(text))

\* The length of a text of length n after the operation.
LengthAfter(n, op) == n - op.length + Len(op.text)
=============================================================================
