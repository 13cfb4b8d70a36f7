----------------------------- MODULE JsonMerge -----------------------------
(***************************************************************************)
(* The recursive JSON diff of app/replay.py, the patch built from it and   *)
(* the safe-path auto-merge checks of app/document_service.py, as          *)
(* operators over JsonPatch values.                                        *)
(***************************************************************************)
EXTENDS JsonPatch, FiniteSetsExt, TLC

CONSTANT KeyOrder   \* every token in use, in Python's string order

-----------------------------------------------------------------------------
(* Python's == on decoded JSON: containers compare member by member, and a   *)
(* bool equals the int of the same value.                                    *)

NumericValue(v) ==
    IF "num" \in DOMAIN v THEN v.num ELSE IF v.bool THEN 1 ELSE 0

RECURSIVE PythonEqual(_, _)
PythonEqual(x, y) ==
    CASE IsObject(x) /\ IsObject(y) ->
            /\ DOMAIN x.obj = DOMAIN y.obj
            /\ \A k \in DOMAIN x.obj : PythonEqual(x.obj[k], y.obj[k])
      [] IsArray(x) /\ IsArray(y) ->
            /\ Len(x.arr) = Len(y.arr)
            /\ \A i \in DOMAIN x.arr : PythonEqual(x.arr[i], y.arr[i])
      [] {IsObject(x), IsArray(x), IsObject(y), IsArray(y)} = {FALSE} ->
            NumericValue(x) = NumericValue(y)
      [] OTHER -> FALSE
-----------------------------------------------------------------------------
(* diff_json: the changes from one value to another, children of an object   *)
(* in key order and of an array by index.  Scalars differ by Python's !=.    *)

Change(path, type, before, after) ==
    [path |-> path, change_type |-> type, before |-> before, after |-> after]

KeysInOrder(keys) == SelectSeq(KeyOrder, LAMBDA k : k \in keys)

ConcatAll(seqs) == FoldLeft(LAMBDA acc, s : acc \o s, << >>, seqs)

RECURSIVE DiffJson(_, _, _)
DiffJson(before, after, path) ==
    LET ObjectChild(k) ==
            LET at == Append(path, k)
            IN  IF k \notin DOMAIN before.obj THEN <<Change(at, "added", Failed, after.obj[k])>>
                ELSE IF k \notin DOMAIN after.obj THEN <<Change(at, "removed", before.obj[k], Failed)>>
                ELSE DiffJson(before.obj[k], after.obj[k], at)
        ArrayChild(i) ==
            LET at == Append(path, TokenOf(i - 1))
            IN  IF i > Len(before.arr) THEN <<Change(at, "added", Failed, after.arr[i])>>
                ELSE IF i > Len(after.arr) THEN <<Change(at, "removed", before.arr[i], Failed)>>
                ELSE DiffJson(before.arr[i], after.arr[i], at)
    IN  IF IsObject(before) /\ IsObject(after)
        THEN LET keys == KeysInOrder(DOMAIN before.obj \cup DOMAIN after.obj)
             IN  ConcatAll([i \in DOMAIN keys |-> ObjectChild(keys[i])])
        ELSE IF IsArray(before) /\ IsArray(after)
        THEN ConcatAll([i \in 1..Max({Len(before.arr), Len(after.arr)}) |-> ArrayChild(i)])
        ELSE IF ~PythonEqual(before, after)
        THEN <<Change(path, "modified", before, after)>>
        ELSE << >>

-----------------------------------------------------------------------------
(* _diff_changes_to_patch: adds and replaces in diff order, then the         *)
(* removals by descending (parent tokens, index).                            *)

Rank(token) == CHOOSE i \in DOMAIN KeyOrder : KeyOrder[i] = token

RECURSIVE TokensBelow(_, _)
TokensBelow(s, t) ==
    IF t = << >> THEN FALSE
    ELSE IF s = << >> THEN TRUE
    ELSE IF s[1] = t[1] THEN TokensBelow(Tail(s), Tail(t))
    ELSE Rank(s[1]) < Rank(t[1])

\* Strict order of the sort keys, descending.
RemovedFirst(p, q) ==
    LET parentP == Front(p.path)
        parentQ == Front(q.path)
    IN  \/ TokensBelow(parentQ, parentP)
        \/ parentP = parentQ /\ IntOf(Last(p.path)) > IntOf(Last(q.path))

\* Mutant of ChangesToPatch: removals are dropped.
ChangesWithoutRemovals(changes) ==
    LET values == SelectSeq(changes, LAMBDA c : c.change_type # "removed")
    IN  [i \in DOMAIN values |->
            Operation(IF values[i].change_type = "added" THEN "add" ELSE "replace",
                      values[i].path, values[i].after)]

ChangesToPatch(changes) ==
    LET ValueOperation(c) ==
            Operation(IF c.change_type = "added" THEN "add" ELSE "replace", c.path, c.after)
        values == SelectSeq(changes, LAMBDA c : c.change_type # "removed")
        removals == SelectSeq(changes, LAMBDA c : c.change_type = "removed")
    IN  [i \in DOMAIN values |-> ValueOperation(values[i])]
        \o SortSeq([i \in DOMAIN removals |-> Removal(removals[i].path)], RemovedFirst)

DiffPatch(before, after) == ChangesToPatch(DiffJson(before, after, << >>))

-----------------------------------------------------------------------------
(* The checks of _auto_merge_document_content_in_transaction.               *)

\* Mutants of PathsOverlap: only equal paths overlap; so do siblings.
PathsEqual(p, q) == p = q
PathsUnderOneMember(p, q) == p = << >> \/ q = << >> \/ Head(p) = Head(q)

\* _paths_overlap: one token sequence is a prefix of the other.
PathsOverlap(p, q) == IsPrefix(p, q) \/ IsPrefix(q, p)

\* _path_touches_array: an array is met on the way down to the path.
RECURSIVE PathTouchesArray(_, _)
PathTouchesArray(node, path) ==
    \/ IsArray(node)
    \/ /\ path # << >>
       /\ IsObject(node)
       /\ Head(path) \in DOMAIN node.obj
       /\ PathTouchesArray(node.obj[Head(path)], Tail(path))

ArraySensitive(change, snapshots) ==
    \/ IsArray(change.before)
    \/ IsArray(change.after)
    \/ \E s \in snapshots : PathTouchesArray(s, change.path)

Overlapping(clientChanges, serverChanges) ==
    \E i \in DOMAIN clientChanges, j \in DOMAIN serverChanges :
        PathsOverlap(clientChanges[i].path, serverChanges[j].path)

\* The snapshot the merge commits, or Failed when it is rejected: an overlap, an
\* array on any changed path, no client change, or an inapplicable patch.
AutoMerge(base, current, candidate) ==
    LET client == DiffJson(base, candidate, << >>)
        server == DiffJson(base, current, << >>)
        snapshots == {base, current, candidate}
    IN  IF \/ Overlapping(client, server)
           \/ \E c \in Range(client \o server) : ArraySensitive(c, snapshots)
        THEN Failed
        ELSE ApplyPatch(current, ChangesToPatch(client))
=============================================================================
