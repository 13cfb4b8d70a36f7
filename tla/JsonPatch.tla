----------------------------- MODULE JsonPatch -----------------------------
(***************************************************************************)
(* JSON values, JSON Pointer lookup and the JSON Patch engine of           *)
(* app/json_pointer.py and app/json_patch.py, as operators.                *)
(*                                                                         *)
(* A JSON value is a record whose one field names its type, so values of   *)
(* different types are comparable and different: [num |-> 1],              *)
(* [bool |-> TRUE], [obj |-> f] with f a function on key tokens and        *)
(* [arr |-> s] with s a sequence.  A JSON Pointer is the sequence of its   *)
(* unescaped tokens; << >> is the root.                                    *)
(***************************************************************************)
EXTENDS Integers, Sequences, SequencesExt

CONSTANT DecimalTokens  \* the decimal tokens in use: those of 0, 1, 2, ...

ASSUME TokenAssumption ==
    /\ DecimalTokens \in Seq(STRING)
    /\ IsInjective(DecimalTokens)
    /\ "-" \notin Range(DecimalTokens)

IsObject(v) == "obj" \in DOMAIN v
IsArray(v) == "arr" \in DOMAIN v

\* What get_value and apply_patch raise, as a value no document has.
Failed == [failed |-> TRUE]

\* Object, array and number constructors.
Obj(f) == [obj |-> f]
Arr(s) == [arr |-> s]
Num(n) == [num |-> n]
Bool(b) == [bool |-> b]

-----------------------------------------------------------------------------
(* Array tokens: Python's int(token) on the decimal tokens in use, and the  *)
(* bounds of _array_index_for_patch.                                        *)

IntOf(token) ==
    IF token \in Range(DecimalTokens)
    THEN (CHOOSE i \in DOMAIN DecimalTokens : DecimalTokens[i] = token) - 1
    ELSE -1

TokenOf(index) == DecimalTokens[index + 1]

\* The 0-based index a token names in an array of this length, or -1.
ArrayIndex(token, length, allowEnd) ==
    IF token = "-" /\ allowEnd THEN length
    ELSE IF IntOf(token) <= (IF allowEnd THEN length ELSE length - 1)
         THEN IntOf(token)
         ELSE -1

\* The member of a container that a token names, or Failed.
Child(v, token) ==
    IF IsObject(v) /\ token \in DOMAIN v.obj THEN v.obj[token]
    ELSE IF IsArray(v) /\ ArrayIndex(token, Len(v.arr), FALSE) >= 0
         THEN v.arr[ArrayIndex(token, Len(v.arr), FALSE) + 1]
         ELSE Failed

\* get_value, and the walk of _parent_and_token: token by token.
GetValue(doc, path) == FoldLeft(Child, doc, path)

ValueExists(doc, path) == GetValue(doc, path) # Failed

-----------------------------------------------------------------------------
(* One operation on the container that holds the path's last token.         *)

EditObject(f, token, op) ==
    CASE op.op = "remove" /\ token \in DOMAIN f ->
            Obj([k \in DOMAIN f \ {token} |-> f[k]])
      [] op.op = "replace" /\ token \in DOMAIN f ->
            Obj([f EXCEPT ![token] = op.value])
      [] op.op = "add" ->
            Obj([k \in DOMAIN f \cup {token} |-> IF k = token THEN op.value ELSE f[k]])
      [] OTHER -> Failed

EditArray(s, token, op) ==
    LET index == ArrayIndex(token, Len(s), op.op = "add")
    IN  CASE index < 0 -> Failed
          [] index >= 0 /\ op.op = "remove" -> Arr(RemoveAt(s, index + 1))
          [] index >= 0 /\ op.op = "replace" -> Arr(ReplaceAt(s, index + 1, op.value))
          [] index >= 0 /\ op.op = "add" -> Arr(InsertAt(s, index + 1, op.value))

Edit(container, token, op) ==
    CASE IsObject(container) -> EditObject(container.obj, token, op)
      [] IsArray(container) -> EditArray(container.arr, token, op)
      [] OTHER -> Failed

\* The container with another value for one of its members.
WithChild(container, token, value) ==
    IF IsObject(container) THEN Obj([container.obj EXCEPT ![token] = value])
    ELSE Arr([container.arr EXCEPT ![IntOf(token) + 1] = value])

\* The document in which the value at a path has become another: what the change
\* of a container in place makes of the containers around it.
Rewritten(doc, path, value) ==
    LET now[depth \in 0..Len(path)] ==
            IF depth = Len(path) THEN value
            ELSE WithChild(GetValue(doc, SubSeq(path, 1, depth)), path[depth + 1], now[depth + 1])
    IN  now[0]

EditAt(doc, path, op) ==
    LET edited == Edit(GetValue(doc, Front(path)), Last(path), op)
    IN  IF edited = Failed THEN Failed ELSE Rewritten(doc, Front(path), edited)

\* _apply_single: the document after one operation, or Failed.  Removing the
\* root is refused; adding or replacing it replaces the whole document.
ApplySingle(doc, op) ==
    IF op.path = << >>
    THEN IF op.op = "remove" THEN Failed ELSE op.value
    ELSE EditAt(doc, op.path, op)

Operation(op, path, value) == [op |-> op, path |-> path, value |-> value]
Removal(path) == [op |-> "remove", path |-> path]

\* The path an operation reports: "-" becomes the index it was appended at.
ConcretePath(doc, op) ==
    LET parent == GetValue(doc, Front(op.path))
    IN  IF op.path # << >> /\ op.op = "add" /\ IsArray(parent)
        THEN IF Last(op.path) = "-"
             THEN Append(Front(op.path), TokenOf(Len(parent.arr)))
             ELSE op.path
        ELSE op.path

\* Mutant of InverseOf: an add that overwrote a key is undone by a remove.
InverseForgetsOverwritten(doc, op) ==
    LET old == GetValue(doc, op.path)
    IN  IF op.op = "add" THEN Removal(ConcretePath(doc, op))
        ELSE Operation(IF op.op = "remove" THEN "add" ELSE "replace", op.path, old)

\* The operation that undoes op, computed from the document op was applied to.
InverseOf(doc, op) ==
    LET old == GetValue(doc, op.path)
        inArray == op.path # << >> /\ IsArray(GetValue(doc, Front(op.path)))
    IN  CASE op.op = "remove" -> Operation("add", op.path, old)
          [] op.op = "replace" -> Operation("replace", op.path, old)
          [] op.op = "add" /\ (inArray \/ old = Failed) -> Removal(ConcretePath(doc, op))
          [] op.op = "add" /\ ~inArray /\ old # Failed -> Operation("replace", op.path, old)

\* apply_patch without its records: an empty patch and any failing operation
\* fail the whole patch.
ApplyPatch(doc, patch) ==
    IF patch = << >> THEN Failed
    ELSE FoldLeft(LAMBDA working, op : IF working = Failed THEN Failed
                                       ELSE ApplySingle(working, op),
                  doc, patch)

\* The values that decoded JSON has, with the values inside them, are a set like this.
ClosedUnderMembers(V) ==
    \A v \in V :
        /\ v # Failed
        /\ IsObject(v) => v = Obj(v.obj) /\ v.obj \in [DOMAIN v.obj -> V]
        /\ IsArray(v) => v = Arr(v.arr) /\ v.arr \in Seq(V)

\* An operation that the checks before the loop let through, with a value in V.
IsOperation(op, V) ==
    /\ op.op \in {"add", "replace", "remove"}
    /\ op.path \in Seq(STRING)
    /\ op.op # "remove" => op.value \in V

\* (bound) An element appended with "-" has a decimal token among those in use.
HasToken(doc, op) ==
    LET parent == GetValue(doc, Front(op.path))
    IN  op.path # << >> /\ op.op = "add" /\ Last(op.path) = "-" /\ IsArray(parent)
            => Len(parent.arr) < Len(DecimalTokens)

\* _ensure_canonical_document accepts an object or an array at the root.
Canonical(v) == v # Failed /\ (IsObject(v) \/ IsArray(v))

=============================================================================
