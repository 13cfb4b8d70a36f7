-------------------------- MODULE MCDocumentStore --------------------------
(* Two documents competing for one path, four contents that differ in two    *)
(* members (so that some saves overlap and some merge), and the patches,     *)
(* diffs and merges of JsonMerge.                                            *)
EXTENDS DocumentStore, Sequences, FiniteSets, TLC

CONSTANTS d1, d2, p, q, owner

MCActor == {owner}
MCRoleOf == owner :> "owner"
MCKeyOrder == <<"a", "b">>

J == INSTANCE JsonMerge WITH KeyOrder <- MCKeyOrder, DecimalTokens <- << >>

MCContent ==
    { J!Obj([a |-> J!Num(1)]), J!Obj([a |-> J!Num(2)]),
      J!Obj([a |-> J!Num(1), b |-> J!Num(1)]), J!Obj([a |-> J!Num(2), b |-> J!Num(1)]) }

MCRaised == J!Failed

MCPatches ==
    { <<J!Operation("add", <<"b">>, J!Num(1))>>,
      <<J!Removal(<<"b">>), J!Operation("replace", <<"a">>, J!Num(1))>> }

MCAddRoot(c) == <<J!Operation("add", << >>, c)>>
MCReplaceRoot(c) == <<J!Operation("replace", << >>, c)>>
MCNoPatch == << >>

\* ApplyPatch on the contents and the patches in use, evaluated once.
MCPatchesInUse ==
    MCPatches \cup {MCAddRoot(c) : c \in MCContent} \cup {MCReplaceRoot(c) : c \in MCContent}
    \cup {J!DiffPatch(x, y) : x \in MCContent, y \in MCContent}
MCPatchTable == [s \in MCContent, patch \in MCPatchesInUse |-> J!ApplyPatch(s, patch)]
MCPatched(s, patch) ==
    IF <<s, patch>> \in DOMAIN MCPatchTable THEN MCPatchTable[s, patch] ELSE J!ApplyPatch(s, patch)
MCGeneratedPatch(x, y) == J!DiffPatch(x, y)
MCMergedContent(base, current, candidate) == J!AutoMerge(base, current, candidate)
MCSame(x, y) == J!PythonEqual(x, y)

\* The one schema: a document whose "a" is 2 needs a "b".
MCValid(schema, c) == c.obj["a"] = J!Num(1) \/ "b" \in DOMAIN c.obj
MCSize(c) == Cardinality(DOMAIN c.obj)

\* The states from which TLC goes on: fewer snapshots are compacted once a client has
\* loaded something.
Explored ==
    Cardinality(document_snapshots) <= IF loaded = [a \in Actor |-> None] THEN 2 ELSE 1

Symmetry == Permutations({d1, d2}) \cup Permutations({p, q})
=============================================================================
