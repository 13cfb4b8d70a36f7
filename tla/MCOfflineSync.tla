--------------------------- MODULE MCOfflineSync ---------------------------
(* Two users and two worker threads on a document of two members; contents   *)
(* that change one of them or both, and the merge of JsonMerge.              *)
EXTENDS OfflineSync, TLC

CONSTANTS a1, a2, r1, r2

MCMemberOrder == <<"a", "b">>
J == INSTANCE JsonMerge WITH KeyOrder <- MCMemberOrder, DecimalTokens <- << >>

Document(a, b) == J!Obj([a |-> J!Num(a), b |-> J!Num(b)])
MCInitialContent == Document(0, 0)
MCContent == {Document(0, 0), Document(1, 0), Document(0, 1), Document(1, 1)}
MCTwoContents == {Document(0, 0), Document(1, 0)}
MCRaised == J!Failed
MCMergedContent(base, current, candidate) == J!AutoMerge(base, current, candidate)

Symmetry == Permutations({a1, a2}) \cup Permutations({r1, r2})
=============================================================================
