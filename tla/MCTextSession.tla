--------------------------- MODULE MCTextSession ---------------------------
(* Two clients on a document of two characters, the first of which makes it  *)
(* JSON, with commits and other saves; or three operations, and no commit,   *)
(* on three characters. Character 4, when typed, is blank and is gone from   *)
(* the saved text.                                                           *)
EXTENDS TextSession, TLC

CONSTANTS c1, c2

MCTexts == {<<1, 2>>, <<1, 2, 3>>}
MCTwoCharacters == {<<1, 2>>}
MCParses(text) == 1 \in ToSet(text)
MCFormatted(text) == SelectSeq(text, LAMBDA x : x # 4)
MCAutoMerge(base, current, candidate) ==
    IF ToSet(base) \subseteq ToSet(current) \cap ToSet(candidate)
    THEN candidate \o SelectSeq(current, LAMBDA x : x \notin ToSet(base))
    ELSE Failed

MCBounds(text) ==
    IF Len(text) = 3
    THEN [version |-> 1, revision |-> 3, typed |-> 5, sent |-> 3, range |-> 3]
    ELSE [version |-> 3, revision |-> 2, typed |-> 4, sent |-> 2, range |-> 2]
MCFewBounds(text) ==
    [version |-> 2, revision |-> 2, typed |-> 4, sent |-> 2, range |-> 2]

MCStrategies(text) == IF Len(text) = 3 THEN {} ELSE {"auto"}
MCReject(text) == {"reject"}

Symmetry == Permutations({c1, c2})
=============================================================================
