------------------------------- MODULE MCZip -------------------------------
(* Archives that clash with documents, with schemas, with the limits, with   *)
(* themselves and with what can be stored.                                   *)
EXTENDS ZipPanel, TLC

CONSTANTS good, big, large, many, twice, infinite, broken, s1, s2

Member(path, text, size, refs, meets) ==
    [path |-> path, json |-> TRUE, text |-> text, size |-> size, bytes |-> size, refs |-> refs, meets |-> meets]

Up == [rooted |-> FALSE, steps |-> <<"..", "x">>]
Beyond == [rooted |-> FALSE, steps |-> <<"..", "..", "x">>]
Beside == [rooted |-> FALSE, steps |-> <<".", "y">>]
Root == [rooted |-> TRUE, steps |-> <<"readme">>]

X == <<"x">>
AX == <<"a", "x">>
AY == <<"a", "y">>

MCListing ==
    (good :> [readable |-> TRUE, members |->
        << Member(AX, "json", 1, {Up, Beyond, Beside, Root}, {s1, s2}),
           Member(AY, "json", 1, {}, {s1}),
           [Member(<<"readme">>, "json", 1, {}, {}) EXCEPT !.json = FALSE] >>])
    @@ (big :> [readable |-> TRUE, members |-> <<Member(X, "json", 3, {}, {s1, s2})>>])
    @@ (large :> [readable |-> TRUE, members |->
        << [Member(X, "json", 1, {}, {s1, s2}) EXCEPT !.size = 4] >>])
    @@ (many :> [readable |-> TRUE, members |->
        << Member(X, "json", 1, {}, {s1, s2}), Member(<<"b">>, "json", 1, {}, {}),
           Member(<<"c">>, "json", 1, {}, {}) >>])
    @@ (twice :> [readable |-> TRUE, members |->
        <<Member(X, "json", 1, {}, {s1, s2}), Member(X, "json", 1, {}, {})>>])
    @@ (broken :> [readable |-> FALSE, members |-> << >>])
    @@ (infinite :> [readable |-> TRUE, members |->
        <<Member(X, "infinite", 1, {}, {s1, s2}), Member(AY, "json", 1, {}, {s1, s2})>>])

MCPattern == s1 :> {AX, AY} @@ s2 :> {AX, X}

MCOtherPath == {X, AX}

\* With all archives, others write and the user tries one; or a user who is alone goes back
\* and forth between two.
Explored ==
    \/ moves <= 1 /\ previewRequest <= 2 /\ applyRequest <= 2 /\ faults <= 1
    \/ changes = 0 /\ faults <= 1 /\ file \in {good, twice, "none"}
=============================================================================
