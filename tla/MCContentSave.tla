--------------------------- MODULE MCContentSave ---------------------------
(* Root objects with a scalar, nested-object or (nested) array member, and   *)
(* root arrays; in the scalar set also the booleans that Python equates with *)
(* numbers.                                                                  *)
EXTENDS ContentSave

MCDecimalTokens == <<"0", "1", "2", "3", "4">>
MCKeyOrder == <<"0", "1", "2", "a", "b">>

Members(values) ==
    { Obj(f) : f \in UNION { [ks -> values] : ks \in SUBSET {"a", "b"} } }

AValues == { Num(1), Num(2), Obj([a |-> Num(1)]), Obj([a |-> Num(2), b |-> Num(1)]),
             Obj([a |-> Num(2)]), Obj([b |-> Num(1)]),
             Arr(<<Num(1)>>), Arr(<<Num(2), Num(1), Num(1)>>),
             Arr(<<Arr(<<Num(1), Num(2)>>), Num(1)>>), Arr(<<Arr(<<Num(1)>>)>>) }
BValues == { Num(1), Obj([a |-> Num(1)]) }

MCDocuments ==
    { Obj([a |-> x]) : x \in AValues }
    \cup { Obj([b |-> y]) : y \in BValues }
    \cup { Obj([a |-> x, b |-> y]) : x \in AValues, y \in BValues }
    \cup { Obj(<< >>), Arr(<< >>), Arr(<<Num(1), Obj([a |-> Num(1)])>>) }

MCBooleans == Members({Num(0), Num(1), Bool(TRUE)})
=============================================================================
