--------------------------- MODULE LiveTextProofs ---------------------------
(***************************************************************************)
(* Theorems about LiveText: what browsers take for the session's text, and *)
(* what becomes of what users typed, for any browsers, texts and edits,    *)
(* under all conditions, with any number of sockets lost.                  *)
(***************************************************************************)
EXTENDS LiveText, TextProofs

-----------------------------------------------------------------------------
(* The editor's texts and operations.                                      *)

LEMMA EditedIsText ==
    ASSUME TextAssumption, edits \in Nat, NEW text \in Seq(Char), NEW new \in Edited(text)
    PROVE  new \in Seq(Char)
<1> DEFINE x == Len(InitialText) + edits + 1
<1>1. Len(text) \in Nat /\ x \in Char /\ InitialText \in Seq(Char)
    BY TextAssumption, LenProperties DEF Char
<1> HIDE DEF x
<1>2. ASSUME NEW i \in 1..(Len(text) + 1)
      PROVE  /\ SubSeq(text, 1, i - 1) \in Seq(Char)
             /\ SubSeq(text, i, Len(text)) \in Seq(Char)
             /\ SubSeq(text, i + 1, Len(text)) \in Seq(Char)
    <2>1. /\ i - 1 \in 0..Len(text) /\ i \in Nat \ {0} /\ i + 1 \in Nat \ {0} /\ 1 \in Nat \ {0}
          /\ Len(text) \in 0..Len(text)
        BY <1>1
    <2> QED
        BY <2>1, PartIsText
<1>3. ASSUME NEW i \in 1..(Len(text) + 1), new = InsertAt(text, i, x)
      PROVE  new \in Seq(Char)
    <2> DEFINE a == SubSeq(text, 1, i - 1)
               b == SubSeq(text, i, Len(text))
    <2>1. a \in Seq(Char) /\ b \in Seq(Char) /\ <<x>> \in Seq(Char)
        BY <1>1, <1>2
    <2>2. new = (a \o <<x>>) \o b
        BY <1>3 DEF InsertAt
    <2> HIDE DEF a, b
    <2>3. a \o <<x>> \in Seq(Char)
        BY <2>1, ConcatProperties
    <2>4. (a \o <<x>>) \o b \in Seq(Char)
        BY <2>1, <2>3, ConcatProperties
    <2> QED
        BY <2>2, <2>4
<1>4. ASSUME NEW i \in 1..Len(text), new = RemoveAt(text, i)
      PROVE  new \in Seq(Char)
    <2> DEFINE a == SubSeq(text, 1, i - 1)
               b == SubSeq(text, i + 1, Len(text))
    <2>1. a \in Seq(Char) /\ b \in Seq(Char)
        <3> i \in 1..(Len(text) + 1)
            BY <1>1
        <3> QED
            BY <1>2
    <2>2. new = a \o b
        BY <1>4 DEF RemoveAt
    <2> HIDE DEF a, b
    <2>3. a \o b \in Seq(Char)
        BY <2>1, ConcatProperties
    <2> QED
        BY <2>2, <2>3
<1>5. DOMAIN text = 1..Len(text)
    BY LenProperties
<1> QED
    BY <1>3, <1>4, <1>5 DEF Edited, x

LEMMA CommonPrefixBound ==
    ASSUME NEW x \in Seq(Char), NEW y
    PROVE  CommonPrefix(x, y) \in 0..Len(x)
<1> DEFINE S == { i \in DOMAIN x : IsPrefix(SubSeq(x, 1, i), y) }
<1>1. Len(x) \in Nat /\ DOMAIN x = 1..Len(x) /\ S \in SUBSET (1..Len(x))
    BY LenProperties
<1> HIDE DEF S
<1>2. IsFiniteSet(1..Len(x)) /\ Cardinality(1..Len(x)) = Len(x)
    <2> 1 \in Int /\ Len(x) \in Int
        BY <1>1
    <2>1. IsFiniteSet(1..Len(x)) /\ Cardinality(1..Len(x)) = IF 1 > Len(x) THEN 0 ELSE Len(x) - 1 + 1
        BY FS_Interval
    <2> QED
        BY <1>1, <2>1
<1>3. Cardinality(S) \in Nat /\ Cardinality(S) <= Len(x)
    <2>1. IsFiniteSet(S) /\ Cardinality(S) <= Cardinality(1..Len(x))
        BY <1>1, <1>2, FS_Subset
    <2> QED
        BY <1>2, <2>1, FS_CardinalityType
<1> QED
    BY <1>1, <1>3 DEF CommonPrefix, S

LEMMA ReverseIsText ==
    ASSUME NEW x \in Seq(Char)
    PROVE  Reverse(x) \in Seq(Char) /\ Len(Reverse(x)) = Len(x)
<1>1. Len(x) \in Nat
    BY LenProperties
<1>2. \A i \in 1..Len(x) : x[(Len(x) - i) + 1] \in Char
    <2> SUFFICES ASSUME NEW i \in 1..Len(x) PROVE x[(Len(x) - i) + 1] \in Char
        OBVIOUS
    <2>1. (Len(x) - i) + 1 \in 1..Len(x)
        BY <1>1
    <2> QED
        BY <2>1, ElementOfSeq
<1>3. Reverse(x) \in [1..Len(x) -> Char]
    BY <1>2 DEF Reverse
<1> QED
    BY <1>1, <1>3

LEMMA UnitsIsNat ==
    ASSUME NEW x \in Seq(Char)
    PROVE  Units(x) \in Nat
<1> DEFINE S == { i \in DOMAIN x : "wide" \in conditions /\ x[i] \in Wide }
<1>1. Len(x) \in Nat /\ DOMAIN x = 1..Len(x) /\ S \in SUBSET (1..Len(x))
    BY LenProperties
<1> HIDE DEF S
<1>2. IsFiniteSet(1..Len(x))
    BY <1>1, FS_Interval
<1>3. Cardinality(S) \in Nat
    BY <1>1, <1>2, FS_Subset, FS_CardinalityType
<1> QED
    BY <1>1, <1>3 DEF Units, S

\* What is between two texts is an operation.
LEMMA DiffIsOperation ==
    ASSUME NEW before \in Seq(Char), NEW after \in Seq(Char)
    PROVE  DiffText(before, after) \in TextOperation
<1> DEFINE prefix == CommonPrefix(before, after)
           rest(text) == Reverse(SubSeq(text, prefix + 1, Len(text)))
           suffix == CommonPrefix(rest(before), rest(after))
           index == Units(SubSeq(before, 1, prefix))
           length == Units(SubSeq(before, prefix + 1, Len(before) - suffix))
           inserted == SubSeq(after, prefix + 1, Len(after) - suffix)
<1>1. Len(before) \in Nat /\ Len(after) \in Nat /\ prefix \in 0..Len(before)
    BY CommonPrefixBound, LenProperties
<1>2. rest(before) \in Seq(Char) /\ Len(rest(before)) = Len(before) - prefix
    <2> DEFINE part == SubSeq(before, prefix + 1, Len(before))
    <2> HIDE DEF prefix
    <2>1. prefix + 1 \in Nat \ {0} /\ Len(before) \in 0..Len(before)
        BY <1>1
    <2>2. part \in Seq(Char)
        BY <2>1, PartIsText
    <2>3. Len(part) = Len(before) - prefix
        <3>1. \A i \in (prefix + 1)..Len(before) : before[i] \in Char
            BY <1>1, ElementOfSeq
        <3>2. prefix + 1 \in Int /\ Len(before) \in Int
            BY <1>1
        <3>3. Len(part) = IF prefix + 1 <= Len(before) THEN Len(before) - (prefix + 1) + 1 ELSE 0
            BY <3>1, <3>2, SubSeqProperties
        <3> QED
            BY <1>1, <3>3
    <2> QED
        BY <2>2, <2>3, ReverseIsText
<1>3. suffix \in 0..(Len(before) - prefix)
    <2> DEFINE x == rest(before)
               y == rest(after)
    <2>1. x \in Seq(Char) /\ Len(x) = Len(before) - prefix
        BY <1>2
    <2> HIDE DEF x, y
    <2>2. CommonPrefix(x, y) \in 0..Len(x)
        BY <2>1, CommonPrefixBound
    <2> QED
        BY <2>1, <2>2 DEF x, y
<1> HIDE DEF suffix, prefix
<1>4. index \in Nat /\ length \in Nat
    <2>1. \A n \in Nat \ {0}, m \in 0..Len(before) : SubSeq(before, n, m) \in Seq(Char)
        BY PartIsText
    <2>2. /\ prefix + 1 \in Nat \ {0} /\ 1 \in Nat \ {0}
          /\ prefix \in 0..Len(before) /\ Len(before) - suffix \in 0..Len(before)
        BY <1>1, <1>3
    <2> QED
        BY <2>1, <2>2, UnitsIsNat
<1>5. inserted \in Seq(Char)
    <2>1. \A i \in (prefix + 1)..(Len(after) - suffix) : after[i] \in Char
        <3> SUFFICES ASSUME NEW i \in (prefix + 1)..(Len(after) - suffix) PROVE after[i] \in Char
            OBVIOUS
        <3>1. i \in 1..Len(after)
            BY <1>1, <1>3
        <3> QED
            BY <3>1, ElementOfSeq
    <2>2. prefix + 1 \in Int /\ Len(after) - suffix \in Int
        BY <1>1, <1>3
    <2> QED
        BY <2>1, <2>2, SubSeqProperties
<1> HIDE DEF index, length, inserted
<1>6. << >> \in Seq(Char)
    OBVIOUS
<1>7. /\ DeleteText(index, length) \in TextOperation
      /\ InsertText(index, inserted) \in TextOperation
      /\ ReplaceText(index, length, inserted) \in TextOperation
    BY <1>4, <1>5, <1>6 DEF DeleteText, InsertText, ReplaceText, Operation, TextOperation
<1>8. DiffText(before, after) \in
        {DeleteText(index, length), InsertText(index, inserted), ReplaceText(index, length, inserted)}
    BY DEF DiffText, prefix, suffix, index, length, inserted
<1> QED
    BY <1>7, <1>8

\* Of the messages of a socket, the operations.
LEMMA OperationsAre ==
    ASSUME NEW M, \A m \in M : m.type = "op", NEW q \in Seq({JoinMessage} \cup M)
    PROVE  Operations(q) \in Seq(M)
<1> DEFINE X == Seq(M)
           n == Len(q)
           Turn(x, i) == IF q[i].type = "op" THEN Append(x, q[i]) ELSE x
           Folds(g) == g = [t \in SUBSET (DOMAIN q) |->
                        IF t = {} THEN << >> ELSE Turn(g[t \ {Max(t)}], Max(t))]
           table == CHOOSE g : Folds(g)
           turn == [p \in X \X (1..n) |-> Turn(p[1], p[2])]
<1>1. n \in Nat /\ DOMAIN q = 1..n
    BY LenProperties
<1>2. Operations(q) = table[DOMAIN q]
    BY DEF Operations, FoldLeft, MapThenFoldSet
<1>3. \A x \in X, i \in 1..n : Turn(x, i) \in X
    <2> SUFFICES ASSUME NEW x \in X, NEW i \in 1..n PROVE Turn(x, i) \in X
        OBVIOUS
    <2>1. q[i] \in {JoinMessage} \cup M
        BY ElementOfSeq
    <2>2. q[i].type = "op" => q[i] \in M
        BY <2>1 DEF JoinMessage
    <2>3. q[i].type = "op" => Append(x, q[i]) \in X
        BY <2>2, AppendProperties
    <2> QED
        BY <2>3
<1> HIDE DEF Turn, n
<1>4. turn \in [X \X (1..n) -> X] /\ \A x \in X, i \in 1..n : turn[x, i] = Turn(x, i)
    BY <1>3
<1> HIDE DEF turn
<1>5. << >> \in X
    OBVIOUS
<1> HIDE DEF X
<1>6. PICK g \in [SUBSET (1..n) -> X] : IsFold(g, << >>, turn, n)
    BY <1>1, <1>4, <1>5, FoldTableExists
<1>7. ASSUME NEW t \in SUBSET (1..n)
      PROVE  g[t] = IF t = {} THEN << >> ELSE Turn(g[t \ {Max(t)}], Max(t))
    <2>1. CASE t = {}
        BY <1>6, <2>1 DEF IsFold
    <2>2. CASE t # {}
        <3>1. Max(t) \in 1..n /\ t \ {Max(t)} \in SUBSET (1..n)
            BY <1>1, <2>2, MaxOfPositions
        <3>2. g[t \ {Max(t)}] \in X
            BY <3>1
        <3>3. g[t] = turn[g[t \ {Max(t)}], Max(t)]
            BY <1>6, <2>2 DEF IsFold
        <3> QED
            BY <1>4, <2>2, <3>1, <3>2, <3>3
    <2> QED
        BY <2>1, <2>2
<1>8. Folds(g)
    BY <1>1, <1>7
<1>9. Folds(table)
    BY <1>8
<1> HIDE DEF table
<1>10. table[{}] = << >>
    BY <1>1, <1>9
<1>11. ASSUME NEW t \in SUBSET (1..n), t # {}, table[t \ {Max(t)}] \in X
       PROVE  table[t] = turn[table[t \ {Max(t)}], Max(t)]
    <2>1. table[t] = Turn(table[t \ {Max(t)}], Max(t)) /\ Max(t) \in 1..n
        BY <1>1, <1>9, <1>11, MaxOfPositions
    <2> QED
        BY <1>4, <1>11, <2>1
<1>12. table[1..n] \in X
    <2> HIDE DEF Folds
    <2> QED
        BY <1>1, <1>4, <1>5, <1>10, <1>11, FoldStays
<1> QED
    BY <1>1, <1>2, <1>12 DEF X

-----------------------------------------------------------------------------
(* Live text: what the session, the sockets and the editors hold.          *)

\* Accepted, of a list of operations.
Chars(operations) ==
    ToSet(InitialText) \cup UNION { ToSet(operations[i].op.text) : i \in DOMAIN operations }

\* The texts that a session with these operations has had.
Texts(operations) == { TextIn(InitialText, operations, r) : r \in 0..Len(operations) }

\* The messages, and the accepted operations, whose number is their client's.
Messages(owner) ==
    { m \in [ type : {"op"}, client : Client, client_operation_id : DOMAIN owner,
              base_revision : Nat, op : TextOperation ] :
        m.client = owner[m.client_operation_id] }

Taken(owner) ==
    { a \in [ server_revision : Nat, client : Client, client_operation_id : DOMAIN owner,
              op : TextOperation ] :
        a.client = owner[a.client_operation_id] }

IsLive(s, owner) ==
    /\ s \in [ document_version : Nat, text : Seq(Char), revision : Nat,
               operations : Seq(Taken(owner)) ]
    /\ s.revision = Len(s.operations)
    /\ s.text = TextIn(InitialText, s.operations, s.revision)
    /\ Distinct(s.operations)
    /\ \A t \in Texts(s.operations) : t \in Seq(Char) /\ ToSet(t) \subseteq Chars(s.operations)

LEMMA NewIsLive ==
    ASSUME TextAssumption, NEW owner
    PROVE  IsLive(NewSession(1, InitialText), owner)
<1> DEFINE s == NewSession(1, InitialText)
<1>1. /\ s = [document_version |-> 1, text |-> InitialText, revision |-> 0, operations |-> << >>]
      /\ s.document_version = 1 /\ s.text = InitialText /\ s.revision = 0 /\ s.operations = << >>
    BY DEF NewSession
<1> HIDE DEF s
<1>2. InitialText \in Seq(Char)
    BY TextAssumption DEF Char
<1>3. /\ << >> \in Seq(Taken(owner)) /\ Len(<< >>) = 0 /\ DOMAIN << >> = {}
    OBVIOUS
<1>4. TextIn(InitialText, << >>, 0) = InitialText
    <2>1. SubSeq(<< >>, 1, 0) = << >>
        BY SubSeqEmpty
    <2> QED
        BY <2>1, ReplayNothing DEF TextIn
<1>5. Texts(<< >>) = {InitialText}
    <2>1. 0..0 = {0}
        OBVIOUS
    <2> QED
        BY <1>3, <1>4, <2>1 DEF Texts
<1>6. Distinct(<< >>)
    BY <1>3 DEF Distinct
<1>7. ToSet(InitialText) \subseteq Chars(<< >>)
    BY DEF Chars
<1>8. s \in [ document_version : Nat, text : Seq(Char), revision : Nat, operations : Seq(Taken(owner)) ]
    BY <1>1, <1>2, <1>3
<1>9. IsLive(s, owner)
    BY <1>1, <1>2, <1>3, <1>4, <1>5, <1>6, <1>7, <1>8 DEF IsLive
<1> QED
    BY <1>9 DEF s

\* The list of operations is no longer than what was sent.
LEMMA TakenAreFew ==
    ASSUME NEW k \in Nat, NEW owner \in [1..k -> Client], NEW operations \in Seq(Taken(owner)),
           Distinct(operations)
    PROVE  Len(operations) <= k
<1> DEFINE n == Len(operations)
           f == [i \in 1..n |-> operations[i].client_operation_id]
<1>1. n \in Nat /\ DOMAIN operations = 1..n /\ DOMAIN owner = 1..k
    BY LenProperties
<1>2. \A i \in 1..n : /\ operations[i].client_operation_id \in 1..k
                      /\ operations[i].client = owner[operations[i].client_operation_id]
    <2> SUFFICES ASSUME NEW i \in 1..n
                 PROVE  /\ operations[i].client_operation_id \in 1..k
                        /\ operations[i].client = owner[operations[i].client_operation_id]
        OBVIOUS
    <2>1. operations[i] \in Taken(owner)
        BY ElementOfSeq
    <2> QED
        BY <1>1, <2>1 DEF Taken
<1>3. \A i, j \in 1..n : operations[i].client_operation_id = operations[j].client_operation_id => i = j
    BY <1>1, <1>2 DEF Distinct
<1> HIDE DEF n
<1>4. f \in [1..n -> 1..k] /\ \A i, j \in 1..n : f[i] = f[j] => i = j
    BY <1>2, <1>3
<1> HIDE DEF f
<1>5. f \in Injection(1..n, 1..k)
    BY <1>4 DEF Injection, IsInjective
<1>6. /\ IsFiniteSet(1..k) /\ Cardinality(1..k) = k /\ Cardinality(1..n) = n
    <2> 1 \in Int /\ n \in Int /\ k \in Int
        BY <1>1
    <2>1. IsFiniteSet(1..k) /\ Cardinality(1..k) = IF 1 > k THEN 0 ELSE k - 1 + 1
        BY FS_Interval
    <2>2. Cardinality(1..n) = IF 1 > n THEN 0 ELSE n - 1 + 1
        BY FS_Interval
    <2> QED
        BY <1>1, <2>1, <2>2
<1>7. Cardinality(1..n) <= Cardinality(1..k)
    BY <1>5, <1>6, FS_Injection
<1> QED
    BY <1>6, <1>7 DEF n

\* One more operation on a list, that is not yet there.
LEMMA MoreTexts ==
    ASSUME NEW S, \A a \in S : a.op \in TextOperation, NEW operations \in Seq(S), NEW x \in S,
           \A t \in Texts(operations) : t \in Seq(Char) /\ ToSet(t) \subseteq Chars(operations),
           x.op.index <= Len(TextIn(InitialText, operations, Len(operations)))
    PROVE  LET more == Append(operations, x)
               text == ApplyText(TextIn(InitialText, operations, Len(operations)), x.op)
           IN  /\ \A r \in 0..Len(operations) :
                    TextIn(InitialText, more, r) = TextIn(InitialText, operations, r)
               /\ TextIn(InitialText, more, Len(operations) + 1) = text
               /\ Texts(more) = Texts(operations) \cup {text}
               /\ Chars(operations) \subseteq Chars(more)
               /\ \A t \in Texts(more) : t \in Seq(Char) /\ ToSet(t) \subseteq Chars(more)
<1> DEFINE n == Len(operations)
           more == Append(operations, x)
           last == TextIn(InitialText, operations, n)
           text == ApplyText(last, x.op)
<1>1. /\ n \in Nat /\ more \in Seq(S) /\ Len(more) = n + 1 /\ DOMAIN operations = 1..n
      /\ DOMAIN more = 1..(n + 1)
      /\ \A i \in 1..n : more[i] = operations[i]
      /\ more[n + 1] = x
    BY AppendProperties, LenProperties
<1>2. \A r \in 0..n : TextIn(InitialText, more, r) = TextIn(InitialText, operations, r)
    BY PrefixOfMore DEF TextIn
<1>3. SubSeq(operations, 1, n) = operations /\ SubSeq(more, 1, n + 1) = more
    BY <1>1, SubSeqFull
<1>4. IsSequence(operations)
    BY SequenceOf
<1>5. TextIn(InitialText, more, n + 1) = text
    <2>1. Replay(InitialText, more) = ApplyText(Replay(InitialText, operations), x.op)
        BY <1>4, ReplayOneMore
    <2>2. /\ TextIn(InitialText, more, n + 1) = Replay(InitialText, more)
          /\ last = Replay(InitialText, operations)
        BY <1>3 DEF TextIn
    <2> QED
        BY <2>1, <2>2
<1>6. last \in Seq(Char) /\ ToSet(last) \subseteq Chars(operations) /\ x.op \in TextOperation
    <2>1. n \in 0..n
        BY <1>1
    <2>2. last \in Texts(operations)
        BY <2>1 DEF Texts
    <2> QED
        BY <2>2
<1>7. text \in Seq(Char) /\ ToSet(text) \subseteq ToSet(last) \cup ToSet(x.op.text)
    BY <1>6, ApplyIsText
<1> HIDE DEF text, last, more, n
<1>8. Texts(more) = Texts(operations) \cup {text}
    <2>1. 0..(n + 1) = 0..n \cup {n + 1}
        BY <1>1
    <2>2. Texts(more) = { TextIn(InitialText, more, r) : r \in 0..n }
                            \cup {TextIn(InitialText, more, n + 1)}
        BY <1>1, <2>1 DEF Texts
    <2>3. { TextIn(InitialText, more, r) : r \in 0..n } = Texts(operations)
        BY <1>2 DEF Texts, n
    <2> QED
        BY <1>5, <2>2, <2>3
<1>9. Chars(operations) \subseteq Chars(more) /\ ToSet(x.op.text) \subseteq Chars(more)
    <2>1. \A i \in DOMAIN operations : i \in DOMAIN more /\ more[i].op.text = operations[i].op.text
        BY <1>1
    <2>2. n + 1 \in DOMAIN more /\ more[n + 1].op.text = x.op.text
        BY <1>1
    <2> QED
        BY <2>1, <2>2 DEF Chars
<1>10. \A t \in Texts(more) : t \in Seq(Char) /\ ToSet(t) \subseteq Chars(more)
    BY <1>6, <1>7, <1>8, <1>9
<1> QED
    BY <1>2, <1>5, <1>8, <1>9, <1>10 DEF text, last, more, n

\* What accepting a message does to a session that is not cut.
LEMMA AcceptingIsLive ==
    ASSUME NEW k \in Nat, k <= MAX_TEXT_SESSION_OPERATIONS, OperationsAssumption,
           NEW owner \in [1..k -> Client], NEW s, IsLive(s, owner),
           NEW message \in Messages(owner), Accepts(s, message)
    PROVE  LET after == Accepting(s, message, Transformed(s, message))
           IN  /\ IsLive(after, owner)
               /\ Len(after.operations) = Len(s.operations) + 1
               /\ \A r \in 0..Len(s.operations) :
                    TextIn(InitialText, after.operations, r) = TextIn(InitialText, s.operations, r)
               /\ Texts(s.operations) \subseteq Texts(after.operations)
               /\ Chars(s.operations) \subseteq Chars(after.operations)
<1> DEFINE op == Transformed(s, message)
           operations == s.operations
           x == [ server_revision |-> s.revision + 1, client |-> message.client,
                  client_operation_id |-> message.client_operation_id, op |-> op ]
           more == Append(operations, x)
           after == Accepting(s, message, op)
           n == Len(operations)
<1>1. /\ s \in [ document_version : Nat, text : Seq(Char), revision : Nat,
                 operations : Seq(Taken(owner)) ]
      /\ s.revision = n /\ n \in Nat /\ s.text = TextIn(InitialText, operations, n)
      /\ Distinct(operations) /\ operations \in Seq(Taken(owner))
      /\ \A t \in Texts(operations) : t \in Seq(Char) /\ ToSet(t) \subseteq Chars(operations)
    BY LenProperties DEF IsLive
<1>2. /\ message.op \in TextOperation /\ message.client \in Client
      /\ message.client_operation_id \in DOMAIN owner
      /\ message.client = owner[message.client_operation_id]
    BY DEF Messages
<1>3. \A a \in Taken(owner) : a.op \in TextOperation
    BY DEF Taken
<1>4. op \in TextOperation /\ op.index <= Len(s.text)
    <2>1. IsSequence(operations) /\ \A i \in 1..n : operations[i].op \in TextOperation
        BY <1>1, <1>3, SequenceOf, ElementOfSeq
    <2>2. op \in TextOperation \cup {Conflict}
        BY <1>2, <2>1, TransformedIsOperation
    <2>3. op # Conflict /\ WithinBounds(op, Len(s.text))
        BY DEF Accepts
    <2>4. Len(s.text) \in Nat
        BY <1>1, LenProperties
    <2> HIDE DEF op
    <2>5. op \in TextOperation /\ op.index \in Nat
        BY <2>2, <2>3 DEF TextOperation
    <2> QED
        BY <2>3, <2>4, <2>5 DEF WithinBounds
<1>5. x \in Taken(owner)
    BY <1>1, <1>2, <1>4 DEF Taken
<1>6. ~ \E i \in 1..n : /\ operations[i].client = x.client
                        /\ operations[i].client_operation_id = x.client_operation_id
    <2>1. ~AlreadyAccepted(s, message) /\ DOMAIN operations = 1..n
        BY <1>1, LenProperties DEF Accepts
    <2> QED
        BY <2>1 DEF AlreadyAccepted
<1>7. /\ after.operations = LastOf(more, MAX_TEXT_SESSION_OPERATIONS)
      /\ after.text = ApplyText(s.text, op) /\ after.revision = n + 1
      /\ after.document_version = s.document_version
      /\ DOMAIN after = DOMAIN s
      /\ after = [s EXCEPT !.text = after.text, !.revision = after.revision,
                           !.operations = after.operations]
    BY <1>1 DEF Accepting
<1> HIDE DEF x, after, op
<1>8. /\ more \in Seq(Taken(owner)) /\ Len(more) = n + 1 /\ DOMAIN more = 1..(n + 1)
      /\ \A i \in 1..n : more[i] = operations[i]
      /\ more[n + 1] = x
    BY <1>1, <1>5, AppendProperties, LenProperties
<1>9. Distinct(more)
    <2>1. \A i, j \in 1..n : operations[i].client = operations[j].client
            /\ operations[i].client_operation_id = operations[j].client_operation_id => i = j
        BY <1>1, LenProperties DEF Distinct
    <2> SUFFICES ASSUME NEW i \in 1..(n + 1), NEW j \in 1..(n + 1),
                        more[i].client = more[j].client,
                        more[i].client_operation_id = more[j].client_operation_id
                 PROVE  i = j
        BY <1>8 DEF Distinct
    <2>2. CASE i \in 1..n /\ j \in 1..n
        BY <1>8, <2>1, <2>2
    <2>3. CASE i = n + 1 /\ j \in 1..n
        BY <1>6, <1>8, <2>3
    <2>4. CASE j = n + 1 /\ i \in 1..n
        BY <1>6, <1>8, <2>4
    <2> QED
        BY <1>1, <2>2, <2>3, <2>4
<1>10. after.operations = more
    <2>1. Len(more) <= k
        BY <1>8, <1>9, TakenAreFew
    <2>2. Len(more) <= MAX_TEXT_SESSION_OPERATIONS /\ MAX_TEXT_SESSION_OPERATIONS \in Nat
        BY <1>1, <1>8, <2>1, OperationsAssumption
    <2> HIDE DEF more
    <2>3. LastOf(more, MAX_TEXT_SESSION_OPERATIONS) = more
        BY <1>8, <2>2, LastIsAll
    <2> QED
        BY <1>7, <2>3
<1>11. x.op = op
    BY DEF x
<1>12. /\ \A r \in 0..n : TextIn(InitialText, more, r) = TextIn(InitialText, operations, r)
       /\ TextIn(InitialText, more, n + 1) = ApplyText(s.text, op)
       /\ Texts(more) = Texts(operations) \cup {ApplyText(s.text, op)}
       /\ Chars(operations) \subseteq Chars(more)
       /\ \A t \in Texts(more) : t \in Seq(Char) /\ ToSet(t) \subseteq Chars(more)
    <2>1. x.op.index <= Len(TextIn(InitialText, operations, Len(operations)))
        BY <1>1, <1>4, <1>11
    <2>2. ApplyText(TextIn(InitialText, operations, n), x.op) = ApplyText(s.text, op)
        BY <1>1, <1>11
    <2> HIDE DEF operations
    <2>3. LET text == ApplyText(TextIn(InitialText, operations, Len(operations)), x.op)
          IN  /\ \A r \in 0..Len(operations) :
                    TextIn(InitialText, more, r) = TextIn(InitialText, operations, r)
              /\ TextIn(InitialText, more, Len(operations) + 1) = text
              /\ Texts(more) = Texts(operations) \cup {text}
              /\ Chars(operations) \subseteq Chars(more)
              /\ \A t \in Texts(more) : t \in Seq(Char) /\ ToSet(t) \subseteq Chars(more)
        BY <1>1, <1>3, <1>5, <2>1, MoreTexts
    <2> QED
        BY <2>2, <2>3
<1> HIDE DEF more, operations
<1>13. after \in [ document_version : Nat, text : Seq(Char), revision : Nat,
                   operations : Seq(Taken(owner)) ]
    <2>1. /\ after.text \in Seq(Char) /\ after.revision \in Nat /\ after.operations \in Seq(Taken(owner))
          /\ after.text = ApplyText(s.text, op)
        BY <1>1, <1>7, <1>8, <1>10, <1>12
    <2> QED
        BY <1>1, <1>7, <2>1
<1>14. IsLive(after, owner)
    BY <1>7, <1>8, <1>9, <1>10, <1>12, <1>13 DEF IsLive
<1> QED
    BY <1>8, <1>10, <1>12, <1>14 DEF after, op, operations, n

-----------------------------------------------------------------------------
(* The editors.                                                            *)

Editors ==
    [ buffer : Seq(Char), shadow : Seq(Char), revision : Nat, pending : BOOLEAN, resync : BOOLEAN,
      diff_due : BOOLEAN, join_due : BOOLEAN, reconnect_due : BOOLEAN ]

\* An editor with nothing unacknowledged has a text of the session for its shadow, and,
\* if sends come in order, the one of its revision.
IsEditor(b, operations, ordered) ==
    /\ b \in Editors /\ b.revision <= Len(operations)
    /\ ~b.pending /\ ~b.resync =>
        /\ b.shadow \in Texts(operations)
        /\ ordered => b.shadow = TextIn(InitialText, operations, b.revision)

\* What the server tells of the session.
Payloads(operations) ==
    [type : {"error"}, conflict : BOOLEAN]
    \cup { p \in [type : {"state"}, revision : 0..Len(operations), text : Seq(Char)]
                 \cup [ type : {"accepted"}, client : Client, revision : 0..Len(operations),
                        text : Seq(Char) ] :
            p.text = TextIn(InitialText, operations, p.revision) }

LEMMA DiffScheduledKeeps ==
    ASSUME NEW b \in Editors
    PROVE  /\ DiffScheduled(b) \in Editors /\ DiffScheduled(b).buffer = b.buffer
           /\ DiffScheduled(b).shadow = b.shadow /\ DiffScheduled(b).revision = b.revision
           /\ DiffScheduled(b).pending = b.pending /\ DiffScheduled(b).resync = b.resync
    BY DEF DiffScheduled, Editors

\* What a payload does to an editor: its buffer is replaced only by a text of the session,
\* and only when it showed one.
LEMMA ReceivedIsEditor ==
    ASSUME NEW ordered \in BOOLEAN, NEW operations, Len(operations) \in Nat, NEW c \in Client,
           NEW b, IsEditor(b, operations, ordered), NEW p \in Payloads(operations),
           ordered /\ p.type # "error" => b.revision <= p.revision,
           \A t \in Texts(operations) : t \in Seq(Char) /\ ToSet(t) \subseteq Chars(operations)
    PROVE  LET after == Received(b, c, p)
           IN  /\ IsEditor(after, operations, ordered)
               /\ p.type = "error" => after.revision = b.revision
               /\ ordered /\ p.type # "error" => after.revision = p.revision
               /\ ToSet(b.buffer) \subseteq ToSet(after.buffer) \cup Chars(operations)
<1> DEFINE after == Received(b, c, p)
<1>1. b \in Editors /\ b.revision \in Nat
    BY DEF IsEditor, Editors
<1>2. ~HasLocalBuffer(b) => ToSet(b.buffer) \subseteq Chars(operations)
    BY DEF IsEditor, HasLocalBuffer, Dirty
<1>3. CASE p.type = "error"
    <2>1. after = AppliedError(b, p) /\ p.conflict \in BOOLEAN
        BY <1>3 DEF Received, Payloads
    <2>2. /\ after \in Editors /\ after.revision = b.revision /\ after.buffer = b.buffer
          /\ after.shadow = b.shadow /\ ~after.pending
          /\ after.resync = (b.resync \/ b.pending)
        BY <1>1, <2>1 DEF AppliedError, Unacknowledged, Editors
    <2> HIDE DEF after
    <2>3. IsEditor(after, operations, ordered)
        BY <2>2 DEF IsEditor
    <2>4. p.type = "error" => after.revision = b.revision
        BY <2>2
    <2>5. ToSet(b.buffer) \subseteq ToSet(after.buffer) \cup Chars(operations)
        BY <2>2
    <2> QED
        BY <1>3, <2>3, <2>4, <2>5 DEF after
<1>4. CASE p.type # "error"
    <2>1. /\ p.type \in {"state", "accepted"}
          /\ p.revision \in 0..Len(operations)
          /\ p.text \in Seq(Char)
          /\ p.text = TextIn(InitialText, operations, p.revision)
        BY <1>4 DEF Payloads
    <2>2. p.text \in Texts(operations)
        BY <2>1 DEF Texts
    <2>3. Larger(b.revision, p.revision) \in Nat /\ Larger(b.revision, p.revision) <= Len(operations)
          /\ (ordered => Larger(b.revision, p.revision) = p.revision)
        BY <1>1, <1>4, <2>1 DEF Larger, IsEditor
    <2>4. /\ after \in Editors
          /\ after.shadow = p.text
          /\ after.revision \in {p.revision, Larger(b.revision, p.revision)}
          /\ after.buffer \in {b.buffer, p.text}
          /\ HasLocalBuffer(b) => after.buffer = b.buffer
        <3>1. CASE p.type = "state"
            <4>1. after = AppliedState(b, p)
                BY <3>1 DEF Received
            <4> DEFINE joined == [b EXCEPT !.revision = p.revision, !.shadow = p.text,
                                           !.pending = FALSE, !.resync = FALSE]
            <4>2. /\ joined \in Editors /\ joined.buffer = b.buffer /\ joined.shadow = p.text
                  /\ joined.revision = p.revision
                <5>1. p.revision \in Nat /\ p.text \in Seq(Char)
                    BY <2>1
                <5>2. \A r \in Nat, t \in Seq(Char) :
                        [b EXCEPT !.revision = r, !.shadow = t, !.pending = FALSE, !.resync = FALSE]
                            \in Editors
                    BY <1>1 DEF Editors
                <5>3. joined \in Editors
                    BY <5>1, <5>2
                <5> QED
                    BY <1>1, <5>3 DEF Editors
            <4>3. [joined EXCEPT !.buffer = p.text] \in Editors
                BY <2>1, <4>2 DEF Editors
            <4>4. after = IF HasLocalBuffer(b) THEN DiffScheduled(joined)
                          ELSE [joined EXCEPT !.buffer = p.text]
                BY <4>1 DEF AppliedState
            <4> HIDE DEF joined, after
            <4>5. CASE HasLocalBuffer(b)
                BY <4>2, <4>4, <4>5, DiffScheduledKeeps
            <4>6. CASE ~HasLocalBuffer(b)
                <5>1. /\ after.buffer = p.text /\ after.shadow = joined.shadow
                      /\ after.revision = joined.revision /\ after \in Editors
                    BY <4>2, <4>3, <4>4, <4>6 DEF Editors
                <5> QED
                    BY <4>2, <4>6, <5>1
            <4> QED
                BY <4>5, <4>6
        <3>2. CASE p.type = "accepted"
            <4>1. after = AppliedAccepted(b, c, p)
                BY <3>2 DEF Received
            <4> QED
                BY <1>1, <2>1, <2>3, <4>1 DEF AppliedAccepted, FinishLocal, DiffScheduled, Editors
        <3> QED
            BY <2>1, <3>1, <3>2
    <2> HIDE DEF after
    <2>5. after.revision <= Len(operations) /\ (ordered => after.revision = p.revision)
        BY <2>1, <2>3, <2>4
    <2>6. IsEditor(after, operations, ordered)
        BY <2>1, <2>2, <2>4, <2>5 DEF IsEditor
    <2>7. ToSet(b.buffer) \subseteq ToSet(after.buffer) \cup Chars(operations)
        BY <1>2, <2>4
    <2> QED
        BY <1>4, <2>5, <2>6, <2>7 DEF after
<1> QED
    BY <1>3, <1>4

-----------------------------------------------------------------------------
(* The sockets.                                                            *)

\* What waits for a browser tells of revisions in their order, from the browser's on.
InOrder(revision, q) ==
    /\ \A i \in DOMAIN q : q[i].type # "error" => revision <= q[i].revision
    /\ \A i, j \in DOMAIN q : i < j /\ q[i].type # "error" /\ q[j].type # "error"
                                => q[i].revision <= q[j].revision

LEMMA PayloadRevision ==
    ASSUME NEW operations, Len(operations) \in Nat, NEW p \in Payloads(operations),
           p.type # "error"
    PROVE  p.revision \in Nat /\ p.revision <= Len(operations)
    BY DEF Payloads

LEMMA InOrderAppend ==
    ASSUME NEW operations, Len(operations) \in Nat, NEW r \in Nat, r <= Len(operations),
           NEW q \in Seq(Payloads(operations)), InOrder(r, q), NEW p \in Payloads(operations),
           p.type # "error" => p.revision = Len(operations)
    PROVE  InOrder(r, Append(q, p))
<1> DEFINE more == Append(q, p)
           n == Len(q)
<1>1. /\ n \in Nat /\ DOMAIN q = 1..n /\ DOMAIN more = 1..(n + 1)
      /\ \A i \in 1..n : more[i] = q[i]
      /\ more[n + 1] = p
    BY AppendProperties, LenProperties
<1>2. ASSUME NEW i \in 1..n, q[i].type # "error"
      PROVE  q[i].revision \in Nat /\ q[i].revision <= Len(operations) /\ r <= q[i].revision
    <2>1. q[i] \in Payloads(operations)
        BY ElementOfSeq
    <2> QED
        BY <1>1, <1>2, <2>1, PayloadRevision DEF InOrder
<1> HIDE DEF more, n
<1>3. ASSUME NEW i \in 1..(n + 1), more[i].type # "error"
      PROVE  r <= more[i].revision
    <2>1. CASE i = n + 1
        BY <1>1, <1>3, <2>1
    <2>2. CASE i # n + 1
        <3>1. i \in 1..n
            BY <1>1, <2>2
        <3> QED
            BY <1>1, <1>2, <1>3, <3>1
    <2> QED
        BY <2>1, <2>2
<1>4. ASSUME NEW i \in 1..(n + 1), NEW j \in 1..(n + 1), i < j,
             more[i].type # "error", more[j].type # "error"
      PROVE  more[i].revision <= more[j].revision
    <2>1. i \in 1..n
        BY <1>1, <1>4
    <2>2. CASE j = n + 1
        <3>1. more[j] = p /\ p.revision = Len(operations)
            BY <1>1, <1>4, <2>2
        <3> QED
            BY <1>1, <1>2, <1>4, <2>1, <3>1
    <2>3. CASE j # n + 1
        <3>1. j \in 1..n
            BY <1>1, <2>3
        <3> QED
            BY <1>1, <1>4, <2>1, <3>1 DEF InOrder
    <2> QED
        BY <2>2, <2>3
<1> QED
    BY <1>1, <1>3, <1>4 DEF InOrder, more

LEMMA InOrderTail ==
    ASSUME NEW operations, Len(operations) \in Nat, NEW r \in Nat,
           NEW q \in Seq(Payloads(operations)), q # << >>, InOrder(r, q)
    PROVE  /\ Head(q) \in Payloads(operations) /\ Tail(q) \in Seq(Payloads(operations))
           /\ Head(q).type # "error" => r <= Head(q).revision
           /\ Head(q).type = "error" => InOrder(r, Tail(q))
           /\ Head(q).type # "error" => InOrder(Head(q).revision, Tail(q))
<1>1. /\ Len(q) \in Nat /\ DOMAIN q = 1..Len(q) /\ Len(q) # 0
      /\ Head(q) \in Payloads(operations) /\ Tail(q) \in Seq(Payloads(operations))
      /\ Len(Tail(q)) = Len(q) - 1 /\ \A i \in 1..Len(Tail(q)) : Tail(q)[i] = q[i + 1]
      /\ DOMAIN Tail(q) = 1..Len(Tail(q))
    BY HeadTailProperties, LenProperties, EmptySeq
<1>2. Head(q) = q[1] /\ 1 \in DOMAIN q
    BY <1>1
<1>3. \A i \in DOMAIN Tail(q) : i \in Nat /\ i + 1 \in DOMAIN q /\ 1 < i + 1 /\ Tail(q)[i] = q[i + 1]
    BY <1>1
<1> DEFINE t == Tail(q)
           h == Head(q)
<1> HIDE DEF t, h
<1>4. \A i, j \in DOMAIN t : i < j /\ t[i].type # "error" /\ t[j].type # "error"
                                => t[i].revision <= t[j].revision
    <2> SUFFICES ASSUME NEW i \in DOMAIN t, NEW j \in DOMAIN t, i < j,
                        t[i].type # "error", t[j].type # "error"
                 PROVE  t[i].revision <= t[j].revision
        OBVIOUS
    <2>1. i + 1 < j + 1 /\ t[i] = q[i + 1] /\ t[j] = q[j + 1] /\ i + 1 \in DOMAIN q /\ j + 1 \in DOMAIN q
        BY <1>3 DEF t
    <2> QED
        BY <2>1 DEF InOrder
<1>5. h.type # "error" => r <= h.revision
    BY <1>2 DEF InOrder, h
<1>6. \A i \in DOMAIN t : t[i].type # "error" => r <= t[i].revision
    BY <1>3 DEF InOrder, t
<1>7. h.type # "error" => \A i \in DOMAIN t : t[i].type # "error" => h.revision <= t[i].revision
    <2> SUFFICES ASSUME h.type # "error", NEW i \in DOMAIN t, t[i].type # "error"
                 PROVE  h.revision <= t[i].revision
        OBVIOUS
    <2>1. t[i] = q[i + 1] /\ h = q[1] /\ 1 \in DOMAIN q /\ i + 1 \in DOMAIN q /\ 1 < i + 1
        BY <1>2, <1>3 DEF t, h
    <2> QED
        BY <2>1 DEF InOrder
<1> QED
    BY <1>1, <1>4, <1>5, <1>6, <1>7 DEF InOrder, t, h

LEMMA PayloadsGrow ==
    ASSUME NEW operations, NEW more, Len(operations) \in Nat, Len(more) \in Nat,
           Len(operations) <= Len(more),
           \A r \in 0..Len(operations) : TextIn(InitialText, more, r) = TextIn(InitialText, operations, r)
    PROVE  Payloads(operations) \subseteq Payloads(more)
<1> SUFFICES ASSUME NEW p \in Payloads(operations)
             PROVE  p \in Payloads(more)
    OBVIOUS
<1>1. 0..Len(operations) \subseteq 0..Len(more)
    OBVIOUS
<1>2. CASE p \in [type : {"error"}, conflict : BOOLEAN]
    BY <1>2 DEF Payloads
<1>3. CASE p \in [type : {"state"}, revision : 0..Len(operations), text : Seq(Char)]
           /\ p.text = TextIn(InitialText, operations, p.revision)
    BY <1>1, <1>3 DEF Payloads
<1>4. CASE p \in [ type : {"accepted"}, client : Client, revision : 0..Len(operations), text : Seq(Char) ]
           /\ p.text = TextIn(InitialText, operations, p.revision)
    BY <1>1, <1>4 DEF Payloads
<1> QED
    BY <1>2, <1>3, <1>4 DEF Payloads

LEMMA EditorGrows ==
    ASSUME NEW ordered \in BOOLEAN, NEW operations, NEW more, Len(operations) \in Nat,
           Len(more) \in Nat, Len(operations) <= Len(more),
           \A r \in 0..Len(operations) : TextIn(InitialText, more, r) = TextIn(InitialText, operations, r),
           NEW b, IsEditor(b, operations, ordered)
    PROVE  IsEditor(b, more, ordered)
<1>1. Texts(operations) \subseteq Texts(more)
    BY DEF Texts
<1>2. b.revision \in 0..Len(operations) /\ b.revision <= Len(more)
    BY DEF IsEditor, Editors
<1> QED
    BY <1>1, <1>2 DEF IsEditor

-----------------------------------------------------------------------------
(* The invariant.                                                          *)

\* Sends are not overtaken.
Ordered == "interleaved" \notin conditions

\* Every operation on its way or accepted has a number of its own client.
Posted(owner, s, u, l) ==
    /\ IsLive(s, owner)
    /\ u \in [Client -> Seq({JoinMessage} \cup Messages(owner))]
    /\ l \in [Client -> Seq(Messages(owner))]

\* Every payload on its way tells a text the session has had.
Told(operations, d, broadcasts) ==
    /\ d \in [Client -> Seq(Payloads(operations))]
    /\ \A b \in broadcasts : DOMAIN b = {"payload", "from", "to"} /\ b.payload \in Payloads(operations)

Shown(operations, e, ordered) ==
    /\ e \in [Client -> Editors]
    /\ \A c \in Client : IsEditor(e[c], operations, ordered)

Sequenced(e, d, broadcasts) ==
    /\ broadcasts = {}
    /\ \A c \in Client : InOrder(e[c].revision, d[c])

LiveInv ==
    /\ edits \in Nat /\ sent \in Nat /\ sent <= MaxSent
    /\ \E owner \in [1..sent -> Client] : Posted(owner, session, up, late)
    /\ Told(session.operations, down, sending)
    /\ Shown(session.operations, browser, Ordered)
    /\ Ordered => Sequenced(browser, down, sending)

\* The list of a session that keeps every operation sent.
NotCut == MaxSent <= MAX_TEXT_SESSION_OPERATIONS

LEMMA LiveFacts ==
    ASSUME NEW s, NEW owner, IsLive(s, owner)
    PROVE  /\ s.operations \in Seq(Taken(owner)) /\ Len(s.operations) \in Nat
           /\ s.revision = Len(s.operations) /\ s.text \in Seq(Char)
           /\ s.text = TextIn(InitialText, s.operations, s.revision)
           /\ \A t \in Texts(s.operations) : t \in Seq(Char) /\ ToSet(t) \subseteq Chars(s.operations)
    BY LenProperties DEF IsLive

LEMMA LiveInvInit ==
    ASSUME TextAssumption, Init
    PROVE  LiveInv
<1>1. PICK owner \in [1..0 -> Client] : TRUE
    <2> 1..0 = {}
        OBVIOUS
    <2>1. [i \in 1..0 |-> {}] \in [1..0 -> Client]
        OBVIOUS
    <2> QED
        BY <2>1
<1>2. IsLive(session, owner) /\ session.operations = << >> /\ session.revision = 0
      /\ session.text = InitialText
    BY NewIsLive DEF Init, NewSession
<1>3. Posted(owner, session, up, late)
    <2>1. /\ << >> \in Seq({JoinMessage} \cup Messages(owner)) /\ << >> \in Seq(Messages(owner))
        OBVIOUS
    <2> QED
        BY <1>2, <2>1 DEF Posted, Init
<1>4. Told(session.operations, down, sending)
    <2>1. << >> \in Seq(Payloads(session.operations))
        OBVIOUS
    <2> QED
        BY <2>1 DEF Told, Init
<1>5. Len(session.operations) = 0 /\ InitialText \in Seq(Char)
    BY <1>2, TextAssumption DEF Char
<1>6. Editor \in Editors /\ Editor.revision = 0 /\ Editor.shadow = InitialText
    BY <1>5 DEF Editor, Editors
<1>7. InitialText = TextIn(InitialText, session.operations, 0)
    BY <1>2, LiveFacts
<1>8. InitialText \in Texts(session.operations)
    BY <1>5, <1>7 DEF Texts
<1>9. Shown(session.operations, browser, Ordered)
    <2>1. IsEditor(Editor, session.operations, Ordered)
        BY <1>5, <1>6, <1>7, <1>8 DEF IsEditor
    <2> QED
        BY <1>6, <2>1 DEF Shown, Init
<1>10. Ordered => Sequenced(browser, down, sending)
    <2>1. \A r : InOrder(r, << >>)
        BY DEF InOrder
    <2> QED
        BY <2>1 DEF Sequenced, Init
<1>11. edits \in Nat /\ sent = 0 /\ sent \in Nat /\ sent <= MaxSent
    BY TextAssumption DEF Init
<1> QED
    BY <1>3, <1>4, <1>9, <1>10, <1>11 DEF LiveInv

-----------------------------------------------------------------------------
(* One more number.                                                        *)

\* The next number is c's.
OneMore(owner, k, c) == [i \in 1..(k + 1) |-> IF i = k + 1 THEN c ELSE owner[i]]

LEMMA OwnerGrows ==
    ASSUME NEW k \in Nat, NEW owner \in [1..k -> Client], NEW c \in Client
    PROVE  LET new == OneMore(owner, k, c)
           IN  /\ new \in [1..(k + 1) -> Client] /\ new[k + 1] = c
               /\ Messages(owner) \subseteq Messages(new)
               /\ Taken(owner) \subseteq Taken(new)
<1> DEFINE new == OneMore(owner, k, c)
<1>1. /\ new \in [1..(k + 1) -> Client] /\ new[k + 1] = c
      /\ DOMAIN owner = 1..k /\ DOMAIN new = 1..(k + 1)
      /\ \A i \in 1..k : i \in 1..(k + 1) /\ new[i] = owner[i]
    <2>1. \A i \in 1..(k + 1) : (IF i = k + 1 THEN c ELSE owner[i]) \in Client
        BY SMT
    <2>2. k + 1 \in 1..(k + 1) /\ \A i \in 1..k : i \in 1..(k + 1) /\ i # k + 1
        OBVIOUS
    <2> QED
        BY <2>1, <2>2 DEF OneMore
<1> HIDE DEF new
<1>2. Messages(owner) \subseteq Messages(new)
    BY <1>1 DEF Messages
<1>3. Taken(owner) \subseteq Taken(new)
    BY <1>1 DEF Taken
<1> QED
    BY <1>1, <1>2, <1>3 DEF new

LEMMA LiveWithMore ==
    ASSUME NEW owner, NEW new, Taken(owner) \subseteq Taken(new), NEW s, IsLive(s, owner)
    PROVE  IsLive(s, new)
<1>1. s.operations \in Seq(Taken(new))
    BY SeqMonotonic DEF IsLive
<1>2. s \in [document_version : Nat, text : Seq(Char), revision : Nat, operations : Seq(Taken(new))]
    BY <1>1 DEF IsLive
<1> QED
    BY <1>2 DEF IsLive

LEMMA PostedWithMore ==
    ASSUME NEW owner, NEW new, Taken(owner) \subseteq Taken(new), Messages(owner) \subseteq Messages(new),
           NEW s, NEW u, NEW l, Posted(owner, s, u, l)
    PROVE  Posted(new, s, u, l)
<1>1. IsLive(s, new)
    BY LiveWithMore DEF Posted
<1>2. u \in [Client -> Seq({JoinMessage} \cup Messages(new))]
    <2>1. \A c \in Client : u[c] \in Seq({JoinMessage} \cup Messages(owner))
        BY DEF Posted
    <2>2. {JoinMessage} \cup Messages(owner) \subseteq {JoinMessage} \cup Messages(new)
        OBVIOUS
    <2> DEFINE M == {JoinMessage} \cup Messages(owner)
               N == {JoinMessage} \cup Messages(new)
    <2>3. \A c \in Client : u[c] \in Seq(M)
        BY <2>1
    <2>4. M \subseteq N /\ u \in [Client -> Seq(M)]
        BY <2>2 DEF Posted
    <2> HIDE DEF M, N
    <2>5. \A c \in Client : u[c] \in Seq(N)
        BY <2>3, <2>4, SeqMonotonic
    <2>6. u \in [Client -> Seq(N)]
        BY <2>4, <2>5
    <2> QED
        BY <2>6 DEF N
<1>3. l \in [Client -> Seq(Messages(new))]
    <2> DEFINE M == Messages(owner)
               N == Messages(new)
    <2>1. M \subseteq N /\ l \in [Client -> Seq(M)]
        BY DEF Posted
    <2> HIDE DEF M, N
    <2>2. \A c \in Client : l[c] \in Seq(N)
        BY <2>1, SeqMonotonic
    <2>3. l \in [Client -> Seq(N)]
        BY <2>1, <2>2
    <2> QED
        BY <2>3 DEF N
<1> QED
    BY <1>1, <1>2, <1>3 DEF Posted

-----------------------------------------------------------------------------
(* The browser's steps.                                                    *)

\* An editor in the place of one of the same revision.
LEMMA EditorReplaced ==
    ASSUME NEW operations, NEW ordered, NEW e, Shown(operations, e, ordered), NEW c \in Client,
           NEW b, IsEditor(b, operations, ordered)
    PROVE  /\ Shown(operations, [e EXCEPT ![c] = b], ordered)
           /\ \A d, x : Sequenced(e, d, x) /\ b.revision = e[c].revision
                        => Sequenced([e EXCEPT ![c] = b], d, x)
<1>1. b \in Editors
    BY DEF IsEditor
<1>2. Shown(operations, [e EXCEPT ![c] = b], ordered)
    BY <1>1 DEF Shown
<1>3. ASSUME NEW d, NEW x, Sequenced(e, d, x), b.revision = e[c].revision
      PROVE  Sequenced([e EXCEPT ![c] = b], d, x)
    <2>1. e \in [Client -> Editors]
        BY DEF Shown
    <2>2. \A a \in Client : [e EXCEPT ![c] = b][a].revision = e[a].revision
        BY <1>3, <2>1
    <2> QED
        BY <1>3, <2>2 DEF Sequenced
<1> QED
    BY <1>2, <1>3

\* handleLiveTextInput, of an editor of the same revision.
LEMMA HandleInputKeeps ==
    ASSUME LiveInv, NEW c \in Client, NEW b, IsEditor(b, session.operations, Ordered),
           b.revision = browser[c].revision, HandleInput(c, b), TextAssumption,
           edits' \in Nat, UNCHANGED <<conditions, session, down, late, sending>>
    PROVE  LiveInv'
<1> DEFINE operations == session.operations
<1>1. /\ Shown(operations, browser, Ordered) /\ Told(operations, down, sending)
      /\ Ordered => Sequenced(browser, down, sending)
      /\ sent \in Nat /\ sent <= MaxSent /\ MaxSent \in Nat
    BY TextAssumption DEF LiveInv
<1>2. PICK owner \in [1..sent -> Client] : Posted(owner, session, up, late)
    BY DEF LiveInv
<1>3. b \in Editors /\ b.buffer \in Seq(Char) /\ b.shadow \in Seq(Char) /\ b.revision \in Nat
    BY DEF IsEditor, Editors
<1>4. Ordered' = Ordered /\ session' = session /\ down' = down /\ sending' = sending /\ late' = late
    BY DEF Ordered
<1>5. CASE open[c] /\ ~b.pending /\ Dirty(b)
    <2> DEFINE message == [ type |-> "op", client |-> c, client_operation_id |-> sent + 1,
                            base_revision |-> b.revision, op |-> DiffText(b.shadow, b.buffer) ]
               after == [b EXCEPT !.pending = TRUE, !.resync = FALSE, !.shadow = b.buffer]
               new == OneMore(owner, sent, c)
    <2>1. /\ sent < MaxSent
          /\ up' = [up EXCEPT ![c] = Append(@, message)]
          /\ browser' = [browser EXCEPT ![c] = after]
          /\ sent' = sent + 1
        BY <1>5 DEF HandleInput
    <2>2. /\ new \in [1..(sent + 1) -> Client] /\ new[sent + 1] = c
          /\ Messages(owner) \subseteq Messages(new)
          /\ Taken(owner) \subseteq Taken(new)
        BY <1>1, OwnerGrows
    <2> HIDE DEF new
    <2>3. message \in Messages(new)
        <3>1. DiffText(b.shadow, b.buffer) \in TextOperation
            BY <1>3, DiffIsOperation
        <3>2. sent + 1 \in DOMAIN new
            BY <1>1, <2>2
        <3> QED
            BY <1>3, <2>2, <3>1, <3>2 DEF Messages
    <2> HIDE DEF message
    <2>4. Posted(new, session, up, late)
        BY <1>2, <2>2, PostedWithMore
    <2>5. Posted(new, session', up', late')
        <3> DEFINE N == {JoinMessage} \cup Messages(new)
        <3>1. up \in [Client -> Seq(N)] /\ message \in N
            BY <2>3, <2>4 DEF Posted
        <3> HIDE DEF N
        <3>2. Append(up[c], message) \in Seq(N)
            BY <3>1, AppendProperties
        <3>3. up' \in [Client -> Seq(N)]
            BY <2>1, <3>1, <3>2
        <3> QED
            BY <1>4, <2>4, <3>3 DEF Posted, N
    <2>6. IsEditor(after, operations, Ordered) /\ after.revision = b.revision
        <3>1. /\ after \in Editors /\ after.revision = b.revision /\ after.pending
            BY <1>3 DEF Editors
        <3> HIDE DEF after
        <3> QED
            BY <3>1 DEF IsEditor
    <2> HIDE DEF after
    <2>7. Shown(operations, browser', Ordered)
        BY <1>1, <2>1, <2>6, EditorReplaced
    <2>8. Ordered => Sequenced(browser', down, sending)
        BY <1>1, <2>1, <2>6, EditorReplaced
    <2>9. sent' \in Nat /\ sent' <= MaxSent /\ new \in [1..sent' -> Client]
        BY <1>1, <2>1, <2>2
    <2> QED
        BY <1>1, <1>4, <2>5, <2>7, <2>8, <2>9 DEF LiveInv
<1>6. CASE ~(open[c] /\ ~b.pending /\ Dirty(b))
    <2>1. browser' = [browser EXCEPT ![c] = b] /\ up' = up /\ sent' = sent
        BY <1>6 DEF HandleInput
    <2>2. Shown(operations, browser', Ordered)
        BY <1>1, <2>1, EditorReplaced
    <2>3. Ordered => Sequenced(browser', down, sending)
        BY <1>1, <2>1, EditorReplaced
    <2> QED
        BY <1>1, <1>2, <1>4, <2>1, <2>2, <2>3 DEF LiveInv
<1> QED
    BY <1>5, <1>6

LEMMA EditKeeps ==
    ASSUME LiveInv, TextAssumption, NEW c \in Client, NEW text \in Edited(browser[c].buffer),
           Edit(c, text)
    PROVE  LiveInv'
<1> DEFINE b == [browser[c] EXCEPT !.buffer = text]
<1>1. /\ browser[c] \in Editors /\ IsEditor(browser[c], session.operations, Ordered) /\ edits \in Nat
    BY DEF LiveInv, Shown
<1>2. text \in Seq(Char)
    <2> browser[c].buffer \in Seq(Char)
        BY <1>1 DEF Editors
    <2> QED
        BY <1>1, EditedIsText
<1>3. /\ b \in Editors /\ b.revision = browser[c].revision /\ b.shadow = browser[c].shadow
      /\ b.pending = browser[c].pending /\ b.resync = browser[c].resync
    BY <1>1, <1>2 DEF Editors
<1>4. HandleInput(c, b) /\ edits' = edits + 1
      /\ UNCHANGED <<conditions, session, down, late, sending>>
    BY DEF Edit
<1> HIDE DEF b
<1>5. IsEditor(b, session.operations, Ordered)
    BY <1>1, <1>3 DEF IsEditor
<1>6. edits' \in Nat
    BY <1>1, <1>4
<1> QED
    BY <1>3, <1>4, <1>5, <1>6, HandleInputKeeps

LEMMA FireDiffKeeps ==
    ASSUME LiveInv, TextAssumption, NEW c \in Client, FireDiff(c)
    PROVE  LiveInv'
<1> DEFINE b == [browser[c] EXCEPT !.diff_due = FALSE]
<1>1. /\ browser[c] \in Editors /\ IsEditor(browser[c], session.operations, Ordered) /\ edits \in Nat
    BY DEF LiveInv, Shown
<1>2. /\ b \in Editors /\ b.revision = browser[c].revision /\ b.shadow = browser[c].shadow
      /\ b.pending = browser[c].pending /\ b.resync = browser[c].resync
    BY <1>1 DEF Editors
<1>3. HandleInput(c, b) /\ edits' \in Nat
      /\ UNCHANGED <<conditions, session, down, late, sending>>
    BY <1>1 DEF FireDiff
<1> HIDE DEF b
<1>4. IsEditor(b, session.operations, Ordered)
    BY <1>1, <1>2 DEF IsEditor
<1> QED
    BY <1>2, <1>3, <1>4, HandleInputKeeps

\* A payload is handled; what the buffer loses, the session had.
LEMMA ReceiveKeeps ==
    ASSUME LiveInv, NEW c \in Client, Receive(c)
    PROVE  /\ LiveInv'
           /\ \A d \in Client : ToSet(browser[d].buffer) \subseteq ToSet(browser'[d].buffer) \cup Accepted
<1> DEFINE operations == session.operations
           q == down[c]
           b == browser[c]
           after == Received(b, c, Head(q))
<1>1. /\ Shown(operations, browser, Ordered) /\ Told(operations, down, sending)
      /\ Ordered => Sequenced(browser, down, sending)
    BY DEF LiveInv
<1>2. PICK owner \in [1..sent -> Client] : Posted(owner, session, up, late)
    BY DEF LiveInv
<1>3. /\ Len(operations) \in Nat
      /\ \A t \in Texts(operations) : t \in Seq(Char) /\ ToSet(t) \subseteq Chars(operations)
    BY <1>2, LiveFacts DEF Posted
<1>4. /\ q # << >> /\ browser' = [browser EXCEPT ![c] = after]
      /\ down' = [down EXCEPT ![c] = Tail(q)]
      /\ Ordered' = Ordered /\ session' = session /\ sending' = sending /\ late' = late /\ up' = up
      /\ edits' = edits /\ sent' = sent
    BY DEF Receive, Ordered
<1>5. /\ browser \in [Client -> Editors] /\ IsEditor(b, operations, Ordered) /\ b.revision \in Nat
      /\ down \in [Client -> Seq(Payloads(operations))] /\ q \in Seq(Payloads(operations))
      /\ Ordered => InOrder(b.revision, q)
    BY <1>1 DEF Shown, Told, Sequenced, Editors
<1> HIDE DEF q
<1>6. /\ Head(q) \in Payloads(operations) /\ Tail(q) \in Seq(Payloads(operations))
    BY <1>4, <1>5, HeadTailProperties
<1>7. Ordered =>
      /\ Head(q).type # "error" => b.revision <= Head(q).revision
      /\ Head(q).type = "error" => InOrder(b.revision, Tail(q))
      /\ Head(q).type # "error" => InOrder(Head(q).revision, Tail(q))
    BY <1>3, <1>4, <1>5, InOrderTail
<1>8. /\ IsEditor(after, operations, Ordered)
      /\ Head(q).type = "error" => after.revision = b.revision
      /\ Ordered /\ Head(q).type # "error" => after.revision = Head(q).revision
      /\ ToSet(b.buffer) \subseteq ToSet(after.buffer) \cup Chars(operations)
    <2> DEFINE p == Head(q)
               ordered == Ordered
    <2>1. ordered \in BOOLEAN
        BY DEF Ordered
    <2>2. p \in Payloads(operations) /\ (ordered /\ p.type # "error" => b.revision <= p.revision)
        BY <1>6, <1>7
    <2>3. IsEditor(b, operations, ordered)
        BY <1>5
    <2> HIDE DEF p, ordered, b, operations
    <2>4. LET new == Received(b, c, p)
          IN  /\ IsEditor(new, operations, ordered)
              /\ p.type = "error" => new.revision = b.revision
              /\ ordered /\ p.type # "error" => new.revision = p.revision
              /\ ToSet(b.buffer) \subseteq ToSet(new.buffer) \cup Chars(operations)
        BY <1>3, <2>1, <2>2, <2>3, ReceivedIsEditor
    <2> QED
        BY <2>4 DEF p, ordered
<1> HIDE DEF after
<1>9. Shown(operations, browser', Ordered)
    BY <1>1, <1>4, <1>8, EditorReplaced
<1>10. Told(operations, down', sending')
    BY <1>1, <1>4, <1>5, <1>6 DEF Told
<1>11. ASSUME Ordered
       PROVE  Sequenced(browser', down', sending')
    <2>1. InOrder(after.revision, Tail(q))
        BY <1>7, <1>8, <1>11
    <2>2. sending = {} /\ \A d \in Client : InOrder(browser[d].revision, down[d])
        BY <1>1, <1>11 DEF Sequenced
    <2>3. \A d \in Client :
            /\ browser'[d] = IF d = c THEN after ELSE browser[d]
            /\ down'[d] = IF d = c THEN Tail(q) ELSE down[d]
        BY <1>4, <1>5
    <2>4. \A d \in Client : InOrder(browser'[d].revision, down'[d])
        BY <2>1, <2>2, <2>3
    <2> QED
        BY <1>4, <2>2, <2>4 DEF Sequenced
<1>12. LiveInv'
    BY <1>2, <1>4, <1>9, <1>10, <1>11 DEF LiveInv
<1>13. Accepted = Chars(operations)
    BY DEF Accepted, Chars
<1>14. \A d \in Client : browser'[d] = IF d = c THEN after ELSE browser[d]
    BY <1>4, <1>5
<1> QED
    BY <1>8, <1>12, <1>13, <1>14

\* A socket given up, or replaced.
LEMMA SocketKeeps ==
    ASSUME LiveInv, NEW c \in Client, NEW b, IsEditor(b, session.operations, Ordered),
           b.revision = browser[c].revision, browser' = [browser EXCEPT ![c] = b],
           NEW q \in Seq({JoinMessage}), GiveUp(c, q),
           UNCHANGED <<conditions, session, edits, sent>>
    PROVE  LiveInv'
<1> DEFINE operations == session.operations
<1>1. /\ Shown(operations, browser, Ordered) /\ Told(operations, down, sending)
      /\ Ordered => Sequenced(browser, down, sending)
    BY DEF LiveInv
<1>2. PICK owner \in [1..sent -> Client] : Posted(owner, session, up, late)
    BY DEF LiveInv
<1>3. /\ Ordered' = Ordered /\ session' = session /\ edits' = edits /\ sent' = sent
      /\ up' = [up EXCEPT ![c] = q] /\ down' = [down EXCEPT ![c] = << >>]
    BY DEF Ordered, GiveUp
<1>4. Shown(operations, browser', Ordered) /\ (Ordered => Sequenced(browser', down, sending))
    BY <1>1, EditorReplaced
<1>5. /\ \A s \in sending' : DOMAIN s = {"payload", "from", "to"} /\ s.payload \in Payloads(operations)
      /\ sending = {} => sending' = {}
    <2>1. sending' = { [s EXCEPT !.from = IF s.from = c THEN <<c>> ELSE s.from,
                                 !.to = { IF to = c THEN <<c>> ELSE to : to \in s.to }]
                        : s \in sending }
        BY DEF GiveUp
    <2>2. ASSUME NEW s \in sending, NEW from, NEW to
          PROVE  LET new == [s EXCEPT !.from = from, !.to = to]
                 IN  DOMAIN new = {"payload", "from", "to"} /\ new.payload \in Payloads(operations)
        BY <1>1 DEF Told
    <2> QED
        BY <2>1, <2>2
<1>6. Told(operations, down', sending') /\ (Ordered => Sequenced(browser', down', sending'))
    <2>1. \A r : InOrder(r, << >>)
        BY DEF InOrder
    <2>2. << >> \in Seq(Payloads(operations))
        OBVIOUS
    <2>3. /\ \A d \in Client : down'[d] = IF d = c THEN << >> ELSE down[d]
          /\ down' \in [Client -> Seq(Payloads(operations))]
        BY <1>1, <1>3, <2>2 DEF Told
    <2>4. Told(operations, down', sending')
        BY <1>5, <2>3 DEF Told
    <2> QED
        BY <1>4, <1>5, <2>1, <2>3, <2>4 DEF Sequenced
<1>7. Posted(owner, session, up', late')
    <2> DEFINE M == Messages(owner)
               N == {JoinMessage} \cup M
               old == up[c]
    <2>1. /\ up \in [Client -> Seq(N)] /\ late \in [Client -> Seq(M)] /\ IsLive(session, owner)
        BY <1>2 DEF Posted
    <2>2. q \in Seq(N)
        <3> {JoinMessage} \subseteq N
            OBVIOUS
        <3> HIDE DEF N
        <3> QED
            BY SeqMonotonic
    <2>3. \A m \in M : m.type = "op"
        BY DEF Messages
    <2>4. old \in Seq({JoinMessage} \cup M)
        BY <2>1
    <2> HIDE DEF old, M
    <2>5. Operations(old) \in Seq(M)
        BY <2>3, <2>4, OperationsAre
    <2>6. late[c] \o Operations(old) \in Seq(M)
        BY <2>1, <2>5, ConcatProperties
    <2>7. \/ late' = [late EXCEPT ![c] = late[c] \o Operations(old)]
          \/ late' = [late EXCEPT ![c] = late[c]]
        BY DEF old, GiveUp
    <2>8. late' \in [Client -> Seq(M)]
        BY <2>1, <2>6, <2>7
    <2> HIDE DEF N
    <2>9. up' \in [Client -> Seq(N)]
        BY <1>3, <2>1, <2>2
    <2> QED
        BY <2>1, <2>8, <2>9 DEF Posted, N, M
<1> QED
    BY <1>2, <1>3, <1>4, <1>6, <1>7 DEF LiveInv

LEMMA OpenSocketKeeps ==
    ASSUME LiveInv, NEW c \in Client, NEW b, IsEditor(b, session.operations, Ordered),
           b.revision = browser[c].revision, OpenSocket(c, b)
    PROVE  LiveInv'
<1>1. <<JoinMessage>> \in Seq({JoinMessage})
    OBVIOUS
<1> QED
    BY <1>1, SocketKeeps DEF OpenSocket

\* An operation given up is remembered: the shadow counts no longer.
LEMMA LostKeepsEditor ==
    ASSUME NEW operations, NEW ordered, NEW b, IsEditor(b, operations, ordered)
    PROVE  LET after == [Unacknowledged(b) EXCEPT !.reconnect_due = TRUE]
           IN  IsEditor(after, operations, ordered) /\ after.revision = b.revision
<1> DEFINE after == [Unacknowledged(b) EXCEPT !.reconnect_due = TRUE]
<1>1. b \in Editors
    BY DEF IsEditor
<1>2. /\ after \in Editors /\ after.revision = b.revision /\ after.shadow = b.shadow
      /\ ~after.pending /\ after.resync = (b.resync \/ b.pending)
    BY <1>1 DEF Unacknowledged, Editors
<1> HIDE DEF after
<1>3. IsEditor(after, operations, ordered)
    BY <1>2 DEF IsEditor
<1> QED
    BY <1>2, <1>3 DEF after

LEMMA ReconnectKeeps ==
    ASSUME LiveInv, NEW c \in Client, Reconnect(c)
    PROVE  LiveInv'
<1> DEFINE b == [browser[c] EXCEPT !.reconnect_due = FALSE]
<1>1. IsEditor(browser[c], session.operations, Ordered) /\ browser[c] \in Editors
    BY DEF LiveInv, Shown
<1>2. IsEditor(b, session.operations, Ordered) /\ b.revision = browser[c].revision
    BY <1>1 DEF IsEditor, Editors
<1>3. OpenSocket(c, b)
    BY DEF Reconnect
<1> HIDE DEF b
<1> QED
    BY <1>2, <1>3, OpenSocketKeeps

LEMMA LoseSocketKeeps ==
    ASSUME LiveInv, NEW c \in Client, LoseSocket(c)
    PROVE  LiveInv'
<1> DEFINE b == [Unacknowledged(browser[c]) EXCEPT !.reconnect_due = TRUE]
<1>1. IsEditor(browser[c], session.operations, Ordered)
    BY DEF LiveInv, Shown
<1>2. IsEditor(b, session.operations, Ordered) /\ b.revision = browser[c].revision
    BY <1>1, LostKeepsEditor
<1>3. /\ browser' = [browser EXCEPT ![c] = b] /\ GiveUp(c, << >>)
      /\ UNCHANGED <<conditions, session, edits, sent>>
    BY DEF LoseSocket
<1>4. << >> \in Seq({JoinMessage})
    OBVIOUS
<1> HIDE DEF b
<1> QED
    BY <1>2, <1>3, <1>4, SocketKeeps

LEMMA FireJoinKeeps ==
    ASSUME LiveInv, NEW c \in Client, FireJoin(c)
    PROVE  LiveInv'
<1> DEFINE b == [browser[c] EXCEPT !.join_due = FALSE]
           operations == session.operations
<1>1. IsEditor(browser[c], operations, Ordered) /\ browser[c] \in Editors
    BY DEF LiveInv, Shown
<1>2. IsEditor(b, operations, Ordered) /\ b.revision = browser[c].revision
    BY <1>1 DEF IsEditor, Editors
<1>3. CASE ~open[c]
    <2> OpenSocket(c, b)
        BY <1>3 DEF FireJoin
    <2> HIDE DEF b
    <2> QED
        BY <1>2, OpenSocketKeeps
<1>4. CASE open[c]
    <2>1. /\ browser' = [browser EXCEPT ![c] = b]
          /\ up' = [up EXCEPT ![c] = Append(@, JoinMessage)]
          /\ UNCHANGED <<conditions, session, down, late, sending, edits, sent>>
        <3> browser \in [Client -> Editors]
            BY DEF LiveInv, Shown
        <3> QED
            BY <1>4 DEF FireJoin
    <2>2. Ordered' = Ordered
        BY <2>1 DEF Ordered
    <2>3. /\ Shown(operations, browser, Ordered) /\ Told(operations, down, sending)
          /\ Ordered => Sequenced(browser, down, sending)
        BY DEF LiveInv
    <2>4. PICK owner \in [1..sent -> Client] : Posted(owner, session, up, late)
        BY DEF LiveInv
    <2> HIDE DEF b
    <2>5. Shown(operations, browser', Ordered) /\ (Ordered => Sequenced(browser', down, sending))
        BY <1>2, <2>1, <2>3, EditorReplaced
    <2>6. Posted(owner, session, up', late)
        <3> DEFINE N == {JoinMessage} \cup Messages(owner)
        <3>1. up \in [Client -> Seq(N)] /\ JoinMessage \in N
            BY <2>4 DEF Posted
        <3> HIDE DEF N
        <3>2. Append(up[c], JoinMessage) \in Seq(N)
            BY <3>1, AppendProperties
        <3>3. up' \in [Client -> Seq(N)]
            BY <2>1, <3>1, <3>2
        <3> QED
            BY <2>4, <3>3 DEF Posted, N
    <2> QED
        BY <2>1, <2>2, <2>3, <2>4, <2>5, <2>6 DEF LiveInv
<1> QED
    BY <1>3, <1>4

-----------------------------------------------------------------------------
(* The server's steps.                                                     *)

\* One payload more for one socket.
LEMMA TellKeeps ==
    ASSUME NEW operations, Len(operations) \in Nat, NEW ordered, Shown(operations, browser, ordered),
           Told(operations, down, sending), ordered => Sequenced(browser, down, sending),
           NEW p \in Payloads(operations), p.type # "error" => p.revision = Len(operations),
           NEW c, Tell(c, p)
    PROVE  /\ Told(operations, down', sending)
           /\ ordered => Sequenced(browser, down', sending)
<1>1. /\ down \in [Client -> Seq(Payloads(operations))] /\ down' = [down EXCEPT ![c] = Append(@, p)]
    BY DEF Told, Tell
<1>2. CASE c \notin Client
    <2> down' = down
        BY <1>1, <1>2
    <2> QED
        OBVIOUS
<1>3. CASE c \in Client
    <2>1. Append(down[c], p) \in Seq(Payloads(operations))
        BY <1>1, <1>3, AppendProperties
    <2>2. /\ down' \in [Client -> Seq(Payloads(operations))]
          /\ \A d \in Client : down'[d] = IF d = c THEN Append(down[c], p) ELSE down[d]
        BY <1>1, <1>3, <2>1
    <2>3. ASSUME ordered
          PROVE  Sequenced(browser, down', sending)
        <3>1. sending = {} /\ \A d \in Client : InOrder(browser[d].revision, down[d])
            BY <2>3 DEF Sequenced
        <3>2. browser[c].revision \in Nat /\ browser[c].revision <= Len(operations)
            BY <1>3 DEF Shown, IsEditor, Editors
        <3> DEFINE r == browser[c].revision
                   q == down[c]
        <3>3. q \in Seq(Payloads(operations)) /\ InOrder(r, q)
            BY <1>1, <1>3, <3>1
        <3> HIDE DEF r, q
        <3>4. InOrder(r, Append(q, p))
            BY <3>2, <3>3, InOrderAppend DEF r
        <3> QED
            BY <2>2, <3>1, <3>4 DEF Sequenced, r, q
    <2> QED
        BY <2>2, <2>3 DEF Told
<1> QED
    BY <1>2, <1>3

\* A broadcast of what the session is now.
LEMMA BroadcastKeeps ==
    ASSUME NEW operations, Len(operations) \in Nat, Shown(operations, browser, Ordered),
           Told(operations, down, sending), Ordered => Sequenced(browser, down, sending),
           NEW p \in Payloads(operations), p.type # "error", p.revision = Len(operations),
           NEW from, Broadcast(p, from)
    PROVE  /\ Told(operations, down', sending')
           /\ Ordered => Sequenced(browser, down', sending')
<1>1. CASE ~Ordered
    <2>1. /\ down' = down
          /\ \A b \in sending' :
                b \in sending \/ \E to : b = [payload |-> p, from |-> from, to |-> to]
        BY <1>1 DEF Broadcast, Ordered
    <2>2. \A to : LET b == [payload |-> p, from |-> from, to |-> to]
                  IN  DOMAIN b = {"payload", "from", "to"} /\ b.payload = p
        OBVIOUS
    <2>3. \A b \in sending' :
            DOMAIN b = {"payload", "from", "to"} /\ b.payload \in Payloads(operations)
        BY <2>1, <2>2 DEF Told
    <2> QED
        BY <1>1, <2>1, <2>3 DEF Told
<1>2. CASE Ordered
    <2>1. /\ sending' = sending
          /\ down' = [c \in Client |-> IF c \in Listening THEN Append(down[c], p) ELSE down[c]]
        BY <1>2 DEF Broadcast, Ordered
    <2>2. /\ down \in [Client -> Seq(Payloads(operations))]
          /\ sending = {} /\ \A c \in Client : InOrder(browser[c].revision, down[c])
        BY <1>2 DEF Told, Sequenced
    <2>3. ASSUME NEW c \in Client
          PROVE  /\ down'[c] \in Seq(Payloads(operations))
                 /\ InOrder(browser[c].revision, down'[c])
        <3> DEFINE r == browser[c].revision
                   q == down[c]
        <3>1. r \in Nat /\ r <= Len(operations)
            BY DEF Shown, IsEditor, Editors
        <3>2. q \in Seq(Payloads(operations)) /\ InOrder(r, q)
            BY <2>2
        <3>3. down'[c] = IF c \in Listening THEN Append(q, p) ELSE q
            BY <2>1
        <3> HIDE DEF r, q
        <3>4. InOrder(r, Append(q, p))
            BY <3>1, <3>2, InOrderAppend
        <3>5. Append(q, p) \in Seq(Payloads(operations))
            BY <3>2, AppendProperties
        <3> QED
            BY <3>2, <3>3, <3>4, <3>5 DEF r
    <2>4. down' \in [Client -> Seq(Payloads(operations))]
        BY <2>1, <2>3
    <2> QED
        BY <2>1, <2>2, <2>3, <2>4 DEF Told, Sequenced
<1> QED
    BY <1>1, <1>2

\* The branch text_session.op, for a message of one of the sockets; what the browsers
\* show is not touched.
LEMMA OperationKeeps ==
    ASSUME LiveInv, NotCut, TextAssumption, OperationsAssumption,
           NEW owner \in [1..sent -> Client], Posted(owner, session, up, late),
           NEW message \in Messages(owner), NEW from, HandleOperation(message, from),
           up' \in [Client -> Seq({JoinMessage} \cup Messages(owner))],
           late' \in [Client -> Seq(Messages(owner))],
           UNCHANGED <<conditions, browser, edits, sent>>
    PROVE  LiveInv'
<1> DEFINE before == session.operations
           after == session'.operations
<1>1. /\ Shown(before, browser, Ordered) /\ Told(before, down, sending)
      /\ Ordered => Sequenced(browser, down, sending)
      /\ sent \in Nat /\ sent <= MAX_TEXT_SESSION_OPERATIONS
    BY TextAssumption, OperationsAssumption DEF LiveInv, NotCut
<1>2. Ordered' = Ordered /\ browser' = browser /\ edits' = edits /\ sent' = sent
    BY DEF Ordered
<1>3. IsLive(session, owner) /\ Len(before) \in Nat
    BY LiveFacts DEF Posted
<1>4. CASE Accepts(session, message)
    <2>1. /\ session' = Accepting(session, message, Transformed(session, message))
          /\ Broadcast(AcceptedPayload(session', message.client), from)
        BY <1>4 DEF HandleOperation
    <2>2. /\ IsLive(session', owner) /\ Len(after) = Len(before) + 1
          /\ \A r \in 0..Len(before) :
                TextIn(InitialText, after, r) = TextIn(InitialText, before, r)
        <3> DEFINE s == session
        <3>1. IsLive(s, owner) /\ Accepts(s, message)
            BY <1>3, <1>4
        <3> HIDE DEF s
        <3>2. LET new == Accepting(s, message, Transformed(s, message))
              IN  /\ IsLive(new, owner)
                  /\ Len(new.operations) = Len(s.operations) + 1
                  /\ \A r \in 0..Len(s.operations) :
                       TextIn(InitialText, new.operations, r) = TextIn(InitialText, s.operations, r)
            BY <1>1, <3>1, AcceptingIsLive, OperationsAssumption
        <3> QED
            BY <2>1, <3>2 DEF s
    <2>3. /\ Len(after) \in Nat /\ Len(before) <= Len(after) /\ session'.revision = Len(after)
          /\ session'.text \in Seq(Char)
          /\ session'.text = TextIn(InitialText, after, session'.revision)
        <3> DEFINE s == session'
        <3>1. IsLive(s, owner)
            BY <2>2
        <3> HIDE DEF s
        <3>2. /\ s.text \in Seq(Char) /\ s.revision = Len(s.operations)
              /\ s.text = TextIn(InitialText, s.operations, s.revision)
            BY <3>1, LiveFacts
        <3>3. Len(after) \in Nat /\ Len(before) <= Len(after)
            BY <1>3, <2>2
        <3> QED
            BY <3>2, <3>3 DEF s
    <2> DEFINE p == AcceptedPayload(session', message.client)
    <2>4. p \in Payloads(after) /\ p.type # "error" /\ p.revision = Len(after)
        <3>1. message.client \in Client
            BY DEF Messages
        <3>2. Len(after) \in 0..Len(after)
            BY <2>3
        <3> QED
            BY <2>3, <3>1, <3>2 DEF AcceptedPayload, Payloads
    <2>5. Payloads(before) \subseteq Payloads(after)
        BY <1>3, <2>2, <2>3, PayloadsGrow
    <2>6. Told(after, down, sending)
        <3> DEFINE P == Payloads(before)
                   Q == Payloads(after)
        <3>1. P \subseteq Q /\ down \in [Client -> Seq(P)]
            BY <1>1, <2>5 DEF Told
        <3> HIDE DEF P, Q
        <3>2. \A c \in Client : down[c] \in Seq(Q)
            BY <3>1, SeqMonotonic
        <3>3. down \in [Client -> Seq(Q)]
            BY <3>1, <3>2
        <3>4. \A b \in sending : DOMAIN b = {"payload", "from", "to"} /\ b.payload \in P
            BY <1>1 DEF Told, P
        <3> QED
            BY <3>1, <3>3, <3>4 DEF Told, Q
    <2>7. Shown(after, browser, Ordered)
        <3> DEFINE o == Ordered
        <3>1. o \in BOOLEAN /\ \A c \in Client : IsEditor(browser[c], before, o)
            BY <1>1 DEF Ordered, Shown
        <3> HIDE DEF o, before, after
        <3>2. \A c \in Client : IsEditor(browser[c], after, o)
            BY <1>3, <2>2, <2>3, <3>1, EditorGrows
        <3> QED
            BY <1>1, <3>2 DEF Shown, o
    <2>8. Broadcast(p, from)
        BY <2>1
    <2> HIDE DEF p, after
    <2>9. Told(after, down', sending') /\ (Ordered => Sequenced(browser, down', sending'))
        BY <1>1, <2>3, <2>4, <2>6, <2>7, <2>8, BroadcastKeeps
    <2>10. Posted(owner, session', up', late')
        BY <2>2 DEF Posted
    <2>11. /\ edits' \in Nat /\ sent' \in Nat /\ sent' <= MaxSent /\ owner \in [1..sent' -> Client]
        BY <1>2 DEF LiveInv
    <2> QED
        BY <1>2, <2>7, <2>9, <2>10, <2>11 DEF LiveInv, after
<1>5. CASE ~Accepts(session, message)
    <2>1. session' = session /\ sending' = sending
        BY <1>5 DEF HandleOperation
    <2>2. down' = down \/ \E conflict \in BOOLEAN : Tell(from, [type |-> "error", conflict |-> conflict])
        BY <1>5 DEF HandleOperation
    <2>3. Told(before, down', sending) /\ (Ordered => Sequenced(browser, down', sending))
        <3>1. CASE down' = down
            BY <1>1, <3>1
        <3>2. ASSUME NEW conflict \in BOOLEAN, Tell(from, [type |-> "error", conflict |-> conflict])
              PROVE  Told(before, down', sending) /\ (Ordered => Sequenced(browser, down', sending))
            <4> DEFINE p == [type |-> "error", conflict |-> conflict]
            <4>1. p \in Payloads(before) /\ p.type = "error"
                BY DEF Payloads
            <4>2. Tell(from, p)
                BY <3>2
            <4> HIDE DEF p
            <4> QED
                BY <1>1, <1>3, <4>1, <4>2, TellKeeps
        <3> QED
            BY <2>2, <3>1, <3>2
    <2>4. Posted(owner, session, up', late')
        BY DEF Posted
    <2>5. /\ edits' \in Nat /\ sent' \in Nat /\ sent' <= MaxSent /\ owner \in [1..sent' -> Client]
        BY <1>2 DEF LiveInv
    <2> QED
        BY <1>1, <1>2, <2>1, <2>3, <2>4, <2>5 DEF LiveInv
<1> QED
    BY <1>4, <1>5

LEMMA HandleKeeps ==
    ASSUME LiveInv, NotCut, TextAssumption, OperationsAssumption, NEW c \in Client, Handle(c)
    PROVE  LiveInv'
<1> DEFINE operations == session.operations
<1>1. /\ Shown(operations, browser, Ordered) /\ Told(operations, down, sending)
      /\ Ordered => Sequenced(browser, down, sending)
    BY DEF LiveInv
<1>2. PICK owner \in [1..sent -> Client] : Posted(owner, session, up, late)
    BY DEF LiveInv
<1>3. /\ up[c] # << >> /\ up' = [up EXCEPT ![c] = Tail(@)]
      /\ UNCHANGED <<conditions, browser, late, edits, sent>> /\ late' = late
    BY DEF Handle
<1>4. /\ Head(up[c]) \in {JoinMessage} \cup Messages(owner)
      /\ up' \in [Client -> Seq({JoinMessage} \cup Messages(owner))]
    <2> DEFINE N == {JoinMessage} \cup Messages(owner)
    <2>1. up \in [Client -> Seq(N)]
        BY <1>2 DEF Posted
    <2> HIDE DEF N
    <2>2. Head(up[c]) \in N /\ Tail(up[c]) \in Seq(N)
        BY <1>3, <2>1, HeadTailProperties
    <2>3. up' \in [Client -> Seq(N)]
        BY <1>3, <2>1, <2>2
    <2> QED
        BY <2>2, <2>3 DEF N
<1>5. late' \in [Client -> Seq(Messages(owner))]
    BY <1>2, <1>3 DEF Posted
<1>6. CASE Head(up[c]).type = "join"
    <2> DEFINE p == [type |-> "state", revision |-> session.revision, text |-> session.text]
    <2>1. Tell(c, p) /\ session' = session /\ sending' = sending
        BY <1>6 DEF Handle
    <2>2. /\ Len(operations) \in Nat /\ session.revision = Len(operations) /\ session.text \in Seq(Char)
          /\ session.text = TextIn(InitialText, operations, session.revision)
        BY <1>2, LiveFacts DEF Posted
    <2>3. p \in Payloads(operations) /\ p.revision = Len(operations)
        <3>1. Len(operations) \in 0..Len(operations)
            BY <2>2
        <3> QED
            BY <2>2, <3>1 DEF Payloads
    <2> HIDE DEF p
    <2>4. Told(operations, down', sending) /\ (Ordered => Sequenced(browser, down', sending))
        BY <1>1, <2>1, <2>2, <2>3, TellKeeps
    <2>5. Posted(owner, session, up', late')
        BY <1>2, <1>4, <1>5 DEF Posted
    <2>6. Ordered' = Ordered /\ browser' = browser /\ edits' = edits /\ sent' = sent
        BY <1>3 DEF Ordered
    <2> QED
        BY <1>1, <2>1, <2>4, <2>5, <2>6 DEF LiveInv
<1>7. CASE Head(up[c]).type # "join"
    <2>1. Head(up[c]) \in Messages(owner)
        BY <1>4, <1>7 DEF JoinMessage
    <2>2. HandleOperation(Head(up[c]), c)
        BY <1>7 DEF Handle
    <2> QED
        BY <1>2, <1>3, <1>4, <1>5, <2>1, <2>2, OperationKeeps
<1> QED
    BY <1>6, <1>7

LEMMA HandleLateKeeps ==
    ASSUME LiveInv, NotCut, TextAssumption, OperationsAssumption, NEW c \in Client, HandleLate(c)
    PROVE  LiveInv'
<1>1. PICK owner \in [1..sent -> Client] : Posted(owner, session, up, late)
    BY DEF LiveInv
<1>2. /\ late[c] # << >> /\ late' = [late EXCEPT ![c] = Tail(@)]
      /\ HandleOperation(Head(late[c]), <<c>>)
      /\ UNCHANGED <<conditions, browser, edits, sent>> /\ up' = up
    BY DEF HandleLate
<1>3. Head(late[c]) \in Messages(owner) /\ late' \in [Client -> Seq(Messages(owner))]
    <2> DEFINE M == Messages(owner)
    <2>1. late \in [Client -> Seq(M)]
        BY <1>1 DEF Posted
    <2> HIDE DEF M
    <2>2. Head(late[c]) \in M /\ Tail(late[c]) \in Seq(M)
        BY <1>2, <2>1, HeadTailProperties
    <2>3. late' \in [Client -> Seq(M)]
        BY <1>2, <2>1, <2>2
    <2> QED
        BY <2>2, <2>3 DEF M
<1>4. up' \in [Client -> Seq({JoinMessage} \cup Messages(owner))]
    BY <1>1, <1>2 DEF Posted
<1> QED
    BY <1>1, <1>2, <1>3, <1>4, OperationKeeps

LEMMA LoseLateKeeps ==
    ASSUME LiveInv, NEW c \in Client, LoseLate(c)
    PROVE  LiveInv'
<1>1. PICK owner \in [1..sent -> Client] : Posted(owner, session, up, late)
    BY DEF LiveInv
<1>2. /\ late' = [late EXCEPT ![c] = << >>] /\ session' = session /\ up' = up /\ down' = down
      /\ sending' = sending /\ browser' = browser /\ edits' = edits /\ sent' = sent
      /\ Ordered' = Ordered
    BY DEF LoseLate, Ordered
<1>3. Posted(owner, session, up, late')
    <2>1. << >> \in Seq(Messages(owner))
        OBVIOUS
    <2> QED
        BY <1>1, <1>2, <2>1 DEF Posted
<1> QED
    BY <1>1, <1>2, <1>3 DEF LiveInv

LEMMA SendNextKeeps ==
    ASSUME LiveInv, NEW b \in sending, NEW socket, SendNext(b, socket)
    PROVE  LiveInv'
<1> DEFINE operations == session.operations
           rest == [b EXCEPT !.to = @ \ {socket}]
<1>1. /\ Shown(operations, browser, Ordered) /\ Told(operations, down, sending)
      /\ Ordered => Sequenced(browser, down, sending)
    BY DEF LiveInv
<1>2. PICK owner \in [1..sent -> Client] : Posted(owner, session, up, late)
    BY DEF LiveInv
<1>3. /\ session' = session /\ up' = up /\ browser' = browser
      /\ edits' = edits /\ sent' = sent /\ Ordered' = Ordered
      /\ sending' \subseteq sending \cup {rest}
      /\ down' = down \/ down' = [down EXCEPT ![socket] = Append(@, b.payload)]
      /\ \/ late' = late
         \/ late' = [c \in Client |-> IF b.from = <<c>> THEN << >> ELSE late[c]]
    BY DEF SendNext, Ordered, Tell
<1>4. ~Ordered
    BY <1>1 DEF Sequenced
<1>5. DOMAIN b = {"payload", "from", "to"} /\ b.payload \in Payloads(operations)
    BY <1>1 DEF Told
<1>6. DOMAIN rest = {"payload", "from", "to"} /\ rest.payload = b.payload
    BY <1>5
<1> HIDE DEF rest
<1>7. \A s \in sending' : DOMAIN s = {"payload", "from", "to"} /\ s.payload \in Payloads(operations)
    BY <1>1, <1>3, <1>5, <1>6 DEF Told
<1>8. down' \in [Client -> Seq(Payloads(operations))]
    <2>1. down \in [Client -> Seq(Payloads(operations))]
        BY <1>1 DEF Told
    <2>2. CASE socket \in Client
        <3>1. Append(down[socket], b.payload) \in Seq(Payloads(operations))
            BY <1>5, <2>1, <2>2, AppendProperties
        <3> QED
            BY <1>3, <2>1, <3>1
    <2>3. CASE socket \notin Client
        BY <1>3, <2>1, <2>3
    <2> QED
        BY <2>2, <2>3
<1>9. Posted(owner, session', up', late')
    <2> DEFINE M == Messages(owner)
    <2>1. late \in [Client -> Seq(M)] /\ << >> \in Seq(M)
        BY <1>2 DEF Posted
    <2> HIDE DEF M
    <2>2. late' \in [Client -> Seq(M)]
        BY <1>3, <2>1
    <2> QED
        BY <1>2, <1>3, <2>2 DEF Posted, M
<1> QED
    BY <1>1, <1>2, <1>3, <1>4, <1>7, <1>8, <1>9 DEF LiveInv, Told

LEMMA LiveInvNext ==
    ASSUME NotCut, TextAssumption, OperationsAssumption, LiveInv, [Next]_vars
    PROVE  LiveInv'
<1>1. CASE UNCHANGED vars
    <2>1. /\ session' = session /\ up' = up /\ late' = late /\ down' = down /\ sending' = sending
          /\ browser' = browser /\ edits' = edits /\ sent' = sent /\ Ordered' = Ordered
        BY <1>1 DEF vars, Ordered
    <2> QED
        BY <2>1 DEF LiveInv
<1>2. ASSUME NEW c \in Client, NEW text \in Edited(browser[c].buffer), Edit(c, text)
      PROVE  LiveInv'
    BY <1>2, EditKeeps
<1>3. ASSUME NEW c \in Client, Receive(c)
      PROVE  LiveInv'
    BY <1>3, ReceiveKeeps
<1>4. ASSUME NEW c \in Client, FireDiff(c)
      PROVE  LiveInv'
    BY <1>4, FireDiffKeeps
<1>5. ASSUME NEW c \in Client, Reconnect(c)
      PROVE  LiveInv'
    BY <1>5, ReconnectKeeps
<1>6. ASSUME NEW c \in Client, FireJoin(c)
      PROVE  LiveInv'
    BY <1>6, FireJoinKeeps
<1>7. ASSUME NEW c \in Client, Drop(c) \/ NoticeClose(c)
      PROVE  LiveInv'
    BY <1>7, LoseSocketKeeps DEF Drop, NoticeClose
<1>8. ASSUME NEW c \in Client, Handle(c)
      PROVE  LiveInv'
    BY <1>8, HandleKeeps
<1>9. ASSUME NEW c \in Client, HandleLate(c)
      PROVE  LiveInv'
    BY <1>9, HandleLateKeeps
<1>10. ASSUME NEW c \in Client, LoseLate(c)
       PROVE  LiveInv'
    BY <1>10, LoseLateKeeps
<1>11. ASSUME NEW b \in sending, NEW socket \in b.to, SendNext(b, socket)
       PROVE  LiveInv'
    BY <1>11, SendNextKeeps
<1> QED
    BY <1>1, <1>2, <1>3, <1>4, <1>5, <1>6, <1>7, <1>8, <1>9, <1>10, <1>11 DEF Next

\* Whatever browsers do and sockets lose, the session's text is the replay of its
\* operations, every text on its way to a browser is one the session has had, and an
\* editor with nothing unacknowledged compares its buffer with such a text.
THEOREM LiveInvariant ==
    ASSUME NotCut
    PROVE  Spec => []LiveInv
<1>1. Init => LiveInv
    BY LiveInvInit, TextAssumption
<1>2. LiveInv /\ [Next]_vars => LiveInv'
    BY LiveInvNext, TextAssumption, OperationsAssumption
<1> QED
    BY <1>1, <1>2, PTL DEF Spec

\* With sends that are not overtaken, what a browser takes for the text of its revision
\* is the session's text at that revision: the server places its next operation in the
\* text that it was typed in (liveTextShadow and liveTextRevision of static/app.js).
THEOREM ShadowIsSessionTextHolds ==
    ASSUME NotCut
    PROVE  Spec => []ShadowIsSessionText
<1>1. LiveInv => ShadowIsSessionText
    <2> SUFFICES ASSUME LiveInv, conditions \subseteq {"wide"}, NEW c \in Client,
                        ~browser[c].pending, ~browser[c].resync
                 PROVE  browser[c].shadow = TextAt(browser[c].revision)
        BY DEF ShadowIsSessionText
    <2>1. IsEditor(browser[c], session.operations, Ordered) /\ Ordered
        BY DEF LiveInv, Shown, Ordered
    <2>2. browser[c].shadow = TextIn(InitialText, session.operations, browser[c].revision)
        BY <2>1 DEF IsEditor
    <2> QED
        BY <2>2 DEF TextAt, TextIn, Replay
<1> QED
    BY <1>1, LiveInvariant, PTL

\* The steps of others leave a buffer as it is, and the timers of its own browser too.
LEMMA BufferStays ==
    ASSUME LiveInv, [Next]_vars, NEW c \in Client
    PROVE  \/ browser'[c].buffer = browser[c].buffer
           \/ Receive(c)
           \/ \E text \in Edited(browser[c].buffer) : Edit(c, text)
<1>0. browser \in [Client -> Editors]
    BY DEF LiveInv, Shown
<1>1. ASSUME NEW d \in Client, NEW b, b.buffer = browser[d].buffer \/ d # c,
             browser' = [browser EXCEPT ![d] = b]
      PROVE  browser'[c].buffer = browser[c].buffer
    BY <1>0, <1>1
<1>2. ASSUME NEW d \in Client, NEW b, b.buffer = browser[d].buffer \/ d # c, b \in Editors,
             HandleInput(d, b)
      PROVE  browser'[c].buffer = browser[c].buffer
    <2>1. [b EXCEPT !.pending = TRUE, !.resync = FALSE, !.shadow = b.buffer].buffer = b.buffer
        BY <1>2 DEF Editors
    <2>2. \E e : e.buffer = b.buffer /\ browser' = [browser EXCEPT ![d] = e]
        BY <1>2, <2>1 DEF HandleInput
    <2> QED
        BY <1>1, <1>2, <2>2
<1>3. CASE UNCHANGED vars
    BY <1>3 DEF vars
<1>4. ASSUME NEW d \in Client, NEW text \in Edited(browser[d].buffer), Edit(d, text), d # c
      PROVE  browser'[c].buffer = browser[c].buffer
    <2>1. \E b : browser' = [browser EXCEPT ![d] = b]
        BY <1>4 DEF Edit, HandleInput
    <2> QED
        BY <1>1, <1>4, <2>1
<1>5. ASSUME NEW d \in Client, Receive(d), d # c
      PROVE  browser'[c].buffer = browser[c].buffer
    <2>1. \E b : browser' = [browser EXCEPT ![d] = b]
        BY <1>5 DEF Receive
    <2> QED
        BY <1>1, <1>5, <2>1
<1>6. ASSUME NEW d \in Client, FireDiff(d)
      PROVE  browser'[c].buffer = browser[c].buffer
    <2> DEFINE b == [browser[d] EXCEPT !.diff_due = FALSE]
    <2>1. b \in Editors /\ b.buffer = browser[d].buffer /\ HandleInput(d, b)
        BY <1>0, <1>6 DEF FireDiff, Editors
    <2> HIDE DEF b
    <2> QED
        BY <1>2, <2>1
<1>7. ASSUME NEW d \in Client, Reconnect(d) \/ FireJoin(d) \/ LoseSocket(d)
      PROVE  browser'[c].buffer = browser[c].buffer
    <2> DEFINE reconnected == [browser[d] EXCEPT !.reconnect_due = FALSE]
               joined == [browser[d] EXCEPT !.join_due = FALSE]
               lost == [Unacknowledged(browser[d]) EXCEPT !.reconnect_due = TRUE]
    <2>1. /\ reconnected.buffer = browser[d].buffer /\ joined.buffer = browser[d].buffer
          /\ lost.buffer = browser[d].buffer
        BY <1>0 DEF Unacknowledged, Editors
    <2>2. Reconnect(d) => browser' = [browser EXCEPT ![d] = reconnected]
        BY DEF Reconnect, OpenSocket
    <2>3. FireJoin(d) => browser' = [browser EXCEPT ![d] = joined]
        BY <1>0 DEF FireJoin, OpenSocket
    <2>4. LoseSocket(d) => browser' = [browser EXCEPT ![d] = lost]
        BY DEF LoseSocket
    <2> HIDE DEF reconnected, joined, lost
    <2> QED
        BY <1>1, <1>7, <2>1, <2>2, <2>3, <2>4
<1>8. ASSUME NEW d \in Client, Handle(d) \/ HandleLate(d) \/ LoseLate(d)
      PROVE  browser'[c].buffer = browser[c].buffer
    BY <1>8 DEF Handle, HandleLate, LoseLate
<1>9. ASSUME NEW b \in sending, NEW socket \in b.to, SendNext(b, socket)
      PROVE  browser'[c].buffer = browser[c].buffer
    BY <1>9 DEF SendNext
<1> QED
    BY <1>3, <1>4, <1>5, <1>6, <1>7, <1>8, <1>9 DEF Next, Drop, NoticeClose

\* No reply, broadcast, lost socket or new join takes from a user's buffer a character
\* that the session never had; whether or not sends are overtaken
\* (hasLocalLiveTextBuffer of static/app.js guards every place that sets the buffer).
THEOREM UnsentTextKeptHolds ==
    ASSUME NotCut
    PROVE  Spec => UnsentTextKept
<1> DEFINE Kept == \A c \in Client :
            ToSet(browser[c].buffer) \subseteq ToSet(browser'[c].buffer) \cup Accepted
            \/ \E text \in Edited(browser[c].buffer) : Edit(c, text)
<1>1. LiveInv /\ [Next]_vars => Kept
    <2> SUFFICES ASSUME LiveInv, [Next]_vars, NEW c \in Client,
                        ~ \E text \in Edited(browser[c].buffer) : Edit(c, text)
                 PROVE  ToSet(browser[c].buffer) \subseteq ToSet(browser'[c].buffer) \cup Accepted
        OBVIOUS
    <2>1. CASE browser'[c].buffer = browser[c].buffer
        BY <2>1
    <2>2. CASE Receive(c)
        BY <2>2, ReceiveKeeps
    <2> QED
        BY <2>1, <2>2, BufferStays
<1>2. LiveInv /\ [Next]_vars => [Kept]_vars
    BY <1>1
<1> QED
    BY <1>2, LiveInvariant, PTL DEF Spec, UnsentTextKept
=============================================================================
