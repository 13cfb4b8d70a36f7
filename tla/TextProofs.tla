----------------------------- MODULE TextProofs -----------------------------
(***************************************************************************)
(* What the transform of live text operations guarantees for operations of *)
(* every position and length, on texts of every length; what is left of an *)
(* author's intention when an operation crosses any number of others; and  *)
(* the lemmas on texts, operations and lists of them that                  *)
(* CollaborationProofs and LiveTextProofs share.                           *)
(***************************************************************************)
EXTENDS SessionState, FoldLemmas, SequenceTheorems

\* A character is its code point.
Char == Nat

TextOperation ==
    [ type : {"insert", "delete", "replace"}, index : Nat, length : Nat, text : Seq(Char) ]

\* The indexes of the characters an operation removes.
Removed(op) == { i \in Nat : op.index <= i /\ i < EndOf(op) }

\* Where a character that the accepted operation leaves in the text is after it.
NewIndex(i, accepted) ==
    IF i < accepted.index THEN i ELSE i + Len(accepted.text) - accepted.length

\* The indexes of the text the accepted operation puts in.
Inserted(accepted) ==
    { i \in Nat : accepted.index <= i /\ i < accepted.index + Len(accepted.text) }

-----------------------------------------------------------------------------
\* A normalized insert removes nothing, and a normalized delete puts nothing in.
LEMMA NormalizedLengths ==
    ASSUME NEW op \in TextOperation, Normalized(op)
    PROVE  /\ op.index \in Nat /\ op.length \in Nat /\ Len(op.text) \in Nat
           /\ op.type = "insert" => op.length = 0
           /\ op.type # "insert" => op.length > 0
           /\ op.type = "delete" => Len(op.text) = 0
<1>1. op.text \in Seq(Char) /\ op.index \in Nat /\ op.length \in Nat
    BY DEF TextOperation
<1>2. Len(op.text) \in Nat
    BY <1>1
<1>3. op.type = "delete" => Len(op.text) = 0
    BY DEF Normalized
<1>4. QED BY <1>1, <1>2, <1>3 DEF Normalized

\* What becomes of an operation moved across an accepted insert: it is shifted, or
\* left alone because it ends before it.
InsertMoves(op, accepted, r) ==
    /\ r.length = op.length
    /\ \/ op.index >= accepted.index /\ r.index = op.index + Len(accepted.text)
       \/ op.index + op.length <= accepted.index /\ r.index = op.index

\* What becomes of a range moved across an accepted delete or replace: it is left
\* alone, or shifted, or, for a delete, cut down to what is left of it before the
\* removed range, on both sides of it, or after it.
Moves(x, length, a, removed, inserted, rx, rlength) ==
    LET b == a + removed
        e == x + length
    IN  \/ e <= a /\ rx = x /\ rlength = length
        \/ x >= b /\ rx = x + inserted - removed /\ rlength = length
        \/ x < a /\ a < e /\ e <= b /\ rx = x /\ rlength = a - x
        \/ x < a /\ b < e /\ inserted = 0 /\ rx = x /\ rlength = length - removed
        \/ a <= x /\ x < b /\ b < e /\ rx = a + inserted /\ rlength = e - b

RangeMoves(op, accepted, r) ==
    Moves(op.index, op.length, accepted.index, accepted.length, Len(accepted.text),
          r.index, r.length)

\* What a moved range owes: it stays within the text, a position that is in it and
\* not in the removed range is still in it where it has moved, and it has no others.
Tracks(x, length, a, removed, inserted, rx, rlength) ==
    /\ rlength > 0
    /\ \A n \in Nat : x + length <= n /\ a + removed <= n
         => rx + rlength <= n - removed + inserted
    /\ \A i \in Nat : x <= i /\ i < x + length =>
         /\ i < a => rx <= i /\ i < rx + rlength
         /\ a + removed <= i => /\ rx <= i + inserted - removed
                               /\ i + inserted - removed < rx + rlength
    /\ \A j \in Nat : rx <= j /\ j < rx + rlength =>
         \/ j < a /\ x <= j /\ j < x + length
         \/ /\ a + inserted <= j
            /\ x <= j - inserted + removed /\ j - inserted + removed < x + length

RangeTracks(op, accepted, r) ==
    Tracks(op.index, op.length, accepted.index, accepted.length, Len(accepted.text),
           r.index, r.length)

\* Every such move does: the arithmetic of _transform_across_removed_range.
LEMMA MovesTrack ==
    ASSUME NEW x \in Nat, NEW length \in Nat, NEW a \in Nat, NEW removed \in Nat,
           NEW inserted \in Nat, NEW rx \in Nat, NEW rlength \in Nat,
           length > 0, removed > 0,
           Moves(x, length, a, removed, inserted, rx, rlength)
    PROVE  Tracks(x, length, a, removed, inserted, rx, rlength)
<1> DEFINE b == a + removed
           e == x + length
<1>1. CASE e <= a /\ rx = x /\ rlength = length
    BY <1>1 DEF Tracks
<1>2. CASE x >= b /\ rx = x + inserted - removed /\ rlength = length
    BY <1>2 DEF Tracks
<1>3. CASE x < a /\ a < e /\ e <= b /\ rx = x /\ rlength = a - x
    BY <1>3 DEF Tracks
<1>4. CASE x < a /\ b < e /\ inserted = 0 /\ rx = x /\ rlength = length - removed
    BY <1>4 DEF Tracks
<1>5. CASE a <= x /\ x < b /\ b < e /\ rx = a + inserted /\ rlength = e - b
    BY <1>5 DEF Tracks
<1>6. QED BY <1>1, <1>2, <1>3, <1>4, <1>5 DEF Moves

\* The transform of a range across an accepted delete or replace is one of those.
LEMMA RangeCases ==
    ASSUME NEW op \in TextOperation, Normalized(op), op.type # "insert",
           NEW accepted \in TextOperation, Normalized(accepted), accepted.type # "insert",
           Transform(op, accepted) # Conflict
    PROVE  /\ Transform(op, accepted) \in TextOperation
           /\ Transform(op, accepted).type = op.type
           /\ Transform(op, accepted).text = op.text
           /\ RangeMoves(op, accepted, Transform(op, accepted))
<1> DEFINE a == accepted.index
           b == accepted.index + accepted.length
           e == op.index + op.length
           inserted == Len(accepted.text)
           left == Larger(0, Smaller(e, a) - op.index)
           right == Larger(0, e - Larger(op.index, b))
           r == Transform(op, accepted)
<1>1. /\ a \in Nat /\ b \in Nat /\ e \in Nat /\ inserted \in Nat
      /\ a < b /\ op.index < e /\ op.index \in Nat /\ op.length \in Nat
      /\ accepted.length \in Nat
    BY NormalizedLengths
<1>2. r = RangeAcrossRemoved(op, accepted)
    BY DEF Transform
<1>3. CASE e <= a
  <2>1. r = op
    BY <1>2, <1>3 DEF RangeAcrossRemoved, EndOf
  <2>2. QED BY <1>3, <2>1 DEF RangeMoves, Moves
<1>4. CASE op.index >= b
  <2>1. ~(e <= a)
    BY <1>1, <1>4
  <2>2. r = MovedTo(op, op.index + inserted - accepted.length)
    BY <1>2, <1>4, <2>1 DEF RangeAcrossRemoved, EndOf
  <2>3. op.index + inserted - accepted.length \in Nat
    BY <1>1, <1>4
  <2>4. QED BY <1>4, <2>2, <2>3 DEF MovedTo, TextOperation, RangeMoves, Moves
<1>5. CASE ~(e <= a) /\ ~(op.index >= b)
  <2>1. /\ left = IF op.index < a THEN a - op.index ELSE 0
        /\ right = IF b < e THEN e - b ELSE 0
    <3>1. Smaller(e, a) = a /\ Larger(op.index, b) = b
      BY <1>1, <1>5 DEF Smaller, Larger
    <3>2. QED BY <1>1, <1>5, <3>1 DEF Larger
  <2>2. /\ ~(left + right = 0)
        /\ ~(inserted > 0 /\ left > 0 /\ right > 0)
        /\ r = IF left > 0
               THEN [op EXCEPT !.length = IF inserted > 0 THEN left ELSE left + right]
               ELSE [op EXCEPT !.index = a + inserted, !.length = right]
    BY <1>2, <1>5, Zenon DEF RangeAcrossRemoved, EndOf
  <2> HIDE DEF left, right, inserted
  <2>3. CASE op.index < a
    <3>1. left > 0 /\ left = a - op.index
      BY <1>1, <2>1, <2>3
    <3>2. r = [op EXCEPT !.length = IF inserted > 0 THEN left ELSE left + right]
      BY <2>2, <3>1
    <3>3. CASE b < e
      <4>1. right = e - b /\ ~(inserted > 0)
        BY <1>1, <2>1, <2>2, <3>1, <3>3
      <4>2. left + right = op.length - accepted.length /\ left + right \in Nat
        BY <1>1, <3>1, <3>3, <4>1
      <4>3. r = [op EXCEPT !.length = left + right]
        BY <3>2, <4>1
      <4>4. /\ r \in TextOperation /\ r.type = op.type /\ r.text = op.text
            /\ r.index = op.index /\ r.length = left + right
        BY <4>2, <4>3 DEF TextOperation
      <4>5. inserted = 0
        BY <1>1, <4>1
      <4>6. QED BY <2>3, <3>3, <4>2, <4>4, <4>5 DEF inserted, RangeMoves, Moves
    <3>4. CASE ~(b < e)
      <4>1. (IF inserted > 0 THEN left ELSE left + right) = a - op.index
        BY <1>1, <2>1, <3>1, <3>4
      <4>2. r = [op EXCEPT !.length = a - op.index] /\ a - op.index \in Nat
        BY <1>1, <2>3, <3>2, <4>1
      <4>3. /\ r \in TextOperation /\ r.type = op.type /\ r.text = op.text
            /\ r.index = op.index /\ r.length = a - op.index
        BY <4>2 DEF TextOperation
      <4>4. a < e /\ e <= b
        BY <1>1, <1>5, <3>4
      <4>5. QED BY <2>3, <4>3, <4>4 DEF RangeMoves, Moves
    <3>5. QED BY <3>3, <3>4
  <2>4. CASE ~(op.index < a)
    <3>1. ~(left > 0) /\ b < e /\ right = e - b
      BY <1>1, <2>1, <2>2, <2>4
    <3>2. r = [op EXCEPT !.index = a + inserted, !.length = e - b]
      BY <2>2, <3>1
    <3>3. a + inserted \in Nat /\ e - b \in Nat
      BY <1>1, <3>1
    <3>4. /\ r \in TextOperation /\ r.type = op.type /\ r.text = op.text
          /\ r.index = a + inserted /\ r.length = e - b
      BY <3>2, <3>3 DEF TextOperation
    <3>5. a <= op.index /\ op.index < b
      BY <1>1, <1>5, <2>4
    <3>6. QED BY <3>1, <3>4, <3>5 DEF inserted, RangeMoves, Moves
  <2>5. QED BY <2>3, <2>4
<1>6. QED BY <1>3, <1>4, <1>5

\* The transform of a range across an accepted delete or replace tracks it.
LEMMA RangeIsTracked ==
    ASSUME NEW op \in TextOperation, Normalized(op), op.type # "insert",
           NEW accepted \in TextOperation, Normalized(accepted), accepted.type # "insert",
           Transform(op, accepted) # Conflict
    PROVE  RangeTracks(op, accepted, Transform(op, accepted))
<1> DEFINE r == Transform(op, accepted)
<1>1. /\ op.index \in Nat /\ op.length \in Nat /\ op.length > 0
      /\ accepted.index \in Nat /\ accepted.length \in Nat /\ accepted.length > 0
      /\ Len(accepted.text) \in Nat
    BY NormalizedLengths
<1>2. r \in TextOperation /\ RangeMoves(op, accepted, r)
    BY RangeCases
<1>3. r.index \in Nat /\ r.length \in Nat
    BY <1>2 DEF TextOperation
<1> HIDE DEF r
<1>4. RangeTracks(op, accepted, r)
    BY <1>1, <1>2, <1>3, MovesTrack, Zenon DEF RangeMoves, RangeTracks
<1>5. QED BY <1>4 DEF r

\* The transform of an operation across an accepted insert is one of those.
LEMMA InsertCases ==
    ASSUME NEW op \in TextOperation, Normalized(op),
           NEW accepted \in TextOperation, Normalized(accepted), accepted.type = "insert",
           Transform(op, accepted) # Conflict
    PROVE  /\ Transform(op, accepted) \in TextOperation
           /\ Transform(op, accepted).type = op.type
           /\ Transform(op, accepted).text = op.text
           /\ InsertMoves(op, accepted, Transform(op, accepted))
<1> DEFINE r == Transform(op, accepted)
           a == accepted.index
<1>1. /\ a \in Nat /\ op.index \in Nat /\ op.length \in Nat /\ Len(accepted.text) \in Nat
      /\ op.type = "insert" => op.length = 0
    BY NormalizedLengths
<1>2. /\ r = IF op.index >= a THEN MovedTo(op, op.index + Len(accepted.text)) ELSE op
      /\ op.type = "insert" \/ ~(op.index < a) \/ ~(a < EndOf(op))
    BY DEF Transform, AcrossInsert
<1>3. CASE op.index >= a
  <2>1. r = [op EXCEPT !.index = op.index + Len(accepted.text)]
    BY <1>2, <1>3 DEF MovedTo
  <2>2. op.index + Len(accepted.text) \in Nat
    BY <1>1
  <2>3. QED BY <1>3, <2>1, <2>2 DEF TextOperation, InsertMoves
<1>4. CASE ~(op.index >= a)
  <2>1. r = op /\ op.index + op.length <= a
    BY <1>1, <1>2, <1>4 DEF EndOf
  <2>2. QED BY <2>1 DEF InsertMoves
<1>5. QED BY <1>3, <1>4

\* The transform changes only the place and the length of an operation: what it
\* is and what it types stay (_transform_operation copies the incoming operation).
LEMMA TransformKeepsKind ==
    ASSUME NEW op \in TextOperation, Normalized(op),
           NEW accepted \in TextOperation, Normalized(accepted),
           Transform(op, accepted) # Conflict
    PROVE  /\ Transform(op, accepted) \in TextOperation
           /\ Transform(op, accepted).type = op.type
           /\ Transform(op, accepted).text = op.text
           /\ Normalized(Transform(op, accepted))
<1> USE NormalizedLengths
<1>1. CASE accepted.type = "insert"
    BY <1>1 DEF Transform, AcrossInsert, MovedTo, TextOperation, Normalized
<1>2. CASE accepted.type # "insert" /\ op.type = "insert"
    BY <1>2 DEF Transform, InsertAcrossRemoved, MovedTo, EndOf, TextOperation, Normalized
<1>3. CASE accepted.type # "insert" /\ op.type # "insert"
  <2>1. Transform(op, accepted).length > 0
    BY <1>3, RangeIsTracked DEF RangeTracks, Tracks
  <2>2. QED BY <1>3, <2>1, RangeCases DEF Normalized, TextOperation
<1>4. QED BY <1>1, <1>2, <1>3

\* An operation that fits the text it was made on still fits it after an
\* operation accepted meanwhile: the bounds check that apply_operation makes on
\* the transformed operation can only fail when the original one was out of bounds.
THEOREM TransformStaysInBounds ==
    ASSUME NEW n \in Nat,
           NEW op \in TextOperation, Normalized(op), WithinBounds(op, n),
           NEW accepted \in TextOperation, Normalized(accepted), WithinBounds(accepted, n),
           Transform(op, accepted) # Conflict
    PROVE  WithinBounds(Transform(op, accepted), LengthAfter(n, accepted))
<1> USE NormalizedLengths
<1>1. CASE accepted.type = "insert"
    BY <1>1 DEF Transform, AcrossInsert, MovedTo, EndOf, WithinBounds, LengthAfter, TextOperation
<1>2. CASE accepted.type # "insert" /\ op.type = "insert"
    BY <1>2 DEF Transform, InsertAcrossRemoved, MovedTo, EndOf, WithinBounds, LengthAfter,
                TextOperation
<1>3. CASE accepted.type # "insert" /\ op.type # "insert"
  <2>1. /\ op.index \in Nat /\ op.length \in Nat /\ op.length > 0 /\ EndOf(op) <= n
        /\ accepted.index \in Nat /\ accepted.length \in Nat /\ accepted.length > 0
        /\ EndOf(accepted) <= n /\ Len(accepted.text) \in Nat
        /\ Transform(op, accepted).index \in Nat /\ Transform(op, accepted).length \in Nat
    BY <1>3, TransformKeepsKind DEF WithinBounds
  <2>2. Transform(op, accepted).type # "insert"
    BY <1>3, RangeCases
  <2>3. /\ Transform(op, accepted).index \in Nat /\ Transform(op, accepted).length > 0
        /\ Transform(op, accepted).length \in Nat
        /\ Transform(op, accepted).index + Transform(op, accepted).length
             <= n - accepted.length + Len(accepted.text)
    <3>1. RangeTracks(op, accepted, Transform(op, accepted))
      BY <1>3, RangeIsTracked
    <3>2. QED BY <2>1, <3>1 DEF RangeTracks, Tracks, EndOf
  <2>4. QED BY <2>1, <2>2, <2>3 DEF WithinBounds, LengthAfter, EndOf
<1>4. QED BY <1>1, <1>2, <1>3

\* A transformed delete or replace removes exactly the characters its author
\* selected that the accepted operation left, wherever they are now.
THEOREM TransformKeepsSelection ==
    ASSUME NEW op \in TextOperation, Normalized(op),
           NEW accepted \in TextOperation, Normalized(accepted),
           Transform(op, accepted) # Conflict
    PROVE  Removed(Transform(op, accepted))
             = { NewIndex(i, accepted) : i \in Removed(op) \ Removed(accepted) }
<1> DEFINE result == Transform(op, accepted)
           kept == { NewIndex(i, accepted) : i \in Removed(op) \ Removed(accepted) }
           Back(j) == IF j < accepted.index THEN j
                      ELSE j - Len(accepted.text) + accepted.length
<1>1. /\ op.index \in Nat /\ op.length \in Nat
      /\ accepted.index \in Nat /\ accepted.length \in Nat /\ Len(accepted.text) \in Nat
      /\ op.type = "insert" => op.length = 0
      /\ op.type # "insert" => op.length > 0
      /\ accepted.type = "insert" => accepted.length = 0
      /\ accepted.type # "insert" => accepted.length > 0
      /\ result.index \in Nat /\ result.length \in Nat
      /\ result.type = op.type
      /\ op.type = "insert" => result.length = 0
    BY NormalizedLengths, TransformKeepsKind
<1>2. ASSUME NEW i \in Nat, i \in Removed(op), i \notin Removed(accepted)
      PROVE  NewIndex(i, accepted) \in Removed(result)
  <2>1. /\ op.index <= i /\ i < op.index + op.length
        /\ i < accepted.index \/ accepted.index + accepted.length <= i
    BY <1>1, <1>2 DEF Removed, EndOf
  <2>2. op.type # "insert"
    BY <1>1, <2>1
  <2>3. /\ NewIndex(i, accepted) \in Nat
        /\ result.index <= NewIndex(i, accepted)
        /\ NewIndex(i, accepted) < result.index + result.length
    <3>1. CASE accepted.type = "insert"
      <4>1. InsertMoves(op, accepted, result)
        BY <3>1, InsertCases
      <4>2. QED BY <1>1, <2>1, <3>1, <4>1 DEF InsertMoves, NewIndex
    <3>2. CASE accepted.type # "insert"
      <4>1. RangeTracks(op, accepted, result)
        BY <2>2, <3>2, RangeIsTracked
      <4>2. CASE i < accepted.index
        BY <1>1, <2>1, <2>2, <3>2, <4>1, <4>2 DEF RangeTracks, Tracks, NewIndex
      <4>3. CASE accepted.index + accepted.length <= i
        BY <1>1, <2>1, <2>2, <3>2, <4>1, <4>3 DEF RangeTracks, Tracks, NewIndex
      <4>4. QED BY <2>1, <4>2, <4>3
    <3>3. QED BY <3>1, <3>2
  <2>4. QED BY <2>3 DEF Removed, EndOf
<1>3. ASSUME NEW j \in Nat, j \in Removed(result)
      PROVE  /\ Back(j) \in Removed(op)
             /\ Back(j) \notin Removed(accepted)
             /\ NewIndex(Back(j), accepted) = j
  <2>1. result.index <= j /\ j < result.index + result.length
    BY <1>1, <1>3 DEF Removed, EndOf
  <2>2. op.type # "insert"
    BY <1>1, <2>1
  <2>3. /\ Back(j) \in Nat
        /\ op.index <= Back(j) /\ Back(j) < op.index + op.length
        /\ Back(j) < accepted.index \/ accepted.index + accepted.length <= Back(j)
        /\ j < accepted.index \/ accepted.index + Len(accepted.text) <= j
    <3>1. CASE accepted.type = "insert"
      <4>1. InsertMoves(op, accepted, result)
        BY <3>1, InsertCases
      <4>2. QED BY <1>1, <2>1, <3>1, <4>1, SMTT(60) DEF InsertMoves
    <3>2. CASE accepted.type # "insert"
      <4>1. RangeTracks(op, accepted, result)
        BY <2>2, <3>2, RangeIsTracked
      <4>2. \/ j < accepted.index
               /\ op.index <= j /\ j < op.index + op.length
            \/ accepted.index + Len(accepted.text) <= j
               /\ op.index <= j - Len(accepted.text) + accepted.length
               /\ j - Len(accepted.text) + accepted.length < op.index + op.length
        BY <1>1, <2>1, <2>2, <3>2, <4>1 DEF RangeTracks, Tracks
      <4>3. QED BY <1>1, <3>2, <4>2
    <3>3. QED BY <3>1, <3>2
  <2>4. NewIndex(Back(j), accepted) = j
    BY <1>1, <2>3 DEF NewIndex
  <2> HIDE DEF Back
  <2>5. QED BY <1>1, <2>3, <2>4 DEF Removed, EndOf
<1>4. kept \subseteq Removed(result)
    BY <1>2 DEF Removed
<1>5. Removed(result) \subseteq kept
    BY <1>3 DEF Removed
<1>6. QED BY <1>4, <1>5

\* No transformed operation removes a character of the text that the accepted one
\* put in: accepted text of another user is preserved.
THEOREM TransformSparesInserted ==
    ASSUME NEW op \in TextOperation, Normalized(op),
           NEW accepted \in TextOperation, Normalized(accepted),
           Transform(op, accepted) # Conflict
    PROVE  Removed(Transform(op, accepted)) \cap Inserted(accepted) = {}
<1> USE NormalizedLengths
<1>1. SUFFICES ASSUME NEW i \in Nat, i \in Removed(op), i \notin Removed(accepted)
               PROVE  NewIndex(i, accepted) \notin Inserted(accepted)
    BY TransformKeepsSelection DEF Removed
<1>2. QED BY <1>1 DEF Removed, NewIndex, Inserted, EndOf, TextOperation

-----------------------------------------------------------------------------
(* A session's text as the replay of its operations.                       *)

Replay(text, accepted) == FoldLeft(LAMBDA kept, x : ApplyText(kept, x.op), text, accepted)

\* A sequence, whatever its elements are.
IsSequence(s) == Len(s) \in Nat /\ s \in Seq({s[i] : i \in 1..Len(s)})

\* The results of the fold over sets of positions.
IsReplay(g, text, accepted, n) ==
    g = [s \in SUBSET (1..n) |->
            IF s = {} THEN text ELSE ApplyText(g[s \ {Max(s)}], accepted[Max(s)].op)]

LEMMA ReplayTableExists ==
    ASSUME NEW text, NEW accepted, NEW n \in Nat
    PROVE  \E g : IsReplay(g, text, accepted, n)
<1> DEFINE N == {k \in Nat : \E g : IsReplay(g, text, accepted, k)}
<1>1. 0 \in N
    <2> DEFINE g == [s \in SUBSET (1..0) |-> text]
    <2>1. \A s \in SUBSET (1..0) : s = {}
        OBVIOUS
    <2>2. IsReplay(g, text, accepted, 0)
        BY <2>1 DEF IsReplay
    <2> HIDE DEF g
    <2> QED
        BY <2>2
<1>2. ASSUME NEW k \in N
      PROVE  k + 1 \in N
    <2>1. PICK g : IsReplay(g, text, accepted, k)
        OBVIOUS
    <2> DEFINE h == [s \in SUBSET (1..(k + 1)) |->
                        IF s \in SUBSET (1..k) THEN g[s]
                        ELSE ApplyText(g[s \ {k + 1}], accepted[k + 1].op)]
    <2>2. ASSUME NEW s \in SUBSET (1..(k + 1))
          PROVE  h[s] = IF s = {} THEN text
                        ELSE ApplyText(h[s \ {Max(s)}], accepted[Max(s)].op)
        <3>1. CASE s = {}
            BY <2>1, <3>1 DEF IsReplay
        <3>2. CASE s # {} /\ s \in SUBSET (1..k)
            <4>1. s \ {Max(s)} \in SUBSET (1..k) /\ s \ {Max(s)} \in SUBSET (1..(k + 1))
                BY <3>2, MaxSplits
            <4>2. h[s] = g[s] /\ h[s \ {Max(s)}] = g[s \ {Max(s)}]
                BY <3>2, <4>1
            <4>3. g[s] = ApplyText(g[s \ {Max(s)}], accepted[Max(s)].op)
                BY <2>1, <3>2 DEF IsReplay
            <4> QED
                BY <3>2, <4>2, <4>3
        <3>3. CASE s \notin SUBSET (1..k)
            <4>1. s # {} /\ Max(s) = k + 1
                BY <3>3, MaxSplits
            <4>2. s \ {k + 1} \in SUBSET (1..k) /\ s \ {k + 1} \in SUBSET (1..(k + 1))
                OBVIOUS
            <4>3. h[s \ {k + 1}] = g[s \ {k + 1}]
                BY <4>2
            <4>4. h[s] = ApplyText(g[s \ {k + 1}], accepted[k + 1].op)
                BY <3>3
            <4> HIDE DEF h
            <4> QED
                BY <4>1, <4>3, <4>4
        <3> QED
            BY <3>1, <3>2, <3>3
    <2>3. IsReplay(h, text, accepted, k + 1)
        BY <2>2 DEF IsReplay
    <2> HIDE DEF h
    <2> QED
        BY <2>3
<1>3. N = Nat
    <2> HIDE DEF N
    <2> N \in SUBSET Nat
        BY DEF N
    <2> QED
        BY <1>1, <1>2, NatInduct
<1> QED
    BY <1>3

\* A table takes the operations one after the other.
LEMMA ReplayTurns ==
    ASSUME NEW text, NEW accepted, NEW n \in Nat, NEW g, IsReplay(g, text, accepted, n)
    PROVE  /\ g[1..0] = text
           /\ \A k \in Nat : k + 1 <= n =>
                g[1..(k + 1)] = ApplyText(g[1..k], accepted[k + 1].op)
<1>1. g[1..0] = text
    <2>1. 1..0 = {} /\ {} \in SUBSET (1..n)
        OBVIOUS
    <2>2. g[{}] = text
        BY <2>1 DEF IsReplay
    <2> QED
        BY <2>1, <2>2
<1>2. ASSUME NEW k \in Nat, k + 1 <= n
      PROVE  g[1..(k + 1)] = ApplyText(g[1..k], accepted[k + 1].op)
    <2> DEFINE next == 1..(k + 1)
    <2>1. next \in SUBSET (1..n)
        BY <1>2
    <2>2. next # {} /\ Max(next) = k + 1 /\ next \ {k + 1} = 1..k
        BY MaxOfPrefix
    <2> HIDE DEF next
    <2>3. g[next] = ApplyText(g[next \ {Max(next)}], accepted[Max(next)].op)
        BY <2>1, <2>2 DEF IsReplay
    <2> QED
        BY <2>2, <2>3 DEF next
<1> QED
    BY <1>1, <1>2

LEMMA ReplayIsTable ==
    ASSUME NEW text, NEW accepted, IsSequence(accepted)
    PROVE  \E g : /\ IsReplay(g, text, accepted, Len(accepted))
                  /\ Replay(text, accepted) = g[1..Len(accepted)]
<1> DEFINE n == Len(accepted)
           Folds(g) == g = [s \in SUBSET (DOMAIN accepted) |->
                        IF s = {} THEN text ELSE ApplyText(g[s \ {Max(s)}], accepted[Max(s)].op)]
           table == CHOOSE g : Folds(g)
<1>1. Replay(text, accepted) = table[DOMAIN accepted]
    BY DEF Replay, FoldLeft, MapThenFoldSet
<1>2. n \in Nat /\ DOMAIN accepted = 1..n
    BY DEF IsSequence
<1>3. \A g : Folds(g) <=> IsReplay(g, text, accepted, n)
    BY <1>2 DEF IsReplay
<1>4. \E g : Folds(g)
    BY <1>2, <1>3, ReplayTableExists
<1>5. IsReplay(table, text, accepted, n)
    BY <1>3, <1>4
<1> HIDE DEF table, Folds
<1> QED
    BY <1>1, <1>2, <1>5

LEMMA ReplayNothing ==
    ASSUME NEW text
    PROVE  Replay(text, << >>) = text
<1>1. Len(<< >>) = 0 /\ IsSequence(<< >>)
    BY DEF IsSequence
<1>2. PICK g : IsReplay(g, text, << >>, 0) /\ Replay(text, << >>) = g[1..0]
    BY <1>1, ReplayIsTable
<1> QED
    BY <1>2, ReplayTurns

LEMMA SequenceOf ==
    ASSUME NEW S, NEW s \in Seq(S)
    PROVE  IsSequence(s)
<1> DEFINE T == {s[i] : i \in 1..Len(s)}
<1>1. Len(s) \in Nat /\ DOMAIN s = 1..Len(s) /\ \A i \in 1..Len(s) : s[i] \in T
    OBVIOUS
<1>2. s = [i \in 1..Len(s) |-> s[i]]
    OBVIOUS
<1> HIDE DEF T
<1>3. s \in Seq(T)
    BY <1>1, <1>2
<1> QED
    BY <1>1, <1>3 DEF IsSequence, T

LEMMA SequenceGrows ==
    ASSUME NEW s, IsSequence(s), NEW x
    PROVE  /\ IsSequence(Append(s, x)) /\ Len(s) \in Nat /\ Len(Append(s, x)) = Len(s) + 1
           /\ DOMAIN s = 1..Len(s) /\ DOMAIN Append(s, x) = 1..(Len(s) + 1)
           /\ \A i \in 1..Len(s) : Append(s, x)[i] = s[i]
           /\ Append(s, x)[Len(s) + 1] = x
<1> DEFINE T == {s[i] : i \in 1..Len(s)} \cup {x}
<1>1. s \in Seq({s[i] : i \in 1..Len(s)}) /\ Len(s) \in Nat
    BY DEF IsSequence
<1>2. s \in Seq(T) /\ x \in T
    BY <1>1
<1> HIDE DEF T
<1>3. Append(s, x) \in Seq(T)
    BY <1>2
<1>4. IsSequence(Append(s, x))
    BY <1>3, SequenceOf
<1> QED
    BY <1>1, <1>2, <1>4

LEMMA ReplayOneMore ==
    ASSUME NEW text, NEW accepted, IsSequence(accepted), NEW x
    PROVE  Replay(text, Append(accepted, x)) = ApplyText(Replay(text, accepted), x.op)
<1> DEFINE n == Len(accepted)
           more == Append(accepted, x)
<1>1. /\ n \in Nat /\ IsSequence(more) /\ Len(more) = n + 1
      /\ \A i \in 1..n : more[i] = accepted[i]
      /\ more[n + 1] = x
    BY SequenceGrows
<1>2. PICK g : IsReplay(g, text, accepted, n) /\ Replay(text, accepted) = g[1..n]
    BY ReplayIsTable
<1>3. PICK h : IsReplay(h, text, more, n + 1) /\ Replay(text, more) = h[1..(n + 1)]
    BY <1>1, ReplayIsTable
<1>0. n \in Nat /\ IsReplay(g, text, accepted, n)
    BY <1>1, <1>2
<1> HIDE DEF more, n
<1>4. /\ g[1..0] = text
      /\ \A k \in Nat : k + 1 <= n => g[1..(k + 1)] = ApplyText(g[1..k], accepted[k + 1].op)
    <2>1. g[1..0] = text
        BY <1>0, ReplayTurns
    <2>2. ASSUME NEW k \in Nat, k + 1 <= n
          PROVE  g[1..(k + 1)] = ApplyText(g[1..k], accepted[k + 1].op)
        BY <1>0, <2>2, ReplayTurns
    <2> QED
        BY <2>1, <2>2
<1>5. /\ h[1..0] = text
      /\ \A k \in Nat : k + 1 <= n + 1 => h[1..(k + 1)] = ApplyText(h[1..k], more[k + 1].op)
    BY <1>1, <1>3, ReplayTurns
<1> DEFINE N == {k \in Nat : k <= n => h[1..k] = g[1..k]}
<1>6. 0 \in N
    BY <1>4, <1>5
<1>7. ASSUME NEW k \in N
      PROVE  k + 1 \in N
    <2> SUFFICES ASSUME k + 1 <= n PROVE h[1..(k + 1)] = g[1..(k + 1)]
        OBVIOUS
    <2>1. k \in Nat /\ k <= n /\ k + 1 <= n + 1 /\ k + 1 \in 1..n
        BY <1>1
    <2>2. h[1..k] = g[1..k] /\ more[k + 1] = accepted[k + 1]
        BY <1>1, <2>1
    <2> QED
        BY <1>4, <1>5, <2>1, <2>2
<1>8. N = Nat
    <2> HIDE DEF N
    <2> N \in SUBSET Nat
        BY DEF N
    <2> QED
        BY <1>6, <1>7, NatInduct
<1>9. h[1..n] = g[1..n]
    BY <1>1, <1>8
<1>10. h[1..(n + 1)] = ApplyText(h[1..n], x.op)
    BY <1>1, <1>5
<1> QED
    BY <1>2, <1>3, <1>9, <1>10 DEF more

LEMMA LastFacts ==
    ASSUME NEW s, IsSequence(s), NEW n \in Nat \ {0}
    PROVE  /\ IsSequence(LastOf(s, n)) /\ Len(LastOf(s, n)) <= Len(s)
           /\ Len(LastOf(s, n)) = Len(s) => LastOf(s, n) = s
<1> DEFINE S == {s[i] : i \in 1..Len(s)}
           first == Larger(1, Len(s) - n + 1)
           last == LastOf(s, n)
<1>1. Len(s) \in Nat /\ s \in Seq(S)
    BY DEF IsSequence
<1>2. first \in Nat /\ first >= 1 /\ first <= Len(s) + 1
    BY <1>1 DEF Larger
<1>3. last = SubSeq(s, first, Len(s))
    BY DEF LastOf
<1> HIDE DEF first, last, S
<1>4. Len(last) = Len(s) - first + 1 /\ last \in Seq(S)
      /\ \A i \in 1..(Len(s) - first + 1) : last[i] = s[first + i - 1]
    BY <1>1, <1>2, <1>3
<1>5. IsSequence(last)
    BY <1>4, SequenceOf
<1>6. Len(last) = Len(s) => last = s
    BY <1>1, <1>2, <1>4
<1> QED
    BY <1>1, <1>2, <1>4, <1>5, <1>6 DEF last

\* The property AppliedOnce, of a list of operations.
Distinct(operations) ==
    \A i, j \in DOMAIN operations :
        operations[i].client = operations[j].client
        /\ operations[i].client_operation_id = operations[j].client_operation_id => i = j

-----------------------------------------------------------------------------
(* Texts and operations are of their types.                                *)

\* A text or a list of texts and operations cut somewhere holds nothing new.
LEMMA PartIsText ==
    ASSUME NEW S, NEW s \in Seq(S), NEW m \in Nat \ {0}, NEW n \in 0..Len(s)
    PROVE  /\ SubSeq(s, m, n) \in Seq(S)
           /\ ToSet(SubSeq(s, m, n)) \subseteq ToSet(s)
<1>1. Len(s) \in Nat /\ DOMAIN s = 1..Len(s) /\ n \in Int /\ m \in Int
    BY LenProperties
<1>2. \A i \in m..n : i \in DOMAIN s /\ s[i] \in S
    BY <1>1, ElementOfSeq
<1>3. \A i \in m..n : s[i] \in ToSet(s)
    BY <1>2 DEF ToSet
<1>4. SubSeq(s, m, n) \in Seq(S)
    BY <1>1, <1>2, SubSeqProperties
<1>5. SubSeq(s, m, n) \in Seq(ToSet(s))
    BY <1>1, <1>3, SubSeqProperties
<1>6. ToSet(SubSeq(s, m, n)) \subseteq ToSet(s)
    <2> DEFINE part == SubSeq(s, m, n)
               T == ToSet(s)
    <2> HIDE DEF part, T
    <2>1. part \in Seq(T)
        BY <1>5 DEF part, T
    <2>2. \A i \in DOMAIN part : part[i] \in T
        BY <2>1, LenProperties, ElementOfSeq
    <2>3. ToSet(part) \subseteq T
        BY <2>2 DEF ToSet
    <2> QED
        BY <2>3 DEF part, T
<1> QED
    BY <1>4, <1>6

\* Two texts one after the other.
LEMMA TogetherIsText ==
    ASSUME NEW S, NEW s \in Seq(S), NEW t \in Seq(S)
    PROVE  s \o t \in Seq(S) /\ ToSet(s \o t) \subseteq ToSet(s) \cup ToSet(t)
<1>1. /\ DOMAIN s = 1..Len(s) /\ DOMAIN t = 1..Len(t) /\ DOMAIN (s \o t) = 1..Len(s \o t)
      /\ Len(s) \in Nat /\ Len(t) \in Nat /\ Len(s \o t) = Len(s) + Len(t)
      /\ s \o t \in Seq(S)
    BY LenProperties, ConcatProperties
<1>2. ASSUME NEW i \in DOMAIN (s \o t)
      PROVE  (s \o t)[i] \in ToSet(s) \cup ToSet(t)
    <2>1. i \in 1..(Len(s) + Len(t))
        BY <1>1
    <2>2. (s \o t)[i] = IF i <= Len(s) THEN s[i] ELSE t[i - Len(s)]
        BY <2>1, ConcatProperties
    <2>3. IF i <= Len(s) THEN i \in DOMAIN s ELSE i - Len(s) \in DOMAIN t
        BY <1>1, <2>1
    <2> QED
        BY <2>2, <2>3 DEF ToSet
<1>3. ToSet(s \o t) \subseteq ToSet(s) \cup ToSet(t)
    <2> DEFINE both == s \o t
               T == ToSet(s) \cup ToSet(t)
    <2>1. \A i \in DOMAIN both : both[i] \in T
        BY <1>2
    <2> HIDE DEF both, T
    <2>2. ToSet(both) \subseteq T
        BY <2>1 DEF ToSet
    <2> QED
        BY <2>2 DEF both, T
<1> QED
    BY <1>1, <1>3

\* What an operation within the text's bounds makes of it: the characters were in the
\* text, or come with the operation.
LEMMA ApplyIsText ==
    ASSUME NEW text \in Seq(Char), NEW op \in TextOperation, op.index <= Len(text)
    PROVE  /\ ApplyText(text, op) \in Seq(Char)
           /\ ToSet(ApplyText(text, op)) \subseteq ToSet(text) \cup ToSet(op.text)
<1> DEFINE before == SubSeq(text, 1, op.index)
           after == SubSeq(text, EndOf(op) + 1, Len(text))
<1>1. /\ op.index \in 0..Len(text) /\ EndOf(op) + 1 \in Nat \ {0} /\ Len(text) \in 0..Len(text)
      /\ op.text \in Seq(Char) /\ 1 \in Nat \ {0}
    BY LenProperties DEF TextOperation, EndOf
<1>2. before \in Seq(Char) /\ ToSet(before) \subseteq ToSet(text)
    BY <1>1, PartIsText
<1>3. after \in Seq(Char) /\ ToSet(after) \subseteq ToSet(text)
    BY <1>1, PartIsText
<1>4. ApplyText(text, op) = (before \o op.text) \o after
    BY DEF ApplyText
<1> HIDE DEF before, after
<1> DEFINE first == before \o op.text
<1>5. first \in Seq(Char) /\ ToSet(first) \subseteq ToSet(before) \cup ToSet(op.text)
    BY <1>1, <1>2, TogetherIsText
<1> HIDE DEF first
<1>6. first \o after \in Seq(Char) /\ ToSet(first \o after) \subseteq ToSet(first) \cup ToSet(after)
    BY <1>3, <1>5, TogetherIsText
<1> QED
    BY <1>2, <1>3, <1>4, <1>5, <1>6 DEF first

\* A moved operation is an operation, unless it is refused.
LEMMA TransformIsOperation ==
    ASSUME NEW op \in TextOperation, NEW accepted \in TextOperation
    PROVE  Transform(op, accepted) \in TextOperation \cup {Conflict}
<1>1. /\ op.index \in Nat /\ op.length \in Nat /\ accepted.index \in Nat /\ accepted.length \in Nat
      /\ Len(accepted.text) \in Nat
    BY LenProperties DEF TextOperation
<1>2. \A index \in Nat : MovedTo(op, index) \in TextOperation
    BY DEF MovedTo, TextOperation
<1>3. AcrossInsert(op, accepted) \in TextOperation \cup {Conflict}
    BY <1>1, <1>2 DEF AcrossInsert
<1>4. InsertAcrossRemoved(op, accepted) \in TextOperation
    BY <1>1, <1>2 DEF InsertAcrossRemoved, EndOf
<1>5. RangeAcrossRemoved(op, accepted) \in TextOperation \cup {Conflict}
    <2> DEFINE left == Larger(0, Smaller(EndOf(op), accepted.index) - op.index)
               right == Larger(0, EndOf(op) - Larger(op.index, EndOf(accepted)))
               inserted == Len(accepted.text)
    <2>1. left \in Nat /\ right \in Nat /\ inserted \in Nat
        <3>1. EndOf(op) \in Nat /\ EndOf(accepted) \in Nat
            BY <1>1 DEF EndOf
        <3>2. left \in Nat
            BY <1>1, <3>1 DEF Larger, Smaller
        <3>3. right \in Nat
            BY <1>1, <3>1 DEF Larger
        <3> QED
            BY <1>1, <3>2, <3>3
    <2>2. op.index >= EndOf(accepted) =>
            MovedTo(op, op.index + inserted - accepted.length) \in TextOperation
        BY <1>1, <1>2 DEF EndOf
    <2>3. \A index, length \in Nat :
            /\ [op EXCEPT !.length = length] \in TextOperation
            /\ [op EXCEPT !.index = index, !.length = length] \in TextOperation
        BY DEF TextOperation
    <2>4. left + right \in Nat /\ accepted.index + inserted \in Nat
        BY <1>1, <2>1
    <2>5. \/ RangeAcrossRemoved(op, accepted) \in {op, Conflict}
          \/ /\ op.index >= EndOf(accepted)
             /\ RangeAcrossRemoved(op, accepted)
                    = MovedTo(op, op.index + inserted - accepted.length)
          \/ RangeAcrossRemoved(op, accepted)
                = [op EXCEPT !.length = IF inserted > 0 THEN left ELSE left + right]
          \/ RangeAcrossRemoved(op, accepted)
                = [op EXCEPT !.index = accepted.index + inserted, !.length = right]
        BY DEF RangeAcrossRemoved
    <2> HIDE DEF left, right, inserted
    <2>6. (IF inserted > 0 THEN left ELSE left + right) \in Nat
        BY <2>1, <2>4
    <2> QED
        BY <2>1, <2>2, <2>3, <2>4, <2>5, <2>6
<1> QED
    BY <1>3, <1>4, <1>5 DEF Transform

LEMMA ConflictIsNone == Conflict \notin TextOperation
<1>1. Conflict.type = "conflict"
    BY DEF Conflict
<1>2. \A op \in TextOperation : op.type # "conflict"
    BY DEF TextOperation
<1> QED
    BY <1>1, <1>2

\* One turn of the loop over the operations accepted.
MovedPast(op, base_revision, accepted) ==
    IF op = Conflict \/ accepted.server_revision <= base_revision THEN op
    ELSE Transform(op, accepted.op)

\* The turns of the loop over the operations accepted.
TurnsOf(g, s, message) ==
    /\ g[1..0] = message.op
    /\ \A k \in Nat : k + 1 <= Len(s.operations) =>
        g[1..(k + 1)] = MovedPast(g[1..k], message.base_revision, s.operations[k + 1])
    /\ g[1..Len(s.operations)] = Transformed(s, message)

LEMMA TransformedTurns ==
    ASSUME NEW s, NEW message, IsSequence(s.operations), message.op \in TextOperation,
           \A i \in 1..Len(s.operations) : s.operations[i].op \in TextOperation
    PROVE  \E g : TurnsOf(g, s, message)
<1> DEFINE X == TextOperation \cup {Conflict}
           list == s.operations
           n == Len(list)
           Turn(x, i) == MovedPast(x, message.base_revision, list[i])
           base == message.op
           Folds(g) == g = [t \in SUBSET (DOMAIN list) |->
                        IF t = {} THEN base ELSE Turn(g[t \ {Max(t)}], Max(t))]
           table == CHOOSE g : Folds(g)
           turn == [p \in X \X (1..n) |-> Turn(p[1], p[2])]
<1>1. n \in Nat /\ DOMAIN list = 1..n
    BY DEF IsSequence
<1>2. Transformed(s, message) = table[DOMAIN list]
    BY DEF Transformed, FoldLeft, MapThenFoldSet, MovedPast
<1>3. \A x \in X, i \in 1..n : Turn(x, i) \in X
    BY TransformIsOperation DEF MovedPast
<1> HIDE DEF Turn, n, list
<1>4. turn \in [X \X (1..n) -> X] /\ \A x \in X, i \in 1..n : turn[x, i] = Turn(x, i)
    BY <1>3
<1> HIDE DEF turn
<1>5. base \in X
    OBVIOUS
<1> HIDE DEF X, base
<1>6. PICK g \in [SUBSET (1..n) -> X] : IsFold(g, base, turn, n)
    BY <1>1, <1>4, <1>5, FoldTableExists
<1>7. ASSUME NEW t \in SUBSET (1..n)
      PROVE  g[t] = IF t = {} THEN base ELSE Turn(g[t \ {Max(t)}], Max(t))
    <2>1. CASE t = {}
        BY <1>6, <2>1 DEF IsFold
    <2>2. CASE t # {}
        <3>1. Max(t) \in 1..n /\ t \ {Max(t)} \in SUBSET (1..n)
            BY <1>1, <2>2, MaxOfPositions
        <3>2. g[t \ {Max(t)}] \in X
            BY <3>1
        <3>3. g[t] = turn[g[t \ {Max(t)}], Max(t)]
            BY <1>6, <2>2 DEF IsFold
        <3> QED
            BY <1>4, <2>2, <3>1, <3>2, <3>3
    <2> QED
        BY <2>1, <2>2
<1>8. Folds(g)
    BY <1>1, <1>7
<1>9. Folds(table)
    BY <1>8
<1> HIDE DEF table
<1>10. \A t \in SUBSET (1..n) :
            table[t] = IF t = {} THEN base ELSE Turn(table[t \ {Max(t)}], Max(t))
    BY <1>1, <1>9
<1> HIDE DEF Folds
<1>11. table[1..0] = base
    <2>1. 1..0 = {} /\ {} \in SUBSET (1..n)
        OBVIOUS
    <2>2. table[{}] = base
        BY <1>10, <2>1
    <2> QED
        BY <2>1, <2>2
<1>12. ASSUME NEW k \in Nat, k + 1 <= n
       PROVE  table[1..(k + 1)] = Turn(table[1..k], k + 1)
    <2> DEFINE next == 1..(k + 1)
    <2>1. next \in SUBSET (1..n)
        BY <1>1, <1>12
    <2>2. next # {} /\ Max(next) = k + 1 /\ next \ {k + 1} = 1..k
        BY MaxOfPrefix
    <2> HIDE DEF next
    <2>3. table[next] = Turn(table[next \ {Max(next)}], Max(next))
        BY <1>10, <2>1, <2>2
    <2> QED
        BY <2>2, <2>3 DEF next
<1>13. TurnsOf(table, s, message)
    BY <1>1, <1>2, <1>11, <1>12 DEF TurnsOf, n, list, base, Turn
<1> QED
    BY <1>13

\* A message moved across accepted operations is an operation, unless it is refused.
LEMMA TransformedIsOperation ==
    ASSUME NEW s, NEW message, IsSequence(s.operations), message.op \in TextOperation,
           \A i \in 1..Len(s.operations) : s.operations[i].op \in TextOperation
    PROVE  Transformed(s, message) \in TextOperation \cup {Conflict}
<1> DEFINE X == TextOperation \cup {Conflict}
           n == Len(s.operations)
<1>1. PICK g : TurnsOf(g, s, message)
    BY TransformedTurns
<1>2. n \in Nat
    BY DEF IsSequence
<1>3. \A x \in X, i \in 1..n : MovedPast(x, message.base_revision, s.operations[i]) \in X
    BY TransformIsOperation DEF MovedPast
<1>4. /\ g[1..0] \in X
      /\ \A k \in Nat : k + 1 <= n =>
            g[1..(k + 1)] = MovedPast(g[1..k], message.base_revision, s.operations[k + 1])
      /\ g[1..n] = Transformed(s, message)
    BY <1>1 DEF TurnsOf
<1> HIDE DEF X, n
<1> DEFINE N == {k \in Nat : k <= n => g[1..k] \in X}
<1>5. 0 \in N
    BY <1>4
<1>6. ASSUME NEW k \in N
      PROVE  k + 1 \in N
    <2> SUFFICES ASSUME k + 1 <= n PROVE g[1..(k + 1)] \in X
        OBVIOUS
    <2>1. k \in Nat /\ k + 1 \in 1..n /\ g[1..k] \in X
        BY <1>2
    <2> QED
        BY <1>3, <1>4, <2>1
<1>7. N = Nat
    <2> HIDE DEF N
    <2> N \in SUBSET Nat
        BY DEF N
    <2> QED
        BY <1>5, <1>6, NatInduct
<1> QED
    BY <1>2, <1>4, <1>7 DEF X

\* The text of a session at a revision.
TextIn(text, operations, revision) == Replay(text, SubSeq(operations, 1, revision))

LEMMA PrefixOfMore ==
    ASSUME NEW S, NEW s \in Seq(S), NEW x \in S, NEW r \in 0..Len(s)
    PROVE  SubSeq(Append(s, x), 1, r) = SubSeq(s, 1, r)
<1> DEFINE more == Append(s, x)
<1>1. /\ Len(s) \in Nat /\ more \in Seq(S) /\ Len(more) = Len(s) + 1
      /\ \A i \in 1..Len(s) : more[i] = s[i]
    BY AppendProperties, LenProperties
<1> HIDE DEF more
<1>2. \A i \in 1..r : s[i] \in S /\ more[i] \in S /\ more[i] = s[i]
    BY <1>1, ElementOfSeq
<1> DEFINE a == SubSeq(s, 1, r)
           b == SubSeq(more, 1, r)
           l == IF 1 <= r THEN r - 1 + 1 ELSE 0
<1>3. /\ a \in Seq(S) /\ Len(a) = l /\ \A i \in 1..(r - 1 + 1) : a[i] = s[1 + i - 1]
      /\ b \in Seq(S) /\ Len(b) = l /\ \A i \in 1..(r - 1 + 1) : b[i] = more[1 + i - 1]
    <2>1. \A i \in 1..r : s[i] \in S
        BY <1>2
    <2>2. \A i \in 1..r : more[i] \in S
        BY <1>2
    <2>3. 1 \in Int /\ r \in Int
        OBVIOUS
    <2>4. /\ a \in Seq(S) /\ Len(a) = l /\ \A i \in 1..(r - 1 + 1) : a[i] = s[1 + i - 1]
        BY <2>1, <2>3, SubSeqProperties
    <2>5. /\ b \in Seq(S) /\ Len(b) = l /\ \A i \in 1..(r - 1 + 1) : b[i] = more[1 + i - 1]
        BY <2>2, <2>3, SubSeqProperties
    <2> QED
        BY <2>4, <2>5
<1> HIDE DEF a, b
<1>4. \A i \in 1..Len(a) : a[i] = b[i]
    <2> SUFFICES ASSUME NEW i \in 1..Len(a) PROVE a[i] = b[i]
        OBVIOUS
    <2>1. i \in 1..r /\ i \in 1..(r - 1 + 1) /\ 1 + i - 1 = i
        BY <1>3
    <2> QED
        BY <1>2, <1>3, <2>1
<1>5. a = b
    BY <1>3, <1>4, SeqEqual
<1> QED
    BY <1>5 DEF a, b, more

LEMMA LastIsAll ==
    ASSUME NEW S, NEW s \in Seq(S), NEW n \in Nat, Len(s) <= n
    PROVE  LastOf(s, n) = s
<1>1. Len(s) \in Nat
    BY LenProperties
<1>2. Larger(1, Len(s) - n + 1) = 1
    BY <1>1 DEF Larger
<1> QED
    BY <1>2, SubSeqFull DEF LastOf

-----------------------------------------------------------------------------
(* Where the characters that an author has seen are after operations that   *)
(* were accepted since.                                                     *)

\* The positions of the characters that an operation removes.
Selected(op) == (op.index + 1)..EndOf(op)

\* Where a character that the accepted operation leaves is after it.
Shifted(p, a, removed, inserted) == IF p <= a THEN p ELSE p + inserted - removed

NewPosition(p, accepted) ==
    Shifted(p, accepted.index, accepted.length, Len(accepted.text))

\* A position stays before the range, after it or in it.
StaysBeside(p, x, length, q, rx, rlength) ==
    /\ p <= x => q <= rx
    /\ p > x + length => q > rx + rlength
    /\ p > x /\ p <= x + length => q > rx /\ q <= rx + rlength

SameSide(p, op, q, moved) ==
    StaysBeside(p, op.index, op.length, q, moved.index, moved.length)

\* The arithmetic of _transform_operation, for a position that the accepted operation
\* leaves: across an insert ...
LEMMA BesideInsert ==
    ASSUME NEW p \in Nat, NEW x \in Nat, NEW length \in Nat, NEW a \in Nat,
           NEW inserted \in Nat, NEW rx \in Nat,
           \/ x >= a /\ rx = x + inserted
           \/ x + length <= a /\ rx = x
    PROVE  StaysBeside(p, x, length, Shifted(p, a, 0, inserted), rx, length)
BY DEF StaysBeside, Shifted

\* ... of an insert across a removed range ...
LEMMA InsertBesideRange ==
    ASSUME NEW p \in Nat, NEW x \in Nat, NEW a \in Nat, NEW removed \in Nat,
           NEW inserted \in Nat, NEW rx \in Nat,
           removed > 0, p <= a \/ p > a + removed,
           rx = IF x >= a + removed THEN x + inserted - removed
                ELSE IF x > a THEN a + inserted ELSE x
    PROVE  StaysBeside(p, x, 0, Shifted(p, a, removed, inserted), rx, 0)
BY DEF StaysBeside, Shifted

\* ... and of a range across a removed one.
LEMMA MovesStayBeside ==
    ASSUME NEW p \in Nat, NEW x \in Nat, NEW length \in Nat, NEW a \in Nat,
           NEW removed \in Nat, NEW inserted \in Nat, NEW rx \in Nat, NEW rlength \in Nat,
           length > 0, removed > 0, p <= a \/ p > a + removed,
           Moves(x, length, a, removed, inserted, rx, rlength)
    PROVE  StaysBeside(p, x, length, Shifted(p, a, removed, inserted), rx, rlength)
<1> DEFINE b == a + removed
           e == x + length
<1>1. CASE e <= a /\ rx = x /\ rlength = length
    BY <1>1 DEF StaysBeside, Shifted
<1>2. CASE x >= b /\ rx = x + inserted - removed /\ rlength = length
    BY <1>2 DEF StaysBeside, Shifted
<1>3. CASE x < a /\ a < e /\ e <= b /\ rx = x /\ rlength = a - x
    BY <1>3 DEF StaysBeside, Shifted
<1>4. CASE x < a /\ b < e /\ inserted = 0 /\ rx = x /\ rlength = length - removed
    BY <1>4 DEF StaysBeside, Shifted
<1>5. CASE a <= x /\ x < b /\ b < e /\ rx = a + inserted /\ rlength = e - b
    BY <1>5 DEF StaysBeside, Shifted
<1>6. QED BY <1>1, <1>2, <1>3, <1>4, <1>5 DEF Moves

\* The transform leaves each character where it is in relation to the operation.
LEMMA TransformKeepsSides ==
    ASSUME NEW op \in TextOperation, Normalized(op),
           NEW accepted \in TextOperation, Normalized(accepted),
           Transform(op, accepted) # Conflict,
           NEW p \in Nat, p <= accepted.index \/ p > EndOf(accepted)
    PROVE  SameSide(p, op, NewPosition(p, accepted), Transform(op, accepted))
<1> DEFINE r == Transform(op, accepted)
           a == accepted.index
           n == accepted.length
           m == Len(accepted.text)
           x == op.index
           l == op.length
           y == r.index
           k == r.length
           Sides == StaysBeside(p, x, l, Shifted(p, a, n, m), y, k)
<1>1. /\ a \in Nat /\ n \in Nat /\ m \in Nat /\ x \in Nat /\ l \in Nat /\ y \in Nat /\ k \in Nat
      /\ op.type = "insert" => l = 0
      /\ op.type # "insert" => l > 0
      /\ accepted.type = "insert" => n = 0
      /\ accepted.type # "insert" => n > 0
      /\ r.type = op.type
      /\ op.type = "insert" => k = 0
    BY NormalizedLengths, TransformKeepsKind
<1>2. p <= a \/ p > a + n
    BY DEF EndOf
<1>3. ASSUME accepted.type = "insert"
      PROVE  Sides
    <2>1. k = l /\ n = 0 /\ ((x >= a /\ y = x + m) \/ (x + l <= a /\ y = x))
        BY <1>1, <1>3, InsertCases DEF InsertMoves
    <2> HIDE DEF r, a, n, m, x, l, y, k
    <2> QED
        BY <1>1, <2>1, BesideInsert
<1>4. ASSUME accepted.type # "insert", op.type = "insert"
      PROVE  Sides
    <2>1. r = InsertAcrossRemoved(op, accepted)
        BY <1>4 DEF Transform
    <2>2. y = IF x >= a + n THEN x + m - n ELSE IF x > a THEN a + m ELSE x
        <3>1. \A i : MovedTo(op, i).index = i
            BY DEF MovedTo, TextOperation
        <3> QED
            BY <2>1, <3>1 DEF InsertAcrossRemoved, EndOf
    <2>3. l = 0 /\ k = 0 /\ n > 0
        BY <1>1, <1>4
    <2> HIDE DEF r, a, n, m, x, l, y, k
    <2> QED
        BY <1>1, <1>2, <2>2, <2>3, InsertBesideRange
<1>5. ASSUME accepted.type # "insert", op.type # "insert"
      PROVE  Sides
    <2>1. Moves(x, l, a, n, m, y, k)
        BY <1>5, RangeCases DEF RangeMoves
    <2>2. n > 0 /\ l > 0
        BY <1>1, <1>5
    <2> HIDE DEF r, a, n, m, x, l, y, k
    <2> QED
        BY <1>1, <1>2, <2>1, <2>2, MovesStayBeside
<1>6. Sides
    BY <1>3, <1>4, <1>5
<1> QED
    BY <1>6 DEF SameSide, NewPosition

\* What the accepted operation puts in is not selected.
LEMMA TransformSelectsSeen ==
    ASSUME NEW op \in TextOperation, Normalized(op),
           NEW accepted \in TextOperation, Normalized(accepted),
           Transform(op, accepted) # Conflict,
           NEW q \in (accepted.index + 1)..(accepted.index + Len(accepted.text))
    PROVE  q \notin Selected(Transform(op, accepted))
<1> DEFINE r == Transform(op, accepted)
           i == q - 1
<1>1. /\ accepted.index \in Nat /\ Len(accepted.text) \in Nat
      /\ r \in TextOperation /\ r.index \in Nat /\ r.length \in Nat
    BY NormalizedLengths, TransformKeepsKind
<1>2. i \in Inserted(accepted)
    BY <1>1 DEF Inserted
<1>3. i \notin Removed(r)
    BY <1>2, TransformSparesInserted
<1>4. i \in Nat /\ q = i + 1
    BY <1>1
<1> HIDE DEF r, i
<1>5. ~(r.index <= i /\ i < r.index + r.length)
    BY <1>3, <1>4 DEF Removed, EndOf
<1>6. q \notin (r.index + 1)..(r.index + r.length)
    BY <1>1, <1>4, <1>5
<1> QED
    BY <1>6 DEF Selected, EndOf, r

\* Where each character of the text after an operation comes from.
IsApplied(after, text, op) ==
    /\ after \in Seq(Char) /\ Len(after) = Len(text) - op.length + Len(op.text)
    /\ \A p \in 1..Len(text) : p <= op.index \/ p > EndOf(op) =>
        /\ NewPosition(p, op) \in 1..Len(after)
        /\ after[NewPosition(p, op)] = text[p]
    /\ \A i \in 1..Len(op.text) :
        op.index + i \in 1..Len(after) /\ after[op.index + i] = op.text[i]

LEMMA ApplyTextPlaces ==
    ASSUME NEW text \in Seq(Char), NEW op \in TextOperation,
           Normalized(op), WithinBounds(op, Len(text))
    PROVE  IsApplied(ApplyText(text, op), text, op)
<1> DEFINE x == op.index
           l == op.length
           m == Len(op.text)
           n == Len(text)
           typed_text == op.text
           before == SubSeq(text, 1, x)
           rest == SubSeq(text, EndOf(op) + 1, n)
           first == before \o typed_text
           after == first \o rest
<1>1. /\ x \in Nat /\ l \in Nat /\ m \in Nat /\ n \in Nat /\ typed_text \in Seq(Char)
      /\ EndOf(op) = x + l /\ x + l <= n
    BY LenProperties, NormalizedLengths DEF TextOperation, WithinBounds, EndOf
<1>2. after = ApplyText(text, op)
    BY DEF ApplyText
<1>3. before \in Seq(Char) /\ Len(before) = x /\ \A p \in 1..x : before[p] = text[p]
    <2>1. \A p \in 1..x : text[p] \in Char
        BY <1>1, ElementOfSeq
    <2> QED
        BY <1>1, <2>1, SubSeqProperties
<1>4. /\ rest \in Seq(Char) /\ Len(rest) = n - (x + l)
      /\ \A j \in 1..(n - (x + l)) : rest[j] = text[x + l + j]
    <2>1. \A p \in (x + l + 1)..n : text[p] \in Char
        BY <1>1, ElementOfSeq
    <2> DEFINE s == x + l + 1
    <2>2. /\ SubSeq(text, s, n) \in Seq(Char)
          /\ Len(SubSeq(text, s, n)) = IF s <= n THEN n - s + 1 ELSE 0
          /\ \A j \in 1..(n - s + 1) : SubSeq(text, s, n)[j] = text[s + j - 1]
        BY <1>1, <2>1, SubSeqProperties
    <2>3. rest = SubSeq(text, s, n)
        BY <1>1
    <2>4. n - s + 1 = n - (x + l) /\ Len(rest) = n - (x + l)
        BY <1>1, <2>2, <2>3
    <2>5. ASSUME NEW j \in 1..(n - (x + l))
          PROVE  rest[j] = text[x + l + j]
        <3>1. j \in 1..(n - s + 1) /\ s + j - 1 = x + l + j
            BY <1>1
        <3> QED
            BY <2>2, <2>3, <3>1
    <2> QED
        BY <2>2, <2>3, <2>4, <2>5
<1> HIDE DEF before, rest, typed_text, n, m, x, l
<1>5. /\ first \in Seq(Char) /\ Len(first) = x + Len(typed_text)
      /\ \A i \in 1..(x + Len(typed_text)) :
            first[i] = IF i <= x THEN before[i] ELSE typed_text[i - x]
    BY <1>1, <1>3, ConcatProperties
<1> HIDE DEF first
<1>6. m = Len(typed_text)
    BY DEF m, typed_text
<1>7. /\ after \in Seq(Char) /\ Len(after) = x + m + (n - (x + l))
      /\ \A i \in 1..(x + m + (n - (x + l))) :
            after[i] = IF i <= x + m THEN first[i] ELSE rest[i - (x + m)]
    <2> DEFINE u == Len(first)
               v == Len(rest)
    <2>1. /\ after \in Seq(Char) /\ Len(after) = u + v
          /\ \A i \in 1..(u + v) : after[i] = IF i <= u THEN first[i] ELSE rest[i - u]
        BY <1>4, <1>5, ConcatProperties
    <2>2. u = x + m /\ v = n - (x + l)
        BY <1>4, <1>5, <1>6
    <2> HIDE DEF u, v, after
    <2> QED
        BY <2>1, <2>2
<1> HIDE DEF after
<1>8. after \in Seq(Char) /\ Len(after) = n - l + m
    BY <1>1, <1>7
<1>9. ASSUME NEW p \in 1..n, p <= x
      PROVE  p \in 1..Len(after) /\ after[p] = text[p]
    <2>1. p \in 1..x /\ p \in 1..(x + m) /\ p \in 1..(x + m + (n - (x + l))) /\ p <= x + m
        BY <1>1, <1>9
    <2> QED
        BY <1>3, <1>5, <1>6, <1>7, <2>1
<1>10. ASSUME NEW p \in 1..n, p > x + l
       PROVE  p + m - l \in 1..Len(after) /\ after[p + m - l] = text[p]
    <2> DEFINE i == p + m - l
               j == p - (x + l)
    <2>1. /\ i \in 1..(x + m + (n - (x + l))) /\ ~(i <= x + m) /\ i - (x + m) = j
          /\ j \in 1..(n - (x + l)) /\ x + l + j = p
        BY <1>1, <1>10
    <2> HIDE DEF i, j
    <2>2. after[i] = rest[j] /\ rest[j] = text[p] /\ i \in 1..Len(after)
        BY <1>4, <1>7, <2>1
    <2> QED
        BY <2>2 DEF i
<1>11. ASSUME NEW i \in 1..m
       PROVE  x + i \in 1..Len(after) /\ after[x + i] = typed_text[i]
    <2> DEFINE k == x + i
    <2>1. /\ k \in 1..(x + m) /\ ~(k <= x) /\ k - x = i /\ k <= x + m
          /\ k \in 1..(x + m + (n - (x + l)))
        BY <1>1
    <2> HIDE DEF k
    <2>2. after[k] = typed_text[i] /\ k \in 1..Len(after)
        BY <1>5, <1>6, <1>7, <2>1
    <2> QED
        BY <2>2 DEF k
<1>12. ASSUME NEW p \in 1..n, p <= x \/ p > EndOf(op)
       PROVE  NewPosition(p, op) \in 1..Len(after) /\ after[NewPosition(p, op)] = text[p]
    <2>1. NewPosition(p, op) = IF p <= x THEN p ELSE p + m - l
        BY DEF NewPosition, Shifted, x, m, l
    <2>2. p <= x \/ (~(p <= x) /\ p > x + l)
        BY <1>1, <1>12
    <2> QED
        BY <1>9, <1>10, <2>1, <2>2
<1>13. IsApplied(after, text, op)
    <2>1. Len(after) = Len(text) - op.length + Len(op.text)
        BY <1>8 DEF n, l, m
    <2>2. \A p \in 1..Len(text) : p <= op.index \/ p > EndOf(op) =>
            /\ NewPosition(p, op) \in 1..Len(after)
            /\ after[NewPosition(p, op)] = text[p]
        BY <1>12 DEF n, x
    <2>3. \A i \in 1..Len(op.text) :
            op.index + i \in 1..Len(after) /\ after[op.index + i] = op.text[i]
        BY <1>11 DEF m, x, typed_text
    <2> QED
        BY <1>8, <2>1, <2>2, <2>3 DEF IsApplied
<1> QED
    BY <1>2, <1>13

\* A position of the new text is one that was kept, or one of the text put in.
LEMMA AppliedComesFrom ==
    ASSUME NEW text \in Seq(Char), NEW op \in TextOperation,
           Normalized(op), WithinBounds(op, Len(text)),
           NEW after, IsApplied(after, text, op), NEW q \in 1..Len(after)
    PROVE  \/ \E p \in 1..Len(text) :
                /\ p <= op.index \/ p > EndOf(op)
                /\ q = NewPosition(p, op) /\ after[q] = text[p]
           \/ /\ q \in (op.index + 1)..(op.index + Len(op.text))
              /\ q - op.index \in 1..Len(op.text)
              /\ after[q] = op.text[q - op.index]
<1> DEFINE x == op.index
           l == op.length
           m == Len(op.text)
           n == Len(text)
<1>1. /\ x \in Nat /\ l \in Nat /\ m \in Nat /\ n \in Nat
      /\ EndOf(op) = x + l /\ x + l <= n /\ Len(after) = n - l + m
    BY LenProperties, NormalizedLengths DEF TextOperation, WithinBounds, EndOf, IsApplied
<1>2. \A p : NewPosition(p, op) = IF p <= x THEN p ELSE p + m - l
    BY DEF NewPosition, Shifted
<1>3. /\ \A p \in 1..n : p <= x \/ p > EndOf(op) => after[NewPosition(p, op)] = text[p]
      /\ \A i \in 1..m : after[x + i] = op.text[i]
    BY DEF IsApplied
<1>4. q \in 1..(n - l + m)
    BY <1>1
<1> HIDE DEF x, l, m, n
<1>5. CASE q <= x
    <2>1. q \in 1..n /\ q = NewPosition(q, op)
        BY <1>1, <1>2, <1>4, <1>5
    <2> QED
        BY <1>3, <1>5, <2>1 DEF x, n
<1>6. CASE q > x + m
    <2> DEFINE p == q - m + l
    <2>1. p \in 1..n /\ p > x + l /\ ~(p <= x) /\ q = p + m - l
        BY <1>1, <1>4, <1>6
    <2> HIDE DEF p
    <2>2. q = NewPosition(p, op) /\ p > EndOf(op)
        BY <1>1, <1>2, <2>1
    <2> QED
        BY <1>3, <2>1, <2>2 DEF x, n
<1>7. CASE ~(q <= x) /\ ~(q > x + m)
    <2>1. q \in (x + 1)..(x + m) /\ q - x \in 1..m /\ x + (q - x) = q
        BY <1>1, <1>4, <1>7
    <2>2. after[x + (q - x)] = op.text[q - x]
        BY <1>3, <2>1
    <2> QED
        BY <2>1, <2>2 DEF x, m
<1> QED
    BY <1>5, <1>6, <1>7

\* The moved operation stands in the text where the operation stood in what its author
\* has seen: every character of the text either came with an operation accepted since,
\* and is not selected, or is one that the author saw, on the same side.
Follows(seen, op, others, text, moved) ==
    /\ moved \in TextOperation /\ Normalized(moved) /\ moved.text = op.text
    /\ \A q \in 1..Len(text) :
        \/ text[q] \in others /\ q \notin Selected(moved)
        \/ \E p \in 1..Len(seen) : text[q] = seen[p] /\ SameSide(p, op, q, moved)

LEMMA FollowsStart ==
    ASSUME NEW seen \in Seq(Char), NEW op \in TextOperation, Normalized(op), NEW others
    PROVE  Follows(seen, op, others, seen, op)
<1>1. Len(seen) \in Nat /\ op.index \in Nat /\ op.length \in Nat
    BY LenProperties DEF TextOperation
<1>2. \A p \in 1..Len(seen) : SameSide(p, op, p, op)
    BY <1>1 DEF SameSide, StaysBeside
<1> QED
    BY <1>2 DEF Follows

LEMMA SidesGoOn ==
    ASSUME NEW p \in Nat, NEW x \in Nat, NEW l \in Nat, NEW q \in Nat, NEW y \in Nat,
           NEW k \in Nat, NEW r \in Int, NEW z \in Nat, NEW m \in Nat,
           StaysBeside(p, x, l, q, y, k), StaysBeside(q, y, k, r, z, m)
    PROVE  StaysBeside(p, x, l, r, z, m)
BY DEF StaysBeside

LEMMA SelectedSides ==
    ASSUME NEW op \in TextOperation, NEW p \in Int
    PROVE  p \in Selected(op) <=> p > op.index /\ p <= op.index + op.length
BY DEF Selected, EndOf, TextOperation

LEMMA OutsideStays ==
    ASSUME NEW op \in TextOperation, NEW moved \in TextOperation, NEW p \in Int, NEW q \in Int,
           SameSide(p, op, q, moved), p \notin Selected(op)
    PROVE  q \notin Selected(moved)
<1> DEFINE x == op.index
           l == op.length
           y == moved.index
           k == moved.length
<1>1. x \in Int /\ l \in Int /\ y \in Int /\ k \in Int
    BY DEF TextOperation
<1>2. StaysBeside(p, x, l, q, y, k)
    BY DEF SameSide
<1>3. ~(p > x /\ p <= x + l)
    BY SelectedSides
<1> HIDE DEF x, l, y, k
<1>4. ~(q > y /\ q <= y + k)
    BY <1>1, <1>2, <1>3 DEF StaysBeside
<1> QED
    BY <1>4, SelectedSides DEF y, k

\* One operation more is accepted.
LEMMA FollowsStep ==
    ASSUME NEW seen \in Seq(Char), NEW op \in TextOperation, NEW others,
           NEW text \in Seq(Char), NEW moved, Follows(seen, op, others, text, moved),
           NEW accepted \in TextOperation, Normalized(accepted),
           WithinBounds(accepted, Len(text)), ToSet(accepted.text) \subseteq others,
           Transform(moved, accepted) # Conflict
    PROVE  Follows(seen, op, others, ApplyText(text, accepted), Transform(moved, accepted))
<1> DEFINE r == Transform(moved, accepted)
           after == ApplyText(text, accepted)
<1>1. moved \in TextOperation /\ Normalized(moved) /\ moved.text = op.text
    BY DEF Follows
<1>2. r \in TextOperation /\ Normalized(r) /\ r.text = op.text
    BY <1>1, TransformKeepsKind
<1>3. IsApplied(after, text, accepted)
    BY ApplyTextPlaces
<1>4. /\ op.index \in Nat /\ op.length \in Nat /\ moved.index \in Nat /\ moved.length \in Nat
      /\ r.index \in Nat /\ r.length \in Nat /\ Len(text) \in Nat /\ Len(seen) \in Nat
      /\ accepted.index \in Nat /\ Len(accepted.text) \in Nat /\ Len(after) \in Nat
      /\ accepted.length \in Nat
    BY <1>1, <1>2, <1>3, NormalizedLengths, LenProperties DEF TextOperation, IsApplied
<1>5. \A p \in Nat : p <= accepted.index \/ p > EndOf(accepted) =>
            SameSide(p, moved, NewPosition(p, accepted), r)
    BY <1>1, TransformKeepsSides
<1>6. \A q \in (accepted.index + 1)..(accepted.index + Len(accepted.text)) : q \notin Selected(r)
    BY <1>1, TransformSelectsSeen
<1>7. \A p \in Nat : NewPosition(p, accepted) \in Int
    BY <1>4 DEF NewPosition, Shifted
<1>8. ASSUME NEW q \in 1..Len(after)
      PROVE  \/ \E p \in 1..Len(text) :
                    /\ p <= accepted.index \/ p > EndOf(accepted)
                    /\ q = NewPosition(p, accepted) /\ after[q] = text[p]
             \/ /\ q \in (accepted.index + 1)..(accepted.index + Len(accepted.text))
                /\ q - accepted.index \in 1..Len(accepted.text)
                /\ after[q] = accepted.text[q - accepted.index]
    BY <1>3, AppliedComesFrom
<1> HIDE DEF r, after
<1>9. ASSUME NEW q \in 1..Len(after)
      PROVE  \/ after[q] \in others /\ q \notin Selected(r)
             \/ \E p \in 1..Len(seen) : after[q] = seen[p] /\ SameSide(p, op, q, r)
    <2>1. CASE /\ q \in (accepted.index + 1)..(accepted.index + Len(accepted.text))
               /\ q - accepted.index \in 1..Len(accepted.text)
               /\ after[q] = accepted.text[q - accepted.index]
        <3>1. DOMAIN accepted.text = 1..Len(accepted.text)
            BY LenProperties DEF TextOperation
        <3>2. after[q] \in ToSet(accepted.text)
            BY <2>1, <3>1 DEF ToSet
        <3> QED
            BY <1>6, <2>1, <3>2
    <2>2. ASSUME NEW p \in 1..Len(text), p <= accepted.index \/ p > EndOf(accepted),
                 q = NewPosition(p, accepted), after[q] = text[p]
          PROVE  \/ after[q] \in others /\ q \notin Selected(r)
                 \/ \E i \in 1..Len(seen) : after[q] = seen[i] /\ SameSide(i, op, q, r)
        <3>1. p \in Nat /\ q \in Int /\ SameSide(p, moved, q, r)
            BY <1>4, <1>5, <1>7, <2>2
        <3>2. CASE text[p] \in others /\ p \notin Selected(moved)
            <4>1. p \in Int
                BY <3>1
            <4>2. q \notin Selected(r)
                BY <1>1, <1>2, <3>1, <3>2, <4>1, OutsideStays
            <4> QED
                BY <2>2, <3>2, <4>2
        <3>3. ASSUME NEW i \in 1..Len(seen), text[p] = seen[i], SameSide(i, op, p, moved)
              PROVE  after[q] = seen[i] /\ SameSide(i, op, q, r)
            <4>1. i \in Nat
                BY <1>4
            <4>2. SameSide(i, op, q, r)
                BY <1>4, <3>1, <3>3, <4>1, SidesGoOn DEF SameSide
            <4> QED
                BY <2>2, <3>3, <4>2
        <3> QED
            BY <3>2, <3>3 DEF Follows
    <2> QED
        BY <1>8, <2>1, <2>2
<1>10. Follows(seen, op, others, after, r)
    BY <1>2, <1>9 DEF Follows
<1> QED
    BY <1>10 DEF r, after

\* The texts of a session at its revisions: the operations that it keeps lead from one
\* to the next, each within the bounds of the text it was applied to.
IsStep(before, accepted, after) ==
    /\ before \in Seq(Char)
    /\ accepted \in TextOperation /\ Normalized(accepted)
    /\ WithinBounds(accepted, Len(before))
    /\ after = ApplyText(before, accepted)

StepAt(texts, accepted, r) ==
    accepted.server_revision = r + 1 /\ IsStep(texts[r], accepted.op, texts[r + 1])

Story(texts, s) ==
    /\ s.revision \in Nat /\ IsSequence(s.operations) /\ Len(s.operations) <= s.revision
    /\ texts[s.revision] = s.text
    /\ \A i \in 1..Len(s.operations) :
        StepAt(texts, s.operations[i], s.revision - Len(s.operations) + i - 1)

\* The characters put in since a message was made.
PutIn(s, message) ==
    { x \in Char : \E i \in 1..Len(s.operations) :
        /\ s.operations[i].server_revision > message.base_revision
        /\ x \in ToSet(s.operations[i].op.text) }

\* The transformed message stands in the session's text where it stood in the text its
\* author had seen, when the session still keeps every operation accepted since.
LEMMA TransformedFollows ==
    ASSUME NEW texts, NEW s, Story(texts, s), NEW message,
           message.op \in TextOperation, Normalized(message.op),
           message.base_revision \in Nat, message.base_revision <= s.revision,
           message.base_revision >= s.revision - Len(s.operations),
           message.seen \in Seq(Char), texts[message.base_revision] = message.seen,
           Transformed(s, message) # Conflict
    PROVE  Follows(message.seen, message.op, PutIn(s, message), s.text, Transformed(s, message))
<1> DEFINE n == Len(s.operations)
           base == message.base_revision
           first == s.revision - n
           seen == message.seen
           op == message.op
           list == s.operations
           others == PutIn(s, message)
           At(k, x) == /\ first + k <= base => x = op
                       /\ first + k >= base =>
                            x = Conflict \/ Follows(seen, op, others, texts[first + k], x)
<1>1. /\ n \in Nat /\ s.revision \in Nat /\ n <= s.revision /\ first \in Nat
      /\ base \in Nat /\ first <= base /\ base <= first + n
    <2>1. n \in Nat /\ s.revision \in Nat /\ n <= s.revision
        BY DEF Story, IsSequence
    <2> HIDE DEF n
    <2> QED
        BY <2>1 DEF n
<1>2. \A i \in 1..n : StepAt(texts, list[i], first + i - 1)
    BY DEF Story
<1>3. \A i \in 1..n : list[i].op \in TextOperation
    BY <1>2 DEF StepAt, IsStep
<1>4. PICK g : TurnsOf(g, s, message)
    BY <1>3, TransformedTurns DEF Story
<1>5. /\ g[1..0] = op
      /\ \A k \in Nat : k + 1 <= n => g[1..(k + 1)] = MovedPast(g[1..k], base, list[k + 1])
      /\ g[1..n] = Transformed(s, message)
    BY <1>4 DEF TurnsOf
<1>6. ASSUME NEW i \in 1..n, list[i].server_revision > base
      PROVE  ToSet(list[i].op.text) \subseteq others
    <2>1. list[i].op.text \in Seq(Char)
        BY <1>3 DEF TextOperation
    <2>2. ToSet(list[i].op.text) \subseteq Char
        BY <2>1, LenProperties, ElementOfSeq DEF ToSet
    <2> QED
        BY <1>6, <2>2 DEF PutIn
<1>7. Follows(seen, op, others, seen, op) /\ texts[base] = seen /\ texts[first + n] = s.text
    <2>1. Follows(seen, op, others, seen, op)
        BY FollowsStart
    <2>2. first + n = s.revision
        BY <1>1
    <2> QED
        BY <2>1, <2>2 DEF Story
<1>8. seen \in Seq(Char) /\ op \in TextOperation
    OBVIOUS
<1> HIDE DEF n, base, first, seen, op, list, others
<1>9. At(0, g[1..0])
    BY <1>1, <1>5, <1>7
<1>10. ASSUME NEW k \in Nat, k + 1 <= n, At(k, g[1..k])
       PROVE  At(k + 1, g[1..(k + 1)])
    <2> DEFINE i == k + 1
               r == first + k
               x == g[1..k]
               y == g[1..(k + 1)]
    <2>1. i \in 1..n /\ first + i - 1 = r /\ first + (k + 1) = r + 1 /\ r \in Nat
        BY <1>1, <1>10
    <2>2. /\ list[i].server_revision = r + 1
          /\ IsStep(texts[r], list[i].op, texts[r + 1])
          /\ y = MovedPast(x, base, list[i])
        <3>1. StepAt(texts, list[i], r)
            BY <1>2, <2>1
        <3>2. y = MovedPast(x, base, list[i])
            BY <1>5, <1>10
        <3> HIDE DEF i, r, x, y
        <3> QED
            BY <3>1, <3>2 DEF StepAt
    <2>3. /\ r <= base => x = op
          /\ r >= base => x = Conflict \/ Follows(seen, op, others, texts[r], x)
        BY <1>10
    <2> HIDE DEF At
    <2>4. CASE r + 1 <= base
        <3>1. y = op
            BY <1>1, <2>1, <2>2, <2>3, <2>4 DEF MovedPast
        <3>2. r + 1 >= base => Follows(seen, op, others, texts[r + 1], y)
            BY <1>1, <1>7, <2>1, <2>4, <3>1
        <3> QED
            BY <2>1, <2>4, <3>1, <3>2 DEF At
    <2>5. CASE r + 1 > base
        <3>1. r >= base /\ ~(r + 1 <= base)
            BY <1>1, <2>1, <2>5
        <3>2. y = Conflict \/ Follows(seen, op, others, texts[r + 1], y)
            <4>1. CASE x = Conflict
                BY <2>2, <4>1 DEF MovedPast
            <4>2. CASE x # Conflict
                <5>1. y = Transform(x, list[i].op) /\ Follows(seen, op, others, texts[r], x)
                    BY <2>2, <2>3, <3>1, <4>2 DEF MovedPast
                <5>2. ToSet(list[i].op.text) \subseteq others
                    BY <1>6, <2>1, <2>2, <2>5
                <5> HIDE DEF x, y, r, i
                <5>3. ASSUME y # Conflict
                      PROVE  Follows(seen, op, others, ApplyText(texts[r], list[i].op),
                                     Transform(x, list[i].op))
                    BY <1>8, <2>2, <5>1, <5>2, <5>3, FollowsStep DEF IsStep
                <5> QED
                    BY <2>2, <5>1, <5>3 DEF IsStep
            <4> QED
                BY <4>1, <4>2
        <3> QED
            BY <2>1, <3>1, <3>2 DEF At
    <2> QED
        BY <1>1, <2>1, <2>4, <2>5
<1> DEFINE N == {k \in Nat : k <= n => At(k, g[1..k])}
<1>11. N = Nat
    <2>1. 0 \in N
        BY <1>9
    <2>2. ASSUME NEW k \in N
          PROVE  k + 1 \in N
        <3> HIDE DEF At
        <3> SUFFICES ASSUME k + 1 <= n PROVE At(k + 1, g[1..(k + 1)])
            OBVIOUS
        <3>1. k \in Nat /\ At(k, g[1..k])
            BY <1>1
        <3> QED
            BY <1>10, <3>1
    <2> HIDE DEF N
    <2>3. N \in SUBSET Nat
        BY DEF N
    <2> QED
        BY <2>1, <2>2, <2>3, NatInduct
<1>12. At(n, g[1..n])
    BY <1>1, <1>11
<1>13. Follows(seen, op, others, s.text, Transformed(s, message))
    BY <1>1, <1>5, <1>7, <1>12
<1> QED
    BY <1>13 DEF seen, op, others

-----------------------------------------------------------------------------
(* What the lists and the texts of a session keep.                         *)

\* An operation moved across operations is normalized and types the same.
LEMMA TransformedKeepsKind ==
    ASSUME NEW s, NEW message, IsSequence(s.operations),
           message.op \in TextOperation, Normalized(message.op),
           \A i \in 1..Len(s.operations) : /\ s.operations[i].op \in TextOperation
                                           /\ Normalized(s.operations[i].op),
           Transformed(s, message) # Conflict
    PROVE  /\ Transformed(s, message) \in TextOperation
           /\ Normalized(Transformed(s, message))
           /\ Transformed(s, message).text = message.op.text
<1> DEFINE X == {op \in TextOperation : Normalized(op) /\ op.text = message.op.text} \cup {Conflict}
           n == Len(s.operations)
<1>1. PICK g : TurnsOf(g, s, message)
    BY TransformedTurns
<1>2. n \in Nat
    BY DEF IsSequence
<1>3. ASSUME NEW x \in X, NEW i \in 1..n
      PROVE  MovedPast(x, message.base_revision, s.operations[i]) \in X
    <2>1. CASE x = Conflict
        BY <2>1 DEF MovedPast
    <2>2. CASE x # Conflict
        <3>1. x \in TextOperation /\ Normalized(x) /\ x.text = message.op.text
            BY <2>2
        <3>2. s.operations[i].op \in TextOperation /\ Normalized(s.operations[i].op)
            OBVIOUS
        <3> DEFINE r == Transform(x, s.operations[i].op)
        <3>3. r # Conflict => r \in TextOperation /\ Normalized(r) /\ r.text = x.text
            BY <3>1, <3>2, TransformKeepsKind
        <3>4. MovedPast(x, message.base_revision, s.operations[i]) \in {x, r}
            BY DEF MovedPast
        <3> HIDE DEF r
        <3>5. r \in X
            BY <3>1, <3>3
        <3> QED
            BY <3>4, <3>5
    <2> QED
        BY <2>1, <2>2
<1>4. /\ g[1..0] \in X
      /\ \A k \in Nat : k + 1 <= n =>
            g[1..(k + 1)] = MovedPast(g[1..k], message.base_revision, s.operations[k + 1])
      /\ g[1..n] = Transformed(s, message)
    BY <1>1 DEF TurnsOf
<1> HIDE DEF X, n
<1> DEFINE N == {k \in Nat : k <= n => g[1..k] \in X}
<1>5. 0 \in N
    BY <1>4
<1>6. ASSUME NEW k \in N
      PROVE  k + 1 \in N
    <2> SUFFICES ASSUME k + 1 <= n PROVE g[1..(k + 1)] \in X
        OBVIOUS
    <2>1. k \in Nat /\ k + 1 \in 1..n /\ g[1..k] \in X
        BY <1>2
    <2> QED
        BY <1>3, <1>4, <2>1
<1>7. N = Nat
    <2> HIDE DEF N
    <2> N \in SUBSET Nat
        BY DEF N
    <2> QED
        BY <1>5, <1>6, NatInduct
<1>8. Transformed(s, message) \in X
    BY <1>2, <1>4, <1>7
<1> QED
    BY <1>8 DEF X

\* The last elements of a list, by their places in it.
LEMMA LastPlaces ==
    ASSUME NEW s, IsSequence(s), Len(s) > 0, NEW n \in Nat \ {0}
    PROVE  /\ Len(LastOf(s, n)) \in 1..Len(s)
           /\ \A i \in 1..Len(LastOf(s, n)) : LastOf(s, n)[i] = s[Len(s) - Len(LastOf(s, n)) + i]
<1> DEFINE S == {s[i] : i \in 1..Len(s)}
           first == Larger(1, Len(s) - n + 1)
           last == LastOf(s, n)
<1>1. Len(s) \in Nat /\ s \in Seq(S)
    BY DEF IsSequence
<1>2. first \in Nat /\ first >= 1 /\ first <= Len(s)
    BY <1>1 DEF Larger
<1>3. last = SubSeq(s, first, Len(s))
    BY DEF LastOf
<1> HIDE DEF first, last, S
<1>4. Len(last) = Len(s) - first + 1
      /\ \A i \in 1..(Len(s) - first + 1) : last[i] = s[first + i - 1]
    BY <1>1, <1>2, <1>3
<1>5. Len(last) \in 1..Len(s)
    BY <1>1, <1>2, <1>4
<1>6. ASSUME NEW i \in 1..Len(last)
      PROVE  last[i] = s[Len(s) - Len(last) + i]
    <2>1. first + i - 1 = Len(s) - Len(last) + i /\ i \in 1..(Len(s) - first + 1)
        BY <1>1, <1>2, <1>4
    <2> QED
        BY <1>4, <2>1
<1> QED
    BY <1>5, <1>6 DEF last

\* A text holds what its set of characters says.
LEMMA TextOfSome ==
    ASSUME NEW S, NEW T, NEW s \in Seq(S), ToSet(s) \subseteq T
    PROVE  s \in Seq(T)
<1>1. Len(s) \in Nat /\ DOMAIN s = 1..Len(s) /\ s = [i \in 1..Len(s) |-> s[i]]
    BY LenProperties
<1>2. \A i \in 1..Len(s) : s[i] \in T
    BY <1>1 DEF ToSet
<1> QED
    BY <1>1, <1>2

LEMMA SomeOfText ==
    ASSUME NEW S, NEW s \in Seq(S)
    PROVE  ToSet(s) \subseteq S
BY LenProperties, ElementOfSeq DEF ToSet

\* What has been typed goes on being so.
LEMMA MoreTyped ==
    ASSUME NEW n \in Nat, NEW m \in Nat, n <= m, NEW s \in Seq(0..n)
    PROVE  s \in Seq(0..m)
<1>1. ToSet(s) \subseteq 0..n
    BY SomeOfText
<1>2. ToSet(s) \subseteq 0..m
    BY <1>1
<1> QED
    BY <1>2, TextOfSome
=============================================================================
