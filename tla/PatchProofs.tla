---------------------------- MODULE PatchProofs ----------------------------
(***************************************************************************)
(* What is proved of the JSON Patch engine, for every set of documents and *)
(* of operations, and of the rows that are stored of its patches.          *)
(*                                                                         *)
(* A pointer is a way to read a document and to write it, and the two fit: *)
(* what was written is what is read, a second write is the only one that   *)
(* counts, and writing what was read changes nothing.  With that, an       *)
(* operation and its inverse cancel out in any document if they do in the  *)
(* container they change, and a patch and the list of its inverses, last   *)
(* first, cancel out pair by pair from the middle.                         *)
(*                                                                         *)
(* EventChain's checks compare what a row holds with what its patch does   *)
(* to the state that the rows before it lead to.  Rows that pass are a     *)
(* story: a state for each row, which the row explains.  A fault that      *)
(* changes a row leaves the others, so the story goes as the history does  *)
(* up to that row; and there it can go nowhere else, since the recorded    *)
(* paths and values tell what a patch did (PatchesAgree).                  *)
(***************************************************************************)
EXTENDS PatchRun, EventChain, FoldLemmas, SequenceTheorems

-----------------------------------------------------------------------------
(* The folds: down a pointer, along a patch with and without its records,   *)
(* and along the rows of a document as the two checks take them.  For       *)
(* FoldLeft the provers have no facts: each is the last value of a table    *)
(* over the sets of positions.                                              *)

\* One operation of a patch: nothing applies to a document that has failed.
PatchTurn(working_copy, op) ==
    IF working_copy = Failed THEN Failed ELSE ApplySingle(working_copy, op)

Applied(doc, ops) == FoldLeft(PatchTurn, doc, ops)

Turn(fold, value, item) ==
    CASE fold = "pointer" -> Child(value, item)
      [] fold = "patch" -> PatchTurn(value, item)
      [] fold = "recorded" -> Recorded(value, item)
      [] fold = "replay" -> ReplayEvent(value, item)
      [] fold = "check" -> CheckEvent(value, item)

FoldOf(fold, base, seq) ==
    CASE fold = "pointer" -> GetValue(base, seq)
      [] fold = "patch" -> Applied(base, seq)
      [] fold = "recorded" -> FoldLeft(Recorded, base, seq)
      [] fold = "replay" -> FoldLeft(ReplayEvent, base, seq)
      [] fold = "check" -> FoldLeft(CheckEvent, base, seq)

Folds == {"pointer", "patch", "recorded", "replay", "check"}

IsTable(fold, h, base, seq) ==
    h = [s \in SUBSET (1..Len(seq)) |->
            IF s = {} THEN base ELSE Turn(fold, h[s \ {Max(s)}], seq[Max(s)])]

LEMMA TableExists ==
    ASSUME NEW fold, NEW base, NEW S, NEW seq \in Seq(S)
    PROVE  \E h : IsTable(fold, h, base, seq)
<1> DEFINE Partial(h, k) == h = [s \in SUBSET (1..k) |->
                IF s = {} THEN base ELSE Turn(fold, h[s \ {Max(s)}], seq[Max(s)])]
           N == {k \in Nat : \E h : Partial(h, k)}
<1>1. 0 \in N
    <2> DEFINE h == [s \in SUBSET (1..0) |-> base]
    <2>1. \A s \in SUBSET (1..0) : s = {}
        OBVIOUS
    <2>2. Partial(h, 0)
        BY <2>1
    <2> HIDE DEF h
    <2> QED
        BY <2>2
<1>2. ASSUME NEW k \in N
      PROVE  k + 1 \in N
    <2>0. k \in Nat
        OBVIOUS
    <2>1. PICK g : Partial(g, k)
        OBVIOUS
    <2> DEFINE Entry(f, s) == IF s = {} THEN base ELSE Turn(fold, f[s \ {Max(s)}], seq[Max(s)])
               h == [s \in SUBSET (1..(k + 1)) |-> Entry(g, s)]
    <2>2. ASSUME NEW s \in SUBSET (1..k)
          PROVE  s \in SUBSET (1..(k + 1)) /\ h[s] = g[s]
        <3>1. s \in SUBSET (1..(k + 1))
            BY <2>0
        <3>2. g[s] = Entry(g, s)
            BY <2>1
        <3> QED
            BY <3>1, <3>2
    <2>3. ASSUME NEW s \in SUBSET (1..(k + 1))
          PROVE  Entry(g, s) = Entry(h, s)
        <3>1. CASE s = {}
            BY <3>1
        <3>2. CASE s # {}
            <4>1. s \ {Max(s)} \in SUBSET (1..k)
                BY <2>0, <3>2, MaxSplits
            <4>2. h[s \ {Max(s)}] = g[s \ {Max(s)}]
                BY <4>1, <2>2
            <4> HIDE DEF h
            <4> QED
                BY <4>2
        <3> QED
            BY <3>1, <3>2
    <2>4. h = [s \in SUBSET (1..(k + 1)) |-> Entry(h, s)]
        <3> HIDE DEF Entry
        <3> QED
            BY <2>3
    <2>5. Partial(h, k + 1)
        <3> HIDE DEF h
        <3> QED
            BY <2>4
    <2>6. \E other : Partial(other, k + 1)
        <3> HIDE DEF h
        <3> QED
            BY <2>5
    <2> HIDE DEF Partial, h
    <2> QED
        BY <2>6, <2>0
<1>3. N = Nat
    <2> HIDE DEF N
    <2> N \in SUBSET Nat
        BY DEF N
    <2> QED
        BY <1>1, <1>2, NatInduct
<1>4. Len(seq) \in N
    <2> HIDE DEF N
    <2> QED
        BY <1>3, LenProperties
<1> QED
    BY <1>4 DEF IsTable

LEMMA FoldIsTable ==
    ASSUME NEW fold \in Folds, NEW base, NEW S, NEW seq \in Seq(S)
    PROVE  \E h : IsTable(fold, h, base, seq) /\ FoldOf(fold, base, seq) = h[1..Len(seq)]
<1>0. DOMAIN seq = 1..Len(seq)
    BY LenProperties
<1>1. CASE fold = "pointer"
    <2> DEFINE table == CHOOSE h : h = [s \in SUBSET DOMAIN seq |->
                            IF s = {} THEN base ELSE Child(h[s \ {Max(s)}], seq[Max(s)])]
    <2>1. FoldOf(fold, base, seq) = table[DOMAIN seq]
        BY <1>1 DEF FoldOf, GetValue, FoldLeft, MapThenFoldSet
    <2>2. \E h : h = [s \in SUBSET DOMAIN seq |->
                            IF s = {} THEN base ELSE Child(h[s \ {Max(s)}], seq[Max(s)])]
        <3>1. PICK h : IsTable(fold, h, base, seq)
            BY TableExists
        <3>2. h = [s \in SUBSET DOMAIN seq |->
                            IF s = {} THEN base ELSE Child(h[s \ {Max(s)}], seq[Max(s)])]
            BY <1>0, <1>1, <3>1 DEF IsTable, Turn
        <3> QED
            BY <3>2
    <2>3. table = [s \in SUBSET DOMAIN seq |->
                    IF s = {} THEN base ELSE Child(table[s \ {Max(s)}], seq[Max(s)])]
        BY <2>2
    <2> HIDE DEF table
    <2>4. IsTable(fold, table, base, seq)
        BY <1>0, <1>1, <2>3 DEF IsTable, Turn
    <2> QED
        BY <1>0, <2>1, <2>4
<1>2. CASE fold = "patch"
    <2> DEFINE table == CHOOSE h : h = [s \in SUBSET DOMAIN seq |->
                            IF s = {} THEN base ELSE PatchTurn(h[s \ {Max(s)}], seq[Max(s)])]
    <2>1. FoldOf(fold, base, seq) = table[DOMAIN seq]
        BY <1>2 DEF FoldOf, Applied, FoldLeft, MapThenFoldSet
    <2>2. \E h : h = [s \in SUBSET DOMAIN seq |->
                            IF s = {} THEN base ELSE PatchTurn(h[s \ {Max(s)}], seq[Max(s)])]
        <3>1. PICK h : IsTable(fold, h, base, seq)
            BY TableExists
        <3>2. h = [s \in SUBSET DOMAIN seq |->
                            IF s = {} THEN base ELSE PatchTurn(h[s \ {Max(s)}], seq[Max(s)])]
            BY <1>0, <1>2, <3>1 DEF IsTable, Turn
        <3> QED
            BY <3>2
    <2>3. table = [s \in SUBSET DOMAIN seq |->
                    IF s = {} THEN base ELSE PatchTurn(table[s \ {Max(s)}], seq[Max(s)])]
        BY <2>2
    <2> HIDE DEF table
    <2>4. IsTable(fold, table, base, seq)
        BY <1>0, <1>2, <2>3 DEF IsTable, Turn
    <2> QED
        BY <1>0, <2>1, <2>4
<1>3. CASE fold = "recorded"
    <2> DEFINE table == CHOOSE h : h = [s \in SUBSET DOMAIN seq |->
                            IF s = {} THEN base ELSE Recorded(h[s \ {Max(s)}], seq[Max(s)])]
    <2>1. FoldOf(fold, base, seq) = table[DOMAIN seq]
        BY <1>3 DEF FoldOf, FoldLeft, MapThenFoldSet
    <2>2. \E h : h = [s \in SUBSET DOMAIN seq |->
                            IF s = {} THEN base ELSE Recorded(h[s \ {Max(s)}], seq[Max(s)])]
        <3>1. PICK h : IsTable(fold, h, base, seq)
            BY TableExists
        <3>2. h = [s \in SUBSET DOMAIN seq |->
                            IF s = {} THEN base ELSE Recorded(h[s \ {Max(s)}], seq[Max(s)])]
            BY <1>0, <1>3, <3>1 DEF IsTable, Turn
        <3> QED
            BY <3>2
    <2>3. table = [s \in SUBSET DOMAIN seq |->
                    IF s = {} THEN base ELSE Recorded(table[s \ {Max(s)}], seq[Max(s)])]
        BY <2>2
    <2> HIDE DEF table
    <2>4. IsTable(fold, table, base, seq)
        BY <1>0, <1>3, <2>3 DEF IsTable, Turn
    <2> QED
        BY <1>0, <2>1, <2>4
<1>4. CASE fold = "replay"
    <2> DEFINE table == CHOOSE h : h = [s \in SUBSET DOMAIN seq |->
                            IF s = {} THEN base ELSE ReplayEvent(h[s \ {Max(s)}], seq[Max(s)])]
    <2>1. FoldOf(fold, base, seq) = table[DOMAIN seq]
        BY <1>4 DEF FoldOf, FoldLeft, MapThenFoldSet
    <2>2. \E h : h = [s \in SUBSET DOMAIN seq |->
                            IF s = {} THEN base ELSE ReplayEvent(h[s \ {Max(s)}], seq[Max(s)])]
        <3>1. PICK h : IsTable(fold, h, base, seq)
            BY TableExists
        <3>2. h = [s \in SUBSET DOMAIN seq |->
                            IF s = {} THEN base ELSE ReplayEvent(h[s \ {Max(s)}], seq[Max(s)])]
            BY <1>0, <1>4, <3>1 DEF IsTable, Turn
        <3> QED
            BY <3>2
    <2>3. table = [s \in SUBSET DOMAIN seq |->
                    IF s = {} THEN base ELSE ReplayEvent(table[s \ {Max(s)}], seq[Max(s)])]
        BY <2>2
    <2> HIDE DEF table
    <2>4. IsTable(fold, table, base, seq)
        BY <1>0, <1>4, <2>3 DEF IsTable, Turn
    <2> QED
        BY <1>0, <2>1, <2>4
<1>5. CASE fold = "check"
    <2> DEFINE table == CHOOSE h : h = [s \in SUBSET DOMAIN seq |->
                            IF s = {} THEN base ELSE CheckEvent(h[s \ {Max(s)}], seq[Max(s)])]
    <2>1. FoldOf(fold, base, seq) = table[DOMAIN seq]
        BY <1>5 DEF FoldOf, FoldLeft, MapThenFoldSet
    <2>2. \E h : h = [s \in SUBSET DOMAIN seq |->
                            IF s = {} THEN base ELSE CheckEvent(h[s \ {Max(s)}], seq[Max(s)])]
        <3>1. PICK h : IsTable(fold, h, base, seq)
            BY TableExists
        <3>2. h = [s \in SUBSET DOMAIN seq |->
                            IF s = {} THEN base ELSE CheckEvent(h[s \ {Max(s)}], seq[Max(s)])]
            BY <1>0, <1>5, <3>1 DEF IsTable, Turn
        <3> QED
            BY <3>2
    <2>3. table = [s \in SUBSET DOMAIN seq |->
                    IF s = {} THEN base ELSE CheckEvent(table[s \ {Max(s)}], seq[Max(s)])]
        BY <2>2
    <2> HIDE DEF table
    <2>4. IsTable(fold, table, base, seq)
        BY <1>0, <1>5, <2>3 DEF IsTable, Turn
    <2> QED
        BY <1>0, <2>1, <2>4
<1> QED
    BY <1>1, <1>2, <1>3, <1>4, <1>5 DEF Folds

LEMMA FoldEmpty ==
    ASSUME NEW fold \in Folds, NEW base
    PROVE  FoldOf(fold, base, << >>) = base
<1>1. << >> \in Seq({}) /\ Len(<< >>) = 0 /\ 1..0 = {} /\ {} \in SUBSET (1..0)
    OBVIOUS
<1>2. PICK h : IsTable(fold, h, base, << >>) /\ FoldOf(fold, base, << >>) = h[1..Len(<< >>)]
    BY <1>1, FoldIsTable
<1>3. h[{}] = base
    BY <1>1, <1>2 DEF IsTable
<1> QED
    BY <1>1, <1>2, <1>3

\* An entry of the table of a fold.
LEMMA TableEntry ==
    ASSUME NEW fold, NEW base, NEW S, NEW seq \in Seq(S), NEW h, IsTable(fold, h, base, seq)
    PROVE  /\ h[{}] = base
           /\ \A k \in 1..Len(seq) : h[1..k] = Turn(fold, h[1..(k - 1)], seq[k])
<1>1. h[{}] = base
    BY DEF IsTable
<1>2. ASSUME NEW k \in 1..Len(seq)
      PROVE  h[1..k] = Turn(fold, h[1..(k - 1)], seq[k])
    <2>0. Len(seq) \in Nat
        BY LenProperties
    <2>1. k - 1 \in Nat /\ (k - 1) + 1 = k /\ 1..k \in SUBSET (1..Len(seq))
        BY <2>0, PositionBefore
    <2>2. 1..k # {} /\ Max(1..k) = k /\ (1..k) \ {k} = 1..(k - 1)
        BY <2>1, MaxOfPrefix
    <2>3. h[1..k] = Turn(fold, h[(1..k) \ {Max(1..k)}], seq[Max(1..k)])
        BY <2>1, <2>2 DEF IsTable
    <2> QED
        BY <2>2, <2>3
<1> QED
    BY <1>1, <1>2

LEMMA FoldAppend ==
    ASSUME NEW fold \in Folds, NEW base, NEW S, NEW seq \in Seq(S), NEW x \in S
    PROVE  FoldOf(fold, base, Append(seq, x)) = Turn(fold, FoldOf(fold, base, seq), x)
<1> DEFINE longer == Append(seq, x)
           n == Len(seq)
<1>0. /\ n \in Nat /\ longer \in Seq(S) /\ Len(longer) = n + 1
      /\ longer[n + 1] = x /\ \A k \in 1..n : longer[k] = seq[k]
    BY AppendProperties, LenProperties
<1>1. PICK h : IsTable(fold, h, base, longer) /\ FoldOf(fold, base, longer) = h[1..Len(longer)]
    BY <1>0, FoldIsTable
<1>2. PICK g : IsTable(fold, g, base, seq) /\ FoldOf(fold, base, seq) = g[1..n]
    BY FoldIsTable
<1> HIDE DEF longer, n
<1>3. h[{}] = g[{}]
    BY <1>0, <1>1, <1>2, TableEntry
<1> DEFINE A == {s \in SUBSET (1..n) : h[s] = g[s]}
<1>4. ASSUME NEW k \in 1..n, 1..(k - 1) \in A
      PROVE  1..k \in A
    <2>1. k \in 1..Len(longer) /\ k \in 1..Len(seq)
        BY <1>0 DEF n
    <2>2. h[1..k] = Turn(fold, h[1..(k - 1)], longer[k])
        BY <1>0, <1>1, <2>1, TableEntry
    <2>3. g[1..k] = Turn(fold, g[1..(k - 1)], seq[k])
        BY <1>2, <2>1, TableEntry
    <2>4. 1..k \in SUBSET (1..n)
        BY <1>0, PositionBefore
    <2> QED
        BY <1>0, <1>4, <2>2, <2>3, <2>4
<1>5. {} \in A
    BY <1>3
<1>6. 1..n \in A
    <2> HIDE DEF A
    <2> QED
        BY <1>0, <1>4, <1>5, PositionsInduct
<1>7. h[1..n] = g[1..n]
    BY <1>6
<1>8. h[1..(n + 1)] = Turn(fold, h[1..n], x)
    <2>1. n + 1 \in 1..Len(longer) /\ (n + 1) - 1 = n
        BY <1>0
    <2> QED
        BY <1>0, <1>1, <2>1, TableEntry
<1> QED
    BY <1>0, <1>1, <1>2, <1>7, <1>8 DEF longer, n

\* Sequences of which what holds of << >> is kept by Append.
LEMMA AppendInduct ==
    ASSUME NEW S, NEW A, << >> \in A,
           \A s \in Seq(S) : \A x \in S : s \in A => Append(s, x) \in A
    PROVE  Seq(S) \subseteq A
<1> DEFINE N == {n \in Nat : \A s \in Seq(S) : Len(s) = n => s \in A}
<1>1. 0 \in N
    BY EmptySeq
<1>2. ASSUME NEW n \in N
      PROVE  n + 1 \in N
    <2>1. ASSUME NEW s \in Seq(S), Len(s) = n + 1
          PROVE  s \in A
        <3>1. s # << >>
            BY <2>1
        <3>2. PICK t \in Seq(S), x \in S : s = Append(t, x)
            BY <3>1, SequenceEmptyOrAppend
        <3>3. Len(t) \in Nat /\ Len(t) + 1 = n + 1
            BY <2>1, <3>2, AppendProperties, LenProperties
        <3>4. t \in A
            BY <3>3
        <3> QED
            BY <3>2, <3>4
    <2> QED
        BY <2>1
<1>3. N = Nat
    <2> HIDE DEF N
    <2> N \in SUBSET Nat
        BY DEF N
    <2> QED
        BY <1>1, <1>2, NatInduct
<1> QED
    BY <1>3, LenProperties

\* Going along two sequences one after the other.
LEMMA FoldConcat ==
    ASSUME NEW fold \in Folds, NEW base, NEW S, NEW s \in Seq(S), NEW t \in Seq(S)
    PROVE  FoldOf(fold, base, s \o t) = FoldOf(fold, FoldOf(fold, base, s), t)
<1> DEFINE middle == FoldOf(fold, base, s)
           A == {u \in Seq(S) : FoldOf(fold, base, s \o u) = FoldOf(fold, middle, u)}
<1>1. << >> \in A
    BY FoldEmpty, ConcatEmptySeq, EmptySeq
<1>2. ASSUME NEW u \in Seq(S), NEW x \in S, u \in A
      PROVE  Append(u, x) \in A
    <2>1. /\ s \o Append(u, x) = Append(s \o u, x)
          /\ s \o u \in Seq(S) /\ Append(u, x) \in Seq(S)
        <3>1. Append(u, x) = u \o <<x>> /\ Append(s \o u, x) = (s \o u) \o <<x>>
            BY AppendIsConcat, ConcatProperties
        <3>2. <<x>> \in Seq(S)
            OBVIOUS
        <3>3. (s \o u) \o <<x>> = s \o (u \o <<x>>)
            BY <3>2, ConcatAssociative
        <3> QED
            BY <3>1, <3>3, ConcatProperties, AppendProperties
    <2>2. FoldOf(fold, base, Append(s \o u, x)) = Turn(fold, FoldOf(fold, base, s \o u), x)
        <3> DEFINE both == s \o u
        <3>1. both \in Seq(S)
            BY <2>1
        <3> HIDE DEF both
        <3>2. FoldOf(fold, base, Append(both, x)) = Turn(fold, FoldOf(fold, base, both), x)
            BY <3>1, FoldAppend
        <3> QED
            BY <3>2 DEF both
    <2>3. FoldOf(fold, middle, Append(u, x)) = Turn(fold, FoldOf(fold, middle, u), x)
        BY FoldAppend
    <2> HIDE DEF middle
    <2> QED
        BY <1>2, <2>1, <2>2, <2>3
<1>3. Seq(S) \subseteq A
    <2> HIDE DEF A
    <2> QED
        BY <1>1, <1>2, AppendInduct
<1> QED
    BY <1>3

LEMMA FoldOne ==
    ASSUME NEW fold \in Folds, NEW base, NEW x
    PROVE  FoldOf(fold, base, <<x>>) = Turn(fold, base, x)
<1> DEFINE none == << >>
           T == {x}
<1>0. Append(none, x) = <<x>>
    OBVIOUS
<1>1. none \in Seq(T) /\ x \in T
    OBVIOUS
<1>2. FoldOf(fold, base, none) = base
    BY FoldEmpty
<1> HIDE DEF none, T
<1>3. FoldOf(fold, base, Append(none, x)) = Turn(fold, FoldOf(fold, base, none), x)
    BY <1>1, FoldAppend
<1> QED
    BY <1>0, <1>2, <1>3

-----------------------------------------------------------------------------
(* Reading at a pointer.                                                    *)

Token == STRING
Pointer == Seq(Token)

\* get_value of the root, of one token more, and of a pointer relative to a value.
LEMMA GetValueSteps ==
    ASSUME NEW doc
    PROVE  /\ GetValue(doc, << >>) = doc
           /\ \A p \in Pointer, t \in Token :
                GetValue(doc, Append(p, t)) = Child(GetValue(doc, p), t)
           /\ \A p, q \in Pointer : GetValue(doc, p \o q) = GetValue(GetValue(doc, p), q)
           /\ \A t : GetValue(doc, <<t>>) = Child(doc, t)
<1>1. "pointer" \in Folds
    BY DEF Folds
<1>2. \A v, p : FoldOf("pointer", v, p) = GetValue(v, p)
    BY DEF FoldOf
<1>3. \A v, t : Turn("pointer", v, t) = Child(v, t)
    BY DEF Turn
<1>4. GetValue(doc, << >>) = doc
    BY <1>1, <1>2, FoldEmpty
<1>5. ASSUME NEW p \in Pointer, NEW t \in Token
      PROVE  GetValue(doc, Append(p, t)) = Child(GetValue(doc, p), t)
    BY <1>1, <1>2, <1>3, FoldAppend DEF Pointer
<1>6. ASSUME NEW p \in Pointer, NEW q \in Pointer
      PROVE  GetValue(doc, p \o q) = GetValue(GetValue(doc, p), q)
    BY <1>1, <1>2, FoldConcat DEF Pointer
<1>7. ASSUME NEW t
      PROVE  GetValue(doc, <<t>>) = Child(doc, t)
    BY <1>1, <1>2, <1>3, FoldOne
<1> QED
    BY <1>4, <1>5, <1>6, <1>7

\* apply_patch of no operation, of one more, and of one first.
LEMMA AppliedNone ==
    ASSUME NEW doc
    PROVE  Applied(doc, << >>) = doc
<1>1. FoldOf("patch", doc, << >>) = doc
    BY FoldEmpty DEF Folds
<1> QED
    BY <1>1 DEF FoldOf

LEMMA AppliedMore ==
    ASSUME NEW doc, NEW S, NEW ops \in Seq(S), NEW op \in S
    PROVE  Applied(doc, Append(ops, op)) = PatchTurn(Applied(doc, ops), op)
<1>1. FoldOf("patch", doc, Append(ops, op)) = Turn("patch", FoldOf("patch", doc, ops), op)
    BY FoldAppend DEF Folds
<1> QED
    BY <1>1 DEF FoldOf, Turn

LEMMA AppliedFirst ==
    ASSUME NEW doc, NEW S, NEW ops \in Seq(S), NEW op \in S
    PROVE  Applied(doc, <<op>> \o ops) = Applied(PatchTurn(doc, op), ops)
<1> DEFINE one == <<op>>
<1>1. one \in Seq(S) /\ "patch" \in Folds
    BY DEF Folds
<1>2. FoldOf("patch", doc, one) = Turn("patch", doc, op)
    BY <1>1, FoldOne
<1> HIDE DEF one
<1>3. FoldOf("patch", doc, one \o ops) = FoldOf("patch", FoldOf("patch", doc, one), ops)
    BY <1>1, FoldConcat
<1>4. Applied(doc, one \o ops) = Applied(PatchTurn(doc, op), ops)
    BY <1>2, <1>3 DEF FoldOf, Turn
<1> QED
    BY <1>4 DEF one

-----------------------------------------------------------------------------
(* JSON values: what is in some set closed under members.                   *)

IsJson(v) == \E V : v \in V /\ ClosedUnderMembers(V)

AllJson(S) == \A v \in S : IsJson(v)

LEMMA JsonAround ==
    ASSUME NEW v, IsJson(v)
    PROVE  \E V : v \in V /\ ClosedUnderMembers(V) /\ AllJson(V)
BY DEF IsJson, AllJson

\* All the values of a set are in one closed set.
LEMMA JsonEnclosed ==
    ASSUME NEW S, AllJson(S)
    PROVE  \E V : S \subseteq V /\ ClosedUnderMembers(V)
<1> DEFINE Of(x) == CHOOSE V : x \in V /\ ClosedUnderMembers(V)
           W == UNION {Of(x) : x \in S}
<1>1. ASSUME NEW x \in S
      PROVE  x \in Of(x) /\ ClosedUnderMembers(Of(x))
    BY DEF AllJson, IsJson
<1>2. S \subseteq W
    BY <1>1
<1>3. ASSUME NEW v \in W
      PROVE  /\ v # Failed
             /\ IsObject(v) => v = Obj(v.obj) /\ v.obj \in [DOMAIN v.obj -> W]
             /\ IsArray(v) => v = Arr(v.arr) /\ v.arr \in Seq(W)
    <2>1. PICK x \in S : v \in Of(x)
        OBVIOUS
    <2>2. Of(x) \subseteq W /\ ClosedUnderMembers(Of(x))
        BY <1>1
    <2> HIDE DEF W, Of
    <2>3. ASSUME IsArray(v)
          PROVE  v = Arr(v.arr) /\ v.arr \in Seq(W)
        <3>1. v = Arr(v.arr) /\ v.arr \in Seq(Of(x))
            BY <2>1, <2>2, <2>3 DEF ClosedUnderMembers
        <3> QED
            BY <2>2, <3>1, SeqMonotonic
    <2> QED
        BY <2>1, <2>2, <2>3 DEF ClosedUnderMembers
<1>4. ClosedUnderMembers(W)
    <2> HIDE DEF W
    <2> QED
        BY <1>3 DEF ClosedUnderMembers
<1> QED
    BY <1>2, <1>4

LEMMA ConstructorFacts ==
    ASSUME NEW x
    PROVE  /\ Obj(x).obj = x /\ IsObject(Obj(x)) /\ ~IsArray(Obj(x)) /\ Obj(x) # Failed
           /\ Arr(x).arr = x /\ IsArray(Arr(x)) /\ ~IsObject(Arr(x)) /\ Arr(x) # Failed
           /\ ~IsObject(Failed) /\ ~IsArray(Failed)
BY DEF Obj, Arr, IsObject, IsArray, Failed

\* A container made of JSON values is one.
LEMMA JsonContainer ==
    ASSUME NEW S, AllJson(S)
    PROVE  /\ \A D : \A f \in [D -> S] : IsJson(Obj(f))
           /\ \A s \in Seq(S) : IsJson(Arr(s))
<1>0. PICK V : S \subseteq V /\ ClosedUnderMembers(V)
    BY JsonEnclosed
<1>1. ASSUME NEW D, NEW f \in [D -> S]
      PROVE  IsJson(Obj(f))
    <2> DEFINE W == V \cup {Obj(f)}
    <2>0. f \in [DOMAIN f -> W]
        BY <1>0
    <2>1. ASSUME NEW v \in W
          PROVE  /\ v # Failed
                 /\ IsObject(v) => v = Obj(v.obj) /\ v.obj \in [DOMAIN v.obj -> W]
                 /\ IsArray(v) => v = Arr(v.arr) /\ v.arr \in Seq(W)
        <3>1. CASE v \in V
            <4>1. V \subseteq W
                OBVIOUS
            <4> HIDE DEF W
            <4>2. IsArray(v) => v.arr \in Seq(V)
                BY <1>0, <3>1 DEF ClosedUnderMembers
            <4> QED
                BY <1>0, <3>1, <4>1, <4>2, SeqMonotonic DEF ClosedUnderMembers
        <3>2. CASE v = Obj(f)
            <4> HIDE DEF W
            <4> QED
                BY <2>0, <3>2, ConstructorFacts
        <3> QED
            BY <3>1, <3>2
    <2>2. Obj(f) \in W
        OBVIOUS
    <2> HIDE DEF W
    <2> QED
        BY <2>1, <2>2 DEF IsJson, ClosedUnderMembers
<1>2. ASSUME NEW s \in Seq(S)
      PROVE  IsJson(Arr(s))
    <2> DEFINE W == V \cup {Arr(s)}
    <2>0. s \in Seq(W)
        BY <1>0, SeqMonotonic
    <2>1. ASSUME NEW v \in W
          PROVE  /\ v # Failed
                 /\ IsObject(v) => v = Obj(v.obj) /\ v.obj \in [DOMAIN v.obj -> W]
                 /\ IsArray(v) => v = Arr(v.arr) /\ v.arr \in Seq(W)
        <3>1. CASE v \in V
            <4>1. V \subseteq W
                OBVIOUS
            <4> HIDE DEF W
            <4>2. IsArray(v) => v.arr \in Seq(V)
                BY <1>0, <3>1 DEF ClosedUnderMembers
            <4> QED
                BY <1>0, <3>1, <4>1, <4>2, SeqMonotonic DEF ClosedUnderMembers
        <3>2. CASE v = Arr(s)
            <4> HIDE DEF W
            <4> QED
                BY <2>0, <3>2, ConstructorFacts
        <3> QED
            BY <3>1, <3>2
    <2>2. Arr(s) \in W
        OBVIOUS
    <2> HIDE DEF W
    <2> QED
        BY <2>1, <2>2 DEF IsJson, ClosedUnderMembers
<1> QED
    BY <1>1, <1>2

-----------------------------------------------------------------------------
(* Tokens and array indexes.                                                *)

LEMMA TokenFacts ==
    /\ \A t : IntOf(t) \in Int /\ IntOf(t) >= -1
    /\ IntOf("-") = -1
    /\ Len(DecimalTokens) \in Nat
    /\ \A i \in Nat : i < Len(DecimalTokens) => TokenOf(i) \in Token /\ IntOf(TokenOf(i)) = i
<1>1. DecimalTokens \in Seq(STRING) /\ DOMAIN DecimalTokens = 1..Len(DecimalTokens)
      /\ Len(DecimalTokens) \in Nat
    BY TokenAssumption, LenProperties
<1>2. ASSUME NEW t
      PROVE  IntOf(t) \in Int /\ IntOf(t) >= -1
    <2>1. CASE t \in Range(DecimalTokens)
        <3> DEFINE i == CHOOSE i \in DOMAIN DecimalTokens : DecimalTokens[i] = t
        <3>1. \E j \in DOMAIN DecimalTokens : DecimalTokens[j] = t
            BY <2>1 DEF Range
        <3>2. i \in 1..Len(DecimalTokens)
            BY <1>1, <3>1
        <3>3. IntOf(t) = i - 1
            BY <2>1 DEF IntOf
        <3> HIDE DEF i
        <3> QED
            BY <1>1, <3>2, <3>3
    <2> QED
        BY <2>1 DEF IntOf
<1>3. IntOf("-") = -1
    BY TokenAssumption DEF IntOf
<1>4. ASSUME NEW n \in Nat, n < Len(DecimalTokens)
      PROVE  TokenOf(n) \in Token /\ IntOf(TokenOf(n)) = n
    <2> DEFINE t == TokenOf(n)
               i == CHOOSE i \in DOMAIN DecimalTokens : DecimalTokens[i] = t
    <2>1. n + 1 \in DOMAIN DecimalTokens /\ t = DecimalTokens[n + 1]
        BY <1>1, <1>4 DEF TokenOf
    <2>2. t \in Range(DecimalTokens) /\ t \in STRING
        BY <1>1, <2>1 DEF Range
    <2>3. i \in DOMAIN DecimalTokens /\ DecimalTokens[i] = t
        BY <2>1
    <2>4. IntOf(t) = i - 1
        BY <2>2 DEF IntOf
    <2> HIDE DEF i, t
    <2>5. i = n + 1
        BY <2>1, <2>3, TokenAssumption DEF IsInjective
    <2> QED
        BY <2>2, <2>4, <2>5 DEF t, Token
<1> QED
    BY <1>1, <1>2, <1>3, <1>4

LEMMA IndexFacts ==
    ASSUME NEW t, NEW n \in Nat
    PROVE  /\ ArrayIndex(t, n, FALSE) \in Int /\ ArrayIndex(t, n, TRUE) \in Int
           /\ ArrayIndex(t, n, FALSE) >= 0 =>
                ArrayIndex(t, n, FALSE) = IntOf(t) /\ IntOf(t) \in 0..(n - 1)
           /\ ArrayIndex(t, n, TRUE) >= 0 =>
                \/ t = "-" /\ ArrayIndex(t, n, TRUE) = n
                \/ t # "-" /\ ArrayIndex(t, n, TRUE) = IntOf(t) /\ IntOf(t) \in 0..n
           /\ IntOf(t) \in 0..(n - 1) => ArrayIndex(t, n, FALSE) = IntOf(t)
           /\ IntOf(t) \in 0..n => ArrayIndex(t, n, TRUE) = IntOf(t)
<1>1. IntOf(t) \in Int /\ IntOf("-") = -1
    BY TokenFacts
<1>2. t = "-" => IntOf(t) \notin 0..n
    BY <1>1
<1> QED
    BY <1>1, <1>2 DEF ArrayIndex

-----------------------------------------------------------------------------
(* A container and its member at a token.                                   *)

\* There is one: then the token is a key, or the index of an element.
LEMMA ChildFacts ==
    ASSUME NEW v, IsJson(v), NEW t
    PROVE  /\ v # Failed
           /\ Child(v, t) # Failed => IsJson(Child(v, t))
           /\ IsObject(v) =>
                /\ ~IsArray(v)
                /\ v = Obj(v.obj)
                /\ \E S : AllJson(S) /\ v.obj \in [DOMAIN v.obj -> S]
                /\ Child(v, t) # Failed <=> t \in DOMAIN v.obj
                /\ t \in DOMAIN v.obj => Child(v, t) = v.obj[t]
           /\ IsArray(v) =>
                /\ ~IsObject(v)
                /\ v = Arr(v.arr)
                /\ \E S : AllJson(S) /\ v.arr \in Seq(S)
                /\ Len(v.arr) \in Nat
                /\ Child(v, t) # Failed <=> IntOf(t) \in 0..(Len(v.arr) - 1)
                /\ IntOf(t) \in 0..(Len(v.arr) - 1) => Child(v, t) = v.arr[IntOf(t) + 1]
           /\ ~IsObject(v) /\ ~IsArray(v) => Child(v, t) = Failed
<1>1. PICK V : v \in V /\ ClosedUnderMembers(V) /\ AllJson(V)
    BY JsonAround
<1>2. v # Failed /\ \A x \in V : x # Failed
    BY <1>1 DEF ClosedUnderMembers
<1>3. ASSUME IsObject(v)
      PROVE  /\ ~IsArray(v)
             /\ v = Obj(v.obj)
             /\ v.obj \in [DOMAIN v.obj -> V]
             /\ Child(v, t) # Failed <=> t \in DOMAIN v.obj
             /\ t \in DOMAIN v.obj => Child(v, t) = v.obj[t] /\ v.obj[t] \in V
    <2>1. v = Obj(v.obj) /\ v.obj \in [DOMAIN v.obj -> V]
        BY <1>1, <1>3 DEF ClosedUnderMembers
    <2>2. ~IsArray(v)
        BY <2>1, ConstructorFacts
    <2>3. t \in DOMAIN v.obj => Child(v, t) = v.obj[t] /\ v.obj[t] \in V
        BY <1>3, <2>1 DEF Child
    <2>4. t \notin DOMAIN v.obj => Child(v, t) = Failed
        BY <2>2 DEF Child
    <2> QED
        BY <1>2, <2>1, <2>2, <2>3, <2>4
<1>4. ASSUME IsArray(v)
      PROVE  /\ ~IsObject(v)
             /\ v = Arr(v.arr)
             /\ v.arr \in Seq(V)
             /\ Len(v.arr) \in Nat
             /\ Child(v, t) # Failed <=> IntOf(t) \in 0..(Len(v.arr) - 1)
             /\ IntOf(t) \in 0..(Len(v.arr) - 1) =>
                    Child(v, t) = v.arr[IntOf(t) + 1] /\ v.arr[IntOf(t) + 1] \in V
    <2> DEFINE n == Len(v.arr)
    <2>1. v = Arr(v.arr) /\ v.arr \in Seq(V)
        BY <1>1, <1>4 DEF ClosedUnderMembers
    <2>2. ~IsObject(v)
        BY <2>1, ConstructorFacts
    <2>3. n \in Nat /\ \A i \in 1..n : v.arr[i] \in V
        BY <2>1, ElementOfSeq, LenProperties
    <2>4. Child(v, t) = IF ArrayIndex(t, n, FALSE) >= 0 THEN v.arr[ArrayIndex(t, n, FALSE) + 1]
                        ELSE Failed
        BY <1>4, <2>2 DEF Child
    <2> HIDE DEF n
    <2>5. CASE IntOf(t) \in 0..(n - 1)
        <3>0. n \in Nat
            BY <2>3
        <3>1. IntOf(t) >= 0 /\ IntOf(t) + 1 \in 1..n
            BY <2>5, <3>0
        <3>2. ArrayIndex(t, n, FALSE) = IntOf(t)
            BY <2>5, <3>0, IndexFacts
        <3>3. Child(v, t) = v.arr[IntOf(t) + 1] /\ v.arr[IntOf(t) + 1] \in V
            BY <2>3, <2>4, <3>1, <3>2
        <3> QED
            BY <1>2, <2>1, <2>2, <2>3, <2>5, <3>3 DEF n
    <2>6. CASE IntOf(t) \notin 0..(n - 1)
        <3>1. ~(ArrayIndex(t, n, FALSE) >= 0)
            BY <2>3, <2>6, IndexFacts
        <3> QED
            BY <2>1, <2>2, <2>3, <2>4, <2>6, <3>1 DEF n
    <2> QED
        BY <2>5, <2>6
<1>5. ~IsObject(v) /\ ~IsArray(v) => Child(v, t) = Failed
    BY DEF Child
<1>6. Child(v, t) # Failed => IsJson(Child(v, t))
    BY <1>1, <1>3, <1>4, <1>5 DEF AllJson
<1> QED
    BY <1>1, <1>2, <1>3, <1>4, <1>5, <1>6

\* Writing a member: the result is a container of the same kind, the member is what
\* was written, a second write replaces it, and writing what is there changes nothing.
LEMMA WithChildLaws ==
    ASSUME NEW c, IsJson(c), NEW t, Child(c, t) # Failed, NEW x, IsJson(x)
    PROVE  /\ IsJson(WithChild(c, t, x))
           /\ Child(WithChild(c, t, x), t) = x
           /\ \A y : WithChild(WithChild(c, t, x), t, y) = WithChild(c, t, y)
           /\ WithChild(c, t, Child(c, t)) = c
<1>0. x # Failed
    BY ChildFacts
<1>1. CASE IsObject(c)
    <2>1. PICK S : AllJson(S) /\ c.obj \in [DOMAIN c.obj -> S]
        BY <1>1, ChildFacts
    <2>2. c = Obj(c.obj) /\ t \in DOMAIN c.obj /\ Child(c, t) = c.obj[t]
        BY <1>1, ChildFacts
    <2> DEFINE f == c.obj
               g == [f EXCEPT ![t] = x]
    <2>3. WithChild(c, t, x) = Obj(g) /\ \A y : WithChild(c, t, y) = Obj([f EXCEPT ![t] = y])
        BY <1>1 DEF WithChild
    <2>4. f \in [DOMAIN f -> S] /\ c = Obj(f) /\ t \in DOMAIN f /\ Child(c, t) = f[t]
        BY <2>1, <2>2
    <2>5. g \in [DOMAIN f -> S \cup {x}] /\ AllJson(S \cup {x})
        BY <2>1, <2>4 DEF AllJson
    <2>6. /\ DOMAIN g = DOMAIN f /\ g[t] = x /\ \A y : [g EXCEPT ![t] = y] = [f EXCEPT ![t] = y]
          /\ [f EXCEPT ![t] = f[t]] = f
        BY <2>4
    <2> HIDE DEF f, g
    <2>7. IsJson(Obj(g))
        BY <2>5, JsonContainer
    <2>8. Child(Obj(g), t) = x
        BY <2>4, <2>6, ConstructorFacts DEF Child
    <2>9. \A y : WithChild(Obj(g), t, y) = Obj([g EXCEPT ![t] = y])
        BY ConstructorFacts DEF WithChild
    <2> QED
        BY <2>3, <2>4, <2>6, <2>7, <2>8, <2>9
<1>2. CASE IsArray(c)
    <2>1. PICK S : AllJson(S) /\ c.arr \in Seq(S)
        BY <1>2, ChildFacts
    <2>2. /\ c = Arr(c.arr) /\ ~IsObject(c) /\ IntOf(t) \in 0..(Len(c.arr) - 1)
          /\ Child(c, t) = c.arr[IntOf(t) + 1]
        BY <1>2, ChildFacts
    <2> DEFINE s == c.arr
               i == IntOf(t) + 1
               r == [s EXCEPT ![i] = x]
    <2>3. WithChild(c, t, x) = Arr(r) /\ \A y : WithChild(c, t, y) = Arr([s EXCEPT ![i] = y])
        BY <2>2 DEF WithChild
    <2>4. /\ s \in Seq(S) /\ c = Arr(s) /\ Child(c, t) = s[i] /\ Len(s) \in Nat
          /\ i \in 1..Len(s) /\ IntOf(t) \in 0..(Len(s) - 1)
        BY <2>1, <2>2, LenProperties
    <2>5. r \in Seq(S \cup {x}) /\ AllJson(S \cup {x}) /\ Len(r) = Len(s)
        <3>1. s \in Seq(S \cup {x})
            BY <2>4, SeqMonotonic
        <3> HIDE DEF s, i
        <3> QED
            BY <2>1, <2>4, <3>1, ExceptSeq DEF AllJson
    <2>6. /\ r[i] = x /\ \A y : [r EXCEPT ![i] = y] = [s EXCEPT ![i] = y]
          /\ [s EXCEPT ![i] = s[i]] = s
        <3> DOMAIN s = 1..Len(s) /\ s = [j \in 1..Len(s) |-> s[j]]
            BY <2>4
        <3> HIDE DEF s, i
        <3> QED
            BY <2>4
    <2> HIDE DEF s, i, r
    <2>7. IsJson(Arr(r))
        BY <2>5, JsonContainer
    <2>8. Child(Arr(r), t) = x
        BY <1>0, <2>4, <2>5, <2>6, <2>7, ChildFacts, ConstructorFacts DEF i
    <2>9. \A y : WithChild(Arr(r), t, y) = Arr([r EXCEPT ![i] = y])
        BY ConstructorFacts DEF WithChild, i
    <2> QED
        BY <2>3, <2>4, <2>6, <2>7, <2>8, <2>9
<1> QED
    BY <1>1, <1>2, ChildFacts

-----------------------------------------------------------------------------
(* Writing at a pointer.                                                    *)

IsRewriting(h, doc, path, value) ==
    h = [depth \in 0..Len(path) |->
            IF depth = Len(path) THEN value
            ELSE WithChild(GetValue(doc, SubSeq(path, 1, depth)), path[depth + 1], h[depth + 1])]

\* The values along the path are computed from the inside out.
LEMMA RewritingExists ==
    ASSUME NEW doc, NEW path \in Pointer, NEW value
    PROVE  \E h : IsRewriting(h, doc, path, value)
<1> DEFINE n == Len(path)
           Entry(h, depth) ==
                IF depth = n THEN value
                ELSE WithChild(GetValue(doc, SubSeq(path, 1, depth)), path[depth + 1], h[depth + 1])
           Partial(h, k) == h = [depth \in (n - k)..n |-> Entry(h, depth)]
           N == {k \in Nat : k <= n => \E h : Partial(h, k)}
<1>0. n \in Nat
    BY LenProperties DEF Pointer
<1> HIDE DEF n
<1>1. 0 \in N
    <2> DEFINE h == [depth \in (n - 0)..n |-> value]
    <2>1. \A depth \in (n - 0)..n : depth = n
        BY <1>0
    <2>2. Partial(h, 0)
        BY <2>1
    <2>3. \E other : Partial(other, 0)
        <3> HIDE DEF h
        <3> QED
            BY <2>2
    <2> HIDE DEF Partial
    <2> QED
        BY <2>3
<1>2. ASSUME NEW k \in N
      PROVE  k + 1 \in N
    <2> SUFFICES ASSUME k + 1 <= n
                 PROVE  \E h : Partial(h, k + 1)
        OBVIOUS
    <2>0. k \in Nat /\ k <= n
        BY <1>0
    <2>1. PICK g : Partial(g, k)
        BY <2>0
    <2> DEFINE h == [depth \in (n - (k + 1))..n |-> Entry(g, depth)]
    <2>2. ASSUME NEW depth \in (n - k)..n
          PROVE  h[depth] = g[depth]
        <3>1. g[depth] = Entry(g, depth)
            BY <2>1
        <3>2. depth \in (n - (k + 1))..n
            BY <1>0, <2>0
        <3> HIDE DEF Entry
        <3> QED
            BY <3>1, <3>2
    <2>3. ASSUME NEW depth \in (n - (k + 1))..n
          PROVE  Entry(g, depth) = Entry(h, depth)
        <3>1. CASE depth = n
            BY <3>1
        <3>2. CASE depth # n
            <4>1. depth + 1 \in (n - k)..n
                BY <1>0, <2>0, <3>2
            <4>2. h[depth + 1] = g[depth + 1]
                BY <2>2, <4>1
            <4> HIDE DEF h
            <4> QED
                BY <4>2
        <3> QED
            BY <3>1, <3>2
    <2>4. Partial(h, k + 1)
        <3> HIDE DEF Entry
        <3>1. h = [depth \in (n - (k + 1))..n |-> Entry(h, depth)]
            BY <2>3
        <3> HIDE DEF h
        <3> QED
            BY <3>1
    <2> HIDE DEF h, Partial
    <2> QED
        BY <2>4
<1>3. N = Nat
    <2> HIDE DEF N
    <2> N \in SUBSET Nat
        BY DEF N
    <2> QED
        BY <1>1, <1>2, NatInduct
<1>4. \E h : Partial(h, n)
    <2> HIDE DEF Partial
    <2> QED
        BY <1>0, <1>3
<1>5. n - n = 0
    BY <1>0
<1> QED
    BY <1>4, <1>5 DEF IsRewriting, n

LEMMA RewrittenIsTable ==
    ASSUME NEW doc, NEW path \in Pointer, NEW value
    PROVE  \E h : IsRewriting(h, doc, path, value) /\ Rewritten(doc, path, value) = h[0]
<1> DEFINE table == CHOOSE h : h = [depth \in 0..Len(path) |->
                IF depth = Len(path) THEN value
                ELSE WithChild(GetValue(doc, SubSeq(path, 1, depth)), path[depth + 1],
                               h[depth + 1])]
<1>1. Rewritten(doc, path, value) = table[0]
    BY DEF Rewritten
<1>2. \E h : h = [depth \in 0..Len(path) |->
                IF depth = Len(path) THEN value
                ELSE WithChild(GetValue(doc, SubSeq(path, 1, depth)), path[depth + 1],
                               h[depth + 1])]
    <2>1. PICK h : IsRewriting(h, doc, path, value)
        BY RewritingExists
    <2> QED
        BY <2>1 DEF IsRewriting
<1>3. IsRewriting(table, doc, path, value)
    BY <1>2 DEF IsRewriting
<1> QED
    BY <1>1, <1>3

\* At the root the document is replaced.
LEMMA RewrittenAtRoot ==
    ASSUME NEW doc, NEW value
    PROVE  Rewritten(doc, << >>, value) = value
<1>1. << >> \in Pointer /\ Len(<< >>) = 0
    BY EmptySeq DEF Pointer
<1>2. PICK h : IsRewriting(h, doc, << >>, value) /\ Rewritten(doc, << >>, value) = h[0]
    BY <1>1, RewrittenIsTable
<1>3. h[0] = value
    BY <1>1, <1>2 DEF IsRewriting
<1> QED
    BY <1>2, <1>3

\* A member is written by writing its container with that member in it.
LEMMA RewrittenBelow ==
    ASSUME NEW doc, NEW value, NEW p \in Pointer, NEW t \in Token
    PROVE  Rewritten(doc, Append(p, t), value)
                = Rewritten(doc, p, WithChild(GetValue(doc, p), t, value))
<1> DEFINE longer == Append(p, t)
           n == Len(p)
           w == WithChild(GetValue(doc, p), t, value)
<1>0. /\ n \in Nat /\ longer \in Pointer /\ Len(longer) = n + 1
      /\ longer[n + 1] = t /\ \A k \in 1..n : longer[k] = p[k]
    BY AppendProperties, LenProperties DEF Pointer
<1>1. \A depth \in 0..n : SubSeq(longer, 1, depth) = SubSeq(p, 1, depth)
    BY <1>0
<1>2. SubSeq(longer, 1, n) = p
    <2>1. SubSeq(p, 1, n) = p
        BY SubSeqFull DEF Pointer
    <2>2. n \in 0..n
        BY <1>0
    <2> QED
        BY <1>1, <2>1, <2>2
<1>3. PICK h : IsRewriting(h, doc, longer, value) /\ Rewritten(doc, longer, value) = h[0]
    BY <1>0, RewrittenIsTable
<1>4. PICK g : IsRewriting(g, doc, p, w) /\ Rewritten(doc, p, w) = g[0]
    BY RewrittenIsTable
<1> HIDE DEF longer, w
<1>5. h[n + 1] = value /\ h[n] = w
    <2>1. n + 1 \in 0..Len(longer) /\ n \in 0..Len(longer) /\ n # Len(longer)
        BY <1>0
    <2>2. h[n + 1] = value
        BY <1>0, <1>3, <2>1 DEF IsRewriting
    <2>3. h[n] = WithChild(GetValue(doc, SubSeq(longer, 1, n)), longer[n + 1], h[n + 1])
        BY <1>0, <1>3, <2>1 DEF IsRewriting
    <2> QED
        BY <1>0, <1>2, <2>2, <2>3 DEF w
<1>6. g[n] = w
    BY <1>0, <1>4 DEF IsRewriting
<1> HIDE DEF n
<1> DEFINE N == {k \in Nat : k <= n => h[n - k] = g[n - k]}
<1>7. 0 \in N
    BY <1>0, <1>5, <1>6
<1>8. ASSUME NEW k \in N
      PROVE  k + 1 \in N
    <2> SUFFICES ASSUME k + 1 <= n
                 PROVE  h[n - (k + 1)] = g[n - (k + 1)]
        OBVIOUS
    <2> DEFINE depth == n - (k + 1)
    <2>1. /\ depth \in 0..n /\ depth # n /\ depth + 1 = n - k /\ depth + 1 \in 1..n
          /\ depth \in 0..(n + 1) /\ depth # n + 1
        BY <1>0
    <2>2. h[depth + 1] = g[depth + 1]
        BY <1>0, <2>1
    <2> HIDE DEF depth, N
    <2>3. h[depth] = WithChild(GetValue(doc, SubSeq(longer, 1, depth)), longer[depth + 1],
                               h[depth + 1])
        BY <1>0, <1>3, <2>1 DEF IsRewriting
    <2>4. g[depth] = WithChild(GetValue(doc, SubSeq(p, 1, depth)), p[depth + 1], g[depth + 1])
        BY <1>0, <1>4, <2>1 DEF IsRewriting, n
    <2>5. h[depth] = g[depth]
        BY <1>0, <1>1, <2>1, <2>2, <2>3, <2>4
    <2> QED
        BY <2>5 DEF depth
<1>9. N = Nat
    <2> HIDE DEF N
    <2> N \in SUBSET Nat
        BY DEF N
    <2> QED
        BY <1>7, <1>8, NatInduct
<1>10. h[n - n] = g[n - n]
    <2>1. n \in N
        <3> HIDE DEF N
        <3> QED
            BY <1>0, <1>9
    <2>2. n <= n
        BY <1>0
    <2> QED
        BY <2>1, <2>2
<1>11. n - n = 0
    BY <1>0
<1> QED
    BY <1>3, <1>4, <1>10, <1>11 DEF longer, w

\* Whatever is written below it, the document changes in the member that the first
\* token names.
LEMMA RewrittenAhead ==
    ASSUME NEW doc, NEW value, NEW p \in Pointer, p # << >>
    PROVE  \E inner : Rewritten(doc, p, value) = WithChild(doc, p[1], inner)
<1>1. PICK h : IsRewriting(h, doc, p, value) /\ Rewritten(doc, p, value) = h[0]
    BY RewrittenIsTable
<1>2. Len(p) \in Nat \ {0} /\ SubSeq(p, 1, 0) = << >>
    BY EmptySeq DEF Pointer
<1>3. ASSUME NEW depth \in 0..Len(p), depth # Len(p)
      PROVE  h[depth] = WithChild(GetValue(doc, SubSeq(p, 1, depth)), p[depth + 1],
                                  h[depth + 1])
    BY <1>1, <1>3 DEF IsRewriting
<1>4. h[0] = WithChild(doc, p[1], h[1])
    <2>1. 0 \in 0..Len(p) /\ 0 # Len(p) /\ 0 + 1 = 1
        BY <1>2
    <2>2. h[0] = WithChild(GetValue(doc, SubSeq(p, 1, 0)), p[0 + 1], h[0 + 1])
        BY <1>3, <2>1
    <2>3. GetValue(doc, SubSeq(p, 1, 0)) = doc
        BY <1>2, GetValueSteps
    <2> QED
        BY <2>1, <2>2, <2>3
<1> QED
    BY <1>1, <1>4

\* The laws of a pointer that names a value: that value is JSON; the document with a
\* JSON value written there is JSON, and that is what is read there; only the last of
\* two writes counts; and writing what is read changes nothing.
PointerLaws(doc, p) ==
    GetValue(doc, p) # Failed =>
        /\ IsJson(GetValue(doc, p))
        /\ Rewritten(doc, p, GetValue(doc, p)) = doc
        /\ \A x : IsJson(x) =>
            /\ IsJson(Rewritten(doc, p, x))
            /\ GetValue(Rewritten(doc, p, x), p) = x
            /\ \A y : Rewritten(Rewritten(doc, p, x), p, y) = Rewritten(doc, p, y)

LEMMA PointerLawsAtRoot ==
    ASSUME NEW doc, IsJson(doc)
    PROVE  PointerLaws(doc, << >>)
<1>1. \A d : GetValue(d, << >>) = d
    BY GetValueSteps
<1>2. \A d, x : Rewritten(d, << >>, x) = x
    BY RewrittenAtRoot
<1> QED
    BY <1>1, <1>2 DEF PointerLaws

LEMMA PointerLawsBelow ==
    ASSUME NEW doc, NEW p \in Pointer, PointerLaws(doc, p), NEW t \in Token
    PROVE  PointerLaws(doc, Append(p, t))
<1> DEFINE c == GetValue(doc, p)
           q == Append(p, t)
<1>1. \A d : GetValue(d, q) = Child(GetValue(d, p), t)
    BY GetValueSteps
<1>2. ASSUME NEW d, NEW x
      PROVE  Rewritten(d, q, x) = Rewritten(d, p, WithChild(GetValue(d, p), t, x))
    BY RewrittenBelow
<1> SUFFICES ASSUME GetValue(doc, q) # Failed
             PROVE  PointerLaws(doc, q)
    BY DEF PointerLaws
<1>3. Child(c, t) # Failed /\ c # Failed
    BY <1>1, ConstructorFacts DEF Child
<1>4. IsJson(c) /\ Rewritten(doc, p, c) = doc
    BY <1>3 DEF PointerLaws
<1>5. \A x : IsJson(x) =>
        /\ IsJson(Rewritten(doc, p, x)) /\ GetValue(Rewritten(doc, p, x), p) = x
        /\ \A y : Rewritten(Rewritten(doc, p, x), p, y) = Rewritten(doc, p, y)
    BY <1>3 DEF PointerLaws
<1> HIDE DEF c, q
<1>6. IsJson(GetValue(doc, q))
    BY <1>1, <1>3, <1>4, ChildFacts DEF c
<1>7. WithChild(c, t, Child(c, t)) = c
    BY <1>1, <1>3, <1>4, <1>6, WithChildLaws DEF c
<1>8. Rewritten(doc, q, GetValue(doc, q)) = doc
    BY <1>1, <1>2, <1>4, <1>7 DEF c
<1>9. ASSUME NEW x, IsJson(x)
      PROVE  /\ IsJson(Rewritten(doc, q, x))
             /\ GetValue(Rewritten(doc, q, x), q) = x
             /\ \A y : Rewritten(Rewritten(doc, q, x), q, y) = Rewritten(doc, q, y)
    <2> DEFINE w == WithChild(c, t, x)
               next == Rewritten(doc, q, x)
    <2>1. /\ IsJson(w) /\ Child(w, t) = x
          /\ \A y : WithChild(w, t, y) = WithChild(c, t, y)
        BY <1>3, <1>4, <1>9, WithChildLaws
    <2>2. next = Rewritten(doc, p, w)
        BY <1>2 DEF c
    <2> HIDE DEF w, next
    <2>3. IsJson(next) /\ GetValue(next, p) = w
        BY <1>5, <2>1, <2>2
    <2>4. GetValue(next, q) = x
        BY <1>1, <2>1, <2>3
    <2>5. ASSUME NEW y
          PROVE  Rewritten(next, q, y) = Rewritten(doc, q, y)
        <3>1. Rewritten(next, q, y) = Rewritten(next, p, WithChild(c, t, y))
            BY <1>2, <2>1, <2>3
        <3>2. Rewritten(next, p, WithChild(c, t, y)) = Rewritten(doc, p, WithChild(c, t, y))
            BY <1>5, <2>1, <2>2
        <3> QED
            BY <1>2, <3>1, <3>2 DEF c
    <2> QED
        BY <2>3, <2>4, <2>5 DEF next
<1> QED
    BY <1>6, <1>8, <1>9 DEF PointerLaws

\* Every pointer obeys the laws in every JSON document: get_value and the changes that
\* _apply_single makes below a pointer agree, however deep it goes.
THEOREM PointersReadWhatTheyWrite ==
    ASSUME NEW doc, IsJson(doc)
    PROVE  \A p \in Pointer : PointerLaws(doc, p)
<1> DEFINE A == {p \in Pointer : PointerLaws(doc, p)}
<1>1. << >> \in A
    BY PointerLawsAtRoot, EmptySeq DEF Pointer
<1>2. ASSUME NEW p \in Seq(Token), NEW t \in Token, p \in A
      PROVE  Append(p, t) \in A
    BY <1>2, PointerLawsBelow, AppendProperties DEF Pointer
<1>3. Seq(Token) \subseteq A
    <2> HIDE DEF A
    <2> QED
        BY <1>1, <1>2, AppendInduct
<1> QED
    BY <1>3 DEF Pointer

-----------------------------------------------------------------------------
(* Insertion into a list and removal from it.                               *)

LEMMA SliceFacts ==
    ASSUME NEW S, NEW s \in Seq(S), NEW m \in Int, NEW n \in Int, 1 <= m, m <= n + 1, n <= Len(s)
    PROVE  /\ SubSeq(s, m, n) \in Seq(S)
           /\ Len(SubSeq(s, m, n)) = n - m + 1
           /\ \A j \in 1..(n - m + 1) : SubSeq(s, m, n)[j] = s[m + j - 1]
<1>0. Len(s) \in Nat
    BY LenProperties
<1>1. ASSUME NEW i \in m..n
      PROVE  s[i] \in S
    <2>1. i \in 1..Len(s)
        BY <1>0
    <2> QED
        BY <2>1, ElementOfSeq
<1>2. /\ SubSeq(s, m, n) \in Seq(S)
      /\ Len(SubSeq(s, m, n)) = IF m <= n THEN n - m + 1 ELSE 0
      /\ \A j \in 1..(n - m + 1) : SubSeq(s, m, n)[j] = s[m + j - 1]
    BY <1>1, SubSeqProperties
<1> QED
    BY <1>2

Joined(a, b) == a \o b

\* What the provers need of a concatenation, an insertion and a removal, by name.
IsJoin(both, a, b, m, n, S) ==
    /\ both \in Seq(S)
    /\ Len(both) = m + n
    /\ \A j \in 1..m : both[j] = a[j]
    /\ \A j \in 1..n : both[m + j] = b[j]

IsInsertion(longer, s, i, x, S) ==
    /\ longer \in Seq(S)
    /\ Len(longer) = Len(s) + 1
    /\ \A j \in 1..(Len(s) + 1) :
            longer[j] = IF j < i THEN s[j] ELSE IF j = i THEN x ELSE s[j - 1]

IsRemoval(shorter, s, i, S) ==
    /\ shorter \in Seq(S)
    /\ Len(shorter) = Len(s) - 1
    /\ \A j \in 1..(Len(s) - 1) : shorter[j] = IF j < i THEN s[j] ELSE s[j + 1]

LEMMA JoinFacts ==
    ASSUME NEW S, NEW a \in Seq(S), NEW b \in Seq(S), NEW m \in Nat, NEW n \in Nat,
           Len(a) = m, Len(b) = n
    PROVE  IsJoin(Joined(a, b), a, b, m, n, S)
<1> DEFINE both == a \o b
<1>1. /\ both \in Seq(S) /\ Len(both) = m + n
      /\ \A i \in 1..(m + n) : both[i] = IF i <= m THEN a[i] ELSE b[i - m]
    BY ConcatProperties
<1> HIDE DEF both
<1>2. ASSUME NEW j \in 1..n
      PROVE  both[m + j] = b[j]
    <2>1. m + j \in 1..(m + n) /\ ~(m + j <= m) /\ (m + j) - m = j
        OBVIOUS
    <2> QED
        BY <1>1, <2>1
<1>3. \A j \in 1..m : both[j] = a[j]
    BY <1>1
<1> QED
    BY <1>1, <1>2, <1>3 DEF both, Joined, IsJoin

LEMMA InsertFacts ==
    ASSUME NEW S, NEW s \in Seq(S), NEW i \in 1..(Len(s) + 1), NEW x \in S
    PROVE  IsInsertion(InsertAt(s, i, x), s, i, x, S)
<1> DEFINE n == Len(s)
           left == SubSeq(s, 1, i - 1)
           right == SubSeq(s, i, n)
           middle == <<x>>
           front == Joined(left, middle)
           all == Joined(front, right)
<1>0. n \in Nat /\ i \in 1..(n + 1) /\ i - 1 \in Nat /\ n - i + 1 \in Nat /\ i \in Nat
    BY LenProperties
<1> HIDE DEF n
<1>1. /\ left \in Seq(S) /\ Len(left) = i - 1 /\ \A j \in 1..(i - 1) : left[j] = s[j]
    <2>1. /\ SubSeq(s, 1, i - 1) \in Seq(S) /\ Len(SubSeq(s, 1, i - 1)) = (i - 1) - 1 + 1
          /\ \A j \in 1..((i - 1) - 1 + 1) : SubSeq(s, 1, i - 1)[j] = s[1 + j - 1]
        <3>1. i - 1 \in Int /\ 1 <= 1 /\ 1 <= (i - 1) + 1 /\ i - 1 <= Len(s)
            BY <1>0 DEF n
        <3> QED
            BY <3>1, SliceFacts
    <2> QED
        BY <1>0, <2>1
<1>2. /\ right \in Seq(S) /\ Len(right) = n - i + 1
      /\ \A j \in 1..(n - i + 1) : right[j] = s[i + j - 1]
    <2>1. i \in Int /\ n \in Int /\ 1 <= i /\ i <= n + 1 /\ n <= Len(s)
        BY <1>0 DEF n
    <2> QED
        BY <2>1, SliceFacts
<1>3. middle \in Seq(S) /\ Len(middle) = 1 /\ middle[1] = x
    OBVIOUS
<1>4. InsertAt(s, i, x) = all
    BY DEF InsertAt, Joined, n
<1> HIDE DEF left, right, middle
<1>5. /\ front \in Seq(S) /\ Len(front) = (i - 1) + 1
      /\ \A j \in 1..(i - 1) : front[j] = left[j]
      /\ \A j \in 1..1 : front[(i - 1) + j] = middle[j]
    <2> DEFINE k == i - 1
               m == 1
    <2>1. /\ k \in Nat /\ m \in Nat /\ Len(left) = k /\ Len(middle) = m
          /\ left \in Seq(S) /\ middle \in Seq(S)
        BY <1>0, <1>1, <1>3
    <2> HIDE DEF k, m
    <2>2. /\ front \in Seq(S) /\ Len(front) = k + m
          /\ \A j \in 1..k : front[j] = left[j]
          /\ \A j \in 1..m : front[k + j] = middle[j]
        <3>1. IsJoin(front, left, middle, k, m, S)
            BY <2>1, JoinFacts
        <3> QED
            BY <3>1 DEF IsJoin
    <2> QED
        BY <2>2 DEF k, m
<1> HIDE DEF front
<1>6. Len(front) = i /\ front[i] = x /\ \A j \in 1..(i - 1) : front[j] = s[j]
    <2>1. (i - 1) + 1 = i /\ 1 \in 1..1
        BY <1>0
    <2> QED
        BY <1>1, <1>3, <1>5, <2>1
<1>7. /\ all \in Seq(S) /\ Len(all) = i + (n - i + 1)
      /\ \A j \in 1..i : all[j] = front[j]
      /\ \A j \in 1..(n - i + 1) : all[i + j] = right[j]
    <2> DEFINE k == n - i + 1
    <2>1. i \in Nat /\ k \in Nat /\ Len(front) = i /\ Len(right) = k
        BY <1>0, <1>2, <1>6
    <2> HIDE DEF k
    <2>2. /\ all \in Seq(S) /\ Len(all) = i + k
          /\ \A j \in 1..i : all[j] = front[j]
          /\ \A j \in 1..k : all[i + j] = right[j]
        <3>1. IsJoin(all, front, right, i, k, S)
            BY <1>2, <1>5, <2>1, JoinFacts
        <3> QED
            BY <3>1 DEF IsJoin
    <2> QED
        BY <2>2 DEF k
<1> HIDE DEF all
<1>8. ASSUME NEW j \in 1..(n + 1)
      PROVE  all[j] = IF j < i THEN s[j] ELSE IF j = i THEN x ELSE s[j - 1]
    <2>1. CASE j <= i
        <3>1. j \in 1..i /\ (j < i => j \in 1..(i - 1))
            BY <1>0, <2>1
        <3> QED
            BY <1>0, <1>6, <1>7, <2>1, <3>1
    <2>2. CASE j > i
        <3>1. j - i \in 1..(n - i + 1) /\ i + (j - i) - 1 = j - 1 /\ i + (j - i) = j
            BY <1>0, <2>2
        <3>2. all[i + (j - i)] = right[j - i] /\ right[j - i] = s[i + (j - i) - 1]
            BY <1>2, <1>7, <3>1
        <3> QED
            BY <1>0, <2>2, <3>1, <3>2
    <2> QED
        BY <1>0, <2>1, <2>2
<1>9. Len(all) = n + 1
    BY <1>0, <1>7
<1> QED
    BY <1>4, <1>7, <1>8, <1>9 DEF n, IsInsertion

LEMMA RemoveFacts ==
    ASSUME NEW S, NEW s \in Seq(S), NEW i \in 1..Len(s)
    PROVE  IsRemoval(RemoveAt(s, i), s, i, S)
<1> DEFINE n == Len(s)
           left == SubSeq(s, 1, i - 1)
           right == SubSeq(s, i + 1, n)
           all == Joined(left, right)
<1>0. n \in Nat /\ i \in 1..n /\ i - 1 \in Nat /\ n - i \in Nat
    BY LenProperties
<1> HIDE DEF n
<1>1. /\ left \in Seq(S) /\ Len(left) = i - 1 /\ \A j \in 1..(i - 1) : left[j] = s[j]
    <2>1. /\ SubSeq(s, 1, i - 1) \in Seq(S) /\ Len(SubSeq(s, 1, i - 1)) = (i - 1) - 1 + 1
          /\ \A j \in 1..((i - 1) - 1 + 1) : SubSeq(s, 1, i - 1)[j] = s[1 + j - 1]
        <3>1. i - 1 \in Int /\ 1 <= 1 /\ 1 <= (i - 1) + 1 /\ i - 1 <= Len(s)
            BY <1>0 DEF n
        <3> QED
            BY <3>1, SliceFacts
    <2> QED
        BY <1>0, <2>1
<1>2. /\ right \in Seq(S) /\ Len(right) = n - i
      /\ \A j \in 1..(n - i) : right[j] = s[i + j]
    <2>1. /\ SubSeq(s, i + 1, n) \in Seq(S) /\ Len(SubSeq(s, i + 1, n)) = n - (i + 1) + 1
          /\ \A j \in 1..(n - (i + 1) + 1) : SubSeq(s, i + 1, n)[j] = s[(i + 1) + j - 1]
        <3>1. i + 1 \in Int /\ n \in Int /\ 1 <= i + 1 /\ i + 1 <= n + 1 /\ n <= Len(s)
            BY <1>0 DEF n
        <3> QED
            BY <3>1, SliceFacts
    <2> QED
        BY <1>0, <2>1
<1>3. RemoveAt(s, i) = all
    BY DEF RemoveAt, Joined, n
<1> HIDE DEF left, right
<1>4. /\ all \in Seq(S) /\ Len(all) = (i - 1) + (n - i)
      /\ \A j \in 1..(i - 1) : all[j] = left[j]
      /\ \A j \in 1..(n - i) : all[(i - 1) + j] = right[j]
    <2> DEFINE k == i - 1
               m == n - i
    <2>1. k \in Nat /\ m \in Nat /\ Len(left) = k /\ Len(right) = m
        BY <1>0, <1>1, <1>2
    <2> HIDE DEF k, m
    <2>2. /\ all \in Seq(S) /\ Len(all) = k + m
          /\ \A j \in 1..k : all[j] = left[j]
          /\ \A j \in 1..m : all[k + j] = right[j]
        <3>1. IsJoin(all, left, right, k, m, S)
            BY <1>1, <1>2, <2>1, JoinFacts
        <3> QED
            BY <3>1 DEF IsJoin
    <2> QED
        BY <2>2 DEF k, m
<1> HIDE DEF all
<1>5. ASSUME NEW j \in 1..(n - 1)
      PROVE  all[j] = IF j < i THEN s[j] ELSE s[j + 1]
    <2>1. CASE j < i
        <3>1. j \in 1..(i - 1)
            BY <1>0, <2>1
        <3> QED
            BY <1>1, <1>4, <2>1, <3>1
    <2>2. CASE j >= i
        <3> DEFINE k == j - (i - 1)
        <3>1. k \in 1..(n - i) /\ i + k = j + 1 /\ (i - 1) + k = j
            BY <1>0, <2>2
        <3> HIDE DEF k
        <3>2. all[(i - 1) + k] = right[k] /\ right[k] = s[i + k]
            BY <1>2, <1>4, <3>1
        <3> QED
            BY <1>0, <2>2, <3>1, <3>2
    <2> QED
        BY <1>0, <2>1, <2>2
<1>6. Len(all) = n - 1
    BY <1>0, <1>4
<1> QED
    BY <1>3, <1>4, <1>5, <1>6 DEF n, IsRemoval

LEMMA RemoveInserted ==
    ASSUME NEW S, NEW s \in Seq(S), NEW i \in 1..(Len(s) + 1), NEW x \in S
    PROVE  RemoveAt(InsertAt(s, i, x), i) = s
<1> DEFINE t == InsertAt(s, i, x)
<1>0. Len(s) \in Nat
    BY LenProperties
<1>1. /\ t \in Seq(S) /\ Len(t) = Len(s) + 1
      /\ \A j \in 1..(Len(s) + 1) : t[j] = IF j < i THEN s[j] ELSE IF j = i THEN x ELSE s[j - 1]
    <2>1. IsInsertion(t, s, i, x, S)
        BY InsertFacts
    <2> QED
        BY <2>1 DEF IsInsertion
<1> HIDE DEF t
<1>2. /\ RemoveAt(t, i) \in Seq(S) /\ Len(RemoveAt(t, i)) = Len(s)
      /\ \A j \in 1..Len(s) : RemoveAt(t, i)[j] = IF j < i THEN t[j] ELSE t[j + 1]
    <2>1. i \in 1..Len(t) /\ Len(t) - 1 = Len(s)
        BY <1>0, <1>1
    <2>2. IsRemoval(RemoveAt(t, i), t, i, S)
        BY <1>1, <2>1, RemoveFacts
    <2> QED
        BY <2>1, <2>2 DEF IsRemoval
<1>3. ASSUME NEW j \in 1..Len(s)
      PROVE  RemoveAt(t, i)[j] = s[j]
    BY <1>0, <1>1, <1>2
<1>4. RemoveAt(t, i) = s
    BY <1>2, <1>3, SeqEqual
<1> QED
    BY <1>4 DEF t

LEMMA InsertRemoved ==
    ASSUME NEW S, NEW s \in Seq(S), NEW i \in 1..Len(s)
    PROVE  InsertAt(RemoveAt(s, i), i, s[i]) = s
<1> DEFINE t == RemoveAt(s, i)
<1>0. Len(s) \in Nat /\ s[i] \in S
    BY ElementOfSeq, LenProperties
<1>1. /\ t \in Seq(S) /\ Len(t) = Len(s) - 1
      /\ \A j \in 1..(Len(s) - 1) : t[j] = IF j < i THEN s[j] ELSE s[j + 1]
    <2>1. IsRemoval(t, s, i, S)
        BY RemoveFacts
    <2> QED
        BY <2>1 DEF IsRemoval
<1> HIDE DEF t
<1> DEFINE x == s[i]
<1> HIDE DEF x
<1>2. /\ InsertAt(t, i, x) \in Seq(S) /\ Len(InsertAt(t, i, x)) = Len(s)
      /\ \A j \in 1..Len(s) :
            InsertAt(t, i, x)[j] = IF j < i THEN t[j] ELSE IF j = i THEN x ELSE t[j - 1]
    <2>1. i \in 1..(Len(t) + 1) /\ Len(t) + 1 = Len(s) /\ x \in S
        BY <1>0, <1>1 DEF x
    <2>2. IsInsertion(InsertAt(t, i, x), t, i, x, S)
        BY <1>1, <2>1, InsertFacts
    <2> QED
        BY <2>1, <2>2 DEF IsInsertion
<1>3. ASSUME NEW j \in 1..Len(s)
      PROVE  InsertAt(t, i, x)[j] = s[j]
    <2>1. CASE j < i
        <3>1. j \in 1..(Len(s) - 1)
            BY <1>0, <2>1
        <3> QED
            BY <1>0, <1>1, <1>2, <2>1, <3>1
    <2>2. CASE j = i
        BY <1>0, <1>2, <2>2 DEF x
    <2>3. CASE j > i
        <3>1. j - 1 \in 1..(Len(s) - 1) /\ ~(j - 1 < i) /\ (j - 1) + 1 = j
            BY <1>0, <2>3
        <3> QED
            BY <1>0, <1>1, <1>2, <2>3, <3>1
    <2> QED
        BY <1>0, <2>1, <2>2, <2>3
<1>4. InsertAt(t, i, x) = s
    BY <1>2, <1>3, SeqEqual
<1> QED
    BY <1>4 DEF t, x
-----------------------------------------------------------------------------
(* One operation on a container, and its inverse on the result.             *)

Kinds == {"add", "replace", "remove"}

\* Changes the container with something that is JSON, if it is to write.
Writes(op) == op.op \in Kinds /\ (op.op # "remove" => IsJson(op.value))

\* The token of what the operation has changed, in the container it makes.
BackToken(c, t, op) ==
    IF op.op = "add" /\ t = "-" /\ IsArray(c) THEN TokenOf(Len(c.arr)) ELSE t

\* As InverseOf chooses it: what an operation with the effect of an inverse does.
Undoes(back, c, t, op) ==
    /\ op.op = "remove" => back.op = "add" /\ back.value = Child(c, t)
    /\ op.op = "replace" => back.op = "replace" /\ back.value = Child(c, t)
    /\ op.op = "add" /\ (IsArray(c) \/ Child(c, t) = Failed) => back.op = "remove"
    /\ op.op = "add" /\ ~(IsArray(c) \/ Child(c, t) = Failed) =>
            back.op = "replace" /\ back.value = Child(c, t)

\* A mapping without a key, and with a value for one.
Without(f, t) == [k \in DOMAIN f \ {t} |-> f[k]]
Put(f, t, x) == [k \in DOMAIN f \cup {t} |-> IF k = t THEN x ELSE f[k]]

LEMMA WithoutFacts ==
    ASSUME NEW f, NEW S, f \in [DOMAIN f -> S], NEW t
    PROVE  /\ Without(f, t) \in [DOMAIN f \ {t} -> S]
           /\ DOMAIN Without(f, t) = DOMAIN f \ {t}
           /\ \A k \in DOMAIN f : k # t => Without(f, t)[k] = f[k]
BY DEF Without

LEMMA PutFacts ==
    ASSUME NEW f, NEW S, f \in [DOMAIN f -> S], NEW t, NEW x
    PROVE  /\ Put(f, t, x) \in [DOMAIN f \cup {t} -> S \cup {x}]
           /\ DOMAIN Put(f, t, x) = DOMAIN f \cup {t}
           /\ t \in DOMAIN f => Put(f, t, x) = [f EXCEPT ![t] = x]
           /\ \A k \in DOMAIN f : k # t => Put(f, t, x)[k] = f[k]
<1>1. /\ Put(f, t, x) \in [DOMAIN f \cup {t} -> S \cup {x}]
      /\ DOMAIN Put(f, t, x) = DOMAIN f \cup {t}
    BY DEF Put
<1>2. ASSUME t \in DOMAIN f
      PROVE  Put(f, t, x) = [f EXCEPT ![t] = x]
    <2>1. DOMAIN f \cup {t} = DOMAIN f
        BY <1>2
    <2> QED
        BY <2>1 DEF Put
<1>3. \A k \in DOMAIN f : k # t => Put(f, t, x)[k] = f[k]
    BY DEF Put
<1> QED
    BY <1>1, <1>2, <1>3

\* They cancel out.
LEMMA MappingsCancel ==
    ASSUME NEW f, NEW S, f \in [DOMAIN f -> S], NEW t, NEW x
    PROVE  /\ t \in DOMAIN f => Put(Without(f, t), t, f[t]) = f
           /\ t \in DOMAIN f => Put(Put(f, t, x), t, f[t]) = f
           /\ t \notin DOMAIN f => Without(Put(f, t, x), t) = f
<1>1. ASSUME t \in DOMAIN f
      PROVE  Put(Without(f, t), t, f[t]) = f
    <2>1. DOMAIN Without(f, t) \cup {t} = DOMAIN f
        BY <1>1 DEF Without
    <2>2. ASSUME NEW k \in DOMAIN f
          PROVE  (IF k = t THEN f[t] ELSE Without(f, t)[k]) = f[k]
        BY <1>1 DEF Without
    <2> QED
        BY <2>1, <2>2 DEF Put
<1>2. ASSUME t \in DOMAIN f
      PROVE  Put(Put(f, t, x), t, f[t]) = f
    <2> DEFINE g == Put(f, t, x)
    <2>1. DOMAIN g \cup {t} = DOMAIN f
        BY <1>2 DEF Put
    <2>2. ASSUME NEW k \in DOMAIN f
          PROVE  (IF k = t THEN f[t] ELSE g[k]) = f[k]
        BY <1>2 DEF Put
    <2> HIDE DEF g
    <2>3. Put(g, t, f[t]) = f
        BY <2>1, <2>2 DEF Put
    <2> QED
        BY <2>3 DEF g
<1>3. ASSUME t \notin DOMAIN f
      PROVE  Without(Put(f, t, x), t) = f
    <2> DEFINE g == Put(f, t, x)
    <2>1. DOMAIN g \ {t} = DOMAIN f
        BY <1>3 DEF Put
    <2>2. ASSUME NEW k \in DOMAIN f
          PROVE  g[k] = f[k]
        BY <1>3 DEF Put
    <2> HIDE DEF g
    <2>3. Without(g, t) = f
        BY <2>1, <2>2 DEF Without
    <2> QED
        BY <2>3 DEF g
<1> QED
    BY <1>1, <1>2, <1>3

LEMMA EditObjectFacts ==
    ASSUME NEW f, NEW S, f \in [DOMAIN f -> S], NEW t, NEW op, op.op \in Kinds
    PROVE  /\ op.op = "remove" /\ t \in DOMAIN f => EditObject(f, t, op) = Obj(Without(f, t))
           /\ op.op = "replace" /\ t \in DOMAIN f =>
                EditObject(f, t, op) = Obj(Put(f, t, op.value))
           /\ op.op = "add" => EditObject(f, t, op) = Obj(Put(f, t, op.value))
           /\ op.op # "add" /\ t \notin DOMAIN f => EditObject(f, t, op) = Failed
<1>1. EditObject(f, t, op) =
        CASE op.op = "remove" /\ t \in DOMAIN f -> Obj(Without(f, t))
          [] op.op = "replace" /\ t \in DOMAIN f -> Obj([f EXCEPT ![t] = op.value])
          [] op.op = "add" -> Obj(Put(f, t, op.value))
          [] OTHER -> Failed
    BY DEF EditObject, Without, Put
<1>2. t \in DOMAIN f => [f EXCEPT ![t] = op.value] = Put(f, t, op.value)
    <2> DEFINE x == op.value
    <2> HIDE DEF x
    <2>1. t \in DOMAIN f => Put(f, t, x) = [f EXCEPT ![t] = x]
        BY PutFacts
    <2> QED
        BY <2>1 DEF x
<1> QED
    BY <1>1, <1>2 DEF Kinds

\* The position of the list that an array token names: to change what is there, and to
\* insert something.
Place(t) == IntOf(t) + 1
Slot(t, n) == IF t = "-" THEN n + 1 ELSE IntOf(t) + 1

LEMMA EditArrayFacts ==
    ASSUME NEW s, NEW n \in Nat, Len(s) = n, NEW t, NEW op, op.op \in Kinds
    PROVE  /\ op.op = "remove" =>
                EditArray(s, t, op) = IF Place(t) \in 1..n THEN Arr(RemoveAt(s, Place(t)))
                                      ELSE Failed
           /\ op.op = "replace" =>
                EditArray(s, t, op) = IF Place(t) \in 1..n
                                      THEN Arr(ReplaceAt(s, Place(t), op.value))
                                      ELSE Failed
           /\ op.op = "add" =>
                EditArray(s, t, op) = IF Slot(t, n) \in 1..(n + 1)
                                      THEN Arr(InsertAt(s, Slot(t, n), op.value))
                                      ELSE Failed
<1>0. /\ IntOf(t) \in Int /\ IntOf(t) >= -1
      /\ ArrayIndex(t, n, FALSE) \in Int /\ ArrayIndex(t, n, TRUE) \in Int
    BY TokenFacts, IndexFacts
<1>1. ASSUME NEW index \in Int, index = ArrayIndex(t, n, op.op = "add")
      PROVE  EditArray(s, t, op) =
                CASE index < 0 -> Failed
                  [] index >= 0 /\ op.op = "remove" -> Arr(RemoveAt(s, index + 1))
                  [] index >= 0 /\ op.op = "replace" -> Arr(ReplaceAt(s, index + 1, op.value))
                  [] index >= 0 /\ op.op = "add" -> Arr(InsertAt(s, index + 1, op.value))
    BY <1>1 DEF EditArray
<1>2. CASE op.op = "add"
    <2> DEFINE index == ArrayIndex(t, n, TRUE)
    <2>1. index = ArrayIndex(t, n, op.op = "add")
        BY <1>2
    <2>2. IF index >= 0 THEN index + 1 = Slot(t, n) /\ Slot(t, n) \in 1..(n + 1)
          ELSE Slot(t, n) \notin 1..(n + 1)
        <3>1. CASE t = "-"
            BY <3>1 DEF ArrayIndex, Slot
        <3>2. CASE t # "-"
            BY <1>0, <3>2 DEF ArrayIndex, Slot
        <3> QED
            BY <3>1, <3>2
    <2> HIDE DEF index
    <2>3. index \in Int
        BY <1>0 DEF index
    <2>4. EditArray(s, t, op) = IF index < 0 THEN Failed
                                ELSE Arr(InsertAt(s, index + 1, op.value))
        BY <1>1, <1>2, <2>1, <2>3
    <2> QED
        BY <1>2, <2>2, <2>3, <2>4
<1>3. CASE op.op # "add"
    <2> DEFINE index == ArrayIndex(t, n, FALSE)
    <2>1. index = ArrayIndex(t, n, op.op = "add")
        BY <1>3
    <2>2. IF index >= 0 THEN index + 1 = Place(t) /\ Place(t) \in 1..n
          ELSE Place(t) \notin 1..n
        BY <1>0 DEF ArrayIndex, Place
    <2> HIDE DEF index
    <2>3. index \in Int
        BY <1>0 DEF index
    <2>4. CASE op.op = "remove"
        <3>1. EditArray(s, t, op) = IF index < 0 THEN Failed ELSE Arr(RemoveAt(s, index + 1))
            BY <1>1, <2>1, <2>3, <2>4
        <3> QED
            BY <2>2, <2>3, <2>4, <3>1
    <2>5. CASE op.op = "replace"
        <3>1. EditArray(s, t, op) = IF index < 0 THEN Failed
                                    ELSE Arr(ReplaceAt(s, index + 1, op.value))
            BY <1>1, <2>1, <2>3, <2>5
        <3> QED
            BY <2>2, <2>3, <2>5, <3>1
    <2> QED
        BY <1>3, <2>4, <2>5 DEF Kinds
<1> QED
    BY <1>2, <1>3

LEMMA ObjectEditUndone ==
    ASSUME NEW c, IsJson(c), IsObject(c), NEW t \in Token, NEW op, Writes(op),
           Edit(c, t, op) # Failed, NEW back, Undoes(back, c, t, op)
    PROVE  /\ IsJson(Edit(c, t, op)) /\ IsObject(Edit(c, t, op))
           /\ \A k : k # t => Child(Edit(c, t, op), k) = Child(c, k)
           /\ Edit(Edit(c, t, op), t, back) = c
<1> DEFINE f == c.obj
<1>1. PICK S : AllJson(S) /\ f \in [DOMAIN f -> S]
    BY ChildFacts
<1>2. c = Obj(f) /\ ~IsArray(c) /\ (Child(c, t) # Failed <=> t \in DOMAIN f)
      /\ (t \in DOMAIN f => Child(c, t) = f[t])
    BY ChildFacts
<1> HIDE DEF f
<1>3. ASSUME NEW g, NEW o
      PROVE  Edit(Obj(g), t, o) = EditObject(g, t, o)
    BY ConstructorFacts DEF Edit
<1>4. ASSUME NEW g, NEW k
      PROVE  Child(Obj(g), k) = IF k \in DOMAIN g THEN g[k] ELSE Failed
    BY ConstructorFacts DEF Child
<1>5. op.op \in Kinds /\ Edit(c, t, op) = EditObject(f, t, op)
    BY <1>2, <1>3 DEF Writes
<1>6. CASE op.op = "remove"
    <2> DEFINE g == Without(f, t)
    <2>1. t \in DOMAIN f /\ Edit(c, t, op) = Obj(g)
        BY <1>1, <1>5, <1>6, EditObjectFacts
    <2>2. back.op = "add" /\ back.value = f[t] /\ back.op \in Kinds
        BY <1>2, <1>6, <2>1 DEF Undoes, Kinds
    <2>3. g \in [DOMAIN f \ {t} -> S] /\ DOMAIN g = DOMAIN f \ {t} /\ g \in [DOMAIN g -> S]
        BY <1>1, WithoutFacts
    <2>4. \A k \in DOMAIN f : k # t => g[k] = f[k]
        BY <1>1, WithoutFacts
    <2>5. Put(g, t, f[t]) = f
        BY <1>1, <2>1, MappingsCancel
    <2> HIDE DEF g
    <2>6. Edit(Obj(g), t, back) = Obj(Put(g, t, back.value))
        BY <1>3, <2>2, <2>3, EditObjectFacts
    <2>7. IsJson(Obj(g)) /\ IsObject(Obj(g))
        BY <1>1, <2>3, JsonContainer, ConstructorFacts
    <2>8. \A k : k # t => Child(Obj(g), k) = Child(Obj(f), k)
        BY <1>4, <2>3, <2>4
    <2> QED
        BY <1>2, <2>1, <2>2, <2>5, <2>6, <2>7, <2>8
<1>7. CASE op.op # "remove"
    <2> DEFINE x == op.value
               g == Put(f, t, x)
    <2>1. (op.op = "replace" => t \in DOMAIN f) /\ Edit(c, t, op) = Obj(g) /\ IsJson(x)
        BY <1>1, <1>5, <1>7, EditObjectFacts DEF Writes, Kinds
    <2> HIDE DEF x
    <2>2. /\ g \in [DOMAIN f \cup {t} -> S \cup {x}] /\ DOMAIN g = DOMAIN f \cup {t}
          /\ g \in [DOMAIN g -> S \cup {x}] /\ AllJson(S \cup {x})
        BY <1>1, <2>1, PutFacts DEF AllJson
    <2>3. \A k \in DOMAIN f : k # t => g[k] = f[k]
        BY DEF Put
    <2>4. (t \in DOMAIN f => Put(g, t, f[t]) = f) /\ (t \notin DOMAIN f => Without(g, t) = f)
        BY <1>1, MappingsCancel
    <2> HIDE DEF g
    <2>5. Edit(Obj(g), t, back) = c
        <3>0. t \in DOMAIN g
            BY <2>2
        <3>1. CASE t \in DOMAIN f
            <4>1. back.op = "replace" /\ back.value = f[t] /\ back.op \in Kinds
                BY <1>2, <1>5, <1>7, <3>1 DEF Undoes, Kinds
            <4>2. Edit(Obj(g), t, back) = Obj(Put(g, t, back.value))
                BY <1>3, <2>2, <3>0, <4>1, EditObjectFacts
            <4> QED
                BY <1>2, <2>4, <3>1, <4>1, <4>2
        <3>2. CASE t \notin DOMAIN f
            <4>1. back.op = "remove" /\ back.op \in Kinds
                BY <1>2, <1>5, <1>7, <2>1, <3>2 DEF Undoes, Kinds
            <4>2. Edit(Obj(g), t, back) = Obj(Without(g, t))
                BY <1>3, <2>2, <3>0, <4>1, EditObjectFacts
            <4> QED
                BY <1>2, <2>4, <3>2, <4>2
        <3> QED
            BY <3>1, <3>2
    <2>6. IsJson(Obj(g)) /\ IsObject(Obj(g))
        BY <2>2, JsonContainer, ConstructorFacts
    <2>7. \A k : k # t => Child(Obj(g), k) = Child(Obj(f), k)
        BY <1>4, <2>2, <2>3
    <2> QED
        BY <1>2, <2>1, <2>5, <2>6, <2>7
<1> QED
    BY <1>6, <1>7
LEMMA ArrayEditUndone ==
    ASSUME NEW c, IsJson(c), IsArray(c), NEW t \in Token, NEW op, Writes(op),
           op.op = "add" /\ t = "-" => Len(c.arr) < Len(DecimalTokens),
           Edit(c, t, op) # Failed, NEW back, Undoes(back, c, t, op)
    PROVE  /\ IsJson(Edit(c, t, op)) /\ IsArray(Edit(c, t, op))
           /\ BackToken(c, t, op) \in Token
           /\ Edit(Edit(c, t, op), BackToken(c, t, op), back) = c
<1> DEFINE s == c.arr
           n == Len(s)
           u == BackToken(c, t, op)
           x == op.value
           i == Place(t)
<1>1. PICK S : AllJson(S) /\ s \in Seq(S)
    BY ChildFacts
<1>2. /\ c = Arr(s) /\ ~IsObject(c) /\ (Child(c, t) # Failed <=> IntOf(t) \in 0..(n - 1))
      /\ (IntOf(t) \in 0..(n - 1) => Child(c, t) = s[IntOf(t) + 1]) /\ n \in Nat
    BY ChildFacts
<1>3. op.op = "add" /\ t = "-" => n < Len(DecimalTokens) /\ u = TokenOf(n)
    BY DEF BackToken
<1>4. ~(op.op = "add" /\ t = "-") => u = t
    BY DEF BackToken
<1>5. IntOf(t) \in Int /\ i = IntOf(t) + 1
    BY TokenFacts DEF Place
<1>6. i \in 1..n => Child(c, t) # Failed /\ Child(c, t) = s[i]
    <2>1. i \in 1..n => IntOf(t) \in 0..(n - 1) /\ IntOf(t) + 1 = i
        BY <1>2, <1>5
    <2> QED
        BY <1>2, <2>1
<1> HIDE DEF s, u, x, i
<1>7. ASSUME NEW r, NEW o, NEW w
      PROVE  Edit(Arr(r), w, o) = EditArray(r, w, o)
    BY ConstructorFacts DEF Edit
<1>8. op.op \in Kinds /\ EditArray(s, t, op) # Failed /\ Edit(c, t, op) = EditArray(s, t, op)
    BY <1>2, <1>7 DEF Writes
<1>9. n \in Nat /\ Len(s) = n
    BY <1>2
<1> HIDE DEF n
<1>10. op.op # "remove" => IsJson(x) /\ AllJson(S \cup {x}) /\ s \in Seq(S \cup {x})
    BY <1>1, SeqMonotonic DEF AllJson, Writes, x
<1>11. CASE op.op = "remove"
    <2> DEFINE r == RemoveAt(s, i)
    <2>1. i \in 1..n /\ Edit(c, t, op) = Arr(r)
        BY <1>8, <1>9, <1>11, EditArrayFacts DEF i
    <2>2. back.op = "add" /\ back.value = s[i] /\ back.op \in Kinds
        BY <1>6, <1>11, <2>1 DEF Undoes, Kinds
    <2>3. r \in Seq(S) /\ Len(r) = n - 1 /\ n - 1 \in Nat
        <3>1. IsRemoval(r, s, i, S)
            BY <1>1, <1>9, <2>1, RemoveFacts
        <3> QED
            BY <1>9, <2>1, <3>1 DEF IsRemoval
    <2>4. InsertAt(r, i, s[i]) = s
        BY <1>1, <1>9, <2>1, InsertRemoved
    <2> HIDE DEF r
    <2>5. Slot(t, n - 1) = i /\ i \in 1..((n - 1) + 1)
        <3>1. t # "-"
            BY <1>5, <2>1, TokenFacts
        <3> QED
            BY <1>5, <1>9, <2>1, <3>1 DEF Slot
    <2> DEFINE m == n - 1
    <2>6. m \in Nat /\ Len(r) = m /\ Slot(t, m) = i /\ i \in 1..(m + 1)
        BY <2>3, <2>5
    <2> HIDE DEF m
    <2>7. EditArray(r, t, back) = Arr(InsertAt(r, i, back.value))
        BY <2>2, <2>6, EditArrayFacts
    <2>8. IsJson(Arr(r)) /\ IsArray(Arr(r))
        BY <1>1, <2>3, JsonContainer, ConstructorFacts
    <2> QED
        BY <1>2, <1>4, <1>7, <1>11, <2>1, <2>2, <2>4, <2>7, <2>8 DEF u
<1>12. CASE op.op = "replace"
    <2> DEFINE r == ReplaceAt(s, i, x)
    <2>1. i \in 1..n /\ Edit(c, t, op) = Arr(r)
        BY <1>8, <1>9, <1>12, EditArrayFacts DEF i, x
    <2>2. back.op = "replace" /\ back.value = s[i] /\ back.op \in Kinds
        BY <1>6, <1>12, <2>1 DEF Undoes, Kinds
    <2>3. r \in Seq(S \cup {x}) /\ Len(r) = n
        <3> DEFINE T == S \cup {x}
        <3>1. s \in Seq(T) /\ x \in T /\ i \in 1..Len(s)
            BY <1>9, <1>10, <1>12, <2>1
        <3> HIDE DEF T
        <3>2. r \in Seq(T) /\ Len(r) = Len(s)
            BY <3>1, ExceptSeq DEF ReplaceAt
        <3> QED
            BY <1>9, <3>2 DEF T
    <2>4. ReplaceAt(r, i, s[i]) = s
        <3>1. DOMAIN s = 1..n /\ s = [j \in 1..n |-> s[j]]
            BY <1>1, <1>9, LenProperties
        <3> QED
            BY <2>1, <3>1 DEF ReplaceAt
    <2> HIDE DEF r
    <2>5. EditArray(r, t, back) = Arr(ReplaceAt(r, i, back.value))
        BY <1>9, <2>1, <2>2, <2>3, EditArrayFacts DEF i
    <2>6. IsJson(Arr(r)) /\ IsArray(Arr(r))
        BY <1>10, <1>12, <2>3, JsonContainer, ConstructorFacts
    <2> QED
        BY <1>2, <1>4, <1>7, <1>12, <2>1, <2>2, <2>4, <2>5, <2>6 DEF u
<1>13. CASE op.op = "add"
    <2> DEFINE k == Slot(t, n)
               r == InsertAt(s, k, x)
    <2>1. k \in 1..(n + 1) /\ Edit(c, t, op) = Arr(r)
        BY <1>8, <1>9, <1>13, EditArrayFacts DEF x
    <2>2. u \in Token /\ Place(u) = k
        <3>1. CASE t = "-"
            <4>1. u = TokenOf(n) /\ n < Len(DecimalTokens)
                BY <1>3, <1>13, <3>1
            <4>2. TokenOf(n) \in Token /\ IntOf(TokenOf(n)) = n
                BY <1>9, <4>1, TokenFacts
            <4> QED
                BY <3>1, <4>1, <4>2 DEF Place, Slot
        <3>2. CASE t # "-"
            BY <1>4, <3>2 DEF Place, Slot
        <3> QED
            BY <3>1, <3>2
    <2>3. back.op = "remove" /\ back.op \in Kinds
        BY <1>13 DEF Undoes, Kinds
    <2> HIDE DEF k
    <2> DEFINE T == S \cup {x}
    <2>4. s \in Seq(T) /\ x \in T /\ AllJson(T) /\ k \in 1..(Len(s) + 1)
        BY <1>9, <1>10, <1>13, <2>1
    <2> HIDE DEF T
    <2>5. r \in Seq(T) /\ Len(r) = Len(s) + 1
        <3>1. IsInsertion(r, s, k, x, T)
            BY <2>4, InsertFacts
        <3> QED
            BY <3>1 DEF IsInsertion
    <2>6. RemoveAt(r, k) = s
        BY <2>4, RemoveInserted
    <2> HIDE DEF r
    <2> DEFINE m == n + 1
    <2>7. m \in Nat /\ Len(r) = m /\ Place(u) \in 1..m
        BY <1>9, <2>1, <2>2, <2>5
    <2> HIDE DEF m
    <2>8. EditArray(r, u, back) = Arr(RemoveAt(r, Place(u)))
        BY <2>3, <2>7, EditArrayFacts
    <2>9. IsJson(Arr(r)) /\ IsArray(Arr(r))
        BY <2>4, <2>5, JsonContainer, ConstructorFacts
    <2> QED
        BY <1>2, <1>7, <2>1, <2>2, <2>6, <2>8, <2>9 DEF u
<1> QED
    BY <1>8, <1>11, <1>12, <1>13 DEF Kinds
-----------------------------------------------------------------------------
(* One operation on a document, and its inverse on the result.              *)

LEMMA LastTokenFacts ==
    /\ \A p \in Pointer, t \in Token :
        Append(p, t) # << >> /\ Front(Append(p, t)) = p /\ Last(Append(p, t)) = t
    /\ \A q \in Pointer : q # << >> =>
        Front(q) \in Pointer /\ Last(q) \in Token /\ q = Append(Front(q), Last(q))
<1>1. ASSUME NEW p \in Pointer, NEW t \in Token
      PROVE  Append(p, t) # << >> /\ Front(Append(p, t)) = p /\ Last(Append(p, t)) = t
    <2> DEFINE q == Append(p, t)
               n == Len(p)
    <2>1. /\ n \in Nat /\ q \in Pointer /\ q # << >> /\ Len(q) = n + 1
          /\ q[n + 1] = t /\ \A k \in 1..n : q[k] = p[k]
        BY AppendProperties, LenProperties DEF Pointer
    <2> HIDE DEF q, n
    <2>2. SubSeq(q, 1, n) = SubSeq(p, 1, n)
        BY <2>1
    <2>3. SubSeq(p, 1, n) = p
        BY SubSeqFull DEF Pointer, n
    <2>4. Front(q) = SubSeq(q, 1, n) /\ Last(q) = t
        <3>1. Len(q) - 1 = n
            BY <2>1
        <3> QED
            BY <2>1, <3>1 DEF Front, Last
    <2> QED
        BY <2>1, <2>2, <2>3, <2>4 DEF q
<1>2. ASSUME NEW q \in Pointer, q # << >>
      PROVE  Front(q) \in Pointer /\ Last(q) \in Token /\ q = Append(Front(q), Last(q))
    <2>1. PICK p \in Pointer, t \in Token : q = Append(p, t)
        BY <1>2, SequenceEmptyOrAppend DEF Pointer
    <2> QED
        BY <1>1, <2>1
<1> QED
    BY <1>1, <1>2

\* An operation that can be tried on a document.
Applicable(op) == op.path \in Pointer /\ Writes(op)

LEMMA OperationAtRoot ==
    ASSUME NEW doc, IsJson(doc), NEW op, Applicable(op), op.path = << >>,
           ApplySingle(doc, op) # Failed
    PROVE  /\ IsJson(ApplySingle(doc, op))
           /\ ApplySingle(ApplySingle(doc, op), InverseOf(doc, op)) = doc
           /\ ConcretePath(doc, op) = << >>
<1>1. op.op # "remove" /\ ApplySingle(doc, op) = op.value
    BY DEF ApplySingle
<1>2. op.op \in Kinds /\ IsJson(op.value)
    BY <1>1 DEF Applicable, Writes
<1>3. GetValue(doc, << >>) = doc /\ doc # Failed
    BY GetValueSteps, ChildFacts
<1>4. InverseOf(doc, op) = Operation("replace", << >>, doc)
    BY <1>1, <1>2, <1>3 DEF InverseOf, Kinds
<1>5. ASSUME NEW d
      PROVE  ApplySingle(d, Operation("replace", << >>, doc)) = doc
    BY DEF ApplySingle, Operation
<1>6. ConcretePath(doc, op) = << >>
    BY DEF ConcretePath
<1> QED
    BY <1>1, <1>2, <1>4, <1>5, <1>6

\* The document changes in the container of the last token, and there as the edit says;
\* of an object, only in the member that the first token names.
LEMMA OperationBelow ==
    ASSUME NEW doc, IsJson(doc), NEW op, Applicable(op), HasToken(doc, op), op.path # << >>,
           ApplySingle(doc, op) # Failed
    PROVE  /\ IsJson(ApplySingle(doc, op))
           /\ ApplySingle(ApplySingle(doc, op), InverseOf(doc, op)) = doc
           /\ ConcretePath(doc, op) \in Pointer \ {<< >>}
           /\ IsObject(doc) =>
                /\ IsObject(ApplySingle(doc, op))
                /\ \A k : k # ConcretePath(doc, op)[1] =>
                        Child(ApplySingle(doc, op), k) = Child(doc, k)
<1> DEFINE p == Front(op.path)
           t == Last(op.path)
           c == GetValue(doc, p)
           e == Edit(c, t, op)
           u == BackToken(c, t, op)
           back == InverseOf(doc, op)
           next == ApplySingle(doc, op)
<1>1. p \in Pointer /\ t \in Token /\ op.path = Append(p, t)
    BY LastTokenFacts DEF Applicable
<1>2. next = IF e = Failed THEN Failed ELSE Rewritten(doc, p, e)
    BY DEF ApplySingle, EditAt
<1>3. e # Failed /\ next = Rewritten(doc, p, e)
    BY <1>2
<1>4. Writes(op) /\ op.op \in Kinds
    BY DEF Applicable, Writes
<1>5. GetValue(doc, op.path) = Child(c, t)
    <2>1. ASSUME NEW q \in Pointer, NEW w \in Token
          PROVE  GetValue(doc, Append(q, w)) = Child(GetValue(doc, q), w)
        BY GetValueSteps
    <2> HIDE DEF p, t
    <2> QED
        BY <1>1, <2>1
<1>6. ConcretePath(doc, op) = IF op.op = "add" /\ IsArray(c) /\ t = "-" THEN Append(p, u) ELSE op.path
    BY DEF ConcretePath, BackToken
<1>7. op.op = "add" /\ t = "-" /\ IsArray(c) => Len(c.arr) < Len(DecimalTokens)
    BY DEF HasToken
<1>8. u = IF op.op = "add" /\ IsArray(c) /\ t = "-" THEN TokenOf(Len(c.arr)) ELSE t
    BY DEF BackToken
<1>9. ConcretePath(doc, op) = Append(p, u)
    <2>1. CASE op.op = "add" /\ IsArray(c) /\ t = "-"
        BY <1>6, <2>1
    <2>2. CASE ~(op.op = "add" /\ IsArray(c) /\ t = "-")
        BY <1>1, <1>6, <1>8, <2>2
    <2> QED
        BY <2>1, <2>2
<1>10. back = CASE op.op = "remove" -> Operation("add", op.path, Child(c, t))
                [] op.op = "replace" -> Operation("replace", op.path, Child(c, t))
                [] op.op = "add" /\ (IsArray(c) \/ Child(c, t) = Failed) ->
                        Removal(ConcretePath(doc, op))
                [] op.op = "add" /\ ~IsArray(c) /\ Child(c, t) # Failed ->
                        Operation("replace", op.path, Child(c, t))
    BY <1>5 DEF InverseOf
<1>11. IsObject(c) \/ IsArray(c)
    BY <1>3 DEF Edit
<1> HIDE DEF p, t, c, e, u, back, next
<1>12. Undoes(back, c, t, op)
    <2>1. \A kind, path, value : /\ Operation(kind, path, value).op = kind
                                 /\ Operation(kind, path, value).value = value
        BY DEF Operation
    <2>2. \A path : Removal(path).op = "remove"
        BY DEF Removal
    <2> QED
        BY <1>4, <1>10, <2>1, <2>2 DEF Undoes, Kinds
<1>13. back.path = Append(p, u)
    <2>1. \A kind, path, value : Operation(kind, path, value).path = path
        BY DEF Operation
    <2>2. \A path : Removal(path).path = path
        BY DEF Removal
    <2>3. op.op # "add" \/ ~IsArray(c) => op.path = Append(p, u)
        BY <1>1, <1>8
    <2>4. CASE op.op # "add"
        <3>1. op.op = "remove" \/ op.op = "replace"
            BY <1>4, <2>4 DEF Kinds
        <3>2. back.path = op.path
            BY <1>10, <2>1, <3>1
        <3> QED
            BY <2>3, <2>4, <3>2
    <2>5. CASE op.op = "add"
        <3>1. CASE IsArray(c) \/ Child(c, t) = Failed
            <4>1. back = Removal(ConcretePath(doc, op))
                BY <1>10, <2>5, <3>1
            <4> QED
                BY <1>9, <2>2, <4>1
        <3>2. CASE ~(IsArray(c) \/ Child(c, t) = Failed)
            <4>1. back = Operation("replace", op.path, Child(c, t))
                BY <1>10, <2>5, <3>2
            <4> QED
                BY <2>1, <2>3, <3>2, <4>1
        <3> QED
            BY <3>1, <3>2
    <2> QED
        BY <2>4, <2>5
<1>14. PointerLaws(doc, p) /\ c # Failed
    BY <1>1, <1>11, PointersReadWhatTheyWrite, ConstructorFacts
<1>15. IsJson(c) /\ Rewritten(doc, p, c) = doc
    BY <1>14 DEF PointerLaws, c
<1>16. /\ IsJson(e) /\ u \in Token /\ Edit(e, u, back) = c
       /\ IsObject(c) => IsObject(e) /\ \A k : k # t => Child(e, k) = Child(c, k)
    <2>1. CASE IsObject(c)
        <3>1. ~IsArray(c)
            BY <1>15, <2>1, ChildFacts
        <3>2. u = t
            BY <1>8, <3>1
        <3>3. /\ IsJson(e) /\ IsObject(e) /\ Edit(e, t, back) = c
              /\ \A k : k # t => Child(e, k) = Child(c, k)
            BY <1>1, <1>3, <1>4, <1>12, <1>15, <2>1, ObjectEditUndone DEF e
        <3> QED
            BY <1>1, <3>2, <3>3
    <2>2. CASE IsArray(c)
        <3>1. ~IsObject(c)
            BY <1>15, <2>2, ChildFacts
        <3>2. op.op = "add" /\ t = "-" => Len(c.arr) < Len(DecimalTokens)
            BY <1>7, <2>2
        <3>3. /\ IsJson(e) /\ BackToken(c, t, op) \in Token
              /\ Edit(e, BackToken(c, t, op), back) = c
            BY <1>1, <1>3, <1>4, <1>12, <1>15, <2>2, <3>2, ArrayEditUndone DEF e
        <3> QED
            BY <3>1, <3>3 DEF u
    <2> QED
        BY <1>11, <2>1, <2>2
<1>17. IsJson(next) /\ GetValue(next, p) = e /\ Rewritten(next, p, c) = doc
    <2>1. /\ IsJson(Rewritten(doc, p, e)) /\ GetValue(Rewritten(doc, p, e), p) = e
          /\ \A y : Rewritten(Rewritten(doc, p, e), p, y) = Rewritten(doc, p, y)
        BY <1>14, <1>16 DEF PointerLaws, c
    <2> QED
        BY <1>3, <1>15, <2>1
<1>18. ApplySingle(next, back) = doc
    <2>1. back.path # << >> /\ Front(back.path) = p /\ Last(back.path) = u
        BY <1>1, <1>13, <1>16, LastTokenFacts
    <2>2. ApplySingle(next, back) = EditAt(next, back.path, back)
        BY <2>1 DEF ApplySingle
    <2>3. EditAt(next, back.path, back) = Rewritten(next, p, c)
        BY <1>14, <1>16, <1>17, <2>1 DEF EditAt
    <2> QED
        BY <1>17, <2>2, <2>3
<1>19. ConcretePath(doc, op) \in Pointer \ {<< >>}
    BY <1>1, <1>9, <1>16, AppendProperties DEF Pointer
<1>20. ASSUME IsObject(doc)
       PROVE  /\ IsObject(next)
              /\ \A k : k # ConcretePath(doc, op)[1] => Child(next, k) = Child(doc, k)
    <2>1. CASE p = << >>
        <3>1. c = doc /\ next = e
            BY <1>3, <2>1, GetValueSteps, RewrittenAtRoot DEF c
        <3>2. u = t /\ Append(p, u)[1] = u
            <4>1. ~IsArray(c)
                BY <1>15, <1>20, <3>1, ChildFacts
            <4>2. Append(<< >>, u)[1] = u
                OBVIOUS
            <4> QED
                BY <1>8, <2>1, <4>1, <4>2
        <3> QED
            BY <1>9, <1>16, <1>20, <3>1, <3>2
    <2>2. CASE p # << >>
        <3> DEFINE first == p[1]
        <3>1. PICK inner : next = WithChild(doc, first, inner)
            BY <1>1, <1>3, <2>2, RewrittenAhead
        <3>2. Append(p, u)[1] = first
            <4>1. Len(p) \in Nat \ {0}
                BY <1>1, <2>2, EmptySeq DEF Pointer
            <4>2. \A i \in 1..Len(p) : Append(p, u)[i] = p[i]
                BY <1>1, <1>16, AppendProperties DEF Pointer
            <4> QED
                BY <4>1, <4>2
        <3> HIDE DEF first
        <3> DEFINE f == doc.obj
                   g == [f EXCEPT ![first] = inner]
        <3>3. next = Obj(g) /\ doc = Obj(f)
            BY <1>20, <3>1, ChildFacts DEF WithChild
        <3>4. PICK S : f \in [DOMAIN f -> S]
            BY <1>20, ChildFacts
        <3> HIDE DEF f
        <3>5. DOMAIN g = DOMAIN f /\ \A k : k # first /\ k \in DOMAIN f => g[k] = f[k]
            BY <3>4
        <3> HIDE DEF g
        <3>6. ASSUME NEW h, NEW k
              PROVE  Child(Obj(h), k) = IF k \in DOMAIN h THEN h[k] ELSE Failed
            BY ConstructorFacts DEF Child
        <3>7. \A k : k # first => Child(Obj(g), k) = Child(Obj(f), k)
            BY <3>5, <3>6
        <3>8. IsObject(next)
            BY <3>3, ConstructorFacts
        <3> QED
            BY <1>9, <3>2, <3>3, <3>7, <3>8
    <2> QED
        BY <2>1, <2>2
<1> QED
    BY <1>17, <1>18, <1>19, <1>20 DEF next, back
-----------------------------------------------------------------------------
(* The loop.                                                                *)

LEMMA ApplyPatchIsFold ==
    ASSUME NEW doc, NEW ops, ops # << >>
    PROVE  ApplyPatch(doc, ops) = Applied(doc, ops)
BY DEF ApplyPatch, Applied, PatchTurn, FoldLeft, MapThenFoldSet

LEMMA OperationsApplicable ==
    ASSUME NEW op \in Operations
    PROVE  Applicable(op)
<1>1. IsOperation(op, JsonValue) /\ ClosedUnderMembers(JsonValue)
    BY PatchAssumption
<1> QED
    BY <1>1 DEF Applicable, IsOperation, Writes, Kinds, Pointer, Token, IsJson

\* The documents are JSON, and there is an inverse and a changed path for each
\* operation consumed.
PatchShape ==
    /\ IsJson(document) /\ IsJson(working)
    /\ status \in {"running", "raised"}
    /\ patch \in Seq(Operations)
    /\ \E S : inverse_operations \in Seq(S)
    /\ changed_paths \in Seq(Pointer)

\* The inverses go back from the working copy to the document.
InversesGoBack ==
    status = "running" =>
        /\ Applied(working, inverse_operations) = document
        /\ Len(inverse_operations) = Len(patch)

\* The operations consumed go forward from the document to the working copy, and
\* nowhere once one of them has failed.
PatchGoesForward ==
    /\ Applied(document, patch) = IF status = "running" THEN working ELSE Failed
    /\ status = "raised" => patch # << >>

\* Every member of the root that is not named by a changed path is as it was.
PathsCover ==
    << >> \notin Range(changed_paths) /\ IsObject(document) =>
        /\ IsObject(working)
        /\ \A k : \/ Child(working, k) = Child(document, k)
                  \/ \E i \in DOMAIN changed_paths : changed_paths[i][1] = k

PatchInv == PatchShape /\ InversesGoBack /\ PatchGoesForward /\ PathsCover

LEMMA PatchInitInv == PatchInit => PatchInv
<1> SUFFICES ASSUME PatchInit
             PROVE  PatchInv
    OBVIOUS
<1> USE DEF PatchInit
<1>1. IsJson(document)
    BY PatchAssumption DEF IsJson
<1>2. << >> \in Seq(Operations) /\ << >> \in Seq(Pointer) /\ << >> \in Seq({})
    OBVIOUS
<1>3. PatchShape
    BY <1>1, <1>2 DEF PatchShape
<1>4. InversesGoBack
    BY AppliedNone DEF InversesGoBack
<1>5. PatchGoesForward
    BY AppliedNone DEF PatchGoesForward
<1>6. PathsCover
    BY DEF PathsCover
<1> QED
    BY <1>3, <1>4, <1>5, <1>6 DEF PatchInv

LEMMA ApplyOperationInv ==
    ASSUME PatchInv, NEW op \in Operations, ApplyOperation(op)
    PROVE  PatchInv'
<1> DEFINE next == ApplySingle(working, op)
           back == InverseOf(working, op)
           path == ConcretePath(working, op)
<1>1. /\ status = "running" /\ HasToken(working, op) /\ next # Failed
      /\ patch' = Append(patch, op) /\ working' = next
      /\ inverse_operations' = <<back>> \o inverse_operations
      /\ changed_paths' = Append(changed_paths, path)
      /\ document' = document /\ status' = status
    BY DEF ApplyOperation
<1>2. /\ IsJson(document) /\ IsJson(working) /\ patch \in Seq(Operations)
      /\ changed_paths \in Seq(Pointer)
    BY DEF PatchInv, PatchShape
<1>3. PICK S : inverse_operations \in Seq(S)
    BY DEF PatchInv, PatchShape
<1>4. Applicable(op)
    BY OperationsApplicable
<1>5. /\ IsJson(next) /\ ApplySingle(next, back) = working /\ path \in Pointer
      /\ path # << >> /\ IsObject(working) =>
            /\ IsObject(next)
            /\ \A k : k # path[1] => Child(next, k) = Child(working, k)
    <2>1. CASE op.path = << >>
        <3>1. IsJson(next) /\ ApplySingle(next, back) = working /\ path = << >>
            BY <1>1, <1>2, <1>4, <2>1, OperationAtRoot
        <3> QED
            BY <3>1, EmptySeq DEF Pointer
    <2>2. CASE op.path # << >>
        BY <1>1, <1>2, <1>4, <2>2, OperationBelow
    <2> QED
        BY <2>1, <2>2
<1> HIDE DEF next, back, path
<1> DEFINE T == S \cup {back}
<1>6. inverse_operations \in Seq(T) /\ back \in T
    BY <1>3, SeqMonotonic
<1>7. inverse_operations' \in Seq(T) /\ Len(inverse_operations') = Len(inverse_operations) + 1
    <2>1. <<back>> \in Seq(T) /\ Len(<<back>>) = 1
        BY <1>6
    <2> QED
        BY <1>1, <1>6, <2>1, ConcatProperties
<1> HIDE DEF T
<1>8. PatchShape'
    <2>1. Append(patch, op) \in Seq(Operations)
        BY <1>2, AppendProperties
    <2>2. Append(changed_paths, path) \in Seq(Pointer)
        BY <1>2, <1>5, AppendProperties
    <2> QED
        BY <1>1, <1>2, <1>5, <1>7, <2>1, <2>2 DEF PatchShape
<1>9. InversesGoBack'
    <2>1. Applied(next, <<back>> \o inverse_operations)
            = Applied(PatchTurn(next, back), inverse_operations)
        BY <1>6, AppliedFirst
    <2>2. PatchTurn(next, back) = working
        BY <1>1, <1>5 DEF PatchTurn
    <2>3. Applied(working, inverse_operations) = document
          /\ Len(inverse_operations) = Len(patch)
        BY <1>1 DEF PatchInv, InversesGoBack
    <2>4. Len(patch') = Len(patch) + 1
        BY <1>1, <1>2, AppendProperties
    <2> QED
        BY <1>1, <1>7, <2>1, <2>2, <2>3, <2>4 DEF InversesGoBack
<1>10. PatchGoesForward'
    <2>1. Applied(document, Append(patch, op)) = PatchTurn(Applied(document, patch), op)
        BY <1>2, AppliedMore
    <2>2. Applied(document, patch) = working
        BY <1>1 DEF PatchInv, PatchGoesForward
    <2>3. PatchTurn(working, op) = next
        BY <1>2, ChildFacts DEF PatchTurn, next
    <2> QED
        BY <1>1, <2>1, <2>2, <2>3 DEF PatchGoesForward
<1>11. PathsCover'
    <2>1. /\ DOMAIN changed_paths' = 1..(Len(changed_paths) + 1)
          /\ DOMAIN changed_paths = 1..Len(changed_paths) /\ Len(changed_paths) \in Nat
          /\ changed_paths'[Len(changed_paths) + 1] = path
          /\ \A i \in DOMAIN changed_paths : changed_paths'[i] = changed_paths[i]
        BY <1>1, <1>2, <1>5, AppendProperties, LenProperties
    <2> SUFFICES ASSUME << >> \notin Range(changed_paths'), IsObject(document)
                 PROVE  /\ IsObject(next)
                        /\ \A k : \/ Child(next, k) = Child(document, k)
                                  \/ \E i \in DOMAIN changed_paths' : changed_paths'[i][1] = k
        BY <1>1 DEF PathsCover
    <2>2. path # << >> /\ << >> \notin Range(changed_paths)
        BY <2>1 DEF Range
    <2>3. /\ IsObject(working)
          /\ \A k : \/ Child(working, k) = Child(document, k)
                    \/ \E i \in DOMAIN changed_paths : changed_paths[i][1] = k
        BY <2>2 DEF PatchInv, PathsCover
    <2>4. IsObject(next) /\ \A k : k # path[1] => Child(next, k) = Child(working, k)
        BY <1>5, <2>2, <2>3
    <2>5. ASSUME NEW k
          PROVE  \/ Child(next, k) = Child(document, k)
                 \/ \E i \in DOMAIN changed_paths' : changed_paths'[i][1] = k
        <3>1. CASE k = path[1]
            <4>1. Len(changed_paths) + 1 \in DOMAIN changed_paths'
                BY <2>1
            <4> QED
                BY <2>1, <3>1, <4>1
        <3>2. CASE k # path[1]
            BY <2>1, <2>3, <2>4, <3>2
        <3> QED
            BY <3>1, <3>2
    <2> QED
        BY <2>4, <2>5
<1> QED
    BY <1>8, <1>9, <1>10, <1>11 DEF PatchInv

LEMMA RaiseOnInv ==
    ASSUME PatchInv, NEW op \in Operations, RaiseOn(op)
    PROVE  PatchInv'
<1>1. /\ status = "running" /\ ApplySingle(working, op) = Failed
      /\ patch' = Append(patch, op) /\ status' = "raised"
      /\ UNCHANGED <<document, working, inverse_operations, changed_paths>>
    BY DEF RaiseOn
<1>2. IsJson(working) /\ patch \in Seq(Operations)
    BY DEF PatchInv, PatchShape
<1>3. Append(patch, op) \in Seq(Operations) /\ Append(patch, op) # << >>
    BY <1>2, AppendProperties
<1>4. PatchShape'
    BY <1>1, <1>3 DEF PatchInv, PatchShape
<1>5. InversesGoBack'
    BY <1>1 DEF InversesGoBack
<1>6. PatchGoesForward'
    <2>1. Applied(document, Append(patch, op)) = PatchTurn(Applied(document, patch), op)
        BY <1>2, AppliedMore
    <2>2. Applied(document, patch) = working
        BY <1>1 DEF PatchInv, PatchGoesForward
    <2>3. PatchTurn(working, op) = Failed
        BY <1>1 DEF PatchTurn
    <2> QED
        BY <1>1, <1>3, <2>1, <2>2, <2>3 DEF PatchGoesForward
<1>7. PathsCover'
    BY <1>1 DEF PatchInv, PathsCover
<1> QED
    BY <1>4, <1>5, <1>6, <1>7 DEF PatchInv

LEMMA PatchStutterInv == PatchInv /\ UNCHANGED patchVars => PatchInv'
BY DEF PatchInv, PatchShape, InversesGoBack, PatchGoesForward, PathsCover, patchVars

\* The inductive invariant of a patch under way, turn by turn.
LEMMA PatchInvariant == PatchSpec => []PatchInv
<1>1. PatchInv /\ [PatchNext]_patchVars => PatchInv'
    <2> SUFFICES ASSUME PatchInv, [PatchNext]_patchVars
                 PROVE  PatchInv'
        OBVIOUS
    <2>1. CASE PatchNext
        BY <2>1, ApplyOperationInv, RaiseOnInv DEF PatchNext
    <2>2. CASE UNCHANGED patchVars
        BY <2>2, PatchStutterInv
    <2> QED
        BY <2>1, <2>2
<1> QED
    BY <1>1, PatchInitInv, PTL DEF PatchSpec

\* The inverse patch of every successful prefix gives back the original, whatever the
\* documents and the operations are: at any depth, in arrays whose elements shift, over
\* keys that were overwritten and elements that were appended.
THEOREM InverseRestores == PatchSpec => []InverseUndoes
<1>1. PatchInv => InverseUndoes
    <2> SUFFICES ASSUME PatchInv, status = "running", patch # << >>
                 PROVE  ApplyPatch(working, inverse_operations) = document
        BY DEF InverseUndoes
    <2>1. Applied(working, inverse_operations) = document
          /\ Len(inverse_operations) = Len(patch)
        BY DEF PatchInv, InversesGoBack
    <2>2. Len(patch) # 0
        BY EmptySeq DEF PatchInv, PatchShape
    <2>3. inverse_operations # << >>
        BY <2>1, <2>2
    <2> QED
        BY <2>1, <2>3, ApplyPatchIsFold
<1> QED
    BY <1>1, PatchInvariant, PTL

\* The changed paths tell every member of the root object that a patch has changed.
THEOREM PathsTellChanges == PatchSpec => []ChangedPathsCover
<1>1. PatchInv => ChangedPathsCover
    <2> SUFFICES ASSUME PatchInv, << >> \notin Range(changed_paths), IsObject(document),
                        NEW key
                 PROVE  \/ GetValue(document, <<key>>) = GetValue(working, <<key>>)
                        \/ \E i \in DOMAIN changed_paths : changed_paths[i][1] = key
        BY DEF ChangedPathsCover
    <2>1. \/ Child(working, key) = Child(document, key)
          \/ \E i \in DOMAIN changed_paths : changed_paths[i][1] = key
        BY DEF PatchInv, PathsCover
    <2>2. /\ GetValue(document, <<key>>) = Child(document, key)
          /\ GetValue(working, <<key>>) = Child(working, key)
        BY GetValueSteps
    <2> QED
        BY <2>1, <2>2
<1> QED
    BY <1>1, PatchInvariant, PTL

\* The loop of apply_patch and the operator the other modules use for it agree: the
\* result of a loop that runs to its end, and the failure of one that raises.
LoopIsApplyPatch ==
    patch # << >> =>
        ApplyPatch(document, patch) = IF status = "running" THEN working ELSE Failed

THEOREM LoopAppliesPatch == PatchSpec => []LoopIsApplyPatch
<1>1. PatchInv => LoopIsApplyPatch
    BY ApplyPatchIsFold DEF PatchInv, PatchGoesForward, LoopIsApplyPatch
<1> QED
    BY <1>1, PatchInvariant, PTL

-----------------------------------------------------------------------------
(* What is recorded of a patch.                                             *)

IsSequence(s) == \E S : s \in Seq(S)

LEMMA SequencesEnclosed ==
    ASSUME NEW a, IsSequence(a), NEW b, IsSequence(b), NEW x, NEW y
    PROVE  \E S : a \in Seq(S) /\ b \in Seq(S) /\ x \in S /\ y \in S
<1>1. PICK A : a \in Seq(A)
    BY DEF IsSequence
<1>2. PICK B : b \in Seq(B)
    BY DEF IsSequence
<1> DEFINE S == A \cup B \cup {x, y}
<1>3. A \subseteq S /\ B \subseteq S /\ x \in S /\ y \in S
    OBVIOUS
<1> HIDE DEF S
<1>4. a \in Seq(S) /\ b \in Seq(S)
    BY <1>1, <1>2, <1>3, SeqMonotonic
<1> QED
    BY <1>3, <1>4

LEMMA AppendsAgree ==
    ASSUME NEW a, IsSequence(a), NEW b, IsSequence(b), NEW x, NEW y, Append(a, x) = Append(b, y)
    PROVE  a = b /\ x = y
<1>1. PICK S : a \in Seq(S) /\ b \in Seq(S) /\ x \in S /\ y \in S
    BY SequencesEnclosed
<1> QED
    BY <1>1, AppendInjective

Added(s, x) == Append(s, x)

LEMMA AddedAgree ==
    ASSUME NEW a, IsSequence(a), NEW b, IsSequence(b), NEW x, NEW y, Added(a, x) = Added(b, y)
    PROVE  a = b /\ x = y
BY AppendsAgree DEF Added

LEMMA PrependsAgree ==
    ASSUME NEW a, IsSequence(a), NEW b, IsSequence(b), NEW x, NEW y,
           Joined(<<x>>, a) = Joined(<<y>>, b)
    PROVE  a = b /\ x = y
<1>1. PICK S : a \in Seq(S) /\ b \in Seq(S) /\ x \in S /\ y \in S
    BY SequencesEnclosed
<1>2. ASSUME NEW s \in Seq(S), NEW z \in S
      PROVE  /\ Joined(<<z>>, s) # << >>
             /\ Head(Joined(<<z>>, s)) = z /\ Tail(Joined(<<z>>, s)) = s
    BY DEF Joined
<1> DEFINE left == Joined(<<x>>, a)
           right == Joined(<<y>>, b)
<1>3. Head(left) = x /\ Tail(left) = a
    BY <1>1, <1>2
<1>4. Head(right) = y /\ Tail(right) = b
    BY <1>1, <1>2
<1>5. left = right
    OBVIOUS
<1> HIDE DEF left, right
<1> QED
    BY <1>3, <1>4, <1>5

\* apply_patch with its records: of no operation, of one more, and of one.
LEMMA RecordedNone ==
    ASSUME NEW doc
    PROVE  PatchResult(doc, << >>) = Result(doc, << >>, << >>, << >>, << >>)
<1> DEFINE start == Result(doc, << >>, << >>, << >>, << >>)
<1>1. FoldOf("recorded", start, << >>) = start
    BY FoldEmpty DEF Folds
<1> QED
    BY <1>1 DEF FoldOf, PatchResult

LEMMA RecordedMore ==
    ASSUME NEW doc, NEW S, NEW ops \in Seq(S), NEW op \in S
    PROVE  PatchResult(doc, Append(ops, op)) = Recorded(PatchResult(doc, ops), op)
<1> DEFINE start == Result(doc, << >>, << >>, << >>, << >>)
<1>1. FoldOf("recorded", start, Append(ops, op))
            = Turn("recorded", FoldOf("recorded", start, ops), op)
    BY FoldAppend DEF Folds
<1> QED
    BY <1>1 DEF FoldOf, Turn, PatchResult

LEMMA RecordedOne ==
    ASSUME NEW doc, NEW op
    PROVE  PatchResult(doc, <<op>>) = Recorded(Result(doc, << >>, << >>, << >>, << >>), op)
<1> DEFINE start == Result(doc, << >>, << >>, << >>, << >>)
<1>1. FoldOf("recorded", start, <<op>>) = Turn("recorded", start, op)
    BY FoldOne DEF Folds
<1> QED
    BY <1>1 DEF FoldOf, Turn, PatchResult

IsResult(r) ==
    r = Result(r.document, r.inverse_patch, r.changed_paths, r.before_values, r.after_values)

LEMMA ResultFields ==
    ASSUME NEW d, NEW i, NEW p, NEW b, NEW a
    PROVE  /\ IsResult(Result(d, i, p, b, a))
           /\ Result(d, i, p, b, a).document = d
           /\ Result(d, i, p, b, a).inverse_patch = i
           /\ Result(d, i, p, b, a).changed_paths = p
           /\ Result(d, i, p, b, a).before_values = b
           /\ Result(d, i, p, b, a).after_values = a
BY DEF IsResult, Result

\* What is recorded of an operation on a document.
AfterValue(doc, op) ==
    Tracked(ConcretePath(doc, op), GetValue(ApplySingle(doc, op), ConcretePath(doc, op)))

\* One turn of the loop, field by field.
LEMMA RecordedFields ==
    ASSUME NEW r, IsResult(r), NEW op
    PROVE  /\ IsResult(Recorded(r, op))
           /\ Recorded(r, op).document = PatchTurn(r.document, op)
           /\ PatchTurn(r.document, op) # Failed =>
                /\ Recorded(r, op).inverse_patch
                        = Joined(<<InverseOf(r.document, op)>>, r.inverse_patch)
                /\ Recorded(r, op).changed_paths
                        = Append(r.changed_paths, ConcretePath(r.document, op))
                /\ Recorded(r, op).after_values
                        = Append(r.after_values, AfterValue(r.document, op))
<1> DEFINE d == r.document
<1>1. CASE d = Failed \/ ApplySingle(d, op) = Failed
    <2>1. PatchTurn(d, op) = Failed
        BY <1>1 DEF PatchTurn
    <2>2. Recorded(r, op) = [r EXCEPT !.document = Failed]
        BY <1>1 DEF Recorded
    <2>3. [r EXCEPT !.document = Failed]
            = Result(Failed, r.inverse_patch, r.changed_paths, r.before_values, r.after_values)
        BY DEF IsResult, Result
    <2> QED
        BY <2>1, <2>2, <2>3, ResultFields
<1>2. CASE ~(d = Failed \/ ApplySingle(d, op) = Failed)
    <2>1. PatchTurn(d, op) = ApplySingle(d, op)
        BY <1>2 DEF PatchTurn
    <2> DEFINE i == Joined(<<InverseOf(d, op)>>, r.inverse_patch)
               p == Append(r.changed_paths, ConcretePath(d, op))
               b == Append(r.before_values,
                           IF ConcretePath(d, op) = op.path
                           THEN Tracked(ConcretePath(d, op), GetValue(d, ConcretePath(d, op)))
                           ELSE Tracked(ConcretePath(d, op), Failed))
               a == Append(r.after_values, AfterValue(d, op))
    <2>2. Recorded(r, op) = Result(ApplySingle(d, op), i, p, b, a)
        BY <1>2 DEF Recorded, Result, Joined, AfterValue
    <2>3. /\ IsResult(Recorded(r, op))
          /\ Recorded(r, op).document = ApplySingle(d, op)
          /\ Recorded(r, op).inverse_patch = i
          /\ Recorded(r, op).changed_paths = p
          /\ Recorded(r, op).after_values = a
        <3> HIDE DEF i, p, b, a, d
        <3> QED
            BY <2>2, ResultFields
    <2> QED
        BY <2>1, <2>3
<1> QED
    BY <1>1, <1>2

\* The result of a patch: its document is that of the operations one after the other,
\* and there are as many inverse operations.
LEMMA ResultShape ==
    ASSUME NEW doc, NEW S, NEW ops \in Seq(S)
    PROVE  /\ IsResult(PatchResult(doc, ops))
           /\ PatchResult(doc, ops).document = Applied(doc, ops)
           /\ PatchResult(doc, ops).document # Failed =>
                /\ IsSequence(PatchResult(doc, ops).inverse_patch)
                /\ Len(PatchResult(doc, ops).inverse_patch) = Len(ops)
                /\ IsSequence(PatchResult(doc, ops).changed_paths)
                /\ IsSequence(PatchResult(doc, ops).after_values)
<1> DEFINE Shape(o) ==
            /\ IsResult(PatchResult(doc, o))
            /\ PatchResult(doc, o).document = Applied(doc, o)
            /\ PatchResult(doc, o).document # Failed =>
                 /\ IsSequence(PatchResult(doc, o).inverse_patch)
                 /\ Len(PatchResult(doc, o).inverse_patch) = Len(o)
                 /\ IsSequence(PatchResult(doc, o).changed_paths)
                 /\ IsSequence(PatchResult(doc, o).after_values)
           A == {o \in Seq(S) : Shape(o)}
<1>1. << >> \in A
    <2>1. IsSequence(<< >>) /\ Len(<< >>) = 0 /\ << >> \in Seq(S)
        BY DEF IsSequence
    <2>2. Shape(<< >>)
        BY <2>1, RecordedNone, AppliedNone, ResultFields
    <2> QED
        BY <2>1, <2>2
<1>2. ASSUME NEW s \in Seq(S), NEW op \in S, s \in A
      PROVE  Append(s, op) \in A
    <2> DEFINE r == PatchResult(doc, s)
               more == PatchResult(doc, Append(s, op))
               longer == Append(s, op)
    <2>0. Shape(s)
        BY <1>2
    <2>1. more = Recorded(r, op) /\ Applied(doc, longer) = PatchTurn(Applied(doc, s), op)
        BY RecordedMore, AppliedMore
    <2>2. longer \in Seq(S) /\ Len(longer) = Len(s) + 1 /\ Len(s) \in Nat
        BY AppendProperties, LenProperties
    <2>3. IsResult(r) /\ r.document = Applied(doc, s)
        BY <2>0
    <2>4. IsResult(more) /\ more.document = Applied(doc, longer)
        <3> HIDE DEF r, more, longer
        <3> QED
            BY <2>1, <2>3, RecordedFields
    <2>5. ASSUME more.document # Failed
          PROVE  /\ IsSequence(more.inverse_patch)
                 /\ Len(more.inverse_patch) = Len(longer)
                 /\ IsSequence(more.changed_paths)
                 /\ IsSequence(more.after_values)
        <3>1. r.document # Failed
            BY <2>1, <2>3, <2>4, <2>5 DEF PatchTurn
        <3>2. /\ IsSequence(r.inverse_patch) /\ Len(r.inverse_patch) = Len(s)
              /\ IsSequence(r.changed_paths) /\ IsSequence(r.after_values)
            BY <2>0, <3>1
        <3> HIDE DEF r, more, longer, Shape, A
        <3>3. /\ more.inverse_patch = Joined(<<InverseOf(r.document, op)>>, r.inverse_patch)
              /\ more.changed_paths = Append(r.changed_paths, ConcretePath(r.document, op))
              /\ more.after_values = Append(r.after_values, AfterValue(r.document, op))
            BY <2>1, <2>3, <2>4, <2>5, RecordedFields
        <3>4. \A t, x : IsSequence(t) => IsSequence(Append(t, x))
            <4> SUFFICES ASSUME NEW t, NEW x, IsSequence(t)
                         PROVE  IsSequence(Append(t, x))
                OBVIOUS
            <4>1. PICK T : t \in Seq(T) /\ x \in T
                BY SequencesEnclosed
            <4>2. Append(t, x) \in Seq(T)
                BY <4>1, AppendProperties
            <4> QED
                BY <4>2 DEF IsSequence
        <3>5. \A t, x : IsSequence(t) =>
                    IsSequence(Joined(<<x>>, t)) /\ Len(Joined(<<x>>, t)) = Len(t) + 1
            <4> SUFFICES ASSUME NEW t, NEW x, IsSequence(t)
                         PROVE  /\ IsSequence(Joined(<<x>>, t))
                                /\ Len(Joined(<<x>>, t)) = Len(t) + 1
                OBVIOUS
            <4>1. PICK T : t \in Seq(T) /\ x \in T
                BY SequencesEnclosed
            <4>2. Joined(<<x>>, t) \in Seq(T) /\ Len(Joined(<<x>>, t)) = Len(t) + 1
                BY <4>1 DEF Joined
            <4> QED
                BY <4>2 DEF IsSequence
        <3> QED
            BY <2>2, <3>2, <3>3, <3>4, <3>5
    <2>6. Shape(longer)
        <3>1. more = PatchResult(doc, longer)
            OBVIOUS
        <3> HIDE DEF r, more, longer
        <3> QED
            BY <2>4, <2>5, <3>1
    <2> QED
        BY <2>2, <2>6
<1>3. ops \in A
    <2> HIDE DEF A
    <2> QED
        BY <1>1, <1>2, AppendInduct
<1> QED
    BY <1>3

\* A patch whose operations have their tokens: so have those before the last, and so
\* has the last.
LEMMA TokensSufficeMore ==
    ASSUME NEW doc, NEW S, NEW ops \in Seq(S), NEW op \in S, TokensSuffice(doc, Append(ops, op))
    PROVE  TokensSuffice(doc, ops) /\ HasToken(PatchResult(doc, ops).document, op)
<1> DEFINE longer == Append(ops, op)
           n == Len(ops)
<1>0. /\ n \in Nat /\ longer \in Seq(S) /\ Len(longer) = n + 1
      /\ longer[n + 1] = op /\ \A k \in 1..n : longer[k] = ops[k]
      /\ DOMAIN longer = 1..(n + 1) /\ DOMAIN ops = 1..n
    BY AppendProperties, LenProperties
<1> HIDE DEF longer, n
<1>1. ASSUME NEW m \in 0..n
      PROVE  SubSeq(longer, 1, m) = SubSeq(ops, 1, m)
    <2> DEFINE x == SubSeq(longer, 1, m)
               y == SubSeq(ops, 1, m)
    <2>0. m \in Int /\ 1 \in Int /\ 1 <= m + 1 /\ m <= Len(longer) /\ m <= Len(ops) /\ (m - 1) + 1 = m
        BY <1>0 DEF n
    <2>1. x \in Seq(S) /\ Len(x) = m - 1 + 1 /\ \A j \in 1..(m - 1 + 1) : x[j] = longer[1 + j - 1]
        BY <1>0, <2>0, SliceFacts
    <2>2. y \in Seq(S) /\ Len(y) = m - 1 + 1 /\ \A j \in 1..(m - 1 + 1) : y[j] = ops[1 + j - 1]
        BY <1>0, <2>0, SliceFacts
    <2> HIDE DEF x, y
    <2>3. \A j \in 1..Len(x) : x[j] = y[j]
        BY <1>0, <2>0, <2>1, <2>2
    <2>4. x = y
        BY <2>1, <2>2, <2>3, SeqEqual
    <2> QED
        BY <2>4 DEF x, y
<1>2. \A i \in 1..(n + 1) : HasToken(PatchResult(doc, SubSeq(longer, 1, i - 1)).document, longer[i])
    BY <1>0 DEF TokensSuffice, longer
<1>3. ASSUME NEW i \in DOMAIN ops
      PROVE  HasToken(PatchResult(doc, SubSeq(ops, 1, i - 1)).document, ops[i])
    <2>1. i \in 1..(n + 1) /\ i - 1 \in 0..n /\ longer[i] = ops[i]
        BY <1>0
    <2> QED
        BY <1>1, <1>2, <2>1
<1>4. HasToken(PatchResult(doc, ops).document, op)
    <2>1. n + 1 \in 1..(n + 1) /\ (n + 1) - 1 = n /\ n \in 0..n
        BY <1>0
    <2>2. HasToken(PatchResult(doc, SubSeq(longer, 1, n)).document, op)
        BY <1>0, <1>2, <2>1
    <2>3. SubSeq(ops, 1, n) = ops
        BY SubSeqFull DEF n
    <2> QED
        BY <1>1, <2>1, <2>2, <2>3
<1> QED
    BY <1>3, <1>4 DEF TokensSuffice

LEMMA OperationUndone ==
    ASSUME NEW doc, IsJson(doc), NEW op, Applicable(op), HasToken(doc, op),
           ApplySingle(doc, op) # Failed
    PROVE  /\ IsJson(ApplySingle(doc, op))
           /\ ApplySingle(ApplySingle(doc, op), InverseOf(doc, op)) = doc
<1>1. CASE op.path = << >>
    BY <1>1, OperationAtRoot
<1>2. CASE op.path # << >>
    BY <1>2, OperationBelow
<1> QED
    BY <1>1, <1>2

\* The inverse recorded for a patch takes back what the patch has made.
LEMMA PatchUndone ==
    ASSUME NEW doc, IsJson(doc), NEW S, \A op \in S : Applicable(op), NEW ops \in Seq(S),
           TokensSuffice(doc, ops), PatchResult(doc, ops).document # Failed
    PROVE  /\ IsJson(PatchResult(doc, ops).document)
           /\ Applied(PatchResult(doc, ops).document, PatchResult(doc, ops).inverse_patch) = doc
<1> DEFINE Undone(o) ==
            TokensSuffice(doc, o) /\ PatchResult(doc, o).document # Failed =>
                /\ IsJson(PatchResult(doc, o).document)
                /\ Applied(PatchResult(doc, o).document, PatchResult(doc, o).inverse_patch) = doc
           A == {o \in Seq(S) : Undone(o)}
<1>1. << >> \in A
    <2>1. Undone(<< >>)
        BY RecordedNone, AppliedNone, ResultFields
    <2>2. << >> \in Seq(S)
        OBVIOUS
    <2> QED
        BY <2>1, <2>2
<1>2. ASSUME NEW s \in Seq(S), NEW op \in S, s \in A
      PROVE  Append(s, op) \in A
    <2> DEFINE longer == Append(s, op)
               r == PatchResult(doc, s)
               more == PatchResult(doc, longer)
    <2>0. Undone(s) /\ longer \in Seq(S)
        BY <1>2, AppendProperties
    <2>1. more = Recorded(r, op)
        BY RecordedMore
    <2>2. IsResult(r)
        BY ResultShape
    <2>3. ASSUME TokensSuffice(doc, longer), more.document # Failed
          PROVE  IsJson(more.document) /\ Applied(more.document, more.inverse_patch) = doc
        <3> DEFINE d == r.document
                   back == InverseOf(d, op)
        <3>1. TokensSuffice(doc, s) /\ HasToken(d, op)
            BY <2>3, TokensSufficeMore
        <3>2. more.document = PatchTurn(d, op)
            <4> HIDE DEF r, more
            <4> QED
                BY <2>1, <2>2, RecordedFields
        <3>3. d # Failed /\ more.document = ApplySingle(d, op)
            BY <2>3, <3>2 DEF PatchTurn
        <3>4. IsJson(d) /\ Applied(d, r.inverse_patch) = doc
            BY <2>0, <3>1, <3>3
        <3>5. more.inverse_patch = Joined(<<back>>, r.inverse_patch)
            <4> HIDE DEF r, more
            <4> QED
                BY <2>1, <2>2, <2>3, <3>2, RecordedFields
        <3>6. IsSequence(r.inverse_patch)
            BY <3>3, ResultShape
        <3> HIDE DEF r, more, longer
        <3>7. IsJson(more.document) /\ ApplySingle(more.document, back) = d
            BY <2>3, <3>1, <3>3, <3>4, OperationUndone
        <3>8. PatchTurn(more.document, back) = d
            BY <2>3, <3>7 DEF PatchTurn
        <3> HIDE DEF back, d
        <3>9. PICK T : r.inverse_patch \in Seq(T) /\ back \in T
            BY <3>6, SequencesEnclosed
        <3>10. Applied(more.document, <<back>> \o r.inverse_patch) = Applied(d, r.inverse_patch)
            BY <3>8, <3>9, AppliedFirst
        <3> QED
            BY <3>4, <3>5, <3>7, <3>10 DEF Joined
    <2>4. Undone(longer)
        <3> HIDE DEF r, longer
        <3> QED
            BY <2>3
    <2> QED
        BY <2>0, <2>4
<1>3. ops \in A
    <2> HIDE DEF A
    <2> QED
        BY <1>1, <1>2, AppendInduct
<1> QED
    BY <1>3

-----------------------------------------------------------------------------
(* What is recorded of a patch tells its outcome.                           *)

\* A container after an add or a replace, told from the token it reports.
Written(c, kind, u, x) ==
    IF IsObject(c) THEN Obj(Put(c.obj, u, x))
    ELSE IF kind = "add" THEN Arr(InsertAt(c.arr, Place(u), x))
    ELSE Arr(ReplaceAt(c.arr, Place(u), x))

LEMMA ObjectEditWrites ==
    ASSUME NEW c, IsJson(c), IsObject(c), NEW t \in Token, NEW op, Writes(op),
           op.op # "remove", Edit(c, t, op) # Failed
    PROVE  /\ IsJson(Edit(c, t, op))
           /\ Edit(c, t, op) = Written(c, op.op, t, op.value)
           /\ Child(Edit(c, t, op), t) = op.value
<1> DEFINE f == c.obj
           x == op.value
           g == Put(f, t, x)
<1>1. PICK S : AllJson(S) /\ f \in [DOMAIN f -> S]
    BY ChildFacts
<1>2. op.op \in Kinds /\ Edit(c, t, op) = EditObject(f, t, op)
    <2>1. ~IsArray(c)
        BY ChildFacts
    <2> QED
        BY <2>1 DEF Writes, Edit
<1>3. Edit(c, t, op) = Obj(g)
    <2> HIDE DEF f, g
    <2>1. op.op = "add" => EditObject(f, t, op) = Obj(Put(f, t, op.value))
        BY <1>1, <1>2, EditObjectFacts
    <2>2. op.op = "replace" /\ t \in DOMAIN f => EditObject(f, t, op) = Obj(Put(f, t, op.value))
        BY <1>1, <1>2, EditObjectFacts
    <2>3. op.op # "add" /\ t \notin DOMAIN f => EditObject(f, t, op) = Failed
        BY <1>1, <1>2, EditObjectFacts
    <2> QED
        BY <1>2, <2>1, <2>2, <2>3 DEF Kinds, g
<1>4. t \in DOMAIN g /\ g[t] = x
    BY DEF Put
<1>5. Child(Obj(g), t) = x
    <2> HIDE DEF g
    <2> QED
        BY <1>4, ConstructorFacts DEF Child
<1>6. IsJson(Obj(g))
    <2>1. IsJson(x)
        BY DEF Writes
    <2> HIDE DEF f, x
    <2>2. g \in [DOMAIN f \cup {t} -> S \cup {x}] /\ AllJson(S \cup {x})
        BY <1>1, <2>1, PutFacts DEF AllJson
    <2> HIDE DEF g
    <2> QED
        BY <2>2, JsonContainer
<1> QED
    BY <1>3, <1>5, <1>6 DEF Written

LEMMA ArrayEditWrites ==
    ASSUME NEW c, IsJson(c), IsArray(c), NEW t \in Token, NEW op, Writes(op),
           op.op # "remove", op.op = "add" /\ t = "-" => Len(c.arr) < Len(DecimalTokens),
           Edit(c, t, op) # Failed
    PROVE  /\ IsJson(Edit(c, t, op))
           /\ Edit(c, t, op) = Written(c, op.op, BackToken(c, t, op), op.value)
           /\ Child(Edit(c, t, op), BackToken(c, t, op)) = op.value
<1> DEFINE s == c.arr
           n == Len(s)
           u == BackToken(c, t, op)
           x == op.value
           T(S) == S \cup {x}
<1>1. PICK S : AllJson(S) /\ s \in Seq(S)
    BY ChildFacts
<1>2. n \in Nat /\ ~IsObject(c) /\ Len(s) = n
    BY ChildFacts
<1>3. op.op \in Kinds /\ Edit(c, t, op) = EditArray(s, t, op) /\ IsJson(x)
    BY <1>2 DEF Writes, Edit
<1>4. AllJson(T(S)) /\ s \in Seq(T(S)) /\ x \in T(S)
    BY <1>1, <1>3, SeqMonotonic DEF AllJson
<1>5. op.op = "add" /\ t = "-" => n < Len(DecimalTokens) /\ u = TokenOf(n)
    BY DEF BackToken
<1>6. ~(op.op = "add" /\ t = "-") => u = t
    BY DEF BackToken
<1>7. Written(c, op.op, u, x)
            = IF op.op = "add" THEN Arr(InsertAt(s, Place(u), x)) ELSE Arr(ReplaceAt(s, Place(u), x))
    BY <1>2 DEF Written
<1> HIDE DEF n, u, T
<1>8. ASSUME NEW r \in Seq(T(S)), NEW k \in 1..Len(r), r[k] = x, k = Place(u)
      PROVE  IsJson(Arr(r)) /\ Child(Arr(r), u) = x
    <2>1. Arr(r).arr = r /\ IsArray(Arr(r)) /\ IsJson(Arr(r))
        BY <1>4, ConstructorFacts, JsonContainer
    <2>2. IntOf(u) \in 0..(Len(r) - 1) /\ IntOf(u) + 1 = k
        BY <1>8, TokenFacts, LenProperties DEF Place
    <2> DEFINE v == Arr(r)
    <2> HIDE DEF v
    <2>3. IsArray(v) /\ IsJson(v) /\ v.arr = r
        BY <2>1 DEF v
    <2>4. Child(v, u) = v.arr[IntOf(u) + 1]
        BY <2>2, <2>3, ChildFacts
    <2> QED
        BY <1>8, <2>1, <2>2, <2>3, <2>4 DEF v
<1>9. CASE op.op = "replace"
    <2> DEFINE i == Place(t)
               r == ReplaceAt(s, i, x)
    <2>1. i \in 1..n /\ Edit(c, t, op) = Arr(r)
        <3> HIDE DEF i, s, x
        <3>1. EditArray(s, t, op) = IF Place(t) \in 1..n
                                    THEN Arr(ReplaceAt(s, Place(t), op.value)) ELSE Failed
            BY <1>2, <1>3, <1>9, EditArrayFacts
        <3> QED
            BY <1>3, <3>1 DEF i, x
    <2>2. u = t
        BY <1>6, <1>9
    <2>3. r \in Seq(T(S)) /\ Len(r) = Len(s) /\ r[i] = x
        <3> HIDE DEF i, s, x
        <3>1. i \in 1..Len(s)
            BY <1>2, <2>1
        <3>2. r \in Seq(T(S)) /\ Len(r) = Len(s) /\ DOMAIN s = 1..Len(s)
            BY <1>4, <3>1, ExceptSeq, LenProperties DEF ReplaceAt
        <3> QED
            BY <3>1, <3>2 DEF ReplaceAt
    <2>4. IsJson(Arr(r)) /\ Child(Arr(r), u) = x
        <3> HIDE DEF r, s, x
        <3> QED
            BY <1>2, <1>8, <2>1, <2>2, <2>3
    <2> QED
        BY <1>7, <1>9, <2>1, <2>2, <2>4 DEF u
<1>10. CASE op.op = "add"
    <2> DEFINE k == Slot(t, n)
               r == InsertAt(s, k, x)
    <2>1. k \in 1..(n + 1) /\ Edit(c, t, op) = Arr(r)
        <3> HIDE DEF s, x, k
        <3>1. EditArray(s, t, op) = IF Slot(t, n) \in 1..(n + 1)
                                    THEN Arr(InsertAt(s, Slot(t, n), op.value)) ELSE Failed
            BY <1>2, <1>3, <1>10, EditArrayFacts
        <3> QED
            BY <1>3, <3>1 DEF k, x
    <2>2. Place(u) = k
        <3>1. CASE t = "-"
            <4>1. u = TokenOf(n) /\ n < Len(DecimalTokens)
                BY <1>5, <1>10, <3>1
            <4>2. TokenOf(n) \in Token /\ IntOf(TokenOf(n)) = n
                BY <1>2, <4>1, TokenFacts
            <4> QED
                BY <3>1, <4>1, <4>2 DEF Place, Slot
        <3>2. CASE t # "-"
            BY <1>6, <3>2 DEF Place, Slot
        <3> QED
            BY <3>1, <3>2
    <2> HIDE DEF k, s, x
    <2>3. k \in 1..(Len(s) + 1)
        BY <1>2, <2>1
    <2>4. r \in Seq(T(S)) /\ Len(r) = Len(s) + 1 /\ r[k] = x
        <3>1. /\ r \in Seq(T(S)) /\ Len(r) = Len(s) + 1
              /\ \A j \in 1..(Len(s) + 1) :
                    r[j] = IF j < k THEN s[j] ELSE IF j = k THEN x ELSE s[j - 1]
            <4>1. IsInsertion(r, s, k, x, T(S))
                BY <1>4, <2>3, InsertFacts
            <4> QED
                BY <4>1 DEF IsInsertion
        <3> HIDE DEF r
        <3> QED
            BY <2>3, <3>1
    <2>5. k \in 1..Len(r)
        BY <2>3, <2>4
    <2>6. IsJson(Arr(r)) /\ Child(Arr(r), u) = x
        <3> HIDE DEF r
        <3> QED
            BY <1>8, <2>2, <2>4, <2>5
    <2> QED
        BY <1>7, <1>10, <2>1, <2>2, <2>6 DEF u, x
<1> QED
    BY <1>3, <1>9, <1>10 DEF Kinds

\* What an add or a replace below the root makes of a document.
LEMMA OperationWrites ==
    ASSUME NEW doc, IsJson(doc), NEW op, Applicable(op), HasToken(doc, op), op.path # << >>,
           op.op # "remove", ApplySingle(doc, op) # Failed,
           NEW p, p = Front(op.path), NEW c, c = GetValue(doc, p),
           NEW u, u = BackToken(c, Last(op.path), op)
    PROVE  /\ p \in Pointer /\ u \in Token /\ ConcretePath(doc, op) = Append(p, u)
           /\ IsObject(c) \/ IsArray(c)
           /\ ApplySingle(doc, op) = Rewritten(doc, p, Written(c, op.op, u, op.value))
           /\ GetValue(ApplySingle(doc, op), Append(p, u)) = op.value
<1> DEFINE t == Last(op.path)
           e == Edit(c, t, op)
           next == ApplySingle(doc, op)
<1>1. p \in Pointer /\ t \in Token /\ op.path = Append(p, t)
    BY LastTokenFacts DEF Applicable
<1>2. e # Failed /\ next = Rewritten(doc, p, e)
    BY DEF ApplySingle, EditAt
<1>3. IsObject(c) \/ IsArray(c)
    BY <1>2 DEF Edit
<1>4. Writes(op) /\ op.op \in Kinds
    BY DEF Applicable, Writes
<1>5. op.op = "add" /\ t = "-" /\ IsArray(c) => Len(c.arr) < Len(DecimalTokens)
    BY DEF HasToken
<1>6. u = IF op.op = "add" /\ IsArray(c) /\ t = "-" THEN TokenOf(Len(c.arr)) ELSE t
    BY DEF BackToken
<1>7. ConcretePath(doc, op) = IF op.op = "add" /\ IsArray(c) /\ t = "-" THEN Append(p, u) ELSE op.path
    BY DEF ConcretePath, BackToken
<1>8. ConcretePath(doc, op) = Append(p, u)
    <2>1. CASE op.op = "add" /\ IsArray(c) /\ t = "-"
        BY <1>7, <2>1
    <2>2. CASE ~(op.op = "add" /\ IsArray(c) /\ t = "-")
        BY <1>1, <1>6, <1>7, <2>2
    <2> QED
        BY <2>1, <2>2
<1>9. u = BackToken(c, t, op)
    OBVIOUS
<1> HIDE DEF t
<1>10. PointerLaws(doc, p) /\ c # Failed
    BY <1>1, <1>3, PointersReadWhatTheyWrite, ConstructorFacts
<1>11. IsJson(c)
    BY <1>10 DEF PointerLaws
<1>12. /\ u \in Token /\ IsJson(e)
       /\ e = Written(c, op.op, u, op.value) /\ Child(e, u) = op.value
    <2>1. CASE IsObject(c)
        <3>1. ~IsArray(c)
            BY <1>11, <2>1, ChildFacts
        <3>2. u = t
            BY <1>6, <3>1
        <3>3. IsJson(e) /\ e = Written(c, op.op, t, op.value) /\ Child(e, t) = op.value
            BY <1>1, <1>2, <1>4, <1>11, <2>1, ObjectEditWrites
        <3> QED
            BY <1>1, <3>2, <3>3
    <2>2. CASE IsArray(c)
        <3>1. op.op = "add" /\ t = "-" => Len(c.arr) < Len(DecimalTokens)
            BY <1>5, <2>2
        <3>2. /\ IsJson(e) /\ e = Written(c, op.op, BackToken(c, t, op), op.value)
              /\ Child(e, BackToken(c, t, op)) = op.value
            BY <1>1, <1>2, <1>4, <1>11, <2>2, <3>1, ArrayEditWrites
        <3>3. u \in Token
            <4>1. CASE op.op = "add" /\ t = "-"
                <5>1. Len(c.arr) \in Nat
                    BY <1>11, <2>2, ChildFacts
                <5> QED
                    BY <1>6, <2>2, <3>1, <4>1, <5>1, TokenFacts
            <4>2. CASE ~(op.op = "add" /\ t = "-")
                BY <1>1, <1>6, <4>2
            <4> QED
                BY <4>1, <4>2
        <3> QED
            BY <1>9, <3>2, <3>3
    <2> QED
        BY <1>3, <2>1, <2>2
<1>13. GetValue(next, p) = e
    <2>1. GetValue(Rewritten(doc, p, e), p) = e
        BY <1>10, <1>12 DEF PointerLaws
    <2> QED
        BY <1>2, <2>1
<1>14. GetValue(next, Append(p, u)) = op.value
    <2>1. ASSUME NEW q \in Pointer, NEW w \in Token
          PROVE  GetValue(next, Append(q, w)) = Child(GetValue(next, q), w)
        BY GetValueSteps
    <2> QED
        BY <1>1, <1>12, <1>13, <2>1
<1> QED
    BY <1>1, <1>2, <1>3, <1>8, <1>12, <1>14

\* What an inverse tells of its operation.
LEMMA InverseTells ==
    ASSUME NEW doc, NEW op, op.op \in Kinds
    PROVE  /\ op.op = "remove" => InverseOf(doc, op).op = "add" /\ InverseOf(doc, op).path = op.path
           /\ op.op # "remove" => InverseOf(doc, op).op # "add"
           /\ op.op = "replace" => InverseOf(doc, op) = Operation("replace", op.path, GetValue(doc, op.path))
           /\ op.op = "add" /\ op.path # << >> /\ IsArray(GetValue(doc, Front(op.path)))
                => InverseOf(doc, op).op = "remove"
           /\ InverseOf(doc, op).op = "replace" => InverseOf(doc, op) = Operation("replace", op.path, GetValue(doc, op.path))
<1> DEFINE old == GetValue(doc, op.path)
           inArray == op.path # << >> /\ IsArray(GetValue(doc, Front(op.path)))
<1>1. \A kind, path, value : /\ Operation(kind, path, value).op = kind
                             /\ Operation(kind, path, value).path = path
    BY DEF Operation
<1>2. \A path : Removal(path).op = "remove"
    BY DEF Removal
<1>3. op.op = "remove" => InverseOf(doc, op) = Operation("add", op.path, old)
    BY DEF InverseOf
<1>4. op.op = "replace" => InverseOf(doc, op) = Operation("replace", op.path, old)
    BY DEF InverseOf
<1>5. op.op = "add" /\ (inArray \/ old = Failed) => InverseOf(doc, op) = Removal(ConcretePath(doc, op))
    BY DEF InverseOf
<1>6. op.op = "add" /\ ~(inArray \/ old = Failed) => InverseOf(doc, op) = Operation("replace", op.path, old)
    BY DEF InverseOf
<1> HIDE DEF old
<1>7. CASE op.op = "remove"
    BY <1>1, <1>3, <1>7
<1>8. CASE op.op = "replace"
    BY <1>1, <1>4, <1>8 DEF old
<1>9. CASE op.op = "add"
    <2>1. CASE inArray \/ old = Failed
        BY <1>2, <1>5, <1>9, <2>1
    <2>2. CASE ~(inArray \/ old = Failed)
        BY <1>1, <1>6, <1>9, <2>2 DEF old
    <2> QED
        BY <2>1, <2>2
<1> QED
    BY <1>7, <1>8, <1>9 DEF Kinds

\* Two operations of which the same is recorded, on the same document.
LEMMA OperationsAgree ==
    ASSUME NEW doc, IsJson(doc), NEW op, Applicable(op), HasToken(doc, op),
           ApplySingle(doc, op) # Failed,
           NEW alt, Applicable(alt), HasToken(doc, alt), ApplySingle(doc, alt) # Failed,
           InverseOf(doc, op) = InverseOf(doc, alt),
           ConcretePath(doc, op) = ConcretePath(doc, alt),
           AfterValue(doc, op) = AfterValue(doc, alt)
    PROVE  ApplySingle(doc, op) = ApplySingle(doc, alt)
<1>1. op.op \in Kinds /\ alt.op \in Kinds /\ op.path \in Pointer /\ alt.path \in Pointer
    BY DEF Applicable, Writes
<1>2. op.op = "remove" <=> alt.op = "remove"
    BY <1>1, InverseTells
<1>3. CASE op.op = "remove"
    <2>1. alt.op = "remove" /\ op.path = alt.path /\ op.path # << >>
        <3>1. op.path # << >>
            BY <1>3 DEF ApplySingle
        <3> QED
            BY <1>1, <1>2, <1>3, <3>1, InverseTells
    <2>2. \A c, t : Edit(c, t, op) = Edit(c, t, alt)
        BY <1>3, <2>1 DEF Edit, EditObject, EditArray
    <2> QED
        BY <2>1, <2>2 DEF ApplySingle, EditAt
<1>4. CASE op.op # "remove"
    <2>0. alt.op # "remove"
        BY <1>2, <1>4
    <2>1. GetValue(ApplySingle(doc, op), ConcretePath(doc, op))
                = GetValue(ApplySingle(doc, alt), ConcretePath(doc, op))
        BY DEF AfterValue, Tracked
    <2>2. ASSUME op.path = << >> \/ alt.path = << >>
          PROVE  op.path = << >> /\ alt.path = << >>
        <3>1. \A x : x.path = << >> => ConcretePath(doc, x) = << >>
            BY DEF ConcretePath
        <3>2. ASSUME NEW x, Applicable(x), x.path # << >>, HasToken(doc, x), x.op # "remove",
                     ApplySingle(doc, x) # Failed
              PROVE  ConcretePath(doc, x) # << >>
            <4> DEFINE p == Front(x.path)
                       c == GetValue(doc, p)
                       u == BackToken(c, Last(x.path), x)
            <4>1. p \in Pointer /\ u \in Token /\ ConcretePath(doc, x) = Append(p, u)
                BY <3>2, OperationWrites
            <4> HIDE DEF p, u
            <4> QED
                BY <4>1, AppendProperties DEF Pointer
        <3> QED
            BY <1>4, <2>0, <2>2, <3>1, <3>2
    <2>3. CASE op.path = << >>
        <3>1. alt.path = << >> /\ ConcretePath(doc, op) = << >>
            BY <2>2, <2>3 DEF ConcretePath
        <3>2. \A d : GetValue(d, << >>) = d
            BY GetValueSteps
        <3> QED
            BY <2>1, <3>1, <3>2
    <2>4. CASE op.path # << >>
        <3>0. alt.path # << >>
            BY <2>2, <2>4
        <3> DEFINE p == Front(op.path)
                   q == Front(alt.path)
                   c == GetValue(doc, p)
                   d == GetValue(doc, q)
                   u == BackToken(c, Last(op.path), op)
                   w == BackToken(d, Last(alt.path), alt)
        <3>1. /\ p \in Pointer /\ u \in Token /\ ConcretePath(doc, op) = Append(p, u)
              /\ IsObject(c) \/ IsArray(c)
              /\ ApplySingle(doc, op) = Rewritten(doc, p, Written(c, op.op, u, op.value))
              /\ GetValue(ApplySingle(doc, op), Append(p, u)) = op.value
            BY <1>4, <2>4, OperationWrites
        <3>2. /\ q \in Pointer /\ w \in Token /\ ConcretePath(doc, alt) = Append(q, w)
              /\ ApplySingle(doc, alt) = Rewritten(doc, q, Written(d, alt.op, w, alt.value))
              /\ GetValue(ApplySingle(doc, alt), Append(q, w)) = alt.value
            BY <2>0, <3>0, OperationWrites
        <3>3. IsArray(c) /\ c = d => op.op = alt.op
            <4>1. op.op = "add" /\ IsArray(c) => InverseOf(doc, op).op = "remove"
                BY <1>1, <2>4, InverseTells
            <4>2. alt.op = "add" /\ IsArray(d) => InverseOf(doc, alt).op = "remove"
                BY <1>1, <3>0, InverseTells
            <4>3. op.op = "replace" => InverseOf(doc, op).op = "replace"
                BY <1>1, InverseTells DEF Operation
            <4>4. alt.op = "replace" => InverseOf(doc, alt).op = "replace"
                BY <1>1, InverseTells DEF Operation
            <4> HIDE DEF c, d
            <4> QED
                BY <1>1, <1>4, <2>0, <4>1, <4>2, <4>3, <4>4 DEF Kinds
        <3> HIDE DEF u, w
        <3>4. p = q /\ u = w
            <4> HIDE DEF p, q, c, d
            <4>1. Append(p, u) = Append(q, w)
                BY <3>1, <3>2
            <4>2. IsSequence(p) /\ IsSequence(q)
                BY <3>1, <3>2 DEF Pointer, IsSequence
            <4> QED
                BY <4>1, <4>2, AppendsAgree
        <3>5. c = d
            BY <3>4
        <3> HIDE DEF p, q, c, d
        <3>6. op.value = alt.value
            BY <2>1, <3>1, <3>2, <3>4
        <3>7. ASSUME NEW x
              PROVE  Written(c, op.op, u, x) = Written(c, alt.op, u, x)
            <4>1. CASE IsObject(c)
                BY <4>1 DEF Written
            <4>2. CASE IsArray(c)
                BY <3>3, <3>5, <4>2
            <4> QED
                BY <3>1, <4>1, <4>2
        <3> QED
            BY <3>1, <3>2, <3>4, <3>5, <3>6, <3>7
    <2> QED
        BY <2>3, <2>4
<1> QED
    BY <1>3, <1>4

\* Two patches of which the same is recorded make the same of a document.
LEMMA PatchesAgree ==
    ASSUME NEW doc, IsJson(doc), NEW S, \A op \in S : Applicable(op),
           NEW ops \in Seq(S), TokensSuffice(doc, ops), PatchResult(doc, ops).document # Failed,
           NEW alts \in Seq(S), TokensSuffice(doc, alts), PatchResult(doc, alts).document # Failed,
           PatchResult(doc, ops).inverse_patch = PatchResult(doc, alts).inverse_patch,
           PatchResult(doc, ops).changed_paths = PatchResult(doc, alts).changed_paths,
           PatchResult(doc, ops).after_values = PatchResult(doc, alts).after_values
    PROVE  PatchResult(doc, ops).document = PatchResult(doc, alts).document
<1> DEFINE Good(o) == o \in Seq(S) /\ TokensSuffice(doc, o) /\ PatchResult(doc, o).document # Failed
           Same(o, a) ==
                /\ PatchResult(doc, o).inverse_patch = PatchResult(doc, a).inverse_patch
                /\ PatchResult(doc, o).changed_paths = PatchResult(doc, a).changed_paths
                /\ PatchResult(doc, o).after_values = PatchResult(doc, a).after_values
           Agrees(o) ==
                \A a : Good(o) /\ Good(a) /\ Same(o, a)
                            => PatchResult(doc, o).document = PatchResult(doc, a).document
           A == {o \in Seq(S) : Agrees(o)}
<1>1. << >> \in A
    <2>1. ASSUME NEW a, Good(<< >>), Good(a), Same(<< >>, a)
          PROVE  PatchResult(doc, << >>).document = PatchResult(doc, a).document
        <3>1. PatchResult(doc, << >>).inverse_patch = << >>
            BY RecordedNone, ResultFields
        <3>2. Len(PatchResult(doc, a).inverse_patch) = Len(a)
            BY <2>1, ResultShape
        <3>3. a = << >>
            BY <2>1, <3>1, <3>2, EmptySeq
        <3> QED
            BY <3>3
    <2>2. << >> \in Seq(S)
        OBVIOUS
    <2> QED
        BY <2>1, <2>2
<1>2. ASSUME NEW s \in Seq(S), NEW op \in S, s \in A
      PROVE  Append(s, op) \in A
    <2> DEFINE longer == Append(s, op)
               r == PatchResult(doc, s)
               more == PatchResult(doc, longer)
    <2>0. Agrees(s) /\ longer \in Seq(S)
        BY <1>2, AppendProperties
    <2>1. more = Recorded(r, op) /\ IsResult(r)
        BY RecordedMore, ResultShape
    <2>2. ASSUME NEW a, Good(longer), Good(a), Same(longer, a)
          PROVE  more.document = PatchResult(doc, a).document
        <3>1. a # << >>
            <4>1. Len(more.inverse_patch) = Len(longer)
                BY <2>0, <2>2, ResultShape
            <4>2. Len(longer) = Len(s) + 1 /\ Len(s) \in Nat
                BY AppendProperties, LenProperties
            <4>3. Len(PatchResult(doc, a).inverse_patch) = Len(a)
                BY <2>2, ResultShape
            <4>4. Len(a) # 0
                <5> HIDE DEF more, longer
                <5>1. more = PatchResult(doc, longer)
                    BY DEF more
                <5> QED
                    BY <2>2, <4>1, <4>2, <4>3, <5>1
            <4> QED
                BY <4>4
        <3>2. PICK t \in Seq(S), alt \in S : a = Append(t, alt)
            BY <2>2, <3>1, SequenceEmptyOrAppend
        <3> DEFINE ra == PatchResult(doc, t)
                   moreA == PatchResult(doc, a)
                   d == r.document
        <3>3. moreA = Recorded(ra, alt) /\ IsResult(ra)
            BY <3>2, RecordedMore, ResultShape
        <3>4. TokensSuffice(doc, s) /\ HasToken(d, op)
            BY <2>2, TokensSufficeMore
        <3>5. TokensSuffice(doc, t) /\ HasToken(ra.document, alt)
            BY <2>2, <3>2, TokensSufficeMore
        <3> HIDE DEF r, more, ra, moreA, d, longer
        <3>6. /\ more.document = PatchTurn(d, op) /\ more.document # Failed
              /\ d # Failed /\ more.document = ApplySingle(d, op)
            <4>1. more.document = PatchTurn(d, op)
                BY <2>1, RecordedFields DEF d
            <4>2. more.document # Failed
                BY <2>2 DEF more
            <4> QED
                BY <4>1, <4>2 DEF PatchTurn
        <3>7. /\ more.inverse_patch = Joined(<<InverseOf(d, op)>>, r.inverse_patch)
              /\ more.changed_paths = Append(r.changed_paths, ConcretePath(d, op))
              /\ more.after_values = Append(r.after_values, AfterValue(d, op))
            BY <2>1, <3>6, RecordedFields DEF d
        <3>8. /\ moreA.document = PatchTurn(ra.document, alt) /\ moreA.document # Failed
              /\ ra.document # Failed /\ moreA.document = ApplySingle(ra.document, alt)
            <4>1. moreA.document = PatchTurn(ra.document, alt)
                BY <3>3, RecordedFields
            <4>2. moreA.document # Failed
                BY <2>2 DEF moreA
            <4> QED
                BY <4>1, <4>2 DEF PatchTurn
        <3>9. /\ moreA.inverse_patch = Joined(<<InverseOf(ra.document, alt)>>, ra.inverse_patch)
              /\ moreA.changed_paths = Append(ra.changed_paths, ConcretePath(ra.document, alt))
              /\ moreA.after_values = Append(ra.after_values, AfterValue(ra.document, alt))
            BY <3>3, <3>8, RecordedFields
        <3>10. /\ IsSequence(r.inverse_patch) /\ IsSequence(r.changed_paths)
               /\ IsSequence(r.after_values)
            BY <3>6, ResultShape DEF r, d
        <3>11. /\ IsSequence(ra.inverse_patch) /\ IsSequence(ra.changed_paths)
               /\ IsSequence(ra.after_values)
            BY <3>8, ResultShape DEF ra
        <3>12. /\ more.inverse_patch = moreA.inverse_patch
               /\ more.changed_paths = moreA.changed_paths
               /\ more.after_values = moreA.after_values
            BY <2>2 DEF more, moreA
        <3>13. r.inverse_patch = ra.inverse_patch /\ InverseOf(d, op) = InverseOf(ra.document, alt)
            BY <3>7, <3>9, <3>10, <3>11, <3>12, PrependsAgree
        <3>14. r.changed_paths = ra.changed_paths /\ ConcretePath(d, op) = ConcretePath(ra.document, alt)
            <4> DEFINE one == r.changed_paths
                       two == ra.changed_paths
                       x == ConcretePath(d, op)
                       y == ConcretePath(ra.document, alt)
            <4>1. Added(one, x) = Added(two, y)
                BY <3>7, <3>9, <3>12 DEF Added
            <4>2. IsSequence(one) /\ IsSequence(two)
                BY <3>10, <3>11
            <4> HIDE DEF one, two, x, y
            <4>3. one = two /\ x = y
                BY <4>1, <4>2, AddedAgree
            <4> QED
                BY <4>3 DEF one, two, x, y
        <3>15. r.after_values = ra.after_values /\ AfterValue(d, op) = AfterValue(ra.document, alt)
            <4> DEFINE one == r.after_values
                       two == ra.after_values
                       x == AfterValue(d, op)
                       y == AfterValue(ra.document, alt)
            <4>1. Added(one, x) = Added(two, y)
                BY <3>7, <3>9, <3>12 DEF Added
            <4>2. IsSequence(one) /\ IsSequence(two)
                BY <3>10, <3>11
            <4> HIDE DEF one, two, x, y
            <4>3. one = two /\ x = y
                BY <4>1, <4>2, AddedAgree
            <4> QED
                BY <4>3 DEF one, two, x, y
        <3>16. d = ra.document
            <4>1. Good(s) /\ Good(t) /\ Same(s, t)
                BY <3>4, <3>5, <3>6, <3>8, <3>13, <3>14, <3>15 DEF r, ra, d
            <4>2. Agrees(s)
                BY <2>0
            <4> HIDE DEF Good, Same
            <4> QED
                BY <4>1, <4>2 DEF r, ra, d
        <3>17. IsJson(d)
            BY <3>4, <3>6, PatchUndone DEF r, d
        <3>18. Applicable(op) /\ Applicable(alt)
            OBVIOUS
        <3>19. ApplySingle(d, op) = ApplySingle(d, alt)
            BY <3>4, <3>5, <3>6, <3>8, <3>13, <3>14, <3>15, <3>16, <3>17, <3>18, OperationsAgree
        <3> QED
            BY <3>6, <3>8, <3>16, <3>19 DEF moreA
    <2>3. Agrees(longer)
        <3>1. more = PatchResult(doc, longer)
            OBVIOUS
        <3> HIDE DEF more, longer, Good, Same
        <3> QED
            BY <2>2, <3>1
    <2> QED
        BY <2>0, <2>3
<1>3. ops \in A
    <2> HIDE DEF A
    <2> QED
        BY <1>1, <1>2, AppendInduct
<1>4. Agrees(ops) /\ Good(ops) /\ Good(alts) /\ Same(ops, alts)
    BY <1>3
<1> HIDE DEF Good, Same
<1> QED
    BY <1>4

-----------------------------------------------------------------------------
(* The rows of a document.                                                  *)

\* What a patch makes of a state; replay goes past a row without one.
Effect(state, ops) == IF ops = << >> THEN state ELSE PatchResult(state, ops).document

\* A patch that writes the whole document.
RootWrite(kind, value) == <<Operation(kind, << >>, value)>>

\* The patches that rows have, stored or damaged.
RowPatches ==
    EventPatches \cup {<< >>}
        \cup {RootWrite(kind, value) : kind \in {"add", "replace"}, value \in Snapshots}

LEMMA SnapshotFacts ==
    ASSUME NEW doc \in Snapshots
    PROVE  IsJson(doc) /\ doc # Failed /\ doc # Null
<1>1. doc \in StoredValues /\ ClosedUnderMembers(StoredValues) /\ Canonical(doc)
    BY ChainAssumption
<1>2. ~IsObject(Null) /\ ~IsArray(Null)
    BY DEF IsObject, IsArray, Null
<1> QED
    BY <1>1, <1>2 DEF Canonical, IsJson

LEMMA NullFacts == Null # Failed
BY DEF Null, Failed

LEMMA OneFacts ==
    ASSUME NEW x
    PROVE  IsSequence(<<x>>) /\ Len(<<x>>) = 1 /\ <<x>> # << >> /\ <<x>>[1] = x
<1>1. <<x>> \in Seq({x})
    OBVIOUS
<1> QED
    BY <1>1 DEF IsSequence

LEMMA LengthOne ==
    ASSUME NEW s, IsSequence(s), Len(s) = 1
    PROVE  s = <<s[1]>> /\ s # << >>
<1>1. PICK S : s \in Seq(S)
    BY DEF IsSequence
<1>2. s = << >> \/ \E t \in Seq(S), x \in S : s = Append(t, x)
    BY <1>1, SequenceEmptyOrAppend
<1>3. s # << >>
    OBVIOUS
<1>4. PICK t \in Seq(S), x \in S : s = Append(t, x)
    BY <1>2, <1>3
<1>5. Len(t) = 0
    <2>1. Len(t) + 1 = 1 /\ Len(t) \in Nat
        BY <1>4, AppendProperties, LenProperties
    <2> QED
        BY <2>1
<1>6. t = << >>
    BY <1>5, EmptySeq
<1>7. s = <<x>> /\ <<x>>[1] = x
    BY <1>4, <1>6
<1> QED
    BY <1>7

LEMMA RootWriteFacts ==
    ASSUME NEW kind, NEW value
    PROVE  /\ IsSequence(RootWrite(kind, value)) /\ Len(RootWrite(kind, value)) = 1
           /\ RootWrite(kind, value) # << >>
           /\ RootWrite(kind, value)[1] = Operation(kind, << >>, value)
           /\ Operation(kind, << >>, value).op = kind
           /\ Operation(kind, << >>, value).path = << >>
           /\ Operation(kind, << >>, value).value = value
<1>1. /\ Operation(kind, << >>, value).op = kind
      /\ Operation(kind, << >>, value).path = << >>
      /\ Operation(kind, << >>, value).value = value
    BY DEF Operation
<1>2. \A x : IsSequence(<<x>>) /\ Len(<<x>>) = 1 /\ <<x>> # << >> /\ <<x>>[1] = x
    BY OneFacts
<1> QED
    BY <1>1, <1>2 DEF RootWrite

\* The result of a patch of one operation.
LEMMA OneResult ==
    ASSUME NEW doc, doc # Failed, NEW op
    PROVE  /\ PatchResult(doc, <<op>>).document = ApplySingle(doc, op)
           /\ ApplySingle(doc, op) # Failed =>
                /\ PatchResult(doc, <<op>>).inverse_patch = <<InverseOf(doc, op)>>
                /\ PatchResult(doc, <<op>>).changed_paths = <<ConcretePath(doc, op)>>
                /\ PatchResult(doc, <<op>>).after_values = <<AfterValue(doc, op)>>
<1> DEFINE r == Result(doc, << >>, << >>, << >>, << >>)
           one == PatchResult(doc, <<op>>)
<1>1. one = Recorded(r, op)
    BY RecordedOne
<1>2. /\ IsResult(r) /\ r.document = doc /\ r.inverse_patch = << >>
      /\ r.changed_paths = << >> /\ r.after_values = << >>
    BY ResultFields
<1>3. PatchTurn(doc, op) = ApplySingle(doc, op)
    BY DEF PatchTurn
<1> HIDE DEF r, one
<1>4. one.document = ApplySingle(doc, op)
    BY <1>1, <1>2, <1>3, RecordedFields
<1>5. ASSUME ApplySingle(doc, op) # Failed
      PROVE  /\ one.inverse_patch = Joined(<<InverseOf(doc, op)>>, << >>)
             /\ one.changed_paths = Append(<< >>, ConcretePath(doc, op))
             /\ one.after_values = Append(<< >>, AfterValue(doc, op))
    BY <1>1, <1>2, <1>3, <1>5, RecordedFields
<1>6. \A x : Joined(<<x>>, << >>) = <<x>> /\ Append(<< >>, x) = <<x>>
    BY DEF Joined
<1> QED
    BY <1>4, <1>5, <1>6 DEF one

LEMMA RowPatchFacts ==
    ASSUME NEW ops \in RowPatches
    PROVE  /\ ops \in Seq(Range(ops))
           /\ \A op \in Range(ops) : Applicable(op)
           /\ \A doc \in Snapshots : TokensSuffice(doc, ops)
<1>1. CASE ops \in EventPatches
    <2>1. /\ ops \in Seq(Range(ops))
          /\ \A i \in DOMAIN ops : IsOperation(ops[i], StoredValues)
          /\ \A doc \in Snapshots : TokensSuffice(doc, ops)
          /\ ClosedUnderMembers(StoredValues)
        BY <1>1, ChainAssumption
    <2>2. ASSUME NEW op, IsOperation(op, StoredValues)
          PROVE  Applicable(op)
        BY <2>1, <2>2 DEF Applicable, IsOperation, Writes, Kinds, Pointer, Token, IsJson
    <2>3. \A op \in Range(ops) : \E i \in DOMAIN ops : op = ops[i]
        BY DEF Range
    <2> QED
        BY <2>1, <2>2, <2>3
<1>2. CASE ops = << >>
    <2>1. DOMAIN ops = {} /\ ops \in Seq(Range(ops))
        BY <1>2
    <2> QED
        BY <2>1 DEF Range, TokensSuffice
<1>3. ASSUME NEW kind \in {"add", "replace"}, NEW value \in Snapshots, ops = RootWrite(kind, value)
      PROVE  /\ ops \in Seq(Range(ops))
             /\ \A op \in Range(ops) : Applicable(op)
             /\ \A doc \in Snapshots : TokensSuffice(doc, ops)
    <2> DEFINE one == Operation(kind, << >>, value)
    <2>1. ops = <<one>> /\ DOMAIN ops = {1} /\ ops[1] = one /\ one.path = << >>
        BY <1>3, RootWriteFacts DEF RootWrite
    <2>2. Range(ops) = {one} /\ ops \in Seq({one})
        BY <2>1 DEF Range
    <2>3. Applicable(one)
        <3>1. IsJson(value) /\ << >> \in Pointer
            BY SnapshotFacts DEF Pointer
        <3> QED
            BY <3>1, RootWriteFacts DEF Applicable, Writes, Kinds
    <2>4. \A doc : HasToken(doc, one)
        BY <2>1 DEF HasToken
    <2> HIDE DEF one
    <2>5. \A doc \in Snapshots : TokensSuffice(doc, ops)
        BY <2>1, <2>4 DEF TokensSuffice
    <2> QED
        BY <2>2, <2>3, <2>5
<1> QED
    BY <1>1, <1>2, <1>3 DEF RowPatches

\* What the event-chain report expects of the document is what replay makes of it.
LEMMA ExpectedDocument ==
    ASSUME NEW first \in BOOLEAN, NEW state, state # Failed, NEW event, IsSequence(event.patch)
    PROVE  Expected(first, state, event).document = Effect(state, event.patch)
<1> DEFINE ops == event.patch
           expected == Expected(first, state, event)
<1>1. ASSUME NEW kind \in {"add", "replace"}, RootReplacement(event, kind)
      PROVE  Effect(state, ops) = ops[1].value
    <2>1. Len(ops) = 1 /\ ops[1].op = kind /\ ops[1].path = << >>
        BY <1>1 DEF RootReplacement
    <2>2. ops = <<ops[1]>> /\ ops # << >>
        <3>1. IsSequence(ops)
            OBVIOUS
        <3> HIDE DEF ops
        <3> QED
            BY <2>1, <3>1, LengthOne
    <2>3. ApplySingle(state, ops[1]) = ops[1].value
        BY <2>1 DEF ApplySingle
    <2> DEFINE op == ops[1]
    <2> HIDE DEF ops
    <2>4. PatchResult(state, <<op>>).document = op.value
        <3> HIDE DEF op
        <3>1. ApplySingle(state, op) = op.value
            BY <2>3 DEF op
        <3> QED
            BY <3>1, OneResult
    <2> QED
        BY <2>2, <2>4 DEF Effect
<1>2. CASE first /\ event.event_type = "create" /\ RootReplacement(event, "add")
    <2>1. expected.document = ops[1].value
        BY <1>2 DEF Expected, CreateResult, Result
    <2> QED
        BY <1>1, <1>2, <2>1
<1>3. CASE /\ ~(first /\ event.event_type = "create" /\ RootReplacement(event, "add"))
           /\ event.event_type = "rollback" /\ RootReplacement(event, "replace")
    <2>1. expected.document = ops[1].value
        BY <1>3 DEF Expected, RollbackResult, Result
    <2> QED
        BY <1>1, <1>3, <2>1
<1>4. CASE /\ ~(first /\ event.event_type = "create" /\ RootReplacement(event, "add"))
           /\ ~(event.event_type = "rollback" /\ RootReplacement(event, "replace"))
           /\ ops # << >>
    <2>1. expected = PatchResult(state, ops)
        BY <1>4 DEF Expected
    <2> QED
        BY <1>4, <2>1 DEF Effect
<1>5. CASE /\ ~(first /\ event.event_type = "create" /\ RootReplacement(event, "add"))
           /\ ~(event.event_type = "rollback" /\ RootReplacement(event, "replace"))
           /\ ops = << >>
    <2>1. expected.document = state
        BY <1>5 DEF Expected, MarkResult, Result
    <2> QED
        BY <1>5, <2>1 DEF Effect
<1> HIDE DEF ops, expected
<1> QED
    BY <1>2, <1>3, <1>4, <1>5 DEF ops, expected

\* A fold along a sequence, turn by turn.
IsRun(g, fold, base, seq) ==
    /\ g[0] = base
    /\ \A n \in 1..Len(seq) : g[n] = Turn(fold, g[n - 1], seq[n])
    /\ FoldOf(fold, base, seq) = g[Len(seq)]

LEMMA FoldRun ==
    ASSUME NEW fold \in Folds, NEW base, NEW S, NEW seq \in Seq(S)
    PROVE  \E g : IsRun(g, fold, base, seq)
<1>1. PICK h : IsTable(fold, h, base, seq) /\ FoldOf(fold, base, seq) = h[1..Len(seq)]
    BY FoldIsTable
<1> DEFINE L == Len(seq)
           g == [n \in 0..L |-> h[1..n]]
<1>2. L \in Nat
    BY LenProperties
<1>3. g[0] = base
    <2>1. 0 \in 0..L /\ 1..0 = {}
        BY <1>2
    <2>2. h[{}] = base
        BY <1>1, TableEntry
    <2> QED
        BY <2>1, <2>2
<1>4. ASSUME NEW n \in 1..L
      PROVE  g[n] = Turn(fold, g[n - 1], seq[n])
    <2>1. n \in 0..L /\ n - 1 \in 0..L
        BY <1>2
    <2>2. h[1..n] = Turn(fold, h[1..(n - 1)], seq[n])
        BY <1>1, TableEntry
    <2> QED
        BY <2>1, <2>2
<1>5. FoldOf(fold, base, seq) = g[L]
    BY <1>1, <1>2
<1> HIDE DEF g
<1>6. IsRun(g, fold, base, seq)
    BY <1>3, <1>4, <1>5 DEF IsRun
<1> QED
    BY <1>6

LEMMA StepByStep ==
    ASSUME NEW L \in Nat, NEW A, 0 \in A,
           ASSUME NEW n \in 1..L, n - 1 \in A PROVE n \in A
    PROVE  L \in A
<1> DEFINE N == {n \in Nat : n <= L => n \in A}
<1>1. 0 \in N
    OBVIOUS
<1>2. ASSUME NEW n \in N
      PROVE  n + 1 \in N
    <2>1. ASSUME n + 1 <= L
          PROVE  n + 1 \in A
        <3>1. n \in A /\ n + 1 \in 1..L /\ (n + 1) - 1 = n
            BY <2>1
        <3> QED
            BY <3>1
    <2> QED
        BY <2>1
<1>3. N = Nat
    <2> HIDE DEF N
    <2> N \in SUBSET Nat
        BY DEF N
    <2> QED
        BY <1>1, <1>2, NatInduct
<1>4. L \in N
    <2> HIDE DEF N
    <2> QED
        BY <1>3
<1> QED
    BY <1>4

-----------------------------------------------------------------------------
(* The rows as a story: what each row does to the state it is told in.      *)

EventTypes == {"create", "update", "delete", "restore", "rollback"}

First(v) == IF v = 1 THEN TRUE ELSE FALSE

LEMMA FirstOne == First(1) = TRUE
BY DEF First

LEMMA FirstLater ==
    ASSUME NEW v, v # 1
    PROVE  First(v) = FALSE
BY DEF First

LEMMA FirstBoolean ==
    ASSUME NEW v
    PROVE  First(v) \in BOOLEAN
BY DEF First

ExpectedAt(v, prev, event) == Expected(First(v), prev, event)

\* The event-chain report has nothing to say against a row, as the one of a version.
Explains(event, v, prev, next) ==
    /\ event.base_version = v - 1 /\ event.result_version = v
    /\ First(v) => event.event_type = "create"
    /\ event.event_type \in EventTypes
    /\ FieldsMatch(event, ExpectedAt(v, prev, event))
    /\ ExpectedAt(v, prev, event).document = next

Story(log, st) ==
    /\ st[0] = Null
    /\ \A v \in 1..Len(log) : Explains(log[v], v, st[v - 1], st[v])

\* One turn of the event-chain report, field by field.
CheckOk(checked, event, expected) ==
    /\ checked.ok
    /\ event.base_version = checked.version
    /\ event.result_version = checked.version + 1
    /\ checked.first => event.event_type = "create"
    /\ event.event_type \in EventTypes
    /\ FieldsMatch(event, expected)

LEMMA CheckTurnOk ==
    ASSUME NEW checked, NEW event, NEW expected,
           expected = Expected(checked.first, checked.state, event)
    PROVE  CheckEvent(checked, event).ok <=> CheckOk(checked, event, expected)
BY DEF CheckEvent, EventTypes, CheckOk

LEMMA CheckTurnState ==
    ASSUME NEW checked, NEW event, NEW expected,
           expected = Expected(checked.first, checked.state, event)
    PROVE  CheckEvent(checked, event).state
                = IF expected.document = Failed THEN checked.state ELSE expected.document
BY DEF CheckEvent

LEMMA CheckTurnVersion ==
    ASSUME NEW checked, NEW event
    PROVE  CheckEvent(checked, event).version = event.result_version
BY DEF CheckEvent

LEMMA CheckTurnFirst ==
    ASSUME NEW checked, NEW event
    PROVE  CheckEvent(checked, event).first = FALSE
BY DEF CheckEvent

\* The fold of the event-chain report along the rows of a document.
Checked(log) == FoldLeft(CheckEvent, Unchecked, log)

LEMMA CheckRun ==
    ASSUME NEW S, NEW log \in Seq(S)
    PROVE  \E g : /\ g[0] = Unchecked
                  /\ \A n \in 1..Len(log) : g[n] = CheckEvent(g[n - 1], log[n])
                  /\ Checked(log) = g[Len(log)]
<1>1. PICK g : IsRun(g, "check", Unchecked, log)
    BY FoldRun DEF Folds
<1>2. Checked(log) = g[Len(log)]
    BY <1>1 DEF IsRun, FoldOf, Checked
<1>3. \A n \in 1..Len(log) : g[n] = CheckEvent(g[n - 1], log[n])
    BY <1>1 DEF IsRun, Turn
<1>4. g[0] = Unchecked
    BY <1>1 DEF IsRun
<1> QED
    BY <1>2, <1>3, <1>4

\* Rows that it passes are a story.
LEMMA StoryOfOk ==
    ASSUME NEW S, NEW log \in Seq(S), Checked(log).ok
    PROVE  \E st : Story(log, st) /\ Checked(log).state = st[Len(log)]
<1>1. PICK g : /\ g[0] = Unchecked
               /\ \A n \in 1..Len(log) : g[n] = CheckEvent(g[n - 1], log[n])
               /\ Checked(log) = g[Len(log)]
    BY CheckRun
<1> DEFINE L == Len(log)
           st == [n \in 0..L |-> g[n].state]
           Told(n) == /\ g[n].first = First(n + 1)
                      /\ g[n].ok => g[n].version = n
                      /\ g[n].ok => \A v \in 1..n : Explains(log[v], v, g[v - 1].state, g[v].state)
           A == {n \in 0..L : Told(n)}
<1>0. L \in Nat
    BY LenProperties
<1>2. 0 \in A
    <2>1. Unchecked.first = First(0 + 1)
        <3>1. Unchecked.first = TRUE
            BY DEF Unchecked
        <3>2. 0 + 1 = 1
            OBVIOUS
        <3>3. First(0 + 1) = TRUE
            BY <3>2, FirstOne, Zenon
        <3> QED
            BY <3>1, <3>3, Zenon
    <2>2. Unchecked.version = 0
        BY DEF Unchecked
    <2>3. Told(0)
        BY <1>1, <2>1, <2>2
    <2> QED
        BY <1>0, <2>3
<1>3. ASSUME NEW n \in 1..L, n - 1 \in A
      PROVE  n \in A
    <2> DEFINE checked == g[n - 1]
               expected == Expected(checked.first, checked.state, log[n])
    <2>1. /\ checked.first = First(n)
          /\ checked.ok => checked.version = n - 1
          /\ checked.ok => \A v \in 1..(n - 1) : Explains(log[v], v, g[v - 1].state, g[v].state)
        <3>1. (n - 1) + 1 = n
            BY <1>0
        <3> QED
            BY <1>3, <3>1
    <2>2. g[n] = CheckEvent(checked, log[n])
        BY <1>1
    <2> HIDE DEF checked
    <2> DEFINE event == log[n]
    <2>3. /\ g[n].first = FALSE
          /\ g[n].version = log[n].result_version
          /\ g[n].state = IF expected.document = Failed THEN checked.state ELSE expected.document
          /\ g[n].ok <=> CheckOk(checked, event, expected)
        <3> HIDE DEF event
        <3>1. expected = Expected(checked.first, checked.state, event)
            BY DEF event
        <3> HIDE DEF expected
        <3>2. CheckEvent(checked, event).first = FALSE
            BY CheckTurnFirst
        <3>3. CheckEvent(checked, event).version = event.result_version
            BY CheckTurnVersion
        <3>4. CheckEvent(checked, event).state
                = IF expected.document = Failed THEN checked.state ELSE expected.document
            BY <3>1, CheckTurnState
        <3>5. CheckEvent(checked, event).ok <=> CheckOk(checked, event, expected)
            BY <3>1, CheckTurnOk
        <3> QED
            BY <2>2, <3>2, <3>3, <3>4, <3>5, Zenon DEF event
    <2>4. expected = ExpectedAt(n, checked.state, log[n])
        BY <2>1, Zenon DEF ExpectedAt
    <2> HIDE DEF expected
    <2>5. ASSUME g[n].ok
          PROVE  /\ g[n].version = n
                 /\ Explains(log[n], n, checked.state, g[n].state)
                 /\ \A v \in 1..(n - 1) : Explains(log[v], v, g[v - 1].state, g[v].state)
        <3>1. /\ checked.version = n - 1
              /\ \A v \in 1..(n - 1) : Explains(log[v], v, g[v - 1].state, g[v].state)
              /\ FieldsMatch(log[n], expected)
            BY <2>1, <2>3, <2>5 DEF CheckOk
        <3>2. expected.document # Failed
            BY <3>1 DEF FieldsMatch
        <3>3. g[n].state = expected.document
            BY <2>3, <3>2
        <3>4. g[n].version = n /\ log[n].result_version = n /\ log[n].base_version = n - 1
            BY <2>3, <2>5, <3>1 DEF CheckOk
        <3>5. First(n) => log[n].event_type = "create"
            BY <2>1, <2>3, <2>5, Zenon DEF CheckOk
        <3>6. Explains(log[n], n, checked.state, g[n].state)
            BY <2>3, <2>4, <2>5, <3>1, <3>3, <3>4, <3>5 DEF Explains, CheckOk
        <3> QED
            BY <3>1, <3>4, <3>6
    <2>6. ASSUME g[n].ok, NEW v \in 1..n
          PROVE  Explains(log[v], v, g[v - 1].state, g[v].state)
        <3>1. CASE v = n
            BY <2>5, <2>6, <3>1 DEF checked
        <3>2. CASE v # n
            <4>1. v \in 1..(n - 1)
                BY <3>2
            <4> QED
                BY <2>5, <2>6, <4>1
        <3> QED
            BY <3>1, <3>2
    <2>7. g[n].first = First(n + 1)
        <3>1. n + 1 # 1
            BY <1>0
        <3>2. First(n + 1) = FALSE
            BY <3>1, FirstLater, Zenon
        <3> QED
            BY <2>3, <3>2, Zenon
    <2>8. Told(n)
        BY <2>5, <2>6, <2>7
    <2> QED
        BY <1>0, <2>8
<1>4. Told(L)
    <2>1. L \in A
        <3>1. L \in 0..L
            BY <1>0
        <3> HIDE DEF A, L
        <3> QED
            BY <1>0, <1>2, <1>3, <3>1, StepByStep
    <2> QED
        BY <2>1
<1>5. ASSUME NEW v \in 1..L
      PROVE  Explains(log[v], v, st[v - 1], st[v])
    <2>1. Explains(log[v], v, g[v - 1].state, g[v].state)
        BY <1>1, <1>4
    <2>2. v \in 0..L /\ v - 1 \in 0..L
        BY <1>0
    <2> QED
        BY <2>1, <2>2
<1>6. st[0] = Null /\ Checked(log).state = st[L]
    BY <1>0, <1>1 DEF Unchecked
<1> HIDE DEF st
<1>7. Story(log, st)
    BY <1>5, <1>6 DEF Story
<1> QED
    BY <1>6, <1>7

\* A story is what the event-chain report passes.
LEMMA StoryIsOk ==
    ASSUME NEW S, NEW log \in Seq(S), NEW st, Story(log, st)
    PROVE  Checked(log).ok /\ Checked(log).state = st[Len(log)]
<1>1. PICK g : /\ g[0] = Unchecked
               /\ \A n \in 1..Len(log) : g[n] = CheckEvent(g[n - 1], log[n])
               /\ Checked(log) = g[Len(log)]
    BY CheckRun
<1> DEFINE L == Len(log)
           Told(n) == /\ g[n].first = First(n + 1)
                      /\ g[n].ok
                      /\ g[n].version = n
                      /\ g[n].state = st[n]
           A == {n \in 0..L : Told(n)}
<1>0. L \in Nat
    BY LenProperties
<1>2. 0 \in A
    <2>1. Unchecked.first = First(0 + 1)
        <3>1. Unchecked.first = TRUE
            BY DEF Unchecked
        <3>2. 0 + 1 = 1
            OBVIOUS
        <3>3. First(0 + 1) = TRUE
            BY <3>2, FirstOne, Zenon
        <3> QED
            BY <3>1, <3>3, Zenon
    <2>2. Unchecked.version = 0 /\ Unchecked.state = st[0] /\ Unchecked.ok
        BY DEF Unchecked, Story
    <2>3. Told(0)
        BY <1>1, <2>1, <2>2
    <2> QED
        BY <1>0, <2>3
<1>3. ASSUME NEW n \in 1..L, n - 1 \in A
      PROVE  n \in A
    <2> DEFINE checked == g[n - 1]
               event == log[n]
               expected == Expected(checked.first, checked.state, event)
    <2>1. checked.first = First(n) /\ checked.ok /\ checked.version = n - 1 /\ checked.state = st[n - 1]
        <3>1. (n - 1) + 1 = n
            BY <1>0
        <3> QED
            BY <1>3, <3>1
    <2>2. g[n] = CheckEvent(checked, event)
        BY <1>1
    <2>3. Explains(event, n, st[n - 1], st[n])
        BY DEF Story
    <2> HIDE DEF checked, event
    <2>4. expected = ExpectedAt(n, checked.state, event)
        BY <2>1, Zenon DEF ExpectedAt
    <2> HIDE DEF expected
    <2>5. /\ event.base_version = n - 1 /\ event.result_version = n
          /\ First(n) => event.event_type = "create"
          /\ event.event_type \in EventTypes
          /\ FieldsMatch(event, expected)
          /\ expected.document = st[n]
        BY <2>1, <2>3, <2>4 DEF Explains
    <2>6. expected.document # Failed
        BY <2>5 DEF FieldsMatch
    <2>7. g[n].state = st[n]
        <3>1. CheckEvent(checked, event).state
                = IF expected.document = Failed THEN checked.state ELSE expected.document
            BY CheckTurnState DEF expected
        <3> QED
            BY <2>2, <2>5, <2>6, <3>1
    <2>8. g[n].version = n
        BY <2>2, <2>5, CheckTurnVersion
    <2>9. g[n].ok
        <3>1. CheckEvent(checked, event).ok <=> CheckOk(checked, event, expected)
            BY CheckTurnOk DEF expected
        <3>2. checked.first => event.event_type = "create"
            BY <2>1, <2>5, Zenon
        <3>3. n = checked.version + 1
            BY <2>1
        <3>4. CheckOk(checked, event, expected)
            BY <2>1, <2>5, <3>2, <3>3 DEF CheckOk
        <3> QED
            BY <2>2, <3>1, <3>4, Zenon
    <2>10. g[n].first = First(n + 1)
        <3>1. n + 1 # 1
            BY <1>0
        <3>2. First(n + 1) = FALSE
            BY <3>1, FirstLater, Zenon
        <3>3. CheckEvent(checked, event).first = FALSE
            BY CheckTurnFirst
        <3> QED
            BY <2>2, <3>2, <3>3, Zenon
    <2>11. Told(n)
        BY <2>7, <2>8, <2>9, <2>10
    <2> QED
        BY <1>0, <2>11
<1>4. Told(L)
    <2>1. L \in A
        <3>1. L \in 0..L
            BY <1>0
        <3> HIDE DEF A, L
        <3> QED
            BY <1>0, <1>2, <1>3, <3>1, StepByStep
    <2> QED
        BY <2>1
<1> QED
    BY <1>1, <1>4

\* The states of a story are documents or, before the first, null.
LEMMA StoryStates ==
    ASSUME NEW S, NEW log \in Seq(S), NEW st, Story(log, st)
    PROVE  \A n \in 0..Len(log) : st[n] # Failed
<1>1. ASSUME NEW n \in 0..Len(log)
      PROVE  st[n] # Failed
    <2>1. CASE n = 0
        BY <2>1, NullFacts DEF Story
    <2>2. CASE n # 0
        <3>1. n \in 1..Len(log)
            BY <2>2, LenProperties
        <3>2. Explains(log[n], n, st[n - 1], st[n])
            BY <3>1 DEF Story
        <3> QED
            BY <3>2 DEF Explains, FieldsMatch
    <2> QED
        BY <2>1, <2>2
<1> QED
    BY <1>1

\* A row of a story leads from one state to the next as replay takes it.
LEMMA StoryEffects ==
    ASSUME NEW S, NEW log \in Seq(S), NEW st, Story(log, st), NEW n \in 1..Len(log),
           IsSequence(log[n].patch)
    PROVE  st[n] = Effect(st[n - 1], log[n].patch)
<1>1. Explains(log[n], n, st[n - 1], st[n])
    BY DEF Story
<1>2. st[n - 1] # Failed
    <2>1. n - 1 \in 0..Len(log)
        BY LenProperties
    <2> QED
        BY <2>1, StoryStates
<1> DEFINE first == First(n)
           state == st[n - 1]
           event == log[n]
<1>3. first \in BOOLEAN
    BY FirstBoolean
<1>4. Expected(first, state, event).document = st[n]
    BY <1>1 DEF Explains, ExpectedAt
<1>5. IsSequence(event.patch) /\ state # Failed
    BY <1>2
<1> HIDE DEF first, state, event
<1>6. Expected(first, state, event).document = Effect(state, event.patch)
    BY <1>3, <1>5, ExpectedDocument
<1> QED
    BY <1>4, <1>6 DEF state, event

Replayed(log, version) ==
    FoldLeft(ReplayEvent, [state |-> Null, target_version |-> version], log).state

\* replay_events makes of the rows of a story the state of any of its versions.
LEMMA StoryReplays ==
    ASSUME NEW S, NEW log \in Seq(S), NEW st, Story(log, st),
           \A n \in 1..Len(log) : IsSequence(log[n].patch),
           NEW v \in 0..Len(log)
    PROVE  Replayed(log, v) = st[v]
<1> DEFINE L == Len(log)
           Reached(n) == IF n <= v THEN n ELSE v
           At(n) == [state |-> st[Reached(n)], target_version |-> v]
<1>0. L \in Nat
    BY LenProperties
<1>1. PICK g : IsRun(g, "replay", At(0), log)
    BY FoldRun DEF Folds
<1> DEFINE A == {n \in 0..L : g[n] = At(n)}
<1>2. 0 \in A
    BY <1>0, <1>1 DEF IsRun
<1>3. ASSUME NEW n \in 1..L, n - 1 \in A
      PROVE  n \in A
    <2>1. g[n - 1] = At(n - 1) /\ n - 1 \in Nat /\ n \in Nat /\ v \in Nat
        BY <1>0, <1>3
    <2>2. g[n] = ReplayEvent(g[n - 1], log[n])
        BY <1>1 DEF IsRun, Turn
    <2>3. log[n].result_version = n
        BY DEF Story, Explains
    <2>4. st[n] = Effect(st[n - 1], log[n].patch)
        BY StoryEffects
    <2>5. g[n - 1].state = st[Reached(n - 1)] /\ g[n - 1].target_version = v
        BY <2>1
    <2>6. CASE n > v
        <3>1. Reached(n) = v /\ Reached(n - 1) = v
            BY <2>1, <2>6
        <3>2. g[n] = g[n - 1]
            BY <2>2, <2>3, <2>5, <2>6 DEF ReplayEvent
        <3> QED
            BY <1>0, <2>1, <3>1, <3>2
    <2>7. CASE n <= v
        <3>1. Reached(n) = n /\ Reached(n - 1) = n - 1 /\ ~(n > v)
            BY <2>1, <2>7
        <3>2. CASE log[n].patch = << >>
            <4>1. g[n] = g[n - 1]
                BY <2>2, <3>2 DEF ReplayEvent
            <4>2. st[n] = st[n - 1]
                BY <2>4, <3>2 DEF Effect
            <4> QED
                BY <1>0, <2>1, <3>1, <4>1, <4>2
        <3>3. CASE log[n].patch # << >>
            <4> DEFINE next == PatchResult(st[n - 1], log[n].patch).document
            <4>1. st[n] = next
                BY <2>4, <3>3 DEF Effect
            <4>2. g[n] = [g[n - 1] EXCEPT !.state = next]
                BY <2>2, <2>3, <2>5, <3>1, <3>3 DEF ReplayEvent
            <4> HIDE DEF next
            <4>3. g[n] = [state |-> next, target_version |-> v]
                BY <2>1, <4>2
            <4> QED
                BY <1>0, <3>1, <4>1, <4>3
        <3> QED
            BY <3>2, <3>3
    <2> QED
        BY <2>1, <2>6, <2>7
<1>4. g[L] = At(L)
    <2>1. L \in A
        <3>1. L \in 0..L
            BY <1>0
        <3> HIDE DEF A, L
        <3> QED
            BY <1>0, <1>2, <1>3, <3>1, StepByStep
    <2> QED
        BY <2>1
<1>5. Reached(L) = v /\ Reached(0) = 0 /\ st[0] = Null
    BY <1>0 DEF Story
<1>6. FoldLeft(ReplayEvent, At(0), log) = g[L]
    BY <1>1 DEF IsRun, FoldOf
<1>7. g[L].state = st[v]
    BY <1>4, <1>5
<1> QED
    BY <1>5, <1>6, <1>7 DEF Replayed

-----------------------------------------------------------------------------
(* The rows that the writes store, and what a row tells when its patch is   *)
(* not the one it was stored with.                                          *)

LEMMA CreateFields ==
    ASSUME NEW content
    PROVE  /\ IsResult(CreateResult(content))
           /\ CreateResult(content).document = content
           /\ CreateResult(content).inverse_patch = <<Removal(<< >>)>>
           /\ CreateResult(content).changed_paths = << << >> >>
           /\ CreateResult(content).after_values = <<Tracked(<< >>, content)>>
<1> DEFINE back == <<Removal(<< >>)>>
           paths == << << >> >>
           before == <<Tracked(<< >>, Failed)>>
           after == <<Tracked(<< >>, content)>>
<1>1. CreateResult(content) = Result(content, back, paths, before, after)
    BY DEF CreateResult
<1> HIDE DEF back, paths, before, after
<1>2. /\ IsResult(CreateResult(content))
      /\ CreateResult(content).document = content
      /\ CreateResult(content).inverse_patch = back
      /\ CreateResult(content).changed_paths = paths
      /\ CreateResult(content).after_values = after
    BY <1>1, ResultFields
<1> QED
    BY <1>2 DEF back, paths, after

LEMMA RollbackFields ==
    ASSUME NEW state, NEW target
    PROVE  /\ IsResult(RollbackResult(state, target))
           /\ RollbackResult(state, target).document = target
           /\ RollbackResult(state, target).inverse_patch = RootWrite("replace", state)
           /\ RollbackResult(state, target).after_values = ChangesTell(state, target)
<1> DEFINE changes == Differences(state, target)
           back == RootWrite("replace", state)
           paths == [i \in DOMAIN changes |-> changes[i].path]
           before == [i \in DOMAIN changes |-> Tracked(changes[i].path, changes[i].before)]
           after == ChangesTell(state, target)
<1>1. RollbackResult(state, target) = Result(target, back, paths, before, after)
    BY DEF RollbackResult, ChangesTell, RootWrite
<1> HIDE DEF back, paths, before, after
<1>2. /\ IsResult(RollbackResult(state, target))
      /\ RollbackResult(state, target).document = target
      /\ RollbackResult(state, target).inverse_patch = back
      /\ RollbackResult(state, target).after_values = after
    BY <1>1, ResultFields
<1> QED
    BY <1>2 DEF back, after

LEMMA MarkFields ==
    ASSUME NEW state
    PROVE  /\ IsResult(MarkResult(state))
           /\ MarkResult(state).document = state
           /\ MarkResult(state).inverse_patch = << >>
<1> DEFINE told == <<Tracked(<< >>, state)>>
           none == << >>
<1>1. MarkResult(state) = Result(state, none, none, told, told)
    BY DEF MarkResult
<1> HIDE DEF told, none
<1>2. /\ IsResult(MarkResult(state))
      /\ MarkResult(state).document = state
      /\ MarkResult(state).inverse_patch = none
    BY <1>1, ResultFields
<1> QED
    BY <1>2 DEF none

LEMMA FieldsMatchFacts ==
    ASSUME NEW event, NEW expected, FieldsMatch(event, expected)
    PROVE  /\ expected.document # Failed
           /\ event.changed_paths = expected.changed_paths
           /\ event.inverse_patch = expected.inverse_patch
           /\ event.before_values = expected.before_values
           /\ event.after_values = expected.after_values
BY DEF FieldsMatch

LEMMA OneInverse ==
    ASSUME NEW doc, NEW ops \in RowPatches, PatchResult(doc, ops).document # Failed
    PROVE  /\ Len(PatchResult(doc, ops).inverse_patch) = Len(ops)
           /\ ops # << >> => PatchResult(doc, ops).inverse_patch # << >>
<1>1. ops \in Seq(Range(ops))
    BY RowPatchFacts
<1>2. Len(PatchResult(doc, ops).inverse_patch) = Len(ops)
    BY <1>1, ResultShape
<1>3. ops # << >> => Len(ops) # 0
    BY <1>1
<1>4. PatchResult(doc, ops).inverse_patch = << >> => Len(PatchResult(doc, ops).inverse_patch) = 0
    OBVIOUS
<1> QED
    BY <1>2, <1>3, <1>4

\* A patch with a single inverse operation is a single operation.
IsSingle(doc, ops, op, back) ==
    /\ ops = <<op>> /\ Applicable(op) /\ InverseOf(doc, op) = back
    /\ PatchResult(doc, ops).document = ApplySingle(doc, op)
    /\ PatchResult(doc, ops).changed_paths = <<ConcretePath(doc, op)>>
    /\ PatchResult(doc, ops).after_values = <<AfterValue(doc, op)>>

LEMMA SingleOperation ==
    ASSUME NEW doc, doc # Failed, NEW ops \in RowPatches, PatchResult(doc, ops).document # Failed,
           NEW back, PatchResult(doc, ops).inverse_patch = <<back>>
    PROVE  IsSingle(doc, ops, ops[1], back)
<1> DEFINE op == ops[1]
<1>1. Len(ops) = 1
    <2>1. Len(<<back>>) = 1
        OBVIOUS
    <2> QED
        BY <2>1, OneInverse
<1>2. ops \in Seq(Range(ops)) /\ \A x \in Range(ops) : Applicable(x)
    BY RowPatchFacts
<1>3. ops = <<op>>
    <2>1. IsSequence(ops)
        BY <1>2 DEF IsSequence
    <2> QED
        BY <1>1, <2>1, LengthOne
<1>4. Applicable(op)
    BY <1>1, <1>2
<1> HIDE DEF op
<1>5. PatchResult(doc, ops).document = ApplySingle(doc, op) /\ ApplySingle(doc, op) # Failed
    BY <1>3, OneResult
<1>6. PatchResult(doc, ops).inverse_patch = <<InverseOf(doc, op)>>
    BY <1>3, <1>5, OneResult
<1>7. InverseOf(doc, op) = back
    BY <1>6, OneFacts
<1>8. /\ PatchResult(doc, ops).changed_paths = <<ConcretePath(doc, op)>>
      /\ PatchResult(doc, ops).after_values = <<AfterValue(doc, op)>>
    BY <1>3, <1>5, OneResult
<1> QED
    BY <1>3, <1>4, <1>5, <1>7, <1>8 DEF op, IsSingle

\* A row of the first version with the records of a create, whatever its patch.
LEMMA CreateTells ==
    ASSUME NEW next \in Snapshots, NEW event, event.patch \in RowPatches,
           event.event_type = "create",
           event.inverse_patch = <<Removal(<< >>)>>,
           event.changed_paths = << << >> >>,
           event.after_values = <<Tracked(<< >>, next)>>,
           FieldsMatch(event, Expected(TRUE, Null, event))
    PROVE  Expected(TRUE, Null, event).document = next
<1> DEFINE expected == Expected(TRUE, Null, event)
           ops == event.patch
<1>1. /\ expected.document # Failed
      /\ expected.inverse_patch = <<Removal(<< >>)>>
      /\ expected.changed_paths = << << >> >>
      /\ expected.after_values = <<Tracked(<< >>, next)>>
    BY FieldsMatchFacts
<1>2. CASE RootReplacement(event, "add")
    <2>1. expected = CreateResult(ops[1].value)
        BY <1>2 DEF Expected
    <2>2. expected.document = ops[1].value /\ expected.after_values = <<Tracked(<< >>, ops[1].value)>>
        <3> HIDE DEF ops, expected
        <3> QED
            BY <2>1, CreateFields
    <2>3. Tracked(<< >>, ops[1].value) = Tracked(<< >>, next)
        BY <1>1, <2>2, OneFacts
    <2>4. ops[1].value = next
        BY <2>3 DEF Tracked
    <2> QED
        BY <2>2, <2>4
<1>3. CASE ~RootReplacement(event, "add") /\ ops # << >>
    <2>1. expected = PatchResult(Null, ops)
        BY <1>3 DEF Expected
    <2> HIDE DEF expected
    <2> DEFINE op == ops[1]
               back == Removal(<< >>)
    <2>2. IsSingle(Null, ops, op, back)
        <3>1. /\ PatchResult(Null, ops).inverse_patch = <<back>>
              /\ PatchResult(Null, ops).document # Failed
            BY <1>1, <2>1
        <3> HIDE DEF ops, back
        <3> QED
            BY <3>1, NullFacts, SingleOperation DEF ops
    <2> HIDE DEF op
    <2>3. ConcretePath(Null, op) = << >>
        BY <1>1, <2>1, <2>2, OneFacts DEF IsSingle
    <2>4. op.op \in Kinds /\ op.path \in Pointer
        BY <2>2 DEF Applicable, Writes, IsSingle
    <2>5. op.op = "add"
        <3>1. Removal(<< >>).op = "remove"
            BY DEF Removal
        <3>2. op.op = "remove" => InverseOf(Null, op).op = "add"
            BY <2>4, InverseTells
        <3>3. op.op = "replace" => InverseOf(Null, op).op = "replace"
            BY <2>4, InverseTells DEF Operation
        <3> QED
            BY <2>2, <2>4, <3>1, <3>2, <3>3 DEF Kinds, IsSingle
    <2>6. op.path = << >>
        <3>1. CASE ConcretePath(Null, op) = op.path
            BY <2>3, <3>1
        <3>2. CASE ConcretePath(Null, op) # op.path
            <4> DEFINE p == Front(op.path)
                       u == TokenOf(Len(GetValue(Null, p).arr))
            <4>1. ConcretePath(Null, op) = Append(p, u) /\ op.path # << >>
                BY <3>2 DEF ConcretePath
            <4>2. p \in Pointer
                BY <2>4, <4>1, LastTokenFacts
            <4> HIDE DEF p, u
            <4>3. Append(p, u) # << >>
                BY <4>2 DEF Pointer
            <4> QED
                BY <2>3, <4>1, <4>3
        <3> QED
            BY <3>1, <3>2
    <2>7. RootReplacement(event, "add")
        BY <2>2, <2>5, <2>6, OneFacts DEF RootReplacement, IsSingle, op
    <2> QED
        BY <1>3, <2>7
<1>4. CASE ~RootReplacement(event, "add") /\ ops = << >>
    <2>1. ~RootReplacement(event, "replace")
        BY <1>4 DEF RootReplacement
    <2>2. expected.inverse_patch = << >>
        BY <1>4, <2>1, ResultFields DEF Expected
    <2>3. <<Removal(<< >>)>> # << >>
        BY OneFacts
    <2> QED
        BY <1>1, <2>2, <2>3
<1> QED
    BY <1>2, <1>3, <1>4

\* A later row with the records of a patch, whatever its own.
LEMMA UpdateTells ==
    ASSUME NEW prev \in Snapshots, NEW ops \in RowPatches, ops # << >>,
           PatchResult(prev, ops).document \in Snapshots,
           NEW event, event.patch \in RowPatches,
           event.event_type = "update",
           event.inverse_patch = PatchResult(prev, ops).inverse_patch,
           event.changed_paths = PatchResult(prev, ops).changed_paths,
           event.after_values = PatchResult(prev, ops).after_values,
           FieldsMatch(event, Expected(FALSE, prev, event))
    PROVE  Expected(FALSE, prev, event).document = PatchResult(prev, ops).document
<1> DEFINE expected == Expected(FALSE, prev, event)
           alts == event.patch
           result == PatchResult(prev, ops)
<1>0. IsJson(prev) /\ prev # Failed /\ prev # Null /\ result.document # Failed
    BY SnapshotFacts
<1>1. /\ expected.document # Failed
      /\ expected.inverse_patch = result.inverse_patch
      /\ expected.changed_paths = result.changed_paths
      /\ expected.after_values = result.after_values
    BY FieldsMatchFacts
<1>2. CASE alts = << >>
    <2>1. expected = MarkResult(prev)
        BY <1>0, <1>2 DEF Expected, RootReplacement
    <2>2. result.inverse_patch # << >>
        BY <1>0, OneInverse
    <2> HIDE DEF result, expected
    <2>3. expected.inverse_patch = << >>
        BY <2>1, MarkFields
    <2> QED
        BY <1>1, <2>2, <2>3
<1>3. CASE alts # << >>
    <2>1. expected = PatchResult(prev, alts)
        BY <1>3 DEF Expected
    <2> DEFINE S == Range(ops) \cup Range(alts)
    <2>2. /\ ops \in Seq(Range(ops)) /\ alts \in Seq(Range(alts))
          /\ \A op \in S : Applicable(op)
          /\ TokensSuffice(prev, ops) /\ TokensSuffice(prev, alts)
        BY RowPatchFacts
    <2>3. ops \in Seq(S) /\ alts \in Seq(S)
        <3>1. Range(ops) \subseteq S /\ Range(alts) \subseteq S
            OBVIOUS
        <3> HIDE DEF S, alts
        <3> QED
            BY <2>2, <3>1, SeqMonotonic
    <2>4. /\ PatchResult(prev, alts).document # Failed
          /\ PatchResult(prev, ops).inverse_patch = PatchResult(prev, alts).inverse_patch
          /\ PatchResult(prev, ops).changed_paths = PatchResult(prev, alts).changed_paths
          /\ PatchResult(prev, ops).after_values = PatchResult(prev, alts).after_values
        BY <1>1, <2>1
    <2>5. PatchResult(prev, ops).document = PatchResult(prev, alts).document
        <3>1. \A op \in S : Applicable(op)
            BY <2>2
        <3>2. TokensSuffice(prev, ops) /\ TokensSuffice(prev, alts)
            BY <2>2
        <3>3. PatchResult(prev, ops).document # Failed
            BY <1>0
        <3> HIDE DEF S, alts, expected, result
        <3> QED
            BY <1>0, <2>3, <2>4, <3>1, <3>2, <3>3, PatchesAgree
    <2> QED
        BY <2>1, <2>5
<1> QED
    BY <1>2, <1>3

\* A later row with the records of a delete or a restore.
LEMMA MarkTells ==
    ASSUME NEW prev \in Snapshots, NEW event, event.patch \in RowPatches,
           event.event_type \in {"delete", "restore"},
           event.inverse_patch = << >>,
           FieldsMatch(event, Expected(FALSE, prev, event))
    PROVE  Expected(FALSE, prev, event).document = prev
<1> DEFINE expected == Expected(FALSE, prev, event)
           ops == event.patch
<1>0. prev # Failed /\ prev # Null
    BY SnapshotFacts
<1>1. expected.document # Failed /\ expected.inverse_patch = << >>
    BY FieldsMatchFacts
<1>2. CASE ops = << >>
    <2>1. expected = MarkResult(prev)
        BY <1>0, <1>2 DEF Expected
    <2> HIDE DEF expected
    <2>2. expected.document = prev
        BY <2>1, MarkFields
    <2> QED
        BY <2>2 DEF expected
<1>3. CASE ops # << >>
    <2>1. expected = PatchResult(prev, ops)
        BY <1>3 DEF Expected
    <2>2. PatchResult(prev, ops).inverse_patch = << >> /\ PatchResult(prev, ops).document # Failed
        BY <1>1, <2>1
    <2> HIDE DEF ops, expected
    <2> QED
        BY <1>3, <2>2, OneInverse DEF ops
<1> QED
    BY <1>2, <1>3

LEMMA ChangesTellApart ==
    ASSUME NEW state \in Snapshots, NEW x \in Snapshots, NEW y \in RootValues,
           ChangesTell(state, x) \in {ChangesTell(state, y), <<Tracked(<< >>, y)>>}
    PROVE  x = y
BY ChainAssumption

LEMMA RootValueFacts ==
    ASSUME NEW ops \in EventPatches, Len(ops) = 1, ops[1].path = << >>, ops[1].op # "remove"
    PROVE  ops[1].value \in RootValues
BY DEF RootValues

\* A later row with the records of a rollback.
LEMMA RollbackTells ==
    ASSUME NEW prev \in Snapshots, NEW next \in Snapshots,
           NEW event, event.patch \in EventPatches \cup {<< >>},
           event.event_type = "rollback",
           event.inverse_patch = RootWrite("replace", prev),
           event.after_values = ChangesTell(prev, next),
           FieldsMatch(event, Expected(FALSE, prev, event))
    PROVE  Expected(FALSE, prev, event).document = next
<1> DEFINE expected == Expected(FALSE, prev, event)
           ops == event.patch
           back == Operation("replace", << >>, prev)
<1>0. prev # Failed /\ prev # Null /\ ops \in RowPatches
    BY SnapshotFacts DEF RowPatches
<1>1. /\ expected.document # Failed
      /\ expected.inverse_patch = <<back>>
      /\ expected.after_values = ChangesTell(prev, next)
    BY FieldsMatchFacts DEF RootWrite
<1>2. CASE RootReplacement(event, "replace")
    <2> DEFINE value == ops[1].value
    <2>1. expected = RollbackResult(prev, value)
        BY <1>2 DEF Expected
    <2>2. value \in RootValues
        <3>1. Len(ops) = 1 /\ ops[1].path = << >> /\ ops[1].op # "remove" /\ ops # << >>
            BY <1>2 DEF RootReplacement
        <3>2. ops \in EventPatches
            BY <3>1
        <3> HIDE DEF ops
        <3> QED
            BY <3>1, <3>2, RootValueFacts
    <2> HIDE DEF value, expected
    <2>3. expected.document = value /\ expected.after_values = ChangesTell(prev, value)
        BY <2>1, RollbackFields
    <2>4. next = value
        BY <1>1, <2>2, <2>3, ChangesTellApart
    <2> QED
        BY <2>3, <2>4 DEF expected
<1>3. CASE ~RootReplacement(event, "replace") /\ ops = << >>
    <2>1. expected = MarkResult(prev)
        BY <1>0, <1>3 DEF Expected
    <2> HIDE DEF expected
    <2>2. expected.inverse_patch = << >>
        BY <2>1, MarkFields
    <2> QED
        BY <1>1, <2>2, OneFacts
<1>4. CASE ~RootReplacement(event, "replace") /\ ops # << >>
    <2>1. expected = PatchResult(prev, ops)
        BY <1>4 DEF Expected
    <2> DEFINE op == ops[1]
    <2>2. IsSingle(prev, ops, op, back)
        <3>1. PatchResult(prev, ops).inverse_patch = <<back>> /\ PatchResult(prev, ops).document # Failed
            BY <1>1, <2>1
        <3> HIDE DEF ops, back, expected
        <3> QED
            BY <1>0, <3>1, SingleOperation DEF ops
    <2> HIDE DEF op
    <2>3. op.op \in Kinds /\ op.path \in Pointer
        BY <2>2 DEF Applicable, Writes, IsSingle
    <2>4. InverseOf(prev, op).op = "replace" /\ InverseOf(prev, op).path = << >>
        BY <2>2 DEF IsSingle, Operation
    <2>5. op.op # "remove" /\ op.path = << >>
        <3>1. op.op = "remove" => InverseOf(prev, op).op = "add"
            BY <2>3, InverseTells
        <3>2. InverseOf(prev, op) = Operation("replace", op.path, GetValue(prev, op.path))
            BY <2>3, <2>4, InverseTells
        <3>3. op.path = InverseOf(prev, op).path
            BY <3>2 DEF Operation
        <3> QED
            BY <2>4, <3>1, <3>3
    <2> DEFINE value == op.value
    <2>6. ApplySingle(prev, op) = value /\ ConcretePath(prev, op) = << >>
        BY <2>5 DEF ApplySingle, ConcretePath
    <2>7. AfterValue(prev, op) = Tracked(<< >>, value)
        BY <2>6, GetValueSteps DEF AfterValue
    <2>8. /\ expected.document = value
          /\ expected.after_values = <<Tracked(<< >>, value)>>
        BY <2>1, <2>2, <2>6, <2>7 DEF IsSingle
    <2>9. value \in RootValues
        <3>1. ops = <<op>>
            BY <2>2 DEF IsSingle
        <3>2. Len(ops) = 1 /\ ops[1] = op /\ ops # << >>
            BY <3>1, OneFacts
        <3>3. ops \in EventPatches
            BY <3>2
        <3> HIDE DEF ops
        <3> QED
            BY <2>5, <3>2, <3>3, RootValueFacts
    <2> HIDE DEF value
    <2>10. next = value
        BY <1>1, <2>8, <2>9, ChangesTellApart
    <2> QED
        BY <2>8, <2>10
<1> QED
    BY <1>2, <1>3, <1>4

-----------------------------------------------------------------------------
(* The rows of a history, with nothing of them damaged.                     *)

IsCreate(event, next) ==
    event = EventRow("create", 0, RootWrite("add", next), CreateResult(next))

IsUpdate(event, v, prev, next) ==
    \E ops \in EventPatches :
        /\ ops # << >> /\ PatchResult(prev, ops).document = next
        /\ event = EventRow("update", v - 1, ops, PatchResult(prev, ops))

IsRollback(event, v, prev, next) ==
    event = EventRow("rollback", v - 1, RootWrite("replace", next), RollbackResult(prev, next))

IsMark(event, v, prev, next) ==
    /\ next = prev
    /\ \E type \in {"delete", "restore"} : event = EventRow(type, v - 1, << >>, MarkResult(prev))

\* The row that the write of a version has stored.
RowWritten(event, v, prev, next) ==
    IF v = 1 THEN IsCreate(event, next)
    ELSE IsUpdate(event, v, prev, next) \/ IsRollback(event, v, prev, next)
            \/ IsMark(event, v, prev, next)

StateOf(contents, v) == IF v = 0 THEN Null ELSE contents[v]

Chain(log, contents) ==
    /\ contents \in Seq(Snapshots)
    /\ IsSequence(log) /\ Len(log) = Len(contents)
    /\ \A v \in 1..Len(contents) : RowWritten(log[v], v, StateOf(contents, v - 1), contents[v])

LEMMA EventRowFields ==
    ASSUME NEW type, NEW base, NEW ops, NEW result, NEW event,
           event = EventRow(type, base, ops, result)
    PROVE  /\ event.event_type = type /\ event.base_version = base
           /\ event.result_version = base + 1 /\ event.patch = ops
           /\ event.inverse_patch = result.inverse_patch
           /\ event.changed_paths = result.changed_paths
           /\ event.before_values = result.before_values
           /\ event.after_values = result.after_values
BY DEF EventRow

LEMMA RowMatches ==
    ASSUME NEW result, result.document # Failed, NEW event,
           event.inverse_patch = result.inverse_patch,
           event.changed_paths = result.changed_paths,
           event.before_values = result.before_values,
           event.after_values = result.after_values
    PROVE  FieldsMatch(event, result)
BY DEF FieldsMatch

LEMMA CreateExplained ==
    ASSUME NEW next \in Snapshots, NEW event, IsCreate(event, next)
    PROVE  Explains(event, 1, Null, next) /\ event.patch \in RowPatches
<1> DEFINE ops == RootWrite("add", next)
           result == CreateResult(next)
<1>1. /\ event.event_type = "create" /\ event.base_version = 0
      /\ event.result_version = 0 + 1 /\ event.patch = ops
      /\ event.inverse_patch = result.inverse_patch
      /\ event.changed_paths = result.changed_paths
      /\ event.before_values = result.before_values
      /\ event.after_values = result.after_values
    <2> HIDE DEF ops, result
    <2> QED
        BY EventRowFields DEF IsCreate, ops, result
<1>2. ops \in RowPatches
    BY DEF RowPatches
<1>3. RootReplacement(event, "add") /\ event.patch[1].value = next
    BY <1>1, RootWriteFacts DEF RootReplacement
<1>4. Expected(TRUE, Null, event) = result
    BY <1>1, <1>3 DEF Expected
<1>5. result.document = next /\ next # Failed
    BY CreateFields, SnapshotFacts
<1> HIDE DEF result
<1>6. FieldsMatch(event, result)
    BY <1>1, <1>5, RowMatches
<1>7. ExpectedAt(1, Null, event) = result
    BY <1>4, FirstOne, Zenon DEF ExpectedAt
<1>8. event.base_version = 1 - 1 /\ event.result_version = 1
    BY <1>1
<1>9. event.event_type \in EventTypes /\ (First(1) => event.event_type = "create")
    BY <1>1 DEF EventTypes
<1> QED
    BY <1>1, <1>2, <1>5, <1>6, <1>7, <1>8, <1>9 DEF Explains

\* A later row with what the report expects of it.
LEMMA LaterExplained ==
    ASSUME NEW v \in Nat, v > 1, NEW prev, NEW next \in Snapshots,
           NEW type \in EventTypes, NEW ops, NEW result, result.document = next,
           NEW event, event = EventRow(type, v - 1, ops, result),
           Expected(FALSE, prev, event) = result
    PROVE  Explains(event, v, prev, next)
<1>1. /\ event.event_type = type /\ event.base_version = v - 1
      /\ event.result_version = (v - 1) + 1
      /\ event.inverse_patch = result.inverse_patch
      /\ event.changed_paths = result.changed_paths
      /\ event.before_values = result.before_values
      /\ event.after_values = result.after_values
    BY EventRowFields
<1>2. FieldsMatch(event, result)
    BY <1>1, RowMatches, SnapshotFacts
<1>3. First(v) = FALSE
    <2>1. v # 1
        OBVIOUS
    <2> QED
        BY <2>1, FirstLater, Zenon
<1>4. ExpectedAt(v, prev, event) = result
    BY <1>3, Zenon DEF ExpectedAt
<1>5. event.result_version = v
    BY <1>1
<1>6. First(v) => event.event_type = "create"
    BY <1>3, Zenon
<1> QED
    BY <1>1, <1>2, <1>4, <1>5, <1>6 DEF Explains

LEMMA UpdateExplained ==
    ASSUME NEW v \in Nat, v > 1, NEW prev \in Snapshots, NEW next \in Snapshots,
           NEW event, IsUpdate(event, v, prev, next)
    PROVE  Explains(event, v, prev, next) /\ event.patch \in RowPatches
<1>1. PICK ops \in EventPatches : /\ ops # << >> /\ PatchResult(prev, ops).document = next
                                  /\ event = EventRow("update", v - 1, ops, PatchResult(prev, ops))
    BY DEF IsUpdate
<1> DEFINE result == PatchResult(prev, ops)
<1>2. event.event_type = "update" /\ event.patch = ops
    <2> HIDE DEF result
    <2> QED
        BY <1>1, EventRowFields DEF result
<1>3. Expected(FALSE, prev, event) = result
    BY <1>1, <1>2 DEF Expected
<1>4. "update" \in EventTypes /\ result.document = next /\ ops \in RowPatches
    BY <1>1 DEF EventTypes, RowPatches
<1>5. event = EventRow("update", v - 1, ops, result)
    BY <1>1
<1> HIDE DEF result
<1> QED
    BY <1>2, <1>3, <1>4, <1>5, LaterExplained

LEMMA RollbackExplained ==
    ASSUME NEW v \in Nat, v > 1, NEW prev \in Snapshots, NEW next \in Snapshots,
           NEW event, IsRollback(event, v, prev, next)
    PROVE  Explains(event, v, prev, next) /\ event.patch \in RowPatches
<1> DEFINE result == RollbackResult(prev, next)
           ops == RootWrite("replace", next)
<1>1. event = EventRow("rollback", v - 1, ops, result)
    BY DEF IsRollback
<1>2. event.event_type = "rollback" /\ event.patch = ops
    <2> HIDE DEF result, ops
    <2> QED
        BY <1>1, EventRowFields
<1>3. RootReplacement(event, "replace") /\ event.patch[1].value = next
    BY <1>2, RootWriteFacts DEF RootReplacement
<1>4. Expected(FALSE, prev, event) = result
    BY <1>2, <1>3 DEF Expected
<1>5. "rollback" \in EventTypes /\ ops \in RowPatches
    BY DEF EventTypes, RowPatches
<1>6. result.document = next
    BY RollbackFields
<1> HIDE DEF result, ops
<1> QED
    BY <1>1, <1>2, <1>4, <1>5, <1>6, LaterExplained

LEMMA MarkExplained ==
    ASSUME NEW v \in Nat, v > 1, NEW prev \in Snapshots, NEW next \in Snapshots,
           NEW event, IsMark(event, v, prev, next)
    PROVE  Explains(event, v, prev, next) /\ event.patch \in RowPatches
<1> DEFINE result == MarkResult(prev)
           ops == << >>
<1>1. PICK type \in {"delete", "restore"} : event = EventRow(type, v - 1, ops, result)
    BY DEF IsMark
<1>2. event.event_type = type /\ event.patch = ops
    <2> HIDE DEF result, ops
    <2> QED
        BY <1>1, EventRowFields
<1>3. prev # Null /\ prev = next
    BY SnapshotFacts DEF IsMark
<1>4. Expected(FALSE, prev, event) = result
    BY <1>2, <1>3 DEF Expected
<1>5. type \in EventTypes /\ ops \in RowPatches
    BY DEF EventTypes, RowPatches
<1>6. result.document = next
    BY <1>3, MarkFields
<1> HIDE DEF result, ops
<1> QED
    BY <1>1, <1>2, <1>4, <1>5, <1>6, LaterExplained

LEMMA RowExplained ==
    ASSUME NEW log, NEW contents, Chain(log, contents), NEW v \in 1..Len(contents)
    PROVE  /\ Explains(log[v], v, StateOf(contents, v - 1), contents[v])
           /\ log[v].patch \in RowPatches
<1> DEFINE event == log[v]
           prev == StateOf(contents, v - 1)
           next == contents[v]
<1>0. Len(contents) \in Nat /\ v \in Nat /\ next \in Snapshots
    BY DEF Chain
<1>1. RowWritten(event, v, prev, next)
    BY DEF Chain
<1>2. CASE v = 1
    <2>1. prev = Null /\ IsCreate(event, next)
        BY <1>1, <1>2 DEF StateOf, RowWritten
    <2> HIDE DEF event, prev, next
    <2>2. Explains(event, 1, Null, next) /\ event.patch \in RowPatches
        BY <1>0, <2>1, CreateExplained
    <2> QED
        BY <1>2, <2>1, <2>2 DEF event, prev, next
<1>3. CASE v # 1
    <2>1. v > 1
        BY <1>0, <1>3
    <2>2. prev \in Snapshots
        BY <1>0, <2>1 DEF StateOf, Chain
    <2>3. \/ IsUpdate(event, v, prev, next) \/ IsRollback(event, v, prev, next)
          \/ IsMark(event, v, prev, next)
        BY <1>1, <1>3 DEF RowWritten
    <2> HIDE DEF event, prev, next
    <2>4. Explains(event, v, prev, next) /\ event.patch \in RowPatches
        <3>1. CASE IsUpdate(event, v, prev, next)
            BY <1>0, <2>1, <2>2, <3>1, UpdateExplained
        <3>2. CASE IsRollback(event, v, prev, next)
            BY <1>0, <2>1, <2>2, <3>2, RollbackExplained
        <3>3. CASE IsMark(event, v, prev, next)
            BY <1>0, <2>1, <2>2, <3>3, MarkExplained
        <3> QED
            BY <2>3, <3>1, <3>2, <3>3
    <2> QED
        BY <2>4 DEF event, prev, next
<1> QED
    BY <1>2, <1>3

\* What is stored and undamaged is a story, the one of the history.
LEMMA ChainIsStory ==
    ASSUME NEW log, NEW contents, Chain(log, contents), NEW st,
           \A v \in 0..Len(contents) : st[v] = StateOf(contents, v)
    PROVE  Story(log, st)
<1>0. Len(contents) \in Nat /\ Len(log) = Len(contents)
    BY DEF Chain
<1>1. st[0] = Null
    BY <1>0 DEF StateOf
<1>2. ASSUME NEW v \in 1..Len(log)
      PROVE  Explains(log[v], v, st[v - 1], st[v])
    <2>1. v \in 1..Len(contents) /\ v - 1 \in 0..Len(contents) /\ v \in 0..Len(contents) /\ v # 0
        BY <1>0
    <2>2. Explains(log[v], v, StateOf(contents, v - 1), contents[v])
        BY <2>1, RowExplained
    <2>3. st[v - 1] = StateOf(contents, v - 1) /\ st[v] = contents[v]
        BY <2>1 DEF StateOf
    <2> QED
        BY <2>2, <2>3
<1> QED
    BY <1>1, <1>2 DEF Story

-----------------------------------------------------------------------------
(* The rows with one field changed.                                         *)

RowFields ==
    { "event_type", "base_version", "result_version", "patch", "inverse_patch", "changed_paths",
      "before_values", "after_values" }

\* A change of a field; the patch becomes one that a client could have sent.
Changed(event, field, value) == [event EXCEPT ![field] = value]

ChangedAt(log, i, field, value) == [log EXCEPT ![i] = Changed(log[i], field, value)]

Sent(field, value) == field = "patch" => value \in EventPatches \cup {<< >>}

RowChanged(log, stored) ==
    \E i \in 1..Len(log), field \in RowFields : \E value :
        Sent(field, value) /\ stored = ChangedAt(log, i, field, value)

LEMMA ChangedOther ==
    ASSUME NEW type, NEW base, NEW ops, NEW result, NEW field \in RowFields, NEW value,
           field # "patch"
    PROVE  Changed(EventRow(type, base, ops, result), field, value).patch = ops
BY DEF Changed, EventRow, RowFields

LEMMA ChangedPatch ==
    ASSUME NEW type, NEW base, NEW ops, NEW result, NEW value, NEW event,
           event = Changed(EventRow(type, base, ops, result), "patch", value)
    PROVE  /\ event.event_type = type /\ event.patch = value
           /\ event.inverse_patch = result.inverse_patch
           /\ event.changed_paths = result.changed_paths
           /\ event.after_values = result.after_values
BY DEF Changed, EventRow

\* All rows are event rows.
LEMMA RowShape ==
    ASSUME NEW log, NEW contents, Chain(log, contents), NEW v \in 1..Len(contents)
    PROVE  \E type, base, ops, result : log[v] = EventRow(type, base, ops, result)
<1>1. RowWritten(log[v], v, StateOf(contents, v - 1), contents[v])
    BY DEF Chain
<1> QED
    BY <1>1 DEF RowWritten, IsCreate, IsUpdate, IsRollback, IsMark

\* A row of which the report says nothing though its patch is another: to the same effect.
LEMMA RowDamaged ==
    ASSUME NEW log, NEW contents, Chain(log, contents), NEW v \in 1..Len(contents),
           NEW alts \in EventPatches \cup {<< >>}, NEW other,
           Explains(Changed(log[v], "patch", alts), v, StateOf(contents, v - 1), other)
    PROVE  other = contents[v]
<1> DEFINE written == log[v]
           event == Changed(written, "patch", alts)
           prev == StateOf(contents, v - 1)
           next == contents[v]
<1>0. Len(contents) \in Nat /\ v \in Nat /\ next \in Snapshots /\ alts \in RowPatches
    BY DEF Chain, RowPatches
<1>1. RowWritten(written, v, prev, next)
    BY DEF Chain
<1>2. FieldsMatch(event, ExpectedAt(v, prev, event)) /\ ExpectedAt(v, prev, event).document = other
    BY DEF Explains
<1>3. CASE v = 1
    <2>1. prev = Null /\ IsCreate(written, next)
        BY <1>1, <1>3 DEF StateOf, RowWritten
    <2> HIDE DEF written, event, prev, next
    <2> DEFINE ops == RootWrite("add", next)
               result == CreateResult(next)
    <2>2. event = Changed(EventRow("create", 0, ops, result), "patch", alts)
        BY <2>1 DEF IsCreate, event
    <2>3. /\ result.inverse_patch = <<Removal(<< >>)>>
          /\ result.changed_paths = << << >> >>
          /\ result.after_values = <<Tracked(<< >>, next)>>
        BY CreateFields
    <2> HIDE DEF ops, result
    <2>4. /\ event.event_type = "create" /\ event.patch = alts
          /\ event.inverse_patch = result.inverse_patch
          /\ event.changed_paths = result.changed_paths
          /\ event.after_values = result.after_values
        BY <2>2, ChangedPatch
    <2>5. ExpectedAt(v, prev, event) = Expected(TRUE, Null, event)
        BY <1>3, <2>1, FirstOne, Zenon DEF ExpectedAt
    <2>6. Expected(TRUE, Null, event).document = next
        BY <1>0, <1>2, <2>3, <2>4, <2>5, CreateTells
    <2> QED
        BY <1>2, <2>5, <2>6 DEF next
<1>4. CASE v # 1
    <2>1. v > 1
        BY <1>0, <1>4
    <2>2. prev \in Snapshots
        BY <1>0, <2>1 DEF StateOf, Chain
    <2>3. \/ IsUpdate(written, v, prev, next) \/ IsRollback(written, v, prev, next)
          \/ IsMark(written, v, prev, next)
        BY <1>1, <1>4 DEF RowWritten
    <2> HIDE DEF written, event, prev, next
    <2>4. ExpectedAt(v, prev, event) = Expected(FALSE, prev, event)
        <3>1. First(v) = FALSE
            BY <1>4, FirstLater, Zenon
        <3> QED
            BY <3>1, Zenon DEF ExpectedAt
    <2>5. FieldsMatch(event, Expected(FALSE, prev, event))
        BY <1>2, <2>4
    <2>6. CASE IsUpdate(written, v, prev, next)
        <3>1. PICK ops \in EventPatches :
                    /\ ops # << >> /\ PatchResult(prev, ops).document = next
                    /\ written = EventRow("update", v - 1, ops, PatchResult(prev, ops))
            BY <2>6 DEF IsUpdate
        <3> DEFINE result == PatchResult(prev, ops)
        <3>2. event = Changed(EventRow("update", v - 1, ops, result), "patch", alts)
            BY <3>1 DEF event
        <3> HIDE DEF result
        <3>3. /\ event.event_type = "update" /\ event.patch = alts
              /\ event.inverse_patch = result.inverse_patch
              /\ event.changed_paths = result.changed_paths
              /\ event.after_values = result.after_values
            BY <3>2, ChangedPatch
        <3>4. ops \in RowPatches
            BY DEF RowPatches
        <3>5. Expected(FALSE, prev, event).document = PatchResult(prev, ops).document
            BY <1>0, <2>2, <2>5, <3>1, <3>3, <3>4, UpdateTells DEF result
        <3> QED
            BY <1>2, <2>4, <3>1, <3>5 DEF next
    <2>7. CASE IsRollback(written, v, prev, next)
        <3> DEFINE ops == RootWrite("replace", next)
                   result == RollbackResult(prev, next)
        <3>2. event = Changed(EventRow("rollback", v - 1, ops, result), "patch", alts)
            BY <2>7 DEF IsRollback, event
        <3>3. /\ result.inverse_patch = RootWrite("replace", prev)
              /\ result.after_values = ChangesTell(prev, next)
            BY RollbackFields
        <3> HIDE DEF ops, result
        <3>4. /\ event.event_type = "rollback" /\ event.patch = alts
              /\ event.inverse_patch = result.inverse_patch
              /\ event.after_values = result.after_values
            BY <3>2, ChangedPatch
        <3>5. Expected(FALSE, prev, event).document = next
            BY <1>0, <2>2, <2>5, <3>3, <3>4, RollbackTells
        <3> QED
            BY <1>2, <2>4, <3>5 DEF next
    <2>8. CASE IsMark(written, v, prev, next)
        <3> DEFINE result == MarkResult(prev)
                   ops == << >>
        <3>1. PICK type \in {"delete", "restore"} : written = EventRow(type, v - 1, ops, result)
            BY <2>8 DEF IsMark
        <3>2. event = Changed(EventRow(type, v - 1, ops, result), "patch", alts)
            BY <3>1 DEF event
        <3>3. result.inverse_patch = << >> /\ prev = next
            BY <2>8, MarkFields DEF IsMark
        <3> HIDE DEF ops, result
        <3>4. /\ event.event_type = type /\ event.patch = alts
              /\ event.inverse_patch = result.inverse_patch
            BY <3>2, ChangedPatch
        <3>5. Expected(FALSE, prev, event).document = prev
            BY <1>0, <2>2, <2>5, <3>3, <3>4, MarkTells
        <3> QED
            BY <1>2, <2>4, <3>3, <3>5 DEF next
    <2> QED
        BY <2>3, <2>6, <2>7, <2>8
<1> QED
    BY <1>3, <1>4

\* The rows after such a change: as many, one of them another, and each with a patch
\* that a row can have.
IsChanged(log, stored, length, i, field, value) ==
    /\ IsSequence(stored) /\ Len(stored) = length
    /\ \A v \in 1..length :
            /\ v # i => stored[v] = log[v]
            /\ v = i => stored[v] = Changed(log[v], field, value)
            /\ v # i \/ field # "patch" => stored[v].patch = log[v].patch
            /\ stored[v].patch \in RowPatches

LEMMA RowsAfterChange ==
    ASSUME NEW log, NEW contents, Chain(log, contents),
           NEW i \in 1..Len(log), NEW field \in RowFields, NEW value, Sent(field, value),
           NEW stored, stored = ChangedAt(log, i, field, value)
    PROVE  IsChanged(log, stored, Len(contents), i, field, value)
<1> DEFINE damaged == Changed(log[i], field, value)
           L == Len(contents)
<1>1. PICK S : log \in Seq(S)
    BY DEF Chain, IsSequence
<1>2. L \in Nat /\ Len(log) = L /\ i \in 1..L
    BY DEF Chain
<1>3. stored \in Seq(S \cup {damaged}) /\ Len(stored) = L
    <2> HIDE DEF damaged
    <2>1. log \in Seq(S \cup {damaged})
        BY <1>1, SeqMonotonic
    <2>2. stored = [log EXCEPT ![i] = damaged]
        BY DEF damaged, ChangedAt
    <2> HIDE DEF L
    <2> QED
        BY <1>2, <2>1, <2>2
<1>4. ASSUME NEW v \in 1..L
      PROVE  /\ v # i => stored[v] = log[v]
             /\ v = i => stored[v] = damaged
    <2> HIDE DEF damaged
    <2>1. stored = [log EXCEPT ![i] = damaged]
        BY DEF damaged, ChangedAt
    <2>2. DOMAIN log = 1..L
        BY <1>1, <1>2
    <2> QED
        BY <2>1, <2>2
<1>5. ASSUME NEW v \in 1..L
      PROVE  /\ v # i \/ field # "patch" => stored[v].patch = log[v].patch
             /\ stored[v].patch \in RowPatches
    <2>1. log[v].patch \in RowPatches
        BY RowExplained
    <2>2. CASE v # i
        BY <1>4, <2>1, <2>2
    <2>3. CASE v = i
        <3>1. stored[v] = Changed(log[v], field, value)
            BY <1>4, <2>3
        <3>2. PICK type, base, ops, result : log[v] = EventRow(type, base, ops, result)
            BY RowShape
        <3>3. CASE field = "patch"
            <4>1. stored[v].patch = value
                BY <3>1, <3>2, <3>3, ChangedPatch
            <4> QED
                BY <2>3, <3>3, <4>1 DEF RowPatches, Sent
        <3>4. CASE field # "patch"
            <4>1. stored[v].patch = ops
                BY <3>1, <3>2, <3>4, ChangedOther
            <4>2. log[v].patch = ops
                BY <3>2, EventRowFields
            <4> QED
                BY <2>1, <4>1, <4>2
        <3> QED
            BY <3>3, <3>4
    <2> QED
        BY <2>2, <2>3
<1>6. IsSequence(stored)
    BY <1>3 DEF IsSequence
<1> HIDE DEF L
<1> QED
    BY <1>3, <1>4, <1>5, <1>6 DEF L, IsChanged

\* If they are a story still, it is the story of the history.
LEMMA DamagedStory ==
    ASSUME NEW log, NEW contents, Chain(log, contents), NEW stored, RowChanged(log, stored),
           NEW st, Story(stored, st)
    PROVE  /\ IsSequence(stored) /\ Len(stored) = Len(contents)
           /\ \A v \in 1..Len(contents) : st[v] = contents[v] /\ stored[v].patch \in RowPatches
<1>0. PICK i \in 1..Len(log), field \in RowFields : \E value :
            Sent(field, value) /\ stored = ChangedAt(log, i, field, value)
    BY DEF RowChanged
<1>1. PICK value : Sent(field, value) /\ stored = ChangedAt(log, i, field, value)
    BY <1>0
<1>2. /\ IsSequence(stored) /\ Len(stored) = Len(contents)
      /\ \A v \in 1..Len(contents) :
            /\ v # i => stored[v] = log[v]
            /\ v = i => stored[v] = Changed(log[v], field, value)
            /\ v # i \/ field # "patch" => stored[v].patch = log[v].patch
            /\ stored[v].patch \in RowPatches
    <2>1. IsChanged(log, stored, Len(contents), i, field, value)
        BY <1>1, RowsAfterChange
    <2> QED
        BY <2>1 DEF IsChanged
<1> DEFINE L == Len(contents)
           A == {v \in 0..L : st[v] = StateOf(contents, v)}
<1>3. L \in Nat /\ Len(log) = L
    BY DEF Chain
<1>4. 0 \in A
    BY <1>3 DEF Story, StateOf
<1>5. ASSUME NEW v \in 1..L, v - 1 \in A
      PROVE  v \in A
    <2>0. v \in 0..L /\ v # 0
        BY <1>3
    <2>1. st[v - 1] = StateOf(contents, v - 1)
        BY <1>5
    <2>2. Explains(stored[v], v, st[v - 1], st[v])
        BY <1>2 DEF Story
    <2>3. CASE v = i /\ field = "patch"
        <3>1. Explains(Changed(log[v], "patch", value), v, StateOf(contents, v - 1), st[v])
            BY <1>2, <2>1, <2>2, <2>3
        <3>2. st[v] = contents[v]
            BY <1>1, <2>3, <3>1, RowDamaged DEF Sent
        <3> QED
            BY <2>0, <3>2 DEF StateOf
    <2>4. CASE ~(v = i /\ field = "patch")
        <3>1. stored[v].patch = log[v].patch /\ stored[v].patch \in RowPatches
            BY <1>2, <2>4
        <3>2. IsSequence(stored[v].patch)
            BY <3>1, RowPatchFacts DEF IsSequence
        <3>3. st[v] = Effect(st[v - 1], stored[v].patch)
            <4>1. PICK S : stored \in Seq(S)
                BY <1>2 DEF IsSequence
            <4>2. v \in 1..Len(stored)
                BY <1>2
            <4> QED
                BY <3>2, <4>1, <4>2, StoryEffects
        <3>4. contents[v] = Effect(StateOf(contents, v - 1), log[v].patch)
            <4> DEFINE plain == [n \in 0..L |-> StateOf(contents, n)]
            <4>1. \A n \in 0..Len(contents) : plain[n] = StateOf(contents, n)
                OBVIOUS
            <4>2. plain[v] = contents[v] /\ plain[v - 1] = StateOf(contents, v - 1)
                BY <1>3, <2>0 DEF StateOf
            <4> HIDE DEF plain
            <4>3. Story(log, plain)
                BY <4>1, ChainIsStory
            <4>4. PICK S : log \in Seq(S)
                BY DEF Chain, IsSequence
            <4>5. v \in 1..Len(log) /\ IsSequence(log[v].patch)
                BY <1>3, <3>1, <3>2
            <4>6. plain[v] = Effect(plain[v - 1], log[v].patch)
                BY <4>3, <4>4, <4>5, StoryEffects
            <4> QED
                BY <4>2, <4>6
        <3> QED
            BY <2>0, <2>1, <3>1, <3>3, <3>4 DEF StateOf
    <2> QED
        BY <2>3, <2>4
<1>6. ASSUME NEW v \in 1..L
      PROVE  st[v] = contents[v]
    <2>1. v \in Nat /\ v # 0
        BY <1>3
    <2>2. ASSUME NEW n \in 1..v, n - 1 \in A
          PROVE  n \in A
        <3>1. n \in 1..L
            BY <1>3
        <3> QED
            BY <1>5, <2>2, <3>1
    <2>3. v \in A
        <3> HIDE DEF A
        <3> QED
            BY <1>4, <2>1, <2>2, StepByStep
    <2> QED
        BY <2>1, <2>3 DEF StateOf
<1> QED
    BY <1>2, <1>6

-----------------------------------------------------------------------------
(* Forwards and backwards.                                                  *)

\* The stored inverse of a row leads back, if the report says nothing against it.
LEMMA InverseLeadsBack ==
    ASSUME NEW v \in Nat, v > 1, NEW prev \in Snapshots, NEW next \in Snapshots,
           NEW event, event.patch \in RowPatches, event.patch # << >>,
           Explains(event, v, prev, next)
    PROVE  PatchResult(next, event.inverse_patch).document = prev
<1> DEFINE ops == event.patch
           expected == Expected(FALSE, prev, event)
<1>0. IsJson(prev) /\ prev # Failed /\ next # Failed
    BY SnapshotFacts
<1>1. expected.inverse_patch = event.inverse_patch /\ expected.document = next
    <2>1. First(v) = FALSE
        <3>1. v # 1
            OBVIOUS
        <3> QED
            BY <3>1, FirstLater, Zenon
    <2>2. ExpectedAt(v, prev, event) = expected
        BY <2>1, Zenon DEF ExpectedAt
    <2>3. FieldsMatch(event, expected) /\ expected.document = next
        BY <2>2 DEF Explains
    <2> HIDE DEF expected
    <2> QED
        BY <2>3, FieldsMatchFacts
<1>2. CASE event.event_type = "rollback" /\ RootReplacement(event, "replace")
    <2> DEFINE value == ops[1].value
               back == Operation("replace", << >>, prev)
    <2>1. expected = RollbackResult(prev, value)
        BY <1>2 DEF Expected
    <2> HIDE DEF expected, value
    <2>2. event.inverse_patch = <<back>>
        BY <1>1, <2>1, RollbackFields DEF RootWrite
    <2>3. ApplySingle(next, back) = prev
        BY DEF ApplySingle, Operation
    <2> HIDE DEF back
    <2>4. PatchResult(next, <<back>>).document = prev
        BY <1>0, <2>3, OneResult
    <2> QED
        BY <2>2, <2>4
<1>3. CASE ~(event.event_type = "rollback" /\ RootReplacement(event, "replace"))
    <2>1. expected = PatchResult(prev, ops)
        BY <1>3 DEF Expected
    <2> DEFINE S == Range(ops)
    <2>2. ops \in Seq(S) /\ (\A op \in S : Applicable(op)) /\ TokensSuffice(prev, ops)
        BY RowPatchFacts
    <2>3. PatchResult(prev, ops).document = next /\ PatchResult(prev, ops).inverse_patch = event.inverse_patch
        BY <1>1, <2>1
    <2> HIDE DEF S, ops, expected
    <2>4. Applied(PatchResult(prev, ops).document, PatchResult(prev, ops).inverse_patch) = prev
        BY <1>0, <2>2, <2>3, PatchUndone
    <2>5. IsSequence(event.inverse_patch)
        BY <1>0, <2>2, <2>3, ResultShape
    <2>6. PICK T : event.inverse_patch \in Seq(T)
        BY <2>5 DEF IsSequence
    <2>7. PatchResult(next, event.inverse_patch).document = Applied(next, event.inverse_patch)
        BY <2>6, ResultShape
    <2> QED
        BY <2>3, <2>4, <2>7
<1> QED
    BY <1>2, <1>3

\* Stored rows that are a story tell the history.
LEMMA StoryTells ==
    ASSUME NEW contents \in Seq(Snapshots), NEW stored, IsSequence(stored),
           Len(stored) = Len(contents), NEW st, Story(stored, st),
           \A v \in 1..Len(contents) : st[v] = contents[v] /\ stored[v].patch \in RowPatches
    PROVE  \A v \in DOMAIN contents :
                /\ Replayed(stored, v) = contents[v]
                /\ v > 1 /\ stored[v].patch # << >> =>
                    PatchResult(contents[v], stored[v].inverse_patch).document = contents[v - 1]
<1>1. PICK S : stored \in Seq(S)
    BY DEF IsSequence
<1>2. Len(contents) \in Nat /\ DOMAIN contents = 1..Len(contents)
    BY LenProperties
<1>3. \A n \in 1..Len(stored) : IsSequence(stored[n].patch)
    BY RowPatchFacts DEF IsSequence
<1>4. ASSUME NEW v \in 1..Len(contents)
      PROVE  Replayed(stored, v) = contents[v]
    <2>1. v \in 0..Len(stored)
        BY <1>2
    <2>2. Replayed(stored, v) = st[v]
        BY <1>1, <1>3, <2>1, StoryReplays
    <2> QED
        BY <2>2
<1>5. ASSUME NEW v \in 1..Len(contents), v > 1, stored[v].patch # << >>
      PROVE  PatchResult(contents[v], stored[v].inverse_patch).document = contents[v - 1]
    <2> DEFINE event == stored[v]
               prev == contents[v - 1]
               next == contents[v]
    <2>1. v \in Nat /\ v - 1 \in 1..Len(contents)
        BY <1>2, <1>5
    <2>2. prev \in Snapshots /\ next \in Snapshots
        BY <1>2, <2>1
    <2>3. Explains(event, v, st[v - 1], st[v])
        BY DEF Story
    <2>4. Explains(event, v, prev, next) /\ event.patch \in RowPatches /\ event.patch # << >>
        BY <1>5, <2>1, <2>3
    <2> HIDE DEF event, prev, next
    <2>5. PatchResult(next, event.inverse_patch).document = prev
        BY <1>5, <2>1, <2>2, <2>4, InverseLeadsBack
    <2> QED
        BY <2>5 DEF event, prev, next
<1> QED
    BY <1>2, <1>4, <1>5

-----------------------------------------------------------------------------
(* The invariant: under whatever the fault has changed, the rows are those  *)
(* of the history.                                                          *)

\* What the fault has left of the rows.
Stored(log) ==
    \/ damage \in {"none", "snapshot", "current_version", "deleted"} /\ rows = log
    \/ damage \in RowFields /\ RowChanged(log, rows)
    \/ damage = "row" /\ \E i \in 1..Len(log) : rows = RemoveAt(log, i)

HistoryStored == \E log : Chain(log, history) /\ Stored(log)

\* The row of the document is that of the last version.
RowIsLast ==
    /\ history # << >>
    /\ row = [ snapshot |-> row.snapshot, current_version |-> row.current_version,
               deleted |-> row.deleted ]
    /\ row.snapshot \in Snapshots
    /\ damage # "snapshot" => row.snapshot = Last(history)
    /\ damage # "current_version" <=> row.current_version = Len(history)

\* What the check has read is the row, or one of an earlier version.
ReadIsPast ==
    read # Failed =>
        /\ damage # "none" => read = row
        /\ \/ read = row
           \/ read.current_version \in Nat /\ read.current_version < Len(history)

ChainInv ==
    /\ HistoryStored /\ RowIsLast /\ ReadIsPast
    /\ report.chain # "none" => read # Failed
    /\ ReportsTell

LEMMA ReplayIsReplayed ==
    ASSUME NEW version
    PROVE  Replay(version) = Replayed(rows, version)
BY DEF Replay, Replayed

LEMMA ChainOkFacts ==
    ASSUME ChainOk
    PROVE  /\ rows # << >> /\ Checked(rows).ok
           /\ Equal(Checked(rows).state, read.snapshot)
           /\ LatestVersion = read.current_version
BY DEF ChainOk, Checked

LEMMA ChainOkMade ==
    ASSUME rows # << >>, Checked(rows).ok, Equal(Checked(rows).state, read.snapshot),
           LatestVersion = read.current_version
    PROVE  ChainOk
BY DEF ChainOk, Checked

LEMMA EqualIsEquality ==
    ASSUME NEW x \in Snapshots, NEW y \in Snapshots
    PROVE  Equal(x, y) <=> x = y
BY ChainAssumption

\* The story of a history.
Plain(contents) == [v \in 0..Len(contents) |-> StateOf(contents, v)]

LEMMA PlainFacts ==
    ASSUME NEW log, NEW contents, Chain(log, contents), contents # << >>
    PROVE  /\ Story(log, Plain(contents))
           /\ Len(contents) \in Nat /\ Len(contents) > 0
           /\ Plain(contents)[Len(contents)] = Last(contents) /\ Last(contents) \in Snapshots
           /\ \A v \in 1..Len(contents) : Plain(contents)[v] = contents[v]
<1>1. contents \in Seq(Snapshots) /\ Len(contents) \in Nat /\ Len(contents) > 0
    BY DEF Chain
<1>2. \A v \in 0..Len(contents) : Plain(contents)[v] = StateOf(contents, v)
    BY DEF Plain
<1>3. Story(log, Plain(contents))
    <2> DEFINE st == Plain(contents)
    <2>1. \A v \in 0..Len(contents) : st[v] = StateOf(contents, v)
        BY <1>2
    <2> HIDE DEF st
    <2>2. Story(log, st)
        BY <2>1, ChainIsStory
    <2> QED
        BY <2>2 DEF st
<1>4. \A v \in 1..Len(contents) : Plain(contents)[v] = contents[v]
    BY <1>1, <1>2 DEF StateOf
<1>5. Last(contents) = contents[Len(contents)] /\ Last(contents) \in Snapshots
    BY <1>1 DEF Last
<1>6. Len(contents) \in 1..Len(contents)
    BY <1>1
<1> QED
    BY <1>1, <1>3, <1>4, <1>5, <1>6

\* The last of the rows that are a story has their number as its version.
LEMMA LatestOfStory ==
    ASSUME IsSequence(rows), rows # << >>, NEW st, Story(rows, st)
    PROVE  LatestVersion = Len(rows)
<1>1. Len(rows) \in Nat /\ Len(rows) \in 1..Len(rows)
    BY DEF IsSequence
<1>2. Explains(rows[Len(rows)], Len(rows), st[Len(rows) - 1], st[Len(rows)])
    BY <1>1 DEF Story
<1>3. rows[Len(rows)].result_version = Len(rows)
    BY <1>2 DEF Explains
<1> QED
    BY <1>3 DEF LatestVersion, Last

\* Rows that the fault has left alone.
LEMMA CleanRows ==
    ASSUME NEW log, Chain(log, history), rows = log, RowIsLast
    PROVE  /\ IsSequence(rows) /\ rows # << >> /\ Len(rows) = Len(history)
           /\ \A n \in 1..Len(rows) : IsSequence(rows[n].patch) /\ rows[n].patch \in RowPatches
           /\ Story(rows, Plain(history))
           /\ LatestVersion = Len(history)
           /\ Replay(Len(history)) = Last(history)
           /\ Checked(rows).ok /\ Checked(rows).state = Last(history)
<1>1. history # << >>
    BY DEF RowIsLast
<1>2. /\ Story(rows, Plain(history)) /\ Len(history) \in Nat /\ Len(history) > 0
      /\ Plain(history)[Len(history)] = Last(history)
    BY <1>1, PlainFacts
<1>3. IsSequence(rows) /\ Len(rows) = Len(history)
    BY DEF Chain
<1>4. rows # << >>
    <2>1. Len(rows) # 0
        BY <1>2, <1>3
    <2> QED
        BY <2>1
<1>5. ASSUME NEW n \in 1..Len(rows)
      PROVE  IsSequence(rows[n].patch) /\ rows[n].patch \in RowPatches
    <2>1. rows[n].patch \in RowPatches
        BY <1>3, RowExplained
    <2> QED
        BY <2>1, RowPatchFacts DEF IsSequence
<1>6. LatestVersion = Len(history)
    BY <1>2, <1>3, <1>4, LatestOfStory
<1>7. PICK S : rows \in Seq(S)
    BY <1>3 DEF IsSequence
<1> DEFINE st == Plain(history)
           L == Len(history)
<1>8. Replay(L) = Last(history)
    <2>1. L \in 0..Len(rows)
        BY <1>2, <1>3
    <2>2. Story(rows, st) /\ st[L] = Last(history)
        BY <1>2
    <2> HIDE DEF st, L
    <2>3. Replayed(rows, L) = st[L]
        BY <1>5, <1>7, <2>1, <2>2, StoryReplays
    <2> QED
        BY <2>2, <2>3, ReplayIsReplayed
<1>9. Checked(rows).ok /\ Checked(rows).state = Last(history)
    <2>1. Story(rows, st) /\ st[Len(rows)] = Last(history)
        BY <1>2, <1>3
    <2> HIDE DEF st
    <2> QED
        BY <1>7, <2>1, StoryIsOk
<1> QED
    BY <1>2, <1>3, <1>4, <1>5, <1>6, <1>8, <1>9

LEMMA HealthyPasses ==
    ASSUME HistoryStored, RowIsLast, damage = "none", read = row
    PROVE  ReplayOk /\ ChainOk
<1>1. PICK log : Chain(log, history) /\ rows = log
    BY DEF HistoryStored, Stored, RowFields
<1>2. /\ rows # << >> /\ LatestVersion = Len(history)
      /\ Replay(Len(history)) = Last(history)
      /\ Checked(rows).ok /\ Checked(rows).state = Last(history)
    BY <1>1, CleanRows
<1>3. read.snapshot = Last(history) /\ read.current_version = Len(history)
    BY DEF RowIsLast
<1>4. Equal(Last(history), read.snapshot)
    <2>1. read.snapshot \in Snapshots
        BY DEF RowIsLast
    <2> QED
        BY <1>3, <2>1, EqualIsEquality
<1>5. ReplayOk
    BY <1>2, <1>3, <1>4 DEF ReplayOk
<1>6. ChainOk
    BY <1>2, <1>3, <1>4, ChainOkMade
<1> QED
    BY <1>5, <1>6

LEMMA ReplayTells ==
    ASSUME HistoryStored, RowIsLast, ReadIsPast, read # Failed, ReplayOk
    PROVE  read = row /\ row.snapshot = Last(history)
<1>1. PICK log : Chain(log, history) /\ Stored(log)
    BY DEF HistoryStored
<1>2. /\ LatestVersion = read.current_version
      /\ Equal(Replay(read.current_version), read.snapshot)
    BY DEF ReplayOk
<1>3. Len(history) \in Nat
    BY <1>1 DEF Chain
<1>4. CASE damage = "none"
    <2>1. rows = log
        BY <1>1, <1>4 DEF Stored, RowFields
    <2>2. LatestVersion = Len(history)
        BY <1>1, <2>1, CleanRows
    <2>3. read = row
        BY <1>2, <1>3, <2>2 DEF ReadIsPast
    <2> QED
        BY <1>4, <2>3 DEF RowIsLast
<1>5. CASE damage \notin {"none", "snapshot", "current_version"}
    BY <1>5 DEF ReadIsPast, RowIsLast
<1>6. CASE damage \in {"snapshot", "current_version"}
    <2>1. rows = log /\ read = row
        BY <1>1, <1>6 DEF Stored, RowFields, ReadIsPast
    <2>2. LatestVersion = Len(history) /\ Replay(Len(history)) = Last(history)
        BY <1>1, <2>1, CleanRows
    <2>3. read.current_version = Len(history)
        BY <1>2, <2>2
    <2>4. Equal(Last(history), row.snapshot)
        BY <1>2, <2>1, <2>2, <2>3
    <2>5. row.snapshot \in Snapshots /\ Last(history) \in Snapshots
        BY <1>1, PlainFacts DEF RowIsLast
    <2>6. row.snapshot = Last(history)
        BY <2>4, <2>5, EqualIsEquality
    <2> QED
        BY <2>1, <2>6
<1> QED
    BY <1>4, <1>5, <1>6

\* A missing row shows in the versions.
LEMMA LostRowShows ==
    ASSUME NEW log, Chain(log, history), RowIsLast, damage = "row", read = row,
           NEW i \in 1..Len(log), rows = RemoveAt(log, i), ChainOk
    PROVE  FALSE
<1> DEFINE L == Len(history)
<1>1. PICK S : log \in Seq(S)
    BY DEF Chain, IsSequence
<1>2. L \in Nat /\ Len(log) = L /\ i \in 1..L
    BY DEF Chain
<1>3. /\ rows \in Seq(S) /\ Len(rows) = L - 1
      /\ \A j \in 1..(L - 1) : rows[j] = IF j < i THEN log[j] ELSE log[j + 1]
    <2>1. IsRemoval(rows, log, i, S)
        BY <1>1, <1>2, RemoveFacts
    <2> QED
        BY <1>2, <2>1 DEF IsRemoval
<1>4. rows # << >> /\ Checked(rows).ok /\ LatestVersion = read.current_version
    BY ChainOkFacts
<1>5. PICK st : Story(rows, st)
    BY <1>3, <1>4, StoryOfOk
<1>6. CASE i = L
    <2>1. LatestVersion = L - 1
        <3>1. IsSequence(rows)
            BY <1>3 DEF IsSequence
        <3> QED
            BY <1>3, <1>4, <1>5, <3>1, LatestOfStory
    <2>2. read.current_version = L
        BY DEF RowIsLast
    <2>3. L \in Nat
        BY <1>2
    <2>4. L - 1 = L
        BY <1>4, <2>1, <2>2
    <2> HIDE DEF L
    <2> QED
        BY <2>3, <2>4
<1>7. CASE i # L
    <2>1. i \in 1..Len(rows) /\ rows[i] = log[i + 1] /\ i + 1 \in 1..Len(history)
        BY <1>2, <1>3, <1>7
    <2>2. Explains(rows[i], i, st[i - 1], st[i])
        BY <1>5, <2>1 DEF Story
    <2>3. rows[i].result_version = i
        BY <2>2 DEF Explains
    <2> DEFINE next == i + 1
    <2>4. log[next].result_version = next
        <3>1. next \in 1..Len(history)
            BY <2>1
        <3> HIDE DEF next
        <3>2. Explains(log[next], next, StateOf(history, next - 1), history[next])
            BY <3>1, RowExplained
        <3> QED
            BY <3>2 DEF Explains
    <2> QED
        BY <1>2, <2>1, <2>3, <2>4
<1> QED
    BY <1>6, <1>7

\* The event-chain report: what it says of the rows, and that the other says it too.
LEMMA ChainTells ==
    ASSUME HistoryStored, RowIsLast, ReadIsPast, read # Failed, ChainOk
    PROVE  ReplayOk /\ RowsTellHistory
<1>1. PICK log : Chain(log, history) /\ Stored(log)
    BY DEF HistoryStored
<1>2. /\ rows # << >> /\ Checked(rows).ok
      /\ Equal(Checked(rows).state, read.snapshot)
      /\ LatestVersion = read.current_version
    BY ChainOkFacts
<1> DEFINE Agrees(st) ==
        /\ IsSequence(rows) /\ Len(rows) = Len(history)
        /\ Story(rows, st)
        /\ \A v \in 1..Len(history) : st[v] = history[v] /\ rows[v].patch \in RowPatches
<1>3. \E st : Agrees(st)
    <2>1. CASE rows = log
        <3>1. /\ IsSequence(rows) /\ Len(rows) = Len(history) /\ Story(rows, Plain(history))
              /\ \A n \in 1..Len(rows) : rows[n].patch \in RowPatches
            BY <1>1, <2>1, CleanRows
        <3>2. \A v \in 1..Len(history) : Plain(history)[v] = history[v]
            BY <1>1, PlainFacts DEF RowIsLast
        <3> DEFINE st == Plain(history)
        <3>3. Agrees(st)
            BY <3>1, <3>2
        <3> HIDE DEF st, Agrees
        <3> QED
            BY <3>3
    <2>2. CASE RowChanged(log, rows)
        <3>1. IsSequence(rows)
            <4>0. PICK i \in 1..Len(log), field \in RowFields : \E value :
                        Sent(field, value) /\ rows = ChangedAt(log, i, field, value)
                BY <2>2 DEF RowChanged
            <4>1. PICK value : Sent(field, value) /\ rows = ChangedAt(log, i, field, value)
                BY <4>0
            <4>2. IsChanged(log, rows, Len(history), i, field, value)
                BY <1>1, <4>1, RowsAfterChange
            <4> QED
                BY <4>2 DEF IsChanged
        <3>2. PICK S : rows \in Seq(S)
            BY <3>1 DEF IsSequence
        <3>3. PICK st : Story(rows, st)
            BY <1>2, <3>2, StoryOfOk
        <3>4. /\ IsSequence(rows) /\ Len(rows) = Len(history)
              /\ \A v \in 1..Len(history) : st[v] = history[v] /\ rows[v].patch \in RowPatches
            BY <1>1, <2>2, <3>3, DamagedStory
        <3> QED
            BY <3>3, <3>4
    <2>3. CASE damage = "row" /\ \E i \in 1..Len(log) : rows = RemoveAt(log, i)
        <3>1. PICK i \in 1..Len(log) : rows = RemoveAt(log, i)
            BY <2>3
        <3>2. read = row
            BY <2>3 DEF ReadIsPast
        <3> QED
            BY <1>1, <2>3, <3>1, <3>2, LostRowShows
    <2> QED
        BY <1>1, <2>1, <2>2, <2>3 DEF Stored
<1>4. PICK st : Agrees(st)
    BY <1>3
<1>5. PICK S : rows \in Seq(S)
    BY <1>4 DEF IsSequence
<1>6. \A n \in 1..Len(rows) : IsSequence(rows[n].patch)
    BY <1>4, RowPatchFacts DEF IsSequence
<1>7. ReplayOk
    <2> DEFINE L == Len(rows)
    <2>1. LatestVersion = L
        BY <1>2, <1>4, LatestOfStory
    <2>2. Replay(L) = st[L]
        <3>1. L \in 0..Len(rows)
            BY <1>5, LenProperties
        <3> HIDE DEF L
        <3>2. Replayed(rows, L) = st[L]
            BY <1>4, <1>5, <1>6, <3>1, StoryReplays
        <3> QED
            BY <3>2, ReplayIsReplayed
    <2>3. Checked(rows).state = st[L]
        BY <1>4, <1>5, StoryIsOk
    <2> HIDE DEF L
    <2> QED
        BY <1>2, <2>1, <2>2, <2>3 DEF ReplayOk
<1>8. RowsTellHistory
    <2>1. history \in Seq(Snapshots)
        BY <1>1 DEF Chain
    <2>2. \A v \in DOMAIN history :
                /\ Replayed(rows, v) = history[v]
                /\ v > 1 /\ rows[v].patch # << >> =>
                    PatchResult(history[v], rows[v].inverse_patch).document = history[v - 1]
        BY <1>4, <2>1, StoryTells
    <2>3. \A v : Replay(v) = Replayed(rows, v)
        BY ReplayIsReplayed
    <2> QED
        BY <1>4, <2>2, <2>3 DEF RowsTellHistory
<1> QED
    BY <1>7, <1>8

-----------------------------------------------------------------------------
(* The invariant, step by step.                                             *)

LEMMA LastOf ==
    ASSUME NEW S, NEW s \in Seq(S), s # << >>
    PROVE  Last(s) = s[Len(s)] /\ Last(s) \in S /\ Len(s) \in Nat /\ Len(s) > 0
BY DEF Last

\* One more version with its row.
LEMMA ChainGrows ==
    ASSUME NEW log, NEW contents, Chain(log, contents), contents # << >>,
           NEW next \in Snapshots, NEW event,
           \/ IsUpdate(event, Len(contents) + 1, Last(contents), next)
           \/ IsRollback(event, Len(contents) + 1, Last(contents), next)
           \/ IsMark(event, Len(contents) + 1, Last(contents), next)
    PROVE  Chain(Append(log, event), Append(contents, next))
<1> DEFINE L == Len(contents)
           longer == Append(log, event)
           more == Append(contents, next)
           n == L + 1
<1>1. PICK S : log \in Seq(S) /\ event \in S
    BY SequencesEnclosed DEF Chain
<1>2. contents \in Seq(Snapshots) /\ Len(log) = L /\ L \in Nat /\ L > 0 /\ n \in Nat /\ n > 1
    BY LastOf DEF Chain
<1>3. /\ longer \in Seq(S) /\ Len(longer) = n /\ longer[n] = event
      /\ \A v \in 1..L : longer[v] = log[v]
    BY <1>1, <1>2, AppendProperties
<1>4. /\ more \in Seq(Snapshots) /\ Len(more) = n /\ more[n] = next
      /\ \A v \in 1..L : more[v] = contents[v]
    BY <1>2, AppendProperties
<1>5. ASSUME NEW v \in 1..n
      PROVE  RowWritten(longer[v], v, StateOf(more, v - 1), more[v])
    <2>1. CASE v = n
        <3>1. StateOf(more, v - 1) = Last(contents)
            <4>1. v - 1 = L /\ L # 0 /\ L \in 1..L
                BY <1>2, <2>1
            <4> HIDE DEF more
            <4>2. StateOf(more, v - 1) = contents[L]
                BY <1>4, <4>1 DEF StateOf
            <4>3. Last(contents) = contents[L]
                BY <1>2, LastOf
            <4> QED
                BY <4>2, <4>3
        <3> DEFINE prev == Last(contents)
        <3>2. \/ IsUpdate(event, n, prev, next) \/ IsRollback(event, n, prev, next)
              \/ IsMark(event, n, prev, next)
            OBVIOUS
        <3>3. n # 1
            BY <1>2
        <3> HIDE DEF prev, n
        <3>4. RowWritten(event, n, prev, next)
            BY <3>2, <3>3 DEF RowWritten
        <3> QED
            BY <1>3, <1>4, <2>1, <3>1, <3>4 DEF prev
    <2>2. CASE v # n
        <3>1. v \in 1..L
            BY <1>2, <2>2
        <3>2. RowWritten(log[v], v, StateOf(contents, v - 1), contents[v])
            BY <3>1 DEF Chain
        <3>3. StateOf(more, v - 1) = StateOf(contents, v - 1)
            <4>1. v - 1 = 0 \/ v - 1 \in 1..L
                BY <1>2, <3>1
            <4> HIDE DEF more
            <4> QED
                BY <1>4, <4>1 DEF StateOf
        <3> HIDE DEF more, longer
        <3> QED
            BY <1>3, <1>4, <3>1, <3>2, <3>3
    <2> QED
        BY <2>1, <2>2
<1>6. IsSequence(longer) /\ Len(longer) = Len(more)
    BY <1>3, <1>4 DEF IsSequence
<1> HIDE DEF longer, more, n
<1>7. Chain(longer, more)
    BY <1>4, <1>5, <1>6 DEF Chain
<1> QED
    BY <1>7 DEF longer, more

LEMMA ChainStarts ==
    ASSUME NEW content \in Snapshots, NEW event, IsCreate(event, content)
    PROVE  Chain(<<event>>, <<content>>)
<1> DEFINE log == <<event>>
           contents == <<content>>
<1>1. IsSequence(log) /\ Len(log) = 1 /\ log[1] = event
    BY OneFacts
<1>2. contents \in Seq(Snapshots) /\ Len(contents) = 1 /\ contents[1] = content
    OBVIOUS
<1> HIDE DEF log, contents
<1>3. ASSUME NEW v \in 1..Len(contents)
      PROVE  RowWritten(log[v], v, StateOf(contents, v - 1), contents[v])
    <2>1. v = 1
        BY <1>2
    <2> QED
        BY <1>1, <1>2, <2>1 DEF RowWritten
<1>4. Chain(log, contents)
    BY <1>1, <1>2, <1>3 DEF Chain
<1> QED
    BY <1>4 DEF log, contents

LEMMA ChainInitInv == ChainInit => ChainInv
<1> SUFFICES ASSUME ChainInit
             PROVE  ChainInv
    OBVIOUS
<1>1. PICK content \in Contents :
        /\ rows = <<EventRow("create", 0, <<Operation("add", << >>, content)>>,
                             CreateResult(content))>>
        /\ row = [snapshot |-> content, current_version |-> 1, deleted |-> FALSE]
        /\ history = <<content>>
    BY DEF ChainInit
<1>2. damage = "none" /\ read = Failed /\ report.chain = "none"
    BY DEF ChainInit
<1>3. content \in Snapshots
    BY ChainAssumption
<1>4. HistoryStored
    <2> DEFINE event == EventRow("create", 0, RootWrite("add", content), CreateResult(content))
    <2>1. IsCreate(event, content) /\ rows = <<event>>
        BY <1>1 DEF IsCreate, RootWrite
    <2> HIDE DEF event
    <2>2. Chain(<<event>>, <<content>>)
        BY <1>3, <2>1, ChainStarts
    <2>3. Chain(rows, history) /\ Stored(rows)
        BY <1>1, <1>2, <2>1, <2>2 DEF Stored
    <2> QED
        BY <2>3 DEF HistoryStored
<1>5. RowIsLast
    <2>1. Len(history) = 1 /\ Last(history) = content /\ history # << >>
        BY <1>1 DEF Last
    <2> QED
        BY <1>1, <1>2, <1>3, <2>1 DEF RowIsLast
<1> QED
    BY <1>2, <1>4, <1>5 DEF ChainInv, ReadIsPast, ReportsTell

\* A write, with a row that fits the next version.
LEMMA WriteInv ==
    ASSUME ChainInv, NEW type, NEW ops, NEW result, NEW deleted,
           Write(type, ops, result, deleted), result.document \in Snapshots,
           NEW event, event = EventRow(type, row.current_version, ops, result),
           \/ IsUpdate(event, Len(history) + 1, Last(history), result.document)
           \/ IsRollback(event, Len(history) + 1, Last(history), result.document)
           \/ IsMark(event, Len(history) + 1, Last(history), result.document)
    PROVE  ChainInv'
<1> DEFINE next == result.document
           L == Len(history)
<1>1. /\ damage = "none" /\ report.chain = "none"
      /\ rows' = Append(rows, event)
      /\ row' = [ snapshot |-> next, deleted |-> deleted,
                  current_version |-> row.current_version + 1 ]
      /\ history' = Append(history, next)
      /\ UNCHANGED <<damage, read, report>>
    BY DEF Write
<1>2. PICK log : Chain(log, history) /\ rows = log
    BY <1>1 DEF ChainInv, HistoryStored, Stored, RowFields
<1>3. history # << >> /\ row.current_version = L /\ row.snapshot = Last(history)
    BY <1>1 DEF ChainInv, RowIsLast
<1>4. history \in Seq(Snapshots) /\ L \in Nat
    BY <1>2 DEF Chain
<1>5. Chain(rows', history')
    <2> HIDE DEF next
    <2>1. Chain(Append(log, event), Append(history, next))
        BY <1>2, <1>3, ChainGrows DEF next
    <2> QED
        BY <1>1, <1>2, <2>1
<1>6. HistoryStored'
    <2>1. Stored(rows)'
        BY <1>1 DEF Stored
    <2> QED
        BY <1>5, <2>1 DEF HistoryStored
<1>7. Len(history') = L + 1 /\ Last(history') = next /\ history' # << >>
    <2> HIDE DEF next
    <2>1. /\ Append(history, next) \in Seq(Snapshots) /\ Len(Append(history, next)) = L + 1
          /\ Append(history, next)[L + 1] = next
        BY <1>4, AppendProperties DEF next
    <2>2. Append(history, next) # << >>
        BY <1>4, <2>1
    <2> QED
        BY <1>1, <2>1, <2>2, LastOf
<1>8. RowIsLast'
    <2>1. row'.snapshot = next /\ row'.deleted = deleted /\ row'.current_version = L + 1
        BY <1>1, <1>3
    <2> HIDE DEF next
    <2> QED
        BY <1>1, <1>7, <2>1 DEF RowIsLast, next
<1>9. ReadIsPast'
    <2>1. ASSUME read # Failed
          PROVE  read.current_version \in Nat /\ read.current_version < Len(history')
        <3>1. read = row \/ (read.current_version \in Nat /\ read.current_version < L)
            BY <2>1 DEF ChainInv, ReadIsPast
        <3> QED
            BY <1>3, <1>4, <1>7, <3>1
    <2> QED
        BY <1>1, <2>1 DEF ReadIsPast
<1> QED
    BY <1>1, <1>6, <1>8, <1>9 DEF ChainInv, ReportsTell

LEMMA PatchDocumentInv ==
    ASSUME ChainInv, NEW ops \in EventPatches, PatchDocument(ops)
    PROVE  ChainInv'
<1> DEFINE result == PatchResult(row.snapshot, ops)
           event == EventRow("update", row.current_version, ops, result)
<1>1. /\ ops # << >> /\ result.document \in Snapshots /\ Write("update", ops, result, FALSE)
    BY DEF PatchDocument
<1>2. damage = "none"
    BY <1>1 DEF Write
<1>3. row.snapshot = Last(history) /\ row.current_version = Len(history) /\ Len(history) \in Nat
    BY <1>2 DEF ChainInv, RowIsLast, HistoryStored, Chain
<1>4. (Len(history) + 1) - 1 = row.current_version
    BY <1>3
<1>5. IsUpdate(event, Len(history) + 1, Last(history), result.document)
    BY <1>1, <1>3, <1>4 DEF IsUpdate
<1>6. event = EventRow("update", row.current_version, ops, result)
    OBVIOUS
<1> HIDE DEF result, event
<1> QED
    BY <1>1, <1>5, <1>6, WriteInv

LEMMA RollbackDocumentInv ==
    ASSUME ChainInv, NEW target \in 1..MaxLogLength, RollbackDocument(target)
    PROVE  ChainInv'
<1> DEFINE next == history[target]
           ops == <<Operation("replace", << >>, next)>>
           result == RollbackResult(row.snapshot, next)
           event == EventRow("rollback", row.current_version, ops, result)
<1>1. target < row.current_version /\ Write("rollback", ops, result, FALSE)
    BY DEF RollbackDocument
<1>2. damage = "none"
    BY <1>1 DEF Write
<1>3. /\ row.snapshot = Last(history) /\ row.current_version = Len(history)
      /\ Len(history) \in Nat /\ history \in Seq(Snapshots)
    BY <1>2 DEF ChainInv, RowIsLast, HistoryStored, Chain
<1>4. (Len(history) + 1) - 1 = row.current_version
    BY <1>3
<1>5. next \in Snapshots
    <2>1. MaxLogLength \in Nat
        BY ChainAssumption
    <2>2. target \in 1..Len(history)
        BY <1>1, <1>3, <2>1
    <2> QED
        BY <1>3, <2>2
<1>6. result.document = next
    BY RollbackFields
<1>7. IsRollback(event, Len(history) + 1, Last(history), next)
    BY <1>3, <1>4 DEF IsRollback, RootWrite
<1>8. event = EventRow("rollback", row.current_version, ops, result)
    OBVIOUS
<1> HIDE DEF next, ops, result, event
<1>9. result.document \in Snapshots
    BY <1>5, <1>6
<1>10. IsRollback(event, Len(history) + 1, Last(history), result.document)
    BY <1>6, <1>7
<1> QED
    BY <1>1, <1>8, <1>9, <1>10, WriteInv

LEMMA MarkInv ==
    ASSUME ChainInv, NEW type \in {"delete", "restore"}, NEW deleted,
           Write(type, << >>, MarkResult(row.snapshot), deleted)
    PROVE  ChainInv'
<1> DEFINE ops == << >>
           result == MarkResult(row.snapshot)
           event == EventRow(type, row.current_version, ops, result)
<1>1. Write(type, ops, result, deleted)
    OBVIOUS
<1>2. damage = "none"
    BY <1>1 DEF Write
<1>3. /\ row.snapshot = Last(history) /\ row.current_version = Len(history)
      /\ Len(history) \in Nat /\ row.snapshot \in Snapshots
    BY <1>2 DEF ChainInv, RowIsLast, HistoryStored, Chain
<1>4. (Len(history) + 1) - 1 = row.current_version
    BY <1>3
<1>5. result.document = row.snapshot
    BY MarkFields
<1>6. IsMark(event, Len(history) + 1, Last(history), result.document)
    BY <1>3, <1>4, <1>5 DEF IsMark
<1>7. event = EventRow(type, row.current_version, ops, result)
    OBVIOUS
<1> HIDE DEF ops, result, event
<1>8. result.document \in Snapshots
    BY <1>3, <1>5
<1> QED
    BY <1>1, <1>6, <1>7, <1>8, WriteInv

\* The fault.
LEMMA ChangedRowInv ==
    ASSUME ChainInv, damage = "none", read = Failed, UNCHANGED <<history, read, report>>,
           NEW i \in DOMAIN rows, NEW field \in RowFields, NEW value, Sent(field, value),
           ChangedRow(i, field, value)
    PROVE  ChainInv'
<1>1. PICK log : Chain(log, history) /\ rows = log
    BY DEF ChainInv, HistoryStored, Stored, RowFields
<1>2. /\ rows' = [rows EXCEPT ![i][field] = value]
      /\ damage' = field /\ row' = row
    BY DEF ChangedRow
<1>3. rows' = ChangedAt(rows, i, field, value)
    BY <1>2 DEF ChangedAt, Changed
<1>4. i \in 1..Len(log)
    <2>1. PICK S : log \in Seq(S)
        BY <1>1 DEF Chain, IsSequence
    <2> QED
        BY <1>1, <2>1
<1>5. RowChanged(log, rows')
    BY <1>1, <1>3, <1>4 DEF RowChanged
<1>6. HistoryStored'
    <2>1. Stored(log)'
        BY <1>2, <1>5 DEF Stored
    <2>2. Chain(log, history')
        BY <1>1
    <2> QED
        BY <2>1, <2>2 DEF HistoryStored
<1>7. field # "snapshot" /\ field # "current_version"
    BY DEF RowFields
<1>8. RowIsLast'
    BY <1>2, <1>7 DEF ChainInv, RowIsLast
<1>9. ReadIsPast'
    BY DEF ReadIsPast
<1>10. report'.chain = "none"
    BY DEF ChainInv
<1> QED
    BY <1>6, <1>8, <1>9, <1>10 DEF ChainInv, ReportsTell

LEMMA LostRowInv ==
    ASSUME ChainInv, damage = "none", read = Failed, UNCHANGED <<history, read, report>>,
           NEW i \in DOMAIN rows, LostRow(i)
    PROVE  ChainInv'
<1>1. PICK log : Chain(log, history) /\ rows = log
    BY DEF ChainInv, HistoryStored, Stored, RowFields
<1>2. rows' = RemoveAt(rows, i) /\ damage' = "row" /\ row' = row
    BY DEF LostRow
<1>3. i \in 1..Len(log)
    <2>1. PICK S : log \in Seq(S)
        BY <1>1 DEF Chain, IsSequence
    <2> QED
        BY <1>1, <2>1
<1>4. HistoryStored'
    <2>1. Stored(log)'
        BY <1>1, <1>2, <1>3 DEF Stored
    <2>2. Chain(log, history')
        BY <1>1
    <2> QED
        BY <2>1, <2>2 DEF HistoryStored
<1>5. RowIsLast'
    BY <1>2 DEF ChainInv, RowIsLast
<1>6. ReadIsPast'
    BY DEF ReadIsPast
<1>7. report'.chain = "none"
    BY DEF ChainInv
<1> QED
    BY <1>4, <1>5, <1>6, <1>7 DEF ChainInv, ReportsTell

LEMMA ChangedDocumentInv ==
    ASSUME ChainInv, damage = "none", read = Failed, UNCHANGED <<history, read, report>>,
           NEW field \in {"snapshot", "current_version", "deleted"}, NEW value,
           field = "snapshot" => value \in Snapshots,
           ChangedDocument(field, value)
    PROVE  ChainInv'
<1>1. PICK log : Chain(log, history) /\ rows = log
    BY DEF ChainInv, HistoryStored, Stored, RowFields
<1>2. /\ row[field] # value
      /\ row' = [row EXCEPT ![field] = value]
      /\ damage' = field /\ rows' = rows
    BY DEF ChangedDocument
<1>3. HistoryStored'
    <2>1. Stored(log)'
        BY <1>1, <1>2 DEF Stored
    <2>2. Chain(log, history')
        BY <1>1
    <2> QED
        BY <2>1, <2>2 DEF HistoryStored
<1>4. /\ history # << >>
      /\ row = [ snapshot |-> row.snapshot, current_version |-> row.current_version,
                 deleted |-> row.deleted ]
      /\ row.snapshot \in Snapshots
      /\ row.snapshot = Last(history) /\ row.current_version = Len(history)
    BY DEF ChainInv, RowIsLast
<1>5. RowIsLast'
    <2>1. CASE field = "snapshot"
        <3>1. row' = [ snapshot |-> value, current_version |-> row.current_version,
                       deleted |-> row.deleted ]
            BY <1>2, <1>4, <2>1
        <3> QED
            BY <1>2, <1>4, <2>1, <3>1 DEF RowIsLast
    <2>2. CASE field = "current_version"
        <3>1. row' = [ snapshot |-> row.snapshot, current_version |-> value,
                       deleted |-> row.deleted ]
            BY <1>2, <1>4, <2>2
        <3>2. value # Len(history)
            BY <1>2, <1>4, <2>2
        <3> QED
            BY <1>2, <1>4, <2>2, <3>1, <3>2 DEF RowIsLast
    <2>3. CASE field = "deleted"
        <3>1. row' = [ snapshot |-> row.snapshot, current_version |-> row.current_version,
                       deleted |-> value ]
            BY <1>2, <1>4, <2>3
        <3> QED
            BY <1>2, <1>4, <2>3, <3>1 DEF RowIsLast
    <2> QED
        BY <2>1, <2>2, <2>3
<1>6. ReadIsPast'
    BY DEF ReadIsPast
<1>7. report'.chain = "none"
    BY DEF ChainInv
<1> QED
    BY <1>3, <1>5, <1>6, <1>7 DEF ChainInv, ReportsTell

LEMMA FaultInv ==
    ASSUME ChainInv, Fault
    PROVE  ChainInv'
<1>1. damage = "none" /\ read = Failed /\ UNCHANGED <<history, read, report>>
    BY DEF Fault
<1>2. \/ \E i \in DOMAIN rows :
            \/ \E field \in RowFields : \E value : Sent(field, value) /\ ChangedRow(i, field, value)
            \/ LostRow(i)
      \/ \E field \in {"snapshot", "current_version", "deleted"} : \E value :
            (field = "snapshot" => value \in Snapshots) /\ ChangedDocument(field, value)
    <2>1. ASSUME NEW i \in DOMAIN rows,
                 NEW type \in {"create", "update", "delete", "restore", "rollback", "other"},
                 ChangedRow(i, "event_type", type)
          PROVE  "event_type" \in RowFields /\ Sent("event_type", type)
        BY DEF RowFields, Sent
    <2>2. ASSUME NEW i \in DOMAIN rows, NEW ops \in EventPatches \cup {<< >>}
          PROVE  /\ "patch" \in RowFields /\ Sent("patch", ops)
                 /\ "inverse_patch" \in RowFields /\ Sent("inverse_patch", ops)
        BY DEF RowFields, Sent
    <2>3. ASSUME NEW field \in {"changed_paths", "before_values", "after_values"}
          PROVE  field \in RowFields /\ Sent(field, << >>)
        BY DEF RowFields, Sent
    <2>4. ASSUME NEW value
          PROVE  /\ "base_version" \in RowFields /\ Sent("base_version", value)
                 /\ "result_version" \in RowFields /\ Sent("result_version", value)
        BY DEF RowFields, Sent
    <2>5. \A content \in Contents : content \in Snapshots
        BY ChainAssumption
    <2>6. CASE \E i \in DOMAIN rows : \E type \in {"create", "update", "delete", "restore", "rollback", "other"} :
                    ChangedRow(i, "event_type", type)
        BY <2>1, <2>6
    <2>7. CASE \E i \in DOMAIN rows : \E ops \in EventPatches \cup {<< >>} :
                    ChangedRow(i, "patch", ops) \/ ChangedRow(i, "inverse_patch", ops)
        BY <2>2, <2>7
    <2>8. CASE \E i \in DOMAIN rows : \E field \in {"changed_paths", "before_values", "after_values"} :
                    ChangedRow(i, field, << >>)
        BY <2>3, <2>8
    <2>9. CASE \E i \in DOMAIN rows : \E value :
                    ChangedRow(i, "base_version", value) \/ ChangedRow(i, "result_version", value)
        BY <2>4, <2>9
    <2>10. CASE \E i \in DOMAIN rows : LostRow(i)
        BY <2>10
    <2>11. CASE \E content \in Contents : ChangedDocument("snapshot", content)
        BY <2>5, <2>11
    <2>12. CASE \E value : ChangedDocument("current_version", value) \/ ChangedDocument("deleted", value)
        BY <2>12
    <2>13. \/ \E i \in DOMAIN rows :
                \/ \E type \in {"create", "update", "delete", "restore", "rollback", "other"} :
                        ChangedRow(i, "event_type", type)
                \/ \E ops \in EventPatches \cup {<< >>} :
                        ChangedRow(i, "patch", ops) \/ ChangedRow(i, "inverse_patch", ops)
                \/ \E field \in {"changed_paths", "before_values", "after_values"} :
                        ChangedRow(i, field, << >>)
                \/ \E value : ChangedRow(i, "base_version", value) \/ ChangedRow(i, "result_version", value)
                \/ LostRow(i)
           \/ \E content \in Contents : ChangedDocument("snapshot", content)
           \/ \E value : ChangedDocument("current_version", value) \/ ChangedDocument("deleted", value)
        <3> HIDE DEF ChangedRow, LostRow, ChangedDocument
        <3> QED
            BY Zenon DEF Fault
    <2> QED
        BY <2>6, <2>7, <2>8, <2>9, <2>10, <2>11, <2>12, <2>13
<1>3. CASE \E i \in DOMAIN rows : \E field \in RowFields : \E value :
                Sent(field, value) /\ ChangedRow(i, field, value)
    BY <1>1, <1>3, ChangedRowInv
<1>4. CASE \E i \in DOMAIN rows : LostRow(i)
    BY <1>1, <1>4, LostRowInv
<1>5. CASE \E field \in {"snapshot", "current_version", "deleted"} : \E value :
                (field = "snapshot" => value \in Snapshots) /\ ChangedDocument(field, value)
    <2>0. PICK field \in {"snapshot", "current_version", "deleted"} : \E value :
                (field = "snapshot" => value \in Snapshots) /\ ChangedDocument(field, value)
        BY <1>5
    <2>1. PICK value :
                (field = "snapshot" => value \in Snapshots) /\ ChangedDocument(field, value)
        BY <2>0
    <2> QED
        BY <1>1, <2>1, ChangedDocumentInv
<1> QED
    BY <1>2, <1>3, <1>4, <1>5

\* The two reads of a check.
LEMMA ReadDocumentInv ==
    ASSUME ChainInv, ReadDocument
    PROVE  ChainInv'
<1>1. read = Failed /\ read' = row /\ UNCHANGED <<rows, row, history, damage, report>>
    BY DEF ReadDocument
<1>2. HistoryStored'
    BY <1>1 DEF ChainInv, HistoryStored, Stored
<1>3. RowIsLast'
    BY <1>1 DEF ChainInv, RowIsLast
<1>4. ReadIsPast'
    BY <1>1 DEF ReadIsPast
<1>5. report'.chain = "none"
    BY <1>1 DEF ChainInv
<1> QED
    BY <1>2, <1>3, <1>4, <1>5 DEF ChainInv, ReportsTell

LEMMA RowsTellUnchanged ==
    ASSUME RowsTellHistory, rows' = rows, history' = history
    PROVE  RowsTellHistory'
BY DEF RowsTellHistory, Replay

LEMMA ReadEventsInv ==
    ASSUME ChainInv, ReadEvents
    PROVE  ChainInv'
<1>1. /\ read # Failed
      /\ report' = [ replay |-> IF ReplayOk THEN "ok" ELSE "failed",
                     chain |-> IF ChainOk THEN "ok" ELSE "failed" ]
      /\ rows' = rows /\ row' = row /\ history' = history /\ damage' = damage /\ read' = read
    BY DEF ReadEvents
<1>2. HistoryStored /\ RowIsLast /\ ReadIsPast
    BY DEF ChainInv
<1>3. HistoryStored' /\ RowIsLast' /\ ReadIsPast'
    BY <1>1, <1>2 DEF HistoryStored, Stored, RowIsLast, ReadIsPast
<1>4. /\ report'.replay = "ok" <=> ReplayOk
      /\ report'.chain = "ok" <=> ChainOk
      /\ ReplayOk /\ ChainOk => report' = [replay |-> "ok", chain |-> "ok"]
    BY <1>1
<1>5. ASSUME damage' = "none", read' = row'
      PROVE  report' = [replay |-> "ok", chain |-> "ok"]
    BY <1>1, <1>2, <1>4, <1>5, HealthyPasses
<1>6. ASSUME report'.chain = "ok"
      PROVE  report'.replay = "ok" /\ RowsTellHistory'
    BY <1>1, <1>2, <1>4, <1>6, ChainTells, RowsTellUnchanged
<1>7. ASSUME report'.replay = "ok"
      PROVE  read' = row' /\ row'.snapshot = Last(history')
    BY <1>1, <1>2, <1>4, <1>7, ReplayTells
<1>8. ReportsTell'
    BY <1>5, <1>6, <1>7 DEF ReportsTell
<1> QED
    BY <1>1, <1>3, <1>8 DEF ChainInv

LEMMA ChainStutterInv ==
    ASSUME ChainInv, UNCHANGED chainVars
    PROVE  ChainInv'
<1>1. /\ rows' = rows /\ row' = row /\ history' = history /\ damage' = damage /\ read' = read
      /\ report' = report
    BY DEF chainVars
<1>2. HistoryStored' /\ RowIsLast' /\ ReadIsPast'
    BY <1>1 DEF ChainInv, HistoryStored, Stored, RowIsLast, ReadIsPast
<1>3. ReportsTell'
    BY <1>1, RowsTellUnchanged DEF ChainInv, ReportsTell
<1> QED
    BY <1>1, <1>2, <1>3 DEF ChainInv

\* The inductive invariant of a document's rows and the checks over them.
LEMMA ChainInvariant == ChainSpec => []ChainInv
<1>1. ChainInit => ChainInv
    BY ChainInitInv
<1>2. ChainInv /\ [ChainNext]_chainVars => ChainInv'
    <2> SUFFICES ASSUME ChainInv, [ChainNext]_chainVars
                 PROVE  ChainInv'
        OBVIOUS
    <2>1. ASSUME NEW ops \in EventPatches, PatchDocument(ops)
          PROVE  ChainInv'
        BY <2>1, PatchDocumentInv
    <2>2. ASSUME NEW target \in 1..MaxLogLength, RollbackDocument(target)
          PROVE  ChainInv'
        BY <2>2, RollbackDocumentInv
    <2>3. CASE DeleteDocument
        BY <2>3, MarkInv DEF DeleteDocument
    <2>4. CASE RestoreDocument
        BY <2>4, MarkInv DEF RestoreDocument
    <2>5. CASE Fault
        BY <2>5, FaultInv
    <2>6. CASE ReadDocument
        BY <2>6, ReadDocumentInv
    <2>7. CASE ReadEvents
        BY <2>7, ReadEventsInv
    <2>8. CASE UNCHANGED chainVars
        BY <2>8, ChainStutterInv
    <2> QED
        BY <2>1, <2>2, <2>3, <2>4, <2>5, <2>6, <2>7, <2>8 DEF ChainNext
<1> QED
    BY <1>1, <1>2, PTL DEF ChainSpec

\* The two reports can be trusted (check_document_replay_integrity and
\* check_document_event_chain_integrity): a healthy document passes both; the
\* event-chain report says "ok" only of rows that tell the whole history, forwards and
\* backwards; the replay report only of a snapshot that is the content last committed;
\* and a save between the two reads makes neither say so of a document that moved on.
THEOREM ReportsCanBeTrusted == ChainSpec => []ReportsTell
<1>1. ChainInv => ReportsTell
    BY DEF ChainInv
<1> QED
    BY <1>1, ChainInvariant, PTL
=============================================================================
