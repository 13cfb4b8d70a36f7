---------------------------- MODULE FoldLemmas ----------------------------
(***************************************************************************)
(* Induction over the natural numbers and over a finite set in first-order *)
(* form, and what follows for MapThenSumSet, for every finite set and      *)
(* every function of summands, and for FoldLeft, whose turns stay in a set *)
(* when each of them does.  They hold of no particular system.             *)
(***************************************************************************)
EXTENDS FiniteSetsExt, FiniteSetTheorems, WellFoundedInduction, TLAPS

-----------------------------------------------------------------------------
\* Induction over the natural numbers, in its first-order form.
LEMMA NatInduct ==
    ASSUME NEW S \in SUBSET Nat, 0 \in S, \A n \in S : n + 1 \in S
    PROVE  S = Nat
<1> DEFINE T == Nat \ S
<1> SUFFICES ASSUME T # {} PROVE FALSE
    OBVIOUS
<1>1. PICK m \in T : \A y \in T : ~(<<y, m>> \in OpToRel(<, Nat))
    BY WFMin, NatLessThanWellFounded
<1>2. m # 0 /\ m \in Nat /\ m - 1 \in Nat /\ m - 1 < m
    OBVIOUS
<1>3. m - 1 \in S
    BY <1>1, <1>2 DEF OpToRel
<1>4. (m - 1) + 1 \in S
    BY <1>3
<1>5. (m - 1) + 1 = m
    BY <1>2
<1> QED
    BY <1>4, <1>5

\* Induction over the subsets of a finite set, one element at a time.
LEMMA SubsetInduct ==
    ASSUME NEW S, IsFiniteSet(S), NEW A, {} \in A,
           \A T \in SUBSET S : \A x \in S \ T : T \in A => T \cup {x} \in A
    PROVE  SUBSET S \subseteq A
<1> DEFINE N == {n \in Nat : \A T \in SUBSET S : Cardinality(T) = n => T \in A}
<1>1. \A T \in SUBSET S : IsFiniteSet(T) /\ Cardinality(T) \in Nat
    BY FS_Subset, FS_CardinalityType
<1>2. 0 \in N
    BY <1>1, FS_EmptySet
<1>3. ASSUME NEW n \in N
      PROVE  n + 1 \in N
    <2>1. ASSUME NEW T \in SUBSET S, Cardinality(T) = n + 1
          PROVE  T \in A
        <3>1. PICK x : x \in T
            BY <1>1, <2>1, FS_EmptySet
        <3>2. Cardinality(T \ {x}) = n
            BY <1>1, <2>1, <3>1, FS_RemoveElement
        <3>3. T \ {x} \in A /\ x \in S \ (T \ {x})
            BY <3>1, <3>2
        <3>4. (T \ {x}) \cup {x} \in A
            BY <3>3
        <3> QED
            BY <3>1, <3>4
    <2> QED
        BY <2>1
<1>4. N = Nat
    <2> HIDE DEF N
    <2> N \in SUBSET Nat
        BY DEF N
    <2> QED
        BY <1>2, <1>3, NatInduct
<1> QED
    BY <1>1, <1>4

-----------------------------------------------------------------------------
(* MapThenSumSet of the values of a function.                              *)

Total(f, S) == MapThenSumSet(LAMBDA x : f[x], S)

Picked(s) == CHOOSE x \in s : TRUE

Step(g, f, s) == IF s = {} THEN 0 ELSE f[Picked(s)] + g[s \ {Picked(s)}]

\* g is the table of sums over the subsets of S that MapThenSumSet chooses.
IsSum(g, f, S) == g = [s \in SUBSET S |-> Step(g, f, s)]

UpTo(S, k) == {s \in SUBSET S : Cardinality(s) <= k}

LEMMA PickedFacts ==
    ASSUME NEW S, IsFiniteSet(S), NEW s \in SUBSET S, s # {}
    PROVE  /\ Picked(s) \in s
           /\ s \ {Picked(s)} \in SUBSET S
           /\ Cardinality(s) \in Nat \ {0}
           /\ Cardinality(s \ {Picked(s)}) = Cardinality(s) - 1
<1>1. Picked(s) \in s
    BY DEF Picked
<1>2. IsFiniteSet(s)
    BY FS_Subset
<1> QED
    BY <1>1, <1>2, FS_RemoveElement, FS_CardinalityType, FS_EmptySet

\* The table exists: it is extended to sets of one more element.
LEMMA SumTableExists ==
    ASSUME NEW f, NEW S, IsFiniteSet(S)
    PROVE  \E g : IsSum(g, f, S)
<1> DEFINE Partial(g, k) == g = [s \in UpTo(S, k) |-> Step(g, f, s)]
           N == {k \in Nat : \E g : Partial(g, k)}
<1>0. \A s \in SUBSET S : Cardinality(s) \in Nat /\ Cardinality(s) <= Cardinality(S)
    BY FS_Subset, FS_CardinalityType
<1>1. 0 \in N
    <2> DEFINE g == [s \in UpTo(S, 0) |-> 0]
    <2>1. \A s \in UpTo(S, 0) : s = {}
        BY <1>0, FS_Subset, FS_EmptySet DEF UpTo
    <2>2. \A s \in UpTo(S, 0) : Step(g, f, s) = 0
        BY <2>1 DEF Step
    <2>3. Partial(g, 0)
        BY <2>2
    <2> QED
        BY <2>3
<1>2. ASSUME NEW k \in N
      PROVE  k + 1 \in N
    <2>1. PICK g : Partial(g, k)
        OBVIOUS
    <2> DEFINE h == [s \in UpTo(S, k + 1) |-> Step(g, f, s)]
    <2>2. ASSUME NEW s \in UpTo(S, k)
          PROVE  s \in UpTo(S, k + 1) /\ h[s] = g[s]
        <3>1. s \in UpTo(S, k + 1)
            BY <1>0 DEF UpTo
        <3>2. g[s] = Step(g, f, s)
            BY <2>1
        <3> QED
            BY <3>1, <3>2
    <2>3. ASSUME NEW s \in UpTo(S, k + 1)
          PROVE  Step(g, f, s) = Step(h, f, s)
        <3>1. CASE s = {}
            BY <3>1 DEF Step
        <3>2. CASE s # {}
            <4>1. s \ {Picked(s)} \in UpTo(S, k)
                BY <3>2, PickedFacts, <1>0 DEF UpTo
            <4> QED
                BY <4>1, <2>2 DEF Step
        <3> QED
            BY <3>1, <3>2
    <2>4. Partial(h, k + 1)
        BY <2>3
    <2> HIDE DEF h
    <2>5. \E other : Partial(other, k + 1)
        BY <2>4
    <2> QED
        BY <2>5
<1>3. N = Nat
    <2> HIDE DEF N
    <2> N \in SUBSET Nat
        BY DEF N
    <2> QED
        BY <1>1, <1>2, NatInduct
<1>4. Cardinality(S) \in Nat /\ UpTo(S, Cardinality(S)) = SUBSET S
    BY <1>0, FS_CardinalityType DEF UpTo
<1>5. PICK g : Partial(g, Cardinality(S))
    BY <1>3, <1>4
<1> QED
    BY <1>4, <1>5 DEF IsSum

\* Two tables agree where both are defined.
LEMMA SumTablesAgree ==
    ASSUME NEW f, NEW S, IsFiniteSet(S), NEW T \in SUBSET S,
           NEW g, IsSum(g, f, S), NEW h, IsSum(h, f, T)
    PROVE  \A s \in SUBSET T : g[s] = h[s]
<1> DEFINE N == {k \in Nat : \A s \in SUBSET T : Cardinality(s) = k => g[s] = h[s]}
<1>0. IsFiniteSet(T) /\ \A s \in SUBSET T : IsFiniteSet(s) /\ Cardinality(s) \in Nat
    BY FS_Subset, FS_CardinalityType
<1>1. \A s \in SUBSET T : g[s] = Step(g, f, s) /\ h[s] = Step(h, f, s)
    BY DEF IsSum
<1>2. 0 \in N
    BY <1>0, <1>1, FS_EmptySet DEF Step
<1>3. ASSUME NEW k \in N
      PROVE  k + 1 \in N
    <2>1. ASSUME NEW s \in SUBSET T, Cardinality(s) = k + 1
          PROVE  g[s] = h[s]
        <3>1. s # {}
            BY <2>1, FS_EmptySet
        <3>2. g[s \ {Picked(s)}] = h[s \ {Picked(s)}]
            BY <1>0, <2>1, <3>1, PickedFacts
        <3> QED
            BY <1>1, <3>1, <3>2 DEF Step
    <2> QED
        BY <2>1
<1>4. N = Nat
    <2> HIDE DEF N
    <2> N \in SUBSET Nat
        BY DEF N
    <2> QED
        BY <1>2, <1>3, NatInduct
<1> QED
    BY <1>0, <1>4

\* The sum is what any table says.
LEMMA TotalIsTable ==
    ASSUME NEW f, NEW S, IsFiniteSet(S), NEW T \in SUBSET S, NEW g, IsSum(g, f, S)
    PROVE  Total(f, T) = g[T]
<1> DEFINE table == CHOOSE h : h = [s \in SUBSET T |->
                        IF s = {} THEN 0 ELSE f[CHOOSE x \in s : TRUE]
                                              + h[s \ {CHOOSE x \in s : TRUE}]]
<1>1. Total(f, T) = table[T]
    BY DEF Total, MapThenSumSet, MapThenFoldSet
<1>2. IsFiniteSet(T)
    BY FS_Subset
<1>3. \E h : IsSum(h, f, T)
    BY <1>2, SumTableExists
<1>4. \E h : h = [s \in SUBSET T |->
                        IF s = {} THEN 0 ELSE f[CHOOSE x \in s : TRUE]
                                              + h[s \ {CHOOSE x \in s : TRUE}]]
    BY <1>3 DEF IsSum, Step, Picked
<1>5. IsSum(table, f, T)
    BY <1>4 DEF IsSum, Step, Picked
<1> HIDE DEF table
<1> QED
    BY <1>1, <1>5, SumTablesAgree

\* MapThenSumSet adds the values up: nothing for the empty set, and the value of an
\* element, whichever, with the sum of the others.
LEMMA TotalEmpty ==
    ASSUME NEW f
    PROVE  Total(f, {}) = 0
<1>1. IsFiniteSet({}) /\ {} \in SUBSET {}
    BY FS_EmptySet
<1>2. PICK g : IsSum(g, f, {})
    BY <1>1, SumTableExists
<1>3. g[{}] = Step(g, f, {})
    BY <1>1, <1>2 DEF IsSum
<1>4. Total(f, {}) = g[{}]
    BY <1>1, <1>2, TotalIsTable
<1> QED
    BY <1>3, <1>4 DEF Step

LEMMA TotalPicked ==
    ASSUME NEW f, NEW S, IsFiniteSet(S), S # {}
    PROVE  Total(f, S) = f[Picked(S)] + Total(f, S \ {Picked(S)})
<1>1. PICK g : IsSum(g, f, S)
    BY SumTableExists
<1>2. g[S] = Step(g, f, S)
    BY <1>1 DEF IsSum
<1>3. Total(f, S) = g[S] /\ Total(f, S \ {Picked(S)}) = g[S \ {Picked(S)}]
    BY <1>1, TotalIsTable
<1> QED
    BY <1>2, <1>3 DEF Step

LEMMA TotalNat ==
    ASSUME NEW f, NEW S, IsFiniteSet(S), \A x \in S : f[x] \in Nat
    PROVE  Total(f, S) \in Nat
<1> DEFINE N == {n \in Nat : \A T \in SUBSET S : Cardinality(T) = n => Total(f, T) \in Nat}
<1>0. \A T \in SUBSET S : IsFiniteSet(T) /\ Cardinality(T) \in Nat
    BY FS_Subset, FS_CardinalityType
<1>1. 0 \in N
    BY <1>0, FS_EmptySet, TotalEmpty
<1>2. ASSUME NEW n \in N
      PROVE  n + 1 \in N
    <2>1. ASSUME NEW T \in SUBSET S, Cardinality(T) = n + 1
          PROVE  Total(f, T) \in Nat
        <3>1. T # {}
            BY <2>1, FS_EmptySet
        <3>2. Picked(T) \in S /\ Total(f, T \ {Picked(T)}) \in Nat
            BY <2>1, <3>1, PickedFacts
        <3>3. Total(f, T) = f[Picked(T)] + Total(f, T \ {Picked(T)})
            BY <1>0, <3>1, TotalPicked
        <3> QED
            BY <3>2, <3>3
    <2> QED
        BY <2>1
<1>3. N = Nat
    <2> HIDE DEF N
    <2> N \in SUBSET Nat
        BY DEF N
    <2> QED
        BY <1>1, <1>2, NatInduct
<1> QED
    BY <1>0, <1>3

LEMMA TotalRemove ==
    ASSUME NEW f, NEW S, IsFiniteSet(S), \A x \in S : f[x] \in Nat, NEW e \in S
    PROVE  Total(f, S) = f[e] + Total(f, S \ {e})
<1> DEFINE Splits(T) == \A x \in T : Total(f, T) = f[x] + Total(f, T \ {x})
           N == {n \in Nat : \A T \in SUBSET S : Cardinality(T) = n => Splits(T)}
<1>0. \A T \in SUBSET S : IsFiniteSet(T) /\ Cardinality(T) \in Nat
    BY FS_Subset, FS_CardinalityType
<1>1. 0 \in N
    BY <1>0, FS_EmptySet
<1>2. ASSUME NEW n \in N
      PROVE  n + 1 \in N
    <2>1. ASSUME NEW T \in SUBSET S, Cardinality(T) = n + 1, NEW x \in T
          PROVE  Total(f, T) = f[x] + Total(f, T \ {x})
        <3> DEFINE p == Picked(T)
        <3>1. p \in T /\ Total(f, T) = f[p] + Total(f, T \ {p})
            BY <1>0, PickedFacts, TotalPicked
        <3>2. CASE x = p
            BY <3>1, <3>2
        <3>3. CASE x # p
            <4> DEFINE rest == Total(f, (T \ {x}) \ {p})
                       without_p == Total(f, T \ {p})
                       without_x == Total(f, T \ {x})
            <4>1. ASSUME NEW y \in T
                  PROVE  T \ {y} \in SUBSET S /\ Cardinality(T \ {y}) = n
                <5>1. n \in Nat /\ IsFiniteSet(T) /\ Cardinality(T) = n + 1
                    BY <1>0, <2>1
                <5>2. Cardinality(T \ {y}) = Cardinality(T) - 1
                    BY <5>1, FS_RemoveElement
                <5> QED
                    BY <5>1, <5>2
            <4>2. Splits(T \ {p}) /\ Splits(T \ {x})
                BY <3>1, <4>1
            <4>3. without_p = f[x] + Total(f, (T \ {p}) \ {x})
                BY <3>3, <4>2
            <4>4. without_x = f[p] + rest
                BY <3>1, <3>3, <4>2
            <4>5. (T \ {p}) \ {x} = (T \ {x}) \ {p}
                OBVIOUS
            <4>6. without_p = f[x] + rest
                BY <4>3, <4>5
            <4>7. rest \in Nat /\ f[x] \in Nat /\ f[p] \in Nat
                BY <1>0, <3>1, TotalNat
            <4>8. Total(f, T) = f[p] + without_p
                BY <3>1
            <4> HIDE DEF p, rest, without_p, without_x
            <4>9. Total(f, T) = f[x] + without_x
                BY <4>4, <4>6, <4>7, <4>8
            <4> QED
                BY <4>9 DEF without_x
        <3> QED
            BY <3>2, <3>3
    <2> QED
        BY <2>1
<1>3. N = Nat
    <2> HIDE DEF N
    <2> N \in SUBSET Nat
        BY DEF N
    <2> QED
        BY <1>1, <1>2, NatInduct
<1> QED
    BY <1>0, <1>3

LEMMA TotalAdd ==
    ASSUME NEW f, NEW S, IsFiniteSet(S), NEW e, e \notin S, \A x \in S \cup {e} : f[x] \in Nat
    PROVE  Total(f, S \cup {e}) = f[e] + Total(f, S)
<1>1. IsFiniteSet(S \cup {e}) /\ (S \cup {e}) \ {e} = S
    BY FS_AddElement
<1> QED
    BY <1>1, TotalRemove

\* Only the values of the elements count.
LEMMA TotalSame ==
    ASSUME NEW f, NEW h, NEW S, IsFiniteSet(S), \A x \in S : f[x] = h[x]
    PROVE  Total(f, S) = Total(h, S)
<1>1. PICK g : IsSum(g, f, S)
    BY SumTableExists
<1>2. ASSUME NEW s \in SUBSET S
      PROVE  Step(g, f, s) = Step(g, h, s)
    BY PickedFacts DEF Step
<1>3. IsSum(g, h, S)
    BY <1>1, <1>2 DEF IsSum
<1> QED
    BY <1>1, <1>3, TotalIsTable

\* The sum over the values of an injective function.
LEMMA TotalImage ==
    ASSUME NEW I, IsFiniteSet(I), NEW g, \A i, j \in I : g[i] = g[j] => i = j,
           NEW f, NEW h, \A i \in I : h[i] \in Nat /\ f[g[i]] = h[i]
    PROVE  LET S == {g[i] : i \in I}
           IN  /\ IsFiniteSet(S) /\ Cardinality(S) = Cardinality(I)
               /\ Total(f, S) = Total(h, I)
<1> DEFINE Of(J) == {g[i] : i \in J}
           Right(J) == /\ IsFiniteSet(Of(J)) /\ Cardinality(Of(J)) = Cardinality(J)
                       /\ Total(f, Of(J)) = Total(h, J)
           A == {J \in SUBSET I : Right(J)}
<1>1. {} \in A
    <2>1. Of({}) = {}
        OBVIOUS
    <2>2. Right({})
        BY <2>1, FS_EmptySet, TotalEmpty
    <2> QED
        BY <2>2
<1>2. ASSUME NEW J \in SUBSET I, NEW x \in I \ J, J \in A
      PROVE  J \cup {x} \in A
    <2>1. IsFiniteSet(J) /\ x \notin J
        BY FS_Subset
    <2>2. Of(J \cup {x}) = Of(J) \cup {g[x]} /\ g[x] \notin Of(J)
        OBVIOUS
    <2>3. \A y \in Of(J) \cup {g[x]} : f[y] \in Nat
        OBVIOUS
    <2>4. \A y \in J \cup {x} : h[y] \in Nat
        OBVIOUS
    <2>5. Right(J) /\ f[g[x]] = h[x]
        BY <1>2
    <2> HIDE DEF Of
    <2>6. Cardinality(Of(J \cup {x})) = Cardinality(J \cup {x}) /\ IsFiniteSet(Of(J \cup {x}))
        <3> DEFINE T == Of(J)
        <3>1. IsFiniteSet(T) /\ Cardinality(T) = Cardinality(J) /\ g[x] \notin T
            BY <2>2, <2>5
        <3> HIDE DEF T
        <3>2. /\ IsFiniteSet(T \cup {g[x]}) /\ Cardinality(T \cup {g[x]}) = Cardinality(T) + 1
              /\ Cardinality(J \cup {x}) = Cardinality(J) + 1
            BY <2>1, <3>1, FS_AddElement
        <3> QED
            BY <2>2, <3>1, <3>2 DEF T
    <2>7. /\ Total(f, Of(J) \cup {g[x]}) = f[g[x]] + Total(f, Of(J))
          /\ Total(h, J \cup {x}) = h[x] + Total(h, J)
        BY <2>1, <2>2, <2>3, <2>4, <2>5, TotalAdd
    <2> QED
        BY <2>2, <2>5, <2>6, <2>7
<1>3. SUBSET I \subseteq A
    <2> HIDE DEF A
    <2> QED
        BY <1>1, <1>2, SubsetInduct
<1> QED
    BY <1>3

\* A sum over more elements is no smaller.
LEMMA TotalMonotone ==
    ASSUME NEW f, NEW S, IsFiniteSet(S), \A x \in S : f[x] \in Nat, NEW T \in SUBSET S
    PROVE  Total(f, T) <= Total(f, S)
<1> DEFINE A == {U \in SUBSET S : Total(f, T) <= Total(f, T \cup U)}
<1>1. \A U \in SUBSET S : IsFiniteSet(U) /\ Total(f, U) \in Nat
    BY FS_Subset, TotalNat
<1>2. {} \in A
    BY <1>1
<1>3. ASSUME NEW U \in SUBSET S, NEW x \in S \ U, U \in A
      PROVE  U \cup {x} \in A
    <2>1. CASE x \in T
        <3> T \cup (U \cup {x}) = T \cup U
            BY <2>1
        <3> QED
            BY <1>3
    <2>2. CASE x \notin T
        <3> DEFINE before == Total(f, T)
                   now == Total(f, T \cup U)
                   next == Total(f, T \cup (U \cup {x}))
        <3>1. T \cup (U \cup {x}) = (T \cup U) \cup {x}
            OBVIOUS
        <3>2. next = f[x] + now
            BY <1>1, <2>2, <3>1, TotalAdd
        <3>3. before \in Nat /\ now \in Nat /\ f[x] \in Nat /\ before <= now
            BY <1>1, <1>3
        <3> HIDE DEF before, now, next
        <3>4. before <= next
            BY <3>2, <3>3
        <3> QED
            BY <3>4 DEF before, next
    <2> QED
        BY <2>1, <2>2
<1>4. S \in A
    <2> HIDE DEF A
    <2> QED
        BY <1>2, <1>3, SubsetInduct
<1>5. T \cup S = S
    OBVIOUS
<1> QED
    BY <1>4, <1>5

-----------------------------------------------------------------------------
(* FoldLeft goes through the sets of positions of a sequence, from the     *)
(* largest position down.                                                  *)

\* The largest position of a set.
LEMMA MaxOfPositions ==
    ASSUME NEW n \in Nat, NEW s \in SUBSET (1..n), s # {}
    PROVE  Max(s) \in s /\ \A i \in s : i <= Max(s)
<1> DEFINE N == {k \in Nat : \A t \in SUBSET (1..k) :
                                t # {} => \E m \in t : \A i \in t : i <= m}
<1>1. 0 \in N
    <2> 1..0 = {}
        OBVIOUS
    <2> QED
        OBVIOUS
<1>2. ASSUME NEW k \in N
      PROVE  k + 1 \in N
    <2>1. ASSUME NEW t \in SUBSET (1..(k + 1)), t # {}
          PROVE  \E m \in t : \A i \in t : i <= m
        <3>1. CASE k + 1 \in t
            BY <3>1
        <3>2. CASE k + 1 \notin t
            <4>1. t \in SUBSET (1..k)
                BY <3>2
            <4> QED
                BY <2>1, <4>1
        <3> QED
            BY <3>1, <3>2
    <2> QED
        BY <2>1
<1>3. N = Nat
    <2> HIDE DEF N
    <2> N \in SUBSET Nat
        BY DEF N
    <2> QED
        BY <1>1, <1>2, NatInduct
<1>4. \E m \in s : \A i \in s : i <= m
    BY <1>3
<1> QED
    BY <1>4 DEF Max

\* Taking the largest position away leaves a set of smaller ones.
LEMMA MaxSplits ==
    ASSUME NEW n \in Nat, NEW s \in SUBSET (1..(n + 1)), s # {}
    PROVE  /\ s \notin SUBSET (1..n) => Max(s) = n + 1
           /\ s \in SUBSET (1..n) => s \ {Max(s)} \in SUBSET (1..n)
           /\ s \ {Max(s)} \in SUBSET (1..n)
<1>1. Max(s) \in s /\ \A i \in s : i <= Max(s)
    <2> n + 1 \in Nat
        OBVIOUS
    <2> QED
        BY MaxOfPositions
<1>2. CASE s \in SUBSET (1..n)
    BY <1>2
<1>3. CASE s \notin SUBSET (1..n)
    <2>1. n + 1 \in s
        BY <1>3
    <2>2. Max(s) \in 1..(n + 1) /\ n + 1 <= Max(s)
        BY <1>1, <2>1
    <2>3. Max(s) = n + 1
        BY <2>2
    <2> QED
        BY <1>3, <2>3
<1> QED
    BY <1>2, <1>3

LEMMA MaxOfPrefix ==
    ASSUME NEW n \in Nat
    PROVE  /\ 1..(n + 1) # {} /\ Max(1..(n + 1)) = n + 1
           /\ (1..(n + 1)) \ {n + 1} = 1..n
<1>1. n + 1 \in 1..(n + 1) /\ n + 1 \in Nat
    OBVIOUS
<1>2. Max(1..(n + 1)) \in 1..(n + 1) /\ n + 1 <= Max(1..(n + 1))
    BY <1>1, MaxOfPositions
<1> QED
    BY <1>1, <1>2
\* Going up through the sets of the first positions.
LEMMA PositionsInduct ==
    ASSUME NEW n \in Nat, NEW A, {} \in A,
           \A k \in 1..n : 1..(k - 1) \in A => 1..k \in A
    PROVE  1..n \in A
<1> DEFINE N == {k \in Nat : k <= n => 1..k \in A}
<1>1. 0 \in N
    <2> 1..0 = {}
        OBVIOUS
    <2> QED
        OBVIOUS
<1>2. ASSUME NEW k \in N
      PROVE  k + 1 \in N
    <2>1. ASSUME k + 1 <= n
          PROVE  1..(k + 1) \in A
        <3>1. k + 1 \in 1..n /\ (k + 1) - 1 = k /\ 1..k \in A
            BY <2>1
        <3> QED
            BY <3>1
    <2> QED
        BY <2>1
<1>3. N = Nat
    <2> HIDE DEF N
    <2> N \in SUBSET Nat
        BY DEF N
    <2> QED
        BY <1>1, <1>2, NatInduct
<1> QED
    BY <1>3

\* h is the table of a fold over n positions whose turns stay in a set X.
IsFold(h, base, turn, n) ==
    h = [s \in SUBSET (1..n) |-> IF s = {} THEN base ELSE turn[h[s \ {Max(s)}], Max(s)]]

LEMMA FoldTableExists ==
    ASSUME NEW X, NEW base \in X, NEW n \in Nat, NEW turn \in [X \X (1..n) -> X]
    PROVE  \E h \in [SUBSET (1..n) -> X] : IsFold(h, base, turn, n)
<1> DEFINE Exists(k) == \E h \in [SUBSET (1..k) -> X] : IsFold(h, base, turn, k)
           N == {k \in Nat : k <= n => Exists(k)}
<1>1. 0 \in N
    <2> DEFINE h == [s \in SUBSET (1..0) |-> base]
    <2>1. \A s \in SUBSET (1..0) : s = {}
        OBVIOUS
    <2>2. IsFold(h, base, turn, 0)
        BY <2>1 DEF IsFold
    <2>3. h \in [SUBSET (1..0) -> X]
        OBVIOUS
    <2> HIDE DEF h
    <2> QED
        BY <2>2, <2>3
<1>2. ASSUME NEW k \in N
      PROVE  k + 1 \in N
    <2> HIDE DEF Exists
    <2> SUFFICES ASSUME k + 1 <= n
                 PROVE  Exists(k + 1)
        OBVIOUS
    <2>0. k \in Nat /\ k <= n /\ k + 1 \in 1..n
        OBVIOUS
    <2>1. PICK g \in [SUBSET (1..k) -> X] : IsFold(g, base, turn, k)
        BY <2>0 DEF Exists
    <2> DEFINE h == [s \in SUBSET (1..(k + 1)) |->
                        IF s \in SUBSET (1..k) THEN g[s] ELSE turn[g[s \ {k + 1}], k + 1]]
    <2>2. ASSUME NEW s \in SUBSET (1..(k + 1))
          PROVE  h[s] = IF s = {} THEN base ELSE turn[h[s \ {Max(s)}], Max(s)]
        <3>1. CASE s = {}
            BY <2>1, <3>1 DEF IsFold
        <3>2. CASE s # {} /\ s \in SUBSET (1..k)
            <4>1. s \ {Max(s)} \in SUBSET (1..k) /\ s \ {Max(s)} \in SUBSET (1..(k + 1))
                BY <2>0, <3>2, MaxSplits
            <4>2. h[s] = g[s] /\ h[s \ {Max(s)}] = g[s \ {Max(s)}]
                BY <3>2, <4>1
            <4>3. g[s] = turn[g[s \ {Max(s)}], Max(s)]
                BY <2>1, <3>2 DEF IsFold
            <4> QED
                BY <3>2, <4>2, <4>3
        <3>3. CASE s \notin SUBSET (1..k)
            <4>1. s # {} /\ Max(s) = k + 1
                BY <2>0, <3>3, MaxSplits
            <4>2. s \ {k + 1} \in SUBSET (1..k) /\ s \ {k + 1} \in SUBSET (1..(k + 1))
                OBVIOUS
            <4>3. h[s \ {k + 1}] = g[s \ {k + 1}]
                BY <4>2
            <4>4. h[s] = turn[g[s \ {k + 1}], k + 1]
                BY <3>3
            <4> HIDE DEF h
            <4> QED
                BY <4>1, <4>3, <4>4
        <3> QED
            BY <3>1, <3>2, <3>3
    <2>3. IsFold(h, base, turn, k + 1)
        BY <2>2 DEF IsFold
    <2>4. ASSUME NEW s \in SUBSET (1..(k + 1))
          PROVE  h[s] \in X
        <3>1. s \ {k + 1} \in SUBSET (1..k)
            OBVIOUS
        <3>2. g[s \ {k + 1}] \in X /\ <<g[s \ {k + 1}], k + 1>> \in X \X (1..n)
            BY <2>0, <3>1
        <3> QED
            BY <3>2
    <2>5. h \in [SUBSET (1..(k + 1)) -> X]
        BY <2>4
    <2> HIDE DEF h
    <2> QED
        BY <2>3, <2>5 DEF Exists
<1>3. N = Nat
    <2> HIDE DEF N
    <2> N \in SUBSET Nat
        BY DEF N
    <2> QED
        BY <1>1, <1>2, NatInduct
<1>4. Exists(n)
    <2> HIDE DEF Exists
    <2> QED
        BY <1>3
<1> QED
    BY <1>4

LEMMA PositionBefore ==
    ASSUME NEW n \in Nat, NEW k \in 1..n
    PROVE  /\ k - 1 \in Nat /\ (k - 1) + 1 = k
           /\ 1..k \in SUBSET (1..n) /\ 1..(k - 1) \in SUBSET (1..n)
    OBVIOUS

\* A fold whose turns, from a member of X, are these ends in X.
LEMMA FoldStays ==
    ASSUME NEW X, NEW base \in X, NEW n \in Nat, NEW turn \in [X \X (1..n) -> X],
           NEW g, g[{}] = base,
           \A t \in SUBSET (1..n) : t # {} /\ g[t \ {Max(t)}] \in X
             => g[t] = turn[g[t \ {Max(t)}], Max(t)]
    PROVE  g[1..n] \in X
<1> DEFINE A == {t \in SUBSET (1..n) : g[t] \in X}
<1>1. {} \in A
    OBVIOUS
<1>2. ASSUME NEW k \in 1..n, 1..(k - 1) \in A
      PROVE  1..k \in A
    <2>1. /\ k - 1 \in Nat /\ (k - 1) + 1 = k
          /\ 1..k \in SUBSET (1..n)
        BY PositionBefore
    <2>2. 1..k # {} /\ Max(1..k) = k /\ (1..k) \ {k} = 1..(k - 1)
        BY <2>1, MaxOfPrefix
    <2>3. g[1..(k - 1)] \in X
        BY <1>2
    <2>4. g[1..k] = turn[g[1..(k - 1)], k]
        BY <2>1, <2>2, <2>3
    <2>5. turn[g[1..(k - 1)], k] \in X
        BY <2>3
    <2> QED
        BY <2>1, <2>4, <2>5
<1>3. 1..n \in A
    <2> HIDE DEF A
    <2> QED
        BY <1>1, <1>2, PositionsInduct
<1> QED
    BY <1>3
=============================================================================
