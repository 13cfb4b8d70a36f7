--------------------------- MODULE BrowserProofs ---------------------------
(***************************************************************************)
(* Theorems about the two queues of work that a browser leaves with the    *)
(* server while its user goes on: OfflineSync, for any users, requests and *)
(* contents, and ZipImport with its panel ZipPanel, for any archives and   *)
(* limits.                                                                 *)
(***************************************************************************)
EXTENDS OfflineSync, ZipPanel, FoldLemmas, SequenceTheorems

-----------------------------------------------------------------------------
(* What Without leaves of a queue.                                         *)

LEMMA ToSetAppend ==
    ASSUME NEW S, NEW s \in Seq(S), NEW x \in S
    PROVE  ToSet(Append(s, x)) = ToSet(s) \cup {x}
<1> DEFINE t == Append(s, x)
<1>1. /\ Len(s) \in Nat /\ DOMAIN s = 1..Len(s)
      /\ t \in Seq(S) /\ DOMAIN t = 1..(Len(s) + 1)
      /\ \A i \in 1..Len(s) : t[i] = s[i]
      /\ t[Len(s) + 1] = x
    BY AppendProperties
<1> HIDE DEF t
<1>2. ToSet(t) = ToSet(s) \cup {x}
    BY <1>1 DEF ToSet
<1> QED
    BY <1>2 DEF t

\* A turn of the fold, and the table of its results over sets of positions.
Turn(kept, op, gone) == IF op.client_operation_id \in gone THEN kept ELSE Append(kept, op)

IsFiltered(g, operations, gone, n) ==
    g = [s \in SUBSET (1..n) |->
            IF s = {} THEN << >>
            ELSE Turn(g[s \ {Max(s)}], operations[Max(s)], gone)]

LEMMA FilterTableExists ==
    ASSUME NEW operations, NEW gone, NEW n \in Nat
    PROVE  \E g : IsFiltered(g, operations, gone, n)
<1> DEFINE N == {k \in Nat : \E g : IsFiltered(g, operations, gone, k)}
<1>1. 0 \in N
    <2> DEFINE g == [s \in SUBSET (1..0) |-> << >>]
    <2>1. \A s \in SUBSET (1..0) : s = {}
        OBVIOUS
    <2>2. IsFiltered(g, operations, gone, 0)
        BY <2>1 DEF IsFiltered
    <2> HIDE DEF g
    <2> QED
        BY <2>2
<1>2. ASSUME NEW k \in N
      PROVE  k + 1 \in N
    <2>1. PICK g : IsFiltered(g, operations, gone, k)
        OBVIOUS
    <2> DEFINE h == [s \in SUBSET (1..(k + 1)) |->
                        IF s \in SUBSET (1..k) THEN g[s]
                        ELSE Turn(g[s \ {k + 1}], operations[k + 1], gone)]
    <2>2. ASSUME NEW s \in SUBSET (1..(k + 1))
          PROVE  h[s] = IF s = {} THEN << >>
                        ELSE Turn(h[s \ {Max(s)}], operations[Max(s)], gone)
        <3>1. CASE s = {}
            BY <2>1, <3>1 DEF IsFiltered
        <3>2. CASE s # {} /\ s \in SUBSET (1..k)
            <4>1. s \ {Max(s)} \in SUBSET (1..k) /\ s \ {Max(s)} \in SUBSET (1..(k + 1))
                BY <3>2, MaxSplits
            <4>2. h[s] = g[s] /\ h[s \ {Max(s)}] = g[s \ {Max(s)}]
                BY <3>2, <4>1
            <4>3. g[s] = Turn(g[s \ {Max(s)}], operations[Max(s)], gone)
                BY <2>1, <3>2 DEF IsFiltered
            <4> QED
                BY <3>2, <4>2, <4>3
        <3>3. CASE s \notin SUBSET (1..k)
            <4>1. s # {} /\ Max(s) = k + 1
                BY <3>3, MaxSplits
            <4>2. s \ {k + 1} \in SUBSET (1..k) /\ s \ {k + 1} \in SUBSET (1..(k + 1))
                OBVIOUS
            <4>3. h[s \ {k + 1}] = g[s \ {k + 1}]
                BY <4>2
            <4>4. h[s] = Turn(g[s \ {k + 1}], operations[k + 1], gone)
                BY <3>3
            <4> HIDE DEF h
            <4> QED
                BY <4>1, <4>3, <4>4
        <3> QED
            BY <3>1, <3>2, <3>3
    <2>3. IsFiltered(h, operations, gone, k + 1)
        BY <2>2 DEF IsFiltered
    <2> HIDE DEF h
    <2> QED
        BY <2>3
<1>3. N = Nat
    <2> HIDE DEF N
    <2> N \in SUBSET Nat
        BY DEF N
    <2> QED
        BY <1>1, <1>2, NatInduct
<1> QED
    BY <1>3

\* The operations kept of the first k.
Kept(operations, gone, k) ==
    {operations[i] : i \in {j \in 1..k : operations[j].client_operation_id \notin gone}}

\* A table goes through the operations in order.
LEMMA FilterTurns ==
    ASSUME NEW S, NEW operations \in Seq(S), NEW gone,
           NEW g, IsFiltered(g, operations, gone, Len(operations)),
           NEW k \in Nat, k <= Len(operations)
    PROVE  /\ g[1..k] \in Seq(S)
           /\ ToSet(g[1..k]) = Kept(operations, gone, k)
<1> DEFINE n == Len(operations)
           Right(m) == g[1..m] \in Seq(S) /\ ToSet(g[1..m]) = Kept(operations, gone, m)
           N == {m \in Nat : m <= n => Right(m)}
<1>1. 0 \in N
    <2>1. 1..0 = {} /\ {} \in SUBSET (1..n)
        OBVIOUS
    <2>2. g[{}] = << >>
        BY <2>1 DEF IsFiltered
    <2>3. g[1..0] = << >>
        BY <2>1, <2>2
    <2>4. Kept(operations, gone, 0) = {}
        BY <2>1 DEF Kept
    <2>5. ToSet(<< >>) = {} /\ << >> \in Seq(S)
        BY DEF ToSet
    <2>6. Right(0)
        BY <2>3, <2>4, <2>5
    <2> QED
        BY <2>6
<1>2. ASSUME NEW m \in Nat, m + 1 <= n, Right(m)
      PROVE  Right(m + 1)
    <2> DEFINE next == 1..(m + 1)
    <2>1. next \in SUBSET (1..n) /\ operations[m + 1] \in S
        BY <1>2
    <2>2. next # {} /\ Max(next) = m + 1 /\ next \ {m + 1} = 1..m
        BY MaxOfPrefix
    <2> HIDE DEF next
    <2>3. g[next] = Turn(g[next \ {Max(next)}], operations[Max(next)], gone)
        BY <2>1, <2>2 DEF IsFiltered
    <2>4. g[next] = Turn(g[1..m], operations[m + 1], gone)
        BY <2>2, <2>3
    <2>7. \A i : i \in 1..(m + 1) <=> i \in 1..m \/ i = m + 1
        OBVIOUS
    <2>5. CASE operations[m + 1].client_operation_id \in gone
        <3>1. Kept(operations, gone, m + 1) = Kept(operations, gone, m)
            BY <2>5, <2>7 DEF Kept
        <3>2. g[next] = g[1..m]
            BY <2>4, <2>5 DEF Turn
        <3> QED
            BY <1>2, <3>1, <3>2 DEF next
    <2>6. CASE operations[m + 1].client_operation_id \notin gone
        <3> DEFINE kept == g[1..m]
        <3>1. g[next] = Append(kept, operations[m + 1])
            BY <2>4, <2>6 DEF Turn
        <3>2. kept \in Seq(S) /\ ToSet(kept) = Kept(operations, gone, m)
            BY <1>2
        <3> HIDE DEF kept
        <3>3. /\ Append(kept, operations[m + 1]) \in Seq(S)
              /\ ToSet(Append(kept, operations[m + 1])) = ToSet(kept) \cup {operations[m + 1]}
            BY <2>1, <3>2, ToSetAppend, AppendProperties
        <3>4. Kept(operations, gone, m + 1) = Kept(operations, gone, m) \cup {operations[m + 1]}
            BY <2>6, <2>7 DEF Kept
        <3> QED
            BY <3>1, <3>2, <3>3, <3>4 DEF next
    <2> QED
        BY <2>5, <2>6
<1>3. N = Nat
    <2>1. \A m \in N : m + 1 \in N
        BY <1>2
    <2> HIDE DEF N
    <2> N \in SUBSET Nat
        BY DEF N
    <2> QED
        BY <1>1, <2>1, NatInduct
<1> QED
    BY <1>3

\* What is left is a queue of the operations whose id is not gone.
LEMMA WithoutKeeps ==
    ASSUME NEW S, NEW operations \in Seq(S), NEW gone
    PROVE  /\ Without(operations, gone) \in Seq(S)
           /\ ToSet(Without(operations, gone))
                = {op \in ToSet(operations) : op.client_operation_id \notin gone}
<1> DEFINE n == Len(operations)
           Folds(g) == g = [s \in SUBSET (DOMAIN operations) |->
                        IF s = {} THEN << >>
                        ELSE IF operations[Max(s)].client_operation_id \in gone
                             THEN g[s \ {Max(s)}]
                             ELSE Append(g[s \ {Max(s)}], operations[Max(s)])]
           table == CHOOSE g : Folds(g)
<1>1. Without(operations, gone) = table[DOMAIN operations]
    BY DEF Without, FoldLeft, MapThenFoldSet
<1>2. n \in Nat /\ DOMAIN operations = 1..n
    OBVIOUS
<1>3. \A g : Folds(g) <=> IsFiltered(g, operations, gone, n)
    BY <1>2 DEF IsFiltered, Turn
<1>4. \E g : Folds(g)
    BY <1>2, <1>3, FilterTableExists
<1>5. IsFiltered(table, operations, gone, n)
    BY <1>3, <1>4
<1> HIDE DEF table, Folds
<1>6. table[1..n] \in Seq(S) /\ ToSet(table[1..n]) = Kept(operations, gone, n)
    BY <1>2, <1>5, FilterTurns
<1> QED
    BY <1>1, <1>2, <1>6 DEF ToSet, Kept

-----------------------------------------------------------------------------
(* A queued operation waits until it is settled.                           *)

Operation == [actor : Actor, client_operation_id : OperationId, base_version : Nat,
              content : Content, merge_strategy : Strategies]

Mine(ops, a) == {op \in ops : op.actor = a}

\* What a request may answer with for a user: the rows of that user.
Outcomes(rows, a) ==
    { [client_operation_id |-> row.client_operation_id, status |-> row.status] :
        row \in {x \in rows : x.actor = a} }

IsBatch(b, ops, rows) ==
    b \in [actor : Actor, items : Seq(Mine(ops, b.actor)), done : Seq(Outcomes(rows, b.actor)),
           stage : {"look", "apply", "applied", "conflict", "failed"}]

\* The ids of a user's operations are unique, queues and batches are made of the
\* user's own operations, and what a request has done is what the user's rows say.
QueueInv ==
    /\ queued \subseteq Operation
    /\ \A op, other \in queued :
        op.actor = other.actor /\ op.client_operation_id = other.client_operation_id
            => op = other
    /\ DOMAIN queue = Actor
    /\ \A a \in Actor : queue[a] \in Seq(Mine(queued, a))
    /\ DOMAIN request = Request
    /\ \A r \in Request : request[r] # None => IsBatch(request[r], queued, records)
    /\ QueuedUntilSettled

LEMMA SeqGrows ==
    ASSUME NEW S, NEW T, S \subseteq T, NEW s \in Seq(S)
    PROVE  s \in Seq(T)
OBVIOUS

LEMMA ItemsGoOn ==
    ASSUME NEW S, NEW s \in Seq(S), s # << >>
    PROVE  Head(s) \in S /\ Tail(s) \in Seq(S)
BY HeadTailProperties

LEMMA BatchStays ==
    ASSUME NEW b, NEW ops, NEW rows, IsBatch(b, ops, rows),
           NEW ops2, ops \subseteq ops2, NEW rows2, rows \subseteq rows2
    PROVE  IsBatch(b, ops2, rows2)
<1>1. Mine(ops, b.actor) \subseteq Mine(ops2, b.actor)
    BY DEF Mine
<1>2. Outcomes(rows, b.actor) \subseteq Outcomes(rows2, b.actor)
    BY DEF Outcomes
<1> QED
    BY <1>1, <1>2, SeqGrows DEF IsBatch

\* A batch goes on to its next item with what a row says of the item.
LEMMA BatchGoesOn ==
    ASSUME NEW b, NEW ops, NEW rows, IsBatch(b, ops, rows), b.items # << >>,
           NEW row \in rows, row.actor = b.actor,
           row.client_operation_id = Head(b.items).client_operation_id
    PROVE  IsBatch([b EXCEPT
                !.items = Tail(@), !.stage = "look",
                !.done = Append(@, [client_operation_id |-> Head(b.items).client_operation_id,
                                    status |-> row.status])], ops, rows)
<1> DEFINE result == [client_operation_id |-> Head(b.items).client_operation_id,
                      status |-> row.status]
<1>1. result \in Outcomes(rows, b.actor)
    BY DEF Outcomes
<1> HIDE DEF result
<1> DEFINE left == Tail(b.items)
           done == Append(b.done, result)
           next == [b EXCEPT !.items = left, !.stage = "look", !.done = done]
<1>2. left \in Seq(Mine(ops, b.actor))
    BY ItemsGoOn DEF IsBatch
<1>3. done \in Seq(Outcomes(rows, b.actor))
    BY <1>1, AppendProperties DEF IsBatch
<1> HIDE DEF left, done
<1>4. next \in [actor : Actor, items : Seq(Mine(ops, b.actor)), done : Seq(Outcomes(rows, b.actor)),
                stage : {"look", "apply", "applied", "conflict", "failed"}]
    BY <1>2, <1>3 DEF IsBatch
<1>5. next.actor = b.actor
    BY DEF IsBatch
<1> HIDE DEF next
<1>6. IsBatch(next, ops, rows)
    BY <1>4, <1>5 DEF IsBatch
<1> QED
    BY <1>6 DEF next, left, done, result

LEMMA QueueInvInit == Init => QueueInv
<1> SUFFICES ASSUME Init PROVE QueueInv
    OBVIOUS
<1>1. << >> \in Seq(Mine({}, 1)) /\ \A S : << >> \in Seq(S)
    OBVIOUS
<1> QED
    BY <1>1 DEF Init, QueueInv, QueuedUntilSettled

\* A request that ends, or does nothing but reach another stage.
LEMMA RequestsSame ==
    ASSUME QueueInv, NEW r \in Request, NEW b,
           request' = [request EXCEPT ![r] = b], b # None => IsBatch(b, queued, records),
           UNCHANGED <<records, queue, queued>>
    PROVE  QueueInv'
<1>1. \A s \in Request : request'[s] # None => IsBatch(request'[s], queued, records)
    BY DEF QueueInv
<1>2. DOMAIN request' = Request
    BY DEF QueueInv
<1>3. QueuedUntilSettled'
    BY DEF QueueInv, QueuedUntilSettled, RecordsOf
<1> QED
    BY <1>1, <1>2, <1>3 DEF QueueInv

LEMMA QueueKeeps ==
    ASSUME QueueInv, NEW a \in Actor, NEW id \in OperationId, NEW base \in 1..MaxVersion,
           NEW content \in Content, NEW strategy \in Strategies, NEW reached \in BOOLEAN,
           QueueOfflineSave(a, id, base, content, strategy, reached)
    PROVE  QueueInv'
<1> DEFINE op == [ actor |-> a, client_operation_id |-> id, base_version |-> base,
                   content |-> content, merge_strategy |-> strategy ]
<1>1. /\ op \in Operation /\ op.actor = a /\ op.client_operation_id = id
      /\ queue' = [queue EXCEPT ![a] = Append(@, op)]
      /\ queued' = queued \cup {op}
      /\ \A other \in queued : other.actor = a => other.client_operation_id # id
      /\ UNCHANGED <<records, request>>
    BY DEF QueueOfflineSave, Operation
<1> HIDE DEF op
<1>2. \A b \in Actor : Mine(queued, b) \subseteq Mine(queued', b)
    BY <1>1 DEF Mine
<1>3. op \in Mine(queued', a)
    BY <1>1 DEF Mine
<1>4. \A b \in Actor : queue[b] \in Seq(Mine(queued', b))
    BY <1>2, SeqGrows DEF QueueInv
<1>5. /\ Append(queue[a], op) \in Seq(Mine(queued', a))
      /\ ToSet(Append(queue[a], op)) = ToSet(queue[a]) \cup {op}
    BY <1>3, <1>4, AppendProperties, ToSetAppend
<1>6. DOMAIN queue' = Actor /\ \A b \in Actor : queue'[b] \in Seq(Mine(queued', b))
    BY <1>1, <1>4, <1>5 DEF QueueInv
<1>7. \A s \in Request : request'[s] # None => IsBatch(request'[s], queued', records')
    <2> SUFFICES ASSUME NEW s \in Request, request[s] # None
                 PROVE  IsBatch(request[s], queued', records)
        BY <1>1
    <2>1. IsBatch(request[s], queued, records) /\ queued \subseteq queued'
        BY <1>1 DEF QueueInv
    <2> QED
        BY <2>1, BatchStays
<1>8. QueuedUntilSettled'
    <2> SUFFICES ASSUME NEW o \in queued', o \notin ToSet(queue'[o.actor])
                 PROVE  \E row \in RecordsOf(o.actor, o.client_operation_id)' : row.status # "conflict"
        BY DEF QueuedUntilSettled
    <2>1. o # op
        BY <1>1, <1>5 DEF QueueInv
    <2>2. o \in queued /\ o \notin ToSet(queue[o.actor])
        BY <1>1, <1>5, <2>1 DEF QueueInv
    <2> QED
        BY <1>1, <2>2 DEF QueueInv, QueuedUntilSettled, RecordsOf
<1>9. /\ queued' \subseteq Operation
      /\ \A o, other \in queued' :
            o.actor = other.actor /\ o.client_operation_id = other.client_operation_id
                => o = other
    BY <1>1 DEF QueueInv
<1> QED
    BY <1>1, <1>6, <1>7, <1>8, <1>9 DEF QueueInv

LEMMA StartKeeps ==
    ASSUME QueueInv, NEW r \in Request, NEW a \in Actor, StartSync(r, a)
    PROVE  QueueInv'
<1> DEFINE items == queue[a]
           b == [ actor |-> a, items |-> items, done |-> << >>, stage |-> "look" ]
<1>1. items \in Seq(Mine(queued, a))
    BY DEF QueueInv
<1> HIDE DEF items
<1>2. b \in [actor : Actor, items : Seq(Mine(queued, a)), done : Seq(Outcomes(records, a)),
             stage : {"look", "apply", "applied", "conflict", "failed"}] /\ b.actor = a
    BY <1>1
<1>3. request' = [request EXCEPT ![r] = b] /\ UNCHANGED <<records, queue, queued>>
    BY DEF StartSync, items
<1> HIDE DEF b
<1>4. IsBatch(b, queued, records)
    BY <1>2 DEF IsBatch
<1> QED
    BY <1>3, <1>4, RequestsSame

LEMMA LookUpKeeps ==
    ASSUME QueueInv, NEW r \in Request, LookUp(r)
    PROVE  QueueInv'
<1> DEFINE b == request[r]
           rows == RecordsOf(b.actor, Item(r).client_operation_id)
           row == CHOOSE x \in rows : TRUE
<1>1. IsBatch(b, queued, records) /\ b.items # << >> /\ Item(r) = Head(b.items)
    BY DEF QueueInv, LookUp, Working, Item
<1>2. UNCHANGED <<records, queue, queued>>
    BY DEF LookUp
<1>3. CASE rows = {}
    <2>1. request' = [request EXCEPT ![r] = [b EXCEPT !.stage = "apply"]]
        BY <1>3 DEF LookUp, QueueInv
    <2>2. IsBatch([b EXCEPT !.stage = "apply"], queued, records)
        <3> HIDE DEF b
        <3> QED
            BY <1>1 DEF IsBatch
    <2> QED
        BY <1>2, <2>1, <2>2, RequestsSame
<1>4. CASE rows # {}
    <2>1. row \in records /\ row.actor = b.actor
          /\ row.client_operation_id = Head(b.items).client_operation_id
        BY <1>1, <1>4 DEF RecordsOf
    <2>2. request' = [request EXCEPT ![r] = NextItem(r, row.status)]
        BY <1>4 DEF LookUp, QueueInv
    <2>3. IsBatch(NextItem(r, row.status), queued, records)
        <3> HIDE DEF row, rows
        <3> QED
            BY <1>1, <2>1, BatchGoesOn DEF NextItem
    <2> HIDE DEF row, rows
    <2> QED
        BY <1>2, <2>2, <2>3, RequestsSame
<1> QED
    BY <1>3, <1>4

LEMMA ApplyKeeps ==
    ASSUME QueueInv, NEW r \in Request, Apply(r)
    PROVE  QueueInv'
<1> DEFINE b == request[r]
           status == Status(Item(r))
           next == [b EXCEPT !.stage = status]
<1>1. IsBatch(b, queued, records)
    BY DEF QueueInv, Apply, Working
<1>2. status \in {"applied", "conflict", "failed"}
    BY DEF Status
<1>3. request' = [request EXCEPT ![r] = next] /\ UNCHANGED <<records, queue, queued>>
    BY DEF Apply, QueueInv
<1>4. IsBatch(next, queued, records)
    <2> HIDE DEF b, status
    <2> QED
        BY <1>1, <1>2 DEF IsBatch
<1> HIDE DEF b, status, next
<1> QED
    BY <1>3, <1>4, RequestsSame

LEMMA RecordKeeps ==
    ASSUME QueueInv, NEW r \in Request, RecordResult(r)
    PROVE  QueueInv'
<1> DEFINE b == request[r]
<1>1. PICK status \in {"applied", "conflict", "failed"} :
        /\ Working(r, status)
        /\ IF \E row \in records : row.client_operation_id = Item(r).client_operation_id
           THEN /\ request' = [request EXCEPT ![r] = None]
                /\ UNCHANGED records
           ELSE /\ records' = records \cup
                    {[ actor |-> b.actor, status |-> status,
                       client_operation_id |-> Item(r).client_operation_id ]}
                /\ request' = [request EXCEPT ![r] = NextItem(r, status)]
    BY DEF RecordResult
<1>2. UNCHANGED <<queue, queued>>
    BY DEF RecordResult
<1>3. CASE \E row \in records : row.client_operation_id = Item(r).client_operation_id
    <2>1. request' = [request EXCEPT ![r] = None] /\ UNCHANGED records
        BY <1>1, <1>3
    <2> QED
        BY <1>2, <2>1, RequestsSame
<1>4. CASE ~ \E row \in records : row.client_operation_id = Item(r).client_operation_id
    <2> DEFINE id == Head(b.items).client_operation_id
               row == [ actor |-> b.actor, status |-> status, client_operation_id |-> id ]
               next == NextItem(r, status)
    <2>1. /\ IsBatch(b, queued, records) /\ b.items # << >>
          /\ records' = records \cup {row}
          /\ request' = [request EXCEPT ![r] = next]
        BY <1>1, <1>4 DEF QueueInv, Working, Item
    <2>2. row.actor = b.actor /\ row.status = status /\ row.client_operation_id = id
        OBVIOUS
    <2>3. IsBatch(b, queued, records')
        BY <2>1, BatchStays
    <2>4. IsBatch(next, queued, records')
        <3> HIDE DEF b, row
        <3> QED
            BY <2>1, <2>2, <2>3, BatchGoesOn DEF NextItem, Item, b
    <2> HIDE DEF next
    <2>5. \A s \in Request : request'[s] # None => IsBatch(request'[s], queued', records')
        <3> SUFFICES ASSUME NEW s \in Request, request'[s] # None
                     PROVE  IsBatch(request'[s], queued, records')
            BY <1>2
        <3>1. CASE s = r
            BY <2>1, <2>4, <3>1 DEF QueueInv
        <3>2. CASE s # r
            <4>1. request'[s] = request[s] /\ IsBatch(request[s], queued, records)
                BY <2>1, <3>2 DEF QueueInv
            <4> QED
                BY <2>1, <4>1, BatchStays
        <3> QED
            BY <3>1, <3>2
    <2>6. QueuedUntilSettled'
        <3>1. \A a, i : RecordsOf(a, i) \subseteq RecordsOf(a, i)'
            BY <2>1 DEF RecordsOf
        <3> QED
            BY <1>2, <3>1 DEF QueueInv, QueuedUntilSettled
    <2>7. DOMAIN request' = Request
        BY <2>1 DEF QueueInv
    <2> QED
        BY <1>2, <2>5, <2>6, <2>7 DEF QueueInv
<1> QED
    BY <1>3, <1>4

\* An id that an answer names and does not leave unresolved has a row that settles it.
LEMMA RespondKeeps ==
    ASSUME QueueInv, NEW r \in Request, Respond(r)
    PROVE  QueueInv'
<1> DEFINE a == request[r].actor
           done == request[r].done
           ids == { done[i].client_operation_id : i \in DOMAIN done }
           unresolved == { done[i].client_operation_id :
                i \in { j \in DOMAIN done : done[j].status = "conflict" } }
           live == { queue[a][i].client_operation_id : i \in DOMAIN queue[a] }
           gone == ids \ unresolved
<1>1. /\ queue' = IF ids \subseteq live THEN [queue EXCEPT ![a] = Without(@, gone)] ELSE queue
      /\ request' = [request EXCEPT ![r] = None]
      /\ UNCHANGED <<records, queued>>
    BY DEF Respond
<1>2. a \in Actor /\ done \in Seq(Outcomes(records, a))
    BY DEF Respond, QueueInv, IsBatch
<1>3. ASSUME NEW id \in gone
      PROVE  \E row \in records : row.actor = a /\ row.client_operation_id = id
                                 /\ row.status # "conflict"
    <2>1. PICK i \in DOMAIN done : done[i].client_operation_id = id
        OBVIOUS
    <2>2. done[i].status # "conflict"
        BY <1>3, <2>1
    <2>3. done[i] \in Outcomes(records, a)
        BY <1>2
    <2> QED
        BY <2>1, <2>2, <2>3 DEF Outcomes
<1> HIDE DEF gone, done, a, ids, live
<1> DEFINE left == Without(queue[a], gone)
<1>4. /\ left \in Seq(Mine(queued, a))
      /\ ToSet(left) = {op \in ToSet(queue[a]) : op.client_operation_id \notin gone}
    BY <1>2, WithoutKeeps DEF QueueInv
<1> HIDE DEF left
<1>5. queue' = queue \/ queue' = [queue EXCEPT ![a] = left]
    BY <1>1 DEF left
<1>6. DOMAIN queue' = Actor /\ \A c \in Actor : queue'[c] \in Seq(Mine(queued, c))
    BY <1>2, <1>4, <1>5 DEF QueueInv
<1>7. ASSUME NEW op \in queued, op \notin ToSet(queue'[op.actor])
      PROVE  \E row \in RecordsOf(op.actor, op.client_operation_id) : row.status # "conflict"
    <2>1. op.actor \in Actor
        BY DEF QueueInv, Operation
    <2>2. CASE op \notin ToSet(queue[op.actor])
        BY <2>2 DEF QueueInv, QueuedUntilSettled
    <2>3. CASE op \in ToSet(queue[op.actor])
        <3>1. op.actor = a /\ queue'[a] = left
            BY <1>2, <1>5, <1>7, <2>1, <2>3 DEF QueueInv
        <3>2. op.client_operation_id \in gone
            BY <1>4, <1>7, <2>3, <3>1
        <3> QED
            BY <1>3, <3>1, <3>2 DEF RecordsOf
    <2> QED
        BY <2>2, <2>3
<1>8. QueuedUntilSettled'
    BY <1>1, <1>7 DEF QueuedUntilSettled, RecordsOf
<1>9. DOMAIN request' = Request
      /\ \A s \in Request : request'[s] # None => IsBatch(request'[s], queued, records)
    BY <1>1 DEF QueueInv
<1> QED
    BY <1>1, <1>6, <1>8, <1>9 DEF QueueInv

LEMMA QueueInvNext == QueueInv /\ [Next]_vars => QueueInv'
<1> SUFFICES ASSUME QueueInv, [Next]_vars PROVE QueueInv'
    OBVIOUS
<1>1. ASSUME UNCHANGED <<records, queue, queued, request>>
      PROVE  QueueInv'
    BY <1>1 DEF QueueInv, QueuedUntilSettled, RecordsOf
<1>2. ASSUME NEW r \in Request, LoseAnswer(r)
      PROVE  QueueInv'
    BY <1>2, RequestsSame DEF LoseAnswer
<1>3. ASSUME Crash
      PROVE  QueueInv'
    BY <1>3 DEF Crash, QueueInv, QueuedUntilSettled, RecordsOf
<1>4. CASE UNCHANGED vars
    BY <1>1, <1>4 DEF vars
<1>5. ASSUME NEW content, SaveElsewhere(content)
      PROVE  QueueInv'
    BY <1>1, <1>5 DEF SaveElsewhere
<1> QED
    BY <1>2, <1>3, <1>4, <1>5, QueueKeeps, StartKeeps, LookUpKeeps, ApplyKeeps,
       RecordKeeps, RespondKeeps
    DEF Next

THEOREM QueueInvariant == Spec => []QueueInv
<1> QED
    BY QueueInvInit, QueueInvNext, PTL DEF Spec

\* An operation leaves its browser's queue only when one of its user's rows says that
\* it was applied or has failed for another reason than a version conflict, whatever
\* answers are lost, come late or are those of another request, and whenever the
\* server stops (flushOfflineQueue).
THEOREM QueuedUntilSettledHolds == Spec => []QueuedUntilSettled
<1>1. QueueInv => QueuedUntilSettled
    BY DEF QueueInv
<1> QED
    BY <1>1, QueueInvariant, PTL

-----------------------------------------------------------------------------
(* An operation is applied once.                                           *)

Source == [content : Content, actor : Actor \cup {None},
           client_operation_id : OperationId \cup {None}, by : {"save", "sync", None}]

EventsIn(log, a, id) ==
    {v \in DOMAIN log : log[v].actor = a /\ log[v].client_operation_id = id}

\* An event of a user is the version that follows the base version of one of the
\* user's operations.
EventsAreOperations ==
    \A v \in DOMAIN events :
        \/ events[v].actor = None
        \/ \E op \in queued :
            /\ op.actor = events[v].actor
            /\ op.client_operation_id = events[v].client_operation_id
            /\ v = op.base_version + 1

\* ... and what a row or a request says was applied has its event.
AppliedHasEvent ==
    /\ \A row \in records :
        row.status = "applied" => EventsIn(events, row.actor, row.client_operation_id) # {}
    /\ \A r \in Request :
        request[r] # None /\ request[r].stage = "applied" =>
            /\ request[r].items # << >>
            /\ EventsIn(events, request[r].actor, Item(r).client_operation_id) # {}

AppliedInv ==
    /\ events \in Seq(Source)
    /\ EventsAreOperations
    /\ AppliedHasEvent

\* Without the strategy "auto", only an operation on the current version is applied.
LEMMA AppliedIsCurrent ==
    ASSUME "auto" \notin Strategies, NEW op \in Operation, Status(op) = "applied"
    PROVE  op.base_version = current_version /\ Merged(op) = op.content
<1>1. op.merge_strategy # "auto"
    BY DEF Operation
<1>2. Merged(op) # Raised
    BY DEF Status
<1> QED
    BY <1>1, <1>2 DEF Merged

\* A save of such an operation, or of a user without a queue.
LEMMA EventAppended ==
    ASSUME AppliedInv, NEW content \in Content, NEW a \in Actor \cup {None},
           NEW id \in OperationId \cup {None}, NEW by \in {"save", "sync", None},
           events' = Append(events, Event(content, a, id, by)),
           queued \subseteq queued',
           a # None => \E op \in queued' :
                op.actor = a /\ op.client_operation_id = id /\ op.base_version = current_version
    PROVE  /\ events' \in Seq(Source)
           /\ EventsAreOperations'
           /\ \A x, i : EventsIn(events, x, i) \subseteq EventsIn(events', x, i)
           /\ EventsIn(events', a, id) # {}
<1> DEFINE e == Event(content, a, id, by)
<1>1. e \in Source /\ e.actor = a /\ e.client_operation_id = id
    BY DEF Event, Source
<1> HIDE DEF e
<1>2. events \in Seq(Source) /\ events' = Append(events, e)
    BY DEF AppliedInv, e
<1>3. /\ events' \in Seq(Source) /\ Len(events) \in Nat
      /\ DOMAIN events = 1..Len(events) /\ DOMAIN events' = 1..(Len(events) + 1)
      /\ \A v \in 1..Len(events) : events'[v] = events[v]
      /\ events'[Len(events) + 1] = e
    BY <1>1, <1>2, AppendProperties
<1>4. EventsAreOperations'
    <2> SUFFICES ASSUME NEW v \in 1..(Len(events) + 1), events'[v].actor # None
                 PROVE  \E op \in queued' :
                            /\ op.actor = events'[v].actor
                            /\ op.client_operation_id = events'[v].client_operation_id
                            /\ v = op.base_version + 1
        BY <1>3 DEF EventsAreOperations
    <2>1. CASE v \in 1..Len(events)
        BY <1>3, <2>1 DEF AppliedInv, EventsAreOperations
    <2>2. CASE v = Len(events) + 1
        BY <1>1, <1>3, <2>2 DEF current_version
    <2> QED
        BY <1>3, <2>1, <2>2
<1>5. \A x, i : EventsIn(events, x, i) \subseteq EventsIn(events', x, i)
    BY <1>3 DEF EventsIn
<1>6. Len(events) + 1 \in EventsIn(events', a, id)
    BY <1>1, <1>3 DEF EventsIn
<1> QED
    BY <1>3, <1>4, <1>5, <1>6

LEMMA AppliedInvInit == Init => AppliedInv
<1> SUFFICES ASSUME Init PROVE AppliedInv
    OBVIOUS
<1> DEFINE e == Event(InitialContent, None, None, None)
<1>1. e \in Source /\ e.actor = None
    BY InitialAssumption DEF Event, Source
<1>2. events = <<e>> /\ records = {} /\ \A r \in Request : request[r] = None
    BY DEF Init
<1> HIDE DEF e
<1>3. events \in Seq(Source) /\ DOMAIN events = {1} /\ events[1] = e
    BY <1>1, <1>2
<1>4. EventsAreOperations
    BY <1>1, <1>3 DEF EventsAreOperations
<1> QED
    BY <1>2, <1>3, <1>4 DEF AppliedInv, AppliedHasEvent

LEMMA AppliedInvNext ==
    ASSUME "auto" \notin Strategies, QueueInv, AppliedInv, [Next]_vars
    PROVE  AppliedInv'
<1>0. /\ QueueInv /\ AppliedInv
      /\ \A r \in Request : request[r] # None => IsBatch(request[r], queued, records)
    BY DEF QueueInv
<1>1. ASSUME UNCHANGED <<events, records, request>>, queued \subseteq queued'
      PROVE  AppliedInv'
    BY <1>1 DEF AppliedInv, EventsAreOperations, AppliedHasEvent, EventsIn, Item
\* A request goes to a stage other than "applied", or ends.
<1>2. ASSUME NEW r \in Request, NEW b, request' = [request EXCEPT ![r] = b],
             b # None => b.stage # "applied", UNCHANGED <<events, records, queued>>
      PROVE  AppliedInv'
    BY <1>2 DEF AppliedInv, EventsAreOperations, AppliedHasEvent, EventsIn, Item, QueueInv
<1>3. ASSUME NEW a \in Actor, NEW id \in OperationId, NEW base \in 1..MaxVersion,
             NEW content \in Content, NEW strategy \in Strategies, NEW reached \in BOOLEAN,
             QueueOfflineSave(a, id, base, content, strategy, reached)
      PROVE  AppliedInv'
    <2> DEFINE op == [ actor |-> a, client_operation_id |-> id, base_version |-> base,
                       content |-> content, merge_strategy |-> strategy ]
    <2>1. /\ op \in Operation /\ op.actor = a /\ op.client_operation_id = id
          /\ op.content = content
          /\ queued' = queued \cup {op}
          /\ UNCHANGED <<records, request>>
          /\ \/ UNCHANGED events
             \/ Status(op) = "applied"
                /\ events' = Append(events, Event(Merged(op), a, id, "save"))
        BY <1>3 DEF QueueOfflineSave, Operation
    <2> HIDE DEF op
    <2>2. CASE UNCHANGED events
        BY <1>1, <2>1, <2>2
    <2>3. CASE Status(op) = "applied"
               /\ events' = Append(events, Event(Merged(op), a, id, "save"))
        <3>1. op.base_version = current_version /\ Merged(op) = content
            BY <2>1, <2>3, AppliedIsCurrent
        <3>2. /\ events' \in Seq(Source)
              /\ EventsAreOperations'
              /\ \A x, i : EventsIn(events, x, i) \subseteq EventsIn(events', x, i)
            BY <2>1, <2>3, <3>1, EventAppended
        <3> QED
            BY <2>1, <3>2 DEF AppliedInv, AppliedHasEvent, Item
    <2> QED
        BY <2>1, <2>2, <2>3
<1>4. ASSUME NEW r \in Request, Apply(r)
      PROVE  AppliedInv'
    <2> DEFINE b == request[r]
               op == Item(r)
               status == Status(op)
    <2>1. /\ IsBatch(b, queued, records) /\ b.items # << >> /\ op = Head(b.items)
          /\ request' = [request EXCEPT ![r] = [b EXCEPT !.stage = status]]
          /\ UNCHANGED <<records, queued>>
          /\ events' = IF status = "applied"
                       THEN Append(events, Event(Merged(op), op.actor, op.client_operation_id, "sync"))
                       ELSE events
        BY <1>0, <1>4 DEF Apply, Working, Item, QueueInv
    <2>2. op \in queued /\ op.actor = b.actor
        BY <2>1, ItemsGoOn DEF IsBatch, Mine
    <2>3. op \in Operation
        BY <1>0, <2>2 DEF QueueInv
    <2>4. /\ [b EXCEPT !.stage = status].stage = status
          /\ [b EXCEPT !.stage = status].items = b.items
          /\ [b EXCEPT !.stage = status].actor = b.actor
        BY <2>1 DEF IsBatch
    <2>5. CASE status # "applied"
        BY <1>2, <2>1, <2>4, <2>5
    <2>6. CASE status = "applied"
        <3>1. op.base_version = current_version /\ Merged(op) = op.content
            BY <2>3, <2>6, AppliedIsCurrent
        <3>2. op.actor \in Actor /\ op.client_operation_id \in OperationId /\ op.content \in Content
            BY <2>3 DEF Operation
        <3>3. events' = Append(events, Event(op.content, op.actor, op.client_operation_id, "sync"))
            BY <2>1, <2>6, <3>1
        <3> HIDE DEF status, op
        <3>4. /\ events' \in Seq(Source)
              /\ EventsAreOperations'
              /\ \A x, i : EventsIn(events, x, i) \subseteq EventsIn(events', x, i)
              /\ EventsIn(events', op.actor, op.client_operation_id) # {}
            BY <2>1, <2>2, <3>1, <3>2, <3>3, EventAppended
        <3>5. ASSUME NEW s \in Request, request'[s] # None, request'[s].stage = "applied"
              PROVE  /\ request'[s].items # << >>
                     /\ EventsIn(events', request'[s].actor, Head(request'[s].items).client_operation_id) # {}
            <4>1. CASE s = r
                <5>1. request'[s] = [b EXCEPT !.stage = status]
                    BY <2>1, <4>1 DEF QueueInv
                <5>2. request'[s].items = b.items /\ request'[s].actor = b.actor
                    BY <2>4, <5>1
                <5> QED
                    BY <2>1, <2>2, <3>4, <5>2
            <4>2. CASE s # r
                <5>1. request'[s] = request[s]
                    BY <2>1, <4>2 DEF QueueInv
                <5>2. EventsIn(events, request[s].actor, Head(request[s].items).client_operation_id)
                        \subseteq EventsIn(events', request[s].actor, Head(request[s].items).client_operation_id)
                    BY <3>4
                <5>3. /\ request[s].items # << >>
                      /\ EventsIn(events, request[s].actor, Head(request[s].items).client_operation_id) # {}
                    BY <3>5, <5>1 DEF AppliedInv, AppliedHasEvent, Item
                <5>4. EventsIn(events', request[s].actor, Head(request[s].items).client_operation_id) # {}
                    BY <5>2, <5>3
                <5> QED
                    BY <5>1, <5>3, <5>4
            <4> QED
                BY <4>1, <4>2
        <3>6. \A row \in records' :
                row.status = "applied" => EventsIn(events', row.actor, row.client_operation_id) # {}
            BY <2>1, <3>4 DEF AppliedInv, AppliedHasEvent
        <3> QED
            BY <3>4, <3>5, <3>6 DEF AppliedInv, AppliedHasEvent, Item
    <2> QED
        BY <2>5, <2>6
<1>5. ASSUME NEW r \in Request, RecordResult(r)
      PROVE  AppliedInv'
    <2> DEFINE b == request[r]
               id == Item(r).client_operation_id
    <2>1. PICK status \in {"applied", "conflict", "failed"} :
            /\ Working(r, status)
            /\ \/ /\ request' = [request EXCEPT ![r] = None]
                  /\ UNCHANGED records
               \/ /\ records' = records \cup
                        {[ actor |-> b.actor, status |-> status, client_operation_id |-> id ]}
                  /\ request' = [request EXCEPT ![r] = NextItem(r, status)]
        BY <1>5 DEF RecordResult
    <2>2. UNCHANGED <<events, queued>>
        BY <1>5 DEF RecordResult
    <2>3. NextItem(r, status).stage = "look"
        BY <1>0, <2>1 DEF NextItem, Working, IsBatch
    <2>4. CASE request' = [request EXCEPT ![r] = None] /\ UNCHANGED records
        BY <1>2, <2>2, <2>4
    <2>5. CASE /\ records' = records \cup
                        {[ actor |-> b.actor, status |-> status, client_operation_id |-> id ]}
               /\ request' = [request EXCEPT ![r] = NextItem(r, status)]
        <3>1. status = "applied" => EventsIn(events, b.actor, id) # {}
            BY <2>1 DEF AppliedInv, AppliedHasEvent, Working
        <3>2. \A row \in records' :
                row.status = "applied" => EventsIn(events, row.actor, row.client_operation_id) # {}
            BY <2>5, <3>1 DEF AppliedInv, AppliedHasEvent
        <3>3. \A s \in Request :
                request'[s] # None /\ request'[s].stage = "applied" => request'[s] = request[s]
            BY <2>3, <2>5 DEF QueueInv
        <3>4. \A x, i : EventsIn(events', x, i) = EventsIn(events, x, i)
            BY <2>2 DEF EventsIn
        <3>5. AppliedHasEvent'
            BY <3>2, <3>3, <3>4 DEF AppliedInv, AppliedHasEvent, Item
        <3> QED
            BY <2>2, <3>5 DEF AppliedInv, EventsAreOperations
    <2> QED
        BY <2>1, <2>4, <2>5
<1>6. ASSUME NEW content \in Content, SaveElsewhere(content)
      PROVE  AppliedInv'
    <2>1. events' = Append(events, Event(content, None, None, None))
          /\ UNCHANGED <<records, request, queued>>
        BY <1>6 DEF SaveElsewhere
    <2>2. /\ events' \in Seq(Source)
          /\ EventsAreOperations'
          /\ \A x, i : EventsIn(events, x, i) \subseteq EventsIn(events', x, i)
        BY <2>1, EventAppended
    <2> QED
        BY <2>1, <2>2 DEF AppliedInv, AppliedHasEvent, Item
<1>7. ASSUME NEW r \in Request,
             \/ \E a \in Actor : StartSync(r, a)
             \/ LookUp(r)
             \/ Respond(r)
             \/ LoseAnswer(r)
      PROVE  AppliedInv'
    <2>1. CASE \E a \in Actor : StartSync(r, a)
        BY <1>2, <2>1 DEF StartSync
    <2>2. CASE LookUp(r)
        <3> DEFINE rows == RecordsOf(request[r].actor, Item(r).client_operation_id)
        <3>1. request' = [request EXCEPT ![r] =
                IF rows = {} THEN [request[r] EXCEPT !.stage = "apply"]
                ELSE NextItem(r, (CHOOSE row \in rows : TRUE).status)]
            BY <2>2 DEF LookUp, QueueInv
        <3>2. UNCHANGED <<events, records, queued>>
            BY <2>2 DEF LookUp
        <3>3. [request[r] EXCEPT !.stage = "apply"].stage = "apply"
              /\ \A status : NextItem(r, status).stage = "look"
            BY <1>0, <2>2 DEF LookUp, NextItem, Working, IsBatch
        <3> QED
            BY <1>2, <3>1, <3>2, <3>3
    <2>3. CASE Respond(r) \/ LoseAnswer(r)
        BY <1>2, <2>3 DEF Respond, LoseAnswer
    <2> QED
        BY <1>7, <2>1, <2>2, <2>3
<1>8. CASE Crash
    BY <1>8 DEF Crash, AppliedInv, EventsAreOperations, AppliedHasEvent, EventsIn, Item
<1>9. CASE UNCHANGED vars
    BY <1>1, <1>9 DEF vars
<1> QED
    BY <1>3, <1>4, <1>5, <1>6, <1>7, <1>8, <1>9 DEF Next

\* An operation is applied at most once however often it is sent, by whichever
\* requests, after whatever lost answers and crashes, and a row that says "applied"
\* tells the truth (apply_offline_sync_batch), as long as no client asks for the
\* strategy "auto": with it, an operation saved without an answer is applied again.
THEOREM AppliedOnceHolds ==
    ASSUME "auto" \notin Strategies
    PROVE  Spec => []AppliedOnce
<1>1. ASSUME QueueInv, AppliedInv
      PROVE  AppliedOnce
    <2>1. ASSUME NEW op \in queued
          PROVE  Cardinality(EventsOf(op.actor, op.client_operation_id)) <= 1
        <3>1. op.actor # None
            BY <1>1, NobodyAssumption DEF QueueInv, Operation
        <3>2. EventsOf(op.actor, op.client_operation_id) \subseteq {op.base_version + 1}
            BY <1>1, <3>1 DEF QueueInv, AppliedInv, EventsAreOperations, EventsOf
        <3>3. /\ IsFiniteSet({op.base_version + 1})
              /\ Cardinality({op.base_version + 1}) = 1
            BY FS_Singleton
        <3> QED
            BY <3>2, <3>3, FS_Subset
    <2> QED
        BY <1>1, <2>1 DEF AppliedInv, AppliedHasEvent, AppliedOnce, EventsOf, EventsIn
<1>2. QueueInv /\ AppliedInv /\ [Next]_vars => AppliedInv'
    BY AppliedInvNext
<1>3. QueueInv /\ AppliedInv => AppliedOnce
    BY <1>1
<1> QED
    BY <1>2, <1>3, AppliedInvInit, QueueInvariant, PTL DEF Spec

-----------------------------------------------------------------------------
(* The ZIP panel imports what was shown.                                   *)

CallFields == {"kind", "id", "project", "file", "preview", "selected", "phase", "answer",
               "found", "active", "awaited"}

\* The preview on display says "ready" only of what is selected, and every call keeps
\* what it was sent for.
PanelInv ==
    /\ \A c \in calls : DOMAIN c = CallFields
    /\ preview.answer = "ready" => preview.project = project /\ preview.file = file
    /\ ImportsWhatWasShown

\* What a call was sent for stays as it is.
SameCall(c, d) ==
    /\ DOMAIN d = CallFields
    /\ d.kind = c.kind /\ d.preview = c.preview /\ d.project = c.project /\ d.file = c.file

CallsGoOn == \A d \in calls' : \E c \in calls : SameCall(c, d)

LEMMA CallsGoOnKeep ==
    ASSUME PanelInv, CallsGoOn, UNCHANGED tabVars
    PROVE  PanelInv'
BY DEF PanelInv, CallsGoOn, SameCall, ImportsWhatWasShown, tabVars

LEMMA BecomesGoesOn ==
    ASSUME PanelInv, NEW c \in calls, NEW d, SameCall(c, d), Becomes(c, d)
    PROVE  CallsGoOn
BY DEF PanelInv, SameCall, CallsGoOn, Becomes

LEMMA AnsweredIsSame ==
    ASSUME NEW c, DOMAIN c = CallFields, NEW answer
    PROVE  SameCall(c, Answered(c, answer))
BY DEF SameCall, Answered, CallFields

LEMMA ServerGoesOn ==
    ASSUME PanelInv, NEW c \in calls, ServerStep(c) \/ LoseCall(c)
    PROVE  CallsGoOn
<1>1. DOMAIN c = CallFields
    BY DEF PanelInv
<1>2. ASSUME NEW phase, NEW found, NEW active
      PROVE  /\ SameCall(c, [c EXCEPT !.phase = phase])
             /\ SameCall(c, [c EXCEPT !.phase = phase, !.found = found])
             /\ SameCall(c, [c EXCEPT !.phase = phase, !.active = active])
    BY <1>1 DEF SameCall, CallFields
<1>3. \A answer : SameCall(c, Answered(c, answer))
    BY <1>1, AnsweredIsSame
<1>4. CASE ReadPaths(c)
    BY <1>2, <1>3, <1>4, BecomesGoesOn DEF ReadPaths
<1>5. CASE ReadSchemas(c)
    BY <1>2, <1>5, BecomesGoesOn DEF ReadSchemas
<1>6. CASE AnswerPreview(c)
    BY <1>3, <1>6, BecomesGoesOn DEF AnswerPreview
<1>7. CASE BeginImport(c)
    BY <1>2, <1>3, <1>7, BecomesGoesOn DEF BeginImport
<1>8. CASE CommitImport(c)
    BY <1>3, <1>8, BecomesGoesOn DEF CommitImport
<1>9. ASSUME NEW m, CreateMember(c, m)
      PROVE  CallsGoOn
    BY <1>9 DEF CreateMember, CallsGoOn, SameCall, PanelInv
<1>10. ASSUME NEW m, FailImport(c, m)
       PROVE  CallsGoOn
    BY <1>3, <1>10, BecomesGoesOn DEF FailImport
<1>11. CASE LoseCall(c)
    <2>1. Becomes(c, Answered(c, "error"))
          \/ calls' = (calls \ {c}) \cup {Answered(c, "error"), [c EXCEPT !.awaited = FALSE]}
        BY <1>11 DEF LoseCall
    <2>2. CASE Becomes(c, Answered(c, "error"))
        BY <1>3, <2>2, BecomesGoesOn
    <2>3. CASE calls' = (calls \ {c}) \cup {Answered(c, "error"), [c EXCEPT !.awaited = FALSE]}
        <3>1. SameCall(c, [c EXCEPT !.awaited = FALSE]) /\ SameCall(c, Answered(c, "error"))
            BY <1>1, <1>3 DEF SameCall, CallFields
        <3>2. \A d \in calls : SameCall(d, d)
            BY DEF PanelInv, SameCall
        <3> QED
            BY <2>3, <3>1, <3>2 DEF CallsGoOn
    <2> QED
        BY <2>1, <2>2, <2>3
<1> QED
    BY <1>4, <1>5, <1>6, <1>7, <1>8, <1>9, <1>10, <1>11 DEF ServerStep

LEMMA PanelInvNext == PanelInv /\ [PanelNext]_panelVars => PanelInv'
<1> SUFFICES ASSUME PanelInv, [PanelNext]_panelVars PROVE PanelInv'
    OBVIOUS
<1>1. ASSUME UNCHANGED calls
      PROVE  CallsGoOn
    BY <1>1 DEF CallsGoOn, SameCall, PanelInv
<1>2. CASE UNCHANGED panelVars
    BY <1>1, <1>2, CallsGoOnKeep DEF panelVars, importVars
<1>3. ASSUME NEW p, OpenProject(p)
      PROVE  PanelInv'
    BY <1>3 DEF OpenProject, Move, ResetZipImportSelection, importVars, Nothing, PanelInv,
                ImportsWhatWasShown
<1>4. ASSUME NEW a, PickFile(a)
      PROVE  PanelInv'
    BY <1>4 DEF PickFile, Move, importVars, Nothing, PanelInv, ImportsWhatWasShown
<1>5. ASSUME NEW d, SelectDocument(d)
      PROVE  PanelInv'
    BY <1>5 DEF SelectDocument, Move, importVars, PanelInv, ImportsWhatWasShown
<1>6. ASSUME NEW kind, NEW id
      PROVE  LET c == NewCall(kind, id)
             IN  /\ DOMAIN c = CallFields
                 /\ c.kind = kind /\ c.preview = preview /\ c.project = project /\ c.file = file
    BY DEF NewCall, CallFields
<1>7. CASE PreviewZipImport
    <2> DEFINE c == NewCall("preview", previewRequest + 1)
    <2>1. DOMAIN c = CallFields /\ c.kind = "preview"
        BY <1>6
    <2>2. calls' = calls \cup {c} /\ UNCHANGED <<project, file, preview, panel>>
        BY <1>7 DEF PreviewZipImport, Send
    <2> HIDE DEF c
    <2> QED
        BY <2>1, <2>2 DEF PanelInv, ImportsWhatWasShown
<1>8. CASE ApplyZipImport
    <2> DEFINE c == NewCall("apply", applyRequest + 1)
    <2>1. /\ DOMAIN c = CallFields
          /\ c.preview = preview /\ c.project = project /\ c.file = file
        BY <1>6
    <2>2. /\ calls' = calls \cup {c} /\ UNCHANGED <<project, file, preview, panel>>
          /\ preview.answer = "ready"
        BY <1>8 DEF ApplyZipImport, Send
    <2> HIDE DEF c
    <2> QED
        BY <2>1, <2>2 DEF PanelInv, ImportsWhatWasShown
<1>9. ASSUME NEW c \in calls, FileRead(c)
      PROVE  PanelInv'
    <2>1. SameCall(c, [c EXCEPT !.phase = "sent"])
        BY DEF PanelInv, SameCall, CallFields
    <2>2. CallsGoOn
        <3>1. CASE IsCurrent(c)
            BY <1>9, <2>1, <3>1, BecomesGoesOn DEF FileRead
        <3>2. CASE ~IsCurrent(c)
            BY <1>9, <3>2 DEF FileRead, Leave, CallsGoOn, SameCall, PanelInv
        <3> QED
            BY <3>1, <3>2
    <2>3. UNCHANGED <<project, file, preview, panel>>
        BY <1>9 DEF FileRead
    <2> QED
        BY <2>2, <2>3 DEF PanelInv, CallsGoOn, SameCall, ImportsWhatWasShown
<1>10. ASSUME NEW c \in calls, TakeAnswer(c)
       PROVE  PanelInv'
    <2>1. calls' = calls \ {c} /\ UNCHANGED project
        BY <1>10 DEF TakeAnswer, Leave
    <2>2. CASE ~IsCurrent(c)
        BY <1>10, <2>1, <2>2 DEF TakeAnswer, PanelInv, ImportsWhatWasShown
    <2>3. CASE IsCurrent(c)
        <3>1. /\ project = c.project /\ file = c.file
              /\ panel' = Shown(c)
              /\ preview' = IF c.answer = "error" THEN preview ELSE Shown(c)
              /\ IF c.answer = "applied" THEN file' = "none" ELSE UNCHANGED file
            BY <1>10, <2>3 DEF TakeAnswer, IsCurrent
        <3>2. Shown(c).answer = c.answer /\ Shown(c).project = c.project /\ Shown(c).file = c.file
            BY DEF Shown
        <3> QED
            BY <2>1, <3>1, <3>2 DEF PanelInv, ImportsWhatWasShown
    <2> QED
        BY <2>2, <2>3
<1>11. ASSUME NEW c \in calls, (ServerStep(c) \/ LoseCall(c)) /\ UNCHANGED tabVars
       PROVE  PanelInv'
    BY <1>11, ServerGoesOn, CallsGoOnKeep
<1>12. CASE OtherStep /\ UNCHANGED tabVars
    <2>1. UNCHANGED calls
        BY <1>12 DEF OtherStep, OtherCreates, OtherAddsSchema, OtherDeletes, LoseRole
    <2> QED
        BY <1>1, <1>12, <2>1, CallsGoOnKeep
<1> QED
    BY <1>2, <1>3, <1>4, <1>5, <1>7, <1>8, <1>9, <1>10, <1>11, <1>12 DEF PanelNext, Progress

\* A user gets what was shown: an import is of a file whose own preview, made for the
\* project it goes to, said that it can be; and what is displayed is about the project and
\* the file that are selected (isCurrentZipPreviewRequest, isCurrentZipApplyRequest).
THEOREM ImportsWhatWasShownHolds == PanelSpec => []ImportsWhatWasShown
<1>1. PanelInit => PanelInv
    BY DEF PanelInit, ImportInit, PanelInv, ImportsWhatWasShown, Nothing
<1>2. PanelInv => ImportsWhatWasShown
    BY DEF PanelInv
<1> QED
    BY <1>1, <1>2, PanelInvNext, PTL DEF PanelSpec

-----------------------------------------------------------------------------
(* What the checks of an import say holds when it is done.                 *)

\* Documents, or members to be created: finitely many, each with its bytes.
HaveBytes(S) == IsFiniteSet(S) /\ \A d \in S : d.bytes \in Nat

LEMMA BytesIsTotal ==
    ASSUME NEW S, IsFiniteSet(S), NEW f, \A d \in S : f[d] = d.bytes
    PROVE  Bytes(S) = Total(f, S)
<1> DEFINE IsTable(h) == h = [s \in SUBSET S |->
                IF s = {} THEN 0 ELSE (CHOOSE x \in s : TRUE).bytes
                                      + h[s \ {CHOOSE x \in s : TRUE}]]
           table == CHOOSE h : IsTable(h)
<1>1. Bytes(S) = table[S]
    BY DEF Bytes, MapThenSumSet, MapThenFoldSet
<1>2. ASSUME NEW h
      PROVE  IsTable(h) <=> IsSum(h, f, S)
    <2>1. ASSUME NEW s \in SUBSET S
          PROVE  Step(h, f, s) = IF s = {} THEN 0 ELSE (CHOOSE x \in s : TRUE).bytes
                                                      + h[s \ {CHOOSE x \in s : TRUE}]
        BY DEF Step, Picked
    <2> QED
        BY <2>1 DEF IsSum
<1>3. \E h : IsTable(h)
    BY <1>2, SumTableExists
<1>4. IsSum(table, f, S)
    BY <1>2, <1>3
<1> HIDE DEF table
<1> QED
    BY <1>1, <1>4, TotalIsTable

LEMMA BytesNat ==
    ASSUME NEW S, HaveBytes(S)
    PROVE  Bytes(S) \in Nat
<1> DEFINE f == [d \in S |-> d.bytes]
<1>1. IsFiniteSet(S) /\ \A d \in S : f[d] = d.bytes /\ f[d] \in Nat
    BY DEF HaveBytes
<1> HIDE DEF f
<1> QED
    BY <1>1, BytesIsTotal, TotalNat

LEMMA BytesAdd ==
    ASSUME NEW S, HaveBytes(S), NEW x, x \notin S, x.bytes \in Nat
    PROVE  HaveBytes(S \cup {x}) /\ Bytes(S \cup {x}) = x.bytes + Bytes(S)
<1> DEFINE f == [d \in S \cup {x} |-> d.bytes]
<1>1. IsFiniteSet(S) /\ \A d \in S \cup {x} : f[d] = d.bytes /\ f[d] \in Nat
    BY DEF HaveBytes
<1>2. IsFiniteSet(S \cup {x})
    BY <1>1, FS_AddElement
<1> HIDE DEF f
<1>3. Bytes(S) = Total(f, S) /\ Bytes(S \cup {x}) = Total(f, S \cup {x})
    BY <1>1, <1>2, BytesIsTotal
<1>4. Total(f, S \cup {x}) = f[x] + Total(f, S)
    BY <1>1, TotalAdd
<1> QED
    BY <1>1, <1>2, <1>3, <1>4 DEF HaveBytes

LEMMA BytesRemove ==
    ASSUME NEW S, HaveBytes(S), NEW x \in S
    PROVE  /\ HaveBytes(S \ {x})
           /\ Bytes(S) = x.bytes + Bytes(S \ {x})
           /\ Cardinality(S) \in Nat /\ Cardinality(S \ {x}) \in Nat
           /\ Cardinality(S) = Cardinality(S \ {x}) + 1
<1>1. IsFiniteSet(S) /\ (S \ {x}) \cup {x} = S /\ x.bytes \in Nat
    BY DEF HaveBytes
<1>2. HaveBytes(S \ {x})
    BY <1>1, FS_RemoveElement DEF HaveBytes
<1>3. Bytes(S) = x.bytes + Bytes(S \ {x})
    BY <1>1, <1>2, BytesAdd
<1>4. Cardinality(S \ {x}) = Cardinality(S) - 1
      /\ Cardinality(S) \in Nat /\ Cardinality(S \ {x}) \in Nat
    BY <1>1, <1>2, FS_RemoveElement, FS_CardinalityType DEF HaveBytes
<1> QED
    BY <1>2, <1>3, <1>4

SchemaFits(m, active) ==
    LET matched == {s \in active : m.path \in Pattern[s]}
    IN  /\ Cardinality(matched) <= 1 /\ matched \subseteq m.meets
        /\ m.schema = "none" \/ (m.schema \in active /\ m.schema \in m.meets)

\* An import under way: what is created and what is left are within the limits together,
\* what is left clashes with nothing, and the references reported as found are those to a
\* path of one or the other.
IsImport(p, t, active, bounded) ==
    LET now == DocumentsOf(p, t.work)
    IN  /\ DOMAIN t = {"todo", "work", "edges"}
        /\ HaveBytes(t.work) /\ HaveBytes(t.todo)
        /\ bounded => /\ Cardinality(now) + Cardinality(t.todo) <= MaxDocuments
                      /\ Bytes(now) + Bytes(t.todo) <= MaxBytes
        /\ \A m \in t.todo : /\ m.path \notin PathsOf(now) /\ SchemaFits(m, active)
                             /\ m.text \in {"json", "infinite"}
        /\ \A m, n \in t.todo : m.path = n.path => m = n
        /\ \A e \in t.edges :
            e.status # "missing" <=> e.target \in PathsOf(now) \cup PathsOf(t.todo)

LEMMA OfProjectHaveBytes ==
    ASSUME NEW D, HaveBytes(D), NEW p
    PROVE  HaveBytes(DocumentsOf(p, D)) /\ Cardinality(DocumentsOf(p, D)) \in Nat
BY FS_Subset, FS_CardinalityType DEF HaveBytes, DocumentsOf

\* What is checked at the start of an import says so much.
LEMMA ReadyIsImport ==
    ASSUME NEW a \in Archive, HaveBytes(documents), NEW p,
           Verdict(a, DocumentsOf(p, documents), schemas[p], DocumentsOf(p, documents)) = "ready"
    PROVE  IsImport(p, [ todo |-> {Planned(p, i, a) : i \in Candidates(a)}, work |-> documents,
                         edges |-> Edges(a, DocumentsOf(p, documents)) ], schemas[p], limited)
<1> DEFINE C == Candidates(a)
           members == Listing[a].members
           F == DocumentsOf(p, documents)
           active == schemas[p]
           g == [i \in C |-> Planned(p, i, a)]
           at == [i \in C |-> [at |-> i, size |-> members[i].size, bytes |-> members[i].bytes]]
           h == [i \in C |-> members[i].bytes]
           T == {g[i] : i \in C}
           M == {at[i] : i \in C}
           E == Edges(a, F)
<1>1. /\ \A i \in C : CanImport(a, i, F, active)
      /\ ~OverLimits(Cardinality(F) + Cardinality(C), Bytes(F) + Bytes(MembersAt(a, C)))
    BY DEF Verdict
<1>2. IsFiniteSet(C) /\ \A i \in C : members[i].bytes \in Nat /\ members[i].bytes = h[i]
    BY ZipImportAssumption, FS_Subset DEF Candidates
<1>3. \A i \in C : g[i].path = members[i].path /\ g[i].bytes = members[i].bytes
                  /\ g[i].text = members[i].text /\ g[i].meets = members[i].meets
    BY DEF Planned
<1>4. \A i \in C : /\ members[i].text \in {"json", "infinite"}
                  /\ members[i].path \notin PathsOf(F)
                  /\ \A j \in C \ {i} : members[j].path # members[i].path
    BY <1>1 DEF CanImport
<1>5. ASSUME NEW i \in C
      PROVE  SchemaFits(g[i], active)
    <2> DEFINE matched == {s \in active : members[i].path \in Pattern[s]}
    <2>1. Cardinality(matched) <= 1 /\ matched \subseteq members[i].meets
        BY <1>1 DEF CanImport
    <2>2. g[i].schema = IF matched = {} THEN "none" ELSE CHOOSE s \in matched : TRUE
        BY DEF Planned
    <2>3. g[i].schema = "none" \/ g[i].schema \in matched
        BY <2>2
    <2>4. g[i].schema = "none" \/ (g[i].schema \in active /\ g[i].schema \in members[i].meets)
        BY <2>1, <2>3
    <2>5. g[i].path = members[i].path /\ g[i].meets = members[i].meets
        BY <1>3
    <2> HIDE DEF g, C, members, active
    <2> QED
        BY <2>1, <2>4, <2>5 DEF SchemaFits
<1>6. \A i, j \in C : (g[i] = g[j] => i = j) /\ (at[i] = at[j] => i = j)
    <2>1. ASSUME NEW i \in C, NEW j \in C, g[i] = g[j]
          PROVE  i = j
        BY <1>3, <1>4, <2>1
    <2>2. ASSUME NEW i \in C, NEW j \in C, at[i] = at[j]
          PROVE  i = j
        <3>1. at[i].at = i /\ at[j].at = j
            OBVIOUS
        <3> QED
            BY <2>2, <3>1
    <2> QED
        BY <2>1, <2>2
<1>7. \A i \in C : at[i].bytes = h[i] /\ h[i] \in Nat /\ g[i].bytes = h[i]
    BY <1>2, <1>3
<1>8. T = {Planned(p, i, a) : i \in C} /\ M = MembersAt(a, C)
    BY DEF MembersAt
<1>9. PathsOf(T) = ArchivePaths(a)
    BY <1>3 DEF PathsOf, ArchivePaths
<1>10. \A e \in E : e.status # "missing" <=> e.target \in PathsOf(F) \cup ArchivePaths(a)
    BY DEF Edges
<1> HIDE DEF C, g, at, h, members, E
<1>11. HaveBytes(T) /\ Cardinality(T) = Cardinality(C) /\ Bytes(T) = Total(h, C)
    <2> DEFINE f == [m \in T |-> m.bytes]
    <2>1. \A i \in C : h[i] \in Nat /\ f[g[i]] = h[i]
        BY <1>7
    <2>2. \A m \in T : f[m] = m.bytes /\ m.bytes \in Nat
        BY <1>7
    <2> HIDE DEF f
    <2>3. IsFiniteSet(T) /\ Cardinality(T) = Cardinality(C) /\ Total(f, T) = Total(h, C)
        BY <1>2, <1>6, <2>1, TotalImage
    <2> HIDE DEF T
    <2> QED
        BY <2>2, <2>3, BytesIsTotal DEF HaveBytes
<1>12. Bytes(M) = Total(h, C)
    <2> DEFINE f == [m \in M |-> m.bytes]
    <2>1. \A i \in C : h[i] \in Nat /\ f[at[i]] = h[i]
        BY <1>7
    <2>2. \A m \in M : f[m] = m.bytes
        OBVIOUS
    <2> HIDE DEF f
    <2>3. IsFiniteSet(M) /\ Cardinality(M) = Cardinality(C) /\ Total(f, M) = Total(h, C)
        <3>1. IsFiniteSet(C) /\ \A i, j \in C : at[i] = at[j] => i = j
            BY <1>2, <1>6
        <3> QED
            BY <2>1, <3>1, TotalImage
    <2> HIDE DEF M
    <2> QED
        BY <2>2, <2>3, BytesIsTotal
<1>13. HaveBytes(F) /\ Cardinality(F) \in Nat /\ Bytes(F) \in Nat
    BY OfProjectHaveBytes, BytesNat
<1>14. limited => Cardinality(F) + Cardinality(T) <= MaxDocuments /\ Bytes(F) + Bytes(T) <= MaxBytes
    <2>1. Cardinality(C) \in Nat /\ Bytes(T) \in Nat
        BY <1>2, <1>11, BytesNat, FS_CardinalityType
    <2>2. ~OverLimits(Cardinality(F) + Cardinality(T), Bytes(F) + Bytes(T))
        BY <1>1, <1>8, <1>11, <1>12
    <2> DEFINE n == Cardinality(F) + Cardinality(T)
               b == Bytes(F) + Bytes(T)
    <2>3. n \in Nat /\ b \in Nat
        BY <1>11, <1>13, <2>1
    <2> HIDE DEF n, b
    <2>4. limited => n <= MaxDocuments /\ b <= MaxBytes
        BY <2>2, <2>3, LimitsAssumption DEF OverLimits, n, b
    <2> QED
        BY <2>4 DEF n, b
<1>15. \A m \in T : /\ m.path \notin PathsOf(F) /\ SchemaFits(m, active)
                    /\ m.text \in {"json", "infinite"}
    BY <1>3, <1>4, <1>5
<1>16. \A m, n \in T : m.path = n.path => m = n
    BY <1>3, <1>4
<1> DEFINE t == [todo |-> T, work |-> documents, edges |-> E]
<1>17. IsImport(p, t, active, limited)
    <2>1. /\ DOMAIN t = {"todo", "work", "edges"}
          /\ t.todo = T /\ t.work = documents /\ t.edges = E
        OBVIOUS
    <2> HIDE DEF t, T
    <2> QED
        BY <1>9, <1>10, <1>11, <1>14, <1>15, <1>16, <2>1 DEF IsImport
<1> QED
    BY <1>8, <1>17 DEF C, E

LEMMA CreatedIsImport ==
    ASSUME NEW p, NEW t, NEW active, NEW bounded, IsImport(p, t, active, bounded),
           NEW m \in t.todo
    PROVE  IsImport(p, [t EXCEPT
                !.todo = @ \ {m},
                !.work = @ \cup {[ project |-> p, path |-> m.path, bytes |-> m.bytes,
                                   schema |-> m.schema ]}], active, bounded)
<1> DEFINE d == [ project |-> p, path |-> m.path, bytes |-> m.bytes, schema |-> m.schema ]
           left == t.todo \ {m}
           work == t.work \cup {d}
           next == [t EXCEPT !.todo = left, !.work = work]
           now == DocumentsOf(p, t.work)
           then == DocumentsOf(p, work)
<1>1. d.project = p /\ d.path = m.path /\ d.bytes = m.bytes
    OBVIOUS
<1>2. /\ DOMAIN next = {"todo", "work", "edges"}
      /\ next.todo = left /\ next.work = work /\ next.edges = t.edges
    BY DEF IsImport
<1> HIDE DEF d, next
<1>3. then = now \cup {d} /\ d \notin now /\ m.bytes \in Nat
    <2>1. m.path \notin PathsOf(now) /\ m.bytes \in Nat
        BY DEF IsImport, HaveBytes
    <2>2. d \notin now
        BY <1>1, <2>1 DEF PathsOf
    <2> QED
        BY <1>1, <2>1, <2>2 DEF DocumentsOf
<1>4. HaveBytes(now) /\ Cardinality(now) \in Nat /\ Bytes(now) \in Nat
    BY OfProjectHaveBytes, BytesNat DEF IsImport
<1>5. HaveBytes(work)
    BY <1>1, <1>3, FS_AddElement DEF IsImport, HaveBytes
<1> HIDE DEF now, work, then
<1>6. /\ Bytes(then) = m.bytes + Bytes(now)
      /\ Cardinality(then) = Cardinality(now) + 1
    BY <1>1, <1>3, <1>4, BytesAdd, FS_AddElement DEF HaveBytes
<1>7. /\ HaveBytes(left)
      /\ Bytes(t.todo) = m.bytes + Bytes(left)
      /\ Cardinality(left) \in Nat
      /\ Cardinality(t.todo) = Cardinality(left) + 1
    BY BytesRemove DEF IsImport
<1>8. bounded => Cardinality(then) + Cardinality(left) <= MaxDocuments
                 /\ Bytes(then) + Bytes(left) <= MaxBytes
    <2> DEFINE nowBytes == Bytes(now)
               leftBytes == Bytes(left)
               count == Cardinality(now)
               leftCount == Cardinality(left)
    <2>1. /\ nowBytes \in Nat /\ leftBytes \in Nat /\ count \in Nat /\ leftCount \in Nat
          /\ m.bytes \in Nat
        BY <1>3, <1>4, <1>7, BytesNat
    <2>2. bounded => count + (leftCount + 1) <= MaxDocuments
                     /\ nowBytes + (m.bytes + leftBytes) <= MaxBytes
        BY <1>7 DEF IsImport, now
    <2> HIDE DEF nowBytes, leftBytes, count, leftCount
    <2>3. bounded => (count + 1) + leftCount <= MaxDocuments
                     /\ (m.bytes + nowBytes) + leftBytes <= MaxBytes
        BY <2>1, <2>2, LimitsAssumption
    <2> QED
        BY <1>6, <2>3 DEF nowBytes, leftBytes, count, leftCount
<1>9. PathsOf(then) = PathsOf(now) \cup {m.path}
    BY <1>1, <1>3 DEF PathsOf
<1>10. PathsOf(then) \cup PathsOf(left) = PathsOf(now) \cup PathsOf(t.todo)
    BY <1>9 DEF PathsOf
<1>11. \A n \in left : n.path \notin PathsOf(then)
    BY <1>9 DEF IsImport, now
<1>12. \A e \in t.edges :
            e.status # "missing" <=> e.target \in PathsOf(then) \cup PathsOf(left)
    BY <1>10 DEF IsImport, now
<1>13. /\ \A n \in left : SchemaFits(n, active) /\ n.text \in {"json", "infinite"}
       /\ \A x, y \in left : x.path = y.path => x = y
    BY DEF IsImport
<1> HIDE DEF left
<1>14. IsImport(p, next, active, bounded)
    BY <1>2, <1>5, <1>7, <1>8, <1>11, <1>12, <1>13 DEF IsImport, then
<1> QED
    BY <1>14 DEF next, left, work, d

\* What is left of an import can be created.
LEMMA ImportCreates ==
    ASSUME NEW p, IsImport(p, transaction, schemas[p], limited),
           NEW m \in transaction.todo, m.text # "infinite"
    PROVE  Creatable(p, m)
<1> DEFINE now == DocumentsOf(p, transaction.work)
           todo == transaction.todo
           rest == todo \ {m}
<1>1. /\ m.path \notin PathsOf(now) /\ m.text = "json"
      /\ SchemaFits(m, schemas[p])
    BY DEF IsImport
<1>2. IF m.schema = "none"
      THEN LET matched == {s \in schemas[p] : m.path \in Pattern[s]}
           IN  Cardinality(matched) <= 1 /\ matched \subseteq m.meets
      ELSE m.schema \in schemas[p] /\ m.schema \in m.meets
    BY <1>1 DEF SchemaFits
<1>3. ~OverLimits(Cardinality(now) + 1, Bytes(now) + m.bytes)
    <2> DEFINE count == Cardinality(now)
               bytes == Bytes(now)
               restCount == Cardinality(rest)
               restBytes == Bytes(rest)
    <2>1. /\ count \in Nat /\ bytes \in Nat /\ restCount \in Nat /\ restBytes \in Nat
          /\ m.bytes \in Nat
        BY OfProjectHaveBytes, BytesNat, BytesRemove DEF IsImport, HaveBytes
    <2>2. Bytes(todo) = m.bytes + restBytes /\ Cardinality(todo) = restCount + 1
        BY BytesRemove DEF IsImport
    <2>3. limited => count + (restCount + 1) <= MaxDocuments
                     /\ bytes + (m.bytes + restBytes) <= MaxBytes
        BY <2>2 DEF IsImport
    <2> HIDE DEF count, bytes, restCount, restBytes
    <2>4. limited => ~(count + 1 > MaxDocuments) /\ ~(bytes + m.bytes > MaxBytes)
        BY <2>1, <2>3, LimitsAssumption
    <2> QED
        BY <2>4 DEF OverLimits, count, bytes
<1> QED
    BY <1>1, <1>2, <1>3 DEF Creatable

\* At most one import is under way, and its transaction is as its checks have it.
ZipInv ==
    /\ file \in Archive \cup {"none"}
    /\ \A c \in calls : c.file \in Archive
    /\ HaveBytes(documents)
    /\ \A c, d \in calls : c.phase = "importing" /\ d.phase = "importing" => c = d
    /\ \A c \in calls : c.phase = "importing" =>
            IsImport(c.project, transaction, schemas[c.project], limited)

LEMMA ZipInvReports == ZipInv => ReportIsTrue
<1> SUFFICES ASSUME ZipInv PROVE ReportIsTrue
    OBVIOUS
<1>1. CreatesSucceed
    BY ImportCreates DEF ZipInv, CreatesSucceed
<1>2. ReferencesAccurate
    <2> SUFFICES ASSUME NEW c \in calls, c.phase = "importing", transaction.todo = {},
                        NEW e \in transaction.edges
                 PROVE  e.status # "missing"
                            <=> e.target \in PathsOf(DocumentsOf(c.project, transaction.work))
        BY DEF ReferencesAccurate
    <2>1. PathsOf({}) = {}
        BY DEF PathsOf
    <2> QED
        BY <2>1 DEF ZipInv, IsImport
<1> QED
    BY <1>1, <1>2 DEF ReportIsTrue

\* The imports under way stay, and there is no other.
ImportsStay ==
    /\ \A d \in calls' : d.phase = "importing" =>
            \E c \in calls : c.phase = "importing" /\ c.project = d.project
    /\ \A c, d \in calls' : c.phase = "importing" /\ d.phase = "importing" => c = d

LEMMA QuietKeeps ==
    ASSUME ZipInv, ImportsStay, UNCHANGED <<limited, documents, schemas, transaction>>,
           file' \in Archive \cup {"none"}, \A c \in calls' : c.file \in Archive
    PROVE  ZipInv'
BY DEF ZipInv, ImportsStay

\* When no import is under way the rest is free to change.
LEMMA NoImportKeeps ==
    ASSUME ZipInv, \A d \in calls' : d.phase # "importing", HaveBytes(documents'),
           file' \in Archive \cup {"none"}, \A c \in calls' : c.file \in Archive
    PROVE  ZipInv'
BY DEF ZipInv

LEMMA BecomesStays ==
    ASSUME ZipInv, NEW c \in calls, NEW d, d.phase # "importing", Becomes(c, d)
    PROVE  /\ ImportsStay
           /\ c.phase = "importing" => \A e \in calls' : e.phase # "importing"
<1>1. calls' \subseteq (calls \ {c}) \cup {d}
    BY DEF Becomes
<1> QED
    BY <1>1 DEF ImportsStay, ZipInv

LEMMA FilesStay ==
    ASSUME ZipInv, CallsGoOn
    PROVE  \A d \in calls' : d.file \in Archive
BY DEF ZipInv, CallsGoOn, SameCall

LEMMA ServerKeepsZipInv ==
    ASSUME ZipInv, PanelInv, NEW c \in calls, ServerStep(c) \/ LoseCall(c), UNCHANGED file
    PROVE  ZipInv'
<1>1. file' \in Archive \cup {"none"} /\ \A d \in calls' : d.file \in Archive
    BY ServerGoesOn, FilesStay DEF ZipInv
<1>2. /\ \A answer : Answered(c, answer).phase = "answered"
      /\ \A phase, found : [c EXCEPT !.phase = phase, !.found = found].phase = phase
      /\ \A phase, active : [c EXCEPT !.phase = phase, !.active = active].phase = phase
    BY DEF PanelInv, Answered, CallFields
<1>0. ASSUME NEW d, d.phase # "importing", Becomes(c, d),
             UNCHANGED <<limited, documents, schemas, transaction>>
      PROVE  ZipInv'
    BY <1>0, <1>1, BecomesStays, QuietKeeps
<1>3. CASE ReadPaths(c)
    <2> DEFINE read == [c EXCEPT !.phase = "paths", !.found = DocumentsOf(c.project, documents)]
    <2>1. read.phase = "paths" /\ Answered(c, "error").phase = "answered"
        BY <1>2
    <2>2. /\ Becomes(c, read) \/ Becomes(c, Answered(c, "error"))
          /\ UNCHANGED <<limited, documents, schemas, transaction>>
        BY <1>3 DEF ReadPaths
    <2> HIDE DEF read
    <2> QED
        BY <1>0, <2>1, <2>2
<1>4. CASE ReadSchemas(c)
    <2> DEFINE read == [c EXCEPT !.phase = "schemas", !.active = schemas[c.project]]
    <2>1. read.phase = "schemas"
        BY <1>2
    <2>2. Becomes(c, read) /\ UNCHANGED <<limited, documents, schemas, transaction>>
        BY <1>4 DEF ReadSchemas
    <2> HIDE DEF read
    <2> QED
        BY <1>0, <2>1, <2>2
<1>5. CASE AnswerPreview(c)
    BY <1>0, <1>2, <1>5 DEF AnswerPreview
<1>6. CASE BeginImport(c)
    <2> DEFINE p == c.project
               found == DocumentsOf(p, documents)
               begun == [c EXCEPT !.phase = "importing"]
               t == [ todo |-> {Planned(p, i, c.file) : i \in Candidates(c.file)},
                      work |-> documents, edges |-> Edges(c.file, found) ]
    <2>1. /\ UNCHANGED <<limited, documents, schemas>> /\ ~Importing
          /\ \/ /\ Verdict(c.file, found, schemas[p], found) = "ready"
                /\ transaction' = t /\ Becomes(c, begun)
             \/ Becomes(c, Answered(c, "error")) /\ UNCHANGED transaction
        BY <1>6 DEF BeginImport
    <2>2. CASE Becomes(c, Answered(c, "error")) /\ UNCHANGED transaction
        BY <1>1, <1>2, <2>1, <2>2, BecomesStays, QuietKeeps
    <2>3. CASE /\ Verdict(c.file, found, schemas[p], found) = "ready"
               /\ transaction' = t /\ Becomes(c, begun)
        <3>1. IsImport(p, t, schemas[p], limited)
            BY <2>3, ReadyIsImport DEF ZipInv
        <3>2. begun.phase = "importing" /\ begun.project = p
            BY DEF PanelInv, CallFields
        <3> HIDE DEF t, begun
        <3>3. \A d \in calls' : d.phase = "importing" => d = begun
            BY <2>1, <2>3 DEF Becomes, Importing
        <3> QED
            BY <1>1, <2>1, <2>3, <3>1, <3>2, <3>3 DEF ZipInv
    <2> QED
        BY <2>1, <2>2, <2>3
<1>7. CASE CommitImport(c)
    <2>1. HaveBytes(documents')
        BY <1>7 DEF CommitImport, ZipInv, IsImport
    <2> QED
        BY <1>1, <1>2, <1>7, <2>1, BecomesStays, NoImportKeeps DEF CommitImport
<1>8. ASSUME NEW m \in transaction.todo, CreateMember(c, m)
      PROVE  ZipInv'
    <2>1. /\ c.phase = "importing" /\ UNCHANGED <<limited, documents, schemas, calls>>
          /\ IsImport(c.project, transaction', schemas[c.project], limited)
        BY <1>8, CreatedIsImport DEF CreateMember, ZipInv
    <2> QED
        BY <1>1, <2>1 DEF ZipInv
<1>9. ASSUME NEW m, FailImport(c, m)
      PROVE  ZipInv'
    <2>1. HaveBytes(documents')
        BY <1>9 DEF FailImport, ZipInv
    <2> QED
        BY <1>1, <1>2, <1>9, <2>1, BecomesStays, NoImportKeeps DEF FailImport
<1>10. CASE LoseCall(c)
    <2> DEFINE alone == [c EXCEPT !.awaited = FALSE]
               lost == Answered(c, "error")
    <2>1. UNCHANGED <<limited, documents, schemas>> /\ HaveBytes(documents')
        BY <1>10 DEF LoseCall, ZipInv
    <2>2. alone.phase = c.phase /\ alone.project = c.project /\ lost.phase = "answered"
        BY <1>2 DEF PanelInv, CallFields
    <2>3. \/ /\ Becomes(c, lost)
             /\ transaction' = IF c.phase = "importing" THEN NoImport ELSE transaction
          \/ /\ calls' = (calls \ {c}) \cup {lost, alone}
             /\ UNCHANGED transaction
        BY <1>10 DEF LoseCall
    <2> HIDE DEF alone, lost
    <2>4. CASE Becomes(c, lost) /\ c.phase = "importing"
        BY <1>1, <2>1, <2>2, <2>4, BecomesStays, NoImportKeeps
    <2>5. CASE Becomes(c, lost) /\ UNCHANGED transaction
        BY <1>1, <2>1, <2>2, <2>5, BecomesStays, QuietKeeps
    <2>6. CASE calls' = (calls \ {c}) \cup {lost, alone} /\ UNCHANGED transaction
        <3>1. ImportsStay
            BY <2>2, <2>6 DEF ZipInv, ImportsStay
        <3> QED
            BY <1>1, <2>1, <2>6, <3>1, QuietKeeps
    <2> QED
        BY <2>3, <2>4, <2>5, <2>6
<1> QED
    BY <1>3, <1>4, <1>5, <1>6, <1>7, <1>8, <1>9, <1>10 DEF ServerStep

LEMMA OthersKeepZipInv ==
    ASSUME ZipInv, OtherStep, UNCHANGED file
    PROVE  ZipInv'
<1>1. \A d \in calls' : d.phase # "importing"
    BY DEF OtherStep, OtherCreates, OtherAddsSchema, OtherDeletes, LoseRole, Importing
<1>2. UNCHANGED calls
    BY DEF OtherStep, OtherCreates, OtherAddsSchema, OtherDeletes, LoseRole
<1>3. HaveBytes(documents')
    <2>1. ASSUME NEW p, NEW path, OtherCreates(p, path)
          PROVE  HaveBytes(documents')
        <3> DEFINE d == [project |-> p, path |-> path, bytes |-> 1, schema |-> "none"]
        <3>1. documents' = documents \cup {d} /\ d.bytes \in Nat
            BY <2>1 DEF OtherCreates
        <3> HIDE DEF d
        <3> QED
            BY <3>1, FS_AddElement DEF ZipInv, HaveBytes
    <2>2. ASSUME NEW d, OtherDeletes(d)
          PROVE  HaveBytes(documents')
        BY <2>2, FS_Subset DEF OtherDeletes, ZipInv, HaveBytes
    <2>3. ASSUME UNCHANGED documents
          PROVE  HaveBytes(documents')
        BY <2>3 DEF ZipInv
    <2> QED
        BY <2>1, <2>2, <2>3 DEF OtherStep, OtherAddsSchema, LoseRole
<1> QED
    BY <1>1, <1>2, <1>3, NoImportKeeps DEF ZipInv

LEMMA ZipInvNext == ZipInv /\ PanelInv /\ [PanelNext]_panelVars => ZipInv'
<1> SUFFICES ASSUME ZipInv, PanelInv, [PanelNext]_panelVars PROVE ZipInv'
    OBVIOUS
\* The tab moves, sends a request, or is done with one.
<1>1. ASSUME UNCHANGED <<limited, documents, schemas, transaction>>, calls' \subseteq calls,
             file' \in Archive \cup {"none"}
      PROVE  ZipInv'
    <2>1. ImportsStay
        BY <1>1 DEF ImportsStay, ZipInv
    <2> QED
        BY <1>1, <2>1, QuietKeeps DEF ZipInv
<1>2. ASSUME NEW kind, NEW id, Send(NewCall(kind, id)), file # "none", UNCHANGED file
      PROVE  ZipInv'
    <2> DEFINE c == NewCall(kind, id)
    <2>1. c.phase = "reading" /\ c.file = file
        BY DEF NewCall
    <2>2. calls' = calls \cup {c} /\ UNCHANGED <<limited, documents, schemas, transaction>>
        BY <1>2 DEF Send
    <2> HIDE DEF c
    <2>3. ImportsStay
        BY <2>1, <2>2 DEF ImportsStay, ZipInv
    <2>4. \A d \in calls' : d.file \in Archive
        BY <1>2, <2>1, <2>2 DEF ZipInv
    <2> QED
        BY <1>2, <2>2, <2>3, <2>4, QuietKeeps DEF ZipInv
<1>3. ASSUME NEW c \in calls, FileRead(c)
      PROVE  ZipInv'
    <2> DEFINE d == [c EXCEPT !.phase = "sent"]
    <2>1. UNCHANGED <<limited, documents, schemas, transaction, file>>
          /\ (Becomes(c, d) \/ calls' = calls \ {c})
        BY <1>3 DEF FileRead, Leave
    <2>2. d.phase = "sent" /\ d.file = c.file
        BY DEF PanelInv, CallFields
    <2> HIDE DEF d
    <2>3. CASE Becomes(c, d)
        <3>1. \A e \in calls' : e.file \in Archive
            BY <2>2, <2>3 DEF Becomes, ZipInv
        <3> QED
            BY <2>1, <2>2, <2>3, <3>1, BecomesStays, QuietKeeps DEF ZipInv
    <2> QED
        BY <1>1, <2>1, <2>3 DEF ZipInv
<1>4. ASSUME NEW c \in calls, TakeAnswer(c)
      PROVE  ZipInv'
    <2>1. UNCHANGED <<limited, documents, schemas, transaction>> /\ calls' = calls \ {c}
          /\ file' \in {file, "none"}
        BY <1>4 DEF TakeAnswer, Leave
    <2> QED
        BY <1>1, <2>1 DEF ZipInv
<1>5. ASSUME NEW p, OpenProject(p)
      PROVE  ZipInv'
    BY <1>1, <1>5 DEF OpenProject, Move, importVars, ResetZipImportSelection
<1>6. ASSUME NEW a \in Archive, PickFile(a)
      PROVE  ZipInv'
    BY <1>1, <1>6 DEF PickFile, Move, importVars
<1>7. ASSUME NEW d, SelectDocument(d)
      PROVE  ZipInv'
    BY <1>1, <1>7 DEF SelectDocument, Move, importVars, ZipInv
<1>8. CASE PreviewZipImport \/ ApplyZipImport
    BY <1>2, <1>8 DEF PreviewZipImport, ApplyZipImport
<1>9. ASSUME NEW c \in calls, (ServerStep(c) \/ LoseCall(c)) /\ UNCHANGED tabVars
      PROVE  ZipInv'
    BY <1>9, ServerKeepsZipInv DEF tabVars
<1>10. CASE OtherStep /\ UNCHANGED tabVars
    BY <1>10, OthersKeepZipInv DEF tabVars
<1>11. CASE UNCHANGED panelVars
    BY <1>1, <1>11 DEF panelVars, importVars, tabVars, ZipInv
<1> QED
    BY <1>3, <1>4, <1>5, <1>6, <1>7, <1>8, <1>9, <1>10, <1>11 DEF PanelNext, Progress

LEMMA ZipInvInit == PanelInit => ZipInv
BY FS_EmptySet DEF PanelInit, ImportInit, ZipInv, HaveBytes

THEOREM PanelInvariant == PanelSpec => [](PanelInv /\ ZipInv)
<1>1. PanelInit => PanelInv
    BY DEF PanelInit, ImportInit, PanelInv, ImportsWhatWasShown, Nothing
<1> QED
    BY <1>1, PanelInvNext, ZipInvInit, ZipInvNext, PTL DEF PanelSpec

\* What the checks of an import say holds when it is done: each file that passed them can
\* be created after the others, in a project that grows with each, unless it has a number
\* out of range; and a reference is reported as found exactly if its target has a document
\* at the end (import_project_zip).
THEOREM ReportIsTrueHolds == PanelSpec => []ReportIsTrue
<1> QED
    BY PanelInvariant, ZipInvReports, PTL
=============================================================================
