--------------------------- MODULE StorageProofs ---------------------------
(***************************************************************************)
(* Safety of the document store for every set of documents, contents,      *)
(* patches and limits: one inductive invariant, LogInv, and what follows   *)
(* from it.  The argument is that an event is only ever added at the       *)
(* version after the current one, so the replay of every version that      *)
(* exists is fixed, and the new version replays to the new snapshot.       *)
(* And safety of the backups of its database, for any number to keep and   *)
(* any number of runs, at any number at the same time, of crashes and of   *)
(* restores: a sound backup can be restored until KeepCount other runs     *)
(* have come.                                                              *)
(***************************************************************************)
EXTENDS DocumentStore, BackupFiles, FoldLemmas, SequenceTheorems

-----------------------------------------------------------------------------
(* Replaying an event log: what replay_events computes at a version, step  *)
(* by step, and what it depends on, for any log and any starting state.    *)

\* g is the table of states that the loop of replay_events goes through.
IsReplay(g, log, state, from, to) ==
    g = [v \in from..to |->
            IF v = from THEN state ELSE ReplayEvent(g[v - 1], EventIn(log, v))]

\* The table exists: it is extended one version at a time.
LEMMA ReplayTableExists ==
    ASSUME NEW log, NEW state, NEW from \in Nat, NEW to \in Nat, from <= to
    PROVE  \E g : IsReplay(g, log, state, from, to)
<1> DEFINE S == {k \in Nat : \E g : IsReplay(g, log, state, from, from + k)}
<1>1. 0 \in S
    <2> DEFINE g == [v \in from..from + 0 |-> state]
    <2>1. IsReplay(g, log, state, from, from + 0)
        BY DEF IsReplay
    <2> QED
        BY <2>1
<1>2. ASSUME NEW k \in S
      PROVE  k + 1 \in S
    <2>1. PICK g : IsReplay(g, log, state, from, from + k)
        OBVIOUS
    <2> DEFINE next == from + (k + 1)
               h == [v \in from..next |->
                        IF v = next THEN ReplayEvent(g[from + k], EventIn(log, next)) ELSE g[v]]
    <2>2. ASSUME NEW v \in from..next
          PROVE  h[v] = IF v = from THEN state ELSE ReplayEvent(h[v - 1], EventIn(log, v))
        <3>1. CASE v = next
            BY <3>1
        <3>2. CASE v # next
            <4>1. v \in from..from + k
                BY <3>2
            <4>2. g[v] = IF v = from THEN state ELSE ReplayEvent(g[v - 1], EventIn(log, v))
                BY <2>1, <4>1 DEF IsReplay
            <4>3. v # from => h[v - 1] = g[v - 1]
                BY <3>2, <4>1
            <4> QED
                BY <3>2, <4>2, <4>3
        <3> QED
            BY <3>1, <3>2
    <2>3. IsReplay(h, log, state, from, next)
        BY <2>2 DEF IsReplay
    <2> QED
        BY <2>3
<1>3. S = Nat
    BY <1>1, <1>2, NatInduct
<1>4. to - from \in Nat /\ from + (to - from) = to
    OBVIOUS
<1>5. PICK g : IsReplay(g, log, state, from, from + (to - from))
    BY <1>3, <1>4
<1> QED
    BY <1>4, <1>5

\* ... and is unique: two tables agree at every version they share.
LEMMA ReplayTableUnique ==
    ASSUME NEW log, NEW state, NEW from \in Nat, NEW to \in Nat, NEW upto \in Nat,
           NEW g, IsReplay(g, log, state, from, to),
           NEW h, IsReplay(h, log, state, from, upto),
           NEW v \in from..to, v <= upto
    PROVE  g[v] = h[v]
<1> DEFINE S == {k \in Nat : from + k <= to /\ from + k <= upto => g[from + k] = h[from + k]}
<1>1. 0 \in S
    BY DEF IsReplay
<1>2. ASSUME NEW k \in S
      PROVE  k + 1 \in S
    <2> SUFFICES ASSUME from + (k + 1) <= to, from + (k + 1) <= upto
                 PROVE  g[from + (k + 1)] = h[from + (k + 1)]
        OBVIOUS
    <2>1. g[from + k] = h[from + k]
        OBVIOUS
    <2>2. g[from + (k + 1)] = ReplayEvent(g[from + k], EventIn(log, from + (k + 1)))
        BY DEF IsReplay
    <2>3. h[from + (k + 1)] = ReplayEvent(h[from + k], EventIn(log, from + (k + 1)))
        BY DEF IsReplay
    <2> QED
        BY <2>1, <2>2, <2>3
<1>3. S = Nat
    BY <1>1, <1>2, NatInduct
<1>4. v - from \in S /\ from + (v - from) = v
    BY <1>3
<1> QED
    BY <1>4

\* The recursive function of ReplayLog is such a table.
LEMMA ReplayLogIsLast ==
    ASSUME NEW log, NEW state, NEW from \in Nat, NEW to \in Nat, from <= to,
           NEW g, IsReplay(g, log, state, from, to)
    PROVE  ReplayLog(log, state, from, to) = g[to]
<1> DEFINE f == CHOOSE f : f = [v \in from..to |->
                    IF v = from THEN state ELSE ReplayEvent(f[v - 1], EventIn(log, v))]
<1>1. IsReplay(f, log, state, from, to)
    BY DEF IsReplay
<1>2. f[to] = g[to]
    <2> HIDE DEF f
    <2> QED
        BY <1>1, ReplayTableUnique
<1> QED
    BY <1>2 DEF ReplayLog

\* Replaying no event is the starting state.
LEMMA ReplayNothing ==
    ASSUME NEW log, NEW state, NEW from \in Nat
    PROVE  ReplayLog(log, state, from, from) = state
<1>0. from <= from
    OBVIOUS
<1>1. PICK g : IsReplay(g, log, state, from, from)
    BY <1>0, ReplayTableExists
<1>2. g[from] = state
    BY <1>1 DEF IsReplay
<1> QED
    BY <1>1, <1>2, ReplayLogIsLast

\* Replaying one event more is one turn of the loop more.
LEMMA ReplayOneMore ==
    ASSUME NEW log, NEW state, NEW from \in Nat, NEW to \in Nat, from <= to
    PROVE  ReplayLog(log, state, from, to + 1)
             = ReplayEvent(ReplayLog(log, state, from, to), EventIn(log, to + 1))
<1>0. to + 1 \in Nat /\ from <= to + 1
    OBVIOUS
<1>1. PICK g : IsReplay(g, log, state, from, to)
    BY ReplayTableExists
<1>2. PICK h : IsReplay(h, log, state, from, to + 1)
    BY <1>0, ReplayTableExists
<1>3. h[to + 1] = ReplayEvent(h[to], EventIn(log, to + 1))
    BY <1>2 DEF IsReplay
<1>4. h[to] = g[to]
    BY <1>1, <1>2, ReplayTableUnique
<1> QED
    BY <1>1, <1>2, <1>3, <1>4, ReplayLogIsLast
\* Two logs that agree on the versions replayed give the same state.
LEMMA ReplaySame ==
    ASSUME NEW log, NEW other, NEW state, NEW from \in Nat, NEW to \in Nat, from <= to,
           \A v \in (from + 1)..to : EventIn(log, v) = EventIn(other, v)
    PROVE  ReplayLog(log, state, from, to) = ReplayLog(other, state, from, to)
<1> DEFINE S == {k \in Nat : from + k <= to =>
                    ReplayLog(log, state, from, from + k) = ReplayLog(other, state, from, from + k)}
<1>1. 0 \in S
    <2>1. from + 0 = from
        OBVIOUS
    <2> QED
        BY <2>1, ReplayNothing
<1>2. ASSUME NEW k \in S
      PROVE  k + 1 \in S
    <2> SUFFICES ASSUME from + (k + 1) <= to
                 PROVE  ReplayLog(log, state, from, from + (k + 1))
                          = ReplayLog(other, state, from, from + (k + 1))
        OBVIOUS
    <2>1. /\ k \in Nat /\ from + k \in Nat /\ from <= from + k
          /\ from + (k + 1) = (from + k) + 1 /\ (from + k) + 1 \in (from + 1)..to
        OBVIOUS
    <2>2. ReplayLog(log, state, from, from + k) = ReplayLog(other, state, from, from + k)
        BY <2>1
    <2>3. EventIn(log, (from + k) + 1) = EventIn(other, (from + k) + 1)
        BY <2>1
    <2>4. ReplayLog(log, state, from, (from + k) + 1)
            = ReplayEvent(ReplayLog(log, state, from, from + k), EventIn(log, (from + k) + 1))
        BY <2>1, ReplayOneMore
    <2>5. ReplayLog(other, state, from, (from + k) + 1)
            = ReplayEvent(ReplayLog(other, state, from, from + k), EventIn(other, (from + k) + 1))
        BY <2>1, ReplayOneMore
    <2> QED
        BY <2>1, <2>2, <2>3, <2>4, <2>5
<1>3. S = Nat
    BY <1>1, <1>2, NatInduct
<1>4. to - from \in Nat /\ from + (to - from) = to
    OBVIOUS
<1>5. to - from \in S
    BY <1>3, <1>4
<1> QED
    BY <1>4, <1>5

\* Replaying in two parts, the second from the state the first ends in, is
\* replaying at once: what makes a compacted snapshot a place to start from.
LEMMA ReplaySplit ==
    ASSUME NEW log, NEW state, NEW from \in Nat, NEW mid \in Nat, NEW to \in Nat,
           from <= mid, mid <= to
    PROVE  ReplayLog(log, ReplayLog(log, state, from, mid), mid, to)
             = ReplayLog(log, state, from, to)
<1> DEFINE first == ReplayLog(log, state, from, mid)
           S == {k \in Nat :
                    ReplayLog(log, first, mid, mid + k) = ReplayLog(log, state, from, mid + k)}
<1> HIDE DEF first
<1>1. 0 \in S
    <2>1. mid + 0 = mid
        OBVIOUS
    <2>2. ReplayLog(log, first, mid, mid) = first
        BY ReplayNothing
    <2> QED
        BY <2>1, <2>2 DEF first
<1>2. ASSUME NEW k \in S
      PROVE  k + 1 \in S
    <2>1. /\ k \in Nat /\ mid + k \in Nat /\ mid <= mid + k /\ from <= mid + k
          /\ mid + (k + 1) = (mid + k) + 1
        OBVIOUS
    <2>2. ReplayLog(log, first, mid, mid + k) = ReplayLog(log, state, from, mid + k)
        OBVIOUS
    <2>3. ReplayLog(log, first, mid, (mid + k) + 1)
            = ReplayEvent(ReplayLog(log, first, mid, mid + k), EventIn(log, (mid + k) + 1))
        BY <2>1, ReplayOneMore
    <2>4. ReplayLog(log, state, from, (mid + k) + 1)
            = ReplayEvent(ReplayLog(log, state, from, mid + k), EventIn(log, (mid + k) + 1))
        BY <2>1, ReplayOneMore
    <2> QED
        BY <2>1, <2>2, <2>3, <2>4
<1>3. S = Nat
    BY <1>1, <1>2, NatInduct
<1>4. to - mid \in Nat /\ mid + (to - mid) = to
    OBVIOUS
<1>5. to - mid \in S
    BY <1>3, <1>4
<1> QED
    BY <1>4, <1>5 DEF first

\* A bounded, non-empty set of numbers has a largest element: the nearest
\* compacted snapshot exists.
LEMMA LargestExists ==
    ASSUME NEW n \in Nat, NEW T \in SUBSET Nat, T # {}, \A x \in T : x <= n
    PROVE  \E m \in T : \A x \in T : x <= m
<1> DEFINE Bounded(k) == (\A x \in T : x <= k) => \E m \in T : \A x \in T : x <= m
           S == {k \in Nat : Bounded(k)}
<1>1. 0 \in S
    <2>1. PICK x \in T : TRUE
        OBVIOUS
    <2>2. Bounded(0)
        BY <2>1
    <2> QED
        BY <2>2
<1>2. ASSUME NEW k \in S
      PROVE  k + 1 \in S
    <2>1. CASE k + 1 \in T
        BY <2>1
    <2>2. CASE k + 1 \notin T
        <3>1. (\A x \in T : x <= k + 1) => \A x \in T : x <= k
            BY <2>2
        <3> QED
            BY <3>1
    <2> QED
        BY <2>1, <2>2
<1>3. S = Nat
    <2> HIDE DEF Bounded
    <2> QED
        BY <1>1, <1>2, NatInduct
<1>4. n \in S
    BY <1>3
<1> QED
    BY <1>4

-----------------------------------------------------------------------------
(* The inductive invariant.                                                *)

\* Every compacted snapshot is what its version replays to.
CompactionExact ==
    \A s \in document_snapshots :
        /\ s.version \in 1..current_version[s.document_id]
        /\ s.snapshot = Replay(s.document_id, s.version)
        /\ s.source_event \in EventsOf(s.document_id)
        /\ s.source_event.result_version = s.version

\* A document id not drawn yet has no content and is not marked deleted.
UnusedAreClean ==
    \A d \in DocumentId : ~Exists(d) => ~deleted[d] /\ current_snapshot[d] = None

LogInv ==
    /\ TypeOK
    /\ UnusedAreClean
    /\ ChainIsContiguous
    /\ ReplayMatchesLatest
    /\ HistoryValid
    /\ LifecycleMatchesLog
    /\ CompactionExact
    /\ LoadedIsHistory
    /\ ActivePathsUnique

-----------------------------------------------------------------------------
\* What every write does to the log: one event, at the next version of d.
Advance(d, e) ==
    /\ current_version[d] < MaxVersion
    /\ e.document_id = d
    /\ e.event_type \in EventType
    /\ e.base_version = current_version[d]
    /\ e.result_version = current_version[d] + 1
    /\ document_events' = document_events \cup {e}
    /\ current_version' = [current_version EXCEPT ![d] = current_version[d] + 1]

\* The log after a write: the written document has the event at its new version,
\* every version that existed still has the event it had.
LEMMA AdvanceLog ==
    ASSUME TypeOK, ChainIsContiguous, NEW d \in DocumentId, NEW e, Advance(d, e)
    PROVE  /\ EventsOf(d)' = EventsOf(d) \cup {e}
           /\ \A f \in DocumentId \ {d} : EventsOf(f)' = EventsOf(f)
           /\ current_version[d] \in Nat
           /\ current_version'[d] = current_version[d] + 1
           /\ \A f \in DocumentId \ {d} : current_version'[f] = current_version[f]
           /\ \A v \in 1..current_version[d] :
                EventIn(EventsOf(d)', v) = EventIn(EventsOf(d), v)
           /\ EventIn(EventsOf(d)', current_version[d] + 1) = e
<1>1. EventsOf(d)' = EventsOf(d) \cup {e}
    BY DEF Advance, EventsOf
<1>2. ASSUME NEW f \in DocumentId \ {d}
      PROVE  EventsOf(f)' = EventsOf(f)
    BY DEF Advance, EventsOf
<1>3. current_version[d] \in Nat /\ current_version \in [DocumentId -> 0..MaxVersion]
    BY BoundAssumption DEF TypeOK
<1>4. /\ current_version'[d] = current_version[d] + 1
      /\ \A f \in DocumentId \ {d} : current_version'[f] = current_version[f]
    BY <1>3 DEF Advance
<1>5. ASSUME NEW v \in 1..current_version[d]
      PROVE  EventIn(EventsOf(d)', v) = EventIn(EventsOf(d), v)
    <2>1. PICK g \in EventsOf(d) : g.result_version = v
        BY DEF ChainIsContiguous
    <2>2. e.result_version # v
        BY <1>3 DEF Advance
    <2>3. \A f \in EventsOf(d) : f.result_version = v => f = g
        BY <2>1 DEF ChainIsContiguous
    <2>4. EventIn(EventsOf(d), v) = g
        BY <2>1, <2>3 DEF EventIn
    <2>5. EventIn(EventsOf(d) \cup {e}, v) = g
        BY <2>1, <2>2, <2>3 DEF EventIn
    <2> QED
        BY <1>1, <2>4, <2>5
<1>6. EventIn(EventsOf(d)', current_version[d] + 1) = e
    <2>1. \A f \in EventsOf(d) : f.result_version # current_version[d] + 1
        BY <1>3 DEF ChainIsContiguous
    <2>2. EventIn(EventsOf(d) \cup {e}, current_version[d] + 1) = e
        BY <2>1 DEF EventIn, Advance
    <2> QED
        BY <1>1, <2>2
<1> QED
    BY <1>1, <1>2, <1>3, <1>4, <1>5, <1>6

\* ... hence every version that existed replays as before, and the new one is
\* one turn of the replay loop after the last.
LEMMA AdvanceReplay ==
    ASSUME TypeOK, ChainIsContiguous, NEW d \in DocumentId, NEW e, Advance(d, e)
    PROVE  /\ \A v \in 0..current_version[d] : Replay(d, v)' = Replay(d, v)
           /\ \A v : v = current_version[d] + 1 =>
                Replay(d, v)' = ReplayEvent(Replay(d, current_version[d]), e)
           /\ \A f \in DocumentId \ {d} : \A v : Replay(f, v)' = Replay(f, v)
<1>1. current_version[d] \in Nat /\ 0 \in Nat /\ 0 <= current_version[d]
    BY AdvanceLog
<1>2. ASSUME NEW v \in 0..current_version[d]
      PROVE  Replay(d, v)' = Replay(d, v)
    <2>1. v \in Nat /\ 0 <= v
        BY <1>1
    <2>2. \A u \in (0 + 1)..v : EventIn(EventsOf(d), u) = EventIn(EventsOf(d)', u)
        BY <1>1, AdvanceLog
    <2>3. ReplayLog(EventsOf(d), None, 0, v) = ReplayLog(EventsOf(d)', None, 0, v)
        BY <1>1, <2>1, <2>2, ReplaySame
    <2> QED
        BY <2>3 DEF Replay
<1>3. ASSUME NEW v, v = current_version[d] + 1
      PROVE  Replay(d, v)' = ReplayEvent(Replay(d, current_version[d]), e)
    <2>1. ReplayLog(EventsOf(d)', None, 0, v)
            = ReplayEvent(ReplayLog(EventsOf(d)', None, 0, current_version[d]),
                          EventIn(EventsOf(d)', v))
        BY <1>1, <1>3, ReplayOneMore
    <2>2. EventIn(EventsOf(d)', v) = e
        BY <1>3, AdvanceLog
    <2>3. \A u \in (0 + 1)..current_version[d] : EventIn(EventsOf(d), u) = EventIn(EventsOf(d)', u)
        BY <1>1, AdvanceLog
    <2>4. ReplayLog(EventsOf(d), None, 0, current_version[d])
            = ReplayLog(EventsOf(d)', None, 0, current_version[d])
        BY <1>1, <2>3, ReplaySame
    <2> QED
        BY <2>1, <2>2, <2>4 DEF Replay
<1>4. ASSUME NEW f \in DocumentId \ {d}, NEW v
      PROVE  Replay(f, v)' = Replay(f, v)
    BY AdvanceLog DEF Replay
<1> QED
    BY <1>2, <1>3, <1>4

-----------------------------------------------------------------------------
\* What the five writing transactions have in common: one event, a snapshot that
\* is what the event makes of the last one, a schema bound at creation, deleted_at
\* as the event's type says, and a path nobody else holds.
Write(d, e) ==
    /\ Advance(d, e)
    /\ full_path' \in [DocumentId -> Path \cup {None}]
    /\ current_snapshot' \in [DocumentId -> Content \cup {None}]
    /\ schema_id' \in [DocumentId -> SchemaId \cup {NoSchema}]
    /\ deleted' \in [DocumentId -> BOOLEAN]
    /\ \A f \in DocumentId \ {d} :
        /\ full_path'[f] = full_path[f]
        /\ current_snapshot'[f] = current_snapshot[f]
        /\ schema_id'[f] = schema_id[f]
        /\ deleted'[f] = deleted[f]
    /\ full_path'[d] \in Path
    /\ current_snapshot'[d] \in Content
    /\ current_snapshot'[d] = ReplayEvent(IF Exists(d) THEN current_snapshot[d] ELSE None, e)
    /\ SchemaAllows(schema_id'[d], current_snapshot'[d])
    /\ Exists(d) => schema_id'[d] = schema_id[d]
    /\ e.event_type = "create" <=> ~Exists(d)
    /\ e.event_type = "delete" <=> deleted'[d]
    /\ e.event_type = "restore" <=> deleted[d]
    /\ ~deleted'[d] =>
        \/ Active(d) /\ full_path'[d] = full_path[d]
        \/ PathFree(full_path'[d])
    /\ UNCHANGED <<document_snapshots, loaded>>

\* The event row that _insert_event adds.
Row(d, type, base, patch) ==
    [ document_id |-> d, event_type |-> type, base_version |-> base,
      result_version |-> base + 1, patch |-> patch ]

LEMMA CreateIsWrite ==
    ASSUME LogInv, NEW a, NEW d \in DocumentId, NEW p \in Path,
           NEW schema \in SchemaId \cup {NoSchema}, NEW content \in Content,
           CreateDocument(a, d, p, schema, content)
    PROVE  \E e : Write(d, e) /\ e.event_type = "create"
<1> DEFINE e == Row(d, "create", 0, AddRoot(content))
<1>1. /\ current_version[d] = 0
      /\ ~Exists(d)
      /\ ~deleted[d]
    BY BoundAssumption DEF CreateDocument, LogInv, TypeOK, UnusedAreClean, Exists
<1>2. Advance(d, e)
    BY <1>1 DEF CreateDocument, InsertEvent, Advance, Row, EventType
<1>3. content = ReplayEvent(None, e)
    BY PatchAssumption DEF ReplayEvent, Row
<1>4. Write(d, e)
    BY <1>1, <1>2, <1>3 DEF CreateDocument, Write, LogInv, TypeOK, Row
<1> QED
    BY <1>4 DEF Row

LEMMA PatchIsWrite ==
    ASSUME LogInv, NEW d \in DocumentId, NEW base \in Nat, NEW patch, Active(d),
           ApplyDocumentPatch(d, base, patch)
    PROVE  \E e : Write(d, e) /\ e.event_type = "update"
<1> DEFINE e == Row(d, "update", base, patch)
           next == Patched(current_snapshot[d], patch)
<1>1. /\ base = current_version[d] /\ Exists(d) /\ deleted[d] = FALSE
      /\ current_snapshot[d] \in Content /\ next \in Content
      /\ full_path[d] \in Path
    BY DEF ApplyDocumentPatch, LogInv, TypeOK, Active
<1>2. Advance(d, e)
    BY <1>1 DEF ApplyDocumentPatch, InsertEvent, Advance, Row, EventType
<1>3. next = ReplayEvent(current_snapshot[d], e)
    BY <1>1, PatchAssumption, ContentAssumption DEF ReplayEvent, Row
<1>4. Write(d, e)
    BY <1>1, <1>2, <1>3 DEF ApplyDocumentPatch, Active, Write, LogInv, TypeOK, Row
<1> QED
    BY <1>4 DEF Row

LEMMA DeleteIsWrite ==
    ASSUME LogInv, NEW a, NEW d \in DocumentId, NEW base \in Nat, DeleteDocument(a, d, base)
    PROVE  \E e : Write(d, e) /\ e.event_type = "delete"
<1> DEFINE e == Row(d, "delete", base, NoPatch)
<1>1. /\ base = current_version[d] /\ Exists(d) /\ deleted[d] = FALSE
      /\ current_snapshot[d] \in Content /\ full_path[d] \in Path
    BY DEF DeleteDocument, LogInv, TypeOK, Active
<1>2. Advance(d, e)
    BY <1>1 DEF DeleteDocument, InsertEvent, Advance, Row, EventType
<1>3. current_snapshot[d] = ReplayEvent(current_snapshot[d], e)
    BY DEF ReplayEvent, Row
<1>4. SchemaAllows(schema_id[d], current_snapshot[d])
    <2>1. base \in 1..current_version[d]
        BY <1>1 DEF Exists
    <2> QED
        BY <1>1, <2>1 DEF LogInv, HistoryValid, ReplayMatchesLatest
<1>5. Write(d, e)
    BY <1>1, <1>2, <1>3, <1>4 DEF DeleteDocument, Write, LogInv, TypeOK, Row
<1> QED
    BY <1>5 DEF Row

LEMMA RestoreIsWrite ==
    ASSUME LogInv, NEW a, NEW d \in DocumentId, NEW base \in Nat, RestoreDocument(a, d, base)
    PROVE  \E e : Write(d, e) /\ e.event_type = "restore"
<1> DEFINE e == Row(d, "restore", base, NoPatch)
<1>1. /\ base = current_version[d] /\ Exists(d) /\ deleted[d] = TRUE
      /\ current_snapshot[d] \in Content /\ full_path[d] \in Path
    BY DEF RestoreDocument, LogInv, TypeOK
<1>2. Advance(d, e)
    BY <1>1 DEF RestoreDocument, InsertEvent, Advance, Row, EventType
<1>3. current_snapshot[d] = ReplayEvent(current_snapshot[d], e)
    BY DEF ReplayEvent, Row
<1>4. Write(d, e)
    BY <1>1, <1>2, <1>3 DEF RestoreDocument, Write, LogInv, TypeOK, Row
<1> QED
    BY <1>4 DEF Row

LEMMA RollbackIsWrite ==
    ASSUME LogInv, NEW a, NEW d \in DocumentId, NEW base \in Nat, NEW target \in Nat,
           RollbackDocument(a, d, base, target)
    PROVE  \E e : Write(d, e) /\ e.event_type = "rollback"
<1> DEFINE content == Replay(d, target)
           e == Row(d, "rollback", base, ReplaceRoot(content))
<1>1. /\ base = current_version[d] /\ Exists(d) /\ deleted[d] = FALSE
      /\ current_snapshot[d] \in Content /\ full_path[d] \in Path /\ content \in Content
    BY DEF RollbackDocument, LogInv, TypeOK, Active
<1> HIDE DEF content
<1>2. Advance(d, e)
    BY <1>1 DEF RollbackDocument, InsertEvent, Advance, Row, EventType, content
<1>3. content = ReplayEvent(current_snapshot[d], e)
    BY <1>1, PatchAssumption DEF ReplayEvent, Row
<1>4. Write(d, e)
    BY <1>1, <1>2, <1>3 DEF RollbackDocument, Active, Write, LogInv, TypeOK, Row, content
<1> QED
    BY <1>4 DEF Row

-----------------------------------------------------------------------------
\* A write preserves the invariant, one conjunct at a time.
LEMMA WritePreserves ==
    ASSUME LogInv, NEW d \in DocumentId, NEW e, Write(d, e)
    PROVE  LogInv'
<1> DEFINE last == current_version[d]
<1>1. TypeOK /\ ChainIsContiguous /\ Advance(d, e)
    BY DEF LogInv, Write
<1>2. /\ EventsOf(d)' = EventsOf(d) \cup {e}
      /\ \A f \in DocumentId \ {d} : EventsOf(f)' = EventsOf(f)
      /\ last \in Nat
      /\ current_version'[d] = last + 1
      /\ \A f \in DocumentId \ {d} : current_version'[f] = current_version[f]
    BY <1>1, AdvanceLog
<1>3. /\ \A v \in 1..last : EventAt(d, v)' = EventAt(d, v)
      /\ \A v : v = last + 1 => EventAt(d, v)' = e
      /\ \A f \in DocumentId \ {d} : \A v : EventAt(f, v)' = EventAt(f, v)
    BY <1>1, AdvanceLog DEF EventAt
<1>4. /\ \A v \in 0..last : Replay(d, v)' = Replay(d, v)
      /\ \A v : v = last + 1 => Replay(d, v)' = ReplayEvent(Replay(d, last), e)
      /\ \A f \in DocumentId \ {d} : \A v : Replay(f, v)' = Replay(f, v)
    BY <1>1, AdvanceReplay
<1>5. \A v : v = last + 1 => Replay(d, v)' = current_snapshot'[d]
    <2>1. CASE Exists(d)
        <3>1. Replay(d, last) = current_snapshot[d]
            BY <2>1 DEF LogInv, ReplayMatchesLatest
        <3> QED
            BY <1>4, <2>1, <3>1 DEF Write
    <2>2. CASE ~Exists(d)
        <3>1. last = 0
            BY <1>2, <2>2 DEF Exists
        <3>2. Replay(d, 0) = None
            BY ReplayNothing DEF Replay
        <3> QED
            BY <1>4, <2>2, <3>1, <3>2 DEF Write
    <2> QED
        BY <2>1, <2>2
<1>6. TypeOK'
    <2>1. current_version' \in [DocumentId -> 0..MaxVersion]
        BY <1>1, BoundAssumption DEF Advance, TypeOK
    <2>2. \A f \in DocumentId : Exists(f)' =>
                full_path'[f] \in Path /\ current_snapshot'[f] \in Content
        BY <1>2 DEF Write, LogInv, TypeOK, Exists
    <2>3. \A g \in document_events' :
            /\ g.document_id \in DocumentId
            /\ g.event_type \in EventType
            /\ g.base_version \in 0..MaxVersion
            /\ g.result_version \in 1..MaxVersion
        BY <1>1, BoundAssumption DEF Advance, TypeOK
    <2> QED
        BY <2>1, <2>2, <2>3 DEF Write, LogInv, TypeOK
<1>7. UnusedAreClean'
    BY <1>2 DEF Write, LogInv, UnusedAreClean, Exists
<1>8. ChainIsContiguous'
    <2> SUFFICES ASSUME NEW f \in DocumentId
                 PROVE  /\ \A v \in 1..current_version'[f] :
                            \E g \in EventsOf(f)' : g.result_version = v
                        /\ \A g \in EventsOf(f)' :
                            /\ g.result_version \in 1..current_version'[f]
                            /\ g.base_version = g.result_version - 1
                            /\ g.event_type = "create" <=> g.result_version = 1
                            /\ \A h \in EventsOf(f)' :
                                g.result_version = h.result_version => g = h
        BY DEF ChainIsContiguous
    <2>1. CASE f # d
        BY <1>1, <1>2, <2>1 DEF ChainIsContiguous
    <2>2. CASE f = d
        <3>1. /\ e.result_version = last + 1
              /\ e.base_version = e.result_version - 1
              /\ e.event_type = "create" <=> e.result_version = 1
            BY <1>2 DEF Write, Advance, Exists
        <3>2. \A g \in EventsOf(d) : g.result_version \in 1..last
            BY <1>1 DEF ChainIsContiguous
        <3>3. \A v \in 1..last + 1 : \E g \in EventsOf(d)' : g.result_version = v
            BY <1>1, <1>2, <3>1 DEF ChainIsContiguous
        <3>4. \A g \in EventsOf(d)' :
                /\ g.result_version \in 1..last + 1
                /\ g.base_version = g.result_version - 1
                /\ g.event_type = "create" <=> g.result_version = 1
            BY <1>1, <1>2, <3>1, <3>2 DEF ChainIsContiguous
        <3>5. \A g, h \in EventsOf(d)' : g.result_version = h.result_version => g = h
            BY <1>1, <1>2, <3>1, <3>2 DEF ChainIsContiguous
        <3> QED
            BY <1>2, <2>2, <3>3, <3>4, <3>5
    <2> QED
        BY <2>1, <2>2
<1>9. ReplayMatchesLatest'
    <2> SUFFICES ASSUME NEW f \in DocumentId, Exists(f)',
                        NEW v, v = current_version'[f]
                 PROVE  Replay(f, v)' = current_snapshot'[f]
        BY DEF ReplayMatchesLatest
    <2>1. CASE f # d
        <3>1. Exists(f) /\ v = current_version[f]
            BY <1>2, <2>1 DEF Exists
        <3>2. Replay(f, v) = current_snapshot[f]
            BY <3>1 DEF LogInv, ReplayMatchesLatest
        <3> QED
            BY <1>4, <2>1, <3>2 DEF Write
    <2>2. CASE f = d
        BY <1>2, <1>5, <2>2
    <2> QED
        BY <2>1, <2>2
<1>10. HistoryValid'
    <2> SUFFICES ASSUME NEW f \in DocumentId, NEW v \in 1..current_version'[f]
                 PROVE  SchemaAllows(schema_id'[f], Replay(f, v)')
        BY DEF HistoryValid, SchemaAllows
    <2>1. CASE f # d
        BY <1>2, <1>4, <2>1 DEF Write, LogInv, HistoryValid
    <2>2. CASE f = d /\ v = last + 1
        BY <1>5, <2>2 DEF Write
    <2>3. CASE f = d /\ v # last + 1
        <3>1. v \in 1..last /\ v \in 0..last /\ Exists(d)
            BY <1>2, <2>3 DEF Exists
        <3> QED
            BY <1>4, <2>3, <3>1 DEF Write, LogInv, HistoryValid
    <2> QED
        BY <2>1, <2>2, <2>3
<1>11. LifecycleMatchesLog'
    <2> SUFFICES ASSUME NEW f \in DocumentId, Exists(f)',
                        NEW last_version, last_version = current_version'[f]
                 PROVE  /\ deleted'[f] <=> EventAt(f, last_version)'.event_type = "delete"
                        /\ \A v \in 2..last_version :
                            EventAt(f, v - 1)'.event_type = "delete"
                              <=> EventAt(f, v)'.event_type = "restore"
        BY DEF LifecycleMatchesLog
    <2>1. CASE f # d
        <3>1. Exists(f) /\ last_version = current_version[f] /\ deleted'[f] = deleted[f]
            BY <1>2, <2>1 DEF Exists, Write
        <3> QED
            BY <1>3, <2>1, <3>1 DEF LogInv, LifecycleMatchesLog
    <2>2. CASE f = d
        <3>1. last_version = last + 1
            BY <1>2, <2>2
        <3>2. deleted'[f] <=> EventAt(f, last_version)'.event_type = "delete"
            BY <1>3, <2>2, <3>1 DEF Write
        <3>3. ASSUME NEW v \in 2..last_version
              PROVE  EventAt(f, v - 1)'.event_type = "delete"
                       <=> EventAt(f, v)'.event_type = "restore"
            <4>1. Exists(d) /\ v - 1 \in 1..last
                BY <1>2, <3>1, <3>3 DEF Exists
            <4>2. CASE v = last + 1
                <5>1. v - 1 = last
                    BY <1>2, <4>2
                <5>2. deleted[d] <=> EventAt(d, last).event_type = "delete"
                    BY <4>1 DEF LogInv, LifecycleMatchesLog
                <5>3. EventAt(d, v)' = e /\ EventAt(d, v - 1)' = EventAt(d, v - 1)
                    BY <1>3, <4>1, <4>2
                <5> QED
                    BY <2>2, <5>1, <5>2, <5>3 DEF Write
            <4>3. CASE v # last + 1
                <5>1. v \in 2..last /\ v \in 1..last
                    BY <1>2, <3>1, <4>3
                <5>2. EventAt(d, v)' = EventAt(d, v) /\ EventAt(d, v - 1)' = EventAt(d, v - 1)
                    BY <1>3, <4>1, <5>1
                <5> QED
                    BY <2>2, <4>1, <5>1, <5>2 DEF LogInv, LifecycleMatchesLog
            <4> QED
                BY <4>2, <4>3
        <3> QED
            BY <3>2, <3>3
    <2> QED
        BY <2>1, <2>2
<1>12. CompactionExact'
    <2> SUFFICES ASSUME NEW s \in document_snapshots, NEW f, f = s.document_id,
                        NEW v, v = s.version
                 PROVE  /\ v \in 1..current_version'[f]
                        /\ s.snapshot = Replay(f, v)'
                        /\ s.source_event \in EventsOf(f)'
                        /\ s.source_event.result_version = s.version
        BY DEF CompactionExact, Write
    <2>1. /\ f \in DocumentId
          /\ v \in 1..current_version[f]
          /\ s.snapshot = Replay(f, v)
          /\ s.source_event \in EventsOf(f)
          /\ s.source_event.result_version = s.version
        BY DEF LogInv, TypeOK, CompactionExact
    <2>2. CASE f # d
        BY <1>2, <1>4, <2>1, <2>2
    <2>3. CASE f = d
        <3>1. v \in 1..last + 1 /\ v \in 0..last
            BY <1>2, <2>1, <2>3
        <3> QED
            BY <1>2, <1>4, <2>1, <2>3, <3>1
    <2> QED
        BY <2>2, <2>3
<1>13. LoadedIsHistory'
    <2> SUFFICES ASSUME NEW a \in Actor, loaded[a] # None,
                        NEW f, f = loaded[a].document_id, NEW v, v = loaded[a].version
                 PROVE  /\ v \in 1..current_version'[f]
                        /\ Replay(f, v)' = loaded[a].content
        BY DEF LoadedIsHistory, Write
    <2>1. /\ f \in DocumentId
          /\ v \in 1..current_version[f]
          /\ Replay(f, v) = loaded[a].content
        BY DEF LogInv, TypeOK, LoadedIsHistory
    <2>2. CASE f # d
        BY <1>2, <1>4, <2>1, <2>2
    <2>3. CASE f = d
        <3>1. v \in 1..last + 1 /\ v \in 0..last
            BY <1>2, <2>1, <2>3
        <3> QED
            BY <1>2, <1>4, <2>1, <2>3, <3>1
    <2> QED
        BY <2>2, <2>3
<1>14. ActivePathsUnique'
    <2> SUFFICES ASSUME NEW f \in DocumentId, NEW g \in DocumentId,
                        Active(f)', Active(g)', full_path'[f] = full_path'[g]
                 PROVE  f = g
        BY DEF ActivePathsUnique, ActiveDocuments
    <2>1. \A h \in DocumentId \ {d} : Active(h)' => Active(h) /\ full_path'[h] = full_path[h]
        BY <1>2 DEF Write, Active, Exists
    <2>2. \A h, k \in DocumentId : Active(h) /\ Active(k) /\ full_path[h] = full_path[k] => h = k
        BY DEF LogInv, ActivePathsUnique, ActiveDocuments
    <2>3. Active(d)' =>
            \/ Active(d) /\ full_path'[d] = full_path[d]
            \/ \A h \in DocumentId : Active(h) => full_path[h] # full_path'[d]
        BY DEF Write, Active, PathFree
    <2> QED
        BY <2>1, <2>2, <2>3
<1> QED
    BY <1>6, <1>7, <1>8, <1>9, <1>10, <1>11, <1>12, <1>13, <1>14 DEF LogInv

\* A step that leaves documents and events alone leaves what they say alone.
LEMMA QuietLog ==
    ASSUME UNCHANGED <<documents, document_events>>
    PROVE  \A f : /\ EventsOf(f)' = EventsOf(f)
                  /\ Exists(f)' <=> Exists(f)
                  /\ Active(f)' <=> Active(f)
                  /\ \A v : Replay(f, v)' = Replay(f, v) /\ EventAt(f, v)' = EventAt(f, v)
<1>1. \A f : EventsOf(f)' = EventsOf(f)
    BY DEF EventsOf
<1> QED
    BY <1>1 DEF documents, Exists, Active, Replay, EventAt

LEMMA QuietPreserves ==
    ASSUME LogInv, UNCHANGED <<documents, document_events>>
    PROVE  /\ UnusedAreClean' /\ ChainIsContiguous' /\ ReplayMatchesLatest'
           /\ HistoryValid' /\ LifecycleMatchesLog' /\ ActivePathsUnique'
<1>1. UnusedAreClean'
    BY QuietLog DEF LogInv, UnusedAreClean, documents
<1>2. ChainIsContiguous'
    BY QuietLog DEF LogInv, ChainIsContiguous, documents
<1>3. ReplayMatchesLatest'
    BY DEF LogInv, ReplayMatchesLatest, documents, Exists, Replay, EventsOf
<1>4. HistoryValid'
    BY DEF LogInv, HistoryValid, SchemaAllows, documents, Replay, EventsOf
<1>5. LifecycleMatchesLog'
    BY DEF LogInv, LifecycleMatchesLog, documents, Exists, EventAt, EventsOf
<1>6. ActivePathsUnique'
    BY QuietLog DEF LogInv, ActivePathsUnique, ActiveDocuments, documents
<1> QED
    BY <1>1, <1>2, <1>3, <1>4, <1>5, <1>6

LEMMA CompactPreserves ==
    ASSUME LogInv, NEW d \in DocumentId, NEW v \in 1..MaxVersion, CompactSnapshot(d, v)
    PROVE  LogInv'
<1> DEFINE row == [ document_id |-> d, version |-> v, snapshot |-> Replay(d, v),
                    source_event |-> EventAt(d, v) ]
<1>1. /\ UNCHANGED <<documents, document_events>> /\ UNCHANGED loaded
      /\ document_snapshots' = document_snapshots \cup {row}
      /\ v \in 1..current_version[d]
    BY DEF CompactSnapshot
<1>2. TypeOK'
    BY <1>1, QuietLog DEF LogInv, TypeOK, documents
<1>3. EventAt(d, v) \in EventsOf(d) /\ EventAt(d, v).result_version = v
    BY <1>1 DEF EventAt, EventIn, LogInv, ChainIsContiguous
<1>4. CompactionExact'
    <2> SUFFICES ASSUME NEW s \in document_snapshots',
                        NEW f, f = s.document_id, NEW w, w = s.version
                 PROVE  /\ w \in 1..current_version[f]
                        /\ s.snapshot = Replay(f, w)
                        /\ s.source_event \in EventsOf(f)
                        /\ s.source_event.result_version = s.version
        BY <1>1, QuietLog DEF CompactionExact, documents
    <2>1. CASE s = row
        BY <1>1, <1>3, <2>1
    <2>2. CASE s \in document_snapshots
        BY <2>2 DEF LogInv, CompactionExact
    <2> QED
        BY <1>1, <2>1, <2>2
<1>5. LoadedIsHistory'
    BY <1>1, QuietLog DEF LogInv, LoadedIsHistory, documents
<1> QED
    BY <1>1, <1>2, <1>4, <1>5, QuietPreserves DEF LogInv

LEMMA LoadPreserves ==
    ASSUME LogInv, NEW a \in Actor, NEW d \in DocumentId, LoadDocument(a, d)
    PROVE  LogInv'
<1> DEFINE l == [ document_id |-> d, version |-> current_version[d],
                  content |-> current_snapshot[d] ]
<1>1. /\ UNCHANGED <<documents, document_events>> /\ UNCHANGED document_snapshots
      /\ loaded' = [loaded EXCEPT ![a] = l]
      /\ Exists(d)
    BY DEF LoadDocument, Active
<1>2. ASSUME NEW b \in Actor
      PROVE  loaded'[b] = l \/ loaded'[b] = loaded[b]
    BY <1>1 DEF LogInv, TypeOK
<1>3. TypeOK'
    <2>1. l \in [document_id : DocumentId, version : 1..MaxVersion, content : Content]
        <3>1. current_snapshot[d] \in Content /\ current_version[d] \in 1..MaxVersion
            BY <1>1, BoundAssumption DEF LogInv, TypeOK, Exists
        <3> QED
            BY <3>1
    <2>2. loaded' \in [Actor -> {None} \cup
            [document_id : DocumentId, version : 1..MaxVersion, content : Content]]
        <3> HIDE DEF l
        <3> QED
            BY <1>1, <2>1 DEF LogInv, TypeOK
    <2> QED
        BY <1>1, <2>2, QuietLog DEF LogInv, TypeOK, documents
<1>4. CompactionExact'
    BY <1>1, QuietLog DEF LogInv, CompactionExact, documents
<1>5. LoadedIsHistory'
    <2> SUFFICES ASSUME NEW b \in Actor, loaded'[b] # None,
                        NEW f, f = loaded'[b].document_id, NEW w, w = loaded'[b].version
                 PROVE  /\ w \in 1..current_version[f]
                        /\ Replay(f, w) = loaded'[b].content
        BY <1>1, QuietLog DEF LoadedIsHistory, documents
    <2>1. CASE loaded'[b] = l
        BY <1>1, <2>1 DEF LogInv, TypeOK, ReplayMatchesLatest, Exists
    <2>2. CASE loaded'[b] = loaded[b]
        BY <2>2 DEF LogInv, LoadedIsHistory
    <2> QED
        BY <1>2, <2>1, <2>2
<1> QED
    BY <1>1, <1>3, <1>4, <1>5, QuietPreserves DEF LogInv

LEMMA InitLog == Init => LogInv
<1> SUFFICES ASSUME Init PROVE LogInv
    OBVIOUS
<1>1. \A d \in DocumentId : current_version[d] = 0 /\ ~Exists(d) /\ ~Active(d) /\ EventsOf(d) = {}
    BY DEF Init, Exists, Active, EventsOf
<1>2. TypeOK
    BY <1>1, BoundAssumption DEF Init, TypeOK
<1>3. /\ UnusedAreClean /\ ChainIsContiguous /\ ReplayMatchesLatest /\ HistoryValid
      /\ LifecycleMatchesLog
    BY <1>1 DEF Init, UnusedAreClean, ChainIsContiguous, ReplayMatchesLatest, HistoryValid,
                LifecycleMatchesLog
<1>4. CompactionExact /\ LoadedIsHistory /\ ActivePathsUnique
    BY <1>1 DEF Init, CompactionExact, LoadedIsHistory, ActivePathsUnique, ActiveDocuments
<1> QED
    BY <1>2, <1>3, <1>4 DEF LogInv

\* Every transaction that writes the log is a Write; the other two steps do not.
LEMMA NextIsWrite ==
    ASSUME LogInv, Next
    PROVE  \/ \E d \in DocumentId : \E e : Write(d, e)
           \/ \E d \in DocumentId, v \in 1..MaxVersion : CompactSnapshot(d, v)
           \/ \E d \in DocumentId, a \in Actor : LoadDocument(a, d)
<1>1. PICK d \in DocumentId :
        \/ \E v \in 1..MaxVersion : CompactSnapshot(d, v)
        \/ \E a \in Actor :
            \/ LoadDocument(a, d)
            \/ \E p \in Path, schema \in SchemaId \cup {NoSchema}, content \in Content :
                    CreateDocument(a, d, p, schema, content)
            \/ \E base \in 1..MaxVersion :
                \/ \E patch \in Patches : PatchDocument(a, d, base, patch)
                \/ \E content \in Content : UpdateContent(a, d, base, content)
                \/ \E content \in Content : UpdateContentAuto(a, d, base, content)
                \/ DeleteDocument(a, d, base)
                \/ RestoreDocument(a, d, base)
                \/ \E target \in 1..MaxVersion : RollbackDocument(a, d, base, target)
    BY DEF Next
<1>2. ASSUME NEW a \in Actor, NEW p \in Path, NEW schema \in SchemaId \cup {NoSchema},
             NEW content \in Content, CreateDocument(a, d, p, schema, content)
      PROVE  \E e : Write(d, e)
    BY <1>2, CreateIsWrite
<1>3. ASSUME NEW a \in Actor, NEW base \in 1..MaxVersion, NEW patch, PatchDocument(a, d, base, patch)
      PROVE  \E e : Write(d, e)
    BY <1>3, PatchIsWrite DEF PatchDocument
<1>4. ASSUME NEW a \in Actor, NEW base \in 1..MaxVersion, NEW content,
             UpdateContent(a, d, base, content)
      PROVE  \E e : Write(d, e)
    BY <1>4, PatchIsWrite DEF UpdateContent
<1>5. ASSUME NEW a \in Actor, NEW base \in 1..MaxVersion, NEW content,
             UpdateContentAuto(a, d, base, content)
      PROVE  \E e : Write(d, e)
    <2>1. Active(d) /\ current_version[d] \in Nat
        BY <1>5 DEF UpdateContentAuto, LogInv, TypeOK
    <2>2. PICK patch : ApplyDocumentPatch(d, current_version[d], patch)
        BY <1>5 DEF UpdateContentAuto
    <2> QED
        BY <2>1, <2>2, PatchIsWrite
<1>6. ASSUME NEW a \in Actor, NEW base \in 1..MaxVersion, DeleteDocument(a, d, base)
      PROVE  \E e : Write(d, e)
    BY <1>6, DeleteIsWrite
<1>7. ASSUME NEW a \in Actor, NEW base \in 1..MaxVersion, RestoreDocument(a, d, base)
      PROVE  \E e : Write(d, e)
    BY <1>7, RestoreIsWrite
<1>8. ASSUME NEW a \in Actor, NEW base \in 1..MaxVersion, NEW target \in 1..MaxVersion,
             RollbackDocument(a, d, base, target)
      PROVE  \E e : Write(d, e)
    BY <1>8, RollbackIsWrite
<1> QED
    BY <1>1, <1>2, <1>3, <1>4, <1>5, <1>6, <1>7, <1>8

\* LogInv is inductive, so it holds in every state the store reaches.
THEOREM LogInvariant == Spec => []LogInv
<1>1. ASSUME LogInv, [Next]_vars
      PROVE  LogInv'
    <2>1. CASE UNCHANGED vars
        BY <1>1, <2>1, QuietPreserves, QuietLog
        DEF vars, documents, LogInv, TypeOK, CompactionExact, LoadedIsHistory
    <2>2. CASE Next
        BY <1>1, <2>2, NextIsWrite, WritePreserves, CompactPreserves, LoadPreserves
    <2> QED
        BY <1>1, <2>1, <2>2
<1> QED
    BY <1>1, InitLog, PTL DEF Spec

-----------------------------------------------------------------------------
\* Every state has the types the tables' columns have.
THEOREM TypeCorrect == Spec => []TypeOK
BY LogInvariant, PTL DEF LogInv

\* The event log of every document is one unbroken chain of versions.
THEOREM ChainCorrect == Spec => []ChainIsContiguous
BY LogInvariant, PTL DEF LogInv

\* Replaying a document's log always gives its stored snapshot: the assertion that
\* assert_replay_matches_latest makes before a merge or a compaction never fires.
THEOREM ReplayCorrect == Spec => []ReplayMatchesLatest
BY LogInvariant, PTL DEF LogInv

\* No sequence of creates, deletes and restores gives two live documents one path.
THEOREM PathsCorrect == Spec => []ActivePathsUnique
BY LogInvariant, PTL DEF LogInv

\* Every version in the log validates under its document's schema.
THEOREM SchemaCorrect == Spec => []HistoryValid
BY LogInvariant, PTL DEF LogInv

\* deleted_at agrees with the delete and restore events of the log.
THEOREM LifecycleCorrect == Spec => []LifecycleMatchesLog
BY LogInvariant, PTL DEF LogInv

\* What a client loaded stays what its version replays to.
THEOREM LoadedCorrect == Spec => []LoadedIsHistory
BY LogInvariant, PTL DEF LogInv

\* Reading a version from the nearest compacted snapshot gives what the whole log gives.
LEMMA ReadsAreReplays ==
    ASSUME LogInv, NEW d \in DocumentId, NEW v \in 1..current_version[d]
    PROVE  ReconstructWithCompaction(d, v) = Replay(d, v)
<1>1. CASE SnapshotsUpTo(d, v) = {}
    BY <1>1 DEF ReconstructWithCompaction
<1>2. CASE SnapshotsUpTo(d, v) # {}
    <2> DEFINE Nearest(s) == /\ s \in SnapshotsUpTo(d, v)
                             /\ \A t \in SnapshotsUpTo(d, v) : t.version <= s.version
               nearest == CHOOSE s \in SnapshotsUpTo(d, v) :
                            \A t \in SnapshotsUpTo(d, v) : t.version <= s.version
               T == {s.version : s \in SnapshotsUpTo(d, v)}
    <2>0. current_version[d] \in Nat /\ v \in Nat
        BY BoundAssumption DEF LogInv, TypeOK
    <2>1. \A s \in SnapshotsUpTo(d, v) :
            s \in document_snapshots /\ s.document_id = d /\ s.version <= v /\ s.version \in Nat
        BY <2>0 DEF LogInv, CompactionExact, SnapshotsUpTo
    <2>2. T \in SUBSET Nat /\ T # {} /\ \A x \in T : x <= v
        BY <1>2, <2>1
    <2>3. PICK m \in T : \A x \in T : x <= m
        <3> HIDE DEF T
        <3> QED
            BY <2>0, <2>2, LargestExists
    <2>4. PICK s : Nearest(s)
        BY <2>3
    <2>5. Nearest(nearest)
        BY <2>4
    <2> HIDE DEF nearest
    <2>6. /\ nearest.version \in Nat /\ 0 <= nearest.version /\ nearest.version <= v
          /\ nearest.snapshot = Replay(d, nearest.version)
        BY <2>1, <2>5 DEF LogInv, CompactionExact
    <2>7. ReplayLog(EventsOf(d), Replay(d, nearest.version), nearest.version, v)
            = Replay(d, v)
        BY <2>0, <2>6, ReplaySplit DEF Replay
    <2>8. ReconstructWithCompaction(d, v)
            = ReplayLog(EventsOf(d), nearest.snapshot, nearest.version, v)
        BY <1>2 DEF ReconstructWithCompaction, nearest
    <2> QED
        BY <2>6, <2>7, <2>8
<1> QED
    BY <1>1, <1>2

\* Compaction changes no version that a reader gets, and a compacted row always names the
\* event of its version.
THEOREM CompactionCorrect == Spec => []CompactionAgrees
<1>1. LogInv => CompactionAgrees
    BY ReadsAreReplays DEF LogInv, CompactionExact, CompactionAgrees
<1> QED
    BY <1>1, LogInvariant, PTL

\* No step rewrites an event or a compacted snapshot, and a document that changes
\* moves on by one version with one event.
THEOREM AppendOnly == Spec => HistoryIsAppendOnly
<1>1. ASSUME LogInv, [Next]_vars
      PROVE  [AppendStep]_vars
    <2>1. ASSUME NEW d \in DocumentId, NEW e, Write(d, e)
          PROVE  AppendStep
        <3>1. TypeOK /\ ChainIsContiguous /\ Advance(d, e)
            BY <1>1, <2>1 DEF LogInv, Write
        <3>2. document_events' = document_events \cup {e} /\ UNCHANGED document_snapshots
            BY <2>1, <3>1 DEF Write, Advance
        <3>3. /\ current_version'[d] = current_version[d] + 1
              /\ e \in document_events'
              /\ e.document_id = d
              /\ e.result_version = current_version'[d]
            BY <3>1, <3>2, AdvanceLog DEF Advance
        <3>4. ASSUME NEW f \in DocumentId \ {d}
              PROVE  /\ current_version'[f] = current_version[f]
                     /\ current_snapshot'[f] = current_snapshot[f]
                     /\ deleted'[f] = deleted[f]
                     /\ EventsOf(f)' = EventsOf(f)
            BY <2>1, <3>1, AdvanceLog DEF Write
        <3> QED
            BY <3>2, <3>3, <3>4 DEF AppendStep
    <2>2. ASSUME UNCHANGED <<documents, document_events>>,
                 document_snapshots \subseteq document_snapshots'
          PROVE  AppendStep
        BY <2>2, QuietLog DEF documents, AppendStep
    <2>3. CASE Next
        <3>1. ASSUME NEW d \in DocumentId, NEW v, CompactSnapshot(d, v)
              PROVE  AppendStep
            BY <2>2, <3>1 DEF CompactSnapshot
        <3>2. ASSUME NEW d \in DocumentId, NEW a, LoadDocument(a, d)
              PROVE  AppendStep
            BY <2>2, <3>2 DEF LoadDocument
        <3> QED
            BY <1>1, <2>1, <2>3, <3>1, <3>2, NextIsWrite
    <2> QED
        BY <1>1, <2>3
<1> QED
    BY <1>1, LogInvariant, PTL DEF Spec, HistoryIsAppendOnly

-----------------------------------------------------------------------------
(* The store implements VersionHistory.                                    *)

\* A list given by its members, and one member more.
LEMMA AppendToList ==
    ASSUME NEW n \in Nat, NEW s, DOMAIN s = 1..n, s = [v \in 1..n |-> s[v]],
           NEW t, DOMAIN t = 1..(n + 1), t = [v \in 1..(n + 1) |-> t[v]],
           \A v \in 1..n : t[v] = s[v]
    PROVE  t = Append(s, t[n + 1])
<1> DEFINE S == {s[v] : v \in 1..n} \cup {t[n + 1]}
           u == Append(s, t[n + 1])
<1>1. s \in Seq(S) /\ t[n + 1] \in S /\ Len(s) = n
    <2>1. s \in [1..n -> S]
        OBVIOUS
    <2> HIDE DEF S
    <2>2. s \in Seq(S)
        BY <2>1
    <2>3. Len(s) = n
        BY <2>2, LenProperties
    <2> QED
        BY <2>2, <2>3 DEF S
<1>2. /\ u \in Seq(S) /\ Len(u) = n + 1
      /\ \A v \in 1..n : u[v] = s[v]
      /\ u[n + 1] = t[n + 1]
    <2> HIDE DEF S
    <2> QED
        BY <1>1, AppendProperties
<1>3. t \in Seq(S) /\ Len(t) = n + 1
    <2>1. \A v \in 1..(n + 1) : v \in 1..n \/ v = n + 1
        OBVIOUS
    <2>2. \A v \in 1..(n + 1) : t[v] \in S
        BY <2>1
    <2>3. t \in [1..(n + 1) -> S]
        <3> HIDE DEF S
        <3> QED
            BY <2>2
    <2> HIDE DEF S
    <2>4. t \in Seq(S)
        BY <2>3
    <2> QED
        BY <2>4, LenProperties
<1>4. \A v \in 1..(n + 1) : t[v] = u[v]
    <2>1. \A v \in 1..(n + 1) : v \in 1..n \/ v = n + 1
        OBVIOUS
    <2> QED
        BY <1>2, <2>1
<1> HIDE DEF S, u
<1>5. t = u
    BY <1>2, <1>3, <1>4, SeqEqual
<1> QED
    BY <1>5 DEF u

\* The history as the whole log gives it.
HistoryReplayed ==
    [d \in DocumentId |->
        [v \in 1..current_version[d] |->
            [type |-> EventAt(d, v).event_type, content |-> Replay(d, v)]]]

AsReplayed == HistoryRead = HistoryReplayed

LEMMA ReadIsReplayed == LogInv => AsReplayed
BY ReadsAreReplays DEF AsReplayed, HistoryRead, HistoryReplayed

LEMMA ReadIsReplayedNext == LogInv' => AsReplayed'
BY ReadIsReplayed, PTL

\* A write adds a version to its document's history, and to no other.
LEMMA WriteAddsVersion ==
    ASSUME LogInv, LogInv', NEW d \in DocumentId, NEW e, Write(d, e)
    PROVE  Promised!NewVersion(d, e.event_type, current_snapshot'[d])
<1> DEFINE last == current_version[d]
           version == [type |-> e.event_type, content |-> current_snapshot'[d]]
<1>1. TypeOK /\ ChainIsContiguous /\ Advance(d, e)
    BY DEF LogInv, Write
<1>2. /\ last \in Nat /\ current_version'[d] = last + 1
      /\ \A f \in DocumentId \ {d} : current_version'[f] = current_version[f]
    BY <1>1, AdvanceLog
<1>3. /\ \A v \in 1..last : EventAt(d, v)' = EventAt(d, v)
      /\ \A v : v = last + 1 => EventAt(d, v)' = e
      /\ \A f \in DocumentId \ {d} : \A v : EventAt(f, v)' = EventAt(f, v)
    BY <1>1, AdvanceLog DEF EventAt
<1>4. /\ \A v \in 0..last : Replay(d, v)' = Replay(d, v)
      /\ \A f \in DocumentId \ {d} : \A v : Replay(f, v)' = Replay(f, v)
    BY <1>1, AdvanceReplay
<1>5. \A v : v = last + 1 => Replay(d, v)' = current_snapshot'[d]
    BY <1>2 DEF LogInv, ReplayMatchesLatest, Exists, Replay
<1>6. \A f \in DocumentId \ {d} : HistoryReplayed'[f] = HistoryReplayed[f]
    BY <1>2, <1>3, <1>4 DEF HistoryReplayed
<1>7. HistoryReplayed'[d] = Append(HistoryReplayed[d], version)
    <2> DEFINE s == HistoryReplayed[d]
               t == HistoryReplayed'[d]
    <2>1. /\ DOMAIN s = 1..last /\ s = [v \in 1..last |-> s[v]]
          /\ DOMAIN t = 1..(last + 1) /\ t = [v \in 1..(last + 1) |-> t[v]]
        BY <1>2 DEF HistoryReplayed
    <2>2. \A v \in 1..last : t[v] = s[v]
        BY <1>2, <1>3, <1>4 DEF HistoryReplayed
    <2>3. t[last + 1] = version
        BY <1>2, <1>3, <1>5 DEF HistoryReplayed
    <2> HIDE DEF s, t, last
    <2>4. t = Append(s, t[last + 1])
        BY <1>2, <2>1, <2>2, AppendToList
    <2> QED
        BY <2>3, <2>4 DEF s, t
<1>8. HistoryReplayed' = [HistoryReplayed EXCEPT ![d] = Append(@, version)]
    <2> HIDE DEF version
    <2>1. /\ HistoryReplayed = [f \in DocumentId |-> HistoryReplayed[f]]
          /\ HistoryReplayed' = [f \in DocumentId |-> HistoryReplayed'[f]]
        BY DEF HistoryReplayed
    <2> QED
        BY <1>6, <1>7, <2>1
<1>9. current_snapshot' = [current_snapshot EXCEPT ![d] = current_snapshot'[d]]
    BY DEF Write, LogInv, TypeOK
<1> QED
    BY <1>8, <1>9, ReadIsReplayed, ReadIsReplayedNext DEF AsReplayed, Promised!NewVersion

\* Every transaction is the operation of its name there.
LEMMA UpdateImplements ==
    ASSUME LogInv, LogInv', NEW d \in DocumentId, NEW base \in Nat, NEW patch, Active(d),
           ApplyDocumentPatch(d, base, patch)
    PROVE  \E content \in Content : Promised!Update(d, content)
<1> DEFINE content == Patched(current_snapshot[d], patch)
<1>1. PICK e : Write(d, e) /\ e.event_type = "update"
    BY PatchIsWrite
<1>2. /\ current_snapshot[d] \in Content /\ content \in Content
      /\ current_snapshot'[d] = content /\ ~Same(content, current_snapshot[d])
      /\ UNCHANGED deleted
    BY DEF ApplyDocumentPatch, Active, LogInv, TypeOK
<1> HIDE DEF content
<1>3. content # current_snapshot[d]
    BY <1>2, ContentAssumption
<1>4. Promised!NewVersion(d, "update", content)
    BY <1>1, <1>2, WriteAddsVersion
<1>5. Promised!Update(d, content)
    BY <1>2, <1>3, <1>4, ContentAssumption DEF Active, Promised!Update, Promised!Active, Promised!Exists
<1> QED
    BY <1>2, <1>5

LEMMA CreateImplements ==
    ASSUME LogInv, LogInv', NEW a, NEW d \in DocumentId, NEW p \in Path,
           NEW schema \in SchemaId \cup {NoSchema}, NEW content \in Content,
           CreateDocument(a, d, p, schema, content)
    PROVE  Promised!Create(d, content)
<1>1. PICK e : Write(d, e) /\ e.event_type = "create"
    BY CreateIsWrite
<1>2. current_snapshot'[d] = content /\ current_snapshot[d] = None /\ UNCHANGED deleted
    BY DEF CreateDocument, LogInv, TypeOK, UnusedAreClean
<1>3. Promised!NewVersion(d, "create", content)
    BY <1>1, <1>2, WriteAddsVersion
<1> QED
    BY <1>2, <1>3 DEF Promised!Create, Promised!Exists

LEMMA DeleteImplements ==
    ASSUME LogInv, LogInv', NEW a, NEW d \in DocumentId, NEW base \in Nat,
           DeleteDocument(a, d, base)
    PROVE  Promised!Delete(d)
<1>1. PICK e : Write(d, e) /\ e.event_type = "delete"
    BY DeleteIsWrite
<1>2. /\ current_snapshot[d] \in Content /\ current_snapshot'[d] = current_snapshot[d]
      /\ ~deleted[d] /\ deleted' = [deleted EXCEPT ![d] = TRUE]
    BY DEF DeleteDocument, Active, LogInv, TypeOK
<1>3. Promised!NewVersion(d, "delete", current_snapshot[d])
    BY <1>1, <1>2, WriteAddsVersion
<1> QED
    BY <1>2, <1>3, ContentAssumption DEF Promised!Delete, Promised!Active, Promised!Exists

LEMMA RestoreImplements ==
    ASSUME LogInv, LogInv', NEW a, NEW d \in DocumentId, NEW base \in Nat,
           RestoreDocument(a, d, base)
    PROVE  Promised!Restore(d)
<1>1. PICK e : Write(d, e) /\ e.event_type = "restore"
    BY RestoreIsWrite
<1>2. /\ current_snapshot[d] \in Content /\ current_snapshot'[d] = current_snapshot[d]
      /\ deleted[d] /\ deleted' = [deleted EXCEPT ![d] = FALSE]
    BY DEF RestoreDocument, LogInv, TypeOK
<1>3. Promised!NewVersion(d, "restore", current_snapshot[d])
    BY <1>1, <1>2, WriteAddsVersion
<1> QED
    BY <1>2, <1>3, ContentAssumption DEF Promised!Restore, Promised!Exists

LEMMA RollbackImplements ==
    ASSUME LogInv, LogInv', NEW a, NEW d \in DocumentId, NEW base \in Nat, NEW target \in Nat,
           RollbackDocument(a, d, base, target)
    PROVE  \E v \in DOMAIN HistoryRead[d] : Promised!Rollback(d, v)
<1>1. PICK e : Write(d, e) /\ e.event_type = "rollback"
    BY RollbackIsWrite
<1>2. /\ current_snapshot[d] \in Content /\ current_snapshot'[d] = Replay(d, target)
      /\ Active(d) /\ UNCHANGED deleted
      /\ current_version[d] \in Nat /\ target \in 1..(current_version[d] - 1)
    BY BoundAssumption DEF RollbackDocument, Active, LogInv, TypeOK
<1>3. target \in 1..current_version[d] /\ target + 1 \in 1..current_version[d]
    BY <1>2
<1>4. /\ DOMAIN HistoryRead[d] = 1..current_version[d]
      /\ HistoryRead[d][target].content = Replay(d, target)
    BY <1>3, ReadsAreReplays DEF HistoryRead
<1>5. Promised!NewVersion(d, "rollback", HistoryRead[d][target].content)
    BY <1>1, <1>2, <1>4, WriteAddsVersion
<1>6. Promised!Rollback(d, target)
    BY <1>2, <1>3, <1>4, <1>5, ContentAssumption
    DEF Active, Promised!Rollback, Promised!Active, Promised!Exists
<1> QED
    BY <1>3, <1>4, <1>6

\* Compaction and loads change nothing that VersionHistory speaks of.
LEMMA QuietImplements ==
    ASSUME LogInv, LogInv', UNCHANGED <<documents, document_events>>
    PROVE  UNCHANGED Promised!vars
<1>1. HistoryReplayed' = HistoryReplayed
    BY QuietLog DEF HistoryReplayed, documents
<1> QED
    BY <1>1, ReadIsReplayed, ReadIsReplayedNext DEF AsReplayed, Promised!vars, documents

\* Every behaviour of the store is one of VersionHistory: what a reader gets for a version
\* number, also from a compacted snapshot, never changes, and every transaction adds one
\* version to one document (replay_events, reconstruct_document_at_version_with_compaction).
THEOREM StoreKeepsHistory == Spec => KeepsHistory
<1>1. Init => Promised!Init
    BY DEF Init, Promised!Init, HistoryRead
<1>2. ASSUME LogInv, LogInv', [Next]_vars
      PROVE  [Promised!Next]_(Promised!vars)
    <2>1. CASE UNCHANGED vars
        BY <1>2, <2>1, QuietImplements DEF vars
    <2>2. ASSUME NEW d \in DocumentId, NEW v, CompactSnapshot(d, v)
          PROVE  UNCHANGED Promised!vars
        BY <1>2, <2>2, QuietImplements DEF CompactSnapshot
    <2>3. ASSUME NEW d \in DocumentId, NEW a, LoadDocument(a, d)
          PROVE  UNCHANGED Promised!vars
        BY <1>2, <2>3, QuietImplements DEF LoadDocument
    <2>4. ASSUME NEW d \in DocumentId, NEW a, NEW p \in Path, NEW content \in Content,
                 NEW schema \in SchemaId \cup {NoSchema},
                 CreateDocument(a, d, p, schema, content)
          PROVE  Promised!Next
        BY <1>2, <2>4, CreateImplements DEF Promised!Next
    <2>5. ASSUME NEW d \in DocumentId, NEW base \in Nat, NEW patch, Active(d),
                 ApplyDocumentPatch(d, base, patch)
          PROVE  Promised!Next
        BY <1>2, <2>5, UpdateImplements DEF Promised!Next
    <2>6. ASSUME NEW d \in DocumentId, NEW a, NEW base \in Nat, DeleteDocument(a, d, base)
          PROVE  Promised!Next
        BY <1>2, <2>6, DeleteImplements DEF Promised!Next
    <2>7. ASSUME NEW d \in DocumentId, NEW a, NEW base \in Nat, RestoreDocument(a, d, base)
          PROVE  Promised!Next
        BY <1>2, <2>7, RestoreImplements DEF Promised!Next
    <2>8. ASSUME NEW d \in DocumentId, NEW a, NEW base \in Nat, NEW target \in Nat,
                 RollbackDocument(a, d, base, target)
          PROVE  Promised!Next
        BY <1>2, <2>8, RollbackImplements DEF Promised!Next
    <2>9. CASE Next
        <3>1. PICK d \in DocumentId :
                \/ \E v \in 1..MaxVersion : CompactSnapshot(d, v)
                \/ \E a \in Actor :
                    \/ LoadDocument(a, d)
                    \/ \E p \in Path, schema \in SchemaId \cup {NoSchema}, content \in Content :
                            CreateDocument(a, d, p, schema, content)
                    \/ \E base \in 1..MaxVersion :
                        \/ \E patch \in Patches : PatchDocument(a, d, base, patch)
                        \/ \E content \in Content : UpdateContent(a, d, base, content)
                        \/ \E content \in Content : UpdateContentAuto(a, d, base, content)
                        \/ DeleteDocument(a, d, base)
                        \/ RestoreDocument(a, d, base)
                        \/ \E target \in 1..MaxVersion : RollbackDocument(a, d, base, target)
            BY <2>9 DEF Next
        <3>2. 1..MaxVersion \subseteq Nat /\ current_version[d] \in Nat
            BY <1>2, BoundAssumption DEF LogInv, TypeOK
        <3>3. ASSUME NEW a, NEW base \in Nat, NEW patch, PatchDocument(a, d, base, patch)
              PROVE  Promised!Next
            BY <2>5, <3>3 DEF PatchDocument
        <3>4. ASSUME NEW a, NEW base \in Nat, NEW content, UpdateContent(a, d, base, content)
              PROVE  Promised!Next
            BY <2>5, <3>4 DEF UpdateContent
        <3>5. ASSUME NEW a, NEW base, NEW content, UpdateContentAuto(a, d, base, content)
              PROVE  Promised!Next
            BY <2>5, <3>2, <3>5 DEF UpdateContentAuto
        <3> QED
            BY <2>2, <2>3, <2>4, <2>6, <2>7, <2>8, <3>1, <3>2, <3>3, <3>4, <3>5
    <2> QED
        BY <1>2, <2>1, <2>9
<1> QED
    BY <1>1, <1>2, LogInvariant, PTL DEF Spec, KeepsHistory, Promised!Spec

-----------------------------------------------------------------------------
(* The usage limits.  They hold because every write that makes a document  *)
(* active or larger was allowed the sum it leads to: the sum of the other  *)
(* active documents and the size of its content.                           *)

\* Only finitely many ids are ever drawn, so there is a sum.
UsageInv == IsFiniteSet(ActiveDocuments) /\ WithinUsageLimits

Sizes(snapshots) == [d \in DocumentId |-> Size(snapshots[d])]

\* The bytes that the usage check adds up, by document.
LEMMA BytesIsTotal ==
    ASSUME NEW snapshots, NEW S \in SUBSET DocumentId, IsFiniteSet(S)
    PROVE  Bytes(snapshots, S) = Total(Sizes(snapshots), S)
<1> DEFINE IsTable(h) == h = [s \in SUBSET S |->
                IF s = {} THEN 0 ELSE Size(snapshots[CHOOSE x \in s : TRUE])
                                      + h[s \ {CHOOSE x \in s : TRUE}]]
           table == CHOOSE h : IsTable(h)
<1>1. Bytes(snapshots, S) = table[S]
    BY DEF Bytes, MapThenSumSet, MapThenFoldSet
<1>2. ASSUME NEW h
      PROVE  IsTable(h) <=> IsSum(h, Sizes(snapshots), S)
    <2>1. ASSUME NEW s \in SUBSET S
          PROVE  Step(h, Sizes(snapshots), s) =
                    IF s = {} THEN 0 ELSE Size(snapshots[CHOOSE x \in s : TRUE])
                                          + h[s \ {CHOOSE x \in s : TRUE}]
        BY DEF Step, Sizes, Picked
    <2> QED
        BY <2>1 DEF IsSum
<1>3. \E h : IsTable(h)
    <2>1. PICK h : IsSum(h, Sizes(snapshots), S)
        BY SumTableExists
    <2> HIDE DEF IsTable
    <2> QED
        BY <1>2, <2>1
<1>4. IsSum(table, Sizes(snapshots), S)
    <2>1. IsTable(table)
        BY <1>3
    <2> HIDE DEF IsTable, table
    <2> QED
        BY <1>2, <2>1
<1> HIDE DEF table
<1> QED
    BY <1>1, <1>4, TotalIsTable

\* A write that puts the content at d, active before or not, as the check allowed it.
Spends(d, content) ==
    /\ content \in Content
    /\ UsageAllows(ActiveDocuments \cap {d}, content, IF d \in ActiveDocuments THEN 0 ELSE 1)
    /\ ActiveDocuments' = ActiveDocuments \cup {d}
    /\ current_snapshot'[d] = content
    /\ \A f \in DocumentId \ {d} : current_snapshot'[f] = current_snapshot[f]

\* Nothing becomes active, and what stays active stays as it is.
SpendsNothing ==
    /\ ActiveDocuments' \subseteq ActiveDocuments
    /\ \A f \in ActiveDocuments' : current_snapshot'[f] = current_snapshot[f]

LEMMA SpendingKeeps ==
    ASSUME TypeOK, TypeOK', UsageInv, NEW d \in DocumentId, NEW content, Spends(d, content)
    PROVE  UsageInv'
<1> DEFINE others == ActiveDocuments \ {d}
           before == Sizes(current_snapshot)
           after == Sizes(current_snapshot')
<1>1. IsFiniteSet(ActiveDocuments) /\ IsFiniteSet(ActiveDocuments')
    BY FS_AddElement DEF UsageInv, Spends
<1>2. others \subseteq ActiveDocuments /\ others \subseteq ActiveDocuments'
    BY DEF Spends
<1>3. Cardinality(ActiveDocuments)' <= MaxDocuments
    BY <1>1, FS_AddElement, FS_CardinalityType DEF Spends, UsageAllows, UsageInv
<1>4. Total(before, others) + Size(content) <= MaxBytes /\ Total(before, others) \in Nat
    <2>1. ActiveDocuments \ (ActiveDocuments \cap {d}) = others
        OBVIOUS
    <2> HIDE DEF others
    <2>2. Bytes(current_snapshot, others) + Size(content) <= MaxBytes
        BY <2>1 DEF Spends, UsageAllows
    <2>3. others \in SUBSET DocumentId /\ IsFiniteSet(others)
        BY <1>1, <1>2, FS_Subset DEF ActiveDocuments
    <2>4. \A f \in others : before[f] \in Nat
        BY <1>2, ContentAssumption DEF ActiveDocuments, Active, TypeOK, Sizes
    <2> QED
        BY <2>2, <2>3, <2>4, BytesIsTotal, TotalNat
<1>5. /\ after[d] = Size(content)
      /\ \A f \in others : after[f] = before[f]
    BY <1>2 DEF Sizes, Spends, ActiveDocuments
<1>6. Total(after, others) = Total(before, others)
    BY <1>1, <1>2, <1>5, TotalSame, FS_Subset
<1>7. Total(after, ActiveDocuments') = after[d] + Total(after, others)
    <2>1. IsFiniteSet(others) /\ d \notin others /\ ActiveDocuments' = others \cup {d}
        BY <1>1, <1>2, FS_Subset DEF Spends
    <2>2. \A f \in others \cup {d} : after[f] \in Nat
        BY <2>1 , ContentAssumption DEF ActiveDocuments, Active, TypeOK, Sizes, Exists
    <2> HIDE DEF others
    <2> QED
        BY <2>1, <2>2, TotalAdd
<1>8. Bytes(current_snapshot', ActiveDocuments') = Total(after, ActiveDocuments')
    <2>1. ActiveDocuments' \in SUBSET DocumentId
        BY DEF ActiveDocuments
    <2> QED
        BY <1>1, <2>1, BytesIsTotal
<1>9. Bytes(current_snapshot', ActiveDocuments') <= MaxBytes
    <2>1. Size(content) \in Nat /\ MaxBytes \in Nat
        BY ContentAssumption, BoundAssumption DEF Spends
    <2> DEFINE rest == Total(before, others)
    <2>2. Bytes(current_snapshot', ActiveDocuments') = Size(content) + rest
        BY <1>5, <1>6, <1>7, <1>8
    <2>3. rest + Size(content) <= MaxBytes /\ rest \in Nat
        BY <1>4
    <2> HIDE DEF rest
    <2> QED
        BY <2>1, <2>2, <2>3
<1> QED
    BY <1>1, <1>3, <1>9 DEF UsageInv, WithinUsageLimits

LEMMA SpendingNothingKeeps ==
    ASSUME TypeOK, TypeOK', UsageInv, SpendsNothing
    PROVE  UsageInv'
<1> DEFINE before == Sizes(current_snapshot)
           after == Sizes(current_snapshot')
<1>1. /\ IsFiniteSet(ActiveDocuments) /\ IsFiniteSet(ActiveDocuments')
      /\ Cardinality(ActiveDocuments') <= Cardinality(ActiveDocuments)
    BY FS_Subset DEF UsageInv, SpendsNothing
<1>2. ActiveDocuments \in SUBSET DocumentId /\ ActiveDocuments' \in SUBSET ActiveDocuments
    BY DEF ActiveDocuments, SpendsNothing
<1>3. Total(after, ActiveDocuments') = Total(before, ActiveDocuments')
    <2>1. \A f \in ActiveDocuments' : after[f] = before[f]
        BY <1>2 DEF Sizes, SpendsNothing
    <2> HIDE DEF before, after
    <2> QED
        BY <1>1, <2>1, TotalSame
<1>4. Total(before, ActiveDocuments') <= Total(before, ActiveDocuments)
    <2>1. \A f \in ActiveDocuments : before[f] \in Nat
        BY ContentAssumption DEF ActiveDocuments, Active, TypeOK, Sizes
    <2> HIDE DEF before
    <2> QED
        BY <1>1, <1>2, <2>1, TotalMonotone
<1>5. /\ Bytes(current_snapshot, ActiveDocuments) = Total(before, ActiveDocuments)
      /\ Bytes(current_snapshot', ActiveDocuments') = Total(after, ActiveDocuments')
    BY <1>1, <1>2, BytesIsTotal
<1>6. /\ Total(before, ActiveDocuments) \in Nat /\ Total(before, ActiveDocuments') \in Nat
      /\ Cardinality(ActiveDocuments) \in Nat /\ Cardinality(ActiveDocuments') \in Nat
    <2>1. \A f \in ActiveDocuments : before[f] \in Nat
        BY ContentAssumption DEF ActiveDocuments, Active, TypeOK, Sizes
    <2> HIDE DEF before
    <2> QED
        BY <1>1, <1>2, <2>1, TotalNat, FS_CardinalityType
<1>7. Bytes(current_snapshot', ActiveDocuments') <= MaxBytes
    <2> DEFINE sum == Total(before, ActiveDocuments)
               left == Total(before, ActiveDocuments')
    <2>1. sum <= MaxBytes /\ left <= sum /\ sum \in Nat /\ left \in Nat
        BY <1>4, <1>5, <1>6 DEF UsageInv, WithinUsageLimits
    <2>2. Bytes(current_snapshot', ActiveDocuments') = left
        BY <1>3, <1>5
    <2> HIDE DEF sum, left
    <2> QED
        BY <2>1, <2>2, BoundAssumption
<1> QED
    BY <1>1, <1>6, <1>7, BoundAssumption DEF UsageInv, WithinUsageLimits

\* A document is created under an id that is not active.
LEMMA CreateSpends ==
    ASSUME TypeOK, UnusedAreClean, NEW d \in DocumentId, NEW a, NEW p, NEW schema,
           NEW content \in Content, CreateDocument(a, d, p, schema, content)
    PROVE  Spends(d, content)
<1>1. ~deleted[d]
    BY DEF UnusedAreClean, CreateDocument
<1>2. d \notin ActiveDocuments /\ ActiveDocuments \cap {d} = {}
    BY DEF CreateDocument, ActiveDocuments, Active
<1>3. ActiveDocuments' = ActiveDocuments \cup {d}
    BY <1>1 DEF CreateDocument, ActiveDocuments, Active, Exists, TypeOK
<1>4. /\ current_snapshot'[d] = content
      /\ \A f \in DocumentId \ {d} : current_snapshot'[f] = current_snapshot[f]
    BY DEF CreateDocument, TypeOK
<1> QED
    BY <1>2, <1>3, <1>4 DEF Spends, CreateDocument

\* What an update and a rollback have in common: d stays active, with another content.
LEMMA RewriteSpends ==
    ASSUME TypeOK, NEW d \in DocumentId, NEW base, NEW content \in Content,
           Active(d), base = current_version[d],
           UsageAllows({d}, content, 0),
           current_snapshot' = [current_snapshot EXCEPT ![d] = content],
           current_version' = [current_version EXCEPT ![d] = base + 1],
           UNCHANGED deleted
    PROVE  Spends(d, content)
<1>1. d \in ActiveDocuments /\ ActiveDocuments \cap {d} = {d}
    BY DEF ActiveDocuments
<1>2. ActiveDocuments' = ActiveDocuments \cup {d}
    BY DEF ActiveDocuments, Active, Exists, TypeOK
<1>3. /\ current_snapshot'[d] = content
      /\ \A f \in DocumentId \ {d} : current_snapshot'[f] = current_snapshot[f]
    BY DEF TypeOK
<1> QED
    BY <1>1, <1>2, <1>3 DEF Spends

LEMMA UpdateSpends ==
    ASSUME TypeOK, NEW d \in DocumentId, NEW base, NEW patch,
           Active(d), ApplyDocumentPatch(d, base, patch)
    PROVE  \E content : Spends(d, content)
BY RewriteSpends DEF ApplyDocumentPatch

LEMMA RollbackSpends ==
    ASSUME TypeOK, NEW d \in DocumentId, NEW a, NEW base, NEW target,
           RollbackDocument(a, d, base, target)
    PROVE  \E content : Spends(d, content)
BY RewriteSpends DEF RollbackDocument

\* A restored document counts again.
LEMMA RestoreSpends ==
    ASSUME TypeOK, NEW d \in DocumentId, NEW a, NEW base, RestoreDocument(a, d, base)
    PROVE  Spends(d, current_snapshot[d])
<1>1. d \notin ActiveDocuments /\ ActiveDocuments \cap {d} = {}
    BY DEF RestoreDocument, ActiveDocuments, Active
<1>2. ActiveDocuments' = ActiveDocuments \cup {d}
    BY DEF RestoreDocument, ActiveDocuments, Active, Exists, TypeOK
<1>3. current_snapshot[d] \in Content /\ current_snapshot' = current_snapshot
    BY DEF RestoreDocument, TypeOK
<1> QED
    BY <1>1, <1>2, <1>3 DEF Spends, RestoreDocument

\* The live documents are within the limits after any history of creates, updates,
\* merges, rollbacks, deletes and restores.
THEOREM WithinUsageLimitsHolds == Spec => []WithinUsageLimits
<1>1. Init => UsageInv
    <2> SUFFICES ASSUME Init PROVE UsageInv
        OBVIOUS
    <2>1. ActiveDocuments = {}
        BY DEF Init, ActiveDocuments, Active, Exists
    <2>2. Bytes(current_snapshot, {}) = 0
        BY FS_EmptySet, BytesIsTotal, TotalEmpty
    <2> QED
        BY <2>1, <2>2, FS_EmptySet, BoundAssumption DEF UsageInv, WithinUsageLimits
<1>2. ASSUME LogInv, LogInv', UsageInv, [Next]_vars
      PROVE  UsageInv'
    <2>0. TypeOK /\ TypeOK' /\ UnusedAreClean
        BY <1>2 DEF LogInv
    <2>1. CASE UNCHANGED vars
        <3> SpendsNothing
            BY <2>1 DEF vars, documents, SpendsNothing, ActiveDocuments, Active, Exists
        <3> QED
            BY <1>2, <2>0, SpendingNothingKeeps
    <2>2. CASE Next
        <3>1. PICK d \in DocumentId :
                \/ \E v \in 1..MaxVersion : CompactSnapshot(d, v)
                \/ \E a \in Actor :
                    \/ LoadDocument(a, d)
                    \/ \E p \in Path, schema \in SchemaId \cup {NoSchema}, content \in Content :
                            CreateDocument(a, d, p, schema, content)
                    \/ \E base \in 1..MaxVersion :
                        \/ \E patch \in Patches : PatchDocument(a, d, base, patch)
                        \/ \E content \in Content : UpdateContent(a, d, base, content)
                        \/ \E content \in Content : UpdateContentAuto(a, d, base, content)
                        \/ DeleteDocument(a, d, base)
                        \/ RestoreDocument(a, d, base)
                        \/ \E target \in 1..MaxVersion : RollbackDocument(a, d, base, target)
            BY <2>2 DEF Next
        <3>2. ASSUME NEW content, Spends(d, content)
              PROVE  UsageInv'
            BY <1>2, <2>0, <3>2, SpendingKeeps
        <3>3. ASSUME NEW v, CompactSnapshot(d, v)
              PROVE  SpendsNothing
            BY <3>3 DEF CompactSnapshot, documents, SpendsNothing, ActiveDocuments, Active, Exists
        <3>4. ASSUME NEW a, LoadDocument(a, d)
              PROVE  SpendsNothing
            BY <3>4 DEF LoadDocument, documents, SpendsNothing, ActiveDocuments, Active, Exists
        <3>5. ASSUME NEW a, NEW base \in 1..MaxVersion, DeleteDocument(a, d, base)
              PROVE  SpendsNothing
            BY <2>0, <3>5
            DEF DeleteDocument, SpendsNothing, ActiveDocuments, Active, Exists, TypeOK
        <3>6. ASSUME NEW a \in Actor, NEW base \in 1..MaxVersion,
                     \/ \E patch \in Patches : PatchDocument(a, d, base, patch)
                     \/ \E content \in Content : UpdateContent(a, d, base, content)
                     \/ \E content \in Content : UpdateContentAuto(a, d, base, content)
              PROVE  Active(d) /\ \E b, patch : ApplyDocumentPatch(d, b, patch)
            BY <3>6 DEF PatchDocument, UpdateContent, UpdateContentAuto
        <3> QED
            BY <1>2, <2>0, <3>1, <3>2, <3>3, <3>4, <3>5, <3>6, SpendingNothingKeeps,
               CreateSpends, UpdateSpends, RestoreSpends, RollbackSpends
    <2> QED
        BY <1>2, <2>1, <2>2
<1>3. UsageInv => WithinUsageLimits
    BY DEF UsageInv
<1> QED
    BY <1>1, <1>2, <1>3, LogInvariant, PTL DEF Spec

-----------------------------------------------------------------------------
(* The backups of the database.                                            *)

Phases == {"copying", "copied", "written", "pruning", "done", "failed"}

Contents == {"sound", "damaged", "empty"}

Run == [ phase : Phases, file : {"absent", "partial", "whole"}, mtime : Nat,
         manifest : {"none", "whole", "torn"}, holds : Contents, doomed : SUBSET Nat,
         began : Nat, beside : SUBSET Nat ]

Restores == [phase : {"verified", "unlinked"}, source : DOMAIN backups, holds : Contents]

BackupTypeOK ==
    /\ encrypt \in BOOLEAN
    /\ db \in Contents \cup {"absent"}
    /\ clock \in Nat
    /\ backups \in Seq(Run)
    /\ restore \in Restores \cup {NoRestore}

\* A run begins before its file is written, beside runs that there are.
Timed ==
    \A i \in DOMAIN backups :
        /\ backups[i].began <= backups[i].mtime /\ backups[i].mtime <= clock
        /\ backups[i].beside \in SUBSET DOMAIN backups

\* As many other runs as are kept have come after it or beside it.
Crowded(i) == Cardinality(Rivals(i)) >= KeepCount

\* Whoever can still prune is counted.
PrunersAreRivals ==
    \A i, r \in DOMAIN backups : i # r /\ UnderWay(r) => r \in Rivals(i)

\* Only what is crowded is marked for deletion.
DoomedAreCrowded ==
    \A r \in DOMAIN backups : backups[r].doomed \subseteq {i \in DOMAIN backups : Crowded(i)}

\* The run has the file that it has made so far.
FileKept(i) ==
    /\ backups[i].phase = "copying" /\ ~encrypt => Present(i)
    /\ backups[i].phase = "copied" /\ ~encrypt => backups[i].file = "whole"
    /\ backups[i].phase \in {"written", "pruning", "done"} => backups[i].file = "whole"
    /\ backups[i].phase = "done" => backups[i].manifest = "whole"

KeptOrCrowded == \A i \in DOMAIN backups : Crowded(i) \/ FileKept(i)

BackupInv ==
    /\ BackupTypeOK /\ Timed
    /\ PrunersAreRivals /\ DoomedAreCrowded /\ KeptOrCrowded

-----------------------------------------------------------------------------
(* Counting runs                                                           *)

LEMMA FiniteDomain ==
    ASSUME backups \in Seq(Run), NEW S \in SUBSET DOMAIN backups
    PROVE  IsFiniteSet(S) /\ Cardinality(S) \in Nat
<1>1. Len(backups) \in Nat /\ DOMAIN backups = 1..Len(backups)
  OBVIOUS
<1>2. IsFiniteSet(1..Len(backups))
  BY <1>1, FS_Interval
<1>3. IsFiniteSet(S)
  BY <1>1, <1>2, FS_Subset
<1> QED BY <1>3, FS_CardinalityType

\* What is crowded stays so when only more rivals come.
LEMMA CrowdedStays ==
    ASSUME backups' \in Seq(Run), NEW i,
           Rivals(i) \subseteq Rivals(i)', Rivals(i)' \subseteq DOMAIN backups', Crowded(i)
    PROVE  Crowded(i)'
<1>1. IsFiniteSet(Rivals(i)') /\ Cardinality(Rivals(i)') \in Nat
  <2>1. \A S \in SUBSET DOMAIN backups' : IsFiniteSet(S) /\ Cardinality(S) \in Nat
    <3>1. Len(backups') \in Nat /\ DOMAIN backups' = 1..Len(backups')
      OBVIOUS
    <3>2. IsFiniteSet(1..Len(backups'))
      BY <3>1, FS_Interval
    <3> QED BY <3>1, <3>2, FS_Subset, FS_CardinalityType
  <2> QED BY <2>1
<1>2. IsFiniteSet(Rivals(i)) /\ Cardinality(Rivals(i)) <= Cardinality(Rivals(i)')
  BY <1>1, FS_Subset
<1>3. Cardinality(Rivals(i)) \in Nat
  BY <1>2, FS_CardinalityType
<1> QED BY <1>1, <1>2, <1>3, BackupsAssumption DEF Crowded

\* Among some runs, one is the oldest.
LEMMA OldestIsOne ==
    ASSUME backups \in Seq(Run), NEW S \in SUBSET DOMAIN backups, S # {}
    PROVE  Oldest(S) \in S
<1> DEFINE times == {backups[i].mtime : i \in S}
<1>1. \A i \in S : backups[i] \in Run
  OBVIOUS
<1>2. times \subseteq Nat /\ times # {}
  BY <1>1 DEF Run
<1> HIDE DEF times
<1>3. PICK t \in times : \A u \in times : ~(<<u, t>> \in OpToRel(<, Nat))
  BY <1>2, WFMin, NatLessThanWellFounded
<1>4. \A u \in times : t <= u
  <2> TAKE u \in times
  <2>1. t \in Nat /\ u \in Nat
    BY <1>2
  <2>2. ~(u < t)
    BY <1>3, <2>1 DEF OpToRel
  <2> QED BY <2>1, <2>2
<1>5. \E i \in S : \A j \in S : backups[i].mtime <= backups[j].mtime
  BY <1>4 DEF times
<1> QED BY <1>5 DEF Oldest

\* What _prune_old_backups picks has KeepCount rivals: the files later than it, and the
\* run that picks.
LEMMA ToDeleteIsCrowded ==
    ASSUME BackupInv, NEW r \in DOMAIN backups, UnderWay(r), Present(r),
           NEW i \in ToDelete(r)
    PROVE  i \in DOMAIN backups /\ Crowded(i)
<1> DEFINE later == {j \in Others(r) : Present(j) /\ backups[j].mtime > backups[i].mtime}
<1>1. i \in DOMAIN backups /\ i # r /\ Cardinality(later) + 1 >= KeepCount
  BY DEF ToDelete, Others
<1>2. \A j \in DOMAIN backups : backups[j] \in Run
  BY DEF BackupInv, BackupTypeOK
<1>3. later \subseteq Rivals(i)
  BY <1>1, <1>2 DEF BackupInv, Timed, Rivals, Others, Run
<1>4. r \in Rivals(i) /\ r \notin later
  BY <1>1 DEF BackupInv, PrunersAreRivals, Others
<1>5. Rivals(i) \subseteq DOMAIN backups
  BY <1>1 DEF BackupInv, Timed, Rivals, Others
<1>6. IsFiniteSet(later) /\ Cardinality(later) \in Nat
  BY FiniteDomain DEF BackupInv, BackupTypeOK, Others
<1>7. IsFiniteSet(Rivals(i)) /\ Cardinality(Rivals(i)) \in Nat
  BY <1>5, FiniteDomain DEF BackupInv, BackupTypeOK
<1>8. Cardinality(later \cup {r}) = Cardinality(later) + 1
  BY <1>4, <1>6, FS_AddElement
<1>9. Cardinality(later \cup {r}) <= Cardinality(Rivals(i))
  BY <1>3, <1>4, <1>7, FS_Subset
<1> QED BY <1>1, <1>6, <1>7, <1>8, <1>9, BackupsAssumption DEF Crowded

-----------------------------------------------------------------------------
(* Steps that change runs there are                                        *)

\* What any step but Begin does to run i.
RunStep(i) ==
    /\ backups'[i].began = backups[i].began /\ backups'[i].beside = backups[i].beside
    /\ backups[i].mtime <= backups'[i].mtime /\ backups'[i].mtime <= clock'
    /\ UnderWay(i)' => UnderWay(i)
    /\ backups'[i].doomed \subseteq {j \in DOMAIN backups : Crowded(j)}
    /\ Crowded(i) \/ FileKept(i)'

LEMMA RunSteps ==
    ASSUME BackupInv, BackupTypeOK', DOMAIN backups' = DOMAIN backups,
           \A i \in DOMAIN backups : RunStep(i)
    PROVE  BackupInv'
<1>1. \A i \in DOMAIN backups : backups[i] \in Run /\ backups'[i] \in Run
  BY DEF BackupInv, BackupTypeOK
<1>2. Timed'
  BY <1>1 DEF BackupInv, Timed, RunStep, Run
<1>3. \A i \in DOMAIN backups : Rivals(i) \subseteq Rivals(i)'
  BY <1>1 DEF Rivals, Others, RunStep, Run
<1>4. \A i \in DOMAIN backups : Rivals(i)' \subseteq DOMAIN backups'
  BY <1>2 DEF Timed, Rivals, Others
<1>5. \A i \in DOMAIN backups : Crowded(i) => Crowded(i)'
  BY <1>3, <1>4, CrowdedStays DEF BackupTypeOK
<1>6. PrunersAreRivals'
  BY <1>3 DEF BackupInv, PrunersAreRivals, RunStep
<1>7. DoomedAreCrowded'
  BY <1>5 DEF DoomedAreCrowded, RunStep
<1>8. KeptOrCrowded'
  BY <1>5 DEF KeptOrCrowded, RunStep
<1> QED BY <1>2, <1>6, <1>7, <1>8 DEF BackupInv

\* A step that changes no run.
LEMMA RunsUnchanged ==
    ASSUME BackupInv, BackupTypeOK', encrypt' = encrypt, clock' = clock, backups' = backups
    PROVE  BackupInv'
<1>1. \A i \in DOMAIN backups : backups[i] \in Run
  BY DEF BackupInv, BackupTypeOK
<1>2. \A i \in DOMAIN backups : RunStep(i)
  BY <1>1 DEF BackupInv, Timed, DoomedAreCrowded, KeptOrCrowded, FileKept, Present, UnderWay,
              RunStep, Run
<1> QED BY <1>2, RunSteps

\* A step that changes one run.
LEMMA RunUpdated ==
    ASSUME BackupInv, NEW r \in DOMAIN backups, NEW x \in Run,
           backups' = [backups EXCEPT ![r] = x], encrypt' = encrypt,
           db' \in Contents \cup {"absent"}, restore' = restore \/ restore' = NoRestore,
           clock' \in Nat, clock <= clock', RunStep(r)
    PROVE  BackupInv'
<1>1. backups \in Seq(Run)
  BY DEF BackupInv, BackupTypeOK
<1>2. backups' \in Seq(Run) /\ DOMAIN backups' = DOMAIN backups
  BY <1>1
<1>3. BackupTypeOK'
  BY <1>2 DEF BackupInv, BackupTypeOK, Restores
<1>4. ASSUME NEW i \in DOMAIN backups, i # r PROVE RunStep(i)
  <2>1. backups'[i] = backups[i] /\ backups[i] \in Run /\ clock \in Nat
    BY <1>1, <1>4 DEF BackupInv, BackupTypeOK
  <2>2. backups[i].mtime \in Nat /\ backups[i].mtime <= clock
    BY <2>1 DEF BackupInv, Timed, Run
  <2>3. Crowded(i) \/ FileKept(i)'
    BY <2>1 DEF BackupInv, KeptOrCrowded, FileKept, Present
  <2>4. backups'[i].doomed \subseteq {j \in DOMAIN backups : Crowded(j)}
    BY <2>1 DEF BackupInv, DoomedAreCrowded
  <2> QED BY <2>1, <2>2, <2>3, <2>4 DEF UnderWay, RunStep
<1> QED BY <1>2, <1>3, <1>4, RunSteps

-----------------------------------------------------------------------------
(* The steps                                                               *)

LEMMA BackupInvInit == BackupInit => BackupInv
<1> SUFFICES ASSUME BackupInit PROVE BackupInv
  OBVIOUS
<1>1. backups = << >> /\ DOMAIN backups = {}
  BY DEF BackupInit
<1> QED BY <1>1 DEF BackupInit, BackupInv, BackupTypeOK, Timed, PrunersAreRivals,
                    DoomedAreCrowded, KeptOrCrowded, Contents

\* A new run counts for those there are; those under way are beside it.
LEMMA BeginKeeps == BackupInv /\ Begin => BackupInv'
<1> SUFFICES ASSUME BackupInv, Begin PROVE BackupInv'
  OBVIOUS
<1> DEFINE n == Len(backups) + 1
           x == [ phase |-> "copying", file |-> IF encrypt THEN "absent" ELSE "partial",
                  mtime |-> clock + 1, manifest |-> "none", holds |-> "empty", doomed |-> {},
                  began |-> clock + 1, beside |-> {i \in DOMAIN backups : UnderWay(i)} ]
<1>1. /\ backups \in Seq(Run) /\ Len(backups) \in Nat /\ DOMAIN backups = 1..Len(backups)
      /\ clock \in Nat /\ clock' = clock + 1 /\ encrypt' = encrypt
  BY DEF BackupInv, BackupTypeOK, Begin
<1>2. x \in Run
  BY <1>1 DEF Run, Phases, Contents
<1>3. backups' = Append(backups, x)
  BY DEF Begin
<1> HIDE DEF x
<1>4. /\ backups' \in Seq(Run) /\ DOMAIN backups' = DOMAIN backups \cup {n}
      /\ n \notin DOMAIN backups /\ backups'[n] = x
      /\ \A i \in DOMAIN backups : backups'[i] = backups[i]
  BY <1>1, <1>2, <1>3
<1>5. BackupTypeOK'
  BY <1>1, <1>4 DEF BackupInv, BackupTypeOK, Begin, Restores
<1>6. \A i \in DOMAIN backups' : backups'[i] \in Run
  BY <1>4
<1>7. /\ x.began = clock + 1 /\ x.mtime = clock + 1 /\ x.doomed = {} /\ x.phase = "copying"
      /\ x.beside = {i \in DOMAIN backups : UnderWay(i)}
      /\ ~encrypt => x.file = "partial"
  BY DEF x
<1>8. Timed'
  BY <1>1, <1>4, <1>6, <1>7 DEF BackupInv, Timed, Run
<1>9. \A i \in DOMAIN backups : Rivals(i) \subseteq Rivals(i)' /\ n \in Rivals(i)'
  <2> TAKE i \in DOMAIN backups
  <2>1. backups[i].began \in Nat /\ backups[i].began <= clock
    BY <1>1, <1>4, <1>6 DEF BackupInv, Timed, Run
  <2> QED BY <1>1, <1>4, <1>7, <2>1 DEF Rivals, Others
<1>10. \A i \in DOMAIN backups' : Rivals(i)' \subseteq DOMAIN backups'
  BY <1>8 DEF Timed, Rivals, Others
<1>11. \A i \in DOMAIN backups : Crowded(i) => Crowded(i)'
  BY <1>4, <1>9, <1>10, CrowdedStays
<1>12. PrunersAreRivals'
  <2> SUFFICES ASSUME NEW i \in DOMAIN backups', NEW r \in DOMAIN backups', i # r, UnderWay(r)'
               PROVE  (r \in Rivals(i))'
    BY DEF PrunersAreRivals
  <2>1. CASE r = n
    BY <1>4, <1>9, <2>1
  <2>2. CASE r # n
    <3>1. r \in DOMAIN backups /\ UnderWay(r)
      BY <1>4, <2>2 DEF UnderWay
    <3>2. i = n => r \in Rivals(i)'
      BY <1>4, <1>7, <3>1 DEF Rivals
    <3> QED BY <1>4, <1>9, <3>1, <3>2 DEF BackupInv, PrunersAreRivals
  <2> QED BY <2>1, <2>2
<1>13. DoomedAreCrowded'
  BY <1>4, <1>7, <1>11 DEF BackupInv, DoomedAreCrowded
<1>14. KeptOrCrowded'
  <2> SUFFICES ASSUME NEW i \in DOMAIN backups' PROVE Crowded(i)' \/ FileKept(i)'
    BY DEF KeptOrCrowded
  <2>1. CASE i = n
    BY <1>1, <1>4, <1>7, <2>1 DEF FileKept, Present
  <2>2. CASE i # n
    BY <1>1, <1>4, <1>11, <2>2 DEF BackupInv, KeptOrCrowded, FileKept, Present
  <2> QED BY <2>1, <2>2
<1> QED BY <1>5, <1>8, <1>12, <1>13, <1>14 DEF BackupInv

\* What RunUpdated asks of a run that changes, but for its type.
ChangesTo(r, x) ==
    /\ x.began = backups[r].began /\ x.beside = backups[r].beside
    /\ x.mtime \in {backups[r].mtime, clock'}
    /\ x.phase \in {"done", "failed"} \/ UnderWay(r)
    /\ x.doomed \subseteq {j \in DOMAIN backups : Crowded(j)}
    /\ \/ Crowded(r)
       \/ /\ x.phase = "copying" /\ ~encrypt => x.file # "absent"
          /\ x.phase = "copied" /\ ~encrypt => x.file = "whole"
          /\ x.phase \in {"written", "pruning", "done"} => x.file = "whole"
          /\ x.phase = "done" => x.manifest = "whole"

LEMMA RunChanges ==
    ASSUME BackupInv, NEW r \in DOMAIN backups, NEW x \in Run, ChangesTo(r, x),
           backups' = [backups EXCEPT ![r] = x], encrypt' = encrypt,
           db' \in Contents \cup {"absent"}, restore' = restore \/ restore' = NoRestore,
           clock' \in {clock, clock + 1}
    PROVE  BackupInv'
<1>1. backups[r] \in Run /\ backups'[r] = x /\ clock \in Nat
  BY DEF BackupInv, BackupTypeOK
<1>2. backups[r].mtime \in Nat /\ backups[r].mtime <= clock
  BY <1>1 DEF BackupInv, Timed, Run
<1>3. RunStep(r)
  BY <1>1, <1>2 DEF ChangesTo, RunStep, FileKept, Present, UnderWay
<1>4. clock' \in Nat /\ clock <= clock'
  BY <1>1
<1> QED BY <1>3, <1>4, RunUpdated

LEMMA PhasesListed ==
    /\ "copied" \in Phases /\ "written" \in Phases /\ "pruning" \in Phases
    /\ "done" \in Phases /\ "failed" \in Phases
BY DEF Phases

\* What there is of a run.
LEMMA RunFacts ==
    ASSUME BackupInv, NEW r \in DOMAIN backups
    PROVE  /\ backups[r] \in Run /\ clock \in Nat
           /\ db \in Contents \cup {"absent"}
           /\ backups[r].doomed \subseteq {j \in DOMAIN backups : Crowded(j)}
           /\ Crowded(r) \/ FileKept(r)
BY DEF BackupInv, BackupTypeOK, DoomedAreCrowded, KeptOrCrowded

LEMMA CopyKeeps == \A r \in DOMAIN backups : BackupInv /\ Copy(r) => BackupInv'
<1> SUFFICES ASSUME NEW r \in DOMAIN backups, BackupInv, Copy(r) PROVE BackupInv'
  OBVIOUS
<1> DEFINE held == IF db = "absent" THEN "empty" ELSE db
           x == IF Present(r)
                THEN [backups[r] EXCEPT !.phase = "copied", !.holds = held, !.file = "whole",
                                        !.mtime = clock + 1]
                ELSE [backups[r] EXCEPT !.phase = "copied", !.holds = held]
<1>1. backups' = [backups EXCEPT ![r] = x]
  BY DEF Copy
<1>2. held \in Contents
  BY RunFacts DEF Contents
<1> HIDE DEF held
<1>3. x \in Run
  <2>1. backups[r] \in Run /\ clock + 1 \in Nat
    BY RunFacts
  <2> QED BY <1>2, <2>1, PhasesListed DEF Run
<1>4. ChangesTo(r, x)
  BY RunFacts DEF Run, ChangesTo, Copy, UnderWay, FileKept, Present
<1>5. db' \in Contents /\ encrypt' = encrypt /\ restore' = restore /\ clock' = clock + 1
  BY <1>2 DEF Copy, held
<1> HIDE DEF x
<1> QED BY <1>1, <1>3, <1>4, <1>5, RunChanges

LEMMA CheckKeeps == \A r \in DOMAIN backups : BackupInv /\ Check(r) => BackupInv'
<1> SUFFICES ASSUME NEW r \in DOMAIN backups, BackupInv, Check(r) PROVE BackupInv'
  OBVIOUS
<1> DEFINE x == IF encrypt
                THEN [backups[r] EXCEPT !.phase = "written", !.file = "whole",
                                        !.mtime = clock + 1]
                ELSE [backups[r] EXCEPT !.phase = "written"]
<1>1. backups' = [backups EXCEPT ![r] = x]
  BY DEF Check
<1>2. x \in Run
  <2>1. backups[r] \in Run /\ clock + 1 \in Nat
    BY RunFacts
  <2> QED BY <2>1, PhasesListed DEF Run
<1>3. ChangesTo(r, x)
  BY RunFacts DEF Run, ChangesTo, Check, UnderWay, FileKept
<1>4. /\ db' \in Contents \cup {"absent"} /\ encrypt' = encrypt /\ restore' = restore
      /\ clock' \in {clock, clock + 1}
  BY RunFacts DEF Check
<1> HIDE DEF x
<1> QED BY <1>1, <1>2, <1>3, <1>4, RunChanges

LEMMA FailKeeps ==
    \A r \in DOMAIN backups :
        BackupInv /\ (FailCheck(r) \/ FailMissing(r) \/ CrashBackup(r)) => BackupInv'
<1> SUFFICES ASSUME NEW r \in DOMAIN backups, BackupInv,
                    FailCheck(r) \/ FailMissing(r) \/ CrashBackup(r)
             PROVE  BackupInv'
  OBVIOUS
<1> DEFINE Fails(x) == /\ backups' = [backups EXCEPT ![r] = x]
                       /\ clock' \in {clock, clock + 1}
                       /\ x \in Run /\ x.phase = "failed"
                       /\ x.began = backups[r].began /\ x.beside = backups[r].beside
                       /\ x.doomed = backups[r].doomed
                       /\ x.mtime \in {backups[r].mtime, clock'}
<1>1. \E x : Fails(x)
  <2> DEFINE stopped == [backups[r] EXCEPT !.phase = "failed"]
             removed == [backups[r] EXCEPT !.phase = "failed",
                                           !.file = IF encrypt THEN "absent" ELSE "partial"]
             partial == [backups[r] EXCEPT !.phase = "failed", !.file = "partial",
                                           !.mtime = clock + 1]
             torn == [backups[r] EXCEPT !.phase = "failed", !.manifest = "torn"]
  <2>0. backups[r] \in Run /\ clock + 1 \in Nat
    BY RunFacts
  <2>1. stopped \in Run /\ removed \in Run
    BY <2>0, PhasesListed DEF Run
  <2>2. partial \in Run /\ torn \in Run
    BY <2>0, PhasesListed DEF Run
  <2>3. CASE FailCheck(r)
    <3>1. Fails(removed)
      BY <2>1, <2>3, RunFacts DEF FailCheck, Run
    <3> QED BY <3>1
  <2>4. CASE UNCHANGED clock /\ backups' = [backups EXCEPT ![r].phase = "failed"]
    <3>1. Fails(stopped)
      BY <2>1, <2>4, RunFacts DEF Run
    <3> QED BY <3>1
  <2>5. CASE /\ clock' = clock + 1
             /\ backups' = [backups EXCEPT ![r].phase = "failed", ![r].file = "partial",
                                           ![r].mtime = clock + 1]
    <3>1. backups' = [backups EXCEPT ![r] = partial]
      BY <2>5, RunFacts DEF BackupInv, BackupTypeOK
    <3>2. Fails(partial)
      BY <2>2, <2>5, <3>1, RunFacts DEF Run
    <3> QED BY <3>2
  <2>6. CASE /\ UNCHANGED clock
             /\ backups' = [backups EXCEPT ![r].phase = "failed", ![r].manifest = "torn"]
    <3>1. backups' = [backups EXCEPT ![r] = torn]
      BY <2>6, RunFacts DEF BackupInv, BackupTypeOK
    <3>2. Fails(torn)
      BY <2>2, <2>6, <3>1, RunFacts DEF Run
    <3> QED BY <3>2
  <2> QED BY <2>3, <2>4, <2>5, <2>6 DEF FailMissing, CrashBackup
<1> PICK x : Fails(x)
  BY <1>1
<1>2. ChangesTo(r, x)
  BY RunFacts DEF ChangesTo
<1>3. db' = db /\ encrypt' = encrypt /\ restore' = restore
  BY DEF FailCheck, FailMissing, CrashBackup
<1> QED BY <1>2, <1>3, RunFacts, RunChanges

\* Retention marks what is crowded.
LEMMA ListKeeps == \A r \in DOMAIN backups : BackupInv /\ List(r) => BackupInv'
<1> SUFFICES ASSUME NEW r \in DOMAIN backups, BackupInv, List(r) PROVE BackupInv'
  OBVIOUS
<1> DEFINE doom == IF backups[r].holds = "sound" THEN ToDelete(r) ELSE {}
           x == [backups[r] EXCEPT !.phase = "pruning", !.doomed = doom]
<1>1. backups' = [backups EXCEPT ![r] = x]
  BY DEF List
<1>2. doom \subseteq {j \in DOMAIN backups : Crowded(j)}
  BY ToDeleteIsCrowded DEF List, UnderWay
<1>3. DOMAIN backups \subseteq Nat
  BY DEF BackupInv, BackupTypeOK
<1> HIDE DEF doom
<1>4. x \in Run
  <2>1. doom \in SUBSET Nat
    BY <1>2, <1>3
  <2>2. backups[r] \in Run
    BY RunFacts
  <2> QED BY <2>1, <2>2, PhasesListed DEF Run
<1>5. ChangesTo(r, x)
  BY <1>2, RunFacts DEF Run, ChangesTo, List, UnderWay, FileKept
<1>6. db' = db /\ encrypt' = encrypt /\ restore' = restore /\ clock' = clock
  BY DEF List
<1> HIDE DEF x
<1> QED BY <1>1, <1>4, <1>5, <1>6, RunFacts, RunChanges

LEMMA WriteManifestKeeps == \A r \in DOMAIN backups : BackupInv /\ WriteManifest(r) => BackupInv'
<1> SUFFICES ASSUME NEW r \in DOMAIN backups, BackupInv, WriteManifest(r) PROVE BackupInv'
  OBVIOUS
<1> DEFINE x == [backups[r] EXCEPT !.phase = "done", !.manifest = "whole"]
<1>1. backups' = [backups EXCEPT ![r] = x]
  BY DEF WriteManifest
<1>2. x \in Run
  <2>1. backups[r] \in Run /\ clock + 1 \in Nat
    BY RunFacts
  <2> QED BY <2>1, PhasesListed DEF Run
<1>3. ChangesTo(r, x)
  BY RunFacts DEF Run, ChangesTo, WriteManifest, FileKept
<1>4. db' = db /\ encrypt' = encrypt /\ restore' = restore /\ clock' = clock
  BY DEF WriteManifest
<1> HIDE DEF x
<1> QED BY <1>1, <1>2, <1>3, <1>4, RunFacts, RunChanges

\* The step that takes a file away: it is crowded.
LEMMA DeleteKeeps == \A r \in DOMAIN backups : BackupInv /\ Delete(r) => BackupInv'
<1> SUFFICES ASSUME NEW r \in DOMAIN backups, BackupInv, Delete(r) PROVE BackupInv'
  OBVIOUS
<1>1. PICK i : /\ i = Oldest(backups[r].doomed)
               /\ backups' = [backups EXCEPT ![r].doomed = @ \ {i},
                                    ![i].file = "absent", ![i].manifest = "none"]
  BY DEF Delete
<1>2. i \in backups[r].doomed
  <2>1. backups[r].doomed \in SUBSET DOMAIN backups /\ backups[r].doomed # {}
    BY RunFacts DEF Delete
  <2> QED BY <1>1, <2>1, OldestIsOne DEF BackupInv, BackupTypeOK
<1>3. i \in DOMAIN backups /\ Crowded(i)
  BY <1>2, RunFacts
<1> DEFINE x == [backups[r] EXCEPT !.doomed = @ \ {i}]
           marked == [backups EXCEPT ![r].doomed = @ \ {i}]
           y == [marked[i] EXCEPT !.file = "absent"]
           removed == [marked EXCEPT ![i].file = "absent"]
           z == [y EXCEPT !.manifest = "none"]
<1>4. backups \in Seq(Run) /\ backups[r] \in Run
  BY DEF BackupInv, BackupTypeOK
<1>5. x \in Run
  BY <1>4 DEF Run
<1>6. /\ marked \in Seq(Run) /\ DOMAIN marked = DOMAIN backups
      /\ \A j \in DOMAIN backups : marked[j] = IF j = r THEN x ELSE backups[j]
  BY <1>4, <1>5
<1>7. backups' = [removed EXCEPT ![i].manifest = "none"]
  BY <1>1
<1> HIDE DEF x, marked
<1>8. y \in Run
  <2>1. marked[i] \in Run
    BY <1>3, <1>4, <1>5, <1>6
  <2> QED BY <2>1 DEF Run
<1>9. /\ removed \in Seq(Run) /\ DOMAIN removed = DOMAIN backups
      /\ \A j \in DOMAIN backups : removed[j] = IF j = i THEN y ELSE marked[j]
  BY <1>3, <1>6, <1>8
<1> HIDE DEF removed, y
<1>10. z \in Run
  BY <1>8 DEF Run
<1>11. /\ backups' \in Seq(Run) /\ DOMAIN backups' = DOMAIN backups
       /\ \A j \in DOMAIN backups : backups'[j] = IF j = i THEN z ELSE marked[j]
  BY <1>3, <1>7, <1>9, <1>10
<1>12. encrypt' = encrypt /\ db' = db /\ clock' = clock /\ restore' = restore
  BY DEF Delete
<1>13. BackupTypeOK'
  BY <1>11, <1>12 DEF BackupInv, BackupTypeOK, Restores
<1>14. ASSUME NEW j \in DOMAIN backups PROVE RunStep(j)
  <2>1. /\ marked[j].began = backups[j].began /\ marked[j].beside = backups[j].beside
        /\ marked[j].mtime = backups[j].mtime /\ marked[j].phase = backups[j].phase
        /\ marked[j].doomed \subseteq backups[j].doomed
        /\ marked[j].file = backups[j].file /\ marked[j].manifest = backups[j].manifest
    BY <1>4, <1>6 DEF Run, x
  <2>2. /\ backups'[j].began = marked[j].began /\ backups'[j].beside = marked[j].beside
        /\ backups'[j].mtime = marked[j].mtime /\ backups'[j].phase = marked[j].phase
        /\ backups'[j].doomed = marked[j].doomed
        /\ j # i => backups'[j].file = marked[j].file
                 /\ backups'[j].manifest = marked[j].manifest
    <3>1. CASE j = i
      <4>1. marked[i] \in Run /\ backups'[j] = z
        BY <1>3, <1>4, <1>5, <1>6, <1>11, <3>1
      <4> QED BY <1>8, <3>1, <4>1 DEF Run, y
    <3>2. CASE j # i
      BY <1>11, <3>2
    <3> QED BY <3>1, <3>2
  <2>3. backups[j].mtime \in Nat /\ backups[j].mtime <= clock
    <3>1. backups[j] \in Run
      BY <1>4
    <3> QED BY <3>1 DEF BackupInv, Timed, Run
  <2>4. Crowded(j) \/ FileKept(j)'
    BY <1>3, <1>12, <2>1, <2>2, RunFacts DEF FileKept, Present
  <2> QED BY <1>12, <2>1, <2>2, <2>3, <2>4, RunFacts DEF RunStep, UnderWay
<1> QED BY <1>11, <1>13, <1>14, RunSteps

\* Opening a pruned backup makes it anew, empty: it was crowded, or never had a file.
LEMMA CopyBackKeeps == BackupInv /\ CopyBack => BackupInv'
<1> SUFFICES ASSUME BackupInv, CopyBack PROVE BackupInv'
  OBVIOUS
<1>1. restore \in Restores
  BY DEF BackupInv, BackupTypeOK, CopyBack, NoRestore
<1>2. restore.source \in DOMAIN backups /\ restore.holds \in Contents
  BY <1>1 DEF Restores
<1>3. db' \in Contents /\ encrypt' = encrypt /\ restore' = NoRestore
  BY <1>2 DEF CopyBack, Contents
<1>4. CASE backups' = backups /\ clock' = clock
  <2>1. BackupTypeOK'
    BY <1>3, <1>4 DEF BackupInv, BackupTypeOK
  <2> QED BY <1>3, <1>4, <2>1, RunsUnchanged
<1>5. CASE /\ ~encrypt /\ ~Present(restore.source) /\ clock' = clock + 1
           /\ backups' = [backups EXCEPT ![restore.source].file = "partial",
                                         ![restore.source].mtime = clock + 1]
  <2> DEFINE r == restore.source
             x == [backups[r] EXCEPT !.file = "partial", !.mtime = clock + 1]
  <2>1. r \in DOMAIN backups
    BY <1>2
  <2>2. backups \in Seq(Run)
    BY DEF BackupInv, BackupTypeOK
  <2>3. backups' = [backups EXCEPT ![r] = x]
    BY <1>5, <2>1, <2>2
  <2> HIDE DEF r
  <2>4. x \in Run
    <3>1. backups[r] \in Run /\ clock + 1 \in Nat
      BY <2>1, RunFacts
    <3> QED BY <3>1 DEF Run
  <2>5. ChangesTo(r, x)
    BY <1>5, <2>1, RunFacts DEF ChangesTo, Run, FileKept, Present, UnderWay, r
  <2> HIDE DEF x
  <2> QED BY <1>3, <1>5, <2>1, <2>3, <2>4, <2>5, RunChanges
<1> QED BY <1>4, <1>5 DEF CopyBack

\* The steps of the database and of a restore that change no run.
LEMMA DatabaseKeeps ==
    /\ BackupInv
    /\ Damage \/ StartServer \/ UnlinkTarget \/ CrashRestore
       \/ \E i \in DOMAIN backups : BeginRestore(i)
    => BackupInv'
<1> SUFFICES ASSUME BackupInv,
                    Damage \/ StartServer \/ UnlinkTarget \/ CrashRestore
                    \/ \E i \in DOMAIN backups : BeginRestore(i)
             PROVE  BackupInv'
  OBVIOUS
<1>1. encrypt' = encrypt /\ clock' = clock /\ backups' = backups
  BY DEF Damage, StartServer, UnlinkTarget, CrashRestore, BeginRestore
<1>2. db' \in Contents \cup {"absent"}
  BY DEF BackupInv, BackupTypeOK, Contents, Damage, StartServer, UnlinkTarget, CrashRestore,
         BeginRestore
<1>3. restore' \in Restores \cup {NoRestore}
  <2>1. CASE restore' = restore \/ restore' = NoRestore
    BY <2>1 DEF BackupInv, BackupTypeOK
  <2>2. CASE UnlinkTarget
    <3>1. restore \in Restores
      BY <2>2 DEF BackupInv, BackupTypeOK, UnlinkTarget, NoRestore
    <3> QED BY <2>2, <3>1 DEF UnlinkTarget, Restores
  <2>3. ASSUME NEW i \in DOMAIN backups, BeginRestore(i) PROVE restore' \in Restores
    BY <2>3, RunFacts DEF BeginRestore, Restores, Run
  <2> QED BY <2>1, <2>2, <2>3 DEF Damage, StartServer, CrashRestore
<1>4. BackupTypeOK'
  BY <1>1, <1>2, <1>3 DEF BackupInv, BackupTypeOK, Restores
<1> QED BY <1>1, <1>4, RunsUnchanged

LEMMA BackupInvNext == BackupInv /\ [BackupNext]_backupVars => BackupInv'
<1> SUFFICES ASSUME BackupInv, [BackupNext]_backupVars PROVE BackupInv'
  OBVIOUS
<1>1. CASE UNCHANGED backupVars
  <2>1. BackupTypeOK'
    BY <1>1 DEF BackupInv, BackupTypeOK, Restores, backupVars
  <2> QED BY <1>1, <2>1, RunsUnchanged DEF backupVars
<1>2. CASE BackupNext
  BY <1>2, BeginKeeps, CopyKeeps, CheckKeeps, FailKeeps, ListKeeps, DeleteKeeps,
     WriteManifestKeeps, CopyBackKeeps, DatabaseKeeps DEF BackupNext
<1> QED BY <1>1, <1>2

-----------------------------------------------------------------------------
\* The inductive invariant: whoever can still prune a backup is counted among those that
\* came after it or beside it, and a file that is lost, or marked to be, has KeepCount.
THEOREM BackupInvariant == BackupSpec => []BackupInv
<1> QED BY BackupInvInit, BackupInvNext, PTL DEF BackupSpec

\* A backup that was completed and found sound can be restored until KeepCount other runs
\* of backup_sqlite have come after it or beside it, whatever crashes, failures and restores
\* happen meanwhile.
THEOREM KeepsNewestHolds == BackupSpec => []KeepsNewest
<1>1. BackupInv => KeepsNewest
  <2> SUFFICES ASSUME BackupInv, NEW i \in DOMAIN backups,
                      backups[i].phase = "done", backups[i].holds = "sound",
                      Cardinality(Rivals(i)) < KeepCount
               PROVE  Restorable(i)
    BY DEF KeepsNewest
  <2>1. Rivals(i) \subseteq DOMAIN backups
    BY DEF BackupInv, Timed, Rivals, Others
  <2>2. Cardinality(Rivals(i)) \in Nat
    BY <2>1, FiniteDomain DEF BackupInv, BackupTypeOK
  <2>3. FileKept(i)
    BY <2>2, RunFacts, BackupsAssumption DEF Crowded
  <2> QED BY <2>3 DEF FileKept, Restorable, Accepted, Present
<1> QED BY <1>1, BackupInvariant, PTL
=============================================================================
