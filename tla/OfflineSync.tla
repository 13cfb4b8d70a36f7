---------------------------- MODULE OfflineSync ----------------------------
(***************************************************************************)
(* Offline saves of one document: the browser's queue (queueOfflineSave    *)
(* and flushOfflineQueue in static/app.js) and the batch endpoint          *)
(* (app/offline_sync_service.py) that works through it.                    *)
(*                                                                         *)
(* Each item takes three transactions, a look-up, the save itself and the  *)
(* record of its outcome.  Requests run in worker threads, so the          *)
(* transactions of two requests interleave; a crash of the server ends     *)
(* every request between any two of them; and an answer may not arrive.    *)
(***************************************************************************)
EXTENDS Integers, FiniteSets, SequencesExt

CONSTANTS
    Actor,          \* users, one browser each
    OperationId,    \* values of client_operation_id
    Request,        \* worker threads serving the endpoint
    None,
    Content,        \* contents of the document
    InitialContent, \* of version 1
    Raised,         \* a merge that is rejected
    Strategies,     \* the merge_strategy values clients use
    MergedContent(_, _, _),
    MaxVersion,     \* bound on the versions of the document
    MaxQueued,      \* bound on the operations ever queued
    MaxRequests     \* bound on the requests ever sent

ASSUME InitialAssumption == InitialContent \in Content

ASSUME NobodyAssumption == None \notin Actor

VARIABLES
    events,     \* the document's event per version: its content and its source
    records,    \* offline_sync_operations
    queue,      \* state.offlineQueue of each browser
    queued,     \* every operation ever queued
    request,    \* the batch each worker thread is at, or None
    started     \* requests sent so far

vars == <<events, records, queue, queued, request, started>>

current_version == Len(events)
current_content == events[current_version].content

\* An event names the operation it is of and whether the endpoint made it or the
\* save whose answer was lost.
Event(content, actor, id, by) ==
    [content |-> content, actor |-> actor, client_operation_id |-> id, by |-> by]

EventsOf(actor, id) ==
    { v \in DOMAIN events :
        events[v].actor = actor /\ events[v].client_operation_id = id }

RecordsOf(actor, id) ==
    { row \in records : row.actor = actor /\ row.client_operation_id = id }

-----------------------------------------------------------------------------
\* A mutant: the base version is not checked.
MergedUnchecked(op) == op.content

\* What update_document_content makes of an operation's content, or Raised with
\* the status that apply_offline_sync_batch gives the error.
Merged(op) ==
    IF op.base_version = current_version THEN op.content
    ELSE IF op.merge_strategy = "auto" /\ op.base_version < current_version
    THEN MergedContent(events[op.base_version].content, current_content, op.content)
    ELSE Raised

Status(op) ==
    IF Merged(op) = Raised THEN "conflict"
    ELSE IF Merged(op) = current_content THEN "failed"
    ELSE "applied"

-----------------------------------------------------------------------------
Init ==
    /\ events = <<Event(InitialContent, None, None, None)>>
    /\ records = {}
    /\ queue = [a \in Actor |-> << >>]
    /\ queued = {}
    /\ request = [r \in Request |-> None]
    /\ started = 0

\* A save (PUT content) that the browser gets no answer to is queued under a new
\* id, whether or not it reached the server and was committed there.
QueueOfflineSave(a, id, base, content, strategy, reached) ==
    LET op == [ actor |-> a, client_operation_id |-> id, base_version |-> base,
                content |-> content, merge_strategy |-> strategy ]
    IN  /\ Cardinality(queued) < MaxQueued
        /\ base \in 1..current_version
        /\ content # events[base].content
        /\ \A other \in queued : other.actor = a => other.client_operation_id # id
        /\ queue' = [queue EXCEPT ![a] = Append(@, op)]
        /\ queued' = queued \cup {op}
        /\ IF reached
           THEN /\ Status(op) = "applied"
                /\ current_version < MaxVersion
                /\ events' = Append(events, Event(Merged(op), a, id, "save"))
           ELSE UNCHANGED events
        /\ UNCHANGED <<records, request, started>>

\* flushOfflineQueue: the whole queue is sent.  Another flush may start before the
\* first is answered: changing the document or the project forgets the first.
StartSync(r, a) ==
    /\ request[r] = None
    /\ started < MaxRequests
    /\ queue[a] # << >>
    /\ request' = [request EXCEPT ![r] =
        [ actor |-> a, items |-> queue[a], done |-> << >>, stage |-> "look" ]]
    /\ started' = started + 1
    /\ UNCHANGED <<events, records, queue, queued>>

Working(r, stage) ==
    /\ request[r] # None
    /\ request[r].items # << >>
    /\ request[r].stage = stage

Item(r) == Head(request[r].items)

\* The request with this result for its first item, at its next one.
NextItem(r, status) ==
    [request[r] EXCEPT
        !.items = Tail(@), !.stage = "look",
        !.done = Append(@, [client_operation_id |-> Item(r).client_operation_id,
                            status |-> status])]

\* A mutant: the status is looked up by client_operation_id alone.
LookUpAnyActor(r) ==
    LET rows == { row \in records : row.client_operation_id = Item(r).client_operation_id }
    IN  /\ Working(r, "look")
        /\ request' = [request EXCEPT ![r] =
            IF rows = {} THEN [@ EXCEPT !.stage = "apply"]
            ELSE NextItem(r, (CHOOSE row \in rows : TRUE).status)]
        /\ UNCHANGED <<events, records, queue, queued, started>>

\* _existing_result: an operation with a row is answered from it.
LookUp(r) ==
    LET rows == RecordsOf(request[r].actor, Item(r).client_operation_id)
    IN  /\ Working(r, "look")
        /\ request' = [request EXCEPT ![r] =
            IF rows = {} THEN [@ EXCEPT !.stage = "apply"]
            ELSE NextItem(r, (CHOOSE row \in rows : TRUE).status)]
        /\ UNCHANGED <<events, records, queue, queued, started>>

\* update_document_content, in a transaction of its own.
Apply(r) ==
    LET op == Item(r)
        status == Status(op)
    IN  /\ Working(r, "apply")
        /\ status = "applied" => current_version < MaxVersion
        /\ events' = IF status = "applied"
                     THEN Append(events, Event(Merged(op), op.actor, op.client_operation_id, "sync"))
                     ELSE events
        /\ request' = [request EXCEPT ![r].stage = status]
        /\ UNCHANGED <<records, queue, queued, started>>

\* _record_result: the row's id is made of client_operation_id, so a row of
\* whatever actor with that id makes the insert, and with it the request, fail.
RecordResult(r) ==
    /\ \E status \in {"applied", "conflict", "failed"} :
        /\ Working(r, status)
        /\ IF \E row \in records : row.client_operation_id = Item(r).client_operation_id
           THEN /\ request' = [request EXCEPT ![r] = None]
                /\ UNCHANGED records
           ELSE /\ records' = records \cup
                    {[ actor |-> request[r].actor, status |-> status,
                       client_operation_id |-> Item(r).client_operation_id ]}
                /\ request' = [request EXCEPT ![r] = NextItem(r, status)]
    /\ UNCHANGED <<events, queue, queued, started>>

\* A queue without the operations of these ids.
Without(operations, gone) ==
    FoldLeft(LAMBDA kept, op : IF op.client_operation_id \in gone THEN kept ELSE Append(kept, op),
             << >>, operations)

\* The browser takes the answer, unless an item of the batch has left its queue
\* meanwhile: everything submitted and not in conflict leaves the queue.
Respond(r) ==
    LET a == request[r].actor
        ids == { request[r].done[i].client_operation_id : i \in DOMAIN request[r].done }
        unresolved == { request[r].done[i].client_operation_id :
            i \in { j \in DOMAIN request[r].done : request[r].done[j].status = "conflict" } }
        live == { queue[a][i].client_operation_id : i \in DOMAIN queue[a] }
    IN  /\ request[r] # None
        /\ request[r].items = << >>
        /\ queue' = IF ids \subseteq live
                    THEN [queue EXCEPT ![a] = Without(@, ids \ unresolved)]
                    ELSE queue
        /\ request' = [request EXCEPT ![r] = None]
        /\ UNCHANGED <<events, records, queued, started>>

\* The answer is lost, or the browser has forgotten the request.
LoseAnswer(r) ==
    /\ request[r] # None
    /\ request[r].items = << >>
    /\ request' = [request EXCEPT ![r] = None]
    /\ UNCHANGED <<events, records, queue, queued, started>>

\* The server stops: every request ends where it is.
Crash ==
    /\ \E r \in Request : request[r] # None
    /\ request' = [r \in Request |-> None]
    /\ UNCHANGED <<events, records, queue, queued, started>>

\* Another user saves, or rolls back to an earlier content.
SaveElsewhere(content) ==
    /\ current_version < MaxVersion
    /\ content # current_content
    /\ events' = Append(events, Event(content, None, None, None))
    /\ UNCHANGED <<records, queue, queued, request, started>>

Next ==
    \/ \E a \in Actor, id \in OperationId, base \in 1..MaxVersion, content \in Content,
          strategy \in Strategies, reached \in BOOLEAN :
            QueueOfflineSave(a, id, base, content, strategy, reached)
    \/ \E r \in Request :
        \/ \E a \in Actor : StartSync(r, a)
        \/ LookUp(r)
        \/ Apply(r)
        \/ RecordResult(r)
        \/ Respond(r)
        \/ LoseAnswer(r)
    \/ Crash
    \/ \E content \in Content : SaveElsewhere(content)

Spec == Init /\ [][Next]_vars

-----------------------------------------------------------------------------
\* An operation changes the document at most once, however often it is sent: after
\* a lost answer, a crash, or by two requests at the same time; and a row that says
\* "applied" tells the truth, so the operation has its event.
AppliedOnce ==
    /\ \A op \in queued : Cardinality(EventsOf(op.actor, op.client_operation_id)) <= 1
    /\ \A row \in records :
        row.status = "applied" => EventsOf(row.actor, row.client_operation_id) # {}

\* An operation leaves its browser's queue only when it was applied, or has failed
\* for another reason than a version conflict: an answer of another request, of
\* another user, or one that comes late never takes it away.
QueuedUntilSettled ==
    \A op \in queued :
        op \notin ToSet(queue[op.actor]) =>
            \E row \in RecordsOf(op.actor, op.client_operation_id) : row.status # "conflict"

\* client_operation_id is idempotent per actor: the endpoint applies an operation
\* at most once, however often it is sent.
SyncedOnce ==
    \A op \in queued :
        Cardinality({ v \in EventsOf(op.actor, op.client_operation_id) :
                        events[v].by = "sync" }) <= 1

\* ... and the ids of one actor are nothing to another: an applied operation whose
\* request comes to record it gets its row.
AppliedGetsRow ==
    [][\A r \in Request :
        Working(r, "applied") /\ RecordResult(r) =>
            \E row \in records' :
                /\ row.actor = request[r].actor
                /\ row.client_operation_id = Item(r).client_operation_id]_vars
=============================================================================
