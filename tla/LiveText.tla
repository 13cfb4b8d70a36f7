----------------------------- MODULE LiveText -----------------------------
(***************************************************************************)
(* Live text between browsers and one server process: the editor of        *)
(* static/app.js with its shadow text, its revision and its one            *)
(* unacknowledged operation; the WebSocket of each browser with its queues *)
(* in both directions; the handler of each socket (app/main.py); and       *)
(* CollaborationHub.broadcast (app/realtime_service.py), which sends to    *)
(* one socket after another.                                               *)
(*                                                                         *)
(* A socket can be lost with messages in both queues: the browser hears    *)
(* nothing more on it, while the server may still read what was sent. A    *)
(* send to a lost socket may end the broadcast, and the handler with it.   *)
(* One document and one version of it: commits and resets are the subject  *)
(* of TextSession.                                                         *)
(***************************************************************************)
EXTENDS SessionState, FiniteSets

CONSTANTS
    Client,         \* browsers, each with a liveTextClientId of its own
    Writer,         \* those whose users edit, unless all may
    InitialText,    \* content_text of the document
    Conditions,     \* the sets of conditions that behaviours run under
    MaxEdits(_),    \* bound on the edits users make, under given conditions
    MaxDrops(_),    \* bound on the sockets lost
    Wide,           \* characters that take two UTF-16 units, if any do
    MaxSent         \* bound on the operations sent

\* A behaviour runs under a set of conditions, each of which makes more possible:
\*   all_write     every user edits
\*   types_early   users type while the reply to a join is awaited
\*   reads_late    the server reads a lost socket after the browser is back
\*   interleaved   a send of a broadcast may have to wait for its socket, or find it lost
\*   wide          some characters take two UTF-16 units, as an emoji does
ASSUME ConditionsAssumption ==
    Conditions \subseteq SUBSET {"all_write", "types_early", "reads_late", "interleaved", "wide"}

\* A character is its code point: what the server counts. The browser counts UTF-16 units.
ASSUME TextAssumption == InitialText \in Seq(Nat) /\ MaxSent \in Nat

VARIABLES
    conditions,     \* what this behaviour runs under; it does not change
    session,        \* the entry of _sessions
    browser,        \* the editor of each client
    open,           \* its current socket is open, as the browser sees it
    closing,        \* those of the open sockets whose handler has ended
    up, down,       \* messages on that socket, to the server and to the browser
    late,           \* operations on sockets the browser has given up
    sending,        \* broadcasts under way: the payload, whose it is, the sockets left
    edits, drops,
    removed,        \* characters that users deleted by hand
    sent            \* operations sent: the source of client_operation_id

vars == <<conditions, session, browser, open, closing, up, down, late, sending, edits, drops, removed, sent>>

\* liveTextShadow, liveTextRevision, liveTextPendingOperation, liveTextNeedsResync,
\* and the timers that are set.
Editor ==
    [ buffer |-> InitialText, shadow |-> InitialText, revision |-> 0,
      pending |-> FALSE, resync |-> FALSE,
      diff_due |-> FALSE, join_due |-> FALSE, reconnect_due |-> FALSE ]

JoinMessage == [type |-> "join"]

\* Every browser has loaded the document and joined its session.
Init ==
    /\ conditions \in Conditions
    /\ session = NewSession(1, InitialText)
    /\ browser = [c \in Client |-> Editor]
    /\ open = [c \in Client |-> TRUE]
    /\ closing = {}
    /\ up = [c \in Client |-> << >>]
    /\ down = [c \in Client |-> << >>]
    /\ late = [c \in Client |-> << >>]
    /\ sending = {}
    /\ edits = 0
    /\ drops = 0
    /\ removed = {}
    /\ sent = 0

-----------------------------------------------------------------------------
(* The browser                                                             *)

CommonPrefix(x, y) == Cardinality({ i \in DOMAIN x : IsPrefix(SubSeq(x, 1, i), y) })

\* The length of a string in the browser, in UTF-16 units.
Units(text) ==
    Len(text) + Cardinality({ i \in DOMAIN text : "wide" \in conditions /\ text[i] \in Wide })

\* diffTextOperation, for different texts: what is between the longest common prefix and
\* the longest common suffix of the rest, its place and length in UTF-16 units. (Two
\* different wide characters are taken to have no unit in common.)
DiffText(before, after) ==
    LET prefix == CommonPrefix(before, after)
        rest(text) == Reverse(SubSeq(text, prefix + 1, Len(text)))
        suffix == CommonPrefix(rest(before), rest(after))
        index == Units(SubSeq(before, 1, prefix))
        length == Units(SubSeq(before, prefix + 1, Len(before) - suffix))
        inserted == SubSeq(after, prefix + 1, Len(after) - suffix)
    IN  IF inserted = << >> THEN DeleteText(index, length)
        ELSE IF length = 0 THEN InsertText(index, inserted)
        ELSE ReplaceText(index, length, inserted)

Dirty(b) == b.shadow # b.buffer

\* A mutant: an operation given up is not remembered.
HasLocalBufferForgotten(b) == b.pending \/ Dirty(b)

\* hasLocalLiveTextBuffer
HasLocalBuffer(b) == b.pending \/ b.resync \/ Dirty(b)

\* scheduleLiveTextDiffIfNeeded
DiffScheduled(b) == [b EXCEPT !.diff_due = @ \/ (~b.pending /\ Dirty(b))]

\* markLiveTextOperationUnacknowledged
Unacknowledged(b) == [b EXCEPT !.resync = @ \/ b.pending, !.pending = FALSE]

\* A mutant: the operations typed while one was in flight are not sent after it.
FinishLocalOnly(b) == [b EXCEPT !.pending = FALSE, !.resync = FALSE]

\* finishLocalLiveTextOperation
FinishLocal(b) == DiffScheduled([b EXCEPT !.pending = FALSE, !.resync = FALSE])

\* applyLiveTextState
AppliedState(b, payload) ==
    LET joined == [b EXCEPT !.revision = payload.revision, !.shadow = payload.text,
                            !.pending = FALSE, !.resync = FALSE]
    IN  IF HasLocalBuffer(b) THEN DiffScheduled(joined)
        ELSE [joined EXCEPT !.buffer = payload.text]

\* A mutant: the revision of another client's operation is not taken over.
AppliedAcceptedBehind(b, c, payload) ==
    LET aligned == [b EXCEPT !.revision = IF payload.client = c THEN payload.revision ELSE @,
                             !.shadow = payload.text]
    IN  IF payload.client = c THEN FinishLocal(aligned)
        ELSE IF HasLocalBuffer(b) THEN DiffScheduled([aligned EXCEPT !.resync = FALSE])
        ELSE [aligned EXCEPT !.buffer = payload.text]

\* applyAcceptedLiveTextOperation
AppliedAccepted(b, c, payload) ==
    LET aligned == [b EXCEPT !.revision = Larger(@, payload.revision), !.shadow = payload.text]
    IN  IF payload.client = c THEN FinishLocal(aligned)
        ELSE IF HasLocalBuffer(b) THEN DiffScheduled([aligned EXCEPT !.resync = FALSE])
        ELSE [aligned EXCEPT !.buffer = payload.text]

\* An error payload; live text is joined again after a VERSION_CONFLICT.
AppliedError(b, payload) ==
    [Unacknowledged(b) EXCEPT !.join_due = @ \/ payload.conflict]

Received(b, c, payload) ==
    CASE payload.type = "state" -> AppliedState(b, payload)
      [] payload.type = "accepted" -> AppliedAccepted(b, c, payload)
      [] payload.type = "error" -> AppliedError(b, payload)

\* handleLiveTextInput, for a client whose editor is b.
HandleInput(c, b) ==
    IF open[c] /\ ~b.pending /\ Dirty(b)
    THEN /\ sent < MaxSent
         /\ up' = [up EXCEPT ![c] = Append(@,
                [ type |-> "op", client |-> c, client_operation_id |-> sent + 1,
                  base_revision |-> b.revision, op |-> DiffText(b.shadow, b.buffer) ])]
         /\ browser' = [browser EXCEPT ![c] =
                [b EXCEPT !.pending = TRUE, !.resync = FALSE, !.shadow = b.buffer]]
         /\ sent' = sent + 1
    ELSE /\ browser' = [browser EXCEPT ![c] = b]
         /\ UNCHANGED <<up, sent>>

\* The client has a join to send, or sent one and has no reply.
Joining(c) ==
    \/ browser[c].join_due
    \/ JoinMessage \in ToSet(up[c])
    \/ \E i \in DOMAIN down[c] : down[c][i].type = "state"

\* The user types a character, or deletes one; characters are numbered as they are
\* typed.
Edit(c, text) ==
    /\ edits < MaxEdits(conditions)
    /\ c \in Writer \/ "all_write" \in conditions
    /\ "types_early" \in conditions \/ ~Joining(c)
    /\ edits' = edits + 1
    /\ removed' = removed \cup (ToSet(browser[c].buffer) \ ToSet(text))
    /\ HandleInput(c, [browser[c] EXCEPT !.buffer = text])
    /\ UNCHANGED <<conditions, session, open, closing, down, late, sending, drops>>

Edited(text) ==
    { InsertAt(text, i, Len(InitialText) + edits + 1) : i \in 1..(Len(text) + 1) }
    \cup { RemoveAt(text, i) : i \in DOMAIN text }

\* The next message of the socket is handled.
Receive(c) ==
    /\ open[c]
    /\ down[c] # << >>
    /\ browser' = [browser EXCEPT ![c] = Received(@, c, Head(down[c]))]
    /\ down' = [down EXCEPT ![c] = Tail(@)]
    /\ UNCHANGED <<conditions, session, open, closing, up, late, sending, edits, drops, removed, sent>>

\* The timer of scheduleLiveTextDiffIfNeeded fires.
FireDiff(c) ==
    /\ browser[c].diff_due
    /\ HandleInput(c, [browser[c] EXCEPT !.diff_due = FALSE])
    /\ UNCHANGED <<conditions, session, open, closing, down, late, sending, edits, drops, removed>>

Operations(messages) ==
    FoldLeft(LAMBDA kept, m : IF m.type = "op" THEN Append(kept, m) ELSE kept, << >>, messages)

\* The browser gives up the client's socket, and has sent these on its next one. The old
\* socket is <<c>> from now on: its handler may read on, unless it has ended, and go on
\* with a broadcast; other broadcasts may still have to send to it.
GiveUp(c, messages) ==
    LET old(socket) == IF socket = c THEN <<c>> ELSE socket
    IN  /\ up' = [up EXCEPT ![c] = messages]
        /\ down' = [down EXCEPT ![c] = << >>]
        /\ late' = [late EXCEPT ![c] = IF c \in closing THEN @ ELSE @ \o Operations(up[c])]
        /\ closing' = closing \ {c}
        /\ sending' = { [b EXCEPT !.from = old(@), !.to = { old(socket) : socket \in @ }]
                        : b \in sending }

\* openCollaborationSocket: a socket in use is replaced. When it opens, the browser
\* joins first of all.
OpenSocket(c, b) ==
    /\ browser' = [browser EXCEPT ![c] = b]
    /\ open' = [open EXCEPT ![c] = TRUE]
    /\ GiveUp(c, <<JoinMessage>>)
    /\ UNCHANGED <<conditions, session, edits, drops, removed, sent>>

\* The reconnection timer fires, 3 s after the socket was lost.
Reconnect(c) ==
    /\ browser[c].reconnect_due
    /\ "reads_late" \in conditions \/ late[c] = << >>
    /\ "types_early" \in conditions \/ ~browser[c].diff_due
    /\ OpenSocket(c, [browser[c] EXCEPT !.reconnect_due = FALSE])

\* The timer of resyncLiveTextSessionAfterConflict fires: joinLiveTextSession.
FireJoin(c) ==
    /\ browser[c].join_due
    /\ IF open[c]
       THEN /\ browser' = [browser EXCEPT ![c].join_due = FALSE]
            /\ up' = [up EXCEPT ![c] = Append(@, JoinMessage)]
            /\ UNCHANGED <<conditions, session, open, closing, down, late, sending, edits, drops, removed, sent>>
       ELSE OpenSocket(c, [browser[c] EXCEPT !.join_due = FALSE])

\* onclose of the socket.
LoseSocket(c) ==
    /\ open[c]
    /\ open' = [open EXCEPT ![c] = FALSE]
    /\ browser' = [browser EXCEPT ![c] = [Unacknowledged(@) EXCEPT !.reconnect_due = TRUE]]
    /\ GiveUp(c, << >>)
    /\ UNCHANGED <<conditions, session, edits, removed, sent>>

\* The network loses the socket.
Drop(c) ==
    /\ drops < MaxDrops(conditions)
    /\ drops' = drops + 1
    /\ LoseSocket(c)

\* The server closes the socket of a handler that has ended, after what was sent on it.
NoticeClose(c) ==
    /\ c \in closing
    /\ down[c] = << >>
    /\ LoseSocket(c)
    /\ UNCHANGED drops

-----------------------------------------------------------------------------
(* The server                                                              *)

\* The sockets connected to the hub.
Listening == { c \in Client : open[c] } \ closing

Tell(c, payload) == down' = [down EXCEPT ![c] = Append(@, payload)]

\* broadcast to every socket of the document: the sends follow one by one, or, if
\* none of them has to wait or fails, before anything else happens.
Broadcast(payload, from) ==
    IF "interleaved" \in conditions
    THEN /\ sending' = sending \cup
                { [payload |-> payload, from |-> from, to |-> to] : to \in {Listening} \ {{}} }
         /\ UNCHANGED down
    ELSE /\ down' = [c \in Client |-> IF c \in Listening THEN Append(down[c], payload)
                                     ELSE down[c]]
         /\ UNCHANGED sending

\* The handler of a socket reads its next message when its broadcast is done.
Free(from) == \A b \in sending : b.from # from

AcceptedPayload(s, client) ==
    [type |-> "accepted", client |-> client, revision |-> s.revision, text |-> s.text]

\* The branch text_session.op of a handler. A refusal is told only to a socket that
\* the browser still has; it is a VERSION_CONFLICT or an INVALID_REQUEST.
HandleOperation(message, from) ==
    IF Accepts(session, message)
    THEN LET accepted == Accepting(session, message, Transformed(session, message))
         IN  /\ session' = accepted
             /\ Broadcast(AcceptedPayload(accepted, message.client), from)
    ELSE /\ IF from \in Client
            THEN Tell(from, [ type |-> "error",
                    conflict |-> /\ WithinLength(message.op)
                                 /\ \/ message.base_revision > session.revision
                                    \/ Transformed(session, message) = Conflict ])
            ELSE UNCHANGED down
         /\ UNCHANGED <<session, sending>>

\* The handler of the client's socket takes its next message.
Handle(c) ==
    /\ c \in Listening
    /\ up[c] # << >>
    /\ Free(c)
    /\ up' = [up EXCEPT ![c] = Tail(@)]
    /\ IF Head(up[c]).type = "join"
       THEN /\ Tell(c, [type |-> "state", revision |-> session.revision, text |-> session.text])
            /\ UNCHANGED <<session, sending>>
       ELSE HandleOperation(Head(up[c]), c)
    /\ UNCHANGED <<conditions, browser, open, closing, late, edits, drops, removed, sent>>

\* The server reads one more operation of a socket given up, or nothing more.
HandleLate(c) ==
    /\ late[c] # << >>
    /\ Free(<<c>>)
    /\ HandleOperation(Head(late[c]), <<c>>)
    /\ late' = [late EXCEPT ![c] = Tail(@)]
    /\ UNCHANGED <<conditions, browser, open, closing, up, edits, drops, removed, sent>>

LoseLate(c) ==
    /\ late[c] # << >>
    /\ late' = [late EXCEPT ![c] = << >>]
    /\ UNCHANGED <<conditions, session, browser, open, closing, up, down, sending, edits, drops, removed, sent>>

\* A broadcast sends to one more socket, in the order of a Python set. A send to a lost
\* socket raises RuntimeError if its handler has read the loss, and the socket is skipped.
\* Otherwise it raises WebSocketDisconnect, which broadcast does not catch: the handler
\* that broadcasts ends, without the sends that are left.
SendNext(b, socket) ==
    /\ socket \in b.to
    /\ \/ /\ IF socket \in Listening THEN Tell(socket, b.payload) ELSE UNCHANGED down
          /\ sending' = (sending \ {b})
                        \cup IF b.to = {socket} THEN {} ELSE { [b EXCEPT !.to = @ \ {socket}] }
          /\ UNCHANGED <<closing, late>>
       \/ /\ socket \notin Listening
          /\ sending' = sending \ {b}
          /\ closing' = closing \cup ({b.from} \cap Client)
          /\ late' = [c \in Client |-> IF b.from = <<c>> THEN << >> ELSE late[c]]
          /\ UNCHANGED down
    /\ UNCHANGED <<conditions, session, browser, open, up, edits, drops, removed, sent>>

-----------------------------------------------------------------------------
Next ==
    \/ \E c \in Client :
        \/ \E text \in Edited(browser[c].buffer) : Edit(c, text)
        \/ Receive(c) \/ FireDiff(c) \/ Reconnect(c) \/ FireJoin(c) \/ Drop(c)
        \/ NoticeClose(c) \/ Handle(c) \/ HandleLate(c) \/ LoseLate(c)
    \/ \E b \in sending : \E socket \in b.to : SendNext(b, socket)

\* Timers fire, what a socket delivers is handled, and the event loop runs every
\* handler and every send. Users need not type, and no socket need be lost.
Fairness ==
    /\ \A c \in Client :
        /\ WF_vars(Receive(c))
        /\ WF_vars(FireDiff(c))
        /\ WF_vars(Reconnect(c))
        /\ WF_vars(FireJoin(c))
        /\ WF_vars(NoticeClose(c))
        /\ WF_vars(Handle(c))
        /\ WF_vars(HandleLate(c) \/ LoseLate(c))
    /\ WF_vars(\E b \in sending : \E socket \in b.to : SendNext(b, socket))

Spec == Init /\ [][Next]_vars /\ Fairness

-----------------------------------------------------------------------------
\* The text of the session at a revision (its list of operations is not cut here).
TextAt(revision) ==
    FoldLeft(LAMBDA text, accepted : ApplyText(text, accepted.op), InitialText,
             SubSeq(session.operations, 1, revision))

\* Whenever a browser has nothing unacknowledged, its shadow text is the session's
\* text at the revision it will name in its next operation: otherwise the server
\* would place that operation in another text than the user typed it in. (It says nothing
\* of the units of the operation's index.)
ShadowIsSessionText ==
    conditions \subseteq {"wide"} => \A c \in Client :
        LET b == browser[c]
        IN  ~b.pending /\ ~b.resync => b.shadow = TextAt(b.revision)

\* The characters that were in the session's text at some time.
Accepted == ToSet(InitialText)
            \cup UNION { ToSet(session.operations[i].op.text) : i \in DOMAIN session.operations }

\* What a user typed leaves the user's buffer only by the user's hand as long as the
\* session never had it: not by a reply, a broadcast, a lost socket or a new join.
UnsentTextKept ==
    [][\A c \in Client :
        ToSet(browser[c].buffer) \subseteq ToSet(browser'[c].buffer) \cup Accepted
        \/ \E text \in Edited(browser[c].buffer) : Edit(c, text)]_vars

\* No operation is over the server's limit when a browser sends it.
OperationsFit ==
    \A c \in Client : \A i \in DOMAIN up[c] : up[c][i].type = "op" => WithinLength(up[c][i].op)

\* Once nobody types and no socket is lost, every browser comes to show the session's
\* text, and stays so: if one user types characters of one UTF-16 unit, and never so many
\* before they are sent that the server refuses them. A refused operation is not followed
\* by a new join, and one that the server places elsewhere is not noticed.
Converges ==
    conditions = {} /\ []OperationsFit
        => <>[](\A c \in Client : open[c] /\ browser[c].buffer = session.text)

\* A character that the session's text holds leaves it only if a user deleted it by
\* hand: "concurrent edits do not mutate the wrong characters".
AcceptedTextStands ==
    [][ToSet(session.text) \ ToSet(session'.text) \subseteq removed]_vars
=============================================================================
