--------------------------- MODULE EditorPresence ---------------------------
(***************************************************************************)
(* Whether one user is listed as an editor of one document: the row of     *)
(* editor_presence (app/collaboration_service.py) that the user's tabs     *)
(* write over their sockets (app/main.py) or over HTTP (static/app.js).    *)
(* A row's last_seen_at is told by who wrote it last.                      *)
(***************************************************************************)
EXTENDS Naturals, Sequences

CONSTANTS
    PresenceTab,    \* browser tabs of the user
    MaxMoves,       \* bound on the times that a tab opens, reloads or leaves the document
    MaxSockets,     \* bound on the sockets
    MaxPosts        \* bound on a tab's heartbeats under way over HTTP

ASSUME PresenceAssumption == MaxMoves \in Nat /\ MaxSockets \in Nat /\ MaxPosts \in Nat

VARIABLES
    presence,       \* who wrote the user's row last: a socket, OverHttp, or NoRow
    present,        \* each tab: whether it has the document open, its socket or 0, and its
                    \* heartbeats over HTTP, sent and answered
    sockets,        \* the server's ends: the heartbeat that waits, and whether one was handled
    leaves,         \* DELETE requests on their way
    lost,           \* a request, an answer or a process was lost
    moves

presenceVars == <<presence, present, sockets, leaves, lost, moves>>

OverHttp == 0
NoRow == MaxSockets + 1

PresenceInit ==
    /\ presence = NoRow
    /\ present = [t \in PresenceTab |-> [here |-> FALSE, socket |-> 0, sent |-> 0, answered |-> 0]]
    /\ sockets = << >>
    /\ leaves = 0
    /\ lost = FALSE
    /\ moves = 0

Move == moves < MaxMoves /\ moves' = moves + 1

\* The browser closes the tab's socket.
SocketClosed(t) ==
    [i \in DOMAIN sockets |->
        IF i = present[t].socket THEN [sockets[i] EXCEPT !.open = FALSE] ELSE sockets[i]]

UnderWay(t) == present[t].sent + present[t].answered

\* restartCollaborationLoop: leave, if the document was open, and come again; the first
\* heartbeat goes over HTTP, as the socket is not open yet.
OpenDocument(t) ==
    /\ Move
    /\ UnderWay(t) < MaxPosts
    /\ present' = [present EXCEPT ![t].here = TRUE, ![t].socket = 0, ![t].sent = @ + 1]
    /\ sockets' = SocketClosed(t)
    /\ leaves' = IF present[t].here THEN leaves + 1 ELSE leaves
    /\ UNCHANGED <<presence, lost>>

\* stopCollaborationLoop
LeaveDocument(t) ==
    /\ Move
    /\ present[t].here
    /\ present' = [present EXCEPT ![t].here = FALSE, ![t].socket = 0]
    /\ sockets' = SocketClosed(t)
    /\ leaves' = leaves + 1
    /\ UNCHANGED <<presence, lost>>

\* The socket opens, and sends a heartbeat at once.
OpenSocket(t) ==
    /\ present[t].here /\ present[t].socket = 0
    /\ Len(sockets) < MaxSockets
    /\ sockets' = Append(sockets, [open |-> TRUE, waiting |-> TRUE, wrote |-> FALSE])
    /\ present' = [present EXCEPT ![t].socket = Len(sockets')]
    /\ UNCHANGED <<presence, leaves, lost, moves>>

\* sendPresenceHeartbeat, every five seconds: over the open socket, or else over HTTP.
SendHeartbeat(t) ==
    /\ present[t].here
    /\ IF present[t].socket # 0
       THEN sockets' = [sockets EXCEPT ![present[t].socket].waiting = TRUE] /\ UNCHANGED present
       ELSE /\ UnderWay(t) < MaxPosts
            /\ present' = [present EXCEPT ![t].sent = @ + 1]
            /\ UNCHANGED sockets
    /\ UNCHANGED <<presence, leaves, lost, moves>>

\* upsert_editor_presence, and the handler keeps last_seen_at.
HandleHeartbeat(i) ==
    /\ sockets[i].waiting
    /\ presence' = i
    /\ sockets' = [sockets EXCEPT ![i].waiting = FALSE, ![i].wrote = TRUE]
    /\ UNCHANGED <<present, leaves, lost, moves>>

\* A mutant: the handler ends without leaving.
CloseWithoutLeave(i) ==
    /\ ~sockets[i].open /\ ~sockets[i].waiting /\ sockets[i].wrote
    /\ sockets' = [sockets EXCEPT ![i].wrote = FALSE]
    /\ UNCHANGED <<presence, present, leaves, lost, moves>>

\* The handler sees that the socket is closed, after what was sent before; its `finally`
\* takes the row away only if nobody has written since.
HandleClose(i) ==
    /\ ~sockets[i].open /\ ~sockets[i].waiting /\ sockets[i].wrote
    /\ presence' = IF presence = i THEN NoRow ELSE presence
    /\ sockets' = [sockets EXCEPT ![i].wrote = FALSE]
    /\ UNCHANGED <<present, leaves, lost, moves>>

HandlePost(t) ==
    /\ present[t].sent > 0
    /\ presence' = OverHttp
    /\ present' = [present EXCEPT ![t].sent = @ - 1, ![t].answered = @ + 1]
    /\ UNCHANGED <<sockets, leaves, lost, moves>>

\* A heartbeat that was answered after the tab left is taken back.
FinishPost(t) ==
    /\ present[t].answered > 0
    /\ present' = [present EXCEPT ![t].answered = @ - 1]
    /\ leaves' = IF present[t].here THEN leaves ELSE leaves + 1
    /\ UNCHANGED <<presence, sockets, lost, moves>>

\* DELETE /documents/{document_id}/presence, whoever wrote the row.
HandleLeave ==
    /\ leaves > 0
    /\ leaves' = leaves - 1
    /\ presence' = NoRow
    /\ UNCHANGED <<present, sockets, lost, moves>>

\* The row is older than ACTIVE_PRESENCE_SECONDS: no state lists it.
Expire ==
    /\ \A t \in PresenceTab : ~present[t].here
    /\ presence # NoRow
    /\ presence' = NoRow
    /\ UNCHANGED <<present, sockets, leaves, lost, moves>>

\* A socket breaks, and its last heartbeat may be lost with it; the tab opens another.
BreakSocket(t) ==
    /\ present[t].socket # 0
    /\ \E w \in {sockets[present[t].socket].waiting, FALSE} :
        sockets' = [sockets EXCEPT ![present[t].socket] = [@ EXCEPT !.open = FALSE, !.waiting = w]]
    /\ present' = [present EXCEPT ![t].socket = 0]
    /\ UNCHANGED <<presence, leaves, lost, moves>>

\* The process of a socket stops; or a tab is closed with its answers still to come, or
\* its DELETE is lost.
Lose ==
    /\ ~lost
    /\ lost' = TRUE
    /\ \/ /\ leaves > 0
          /\ leaves' = leaves - 1
          /\ UNCHANGED <<present, sockets>>
       \/ \E t \in PresenceTab :
            /\ present[t].here /\ present[t].answered > 0
            /\ present' = [present EXCEPT ![t].here = FALSE, ![t].socket = 0, ![t].answered = 0]
            /\ sockets' = SocketClosed(t)
            /\ leaves' = leaves + 1
       \/ \E i \in DOMAIN sockets :
            /\ sockets[i].wrote
            /\ sockets' = [sockets EXCEPT
                    ![i] = [open |-> FALSE, waiting |-> FALSE, wrote |-> FALSE]]
            /\ present' = [t \in PresenceTab |->
                    IF present[t].socket = i THEN [present[t] EXCEPT !.socket = 0]
                    ELSE present[t]]
            /\ UNCHANGED leaves
    /\ UNCHANGED <<presence, moves>>

PresenceNext ==
    \/ \E t \in PresenceTab :
        \/ OpenDocument(t) \/ LeaveDocument(t) \/ OpenSocket(t) \/ SendHeartbeat(t)
        \/ HandlePost(t) \/ FinishPost(t) \/ BreakSocket(t)
    \/ \E i \in DOMAIN sockets : HandleHeartbeat(i) \/ HandleClose(i)
    \/ HandleLeave \/ Expire \/ Lose

PresenceSpec == PresenceInit /\ [][PresenceNext]_presenceVars

-----------------------------------------------------------------------------
(* Properties                                                              *)

Quiet ==
    /\ \A t \in PresenceTab : ~present[t].here /\ UnderWay(t) = 0
    /\ \A i \in DOMAIN sockets : ~sockets[i].waiting /\ ~sockets[i].wrote
    /\ leaves = 0

\* Once every tab has left and nothing is under way, the user is not listed, however
\* heartbeats, leaves and closed sockets overtook one another: nobody waits for the row
\* to expire unless something was lost.
LeftIsGone == Quiet /\ ~lost => presence = NoRow
=============================================================================
