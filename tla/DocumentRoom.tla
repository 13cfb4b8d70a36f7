---------------------------- MODULE DocumentRoom ----------------------------
(***************************************************************************)
(* How saved versions of one document reach the browser tabs that show it: *)
(* the broadcasts of app/realtime_service.py in server processes joined by *)
(* Redis, the handlers of app/main.py that start them, and the tabs of     *)
(* static/app.js, which ask every five seconds over the socket, or over    *)
(* HTTP when it is closed, and load a newer version when clean.            *)
(***************************************************************************)
EXTENDS Naturals, FiniteSets

CONSTANTS
    Tab,
    Server,
    Home,           \* the server that each tab's sockets go to
    MaxEvents       \* bound on saves, faults and the user's own reloads together

ASSUME RoomAssumption == Home \in [Tab -> Server] /\ MaxEvents \in Nat

VARIABLES
    version,        \* current_version of the document
    tabs,           \* what each tab shows: version, dirty, and whether it is loading
    loads,          \* the bootstrap request of each tab, and its answer
    polls,          \* the HTTP request of each tab for the state, and its answer
    socket,         \* the tab's end of its socket: closed, open
    connection,     \* the server's end: none, accepted, hub, or dropped from the hub
    inbox,          \* versions in the states on their way to a tab over its socket
    asked,          \* tabs whose refresh message waits at the server
    broadcasts,     \* broadcasts under way
    relayed,        \* versions that Redis has for each server's listener
    listening,      \* servers whose listener task runs
    redis,          \* whether Redis takes messages
    troubles

netVars == <<connection, asked, broadcasts, relayed, listening, redis>>
roomVars == <<version, tabs, loads, polls, socket, inbox, netVars, troubles>>

NoRequest == [phase |-> "none"]
Sent == [phase |-> "sent"]
Answer(v) == [phase |-> "answered", version |-> v]

Closed == [shown |-> 0, dirty |-> FALSE, loading |-> FALSE]
IsOpen(t) == tabs[t].shown > 0

\* Every tab has just loaded version 1.
RoomInit ==
    /\ version = 1
    /\ tabs = [t \in Tab |-> [Closed EXCEPT !.shown = 1]]
    /\ loads = [t \in Tab |-> NoRequest]
    /\ polls = [t \in Tab |-> Sent]
    /\ socket = [t \in Tab |-> "closed"]
    /\ connection = [t \in Tab |-> "none"]
    /\ inbox = [t \in Tab |-> {}]
    /\ asked = {}
    /\ broadcasts = {}
    /\ relayed = [s \in Server |-> {}]
    /\ listening = Server
    /\ redis = TRUE
    /\ troubles = 0

Events == (version - 1) + troubles
Trouble == Events < MaxEvents /\ troubles' = troubles + 1

-----------------------------------------------------------------------------
(* The server                                                              *)

\* A broadcast: the handler that awaits it, a tab's or "relay" or "nobody" else's, its process,
\* the version in its state, the tabs it still has to send to once published, and whether
\* one of its sockets is gone before its turn.
Broadcast(from, s, v) ==
    [from |-> from, server |-> s, version |-> v, phase |-> "publish", left |-> {}, gone |-> FALSE]

Listed(s) == {t \in Tab : connection[t] = "hub" /\ Home[t] = s}

\* The list of sockets is copied before the first send.
Sending(b) == [b EXCEPT !.phase = "send", !.left = Listed(b.server)]

\* Broadcasts with someone left to send to; or with a send left that may fail, when that
\* makes a difference to somebody.
Unfinished(S) ==
    {b \in S : b.phase = "publish" \/ b.left # {} \/ (b.gone /\ b.from # "nobody")}

\* These broadcasts when a tab's socket goes: its handler's is still done, and a send to
\* it will fail.
Without(S, t) ==
    Unfinished({[b EXCEPT !.from = IF @ = t THEN "nobody" ELSE @,
                          !.left = @ \ {t}, !.gone = @ \/ t \in b.left] : b \in S})

\* A broadcast fails, and whoever awaits it: the listener's task ends for good; a tab's
\* handler takes the socket with it; a request is answered with an error.
EndHandler(b) ==
    IF b.from = "relay"
    THEN /\ broadcasts' = broadcasts \ {b}
         /\ listening' = listening \ {b.server}
         /\ relayed' = [relayed EXCEPT ![b.server] = {}]
         /\ UNCHANGED <<connection, asked>>
    ELSE /\ broadcasts' = Without(broadcasts \ {b}, b.from)
         /\ asked' = asked \ {b.from}
         /\ connection' = [t \in Tab |-> IF t = b.from THEN "none" ELSE connection[t]]
         /\ UNCHANGED <<relayed, listening>>

\* A save over HTTP, by any editor; the process may stop before it broadcasts.
Save(s) ==
    /\ Events < MaxEvents
    /\ version' = version + 1
    /\ \/ broadcasts' = broadcasts \cup {Broadcast("nobody", s, version + 1)} /\ UNCHANGED troubles
       \/ UNCHANGED broadcasts /\ Trouble
    /\ UNCHANGED <<tabs, loads, polls, socket, inbox, connection, asked, relayed,
                   listening, redis>>

\* "refresh": the state is read, and broadcast to every socket of the document.
HandleRefresh(t) ==
    /\ t \in asked /\ connection[t] # "accepted"
    /\ \A b \in broadcasts : b.from # t
    /\ asked' = asked \ {t}
    /\ broadcasts' = broadcasts \cup {Broadcast(t, Home[t], version)}
    /\ UNCHANGED <<version, tabs, loads, polls, socket, inbox, connection, relayed,
                   listening, redis, troubles>>

\* Redis has it before any socket of this process. When Redis fails, the handler does.
Publish(b) ==
    /\ b.phase = "publish"
    /\ IF redis
       THEN /\ broadcasts' = Unfinished((broadcasts \ {b}) \cup {Sending(b)})
            /\ relayed' = [s \in Server |->
                    IF s \in listening \ {b.server} THEN relayed[s] \cup {b.version}
                    ELSE relayed[s]]
            /\ UNCHANGED <<connection, asked, listening>>
       ELSE EndHandler(b)
    /\ UNCHANGED <<version, tabs, loads, polls, socket, inbox, redis, troubles>>

SentTo(b, t) == Unfinished((broadcasts \ {b}) \cup {[b EXCEPT !.left = @ \ {t}]})

\* One await of the loop over the sockets.
Send(b, t) ==
    /\ t \in b.left
    /\ broadcasts' = SentTo(b, t)
    /\ inbox' = [inbox EXCEPT ![t] = @ \cup {b.version}]
    /\ UNCHANGED <<version, tabs, loads, polls, socket, connection, asked, relayed,
                   listening, redis, troubles>>

\* A send to a socket that is gone: a RuntimeError is caught and the socket skipped; the
\* WebSocketDisconnect of a loss that the socket's own handler has not read is not caught.
FailSend(b) ==
    /\ b.gone
    /\ \/ /\ broadcasts' = Unfinished((broadcasts \ {b}) \cup {[b EXCEPT !.gone = FALSE]})
          /\ UNCHANGED <<connection, asked, relayed, listening>>
       \/ EndHandler(b)
    /\ UNCHANGED <<version, tabs, loads, polls, socket, inbox, redis, troubles>>

\* A send that takes two seconds: the hub drops the socket, which stays open.
TimeOut(b, t) ==
    /\ Trouble
    /\ t \in b.left /\ connection[t] = "hub"
    /\ broadcasts' = SentTo(b, t)
    /\ connection' = [connection EXCEPT ![t] = "dropped"]
    /\ UNCHANGED <<version, tabs, loads, polls, socket, inbox, asked, relayed, listening,
                   redis>>

\* _listen_to_redis, which awaits one broadcast before it takes the next message.
Relay(s, v) ==
    /\ v \in relayed[s]
    /\ \A b \in broadcasts : ~(b.from = "relay" /\ b.server = s)
    /\ relayed' = [relayed EXCEPT ![s] = @ \ {v}]
    /\ broadcasts' = Unfinished(broadcasts \cup {Sending(Broadcast("relay", s, v))})
    /\ UNCHANGED <<version, tabs, loads, polls, socket, inbox, connection, asked,
                   listening, redis, troubles>>

\* The connection to Redis breaks: the listener task ends for good, or Redis is away for
\* a while.
RedisFails(s) ==
    /\ Trouble
    /\ \/ redis' = FALSE /\ UNCHANGED <<listening, relayed>>
       \/ /\ s \in listening
          /\ listening' = listening \ {s}
          /\ relayed' = [relayed EXCEPT ![s] = {}]
          /\ UNCHANGED redis
    /\ UNCHANGED <<version, tabs, loads, polls, socket, inbox, connection, asked, broadcasts>>

RedisReturns ==
    /\ ~redis
    /\ redis' = TRUE
    /\ UNCHANGED <<version, tabs, loads, polls, socket, inbox, connection, asked,
                   broadcasts, relayed, listening, troubles>>

-----------------------------------------------------------------------------
(* A tab                                                                   *)

\* loadBootstrap begins; an earlier request's answer will be ignored.
BeginLoad(t) ==
    /\ tabs' = [tabs EXCEPT ![t].loading = TRUE]
    /\ loads' = [loads EXCEPT ![t] = Sent]

\* A mutant: a tab one version behind is left alone.
ApplyStateLater(t, v) ==
    IF v > tabs[t].shown + 1 /\ ~tabs[t].dirty /\ ~tabs[t].loading
    THEN BeginLoad(t) ELSE UNCHANGED <<tabs, loads>>

\* applyCollaborationState
ApplyState(t, v) ==
    IF v > tabs[t].shown /\ ~tabs[t].dirty /\ ~tabs[t].loading
    THEN BeginLoad(t) ELSE UNCHANGED <<tabs, loads>>

\* openCollaborationSocket; the server accepts and reads the state to answer with.
Connect(t) ==
    /\ IsOpen(t) /\ socket[t] = "closed"
    /\ socket' = [socket EXCEPT ![t] = "open"]
    /\ connection' = [connection EXCEPT ![t] = "accepted"]
    /\ inbox' = [inbox EXCEPT ![t] = {version}]
    /\ UNCHANGED <<version, tabs, loads, polls, asked, broadcasts, relayed, listening,
                   redis, troubles>>

\* Only then does the hub list the socket, and the answer goes out.
Join(t) ==
    /\ connection[t] = "accepted"
    /\ connection' = [connection EXCEPT ![t] = "hub"]
    /\ UNCHANGED <<version, tabs, loads, polls, socket, inbox, asked, broadcasts, relayed,
                   listening, redis, troubles>>

\* The network breaks, with what is on its way. The tab notices later.
Disconnect(t) ==
    /\ Trouble
    /\ connection[t] # "none"
    /\ connection' = [connection EXCEPT ![t] = "none"]
    /\ inbox' = [inbox EXCEPT ![t] = {}]
    /\ asked' = asked \ {t}
    /\ broadcasts' = Without(broadcasts, t)
    /\ UNCHANGED <<version, tabs, loads, polls, socket, relayed, listening, redis>>

\* What the server sent before it closed the socket comes first.
NoticeClose(t) ==
    /\ socket[t] = "open" /\ connection[t] = "none" /\ inbox[t] = {}
    /\ socket' = [socket EXCEPT ![t] = "closed"]
    /\ UNCHANGED <<version, tabs, loads, polls, inbox, netVars, troubles>>

Receive(t, v) ==
    /\ v \in inbox[t] /\ connection[t] # "accepted"
    /\ inbox' = [inbox EXCEPT ![t] = @ \ {v}]
    /\ ApplyState(t, v)
    /\ UNCHANGED <<version, polls, socket, netVars, troubles>>

\* The timer of five seconds, when the last request has been answered: refresh over an
\* open socket, refreshCollaborationState over HTTP.
Poll(t) ==
    /\ IsOpen(t) /\ polls[t] = NoRequest
    /\ IF socket[t] = "open"
       THEN connection[t] # "none" /\ asked' = asked \cup {t} /\ UNCHANGED polls
       ELSE polls' = [polls EXCEPT ![t] = Sent] /\ UNCHANGED asked
    /\ UNCHANGED <<version, tabs, loads, socket, inbox, connection, broadcasts, relayed,
                   listening, redis, troubles>>

AnswerPoll(t) ==
    /\ polls[t] = Sent
    /\ \/ polls' = [polls EXCEPT ![t] = Answer(version)] /\ UNCHANGED troubles
       \/ polls' = [polls EXCEPT ![t] = NoRequest] /\ Trouble
    /\ UNCHANGED <<version, tabs, loads, socket, inbox, netVars>>

ReceivePoll(t) ==
    /\ polls[t].phase = "answered"
    /\ polls' = [polls EXCEPT ![t] = NoRequest]
    /\ ApplyState(t, polls[t].version)
    /\ UNCHANGED <<version, socket, inbox, netVars, troubles>>

\* The server reads the document; or the request fails, and the tab stays as it is.
AnswerLoad(t) ==
    /\ loads[t] = Sent
    /\ \/ loads' = [loads EXCEPT ![t] = Answer(version)] /\ UNCHANGED <<tabs, troubles>>
       \/ /\ Trouble
          /\ loads' = [loads EXCEPT ![t] = NoRequest]
          /\ tabs' = [tabs EXCEPT ![t].loading = FALSE]
    /\ UNCHANGED <<version, polls, socket, inbox, netVars>>

\* The rest of loadBootstrap: the editor gets the text, whatever has been typed into it
\* (setSelectedEditorState), and the loop starts again with a new socket.
ReceiveLoad(t) ==
    /\ loads[t].phase = "answered"
    /\ loads' = [loads EXCEPT ![t] = NoRequest]
    /\ tabs' = [tabs EXCEPT ![t] = [Closed EXCEPT !.shown = loads[t].version]]
    /\ polls' = [polls EXCEPT ![t] = Sent]
    /\ socket' = [socket EXCEPT ![t] = "closed"]
    /\ connection' = [connection EXCEPT ![t] = "none"]
    /\ inbox' = [inbox EXCEPT ![t] = {}]
    /\ asked' = asked \ {t}
    /\ broadcasts' = Without(broadcasts, t)
    /\ UNCHANGED <<version, relayed, listening, redis, troubles>>

\* The user types; or takes it back.
Type(t) ==
    /\ IsOpen(t)
    /\ tabs' = [tabs EXCEPT ![t].dirty = ~@]
    /\ UNCHANGED <<version, loads, polls, socket, inbox, netVars, troubles>>

\* The user loads the document, as after each save.
Reload(t) ==
    /\ Trouble
    /\ IsOpen(t)
    /\ BeginLoad(t)
    /\ UNCHANGED <<version, polls, socket, inbox, netVars>>

CloseTab(t) ==
    /\ IsOpen(t)
    /\ tabs' = [tabs EXCEPT ![t] = Closed]
    /\ loads' = [loads EXCEPT ![t] = NoRequest]
    /\ polls' = [polls EXCEPT ![t] = NoRequest]
    /\ socket' = [socket EXCEPT ![t] = "closed"]
    /\ connection' = [connection EXCEPT ![t] = "none"]
    /\ inbox' = [inbox EXCEPT ![t] = {}]
    /\ asked' = asked \ {t}
    /\ broadcasts' = Without(broadcasts, t)
    /\ UNCHANGED <<version, relayed, listening, redis, troubles>>

RoomNext ==
    \/ \E s \in Server :
        \/ Save(s) \/ RedisFails(s)
        \/ \E v \in relayed[s] : Relay(s, v)
    \/ RedisReturns
    \/ \E b \in broadcasts :
        \/ Publish(b) \/ FailSend(b)
        \/ \E t \in b.left : Send(b, t) \/ TimeOut(b, t)
    \/ \E t \in Tab :
        \/ HandleRefresh(t) \/ Connect(t) \/ Join(t) \/ Disconnect(t) \/ NoticeClose(t)
        \/ \E v \in inbox[t] : Receive(t, v)
        \/ Poll(t) \/ AnswerPoll(t) \/ ReceivePoll(t)
        \/ AnswerLoad(t) \/ ReceiveLoad(t)
        \/ Type(t) \/ Reload(t) \/ CloseTab(t)

\* What the event loop, the network and the browser's timers do without anybody's help:
\* handlers go on, answers and messages arrive, a broken socket is noticed and replaced,
\* the timer fires. Nobody has to save, type, reload or close.
RoomFairness ==
    /\ WF_roomVars(\E b \in broadcasts :
                        Publish(b) \/ FailSend(b) \/ \E t \in b.left : Send(b, t))
    /\ \A s \in Server : WF_roomVars(\E v \in relayed[s] : Relay(s, v))
    /\ \A t \in Tab :
        /\ WF_roomVars(HandleRefresh(t))
        /\ WF_roomVars(Connect(t))
        /\ WF_roomVars(Join(t))
        /\ WF_roomVars(NoticeClose(t))
        /\ WF_roomVars(\E v \in inbox[t] : Receive(t, v))
        /\ WF_roomVars(Poll(t))
        /\ WF_roomVars(AnswerPoll(t))
        /\ WF_roomVars(ReceivePoll(t))
        /\ WF_roomVars(AnswerLoad(t))
        /\ WF_roomVars(ReceiveLoad(t))

RoomSpec == RoomInit /\ [][RoomNext]_roomVars /\ RoomFairness

-----------------------------------------------------------------------------
(* Properties                                                              *)

Behind(t) == IsOpen(t) /\ ~tabs[t].dirty /\ tabs[t].shown < version

\* A clean tab that is behind gets to show the latest version by itself, unless its user
\* types, whatever broadcasts are lost, late or out of order; except a tab whose open
\* socket the hub has dropped.
CatchesUp ==
    \A t \in Tab : Behind(t) ~> (~Behind(t) \/ connection[t] = "dropped")

\* "If another user saves while you have unsaved local edits, the app warns you": only
\* the user's own hand takes edits away.
EditsKept ==
    [][\A t \in Tab :
        tabs[t].dirty /\ IsOpen(t)' /\ troubles' = troubles /\ tabs'[t].shown # tabs[t].shown
            => tabs'[t].dirty]_roomVars
=============================================================================
