----------------------------- MODULE MCBrowser -----------------------------
(* The live text of two browsers, or the ZIP panel of one: the two take no   *)
(* part in one another.                                                      *)
EXTENDS MCLiveText, MCZip

VARIABLE part

\* Projects and documents are alike: the panel starts with any one of them. The part that
\* takes no step has one initial state.
MCInit ==
    /\ part \in {"live_text", "zip"} /\ Init /\ PanelInit
    /\ project = CHOOSE p \in Project : TRUE
    /\ selected = CHOOSE d \in Document : TRUE
    /\ IF part = "zip" THEN conditions = Plain ELSE ~limited

MCNext ==
    /\ \/ part = "live_text" /\ Next /\ UNCHANGED panelVars
       \/ part = "zip" /\ PanelNext /\ UNCHANGED vars /\ Explored'
    /\ UNCHANGED part

Live(A) == part = "live_text" /\ A

\* Fairness of LiveText, and PanelFairness, each of its part.
MCFairness ==
    /\ \A c \in Client :
        /\ WF_vars(Live(Receive(c)))
        /\ WF_vars(Live(FireDiff(c)))
        /\ WF_vars(Live(Reconnect(c)))
        /\ WF_vars(Live(FireJoin(c)))
        /\ WF_vars(Live(NoticeClose(c)))
        /\ WF_vars(Live(Handle(c)))
        /\ WF_vars(Live(HandleLate(c) \/ LoseLate(c)))
    /\ WF_vars(Live(\E b \in sending : \E socket \in b.to : SendNext(b, socket)))
    /\ WF_panelVars(part = "zip" /\ \E c \in calls : Progress(c))

MCSpec == MCInit /\ [][MCNext]_<<part, vars, panelVars>> /\ MCFairness
=============================================================================
