------------------------------- MODULE MCRoom -------------------------------
(* One tab on the document, with two server processes; or the presence of    *)
(* one user with two tabs. The two take no part in one another.              *)
EXTENDS DocumentRoom, EditorPresence, TLC

CONSTANTS t1, t2, s1, s2

MCHome == t1 :> s1

VARIABLE part

MCInit == part \in {"room", "presence"} /\ RoomInit /\ PresenceInit

MCNext ==
    /\ \/ part = "room" /\ RoomNext /\ UNCHANGED presenceVars
       \/ part = "presence" /\ PresenceNext /\ UNCHANGED roomVars
    /\ UNCHANGED part

MCSpec == MCInit /\ [][MCNext]_<<part, roomVars, presenceVars>> /\ RoomFairness
=============================================================================
