------------------------------ MODULE MCPeople ------------------------------
(* Either a project's team, or accounts and their requests; the two take no  *)
(* part in one another.                                                      *)
(* The team is three people, two of whom join by hand or by invitation; it   *)
(* goes on for four changes of the members, or for a few of them among a     *)
(* review of two documents, or a comment thread.                             *)
(* The accounts are of two people who sign up, log in, renew and log out     *)
(* through two OIDC logins and three sessions; or of one, with a session and *)
(* an API token, while requests come in.                                     *)
EXTENDS Comments, Requests, TLC

CONSTANTS ann, bob, cyd, d1, d2

VARIABLE part

MCInit == part \in {"team", "accounts"} /\ TeamInit /\ AccountInit

MCNext ==
    /\ \/ part = "team" /\ TeamNext /\ UNCHANGED accountVars
       \/ part = "accounts" /\ AccountNext /\ UNCHANGED teamVars
    /\ UNCHANGED part

MCSpec == MCInit /\ [][MCNext]_<<part, teamVars, accountVars>>

MCSymmetry == Permutations({bob, cyd}) \cup Permutations({d1, d2})

NoWork ==
    reviews = << >> /\ threads = << >> /\ \A d \in Document : Version(d) = 1

NoRefusal ==
    refused = {} /\ \A i \in DOMAIN audit : audit[i].outcome = "success"

Few == Len(audit) <= 2 /\ invitations = << >> /\ NoRefusal

NoRequests == windows = << >> /\ api_tokens = << >> /\ moves = 0

FewSessions ==
    /\ Len(sessions) <= 2 /\ Len(api_tokens) + Len(sessions) <= 2
    /\ oidc_states = << >> /\ Cardinality(users) <= 1

\* The states from which TLC goes on.
Explored ==
    IF part = "team"
    THEN \/ NoWork /\ (Len(audit) <= 2 \/ NoRefusal)
         \/ Few /\ threads = << >> /\ reviews # << >>
         \/ Few /\ reviews = << >> /\ Len(audit) <= 1 /\ \A d \in Document : Version(d) <= 2
    ELSE NoRequests \/ FewSessions
=============================================================================
