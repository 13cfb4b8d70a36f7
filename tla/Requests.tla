----------------------------- MODULE Requests -----------------------------
(***************************************************************************)
(* A request on its way to a handler: the rate limit (app/rate_limit.py),  *)
(* the size limit (app/request_body_limit.py), and the bearer token with   *)
(* its scope (app/auth_middleware.py), while sessions end, API tokens are  *)
(* revoked and members come and go. The order is that of create_app in     *)
(* app/main.py; the header X-Actor-Id is not allowed to stand for a token. *)
(***************************************************************************)
EXTENDS Sessions

CONSTANTS
    Project,
    Limit,          \* requests of one key in one window
    MaxCount,       \* bound on the requests of one key in one window, refused ones too
    MaxTokens,      \* bound on the API tokens
    MaxMoves        \* bound on the changes of the window and of the members

ASSUME RequestsAssumption == Limit \in Nat \ {0} /\ MaxCount \in Nat /\ MaxTokens \in Nat /\ MaxMoves \in Nat

VARIABLES
    members,        \* project_members: who belongs to each project
    api_tokens,     \* api_tokens, by number
    window,         \* the number of the window that the clock is in
    windows,        \* _windows: the window and the count of each key
    passed,         \* requests of each key let through since the window last changed
    request,        \* the request under way, or none
    moves

pipelineVars == <<members, api_tokens, window, windows, passed, request, moves>>
accountVars == <<sessionVars, pipelineVars>>

\* A credential is the token of a session, or an API token.
Credential ==
    { [type |-> "session", number |-> i] : i \in 1..MaxSessions }
    \cup { [type |-> "api_token", number |-> t] : t \in 1..MaxTokens }

\* No two credentials share a key; requests without one are not modelled.
NoRequest == [phase |-> "none"]

AccountInit ==
    /\ SessionInit
    /\ members = [p \in Project |-> {}]
    /\ api_tokens = << >>
    /\ window = 0
    /\ windows = << >>
    /\ passed = [c \in Credential |-> 0]
    /\ request = NoRequest
    /\ moves = 0

-----------------------------------------------------------------------------
(* The API tokens of a project                                             *)

\* create_project_api_token, for the person's own use.
CreateApiToken(user, project) ==
    /\ user \in members[project]
    /\ Len(api_tokens) < MaxTokens
    /\ api_tokens' = Append(api_tokens, [user |-> user, project |-> project, revoked |-> FALSE])
    /\ UNCHANGED <<members, window, windows, passed, request, moves>>

\* revoke_project_api_token, by its user while a member.
RevokeApiToken(t) ==
    /\ api_tokens[t].user \in members[api_tokens[t].project]
    /\ api_tokens' = [api_tokens EXCEPT ![t].revoked = TRUE]
    /\ UNCHANGED <<members, window, windows, passed, request, moves>>

\* A person is added to a project, or removed (see Membership).
ChangeMembers(user, project) ==
    /\ moves < MaxMoves
    /\ moves' = moves + 1
    /\ members' = [members EXCEPT ![project] = IF user \in @ THEN @ \ {user} ELSE @ \cup {user}]
    /\ UNCHANGED <<api_tokens, window, windows, passed, request>>

-----------------------------------------------------------------------------
(* The rate limit                                                          *)

\* The next window begins; or the clock is set back.
MoveClock(w) ==
    /\ w # window
    /\ moves < MaxMoves
    /\ moves' = moves + 1
    /\ window' = w
    /\ passed' = [c \in Credential |-> 0]
    /\ UNCHANGED <<members, api_tokens, windows, request>>

\* A mutant: the first request of a window is not counted.
CountFromZero(key) ==
    IF key \in DOMAIN windows /\ windows[key].window = window
    THEN windows[key].count + 1 ELSE 0

\* The count that FixedWindowRateLimiter.check puts down for a request.
CountOf(key) ==
    IF key \in DOMAIN windows /\ windows[key].window = window
    THEN windows[key].count + 1 ELSE 1

Counted(key) ==
    [c \in DOMAIN windows \cup {key} |->
        IF c = key THEN [window |-> window, count |-> CountOf(key)] ELSE windows[c]]

-----------------------------------------------------------------------------
(* The request                                                             *)

\* The credential is good now.
Valid(c) ==
    IF c.type = "session" THEN c.number \in DOMAIN sessions /\ SessionAlive(c.number)
    ELSE c.number \in DOMAIN api_tokens /\ ~api_tokens[c.number].revoked

\* rate_limit_middleware takes a request for a project; one too many ends here.
Receive(c, project) ==
    /\ request = NoRequest
    /\ IF c.type = "session" THEN c.number \in DOMAIN sessions
       ELSE c.number \in DOMAIN api_tokens
    /\ CountOf(c) <= MaxCount
    /\ windows' = Counted(c)
    /\ IF CountOf(c) <= Limit
       THEN /\ request' = [ phase |-> "received", credential |-> c, project |-> project,
                            valid_on_receipt |-> Valid(c) ]
            /\ passed' = [passed EXCEPT ![c] = @ + 1]
       ELSE UNCHANGED <<request, passed>>
    /\ UNCHANGED <<members, api_tokens, window, moves>>

\* The body is too large, or a later check refuses the request.
Refuse ==
    /\ request.phase # "none"
    /\ request' = NoRequest
    /\ UNCHANGED <<members, api_tokens, window, windows, passed, moves>>

ActorOf(c) == IF c.type = "session" THEN sessions[c.number].user ELSE api_tokens[c.number].user

\* enforce_api_token_scope
InScope(c, project) == c.type = "api_token" => api_tokens[c.number].project = project

\* A mutant: a token is not looked up again.
AuthenticateKnown ==
    /\ request.phase = "received"
    /\ InScope(request.credential, request.project)
    /\ request' = [ phase |-> "authenticated", credential |-> request.credential,
                    project |-> request.project, valid_on_receipt |-> request.valid_on_receipt,
                    actor |-> ActorOf(request.credential) ]
    /\ UNCHANGED <<members, api_tokens, window, windows, passed, moves>>

\* api_token_auth_middleware, when the body has been read.
Authenticate ==
    /\ request.phase = "received"
    /\ Valid(request.credential)
    /\ InScope(request.credential, request.project)
    /\ request' = [ phase |-> "authenticated", credential |-> request.credential,
                    project |-> request.project, valid_on_receipt |-> request.valid_on_receipt,
                    actor |-> ActorOf(request.credential) ]
    /\ UNCHANGED <<members, api_tokens, window, windows, passed, moves>>

\* The handler acts, if the actor is a member by now.
Handle ==
    /\ request.phase = "authenticated"
    /\ request.actor \in members[request.project]
    /\ request' = [request EXCEPT !.phase = "handled"]
    /\ UNCHANGED <<members, api_tokens, window, windows, passed, moves>>

PipelineNext ==
    \/ \E project \in Project :
        \/ \E user \in users : CreateApiToken(user, project) \/ ChangeMembers(user, project)
        \/ \E c \in Credential : Receive(c, project)
    \/ \E t \in DOMAIN api_tokens : RevokeApiToken(t)
    \/ \E w \in {window + 1, 0} : MoveClock(w)
    \/ Refuse \/ Authenticate \/ Handle

AccountNext ==
    \/ SessionNext /\ UNCHANGED pipelineVars
    \/ PipelineNext /\ UNCHANGED sessionVars

AccountSpec == AccountInit /\ [][AccountNext]_accountVars

-----------------------------------------------------------------------------
(* Properties                                                              *)

\* However requests fall around the change of a window, no key gets more through than
\* the limit before the clock moves on to another.
WithinLimit == \A c \in Credential : passed[c] <= Limit

\* A handler acts for a user only on a request that carried that user's credential,
\* alive when the request came in, and an API token only in its project: no request
\* sent after a logout or a revocation is acted on.
ActsAsAuthenticated ==
    request.phase = "handled" =>
        /\ request.valid_on_receipt
        /\ request.actor = ActorOf(request.credential)
        /\ request.credential.type = "api_token" =>
                api_tokens[request.credential.number].project = request.project
=============================================================================
