----------------------------- MODULE Sessions -----------------------------
(***************************************************************************)
(* Accounts and their sessions: sign-up, login, the rotation of refresh    *)
(* tokens, logout and the OIDC login of app/auth_service.py. A token is    *)
(* known by the number of its session; secrets and hashes are left out.    *)
(***************************************************************************)
EXTENDS Naturals, Sequences, FiniteSets

CONSTANTS
    Person,         \* people, and their e-mail addresses
    MaxSessions,    \* bound on the sessions
    MaxStates       \* bound on the OIDC logins begun

ASSUME SessionsAssumption == MaxSessions \in Nat /\ MaxStates \in Nat

VARIABLES
    users,          \* users, by address
    credentials,    \* user_credentials: those with a password
    identities,     \* oidc_identities: the user of each subject known
    sessions,       \* user_sessions, by number, each with its row of refresh_tokens
    oidc_states,    \* oidc_states, by number
    callbacks       \* callbacks between their two transactions

sessionVars == <<users, credentials, identities, sessions, oidc_states, callbacks>>

SessionInit ==
    /\ users = {}
    /\ credentials = {}
    /\ identities = << >>
    /\ sessions = << >>
    /\ oidc_states = << >>
    /\ callbacks = {}

\* A session and its refresh token: who they are for, the login they go back to, the
\* session they replace or 0, whether and how each has ended, and the OIDC state of the
\* login, or 0.
Issued(user, family, replaces, state) ==
    [ user |-> user, family |-> family, replaces |-> replaces, oidc_state |-> state,
      revoked |-> FALSE, expired |-> FALSE,
      refresh |-> "usable" ]    \* used, revoked, expired

SessionAlive(i) == ~sessions[i].revoked /\ ~sessions[i].expired

RefreshUsable(i) == sessions[i].refresh = "usable"

\* _create_session_and_refresh, for a login.
LogIn(user, state) ==
    /\ Len(sessions) < MaxSessions
    /\ sessions' = Append(sessions, Issued(user, Len(sessions) + 1, 0, state))

-----------------------------------------------------------------------------
\* create_user: an account with no password.
CreateAccount(p) ==
    /\ p \notin users
    /\ users' = users \cup {p}
    /\ UNCHANGED <<credentials, identities, sessions, oidc_states, callbacks>>

\* The first transaction of signup_with_password; the second is a login, which a crash
\* may leave out.
SignUp(p) ==
    /\ p \notin users
    /\ users' = users \cup {p}
    /\ credentials' = credentials \cup {p}
    /\ UNCHANGED <<identities, sessions, oidc_states, callbacks>>

\* login_with_password
LoginWithPassword(p) ==
    /\ p \in credentials
    /\ LogIn(p, 0)
    /\ UNCHANGED <<users, credentials, identities, oidc_states, callbacks>>

\* The rotation of session i's tokens.
Rotated(i, old) ==
    Append([sessions EXCEPT ![i] = old],
           Issued(sessions[i].user, sessions[i].family, i, 0))

\* A mutant: the old session goes on until it expires.
RefreshKeepsSession(i) ==
    /\ RefreshUsable(i)
    /\ Len(sessions) < MaxSessions
    /\ sessions' = Rotated(i, [sessions[i] EXCEPT !.refresh = "used"])
    /\ UNCHANGED <<users, credentials, identities, oidc_states, callbacks>>

\* A mutant: a revoked token is good for a new session.
RefreshRevoked(i) ==
    /\ sessions[i].refresh \in {"usable", "revoked"}
    /\ Len(sessions) < MaxSessions
    /\ sessions' = Rotated(i, [sessions[i] EXCEPT !.refresh = "used", !.revoked = TRUE])
    /\ UNCHANGED <<users, credentials, identities, oidc_states, callbacks>>

\* refresh_session
RefreshSession(i) ==
    /\ RefreshUsable(i)
    /\ Len(sessions) < MaxSessions
    /\ sessions' = Rotated(i, [sessions[i] EXCEPT !.refresh = "used", !.revoked = TRUE])
    /\ UNCHANGED <<users, credentials, identities, oidc_states, callbacks>>

\* logout_session, reached with the token of a living session: the middleware refuses any
\* other. (A session that ends between the two is as if it ended after the logout.)
LogoutSession(i) ==
    /\ SessionAlive(i)
    /\ sessions' = [sessions EXCEPT ![i].revoked = TRUE, ![i].refresh =
                        IF @ = "used" THEN @ ELSE "revoked"]
    /\ UNCHANGED <<users, credentials, identities, oidc_states, callbacks>>

\* expires_at passes: of the session after 14 days, of the refresh token after 30.
Expire(i) ==
    /\ sessions' =
            IF ~sessions[i].expired THEN [sessions EXCEPT ![i].expired = TRUE]
            ELSE [sessions EXCEPT ![i].refresh = IF @ = "usable" THEN "expired" ELSE @]
    /\ UNCHANGED <<users, credentials, identities, oidc_states, callbacks>>

-----------------------------------------------------------------------------
(* OIDC                                                                    *)

\* create_oidc_login_url
CreateOidcLogin ==
    /\ Len(oidc_states) < MaxStates
    /\ oidc_states' = Append(oidc_states, "pending")
    /\ UNCHANGED <<users, credentials, identities, sessions, callbacks>>

ExpireOidcState(s) ==
    /\ oidc_states[s] = "pending"
    /\ oidc_states' = [oidc_states EXCEPT ![s] = "expired"]
    /\ UNCHANGED <<users, credentials, identities, sessions, callbacks>>

\* A mutant: the state is not marked as used.
BeginCallbackAgain(s, subject, email) ==
    /\ oidc_states[s] = "pending"
    /\ callbacks' = callbacks \cup {[state |-> s, subject |-> subject, email |-> email]}
    /\ UNCHANGED <<users, credentials, identities, sessions, oidc_states>>

\* The first transaction of complete_oidc_callback. The provider says who it is that
\* logged in, and the person's address of the day.
BeginCallback(s, subject, email) ==
    /\ oidc_states[s] = "pending"
    /\ oidc_states' = [oidc_states EXCEPT ![s] = "used"]
    /\ callbacks' = callbacks \cup {[state |-> s, subject |-> subject, email |-> email]}
    /\ UNCHANGED <<users, credentials, identities, sessions>>

\* The code exchange fails, the claims are refused, or the server stops.
FailCallback(c) ==
    /\ callbacks' = callbacks \ {c}
    /\ UNCHANGED <<users, credentials, identities, sessions, oidc_states>>

\* The second transaction: a subject not seen before is given the user with the
\* address, or a new one.
FinishCallback(c) ==
    LET user == IF c.subject \in DOMAIN identities THEN identities[c.subject] ELSE c.email
    IN  /\ callbacks' = callbacks \ {c}
        /\ users' = users \cup {user}
        /\ identities' = [x \in DOMAIN identities \cup {c.subject} |->
                            IF x = c.subject THEN user ELSE identities[x]]
        /\ LogIn(user, c.state)
        /\ UNCHANGED <<credentials, oidc_states>>

SessionNext ==
    \/ \E p \in Person : CreateAccount(p) \/ SignUp(p) \/ LoginWithPassword(p)
    \/ \E i \in DOMAIN sessions : RefreshSession(i) \/ LogoutSession(i) \/ Expire(i)
    \/ CreateOidcLogin
    \/ \E s \in DOMAIN oidc_states :
        \/ ExpireOidcState(s)
        \/ \E subject, email \in Person : BeginCallback(s, subject, email)
    \/ \E c \in callbacks : FailCallback(c) \/ FinishCallback(c)

SessionSpec == SessionInit /\ [][SessionNext]_sessionVars

-----------------------------------------------------------------------------
(* Properties                                                              *)

SessionTypeOK ==
    /\ users \subseteq Person /\ credentials \subseteq users
    /\ DOMAIN identities \subseteq Person
    /\ \A x \in DOMAIN identities : identities[x] \in users
    /\ \A i \in DOMAIN sessions :
        /\ sessions[i].user \in users
        /\ sessions[i].family \in 1..i
        /\ sessions[i].replaces \in 0..(i - 1)
        /\ sessions[i].refresh \in {"usable", "used", "revoked", "expired"}

\* A session and its refresh token end together: who has logged out, or has been
\* rotated out, cannot come back with the token of that session.
EndsTogether == \A i \in DOMAIN sessions : sessions[i].revoked => ~RefreshUsable(i)

\* However often a login is renewed, with whatever old token, only its newest session
\* and refresh token are of use, and they end together: "refresh tokens are one-time-use".
OnlyNewestLives ==
    /\ EndsTogether
    /\ \A i, j \in DOMAIN sessions :
        i < j /\ sessions[i].family = sessions[j].family =>
            sessions[i].revoked /\ sessions[i].refresh = "used"

Ended(family) ==
    \A i \in DOMAIN sessions :
        sessions[i].family = family => ~SessionAlive(i) /\ ~RefreshUsable(i)

\* A login that has ended, by logout or by time, never comes back to life.
EndedStaysEnded ==
    [][\A i \in DOMAIN sessions : Ended(sessions[i].family) => Ended(sessions[i].family)']_sessionVars

\* One OIDC login gives at most one session, also when its callback is called twice.
OneSessionPerLogin ==
    \A i, j \in DOMAIN sessions :
        sessions[i].oidc_state = sessions[j].oidc_state => i = j \/ sessions[i].oidc_state = 0
=============================================================================
