---------------------------- MODULE PanelSessions ----------------------------
(***************************************************************************)
(* The sessions of the administration panel of the FastAPI service. A      *)
(* login puts a row into auth_sessions, with an expiry computed before the *)
(* transaction, and purges the rows that have expired; an authenticated    *)
(* request looks its token up, with the time it read before the lookup; a  *)
(* logout is an authenticated request that deletes the row it was          *)
(* authorised by. None of these are one transaction.                       *)
(*                                                                         *)
(* A session stands for its token, and each login makes a new one. Time is *)
(* a counter up to the bound MaxTime.                                      *)
(***************************************************************************)
EXTENDS Integers, FiniteSets

CONSTANTS
    Sessions,   \* the logins of the model, each with the token it makes
    Requests,
    TTL,        \* session_ttl_hours
    MaxTime,    \* bound: the clock stops here
    NoSession

ConstantsOK ==
    /\ NoSession \notin Sessions
    /\ TTL \in Nat \ {0}
    /\ MaxTime \in Nat

VARIABLES
    now,        \* the clock
    login,      \* how far each login is; a failed one is answered with 500
    expires,    \* expires_at of each session
    rows,       \* auth_sessions
    pc,         \* how far each request is
    token,      \* the cookie it carries
    asked,      \* the time it compares the expiry with
    signedOut,  \* history: sessions a logout has deleted
    late        \* history: requests that were sent after that

vars == <<now, login, expires, rows, pc, token, asked, signedOut, late>>
logins == <<login, expires>>
requests == <<pc, token, asked>>
history == <<signedOut, late>>

TypeOK ==
    /\ now \in 0..MaxTime
    /\ login \in [Sessions -> {"new", "verified", "open", "failed"}]
    /\ expires \in [Sessions -> 0..(MaxTime + TTL)]
    /\ rows \subseteq {s \in Sessions : login[s] \in {"open", "failed"}}
    /\ pc \in [Requests -> {"idle", "asked", "authorised", "deleted", "refused"}]
    /\ token \in [Requests -> Sessions \union {NoSession}]
    /\ asked \in [Requests -> 0..now]
    /\ \A r \in Requests : pc[r] = "idle" <=> token[r] = NoSession
    /\ signedOut \subseteq Sessions
    /\ late \subseteq {r \in Requests : token[r] \in signedOut}

Init ==
    /\ now = 0
    /\ login = [s \in Sessions |-> "new"]
    /\ expires = [s \in Sessions |-> 0]
    /\ rows = {}
    /\ pc = [r \in Requests |-> "idle"]
    /\ token = [r \in Requests |-> NoSession]
    /\ asked = [r \in Requests |-> 0]
    /\ signedOut = {}
    /\ late = {}

Tick ==
    /\ now < MaxTime
    /\ now' = now + 1
    /\ UNCHANGED <<logins, rows, requests, history>>

-----------------------------------------------------------------------------
(* login.                                                                   *)

\* The password is right: the token and its expiry are made.
Verify(s) ==
    /\ login[s] = "new"
    /\ login' = [login EXCEPT ![s] = "verified"]
    /\ expires' = [expires EXCEPT ![s] = now + TTL]
    /\ UNCHANGED <<now, rows, requests, history>>

\* Mutant: the purge compares the login's own time with the wrong end.
OlderThan(time) == {s \in rows : expires[s] <= time + TTL}

Expired(time) == {s \in rows : expires[s] <= time}

\* create_session commits: the purge, with a time read at some point of the
\* login, and the new row. The answer may be lost.
Create(s) ==
    /\ login[s] = "verified"
    /\ \E time \in (expires[s] - TTL)..now :
        rows' = (rows \ Expired(time)) \union {s}
    /\ \E outcome \in {"open", "failed"} :
        login' = [login EXCEPT ![s] = outcome]
    /\ UNCHANGED <<now, expires, requests, history>>

CreateFails(s) ==
    /\ login[s] = "verified"
    /\ login' = [login EXCEPT ![s] = "failed"]
    /\ UNCHANGED <<now, expires, rows, requests, history>>

-----------------------------------------------------------------------------
(* Requests. Any request may carry a cookie, also one that was logged out   *)
(* or has expired.                                                          *)

\* authenticated_user is called: the time is read before the lookup.
Send(r, s) ==
    /\ pc[r] = "idle"
    /\ login[s] = "open"
    /\ pc' = [pc EXCEPT ![r] = "asked"]
    /\ token' = [token EXCEPT ![r] = s]
    /\ asked' = [asked EXCEPT ![r] = now]
    /\ late' = IF s \in signedOut THEN late \union {r} ELSE late
    /\ UNCHANGED <<now, logins, rows, signedOut>>

\* Mutant: the lookup does not compare the expiry.
Present(r) == token[r] \in rows

\* get_session finds the row.
Valid(r) == token[r] \in rows /\ expires[token[r]] > asked[r]

Authorise(r) ==
    /\ pc[r] = "asked"
    /\ Valid(r)
    /\ pc' = [pc EXCEPT ![r] = "authorised"]
    /\ UNCHANGED <<now, logins, rows, token, asked, history>>

\* The lookup finds nothing: 401 is answered.
Refuse(r) ==
    /\ pc[r] = "asked"
    /\ ~Valid(r)
    /\ pc' = [pc EXCEPT ![r] = "refused"]
    /\ UNCHANGED <<now, logins, rows, token, asked, history>>

\* The request is over, and request.state with it.
Leave(r) ==
    /\ pc' = [pc EXCEPT ![r] = "idle"]
    /\ token' = [token EXCEPT ![r] = NoSession]
    /\ asked' = [asked EXCEPT ![r] = 0]
    /\ late' = late \ {r}

\* The answer is sent, or anything raises.
End(r) ==
    /\ pc[r] # "idle"
    /\ Leave(r)
    /\ UNCHANGED <<now, logins, rows, signedOut>>

\* Mutant: the logout only forgets its cookie.
KeepRow(s) == rows

WithoutRow(s) == rows \ {s}

\* logout: delete_session commits. A row that is gone is not an error.
DeleteSession(r) ==
    /\ pc[r] = "authorised"
    /\ rows' = WithoutRow(token[r])
    /\ signedOut' = signedOut \union {token[r]}
    /\ pc' = [pc EXCEPT ![r] = "deleted"]
    /\ UNCHANGED <<now, logins, token, asked, late>>

-----------------------------------------------------------------------------
Next ==
    \/ Tick
    \/ \E s \in Sessions : Verify(s) \/ Create(s) \/ CreateFails(s)
    \/ \E r \in Requests :
        \/ \E s \in Sessions : Send(r, s)
        \/ Authorise(r)
        \/ Refuse(r)
        \/ End(r)
        \/ DeleteSession(r)

Spec == Init /\ [][Next]_vars

-----------------------------------------------------------------------------
(* Properties.                                                              *)

Ended == signedOut \union {s \in Sessions : login[s] # "new" /\ expires[s] <= now}

\* Requests sent neither after a logout of their session nor after its expiry.
Entitled == {r \in Requests : /\ pc[r] # "idle"
                              /\ r \notin late
                              /\ expires[token[r]] > asked[r]}

Answer ==
    [r \in Requests |-> CASE pc[r] = "idle" -> "none"
                          [] pc[r] = "deleted" -> "authorised"
                          [] OTHER -> pc[r]]

Store == INSTANCE SessionStore WITH
    fading <- Ended, ended <- Ended, carries <- token, entitled <- Entitled,
    answer <- Answer

\* No request is authorised by a session that had expired when it was sent, or
\* that a logout had deleted by then, and none is refused while its session is
\* open: no other login's purge and no other session's logout removes it,
\* whatever the logins, purges and lookups in between
\* (repositories.py:59-63, 74-103).
ImplementsSessionStore == Store!Spec
=============================================================================
