-------------------------- MODULE CloudflareSessions --------------------------
(***************************************************************************)
(* The sessions of the Cloudflare deployment. A login reads the account,   *)
(* inserts a row whose expiry the Worker takes from the clock in           *)
(* milliseconds, and then reads the memberships for its answer; a request  *)
(* looks its token up in one statement of D1 that compares the expiry with *)
(* the clock, both cut to whole seconds; a logout is an authenticated      *)
(* request that deletes the row; a scheduled event purges expired rows.    *)
(*                                                                         *)
(* A session stands for its token. Time is a counter up to the bound       *)
(* MaxTime, with Second ticks to a second. The Worker and D1 read the same *)
(* clock: a skew between their machines is left out.                       *)
(***************************************************************************)
EXTENDS Integers

CONSTANTS
    Sessions,   \* the logins of the model, each with the token it makes
    Requests,
    TTL,        \* SESSION_SECONDS, in ticks
    Second,     \* ticks, the Worker's milliseconds, to one of datetime()
    MaxTime,    \* bound: the clock stops here
    NoSession

ConstantsOK ==
    /\ NoSession \notin Sessions
    /\ TTL \in Nat \ {0} /\ Second \in Nat \ {0} /\ MaxTime \in Nat

VARIABLES
    now,        \* the clock
    login,      \* how far each login is; a failed one is answered with 500
    expires,    \* expires_at of each session
    rows,       \* auth_sessions
    pc,         \* how far each request is
    token,      \* the cookie it carries
    signedOut,  \* history: sessions a logout has deleted
    stale       \* history: requests that were sent after their session's end

vars == <<now, login, expires, rows, pc, token, signedOut, stale>>
history == <<signedOut, stale>>

TypeOK ==
    /\ now \in 0..MaxTime
    /\ login \in [Sessions -> {"new", "verified", "inserted", "open", "failed"}]
    /\ expires \in [Sessions -> 0..(MaxTime + TTL)]
    /\ rows \subseteq {s \in Sessions : login[s] \notin {"new", "verified"}}
    /\ pc \in [Requests -> {"idle", "asked", "authorised", "deleted", "refused"}]
    /\ token \in [Requests -> Sessions \union {NoSession}]
    /\ \A r \in Requests : pc[r] = "idle" <=> token[r] = NoSession
    /\ signedOut \subseteq Sessions
    /\ stale \subseteq Requests

Init ==
    /\ now = 0
    /\ login = [s \in Sessions |-> "new"]
    /\ expires = [s \in Sessions |-> 0]
    /\ rows = {}
    /\ pc = [r \in Requests |-> "idle"]
    /\ token = [r \in Requests |-> NoSession]
    /\ signedOut = {}
    /\ stale = {}

Tick ==
    /\ now < MaxTime
    /\ now' = now + 1
    /\ UNCHANGED <<login, expires, rows, pc, token, history>>

\* Mutant: the texts are compared, and an ISO date of today is greater than
\* any datetime() of today.
TextExpired(s) == FALSE

\* datetime(expires_at) <= datetime('now').
IsExpired(s) == expires[s] \div Second <= now \div Second

-----------------------------------------------------------------------------
\* login: the access key is right, the token and its expiry are made.
Verify(s) ==
    /\ login[s] = "new"
    /\ login' = [login EXCEPT ![s] = "verified"]
    /\ expires' = [expires EXCEPT ![s] = now + TTL]
    /\ UNCHANGED <<now, rows, pc, token, history>>

Insert(s) ==
    /\ login[s] = "verified"
    /\ rows' = rows \union {s}
    /\ login' = [login EXCEPT ![s] = "inserted"]
    /\ UNCHANGED <<now, expires, pc, token, history>>

\* membershipsForUser returns and the cookie is sent.
Answer(s) ==
    /\ login[s] = "inserted"
    /\ login' = [login EXCEPT ![s] = "open"]
    /\ UNCHANGED <<now, expires, rows, pc, token, history>>

\* A statement throws, or the answer is lost: a row without a cookie stays
\* until it is purged.
LoginFails(s) ==
    /\ login[s] \in {"verified", "inserted"}
    /\ login' = [login EXCEPT ![s] = "failed"]
    /\ UNCHANGED <<now, expires, rows, pc, token, history>>

Ended == signedOut \union {s \in Sessions : login[s] # "new" /\ expires[s] <= now}

\* A request arrives with a cookie, also one that has ended.
Send(r, s) ==
    /\ pc[r] = "idle"
    /\ login[s] = "open"
    /\ pc' = [pc EXCEPT ![r] = "asked"]
    /\ token' = [token EXCEPT ![r] = s]
    /\ stale' = IF s \in Ended THEN stale \union {r} ELSE stale
    /\ UNCHANGED <<now, login, expires, rows, signedOut>>

\* authenticate's statement; 401 if it finds no row.
Authenticate(r) ==
    /\ pc[r] = "asked"
    /\ pc' = [pc EXCEPT ![r] = IF token[r] \in rows /\ ~IsExpired(token[r])
                               THEN "authorised" ELSE "refused"]
    /\ UNCHANGED <<now, login, expires, rows, token, history>>

\* The answer is sent, also a 403 for a wrong CSRF token or role, or
\* anything throws.
End(r) ==
    /\ pc[r] # "idle"
    /\ pc' = [pc EXCEPT ![r] = "idle"]
    /\ token' = [token EXCEPT ![r] = NoSession]
    /\ stale' = stale \ {r}
    /\ UNCHANGED <<now, login, expires, rows, signedOut>>

\* logout: the DELETE of an authenticated request's token.
Logout(r) ==
    /\ pc[r] = "authorised"
    /\ rows' = rows \ {token[r]}
    /\ signedOut' = signedOut \union {token[r]}
    /\ pc' = [pc EXCEPT ![r] = "deleted"]
    /\ UNCHANGED <<now, login, expires, token, stale>>

\* scheduled: the purge.
Purge ==
    /\ rows' = {s \in rows : ~IsExpired(s)}
    /\ UNCHANGED <<now, login, expires, pc, token, history>>

Next ==
    \/ Tick
    \/ Purge
    \/ \E s \in Sessions : Verify(s) \/ Insert(s) \/ Answer(s) \/ LoginFails(s)
    \/ \E r \in Requests :
        \/ \E s \in Sessions : Send(r, s)
        \/ Authenticate(r)
        \/ End(r)
        \/ Logout(r)

Spec == Init /\ [][Next]_vars

-----------------------------------------------------------------------------
\* Sessions the store may refuse, a second before they end.
Fading == signedOut \union {s \in Sessions : login[s] # "new" /\ IsExpired(s)}

\* Requests that were sent before their session's end.
Entitled == {r \in Requests : pc[r] # "idle" /\ r \notin stale}

Told ==
    [r \in Requests |-> CASE pc[r] = "idle" -> "none"
                          [] pc[r] = "deleted" -> "authorised"
                          [] OTHER -> pc[r]]

Store == INSTANCE SessionStore WITH
    fading <- Fading, ended <- Ended, carries <- token, entitled <- Entitled,
    answer <- Told

\* No request is authorised by a session that had expired or was logged out
\* when it was sent, though the expiry was set in milliseconds and is compared
\* in whole seconds; and none is refused before the last second of its session,
\* whatever the purge removes (auth.ts:112-134, index.ts:555-557). It is about
\* how the expiry is cut and compared; a skew between the clocks of the Worker
\* and of D1 would move the end of a session by as much.
ImplementsSessionStore == Store!Spec
=============================================================================
