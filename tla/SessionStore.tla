----------------------------- MODULE SessionStore -----------------------------
(***************************************************************************)
(* What a store of login sessions promises, whichever of the two           *)
(* deployments keeps it: a request is authorised only by a session that    *)
(* had not ended when the request was sent, and it is answered 401 only    *)
(* when its session is at its end. A session ends by a logout or by its    *)
(* expiry; a store may give one up somewhat before it ends, from when it   *)
(* fades. A request may also be abandoned at any time.                     *)
(***************************************************************************)
CONSTANTS Sessions, Requests, NoSession

VARIABLES
    fading,     \* sessions the store may refuse
    ended,      \* sessions it must refuse to the requests sent from now on
    carries,    \* the session a request presents
    entitled,   \* requests whose session had not ended when they were sent
    answer      \* what the store says of a request

vars == <<fading, ended, carries, entitled, answer>>

Init ==
    /\ fading = {}
    /\ ended = {}
    /\ carries = [r \in Requests |-> NoSession]
    /\ entitled = {}
    /\ answer = [r \in Requests |-> "none"]

\* Time passes, or a session is logged out.
Fade ==
    /\ fading \subseteq fading' /\ fading' \subseteq Sessions
    /\ ended \subseteq ended' /\ ended' \subseteq fading'
    /\ UNCHANGED <<carries, entitled, answer>>

Ask(r, s) ==
    /\ answer[r] = "none"
    /\ carries' = [carries EXCEPT ![r] = s]
    /\ entitled' = IF s \in ended THEN entitled ELSE entitled \union {r}
    /\ answer' = [answer EXCEPT ![r] = "asked"]
    /\ UNCHANGED <<fading, ended>>

Authorise(r) ==
    /\ answer[r] = "asked"
    /\ r \in entitled
    /\ answer' = [answer EXCEPT ![r] = "authorised"]
    /\ UNCHANGED <<fading, ended, carries, entitled>>

Refuse(r) ==
    /\ answer[r] = "asked"
    /\ carries[r] \in fading
    /\ answer' = [answer EXCEPT ![r] = "refused"]
    /\ UNCHANGED <<fading, ended, carries, entitled>>

Leave(r) ==
    /\ answer[r] # "none"
    /\ carries' = [carries EXCEPT ![r] = NoSession]
    /\ entitled' = entitled \ {r}
    /\ answer' = [answer EXCEPT ![r] = "none"]
    /\ UNCHANGED <<fading, ended>>

Next ==
    \/ Fade
    \/ \E r \in Requests :
        \/ \E s \in Sessions : Ask(r, s)
        \/ Authorise(r)
        \/ Refuse(r)
        \/ Leave(r)

Spec == Init /\ [][Next]_vars
=============================================================================
