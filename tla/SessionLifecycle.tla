-------------------------- MODULE SessionLifecycle --------------------------
(* What the session store promises its callers, with no Redis in sight: a   *)
(* session is opened once, its refresh token is exchanged only while the    *)
(* session is live and always for the next one, and a session that has been *)
(* closed (by logout, by logout-all or by expiry) stays closed.             *)
EXTENDS Naturals

CONSTANT Sids           \* session identifiers

VARIABLES status,       \* status[s]: "unborn", "live" or "closed"
          token         \* token[s]: number of the refresh token that is good

vars == <<status, token>>

Init ==
    /\ status = [s \in Sids |-> "unborn"]
    /\ token = [s \in Sids |-> 0]

\* A login hands out session s with its first refresh token.
Open(s) ==
    /\ status[s] = "unborn"
    /\ status' = [status EXCEPT ![s] = "live"]
    /\ token' = [token EXCEPT ![s] = 1]

\* The good refresh token of s is exchanged for the next one.
Exchange(s) ==
    /\ status[s] = "live"
    /\ token' = [token EXCEPT ![s] = @ + 1]
    /\ UNCHANGED status

\* A set of live sessions ends at one stroke.
Close(S) ==
    /\ \A s \in S : status[s] = "live"
    /\ status' = [s \in Sids |-> IF s \in S THEN "closed" ELSE status[s]]
    /\ UNCHANGED token

Next ==
    \/ \E s \in Sids : Open(s) \/ Exchange(s)
    \/ \E S \in SUBSET Sids : Close(S)

Spec == Init /\ [][Next]_vars
=============================================================================
