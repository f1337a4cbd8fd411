------------------------------ MODULE Sessions ------------------------------
(* SessionService, AuthService and JwtStrategy over Redis.  Redis executes a *)
(* command, a MULTI block or a script at one stroke; between two of them any *)
(* other request may run and time may pass, so a request is a sequence of    *)
(* steps, one for each call it makes.  A step that writes is either answered *)
(* (delivered) or applied with its answer lost, which ends the request with  *)
(* an error; a request may also fail before its next call.                   *)
(*                                                                           *)
(* The n-th refresh token of a session is the number n: a fresh random       *)
(* secret equals no earlier one, and SHA-256 is taken as injective.          *)
EXTENDS Naturals, FiniteSets

CONSTANTS Users,        \* accounts
          Sids,         \* session identifiers (randomUUID never repeats one)
          Reqs,         \* requests that may be in flight at once
          TTL,          \* REFRESH_TOKEN_EXPIRES_IN, in ticks
          MaxTokens,    \* bound: refresh tokens per session
          NoUser, NoSid

ASSUME TTLAssumption == TTL \in Nat \ {0}
ASSUME MaxTokensAssumption == MaxTokens \in Nat
ASSUME NoUserAssumption == NoUser \notin Users
ASSUME NoSidAssumption == NoSid \notin Sids

VARIABLES
    ttl,        \* auth:session:<sid>: time left to live, 0 when there is no key
    owner,      \* its userId; kept after the key is gone
    hash,       \* its refreshTokenHash: the number of the token; 0 if unused
    index,      \* auth:user:<id>:sessions, a set of session ids
    indexTtl,   \* its time left to live, 0 when there is no key
    active,     \* users findActiveById still finds
    req,        \* requests in flight
    granted,    \* refresh answers clients received: token `next` for `token`
    loggedOut,  \* history: sessions a logout or logout-all was answered for
    raced,      \* history: opened between a logout-all's read and its delete
    lagging     \* history: extended since the user's index last was

vars == <<ttl, owner, hash, index, indexTtl, active, req, granted,
          loggedOut, raced, lagging>>

redis == <<ttl, owner, hash, index, indexTtl>>
history == <<loggedOut, raced, lagging>>

PCs == {"idle", "eval", "expire", "find", "get", "del", "members", "delall"}
Ops == {"refresh", "me", "logout", "logout-all"}

Request == [pc : PCs, op : Ops, user : Users \cup {NoUser},
            sid : Sids \cup {NoSid}, token : Nat, next : Nat,
            snap : SUBSET Sids, owed : SUBSET Sids]

Grant == [sid : Sids, token : Nat, next : Nat]

Idle == [pc |-> "idle", op |-> "me", user |-> NoUser, sid |-> NoSid,
         token |-> 0, next |-> 0, snap |-> {}, owed |-> {}]

TypeOK ==
    /\ ttl \in [Sids -> 0..TTL]
    /\ owner \in [Sids -> Users \cup {NoUser}]
    /\ hash \in [Sids -> Nat]
    /\ index \in [Users -> SUBSET Sids]
    /\ indexTtl \in [Users -> 0..TTL]
    /\ active \in SUBSET Users
    /\ req \in [Reqs -> Request]
    /\ granted \in SUBSET Grant
    /\ loggedOut \in SUBSET Sids
    /\ raced \in SUBSET Sids
    /\ lagging \in SUBSET Sids

Live(s) == ttl[s] > 0

Init ==
    /\ ttl = [s \in Sids |-> 0]
    /\ owner = [s \in Sids |-> NoUser]
    /\ hash = [s \in Sids |-> 0]
    /\ index = [u \in Users |-> {}]
    /\ indexTtl = [u \in Users |-> 0]
    /\ active = Users
    /\ req = [r \in Reqs |-> Idle]
    /\ granted = {}
    /\ loggedOut = {}
    /\ raced = {}
    /\ lagging = {}

Answer(r) == req' = [req EXCEPT ![r] = Idle]

LifetimeOffByOne == TTL + 1

\* What create and rotate give a session, and create its user's index.
Lifetime == TTL

RenewMissingOnly(u) ==
    indexTtl' = [indexTtl EXCEPT ![u] = IF index[u] = {} THEN Lifetime ELSE @]

\* The EXPIRE in create's MULTI: the SADD before it has made the key exist.
RenewIndex(u) == indexTtl' = [indexTtl EXCEPT ![u] = Lifetime]

\* The EXPIRE at the end of rotate: without the key it does nothing.
ExpireIndex(u) ==
    /\ indexTtl' = [indexTtl EXCEPT ![u] = IF index[u] = {} THEN 0 ELSE Lifetime]
    /\ lagging' = lagging \ index[u]

-----------------------------------------------------------------------------
\* signup, login and the OAuth callback open a session: one MULTI writes the
\* session, adds it to its user's index and renews the index.
Create(u, s, delivered) ==
    /\ hash[s] = 0
    /\ ttl' = [ttl EXCEPT ![s] = Lifetime]
    /\ owner' = [owner EXCEPT ![s] = u]
    /\ hash' = [hash EXCEPT ![s] = 1]
    /\ index' = [index EXCEPT ![u] = @ \cup {s}]
    /\ RenewIndex(u)
    /\ granted' = granted \cup
            (IF delivered THEN {[sid |-> s, token |-> 0, next |-> 1]} ELSE {})
    /\ raced' = IF \E r \in Reqs : req[r].pc = "delall" /\ req[r].user = u
                THEN raced \cup {s} ELSE raced
    /\ lagging' = lagging \ index[u]
    /\ UNCHANGED <<active, req, loggedOut>>

-----------------------------------------------------------------------------
\* POST /auth/refresh, GET of the session: a token that is not the stored one
\* is refused here.
RotateGet(r, g) ==
    /\ req[r].pc = "idle"
    /\ g.next < MaxTokens
    /\ IF Live(g.sid) /\ hash[g.sid] = g.next
       THEN req' = [req EXCEPT ![r] =
                [pc |-> "eval", op |-> "refresh", user |-> owner[g.sid],
                 sid |-> g.sid, token |-> g.next, next |-> 0,
                 snap |-> {}, owed |-> {}]]
       ELSE UNCHANGED req
    /\ UNCHANGED <<redis, active, granted, history>>

FitsUncompared(r) == Live(req[r].sid)
FitsUnread(r) == hash[req[r].sid] = req[r].token

\* What the script finds: the session is still there, with the token's hash.
Fits(r) == Live(req[r].sid) /\ hash[req[r].sid] = req[r].token

\* The script compares the stored hash again and replaces it.
RotateEval(r, delivered) ==
    LET s == req[r].sid
    IN  /\ req[r].pc = "eval"
        /\ IF Fits(r)
           THEN /\ ttl' = [ttl EXCEPT ![s] = Lifetime]
                /\ hash' = [hash EXCEPT ![s] = @ + 1]
                /\ lagging' = lagging \cup {s}
           ELSE UNCHANGED <<ttl, hash, lagging>>
        /\ IF Fits(r) /\ delivered
           THEN req' = [req EXCEPT ![r].pc = "expire", ![r].next = hash[s] + 1]
           ELSE Answer(r)
        /\ UNCHANGED <<owner, index, indexTtl, active, granted, loggedOut, raced>>

\* The index is renewed by a call of its own; then the new token is answered.
RotateExpire(r, delivered) ==
    /\ req[r].pc = "expire"
    /\ ExpireIndex(req[r].user)
    /\ granted' = granted \cup
            (IF delivered THEN {[sid |-> req[r].sid, token |-> req[r].token,
                                 next |-> req[r].next]} ELSE {})
    /\ Answer(r)
    /\ UNCHANGED <<ttl, owner, hash, index, active, loggedOut, raced>>

-----------------------------------------------------------------------------
ExistsSliding(r, s, op) ==
    /\ req[r].pc = "idle"
    /\ Live(s)
    /\ ttl' = [ttl EXCEPT ![s] = Lifetime]
    /\ UNCHANGED <<owner, hash, index, indexTtl, active, req, granted, history>>

\* JwtAuthGuard, EXISTS of the session the access token names.
Exists(r, s, op) ==
    /\ req[r].pc = "idle"
    /\ \E g \in granted : g.sid = s
    /\ IF Live(s)
       THEN req' = [req EXCEPT ![r] =
                [pc |-> "find", op |-> op, user |-> owner[s], sid |-> s,
                 token |-> 0, next |-> 0, snap |-> {},
                 owed |-> IF op = "logout-all"
                          THEN {t \in Sids : Live(t) /\ owner[t] = owner[s]}
                          ELSE {}]]
       ELSE UNCHANGED req
    /\ UNCHANGED <<redis, active, granted, history>>

\* JwtAuthGuard, findActiveById; the handler the request asked for goes on.
FindUser(r) ==
    /\ req[r].pc = "find"
    /\ IF req[r].user \in active /\ req[r].op # "me"
       THEN req' = [req EXCEPT ![r].pc =
                IF req[r].op = "logout" THEN "get" ELSE "members"]
       ELSE Answer(r)
    /\ UNCHANGED <<redis, active, granted, history>>

\* POST /auth/logout reads the session; when it is gone the answer is "ok".
RevokeGet(r) ==
    LET s == req[r].sid
    IN  /\ req[r].pc = "get"
        /\ IF Live(s)
           THEN /\ req' = [req EXCEPT ![r].pc = "del"]
                /\ UNCHANGED loggedOut
           ELSE /\ Answer(r)
                /\ loggedOut' = loggedOut \cup {s}
        /\ UNCHANGED <<redis, active, granted, raced, lagging>>

\* ... then one MULTI deletes it and takes it out of its user's index.
RevokeDel(r, delivered) ==
    LET s == req[r].sid
        u == req[r].user
    IN  /\ req[r].pc = "del"
        /\ ttl' = [ttl EXCEPT ![s] = 0]
        /\ index' = [index EXCEPT ![u] = @ \ {s}]
        /\ indexTtl' = [indexTtl EXCEPT ![u] =
                            IF index[u] \subseteq {s} THEN 0 ELSE @]
        /\ loggedOut' = IF delivered THEN loggedOut \cup {s} ELSE loggedOut
        /\ Answer(r)
        /\ UNCHANGED <<owner, hash, active, granted, raced, lagging>>

ReadButOwn(r) == index[req[r].user] \ {req[r].sid}

ReadIndex(r) == index[req[r].user]

\* POST /auth/logout-all reads the user's index ...
Members(r) ==
    /\ req[r].pc = "members"
    /\ req' = [req EXCEPT ![r].pc = "delall", ![r].snap = ReadIndex(r)]
    /\ UNCHANGED <<redis, active, granted, history>>

\* ... then one MULTI deletes the sessions it read, and the whole index.
DeleteAll(r, delivered) ==
    LET u == req[r].user
    IN  /\ req[r].pc = "delall"
        /\ ttl' = [s \in Sids |-> IF s \in req[r].snap THEN 0 ELSE ttl[s]]
        /\ index' = [index EXCEPT ![u] = {}]
        /\ indexTtl' = [indexTtl EXCEPT ![u] = 0]
        /\ loggedOut' = IF delivered THEN loggedOut \cup req[r].snap
                                     ELSE loggedOut
        /\ Answer(r)
        /\ UNCHANGED <<owner, hash, active, granted, raced, lagging>>

-----------------------------------------------------------------------------
\* The next call of a request fails (retries exhausted, or the process dies).
Drop(r) ==
    /\ req[r].pc # "idle"
    /\ Answer(r)
    /\ UNCHANGED <<redis, active, granted, history>>

\* An account stops being active (nothing in the API does it yet).
Deactivate(u) ==
    /\ u \in active
    /\ active' = active \ {u}
    /\ UNCHANGED <<redis, req, granted, history>>

\* Time passes; Redis drops what has no time left.
Tick ==
    /\ ttl' = [s \in Sids |-> IF Live(s) THEN ttl[s] - 1 ELSE 0]
    /\ indexTtl' = [u \in Users |-> IF indexTtl[u] > 0 THEN indexTtl[u] - 1
                                                       ELSE 0]
    /\ index' = [u \in Users |-> IF indexTtl[u] > 1 THEN index[u] ELSE {}]
    /\ UNCHANGED <<owner, hash, active, req, granted, history>>

Step(r) ==
    \/ \E d \in BOOLEAN :
            RotateEval(r, d) \/ RotateExpire(r, d) \/ RevokeDel(r, d)
                \/ DeleteAll(r, d)
    \/ FindUser(r) \/ RevokeGet(r) \/ Members(r)

Begin(r) ==
    \/ \E g \in granted : RotateGet(r, g)
    \/ \E s \in Sids, op \in {"me", "logout", "logout-all"} : Exists(r, s, op)

Next ==
    \/ \E u \in Users, s \in Sids, d \in BOOLEAN : Create(u, s, d)
    \/ \E r \in Reqs : Begin(r) \/ Step(r) \/ Drop(r)
    \/ \E u \in Users : Deactivate(u)
    \/ Tick

Spec == Init /\ [][Next]_vars

\* Redis's clock does not stop.
FairSpec == Spec /\ WF_vars(Tick)

-----------------------------------------------------------------------------
(* Properties *)

\* A refresh token is exchanged at most once, counting the exchanges that wait
\* for the index to be renewed: with two, two holders would go on with the
\* session ("Refresh tokens are rotated on every use", README).  It rests on
\* the script comparing the hash again: two requests may both pass the GET.
RotationIsLinear ==
    /\ \A g, h \in granted : g.sid = h.sid /\ g.token = h.token => g = h
    /\ \A r \in Reqs : req[r].pc = "expire" =>
        /\ \A g \in granted : g.sid = req[r].sid => g.token # req[r].token
        /\ \A q \in Reqs \ {r} :
              req[q].pc = "expire" /\ req[q].sid = req[r].sid
                => req[q].token # req[r].token

\* A session somebody was told is logged out never works again, whatever
\* refresh was under way: the script may not bring back what a MULTI deleted.
LogoutIsFinal == \A s \in loggedOut : ~Live(s)

\* logout-all finds sessions through the index, so a live session must be in
\* it and may not outlive it.  Two things break that, and only they: a login
\* between the read and the delete of a logout-all, and a refresh that has not
\* yet (or never) renewed the index.
IndexCoversSessions ==
    \A s \in Sids :
        Live(s) /\ s \notin raced \cup lagging =>
            /\ s \in index[owner[s]]
            /\ ttl[s] <= indexTtl[owner[s]]

\* Every session that was live when a logout-all came in is gone when it is
\* answered, but for those two cases.
LogoutAllEndsIndexed ==
    [][\A r \in Reqs : DeleteAll(r, TRUE) =>
         \A s \in req[r].owed \ (raced \cup lagging) : ttl'[s] = 0]_vars

\* The same with no exception, as the README's description of logout-all
\* reads ("Logging out removes the Redis session").
LogoutAllEndsAll ==
    [][\A r \in Reqs : DeleteAll(r, TRUE) =>
         \A s \in req[r].owed : ttl'[s] = 0]_vars

\* A session whose token is not exchanged is eventually gone: nothing but a
\* rotation extends it, however often its access token is used.
Reclaimed ==
    \A s \in Sids, k \in 1..MaxTokens :
        (Live(s) /\ hash[s] = k) ~> (~Live(s) \/ hash[s] # k)

\* The store keeps what SessionLifecycle promises.
Status == [s \in Sids |-> IF hash[s] = 0 THEN "unborn"
                          ELSE IF Live(s) THEN "live" ELSE "closed"]

Lifecycle == INSTANCE SessionLifecycle WITH status <- Status, token <- hash

LifecycleSpec == Lifecycle!Spec
=============================================================================
