--------------------------- MODULE SessionsProofs ---------------------------
(* Safety of Sessions for any users, sessions, requests, lifetimes.          *)
EXTENDS Sessions, TLAPS

\* A session has an owner once it was opened, and lives only then.
Born ==
    \A s \in Sids :
        /\ hash[s] = 0 <=> owner[s] = NoUser
        /\ Live(s) => hash[s] > 0

IndexOwned == \A u \in Users : \A s \in index[u] : owner[s] = u

GrantsOld == \A g \in granted : g.next = g.token + 1 /\ g.next <= hash[g.sid]

\* A request that has read a session keeps its owner.
ReqOwner ==
    \A r \in Reqs : req[r].pc # "idle" =>
        /\ req[r].sid \in Sids
        /\ req[r].user \in Users
        /\ owner[req[r].sid] = req[r].user
        /\ \A s \in req[r].owed \cup req[r].snap : owner[s] = req[r].user

ReqToken ==
    \A r \in Reqs :
        /\ req[r].pc = "eval" => req[r].token <= hash[req[r].sid]
        /\ req[r].pc = "expire" =>
            req[r].next = req[r].token + 1 /\ req[r].next <= hash[req[r].sid]

\* What a logout-all is about to delete still covers the index.
SnapCovers ==
    \A r \in Reqs : req[r].pc = "delall" =>
        /\ index[req[r].user] \subseteq req[r].snap \cup raced
        /\ \A s \in req[r].owed : Live(s) /\ s \notin raced \cup lagging
                                    => s \in req[r].snap

LoggedOutBorn == \A s \in loggedOut : hash[s] > 0 /\ ~Live(s)

Inv ==
    /\ TypeOK
    /\ Born
    /\ IndexOwned
    /\ GrantsOld
    /\ ReqOwner
    /\ ReqToken
    /\ SnapCovers
    /\ LoggedOutBorn
    /\ RotationIsLinear
    /\ IndexCoversSessions
-----------------------------------------------------------------------------
\* No request, index entry, grant or answered logout names a session before it
\* is opened.
LEMMA CreateKeeps ==
    ASSUME Inv, NEW u \in Users, NEW s \in Sids, NEW d \in BOOLEAN, Create(u,
           s, d)
    PROVE  Inv'
<1> USE DEF Inv, TypeOK, Create, RenewIndex, Lifetime
<1>1. TypeOK'
    BY TTLAssumption DEF Grant
<1>2. Born'
    BY NoUserAssumption DEF Born, Live
<1>3. IndexOwned'
    BY NoUserAssumption DEF IndexOwned, Born
<1>4. GrantsOld'
    BY DEF GrantsOld, Grant
<1>5. ReqOwner'
    BY NoUserAssumption DEF ReqOwner, Born, Request
<1>6. ReqToken'
    BY DEF ReqToken, Request
<1>7. SnapCovers'
    BY NoUserAssumption DEF SnapCovers, ReqOwner, Born, IndexOwned, Live,
         Request
<1>8. LoggedOutBorn'
    BY DEF LoggedOutBorn, Live
<1>9. RotationIsLinear'
    BY DEF RotationIsLinear, GrantsOld, ReqToken, ReqOwner, Grant, Request
<1>10. IndexCoversSessions'
    BY NoUserAssumption, TTLAssumption DEF IndexCoversSessions, IndexOwned,
         Born, Live
<1> QED BY <1>1, <1>2, <1>3, <1>4, <1>5, <1>6, <1>7, <1>8, <1>9, <1>10 DEF Inv

\* The session the GET returned is live, so it has an owner.
LEMMA RotateGetKeeps ==
    ASSUME Inv, NEW r \in Reqs, NEW g \in granted, RotateGet(r, g)
    PROVE  Inv'
<1> USE DEF Inv, TypeOK, RotateGet, redis, history
<1>1. TypeOK'
    BY DEF Request, PCs, Ops, Grant
<1>2. ReqOwner'
    BY DEF ReqOwner, Born, Live, Grant, Request
<1>3. ReqToken'
    BY DEF ReqToken, Grant, Request
<1>4. SnapCovers'
    BY DEF SnapCovers, Live
<1>5. RotationIsLinear'
    BY DEF RotationIsLinear, Grant
<1>6. Born' /\ IndexOwned' /\ GrantsOld' /\ LoggedOutBorn' /\
       IndexCoversSessions'
    BY DEF Born, IndexOwned, GrantsOld, LoggedOutBorn, IndexCoversSessions,
         Live
<1> QED BY <1>1, <1>2, <1>3, <1>4, <1>5, <1>6 DEF Inv

\* The script replaces the newest token only, so no grant and no other request
\* in flight is for the same token; the session it extends lags.
LEMMA RotateEvalKeeps ==
    ASSUME Inv, NEW r \in Reqs, NEW d \in BOOLEAN, RotateEval(r, d)
    PROVE  Inv'
<1> USE DEF Inv, TypeOK, RotateEval, Fits, Lifetime, Answer, Idle
<1>1. TypeOK'
    BY TTLAssumption, NoUserAssumption, NoSidAssumption DEF Request, PCs,
         Ops, ReqOwner
<1>2. Born'
    BY DEF Born, Live, ReqOwner
<1>3. GrantsOld'
    BY DEF GrantsOld, Grant
<1>4. ReqOwner'
    <2>1. \A q \in Reqs : req'[q].pc # "idle" =>
            /\ req[q].pc # "idle"
            /\ req'[q].sid = req[q].sid /\ req'[q].user = req[q].user
            /\ req'[q].owed = req[q].owed /\ req'[q].snap = req[q].snap
        BY DEF Request
    <2> QED BY <2>1 DEF ReqOwner
<1>5. ReqToken'
    BY DEF ReqToken, ReqOwner, Request
<1>6. SnapCovers'
    BY DEF SnapCovers, Live, Request
<1>7. LoggedOutBorn'
    BY DEF LoggedOutBorn, Live
<1>8. RotationIsLinear'
    BY DEF RotationIsLinear, ReqOwner, GrantsOld, ReqToken, Grant, Request
<1>9. IndexCoversSessions'
    BY DEF IndexCoversSessions, Live
<1>10. IndexOwned'
    BY DEF IndexOwned
<1> QED BY <1>1, <1>2, <1>3, <1>4, <1>5, <1>6, <1>7, <1>8, <1>9, <1>10 DEF Inv

\* What the renewed index holds no longer lags, and does not outlive it.
LEMMA RotateExpireKeeps ==
    ASSUME Inv, NEW r \in Reqs, NEW d \in BOOLEAN, RotateExpire(r, d)
    PROVE  Inv'
<1> USE DEF Inv, TypeOK, RotateExpire, ExpireIndex, Lifetime, Answer, Idle
<1>1. TypeOK'
    BY TTLAssumption, NoUserAssumption, NoSidAssumption DEF Request, PCs,
         Ops, Grant, ReqOwner
<1>2. GrantsOld'
    BY DEF GrantsOld, Grant, ReqToken, ReqOwner, Request
<1>3. ReqOwner'
    BY DEF ReqOwner, Request
<1>4. ReqToken'
    BY DEF ReqToken, Request
<1>5. SnapCovers'
    BY DEF SnapCovers, Live, Request, ReqOwner, IndexOwned
<1>6. RotationIsLinear'
    BY DEF RotationIsLinear, Grant, Request
<1>7. IndexCoversSessions'
    BY TTLAssumption DEF IndexCoversSessions, Live, IndexOwned, ReqOwner
<1>8. Born' /\ IndexOwned' /\ LoggedOutBorn'
    BY DEF Born, IndexOwned, LoggedOutBorn, Live
<1> QED BY <1>1, <1>2, <1>3, <1>4, <1>5, <1>6, <1>7, <1>8 DEF Inv

\* The session is live, so it has an owner, whose sessions a logout-all owes.
LEMMA ExistsKeeps ==
    ASSUME Inv, NEW r \in Reqs, NEW s \in Sids, NEW op \in {"me", "logout",
           "logout-all"}, Exists(r, s, op)
    PROVE  Inv'
<1> USE DEF Inv, TypeOK, Exists, redis, history
<1>1. TypeOK'
    BY DEF Request, PCs, Ops
<1>2. ReqOwner'
    BY DEF ReqOwner, Born, Live, Request
<1>3. ReqToken'
    BY DEF ReqToken, Request
<1>4. SnapCovers'
    BY DEF SnapCovers, Live
<1>5. RotationIsLinear'
    BY DEF RotationIsLinear
<1>6. Born' /\ IndexOwned' /\ GrantsOld' /\ LoggedOutBorn' /\
       IndexCoversSessions'
    BY DEF Born, IndexOwned, GrantsOld, LoggedOutBorn, IndexCoversSessions,
         Live
<1> QED BY <1>1, <1>2, <1>3, <1>4, <1>5, <1>6 DEF Inv

\* Nothing but the request moves.
LEMMA FindUserKeeps ==
    ASSUME Inv, NEW r \in Reqs, FindUser(r)
    PROVE  Inv'
<1> USE DEF Inv, TypeOK, FindUser, Answer, Idle, redis, history
<1>1. TypeOK'
    BY NoUserAssumption, NoSidAssumption DEF Request, PCs, Ops
<1>2. ReqOwner'
    BY DEF ReqOwner, Request
<1>3. ReqToken'
    BY DEF ReqToken, Request
<1>4. SnapCovers'
    BY DEF SnapCovers, Live, Request
<1>5. RotationIsLinear'
    <2>1. \A q \in Reqs : req'[q].pc = "expire" => req'[q] = req[q]
        BY DEF Request
    <2> QED BY <2>1 DEF RotationIsLinear
<1>6. Born' /\ IndexOwned' /\ GrantsOld' /\ LoggedOutBorn' /\
       IndexCoversSessions'
    BY DEF Born, IndexOwned, GrantsOld, LoggedOutBorn, IndexCoversSessions,
         Live
<1> QED BY <1>1, <1>2, <1>3, <1>4, <1>5, <1>6 DEF Inv

\* A session found gone was opened once, so it cannot be opened again.
LEMMA RevokeGetKeeps ==
    ASSUME Inv, NEW r \in Reqs, RevokeGet(r)
    PROVE  Inv'
<1> USE DEF Inv, TypeOK, RevokeGet, Answer, Idle, redis
<1>1. TypeOK'
    BY NoUserAssumption, NoSidAssumption DEF Request, PCs, Ops, ReqOwner
<1>2. ReqOwner'
    <2>1. \A q \in Reqs : req'[q].pc # "idle" =>
            /\ req[q].pc # "idle"
            /\ req'[q].sid = req[q].sid /\ req'[q].user = req[q].user
            /\ req'[q].owed = req[q].owed /\ req'[q].snap = req[q].snap
        BY DEF Request
    <2> QED BY <2>1 DEF ReqOwner
<1>3. ReqToken'
    BY DEF ReqToken, Request
<1>4. SnapCovers'
    BY DEF SnapCovers, Live, Request
<1>5. LoggedOutBorn'
    BY NoUserAssumption DEF LoggedOutBorn, Live, Born, ReqOwner
<1>6. RotationIsLinear'
    BY DEF RotationIsLinear, Request
<1>7. Born' /\ IndexOwned' /\ GrantsOld' /\ IndexCoversSessions'
    BY DEF Born, IndexOwned, GrantsOld, IndexCoversSessions, Live
<1> QED BY <1>1, <1>2, <1>3, <1>4, <1>5, <1>6, <1>7 DEF Inv

\* The entry that leaves the index is that of the session that is deleted.
LEMMA RevokeDelKeeps ==
    ASSUME Inv, NEW r \in Reqs, NEW d \in BOOLEAN, RevokeDel(r, d)
    PROVE  Inv'
<1> USE DEF Inv, TypeOK, RevokeDel, Answer, Idle
<1>1. TypeOK'
    BY TTLAssumption, NoUserAssumption, NoSidAssumption DEF Request, PCs,
         Ops, ReqOwner
<1>2. Born'
    BY DEF Born, Live
<1>3. IndexOwned'
    BY DEF IndexOwned
<1>4. ReqOwner'
    BY DEF ReqOwner, Request
<1>5. ReqToken'
    BY DEF ReqToken, Request
<1>6. SnapCovers'
    BY DEF SnapCovers, Live, Request
<1>7. LoggedOutBorn'
    BY NoUserAssumption DEF LoggedOutBorn, Live, Born, ReqOwner
<1>8. RotationIsLinear'
    BY DEF RotationIsLinear
<1>9. IndexCoversSessions'
    BY DEF IndexCoversSessions, Live, IndexOwned, ReqOwner
<1>10. GrantsOld'
    BY DEF GrantsOld
<1> QED BY <1>1, <1>2, <1>3, <1>4, <1>5, <1>6, <1>7, <1>8, <1>9, <1>10 DEF Inv

\* What the read misses of the sessions owed is excused: the index covers the
\* others.
LEMMA MembersKeeps ==
    ASSUME Inv, NEW r \in Reqs, Members(r)
    PROVE  Inv'
<1> USE DEF Inv, TypeOK, Members, ReadIndex, redis, history
<1>1. TypeOK'
    <2>1. req[r] \in Request  OBVIOUS
    <2>2. index[req[r].user] \in SUBSET Sids  BY DEF ReqOwner
    <2>3. req' \in [Reqs -> Request]
        BY <2>1, <2>2 DEF Request, PCs, Ops
    <2> QED BY <2>3
<1>2. ReqOwner'
    BY DEF ReqOwner, IndexOwned, Request
<1>3. ReqToken'
    BY DEF ReqToken, Request
<1>4. SnapCovers'
    BY DEF SnapCovers, Live, ReqOwner, IndexCoversSessions, Request
<1>5. RotationIsLinear'
    BY DEF RotationIsLinear
<1>6. Born' /\ IndexOwned' /\ GrantsOld' /\ LoggedOutBorn' /\
       IndexCoversSessions'
    BY DEF Born, IndexOwned, GrantsOld, LoggedOutBorn, IndexCoversSessions,
         Live
<1> QED BY <1>1, <1>2, <1>3, <1>4, <1>5, <1>6 DEF Inv

\* An entry that leaves the index names a session that is deleted or raced.
LEMMA DeleteAllKeeps ==
    ASSUME Inv, NEW r \in Reqs, NEW d \in BOOLEAN, DeleteAll(r, d)
    PROVE  Inv'
<1> USE DEF Inv, TypeOK, DeleteAll, Answer, Idle
<1>1. TypeOK'
    <2>1. req[r].snap \in SUBSET Sids  BY DEF Request
    <2>2a. ttl' \in [Sids -> 0..TTL]  BY TTLAssumption
    <2>2b. index' \in [Users -> SUBSET Sids]  OBVIOUS
    <2>2c. 0 \in 0..TTL  BY TTLAssumption
    <2>2d. indexTtl' \in [Users -> 0..TTL]  BY <2>2c
    <2>3. req' \in [Reqs -> Request]
        BY NoUserAssumption, NoSidAssumption DEF Request, PCs, Ops
    <2>4. loggedOut' \in SUBSET Sids  BY <2>1
    <2> QED BY <2>2a, <2>2b, <2>2d, <2>3, <2>4
<1>2. Born'
    BY DEF Born, Live
<1>3. IndexOwned'
    BY DEF IndexOwned
<1>4. ReqOwner'
    BY DEF ReqOwner, Request
<1>5. ReqToken'
    BY DEF ReqToken, Request
<1>6. SnapCovers'
    BY DEF SnapCovers, Live, Request
<1>7. LoggedOutBorn'
    BY NoUserAssumption DEF LoggedOutBorn, Live, Born, ReqOwner, Request
<1>8. RotationIsLinear'
    BY DEF RotationIsLinear
<1>9. IndexCoversSessions'
    BY DEF IndexCoversSessions, Live, SnapCovers, ReqOwner, IndexOwned
<1>10. GrantsOld'
    BY DEF GrantsOld
<1> QED BY <1>1, <1>2, <1>3, <1>4, <1>5, <1>6, <1>7, <1>8, <1>9, <1>10 DEF Inv

\* The request is forgotten.
LEMMA DropKeeps ==
    ASSUME Inv, NEW r \in Reqs, Drop(r)
    PROVE  Inv'
<1> USE DEF Inv, TypeOK, Drop, Answer, Idle, redis, history
<1>1. TypeOK'
    BY NoUserAssumption, NoSidAssumption DEF Request, PCs, Ops
<1>2. ReqOwner'
    BY DEF ReqOwner
<1>3. ReqToken'
    BY DEF ReqToken
<1>4. SnapCovers'
    BY DEF SnapCovers, Live
<1>5. RotationIsLinear'
    BY DEF RotationIsLinear
<1>6. Born' /\ IndexOwned' /\ GrantsOld' /\ LoggedOutBorn' /\
       IndexCoversSessions'
    BY DEF Born, IndexOwned, GrantsOld, LoggedOutBorn, IndexCoversSessions,
         Live
<1> QED BY <1>1, <1>2, <1>3, <1>4, <1>5, <1>6 DEF Inv

\* Accounts and sessions are apart.
LEMMA DeactivateKeeps ==
    ASSUME Inv, NEW u \in Users, Deactivate(u)
    PROVE  Inv'
<1> USE DEF Inv, TypeOK, Deactivate, redis, history
<1>1. TypeOK'
    OBVIOUS
<1>2. Born' /\ IndexOwned' /\ GrantsOld' /\ ReqOwner' /\ ReqToken' /\
       SnapCovers' /\ LoggedOutBorn' /\ RotationIsLinear' /\
       IndexCoversSessions'
    BY DEF Born, IndexOwned, GrantsOld, ReqOwner, ReqToken, SnapCovers,
         LoggedOutBorn, RotationIsLinear, IndexCoversSessions, Live
<1> QED BY <1>1, <1>2 DEF Inv

\* A session the index covers runs out no later than the index.
LEMMA TickKeeps ==
    ASSUME Inv, Tick
    PROVE  Inv'
<1> USE DEF Inv, TypeOK, Tick, history
<1>1. TypeOK'
    BY TTLAssumption DEF Live
<1>2. Born'
    BY DEF Born, Live
<1>3. IndexOwned'
    BY DEF IndexOwned
<1>4. SnapCovers'
    BY DEF SnapCovers, Live, ReqOwner, Request
<1>5. LoggedOutBorn'
    BY DEF LoggedOutBorn, Live
<1>6. IndexCoversSessions'
    BY NoUserAssumption, TTLAssumption DEF IndexCoversSessions, Live, Born
<1>7. GrantsOld' /\ ReqOwner' /\ ReqToken' /\ RotationIsLinear'
    BY DEF GrantsOld, ReqOwner, ReqToken, RotationIsLinear
<1> QED BY <1>1, <1>2, <1>3, <1>4, <1>5, <1>6, <1>7 DEF Inv
-----------------------------------------------------------------------------
LEMMA InitEstablishes == Init => Inv
<1> SUFFICES ASSUME Init PROVE Inv
    OBVIOUS
<1> USE DEF Init, Idle, Live
<1>1. TypeOK
    BY TTLAssumption DEF TypeOK, Request, PCs, Ops
<1>2. Born /\ IndexOwned /\ GrantsOld /\ LoggedOutBorn
    BY DEF Born, IndexOwned, GrantsOld, LoggedOutBorn
<1>3. ReqOwner /\ ReqToken /\ SnapCovers
    BY DEF ReqOwner, ReqToken, SnapCovers
<1>4. RotationIsLinear /\ IndexCoversSessions
    BY DEF RotationIsLinear, IndexCoversSessions
<1> QED BY <1>1, <1>2, <1>3, <1>4 DEF Inv

\* A step in which no variable changes changes no part of the invariant.
LEMMA StutterKeeps == ASSUME Inv, UNCHANGED vars PROVE Inv'
BY DEF Inv, vars, TypeOK, Born, IndexOwned, GrantsOld, ReqOwner, ReqToken,
       SnapCovers, LoggedOutBorn, RotationIsLinear, IndexCoversSessions, Live

LEMMA StepKeeps == Inv /\ [Next]_vars => Inv'
<1> SUFFICES ASSUME Inv, [Next]_vars PROVE Inv'
    OBVIOUS
<1>1. ASSUME NEW u \in Users, NEW s \in Sids, NEW d \in BOOLEAN, Create(u, s, d)
      PROVE  Inv'
    BY <1>1, CreateKeeps
<1>2. ASSUME NEW r \in Reqs, Begin(r) PROVE Inv'
    BY <1>2, RotateGetKeeps, ExistsKeeps DEF Begin
<1>3. ASSUME NEW r \in Reqs, Step(r) PROVE Inv'
    BY <1>3, RotateEvalKeeps, RotateExpireKeeps, RevokeDelKeeps,
       DeleteAllKeeps, FindUserKeeps, RevokeGetKeeps, MembersKeeps DEF Step
<1>4. ASSUME NEW r \in Reqs, Drop(r) PROVE Inv'
    BY <1>4, DropKeeps
<1>5. ASSUME NEW u \in Users, Deactivate(u) PROVE Inv'
    BY <1>5, DeactivateKeeps
<1>6. CASE Tick
    BY <1>6, TickKeeps
<1>7. CASE UNCHANGED vars
    BY <1>7, StutterKeeps
<1> QED BY <1>1, <1>2, <1>3, <1>4, <1>5, <1>6, <1>7 DEF Next

\* The inductive invariant holds in every state: what the four theorems below
\* are corollaries of.
THEOREM Invariance == Spec => []Inv
<1>1. Init => Inv  BY InitEstablishes
<1>2. Inv /\ [Next]_vars => Inv'  BY StepKeeps
<1> QED BY <1>1, <1>2, PTL DEF Spec

\* Every variable of the session store keeps its type: in particular a key's
\* remaining time never leaves 0..TTL.
THEOREM TypeCorrect == Spec => []TypeOK
<1>1. Inv => TypeOK  BY DEF Inv
<1> QED BY <1>1, Invariance, PTL

\* A refresh token is exchanged at most once, for any number of concurrent
\* refreshes of any number of sessions (SessionService.rotate).
THEOREM TokensExchangedOnce == Spec => []RotationIsLinear
<1>1. Inv => RotationIsLinear  BY DEF Inv
<1> QED BY <1>1, Invariance, PTL

\* No interleaving of refreshes, failures and logouts revives a session whose
\* logout was answered (SessionService.revoke and revokeAll).
THEOREM LoggedOutForGood == Spec => []LogoutIsFinal
<1>1. Inv => LogoutIsFinal  BY DEF Inv, LoggedOutBorn, LogoutIsFinal
<1> QED BY <1>1, Invariance, PTL

\* A live session is missing from its user's index, or outlives it, only after
\* a login raced a logout-all or a refresh did not renew the index.
THEOREM IndexCovers == Spec => []IndexCoversSessions
<1>1. Inv => IndexCoversSessions  BY DEF Inv
<1> QED BY <1>1, Invariance, PTL

\* An answered logout-all has ended every session that was live when it came
\* in and is not one of those two cases (SessionService.revokeAll).
THEOREM LogoutAllCovers == Spec => LogoutAllEndsIndexed
<1>1. ASSUME Inv, NEW r \in Reqs, DeleteAll(r, TRUE),
             NEW s \in req[r].owed \ (raced \cup lagging)
      PROVE  ttl'[s] = 0
    <2>1. req[r].pc = "delall" /\ s \in Sids
        BY <1>1 DEF DeleteAll, Inv, TypeOK, Request
    <2>2. CASE s \in req[r].snap
        BY <1>1, <2>1, <2>2 DEF DeleteAll
    <2>3. CASE s \notin req[r].snap
        <3>1. ~Live(s)
            BY <1>1, <2>1, <2>3 DEF Inv, SnapCovers
        <3> QED BY <1>1, <2>1, <3>1 DEF DeleteAll, Live, Inv, TypeOK
    <2> QED BY <2>2, <2>3
<1>2. Inv => \A r \in Reqs : DeleteAll(r, TRUE) =>
              \A s \in req[r].owed \ (raced \cup lagging) : ttl'[s] = 0
    BY <1>1
<1> QED BY <1>2, Invariance, PTL DEF LogoutAllEndsIndexed
-----------------------------------------------------------------------------
(* The refinement of SessionLifecycle: which abstract step each action takes. *)

LEMMA LifecycleInit == Init => Lifecycle!Init
BY DEF Init, Lifecycle!Init, Status, Live

\* No time left means no key: deleting or expiring keys closes live sessions.
LEMMA KeysEnd ==
    ASSUME TypeOK, TypeOK', UNCHANGED hash,
           \A s \in Sids : ttl'[s] > 0 => ttl[s] > 0,
           \A s \in Sids : Live(s) => hash[s] > 0
    PROVE  [Lifecycle!Next]_(Lifecycle!vars)
<1>1. PICK S \in SUBSET Sids : S = {s \in Sids : Live(s) /\ ~(ttl'[s] > 0)}
    OBVIOUS
<1>2. Lifecycle!Close(S)
    BY <1>1 DEF Lifecycle!Close, Status, Live, TypeOK
<1> QED BY <1>2 DEF Lifecycle!Next

LEMMA LifecycleStep ==
    ASSUME Inv, Inv', [Next]_vars
    PROVE  [Lifecycle!Next]_(Lifecycle!vars)
<1> USE DEF Inv, TypeOK
<1>1. ASSUME NEW u \in Users, NEW s \in Sids, NEW d \in BOOLEAN, Create(u, s, d)
      PROVE  Lifecycle!Next
    <2>1. hash' = [hash EXCEPT ![s] = 1] /\ hash[s] = 0
        BY <1>1 DEF Create
    <2>2. \A t \in Sids : ttl'[t] > 0 <=> t = s \/ ttl[t] > 0
        BY <1>1, TTLAssumption DEF Create, Lifetime
    <2>3. Status' = [Status EXCEPT ![s] = "live"]
        <3>1. \A t \in Sids : hash'[t] = 0 <=> hash[t] = 0 /\ t # s
            BY <2>1
        <3>2. Status' = [t \in Sids |-> IF t = s THEN "live" ELSE Status[t]]
            BY <2>2, <3>1 DEF Status, Live
        <3> QED BY <3>2 DEF Status
    <2>4. Lifecycle!Open(s)
        BY <2>1, <2>3 DEF Lifecycle!Open, Status
    <2> QED BY <2>4 DEF Lifecycle!Next
<1>2. ASSUME NEW r \in Reqs, NEW d \in BOOLEAN, RotateEval(r, d)
      PROVE  [Lifecycle!Next]_(Lifecycle!vars)
    <2> DEFINE s == req[r].sid
    <2>1. CASE Live(s) /\ hash[s] = req[r].token
        <3>1. s \in Sids  BY <1>2 DEF RotateEval, ReqOwner
        <3>2. Lifecycle!Exchange(s)
            BY <1>2, <2>1, <3>1, TTLAssumption
            DEF RotateEval, Fits, Lifetime, Lifecycle!Exchange, Status, Live, Born
        <3> QED BY <3>1, <3>2 DEF Lifecycle!Next
    <2>2. CASE ~(Live(s) /\ hash[s] = req[r].token)
        BY <1>2, <2>2 DEF RotateEval, Fits, Lifecycle!vars, Status, Live
    <2> QED BY <2>1, <2>2
<1>3. ASSUME NEW r \in Reqs, NEW d \in BOOLEAN,
             RevokeDel(r, d) \/ DeleteAll(r, d)
      PROVE  [Lifecycle!Next]_(Lifecycle!vars)
    BY <1>3, KeysEnd DEF RevokeDel, DeleteAll, Born
<1>4. CASE Tick
    BY <1>4, KeysEnd DEF Tick, Live, Born
<1>5. ASSUME UNCHANGED <<ttl, hash>>
      PROVE  UNCHANGED Lifecycle!vars
    BY <1>5 DEF Lifecycle!vars, Status, Live
<1>6. ASSUME NEW r \in Reqs, Begin(r) \/ Drop(r) PROVE UNCHANGED <<ttl, hash>>
    BY <1>6 DEF Begin, RotateGet, Exists, Drop, redis
<1>7. ASSUME NEW r \in Reqs, Step(r)
      PROVE  [Lifecycle!Next]_(Lifecycle!vars)
    <2>1. ASSUME NEW d \in BOOLEAN, RotateExpire(r, d)
          PROVE  UNCHANGED <<ttl, hash>>
        BY <2>1 DEF RotateExpire
    <2>2. ASSUME FindUser(r) \/ RevokeGet(r) \/ Members(r)
          PROVE  UNCHANGED <<ttl, hash>>
        BY <2>2 DEF FindUser, RevokeGet, Members, redis
    <2> QED BY <1>2, <1>3, <1>5, <1>7, <2>1, <2>2 DEF Step
<1>8. ASSUME NEW u \in Users, Deactivate(u) PROVE UNCHANGED <<ttl, hash>>
    BY <1>8 DEF Deactivate, redis
<1>9. CASE UNCHANGED vars
    BY <1>9, <1>5 DEF vars
<1> QED BY <1>1, <1>4, <1>5, <1>6, <1>7, <1>8, <1>9 DEF Next

\* Redis, with its scripts, transactions and expiry, keeps the promise of
\* SessionLifecycle: no session is revived, no token exchanged out of turn.
THEOREM StoreRefinesLifecycle == Spec => LifecycleSpec
<1>1. Init => Lifecycle!Init  BY LifecycleInit
<1>2. Inv /\ Inv' /\ [Next]_vars => [Lifecycle!Next]_(Lifecycle!vars)
    BY LifecycleStep
<1> QED BY <1>1, <1>2, Invariance, PTL DEF Spec, LifecycleSpec, Lifecycle!Spec
=============================================================================
