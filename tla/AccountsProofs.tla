---------------------------- MODULE AccountsProofs ----------------------------
(* Proofs about Accounts, for any users, addresses, identities and requests. *)
EXTENDS Accounts, TLAPS

\* What a request carries from its earlier reads: an address and an identity
\* where it still needs them, a user who exists where it has found one, and a
\* verified address of that user where it is about to link an identity.
Good(q) ==
    /\ q.pc \in {"signup", "lookup", "enrol", "link"} => q.email \in Emails
    /\ q.pc \in {"lookup", "enrol", "link"} => q.id \in Ids
    /\ q.pc \in {"grant", "purge", "link"} => q.user \in Rows
    /\ q.pc = "link" => q.verified /\ email[q.user] = q.email

Inv == TypeOK /\ UsersAreWhole /\ OneUserPerAddress /\ \A r \in Reqs : Good(req[r])

LEMMA IdleType == Idle \in Request /\ Good(Idle)
BY DEF Idle, Request, Good

LEMMA ContinueType ==
    ASSUME TypeOK, NEW r \in Reqs, NEW u \in Users \cup {NoUser},
           NEW pc \in {"enrol", "link", "grant", "purge"},
           Continue(r, pc, u)
    PROVE  \E q \in Request :
               /\ Go(r, q)
               /\ q.pc = pc /\ q.user = u /\ q.new = req[r].new
               /\ q.email = req[r].email /\ q.id = req[r].id
               /\ q.verified = req[r].verified
<1>1. req[r] \in Request
    BY DEF TypeOK
<1>2. PICK q : q = [req[r] EXCEPT !.pc = pc, !.user = u]
    OBVIOUS
<1>3. q \in Request
    BY <1>1, <1>2 DEF Request
<1>4. /\ q.pc = pc /\ q.user = u /\ q.new = req[r].new
      /\ q.email = req[r].email /\ q.id = req[r].id
      /\ q.verified = req[r].verified
    BY <1>1, <1>2 DEF Request
<1>5. Go(r, q)
    BY <1>2 DEF Continue
<1> QED BY <1>3, <1>4, <1>5
-----------------------------------------------------------------------------
(* Three ways to change the tables: not at all, with a new user, with a link. *)

LEMMA GoKeeps ==
    ASSUME Inv, NEW r \in Reqs, NEW q \in Request, Good(q), Go(r, q),
           UNCHANGED store, sessions' \in SUBSET Rows
    PROVE  Inv'
<1>1. UNCHANGED <<email, password, account, has, Rows>>
    BY DEF store, Rows
<1>2. sessions' \in SUBSET Users
    BY DEF Rows
<1>3. TypeOK'
    BY <1>1, <1>2 DEF Inv, TypeOK, Go
<1>4. UsersAreWhole'
    BY <1>1 DEF Inv, UsersAreWhole
<1>5. OneUserPerAddress'
    BY <1>1 DEF Inv, OneUserPerAddress
<1>6. ASSUME NEW p \in Reqs PROVE Good(req[p])'
    <2>1. req'[p] = IF p = r THEN q ELSE req[p]
        BY DEF Go, Inv, TypeOK
    <2>2. Good(req'[p])
        BY <2>1 DEF Inv
    <2> QED BY <1>1, <2>2 DEF Good
<1> QED BY <1>3, <1>4, <1>5, <1>6 DEF Inv

\* A row for u joins the others, whose columns stay.
LEMMA InsertRows ==
    ASSUME Inv, NEW u \in Users \ Rows, NEW e \in Emails, Insert(u, e)
    PROVE  /\ Rows' = Rows \cup {u}
           /\ email'[u] = e
           /\ \A v \in Users \ {u} : email'[v] = email[v]
           /\ email' \in [Users -> Emails \cup {NoEmail}]
BY NobodyAssumption DEF Inv, TypeOK, Insert, Rows

LEMMA CreateKeeps ==
    ASSUME Inv, NEW r \in Reqs, NEW u \in Users \ Rows, NEW e \in Emails,
           ByEmail(e) = {}, Insert(u, e),
           NEW q \in Request, q.pc = "grant", q.user = u, Go(r, q),
           UNCHANGED sessions,
           \/ password' = password \cup {u} /\ UNCHANGED account
           \/ /\ UNCHANGED password
              /\ \E i \in Ids : /\ account[i] = NoUser
                                /\ account' = [account EXCEPT ![i] = u]
    PROVE  Inv'
<1> DEFINE new == Rows \cup {u}
<1>1. /\ Rows' = new
      /\ email'[u] = e
      /\ \A v \in Users \ {u} : email'[v] = email[v]
      /\ email' \in [Users -> Emails \cup {NoEmail}]
    BY InsertRows
<1>2. Rows \subseteq Users
    BY DEF Rows
<1>3. /\ has' \in [Tables -> SUBSET Users]
      /\ \A t \in Tables : has'[t] = has[t] \cup {u}
    BY DEF Insert, Inv, TypeOK
<1>4. TypeOK'
    BY <1>1, <1>3 DEF Inv, TypeOK, Go
<1>5. \A i \in Ids : \/ account'[i] = account[i]
                     \/ account[i] = NoUser /\ account'[i] = u
    BY DEF Inv, TypeOK
<1>6. UsersAreWhole'
    <2>1. ASSUME NEW v \in new
          PROVE  v \in password' \/ \E i \in Ids : account'[i] = v
        <3>1. CASE v = u
            BY <3>1 DEF Inv, TypeOK
        <3>2. CASE v \in Rows
            BY <3>2, <1>2, <1>5, NobodyAssumption DEF Inv, UsersAreWhole
        <3> QED BY <3>1, <3>2
    <2>2. \A v \in new : \A t \in Tables : v \in has'[t]
        BY <1>3 DEF Inv, UsersAreWhole
    <2>3. \A i \in Ids : account'[i] \in new \cup {NoUser}
        BY <1>5 DEF Inv, UsersAreWhole
    <2>4. password' \cup sessions' \subseteq new
        BY DEF Inv, UsersAreWhole
    <2>5. \A t \in Tables : has'[t] \subseteq new
        BY <1>3 DEF Inv, UsersAreWhole
    <2> HIDE DEF new
    <2> QED BY <1>1, <2>1, <2>2, <2>3, <2>4, <2>5 DEF UsersAreWhole
<1>7. OneUserPerAddress'
    <2>1. ASSUME NEW v \in Rows PROVE email'[v] # e /\ email'[v] = email[v]
        BY <1>1, <1>2 DEF ByEmail
    <2> QED BY <1>1, <2>1 DEF Inv, OneUserPerAddress
<1>8. ASSUME NEW p \in Reqs PROVE Good(req[p])'
    <2>1. CASE p = r
        <3>1. req'[p] = q
            BY <2>1 DEF Go, Inv, TypeOK
        <3> QED BY <1>1, <3>1 DEF Good
    <2>2. CASE p # r
        <3>1. req'[p] = req[p]
            BY <2>2 DEF Go, Inv, TypeOK
        <3>2. Good(req[p])
            BY DEF Inv
        <3> QED BY <1>1, <1>2, <3>1, <3>2 DEF Good
    <2> QED BY <2>1, <2>2
<1> QED BY <1>4, <1>6, <1>7, <1>8 DEF Inv

LEMMA LinkKeeps ==
    ASSUME Inv, NEW r \in Reqs, NEW u \in Rows, NEW i \in Ids,
           account[i] = NoUser, account' = [account EXCEPT ![i] = u],
           NEW q \in Request, q.pc = "grant", q.user = u, Go(r, q),
           UNCHANGED <<email, password, has, sessions>>
    PROVE  Inv'
<1>1. Rows' = Rows /\ u \in Users
    BY DEF Rows
<1>2. TypeOK'
    BY <1>1 DEF Inv, TypeOK, Go
<1>3. \A j \in Ids : \/ account'[j] = account[j]
                     \/ account[j] = NoUser /\ account'[j] = u
    BY DEF Inv, TypeOK
<1>4. UsersAreWhole'
    <2>1. ASSUME NEW v \in Rows
          PROVE  v \in password \/ \E j \in Ids : account'[j] = v
        <3>1. v # NoUser
            BY NobodyAssumption DEF Rows
        <3> QED BY <1>3, <3>1 DEF Inv, UsersAreWhole
    <2>2. \A j \in Ids : account'[j] \in Rows \cup {NoUser}
        BY <1>3 DEF Inv, UsersAreWhole
    <2> QED BY <1>1, <2>1, <2>2 DEF Inv, UsersAreWhole
<1>5. OneUserPerAddress'
    BY <1>1 DEF Inv, OneUserPerAddress
<1>6. ASSUME NEW p \in Reqs PROVE Good(req[p])'
    <2>1. req'[p] = IF p = r THEN q ELSE req[p]
        BY DEF Go, Inv, TypeOK
    <2>2. Good(q) /\ Good(req[p])
        BY DEF Inv, Good
    <2>3. Good(req'[p])
        BY <2>1, <2>2
    <2> QED BY <1>1, <2>3 DEF Good
<1> QED BY <1>2, <1>4, <1>5, <1>6 DEF Inv
-----------------------------------------------------------------------------
(* The actions *)

LEMMA InitInvariant == Init => Inv
<1>1. Init => Rows = {}
    BY DEF Init, Rows
<1>2. Init => TypeOK
    BY IdleType DEF Init, TypeOK
<1>3. Init => UsersAreWhole
    BY <1>1 DEF Init, UsersAreWhole
<1>4. Init => OneUserPerAddress
    BY <1>1 DEF OneUserPerAddress
<1>5. Init => \A r \in Reqs : Good(req[r])
    BY IdleType DEF Init
<1> QED BY <1>2, <1>3, <1>4, <1>5 DEF Inv

\* Requests that only read, or that give up: the tables stay.
LEMMA ReadKeeps ==
    ASSUME Inv, NEW r \in Reqs, NEW q \in Request, Good(q), Go(r, q),
           UNCHANGED <<store, sessions>>
    PROVE  Inv'
<1>1. sessions' \in SUBSET Rows
    BY DEF Inv, UsersAreWhole
<1> QED BY <1>1, GoKeeps

LEMMA AnswerKeeps ==
    ASSUME Inv, NEW r \in Reqs, Answer(r), UNCHANGED <<store, sessions>>
    PROVE  Inv'
BY IdleType, ReadKeeps DEF Answer

LEMMA SignupFindKeeps ==
    ASSUME Inv, NEW r \in Reqs, NEW e \in Emails, SignupFind(r, e)
    PROVE  Inv'
<1>1. PICK q : q = [Idle EXCEPT !.pc = "signup", !.email = e, !.new = TRUE]
    OBVIOUS
<1>2. q \in Request /\ Good(q)
    BY <1>1 DEF Idle, Request, Good
<1>3. Go(r, q) /\ UNCHANGED <<store, sessions>>
    BY <1>1 DEF SignupFind
<1> QED BY <1>2, <1>3, ReadKeeps

LEMMA LoginKeeps ==
    ASSUME Inv, NEW r \in Reqs, NEW e \in Emails, Login(r, e)
    PROVE  Inv'
<1>1. PICK u \in Matching(e) : Go(r, [Idle EXCEPT !.pc = "grant", !.user = u])
    BY DEF Login
<1>2. u \in Rows /\ u \in Users
    BY DEF Matching, ByEmail, Rows
<1>3. PICK q : q = [Idle EXCEPT !.pc = "grant", !.user = u]
    OBVIOUS
<1>4. q \in Request /\ Good(q)
    BY <1>2, <1>3 DEF Idle, Request, Good
<1>5. Go(r, q) /\ UNCHANGED <<store, sessions>>
    BY <1>1, <1>3 DEF Login
<1> QED BY <1>4, <1>5, ReadKeeps

LEMMA OAuthFindKeeps ==
    ASSUME Inv, NEW r \in Reqs, NEW p \in Profiles, OAuthFind(r, p)
    PROVE  Inv'
<1>1. p.id \in Ids /\ p.email \in Emails /\ p.verified \in BOOLEAN
    BY DEF Profiles, OAuthFind
<1>2. CASE account[p.id] # NoUser
    <2>1. account[p.id] \in Rows /\ account[p.id] \in Users
        BY <1>1, <1>2 DEF Inv, UsersAreWhole, Rows
    <2>2. PICK q : q = [Idle EXCEPT !.pc = "grant", !.user = account[p.id]]
        OBVIOUS
    <2>3. q \in Request /\ Good(q)
        BY <2>1, <2>2 DEF Idle, Request, Good
    <2>4. Go(r, q) /\ UNCHANGED <<store, sessions>>
        BY <1>2, <2>2 DEF OAuthFind
    <2> QED BY <2>3, <2>4, ReadKeeps
<1>3. CASE account[p.id] = NoUser
    <2>1. PICK q : q = [Idle EXCEPT !.pc = "lookup", !.email = p.email, !.id = p.id,
                                    !.verified = p.verified]
        OBVIOUS
    <2>2. q \in Request /\ Good(q)
        BY <1>1, <2>1 DEF Idle, Request, Good
    <2>3. Go(r, q) /\ UNCHANGED <<store, sessions>>
        BY <1>3, <2>1 DEF OAuthFind
    <2> QED BY <2>2, <2>3, ReadKeeps
<1> QED BY <1>2, <1>3

LEMMA SignupCreateKeeps ==
    ASSUME Inv, NEW r \in Reqs, SignupCreate(r)
    PROVE  Inv'
<1>1. req[r].pc = "signup" /\ req[r].email \in Emails
    BY DEF SignupCreate, Inv, Good
<1>2. CASE Answer(r) /\ UNCHANGED store
    BY <1>2, AnswerKeeps DEF SignupCreate
<1>3. CASE /\ ~TakenEmail(req[r].email)
           /\ \E u \in Users : /\ Unused(u)
                               /\ Insert(u, req[r].email)
                               /\ password' = password \cup {u}
                               /\ Continue(r, "grant", u)
           /\ UNCHANGED account
    <2>1. PICK u \in Users : /\ Unused(u)
                             /\ Insert(u, req[r].email)
                             /\ password' = password \cup {u}
                             /\ Continue(r, "grant", u)
        BY <1>3
    <2>2. PICK q \in Request : Go(r, q) /\ q.pc = "grant" /\ q.user = u
        BY <2>1, ContinueType DEF Inv
    <2>3. u \in Users \ Rows
        BY <2>1 DEF Unused
    <2>4. UNCHANGED sessions /\ ByEmail(req[r].email) = {}
        BY <1>3 DEF SignupCreate, TakenEmail
    <2> QED BY <1>1, <1>3, <2>1, <2>2, <2>3, <2>4, CreateKeeps
<1> QED BY <1>2, <1>3 DEF SignupCreate

LEMMA OAuthLookupKeeps ==
    ASSUME Inv, NEW r \in Reqs, OAuthLookup(r)
    PROVE  Inv'
<1>1. /\ req[r].pc = "lookup"
      /\ req[r].email \in Emails
      /\ req[r].id \in Ids
      /\ UNCHANGED <<store, sessions>>
    BY DEF OAuthLookup, Inv, Good
<1>2. CASE Continue(r, "enrol", NoUser)
    <2>1. PICK q \in Request : /\ Go(r, q) /\ q.pc = "enrol"
                               /\ q.email = req[r].email /\ q.id = req[r].id
        BY <1>2, ContinueType DEF Inv
    <2>2. Good(q)
        BY <1>1, <2>1 DEF Good
    <2> QED BY <1>1, <2>1, <2>2, ReadKeeps
<1>3. CASE Answer(r)
    BY <1>1, <1>3, AnswerKeeps
<1>4. ASSUME NEW u \in ByEmail(req[r].email), MayLink(r), Continue(r, "link", u)
      PROVE  Inv'
    <2>1. u \in Rows /\ u \in Users /\ email[u] = req[r].email
        BY DEF ByEmail, Rows
    <2>2. PICK q \in Request : /\ Go(r, q) /\ q.pc = "link" /\ q.user = u
                               /\ q.email = req[r].email /\ q.id = req[r].id
                               /\ q.verified = req[r].verified
        BY <1>4, <2>1, ContinueType DEF Inv
    <2>3. Good(q)
        BY <1>1, <1>4, <2>1, <2>2 DEF Good, MayLink
    <2> QED BY <1>1, <2>2, <2>3, ReadKeeps
<1> QED BY <1>2, <1>3, <1>4 DEF OAuthLookup

LEMMA OAuthEnrolKeeps ==
    ASSUME Inv, NEW r \in Reqs, OAuthEnrol(r)
    PROVE  Inv'
<1>1. /\ req[r].pc = "enrol"
      /\ req[r].email \in Emails
      /\ req[r].id \in Ids
      /\ UNCHANGED sessions
    BY DEF OAuthEnrol, Inv, Good
<1>2. CASE Answer(r) /\ UNCHANGED store
    BY <1>1, <1>2, AnswerKeeps
<1>3. CASE /\ ~Taken(req[r].email, req[r].id)
           /\ \E u \in Users : /\ Unused(u)
                               /\ Insert(u, req[r].email)
                               /\ account' = [account EXCEPT ![req[r].id] = u]
                               /\ Continue(r, "grant", u)
           /\ UNCHANGED password
    <2>1. PICK u \in Users : /\ Unused(u)
                             /\ Insert(u, req[r].email)
                             /\ account' = [account EXCEPT ![req[r].id] = u]
                             /\ Continue(r, "grant", u)
        BY <1>3
    <2>2. PICK q \in Request : Go(r, q) /\ q.pc = "grant" /\ q.user = u
        BY <2>1, ContinueType DEF Inv
    <2>3. u \in Users \ Rows
        BY <2>1 DEF Unused
    <2>4. ByEmail(req[r].email) = {} /\ account[req[r].id] = NoUser
        BY <1>3 DEF Taken, TakenEmail
    <2> QED BY <1>1, <1>3, <2>1, <2>2, <2>3, <2>4, CreateKeeps
<1> QED BY <1>2, <1>3 DEF OAuthEnrol

LEMMA OAuthLinkKeeps ==
    ASSUME Inv, NEW r \in Reqs, OAuthLink(r)
    PROVE  Inv'
<1> DEFINE u == req[r].user
<1>1. /\ req[r].id \in Ids
      /\ UNCHANGED <<email, password, has, sessions>>
    BY DEF OAuthLink, Inv, Good
<1>2. CASE account[req[r].id] = NoUser /\ u \in Rows
    <2>1. account' = [account EXCEPT ![req[r].id] = u] /\ Continue(r, "grant", u)
        BY <1>2 DEF OAuthLink
    <2>2. u \in Users
        BY <1>2 DEF Rows
    <2>3. PICK q \in Request : Go(r, q) /\ q.pc = "grant" /\ q.user = u
        BY <2>1, <2>2, ContinueType DEF Inv
    <2> HIDE DEF u
    <2> QED BY <1>1, <1>2, <2>1, <2>3, LinkKeeps
<1>3. CASE ~(account[req[r].id] = NoUser /\ u \in Rows)
    BY <1>1, <1>3, AnswerKeeps DEF OAuthLink, store
<1> QED BY <1>2, <1>3

LEMMA GrantKeeps ==
    ASSUME Inv, NEW r \in Reqs, Grant(r)
    PROVE  Inv'
<1> DEFINE u == req[r].user
<1>1. u \in Rows /\ u \in Users /\ UNCHANGED store
    BY DEF Grant, Inv, Good, Rows
<1>2. sessions' \in SUBSET Rows
    BY <1>1 DEF Grant, Inv, UsersAreWhole
<1>3. CASE Answer(r)
    BY <1>1, <1>2, <1>3, IdleType, GoKeeps DEF Answer
<1>4. CASE Continue(r, "purge", u)
    <2>1. PICK q \in Request : Go(r, q) /\ q.pc = "purge" /\ q.user = u
        BY <1>1, <1>4, ContinueType DEF Inv
    <2>2. Good(q)
        BY <1>1, <2>1 DEF Good
    <2> QED BY <1>1, <1>2, <2>1, <2>2, GoKeeps
<1> QED BY <1>3, <1>4 DEF Grant

\* The row of its subscription keeps every user: no purge deletes anything.
LEMMA PurgeRefused ==
    ASSUME Inv, NEW r \in Reqs, Purge(r)
    PROVE  UNCHANGED <<store, sessions>> /\ Answer(r)
<1>1. req[r].user \in Rows
    BY DEF Purge, Inv, Good
<1>2. Refused(req[r].user)
    BY <1>1 DEF Refused, Restricting, Tables, Inv, UsersAreWhole
<1> QED BY <1>2 DEF Purge

LEMMA ForgetKeeps ==
    ASSUME Inv, NEW u \in Users, Forget(u)
    PROVE  Inv'
<1>1. UNCHANGED <<email, password, account, has, req, Rows>>
    BY DEF Forget, store, Rows
<1>2. sessions' \subseteq sessions
    BY DEF Forget
<1>3. TypeOK'
    BY <1>1, <1>2 DEF Inv, TypeOK
<1>4. UsersAreWhole'
    BY <1>1, <1>2 DEF Inv, UsersAreWhole
<1>5. OneUserPerAddress' /\ \A r \in Reqs : Good(req[r])'
    BY <1>1 DEF Inv, OneUserPerAddress, Good
<1> QED BY <1>3, <1>4, <1>5 DEF Inv

LEMMA StutterKeeps == Inv /\ UNCHANGED vars => Inv'
BY DEF Inv, vars, TypeOK, UsersAreWhole, OneUserPerAddress, Good, Rows

LEMMA StepKeeps == Inv /\ [Next]_vars => Inv'
<1> SUFFICES ASSUME Inv, [Next]_vars PROVE Inv'
    OBVIOUS
<1>1. ASSUME NEW r \in Reqs, Step(r) PROVE Inv'
    <2>1. Abort(r) \/ Purge(r) => Inv'
        BY AnswerKeeps, PurgeRefused DEF Abort
    <2> QED BY <1>1, <2>1, SignupFindKeeps, LoginKeeps, OAuthFindKeeps,
               SignupCreateKeeps, OAuthLookupKeeps, OAuthEnrolKeeps,
               OAuthLinkKeeps, GrantKeeps
            DEF Step
<1> QED BY <1>1, ForgetKeeps, StutterKeeps DEF Next

LEMMA Invariance == Spec => []Inv
BY InitInvariant, StepKeeps, PTL DEF Spec

\* Rows and requests keep their types.
THEOREM TypeCorrect == Spec => []TypeOK
<1>1. Inv => TypeOK  BY DEF Inv
<1> QED BY <1>1, Invariance, PTL

\* Whichever sign-ups and first sign-ins race for an address, one user has it.
THEOREM OneUserEach == Spec => []OneUserPerAddress
<1>1. Inv => OneUserPerAddress  BY DEF Inv
<1> QED BY <1>1, Invariance, PTL

\* Whatever races or fails, every user can sign in and has its workspace, and
\* nothing is left of a user that is not there.
THEOREM UsersWhole == Spec => []UsersAreWhole
<1>1. Inv => UsersAreWhole  BY DEF Inv
<1> QED BY <1>1, Invariance, PTL
-----------------------------------------------------------------------------
(* What a step may do to the tables *)

\* A step leaves the tables alone, signs a user up, enrols one with an
\* identity, or links a verified identity to the user of its address.
StoreStep ==
    \/ UNCHANGED store
    \/ \E u \in Users \ Rows, e \in Emails :
          ByEmail(e) = {} /\ Insert(u, e) /\ UNCHANGED account
    \/ \E u \in Users \ Rows, e \in Emails, i \in Ids :
          /\ ByEmail(e) = {} /\ Insert(u, e)
          /\ account[i] = NoUser /\ account' = [account EXCEPT ![i] = u]
    \/ \E r \in Reqs :
          /\ req[r].id \in Ids /\ req[r].user \in Rows
          /\ req[r].verified /\ email[req[r].user] = req[r].email
          /\ account[req[r].id] = NoUser
          /\ account' = [account EXCEPT ![req[r].id] = req[r].user]
          /\ UNCHANGED <<email, password, has>>

LEMMA StoreSteps == ASSUME Inv, [Next]_vars PROVE StoreStep
<1>1. ASSUME NEW r \in Reqs, SignupCreate(r) PROVE StoreStep
    <2>1. req[r].email \in Emails
        BY <1>1 DEF SignupCreate, Inv, Good
    <2> QED BY <1>1, <2>1 DEF SignupCreate, TakenEmail, Unused, StoreStep
<1>2. ASSUME NEW r \in Reqs, OAuthEnrol(r) PROVE StoreStep
    <2>1. req[r].email \in Emails /\ req[r].id \in Ids
        BY <1>2 DEF OAuthEnrol, Inv, Good
    <2>2. CASE UNCHANGED store
        BY <2>2 DEF StoreStep
    <2>3. CASE ~Taken(req[r].email, req[r].id)
        <3>1. ByEmail(req[r].email) = {} /\ account[req[r].id] = NoUser
            BY <2>3 DEF Taken, TakenEmail
        <3> QED BY <1>2, <2>1, <2>3, <3>1 DEF OAuthEnrol, Unused, StoreStep
    <2> QED BY <1>2, <2>2, <2>3 DEF OAuthEnrol
<1>3. ASSUME NEW r \in Reqs, OAuthLink(r) PROVE StoreStep
    <2>1. /\ req[r].id \in Ids /\ req[r].user \in Rows
          /\ req[r].verified /\ email[req[r].user] = req[r].email
        BY <1>3 DEF OAuthLink, Inv, Good
    <2> QED BY <1>3, <2>1 DEF OAuthLink, store, StoreStep
<1>4. ASSUME NEW r \in Reqs, Step(r) PROVE StoreStep
    <2>1. Purge(r) => UNCHANGED store
        BY PurgeRefused
    <2>2. ASSUME NEW e \in Emails, SignupFind(r, e) \/ Login(r, e) PROVE UNCHANGED store
        BY <2>2 DEF SignupFind, Login
    <2>3. ASSUME NEW p \in Profiles, OAuthFind(r, p) PROVE UNCHANGED store
        BY <2>3 DEF OAuthFind
    <2>4. OAuthLookup(r) \/ Grant(r) \/ Abort(r) => UNCHANGED store
        BY DEF OAuthLookup, Grant, Abort
    <2>5. UNCHANGED store => StoreStep
        BY DEF StoreStep
    <2> QED BY <1>1, <1>2, <1>3, <1>4, <2>1, <2>2, <2>3, <2>4, <2>5 DEF Step
<1>5. ASSUME NEW u \in Users, Forget(u) PROVE UNCHANGED store
    BY <1>5 DEF Forget
<1>6. UNCHANGED vars => UNCHANGED store
    BY DEF vars, store
<1>7. UNCHANGED store => StoreStep
    BY DEF StoreStep
<1> QED BY <1>4, <1>5, <1>6, <1>7 DEF Next

LEMMA LinkingStep ==
    ASSUME Inv, [Next]_vars
    PROVE  \A i \in Ids, u \in Rows :
               account[i] = NoUser /\ account'[i] = u =>
                   \E r \in Reqs : req[r].id = i /\ req[r].verified /\ req[r].email = email[u]
<1> SUFFICES ASSUME NEW i \in Ids, NEW u \in Rows,
                    account[i] = NoUser, account'[i] = u
             PROVE  \E r \in Reqs : req[r].id = i /\ req[r].verified /\ req[r].email = email[u]
    OBVIOUS
<1>1. account' # account
    BY NobodyAssumption DEF Rows
<1>2. ASSUME NEW v \in Users \ Rows, NEW j \in Ids,
             account' = [account EXCEPT ![j] = v]
      PROVE  FALSE
    BY <1>1, <1>2, NobodyAssumption DEF Inv, TypeOK, Rows
<1>3. PICK r \in Reqs :
          /\ req[r].id \in Ids /\ req[r].user \in Rows
          /\ req[r].verified /\ email[req[r].user] = req[r].email
          /\ account[req[r].id] = NoUser
          /\ account' = [account EXCEPT ![req[r].id] = req[r].user]
    BY <1>1, <1>2, StoreSteps DEF StoreStep, store
<1>4. req[r].id = i /\ req[r].user = u
    BY <1>1, <1>3, NobodyAssumption DEF Inv, TypeOK, Rows
<1> QED BY <1>3, <1>4

\* Only an address its provider vouches for joins an identity to a user that
\* exists, and to the user of that address.
THEOREM LinksVerified == Spec => LinksAreVerified
BY LinkingStep, Invariance, PTL DEF Spec, LinksAreVerified
-----------------------------------------------------------------------------
(* The tables implement Directory *)

Owners == [e \in Emails |-> ByEmail(e)]

LEMMA DirectoryInit == Init => People!Init
<1>1. Init => Rows = {}
    BY DEF Init, Rows
<1> QED BY <1>1 DEF Init, ByEmail, People!Init

\* A user that is added is the only one of its address, and owns no other.
LEMMA InsertRegisters ==
    ASSUME Inv, NEW u \in Users \ Rows, NEW e \in Emails,
           ByEmail(e) = {}, Insert(u, e)
    PROVE  People!Register(e, u)
<1>1. /\ Rows' = Rows \cup {u} /\ Rows \subseteq Users
      /\ email'[u] = e
      /\ \A v \in Users \ {u} : email'[v] = email[v]
    BY InsertRows DEF Rows
<1>2. ASSUME NEW f \in Emails
      PROVE  ByEmail(f)' = IF f = e THEN {u} ELSE ByEmail(f)
    BY <1>1 DEF ByEmail
<1>3. PICK g, h : g = Owners /\ h = Owners'
    OBVIOUS
<1>4. g = [f \in Emails |-> ByEmail(f)] /\ h = [f \in Emails |-> ByEmail(f)']
    BY <1>3 DEF Owners
<1>5. h = [g EXCEPT ![e] = {u}]
    BY <1>2, <1>4
<1>6. Owners' = [Owners EXCEPT ![e] = {u}]
    BY <1>3, <1>5
<1>7. \A f \in Emails : u \notin ByEmail(f)
    BY DEF ByEmail
<1> QED BY <1>6, <1>7 DEF People!Register, Owners

LEMMA DirectoryStep ==
    Inv /\ [Next]_vars => [People!Next]_<<Owners, account>>
<1> SUFFICES ASSUME Inv, [Next]_vars
             PROVE  People!Next \/ UNCHANGED <<Owners, account>>
    OBVIOUS
<1>1. CASE UNCHANGED store
    BY <1>1 DEF store, Owners, ByEmail, Rows
<1>2. ASSUME NEW u \in Users \ Rows, NEW e \in Emails,
             ByEmail(e) = {}, Insert(u, e), UNCHANGED account
      PROVE  People!Next
    <2>1. People!SignUp(e, u)
        BY <1>2, InsertRegisters DEF People!SignUp
    <2> QED BY <2>1 DEF People!Next
<1>3. ASSUME NEW u \in Users \ Rows, NEW e \in Emails, NEW i \in Ids,
             ByEmail(e) = {}, Insert(u, e),
             account[i] = NoUser, account' = [account EXCEPT ![i] = u]
      PROVE  People!Next
    <2>1. People!Enrol(i, e, u)
        BY <1>3, InsertRegisters DEF People!Enrol
    <2> QED BY <2>1 DEF People!Next
<1>4. ASSUME NEW r \in Reqs, req[r].id \in Ids, req[r].user \in Rows,
             account[req[r].id] = NoUser,
             account' = [account EXCEPT ![req[r].id] = req[r].user],
             UNCHANGED <<email, password, has>>
      PROVE  People!Next
    <2>1. PICK i \in Ids, u \in Users : i = req[r].id /\ u = req[r].user /\ u \in Rows
        BY <1>4 DEF Rows
    <2>2. email[u] \in Emails /\ u \in ByEmail(email[u])
        BY <2>1 DEF Rows, ByEmail, Inv, TypeOK
    <2>3. UNCHANGED Owners
        BY <1>4 DEF Owners, ByEmail, Rows
    <2>4. People!Link(i, u)
        BY <1>4, <2>1, <2>2, <2>3 DEF People!Link, Owners
    <2> QED BY <2>4 DEF People!Next
<1> QED BY <1>1, <1>2, <1>3, <1>4, StoreSteps DEF StoreStep

\* A user is registered for an address nobody has, an identity joins a user
\* that is there, and no sign-up, sign-in or purge takes either back.
THEOREM TablesImplementDirectory == Spec => DirectorySpec
<1>1. Inv /\ [Next]_vars => [People!Next]_<<[e \in Emails |-> ByEmail(e)], account>>
    BY DirectoryStep DEF Owners
<1> QED BY <1>1, DirectoryInit, Invariance, PTL DEF Spec, DirectorySpec, People!Spec
=============================================================================
