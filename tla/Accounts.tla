------------------------------ MODULE Accounts ------------------------------
(* UsersService and the sign-up and sign-in operations of AuthService.  Each *)
(* reads what it needs statement by statement and then writes: a new user    *)
(* with everything that belongs to it in one transaction, which succeeds     *)
(* whole or not at all, then a session in Redis.  When the session cannot be *)
(* created a sign-up tries to take the user back.  Addresses are lower-case  *)
(* by the time they get here, as the service makes them.                     *)
CONSTANTS Users,      \* ids the sequence hands out
          Emails,
          Ids,        \* (provider, providerId) pairs
          Reqs,
          NoUser, NoEmail, NoId

ASSUME NobodyAssumption ==
    NoUser \notin Users /\ NoEmail \notin Emails /\ NoId \notin Ids

VARIABLES
    email,      \* users.email by id; NoEmail without a row
    password,   \* users with a password_hash
    account,    \* oauth_accounts: the user of each identity
    has,        \* has[t]: users whose personal workspace has its row in t
    sessions,   \* users with a session in Redis
    req         \* requests in flight

vars == <<email, password, account, has, sessions, req>>
store == <<email, password, account, has>>

\* createPersonalWorkspace writes a row in each.
Tables == {"workspaces", "subscriptions", "workspace_members", "business_profiles"}

RestrictingNone == {}

\* Those whose rows keep a workspace from being deleted; the others cascade.
Restricting == {"subscriptions"}

Request == [pc : {"idle", "signup", "lookup", "enrol", "link", "grant", "purge"},
            new : BOOLEAN,       \* a sign-up, which undoes what it created
            email : Emails \cup {NoEmail},
            id : Ids \cup {NoId},
            verified : BOOLEAN,  \* the provider vouches for the address
            user : Users \cup {NoUser}]

Idle == [pc |-> "idle", new |-> FALSE, email |-> NoEmail, id |-> NoId,
         verified |-> FALSE, user |-> NoUser]

TypeOK ==
    /\ email \in [Users -> Emails \cup {NoEmail}]
    /\ password \in SUBSET Users
    /\ account \in [Ids -> Users \cup {NoUser}]
    /\ has \in [Tables -> SUBSET Users]
    /\ sessions \in SUBSET Users
    /\ req \in [Reqs -> Request]

Init ==
    /\ email = [u \in Users |-> NoEmail]
    /\ password = {}
    /\ account = [i \in Ids |-> NoUser]
    /\ has = [t \in Tables |-> {}]
    /\ sessions = {}
    /\ req = [r \in Reqs |-> Idle]

Rows == {u \in Users : email[u] # NoEmail}

\* findByEmail
ByEmail(e) == {u \in Rows : email[u] = e}

NeverTaken(e) == FALSE

\* The unique index on users.email.
TakenEmail(e) == ByEmail(e) # {}

Unused(u) == u \notin Rows /\ \A r \in Reqs : req[r].user # u

Go(r, q) == req' = [req EXCEPT ![r] = q]
Answer(r) == Go(r, Idle)
Continue(r, pc, u) == Go(r, [req[r] EXCEPT !.pc = pc, !.user = u])

-----------------------------------------------------------------------------
\* signup: UsersService.create looks the address up ...
SignupFind(r, e) ==
    /\ req[r].pc = "idle"
    /\ ByEmail(e) = {}
    /\ Go(r, [Idle EXCEPT !.pc = "signup", !.email = e, !.new = TRUE])
    /\ UNCHANGED <<store, sessions>>

\* createPersonalWorkspace, and the row of the user before it.
Insert(u, e) ==
    /\ email' = [email EXCEPT ![u] = e]
    /\ has' = [t \in Tables |-> has[t] \cup {u}]

\* ... and creates the user, unless the address has been taken since.
SignupCreate(r) ==
    /\ req[r].pc = "signup"
    /\ \/ /\ TakenEmail(req[r].email)
          /\ Answer(r)
          /\ UNCHANGED store
       \/ /\ ~TakenEmail(req[r].email)
          /\ \E u \in Users :
                /\ Unused(u)
                /\ Insert(u, req[r].email)
                /\ password' = password \cup {u}
                /\ Continue(r, "grant", u)
          /\ UNCHANGED account
    /\ UNCHANGED sessions

MatchingUnchecked(e) == IF ByEmail(e) = {} THEN {NoUser} ELSE ByEmail(e) \cap password

\* Those whose password login can compare (whether it matches is up to them).
Matching(e) == ByEmail(e) \cap password

Login(r, e) ==
    /\ req[r].pc = "idle"
    /\ \E u \in Matching(e) :
          Go(r, [Idle EXCEPT !.pc = "grant", !.user = u])
    /\ UNCHANGED <<store, sessions>>

\* What a strategy makes of the answer of its provider (Kakao may leave the
\* address out, and a known identity may come with another one).
Profiles == [id : Ids, email : Emails \cup {NoEmail}, verified : BOOLEAN]

\* findOrCreateOAuthUser: nothing without an address, whoever it may be; then
\* the account of the identity ...
OAuthFind(r, p) ==
    /\ req[r].pc = "idle"
    /\ p.email # NoEmail
    /\ IF account[p.id] # NoUser
       THEN Go(r, [Idle EXCEPT !.pc = "grant", !.user = account[p.id]])
       ELSE Go(r, [Idle EXCEPT !.pc = "lookup", !.email = p.email, !.id = p.id,
                               !.verified = p.verified])
    /\ UNCHANGED <<store, sessions>>

MayAlwaysLink(r) == TRUE

\* Only an address the provider vouches for joins a user that has it already.
MayLink(r) == req[r].verified

\* ... then the user of the address.
OAuthLookup(r) ==
    LET found == ByEmail(req[r].email)
    IN  /\ req[r].pc = "lookup"
        /\ \/ found = {} /\ Continue(r, "enrol", NoUser)
           \/ found # {} /\ ~MayLink(r) /\ Answer(r)
           \/ \E u \in found : MayLink(r) /\ Continue(r, "link", u)
        /\ UNCHANGED <<store, sessions>>

TakenAddress(e, i) == TakenEmail(e)

\* That index and the one on (provider, provider_id).
Taken(e, i) == TakenEmail(e) \/ account[i] # NoUser

\* A new user and its account, unless the address or the identity is taken.
OAuthEnrol(r) ==
    /\ req[r].pc = "enrol"
    /\ \/ /\ Taken(req[r].email, req[r].id)
          /\ Answer(r)
          /\ UNCHANGED store
       \/ /\ ~Taken(req[r].email, req[r].id)
          /\ \E u \in Users :
                /\ Unused(u)
                /\ Insert(u, req[r].email)
                /\ account' = [account EXCEPT ![req[r].id] = u]
                /\ Continue(r, "grant", u)
          /\ UNCHANGED password
    /\ UNCHANGED sessions

\* The account of a user that exists, unless the identity is taken or the
\* user is gone.
OAuthLink(r) ==
    LET u == req[r].user
    IN  /\ req[r].pc = "link"
        /\ IF account[req[r].id] = NoUser /\ u \in Rows
           THEN /\ account' = [account EXCEPT ![req[r].id] = u]
                /\ Continue(r, "grant", u)
           ELSE Answer(r) /\ UNCHANGED account
        /\ UNCHANGED <<email, password, has, sessions>>

\* createAuthResponse: the session is created and the tokens go out; or the
\* call fails, and Redis may have applied it all the same.
Grant(r) ==
    LET u == req[r].user
    IN  /\ req[r].pc = "grant"
        /\ \/ sessions' = sessions \cup {u} /\ Answer(r)
           \/ /\ sessions' \in {sessions, sessions \cup {u}}
              /\ IF req[r].new THEN Continue(r, "purge", u) ELSE Answer(r)
        /\ UNCHANGED store

\* Deleting the workspace of u and then u.
Refused(u) == \E t \in Restricting : u \in has[t]

Delete(u) ==
    /\ has' = [t \in Tables |-> has[t] \ {u}]
    /\ email' = [email EXCEPT ![u] = NoEmail]
    /\ password' = password \ {u}
    /\ account' = [i \in Ids |-> IF account[i] = u THEN NoUser ELSE account[i]]

\* purgeNewlyCreatedUser: one transaction, and nobody looks at its outcome.
Purge(r) ==
    /\ req[r].pc = "purge"
    /\ IF Refused(req[r].user) THEN UNCHANGED store ELSE Delete(req[r].user)
    /\ Answer(r)
    /\ UNCHANGED sessions

\* A statement fails, a transaction is rolled back or the process dies.
Abort(r) ==
    /\ req[r].pc # "idle"
    /\ Answer(r)
    /\ UNCHANGED <<store, sessions>>

\* Sessions run out or are logged out.
Forget(u) ==
    /\ u \in sessions
    /\ sessions' = sessions \ {u}
    /\ UNCHANGED <<store, req>>

Step(r) ==
    \/ \E e \in Emails : SignupFind(r, e) \/ Login(r, e)
    \/ \E p \in Profiles : OAuthFind(r, p)
    \/ SignupCreate(r) \/ OAuthLookup(r) \/ OAuthEnrol(r) \/ OAuthLink(r)
    \/ Grant(r) \/ Purge(r) \/ Abort(r)

Next == (\E r \in Reqs : Step(r)) \/ (\E u \in Users : Forget(u))

Spec == Init /\ [][Next]_vars

-----------------------------------------------------------------------------
(* Properties *)

\* Every user is whole, whatever failed or raced on the way: it can sign in,
\* with a password or an identity, and has the rows of its workspace; and no
\* identity, session or workspace row is left of a user that is not there.
UsersAreWhole ==
    /\ \A u \in Rows : /\ u \in password \/ \E i \in Ids : account[i] = u
                       /\ \A t \in Tables : u \in has[t]
    /\ \A i \in Ids : account[i] \in Rows \cup {NoUser}
    /\ password \cup sessions \cup UNION {has[t] : t \in Tables} \subseteq Rows

\* An identity joins a user that exists already only for the address of that
\* user and only when the provider vouches for it, even if the user appeared
\* after the address was looked up.
LinksAreVerified ==
    [][\A i \in Ids, u \in Rows :
          account[i] = NoUser /\ account'[i] = u =>
              \E r \in Reqs : req[r].id = i /\ req[r].verified /\ req[r].email = email[u]]_vars

\* An address has one user, however many sign-ups and first sign-ins have
\* found it free before one of them took it.
OneUserPerAddress == \A u, v \in Rows : email[u] = email[v] => u = v

\* The tables implement Directory: a user is registered for an address nobody
\* has, an identity joins a user that is there, and no sign-up, sign-in or
\* purge ever takes an address or an identity back or gives it to another.
People == INSTANCE Directory
            WITH owners <- [e \in Emails |-> ByEmail(e)],
                 belongs <- account
DirectorySpec == People!Spec

\* purgeNewlyCreatedUser deletes the user a failed sign-up has created.
FailedSignupLeavesNoUser ==
    [][\A r \in Reqs : Purge(r) => email'[req[r].user] = NoEmail]_vars
=============================================================================
