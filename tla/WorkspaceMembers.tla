-------------------------- MODULE WorkspaceMembers --------------------------
(* WorkspaceMembersService and the guards before it, for one workspace (no   *)
(* statement of theirs reads or writes two).  PostgreSQL runs what the       *)
(* service calls: inviteByEmail and acceptInvitation read a snapshot and     *)
(* commit under SERIALIZABLE, declineInvitation under READ COMMITTED, so the *)
(* row it read may have changed when it deletes it.                          *)
(*                                                                           *)
(* Of two overlapping serializable transactions that both write a member row *)
(* each has counted the row of the other, so the second to commit fails; one *)
(* also fails when a row it writes was changed since its snapshot.  `stale`  *)
(* holds both.  A decline is in it when the row it read was deleted.         *)
EXTENDS Naturals, FiniteSets

CONSTANTS Users,
          Owner,        \* the user createPersonalWorkspace made the owner
          Reqs,
          Limit,        \* the plan's WORKSPACE_MEMBERS entitlement
          NoUser

ASSUME UsersAssumption == IsFiniteSet(Users) /\ Owner \in Users
ASSUME LimitAssumption == Limit \in Nat \ {0}
ASSUME NoUserAssumption == NoUser \notin Users

VARIABLES
    status,       \* workspace_members.status by user; "none" without a row
    role,         \* workspace_members.role
    joined,       \* users whose row has joined_at set
    activeUsers,  \* users.status is ACTIVE
    open,         \* workspaces.status is ACTIVE
    subscribed,   \* the workspace has a current subscription
    req,          \* requests in flight
    stale         \* requests whose snapshot a commit has overtaken

vars == <<status, role, joined, activeUsers, open, subscribed, req, stale>>
rows == <<status, role, joined>>
others == <<activeUsers, open, subscribed>>

Roles == {"owner", "admin", "marketer"}     \* VIEWER is as MARKETER
InvitableGuest == {"admin", "marketer", "guest"}
Invitable == Roles \ {"owner"}              \* InviteWorkspaceMemberDto
Statuses == {"none", "invited", "active", "disabled"}

Request == [pc : {"idle", "guarded", "inviting", "accepting", "declining"},
            target : Users \cup {NoUser}, role : Roles]

Asks(pc, u, as) == [pc |-> pc, target |-> u, role |-> as]
Idle == Asks("idle", NoUser, "marketer")

TypeOK ==
    /\ status \in [Users -> Statuses]
    /\ role \in [Users -> Roles]
    /\ joined \in SUBSET Users
    /\ activeUsers \in SUBSET Users
    /\ open \in BOOLEAN
    /\ subscribed \in BOOLEAN
    /\ req \in [Reqs -> Request]
    /\ stale \in SUBSET Reqs

Seated == {u \in Users : status[u] \in {"invited", "active"}}
Seats == Cardinality(Seated)

Init ==
    /\ status = [u \in Users |-> IF u = Owner THEN "active" ELSE "none"]
    /\ role = [u \in Users |-> IF u = Owner THEN "owner" ELSE "marketer"]
    /\ joined = {Owner}
    /\ activeUsers = Users
    /\ open = TRUE
    /\ subscribed = TRUE
    /\ req = [r \in Reqs |-> Idle]
    /\ stale = {}

Answer(r) ==
    /\ req' = [req EXCEPT ![r] = Idle]
    /\ stale' = stale \ {r}

InvitingOnly(q) == req[q].pc = "inviting"
AcceptingOnly(q) == req[q].pc = "accepting"

\* The transactions that run under SERIALIZABLE.
Serializable(q) == req[q].pc \in {"inviting", "accepting"}

\* The commit of a member row overtakes every other open one of them ...
CommitOvertakes == {q \in Reqs : Serializable(q)}

\* ... a change from outside, those that write the row; a deletion, declines.
Overtaken(u, deleted) ==
    {q \in Reqs : req[q].target = u /\ (deleted \/ Serializable(q))}

-----------------------------------------------------------------------------
\* WorkspaceRoleGuard, for the roles POST :workspaceId/invitations asks for.
MayManage(u) == role[u] \in {"owner", "admin"}

\* It and WorkspaceMemberGuard before it rely on the membership as it was read
\* before the transaction begins.
Guard(r, u) ==
    /\ req[r].pc = "idle"
    /\ IF status[u] = "active" /\ open /\ MayManage(u)
       THEN req' = [req EXCEPT ![r] = Asks("guarded", NoUser, "marketer")]
       ELSE UNCHANGED req
    /\ UNCHANGED <<rows, others, stale>>

MayAlwaysInvite(u) == TRUE

\* Users who already have an invitation or a membership are a conflict.
MayInvite(u) == status[u] \in {"none", "disabled"}

\* CurrentSubscriptionService.requireCurrent
RequireCurrent == subscribed

CanConsumeCurrent(n) == RequireCurrent /\ Seats <= Limit

\* EntitlementService.assertCanConsume for WORKSPACE_MEMBERS.
CanConsume(n) == RequireCurrent /\ Seats + n <= Limit

\* inviteByEmail up to its save: everything is read from one snapshot.
InviteBegin(r, u, as) ==
    /\ req[r].pc = "guarded"
    /\ IF u \in activeUsers /\ MayInvite(u) /\ CanConsume(1)
       THEN /\ req' = [req EXCEPT ![r] = Asks("inviting", u, as)]
            /\ UNCHANGED stale
       ELSE Answer(r)
    /\ UNCHANGED <<rows, others>>

\* Its save and commit.  TypeORM leaves out a column whose property is
\* undefined, so the joined_at of a row that is used again stays.
InviteCommit(r) ==
    LET u == req[r].target
    IN  /\ req[r].pc = "inviting"
        /\ IF r \in stale
           THEN Answer(r) /\ UNCHANGED rows
           ELSE /\ status' = [status EXCEPT ![u] = "invited"]
                /\ role' = [role EXCEPT ![u] = req[r].role]
                /\ UNCHANGED joined
                /\ req' = [req EXCEPT ![r] = Idle]
                /\ stale' = (stale \cup CommitOvertakes) \ {r}
        /\ UNCHANGED others

\* findInvitationOrFail, for acceptInvitation and declineInvitation.
Invitation(u) == status[u] = "invited" /\ open

\* acceptInvitation up to its save.
AcceptBegin(r, u) ==
    /\ req[r].pc = "idle"
    /\ IF Invitation(u) /\ CanConsume(0)
       THEN req' = [req EXCEPT ![r] = Asks("accepting", u, "marketer")]
       ELSE UNCHANGED req
    /\ UNCHANGED <<rows, others, stale>>

AcceptCommit(r) ==
    LET u == req[r].target
    IN  /\ req[r].pc = "accepting"
        /\ IF r \in stale
           THEN Answer(r) /\ UNCHANGED rows
           ELSE /\ status' = [status EXCEPT ![u] = "active"]
                /\ joined' = joined \cup {u}
                /\ UNCHANGED role
                /\ req' = [req EXCEPT ![r] = Idle]
                /\ stale' = (stale \cup CommitOvertakes) \ {r}
        /\ UNCHANGED others

\* declineInvitation reads the row ...
DeclineBegin(r, u) ==
    /\ req[r].pc = "idle"
    /\ IF Invitation(u)
       THEN req' = [req EXCEPT ![r] = Asks("declining", u, "marketer")]
       ELSE UNCHANGED req
    /\ UNCHANGED <<rows, others, stale>>

\* ... and deletes it by its id, whatever its status is by now.
DeclineCommit(r) ==
    LET u == req[r].target
    IN  /\ req[r].pc = "declining"
        /\ IF r \in stale
           THEN Answer(r) /\ UNCHANGED rows
           ELSE /\ status' = [status EXCEPT ![u] = "none"]
                /\ role' = [role EXCEPT ![u] = "marketer"]
                /\ joined' = joined \ {u}
                /\ req' = [req EXCEPT ![r] = Idle]
                /\ stale' = (stale \cup Overtaken(u, TRUE)) \ {r}
        /\ UNCHANGED others

-----------------------------------------------------------------------------
\* A request fails or its process dies: the database rolls back.
Abort(r) ==
    /\ req[r].pc # "idle"
    /\ Answer(r)
    /\ UNCHANGED <<rows, others>>

\* An administrator's tool disables a membership (the service provides for
\* disabled members; nothing in it disables one).
Disable(u) ==
    /\ u # Owner
    /\ status[u] \in {"invited", "active"}
    /\ status' = [status EXCEPT ![u] = "disabled"]
    /\ stale' = stale \cup Overtaken(u, FALSE)
    /\ UNCHANGED <<role, joined, others, req>>

\* Accounts, the workspace and its subscription come and go.
Environment ==
    /\ \/ activeUsers' \in SUBSET Users /\ UNCHANGED <<open, subscribed>>
       \/ open' = ~open /\ UNCHANGED <<activeUsers, subscribed>>
       \/ subscribed' = ~subscribed /\ UNCHANGED <<activeUsers, open>>
    /\ UNCHANGED <<rows, req, stale>>

Step(r) ==
    \/ \E u \in Users : Guard(r, u) \/ AcceptBegin(r, u) \/ DeclineBegin(r, u)
    \/ \E u \in Users, as \in Invitable : InviteBegin(r, u, as)
    \/ InviteCommit(r) \/ AcceptCommit(r) \/ DeclineCommit(r) \/ Abort(r)

Next ==
    \/ \E r \in Reqs : Step(r)
    \/ \E u \in Users : Disable(u)
    \/ Environment

Spec == Init /\ [][Next]_vars

-----------------------------------------------------------------------------
(* Properties *)

\* Invitations and members together never take more seats than the plan has,
\* however many invitations are under way: the count is read before the row
\* is written, and only the isolation level keeps it true until then.
SeatsWithinLimit == Seats <= Limit

\* The workspace always has its owner: an invitation never takes over the
\* owner's row, and declining never deletes it.
OwnerKept == status[Owner] = "active" /\ role[Owner] = "owner"

\* An acceptance that commits answers an invitation that is open then, not one
\* that was declined or disabled while it was under way.
AcceptsOpenInvitation ==
    [][\A u \in Users : status[u] # "active" /\ status'[u] = "active"
                            => status[u] = "invited"]_vars

\* What transactions do step by step is what the rules do at one stroke.
Rules == INSTANCE SeatRules WITH seats <- Seats
RulesSpec == Rules!Spec

\* declineInvitation is for invitations (its row is looked up by the status
\* INVITED, or it answers "Workspace invitation not found"): a membership that
\* was accepted is never deleted.
MembersAreNotDeclined ==
    [][\A u \in Users : status[u] = "active" => status'[u] # "none"]_vars
=============================================================================
