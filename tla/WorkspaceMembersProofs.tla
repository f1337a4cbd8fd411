----------------------- MODULE WorkspaceMembersProofs -----------------------
(* Seats, the owner and the rules of membership, for any plan limit and any  *)
(* number of users and of requests.                                          *)
EXTENDS WorkspaceMembers, FiniteSetTheorems, TLAPS

\* What a transaction read still holds while nothing has overtaken it.
SnapshotHolds ==
    \A r \in Reqs :
        /\ req[r].pc \in {"inviting", "accepting", "declining"}
              => req[r].target \in Users
        /\ req[r].pc = "declining" => req[r].target # Owner
        /\ req[r].pc = "inviting" /\ r \notin stale =>
              status[req[r].target] \in {"none", "disabled"} /\ Seats < Limit
        /\ req[r].pc = "accepting" /\ r \notin stale =>
              status[req[r].target] = "invited"
        /\ req[r].pc = "declining" /\ r \notin stale =>
              status[req[r].target] # "none"

Inv == TypeOK /\ SnapshotHolds /\ OwnerKept /\ SeatsWithinLimit

-----------------------------------------------------------------------------
(* How a change of one row changes the count. *)

LEMMA SeatsFinite ==
    IsFiniteSet(Seated) /\ Seats \in Nat
<1>1. Seated \subseteq Users  BY DEF Seated
<1> QED BY <1>1, UsersAssumption, FS_Subset, FS_CardinalityType DEF Seats

LEMMA SeatsSame ==
    ASSUME Seated' = Seated PROVE Seats' = Seats
BY DEF Seats

LEMMA OneMoreFits ==
    ASSUME NEW n \in Nat, NEW limit \in Nat
    PROVE  n < limit <=> n + 1 <= limit
OBVIOUS

LEMMA SeatsShrink ==
    ASSUME Seated' \subseteq Seated
    PROVE  /\ Seats < Limit => Seats' < Limit
           /\ Seats <= Limit => Seats' <= Limit
<1>1. Seats' \in Nat /\ Seats' <= Seats
    BY SeatsFinite, FS_Subset, FS_CardinalityType DEF Seats
<1>2. Seats \in Nat /\ Limit \in Nat
    BY SeatsFinite, LimitAssumption
<1>3. Seats < Limit => Seats' < Limit
    BY <1>1, <1>2
<1>4. Seats <= Limit => Seats' <= Limit
    BY <1>1, <1>2
<1> QED BY <1>3, <1>4

LEMMA SeatsGrow ==
    ASSUME NEW u \in Users, u \notin Seated, Seated' = Seated \cup {u}
    PROVE  Seats' = Seats + 1
BY SeatsFinite, FS_AddElement DEF Seats

\* Seats only matter through the rows' statuses.
LEMMA SeatsUnchanged == ASSUME UNCHANGED status PROVE Seats' = Seats
BY SeatsSame DEF Seated
-----------------------------------------------------------------------------
(* The requests that read: what they read holds in the state they read it.   *)

LEMMA GuardKeeps ==
    ASSUME Inv, NEW r \in Reqs, NEW u \in Users,
           Guard(r, u)
    PROVE  Inv'
<1> USE DEF Inv, Guard, rows, others, Asks
<1>1. Seats' = Seats  BY SeatsUnchanged
<1>2. TypeOK'
    BY NoUserAssumption DEF TypeOK, Request, Roles
<1>3. SnapshotHolds'
    BY <1>1 DEF SnapshotHolds, TypeOK, Request
<1>4. OwnerKept' /\ SeatsWithinLimit'
    BY <1>1 DEF OwnerKept, SeatsWithinLimit
<1> QED BY <1>2, <1>3, <1>4

LEMMA InviteBeginKeeps ==
    ASSUME Inv, NEW r \in Reqs, NEW u \in Users, NEW as \in Invitable,
           InviteBegin(r, u, as)
    PROVE  Inv'
<1> USE DEF Inv, InviteBegin, rows, others, Asks, Answer, Idle, MayInvite,
        CanConsume, RequireCurrent
<1>1. Seats' = Seats  BY SeatsUnchanged
<1>2. CASE u \in activeUsers /\ MayInvite(u) /\ CanConsume(1)
    <2>a. Asks("inviting", u, as) \in Request
        BY DEF Request, Roles, Invitable
    <2>b. req' = [req EXCEPT ![r] = Asks("inviting", u, as)] /\ stale' = stale
        BY <1>2
    <2>c. UNCHANGED <<status, role, joined, activeUsers, open, subscribed>>
        OBVIOUS
    <2>1. TypeOK'
        BY <2>a, <2>b, <2>c DEF TypeOK
    <2>d. Seats < Limit
        BY <1>2, SeatsFinite, LimitAssumption, OneMoreFits
    <2>2. SnapshotHolds'
        BY <1>1, <1>2, <2>d DEF SnapshotHolds, TypeOK, Request
    <2> QED BY <1>1, <2>1, <2>2 DEF OwnerKept, SeatsWithinLimit
<1>3. CASE ~(u \in activeUsers /\ MayInvite(u) /\ CanConsume(1))
    <2>a. Idle \in Request
        BY DEF Request, Roles
    <2>b. req' = [req EXCEPT ![r] = Idle] /\ stale' = stale \ {r}
        BY <1>3
    <2>c. UNCHANGED <<status, role, joined, activeUsers, open, subscribed>>
        OBVIOUS
    <2>1. TypeOK'
        BY <2>a, <2>b, <2>c DEF TypeOK
    <2>2. SnapshotHolds'
        BY <1>1, <2>b, <2>c DEF SnapshotHolds, TypeOK, Request
    <2> QED BY <1>1, <2>1, <2>2 DEF OwnerKept, SeatsWithinLimit
<1> QED BY <1>2, <1>3

LEMMA AcceptBeginKeeps ==
    ASSUME Inv, NEW r \in Reqs, NEW u \in Users,
           AcceptBegin(r, u)
    PROVE  Inv'
<1> USE DEF Inv, AcceptBegin, rows, others, Asks
<1>1. Seats' = Seats  BY SeatsUnchanged
<1>2. TypeOK'
    BY DEF TypeOK, Request, Roles
<1>3. SnapshotHolds'
    BY <1>1 DEF SnapshotHolds, TypeOK, Request, Invitation
<1>4. OwnerKept' /\ SeatsWithinLimit'
    BY <1>1 DEF OwnerKept, SeatsWithinLimit
<1> QED BY <1>2, <1>3, <1>4

LEMMA DeclineBeginKeeps ==
    ASSUME Inv, NEW r \in Reqs, NEW u \in Users,
           DeclineBegin(r, u)
    PROVE  Inv'
<1> USE DEF Inv, DeclineBegin, rows, others, Asks
<1>1. Seats' = Seats  BY SeatsUnchanged
<1>2. TypeOK'
    BY DEF TypeOK, Request, Roles
<1>3. SnapshotHolds'
    BY <1>1 DEF SnapshotHolds, TypeOK, Request, Invitation, OwnerKept
<1>4. OwnerKept' /\ SeatsWithinLimit'
    BY <1>1 DEF OwnerKept, SeatsWithinLimit
<1> QED BY <1>2, <1>3, <1>4

LEMMA AbortKeeps ==
    ASSUME Inv, NEW r \in Reqs,
           Abort(r)
    PROVE  Inv'
<1> USE DEF Inv, Abort, rows, others, Asks, Answer, Idle
<1>1. Seats' = Seats  BY SeatsUnchanged
<1>2. TypeOK'
    BY NoUserAssumption DEF TypeOK, Request, Roles
<1>3. SnapshotHolds'
    BY <1>1 DEF SnapshotHolds, TypeOK, Request
<1>4. OwnerKept' /\ SeatsWithinLimit'
    BY <1>1 DEF OwnerKept, SeatsWithinLimit
<1> QED BY <1>2, <1>3, <1>4

LEMMA EnvironmentKeeps == ASSUME Inv, Environment PROVE Inv'
<1> USE DEF Inv, Environment, rows
<1>1. Seats' = Seats  BY SeatsUnchanged
<1>2. TypeOK'  BY DEF TypeOK
<1> QED BY <1>1, <1>2 DEF SnapshotHolds, OwnerKept, SeatsWithinLimit

-----------------------------------------------------------------------------
(* The commits: each overtakes the requests whose snapshot it makes untrue.  *)

LEMMA InviteCommitKeeps ==
    ASSUME Inv, NEW r \in Reqs, InviteCommit(r)
    PROVE  Inv'
<1> DEFINE u == req[r].target
<1> USE DEF Inv, InviteCommit, others, Answer, Asks, Idle
<1>1. u \in Users  BY DEF SnapshotHolds
<1>2. TypeOK'
    BY <1>1, NoUserAssumption DEF TypeOK, Request, Statuses, Roles, rows,
       CommitOvertakes
<1>3. CASE r \in stale
    BY <1>2, <1>3, SeatsUnchanged
    DEF SnapshotHolds, OwnerKept, SeatsWithinLimit, rows, TypeOK, Request
<1>4. CASE r \notin stale
    <2>1. status[u] \in {"none", "disabled"} /\ Seats < Limit
        BY <1>4 DEF SnapshotHolds
    <2>2. status' = [status EXCEPT ![u] = "invited"]
        BY <1>4
    <2>3. u \notin Seated /\ Seated' = Seated \cup {u}
        BY <1>1, <2>1, <2>2 DEF Seated, TypeOK
    <2>4. Seats' = Seats + 1
        BY <1>1, <2>3, SeatsGrow
    <2>5. SnapshotHolds'
        BY <1>1, <1>4, <2>2 DEF SnapshotHolds, TypeOK, Request, CommitOvertakes,
             Serializable
    <2>6. OwnerKept'
        BY <1>4, <2>1, <2>2, UsersAssumption DEF OwnerKept, TypeOK
    <2>7. Seats' <= Limit
        BY <2>1, <2>4, SeatsFinite, LimitAssumption, OneMoreFits
    <2> QED BY <1>2, <2>5, <2>6, <2>7 DEF SeatsWithinLimit
<1> QED BY <1>3, <1>4

LEMMA AcceptCommitKeeps ==
    ASSUME Inv, NEW r \in Reqs, AcceptCommit(r)
    PROVE  Inv'
<1> DEFINE u == req[r].target
<1> USE DEF Inv, AcceptCommit, others, Answer, Asks, Idle
<1>1. u \in Users  BY DEF SnapshotHolds
<1>2. TypeOK'
    BY <1>1, NoUserAssumption DEF TypeOK, Request, Statuses, Roles, rows,
       CommitOvertakes
<1>3. CASE r \in stale
    BY <1>2, <1>3, SeatsUnchanged
    DEF SnapshotHolds, OwnerKept, SeatsWithinLimit, rows, TypeOK, Request
<1>4. CASE r \notin stale
    <2>1. status[u] = "invited"
        BY <1>4 DEF SnapshotHolds
    <2>2. status' = [status EXCEPT ![u] = "active"]
        BY <1>4
    <2>3. Seated' = Seated
        BY <1>1, <2>1, <2>2 DEF Seated, TypeOK
    <2>4. Seats' = Seats
        BY <2>3, SeatsSame
    <2>5. SnapshotHolds'
        BY <1>1, <1>4, <2>2 DEF SnapshotHolds, TypeOK, Request, CommitOvertakes,
             Serializable
    <2>6. OwnerKept'
        BY <1>4, <2>2, UsersAssumption DEF OwnerKept, TypeOK
    <2> QED BY <1>2, <2>4, <2>5, <2>6 DEF SeatsWithinLimit
<1> QED BY <1>3, <1>4

\* Deleting a row only frees its seat; who was about to use it is overtaken.
LEMMA DeclineCommitKeeps ==
    ASSUME Inv, NEW r \in Reqs, DeclineCommit(r)
    PROVE  Inv'
<1> DEFINE u == req[r].target
<1> USE DEF Inv, DeclineCommit, others, Answer, Asks, Idle
<1>1. u \in Users /\ u # Owner  BY DEF SnapshotHolds
<1>2. TypeOK'
    BY <1>1, NoUserAssumption DEF TypeOK, Request, Statuses, Roles, rows,
       Overtaken
<1>3. CASE r \in stale
    BY <1>2, <1>3, SeatsUnchanged
    DEF SnapshotHolds, OwnerKept, SeatsWithinLimit, rows, TypeOK, Request
<1>4. CASE r \notin stale
    <2>2. status' = [status EXCEPT ![u] = "none"]
        BY <1>4
    <2>3. Seated' \subseteq Seated
        BY <2>2 DEF Seated, TypeOK
    <2>4. /\ Seats < Limit => Seats' < Limit
          /\ Seats <= Limit => Seats' <= Limit
        BY <2>3, SeatsShrink
    <2>5. SnapshotHolds'
        BY <1>1, <1>4, <2>2, <2>4
        DEF SnapshotHolds, TypeOK, Request, Overtaken, Serializable
    <2>6. OwnerKept'
        BY <1>1, <1>4, <2>2, UsersAssumption DEF OwnerKept, TypeOK
    <2> QED BY <1>2, <2>4, <2>5, <2>6 DEF SeatsWithinLimit
<1> QED BY <1>3, <1>4

LEMMA DisableKeeps ==
    ASSUME Inv, NEW u \in Users, Disable(u)
    PROVE  Inv'
<1> USE DEF Inv, Disable, others
<1>1. TypeOK'  BY DEF TypeOK, Statuses, Overtaken
<1>2. Seated' \subseteq Seated  BY DEF Seated, TypeOK
<1>3. /\ Seats < Limit => Seats' < Limit
      /\ Seats <= Limit => Seats' <= Limit
    BY <1>2, SeatsShrink
<1>4. SnapshotHolds'
    BY <1>3 DEF SnapshotHolds, TypeOK, Request, Overtaken, Serializable
<1>5. OwnerKept'  BY UsersAssumption DEF OwnerKept, TypeOK
<1> QED BY <1>1, <1>3, <1>4, <1>5 DEF SeatsWithinLimit
-----------------------------------------------------------------------------
LEMMA InitEstablishes == Init => Inv
<1> SUFFICES ASSUME Init PROVE Inv
    OBVIOUS
<1> USE DEF Init, Idle, Asks
<1>1. TypeOK
    BY UsersAssumption DEF TypeOK, Statuses, Roles, Request
<1>2. Seats <= Limit
    <2>1. Seated = {Owner}  BY UsersAssumption DEF Seated
    <2>2. Seats = 1  BY <2>1, FS_Singleton DEF Seats
    <2> QED BY <2>2, LimitAssumption
<1>3. SnapshotHolds /\ OwnerKept
    BY UsersAssumption DEF SnapshotHolds, OwnerKept
<1> QED BY <1>1, <1>2, <1>3 DEF Inv, SeatsWithinLimit

LEMMA StutterKeeps == ASSUME Inv, UNCHANGED vars PROVE Inv'
<1>1. Seats' = Seats  BY SeatsUnchanged DEF vars
<1> QED BY <1>1 DEF Inv, vars, TypeOK, SnapshotHolds, OwnerKept, SeatsWithinLimit

LEMMA StepKeeps == Inv /\ [Next]_vars => Inv'
<1> SUFFICES ASSUME Inv, [Next]_vars PROVE Inv'
    OBVIOUS
<1>1. ASSUME NEW r \in Reqs, Step(r) PROVE Inv'
    BY <1>1, GuardKeeps, InviteBeginKeeps, AcceptBeginKeeps, DeclineBeginKeeps,
       InviteCommitKeeps, AcceptCommitKeeps, DeclineCommitKeeps, AbortKeeps
    DEF Step
<1>2. ASSUME NEW u \in Users, Disable(u) PROVE Inv'
    BY <1>2, DisableKeeps
<1>3. CASE Environment  BY <1>3, EnvironmentKeeps
<1>4. CASE UNCHANGED vars  BY <1>4, StutterKeeps
<1> QED BY <1>1, <1>2, <1>3, <1>4 DEF Next

\* The inductive invariant: what a transaction that nothing has overtaken read
\* is still true, so its write keeps the rules.
THEOREM Invariance == Spec => []Inv
<1>1. Init => Inv  BY InitEstablishes
<1>2. Inv /\ [Next]_vars => Inv'  BY StepKeeps
<1> QED BY <1>1, <1>2, PTL DEF Spec

\* Rows and requests keep their types; in particular no request writes a role
\* or a status the columns' enums do not have.
THEOREM TypeCorrect == Spec => []TypeOK
<1>1. Inv => TypeOK  BY DEF Inv
<1> QED BY <1>1, Invariance, PTL

\* The plan's seats are never exceeded, however many invitations and answers
\* are under way at once (inviteByEmail and acceptInvitation).
THEOREM SeatsBounded == Spec => []SeatsWithinLimit
<1>1. Inv => SeatsWithinLimit  BY DEF Inv
<1> QED BY <1>1, Invariance, PTL

\* No invitation or answer takes the workspace from its owner.
THEOREM OwnerStays == Spec => []OwnerKept
<1>1. Inv => OwnerKept  BY DEF Inv
<1> QED BY <1>1, Invariance, PTL
-----------------------------------------------------------------------------
(* The refinement of SeatRules: each commit is one of its steps.             *)

LEMMA SeatsDrop ==
    ASSUME NEW u \in Users, u \in Seated, Seated' = Seated \ {u}
    PROVE  Seats' = Seats - 1
BY SeatsFinite, FS_RemoveElement DEF Seats

LEMMA RulesInit == Init => Rules!Init
<1> SUFFICES ASSUME Init PROVE Rules!Init
    OBVIOUS
<1>1. Seated = {Owner}  BY UsersAssumption DEF Init, Seated
<1>2. Seats = 1  BY <1>1, FS_Singleton DEF Seats
<1> QED BY <1>2 DEF Init, Rules!Init

LEMMA InviteFollowsRules ==
    ASSUME Inv, NEW r \in Reqs, InviteCommit(r), r \notin stale
    PROVE  Rules!Next
<1> DEFINE u == req[r].target
<1>1. u \in Users /\ status[u] \in {"none", "disabled"} /\ Seats < Limit
    BY DEF Inv, SnapshotHolds, InviteCommit
<1>2. status' = [status EXCEPT ![u] = "invited"]
    BY DEF InviteCommit
<1>3. u \notin Seated /\ Seated' = Seated \cup {u}
    BY <1>1, <1>2 DEF Seated, Inv, TypeOK
<1>4. Seats' = Seats + 1
    BY <1>1, <1>3, SeatsGrow
<1>5. Rules!Invite(u)
    BY <1>1, <1>2, <1>4 DEF Rules!Invite, Rules!Move
<1> QED BY <1>1, <1>5 DEF Rules!Next

LEMMA AcceptFollowsRules ==
    ASSUME Inv, NEW r \in Reqs, AcceptCommit(r), r \notin stale
    PROVE  Rules!Next
<1> DEFINE u == req[r].target
<1>1. u \in Users /\ status[u] = "invited"
    BY DEF Inv, SnapshotHolds, AcceptCommit
<1>2. status' = [status EXCEPT ![u] = "active"]
    BY DEF AcceptCommit
<1>3. Seats' = Seats
    BY <1>1, <1>2, SeatsSame DEF Seated, Inv, TypeOK
<1>4. Rules!Accept(u)
    BY <1>1, <1>2, <1>3 DEF Rules!Accept, Rules!Move
<1> QED BY <1>1, <1>4 DEF Rules!Next

\* A row that leaves its seat, or a disabled one that is deleted.
LEMMA LeavingFollowsRules ==
    ASSUME Inv, NEW u \in Users, u # Owner, status[u] # "none",
           NEW s \in {"none", "disabled"}, status' = [status EXCEPT ![u] = s],
           s = "disabled" => status[u] # "disabled"
    PROVE  Rules!Next
<1> USE DEF Inv, TypeOK, Statuses
<1>1. CASE status[u] \in {"invited", "active"}
    <2>1. u \in Seated /\ Seated' = Seated \ {u}
        BY <1>1 DEF Seated
    <2>2. Seats' = Seats - 1
        BY <2>1, SeatsDrop
    <2>3. Rules!Leave(u)
        BY <1>1, <2>2 DEF Rules!Leave, Rules!Move
    <2> QED BY <2>3 DEF Rules!Next
<1>2. CASE status[u] = "disabled"
    <2>1. Seated' = Seated
        BY <1>2 DEF Seated
    <2>2. Rules!Forget(u)
        BY <1>2, <2>1, SeatsSame DEF Rules!Forget, Rules!Move
    <2> QED BY <2>2 DEF Rules!Next
<1> QED BY <1>1, <1>2

LEMMA RulesStep ==
    ASSUME Inv, [Next]_vars
    PROVE  [Rules!Next]_<<status, Seats>>
<1>0. UNCHANGED status => UNCHANGED <<status, Seats>>
    BY SeatsUnchanged
<1>1. ASSUME NEW r \in Reqs, Step(r) PROVE [Rules!Next]_<<status, Seats>>
    <2>1. ASSUME NEW u \in Users, Guard(r, u) \/ AcceptBegin(r, u) \/ DeclineBegin(r, u)
          PROVE  UNCHANGED status
        BY <2>1 DEF Guard, AcceptBegin, DeclineBegin, rows
    <2>2. ASSUME NEW u \in Users, NEW as \in Invitable, InviteBegin(r, u, as)
          PROVE  UNCHANGED status
        BY <2>2 DEF InviteBegin, rows
    <2>3. Abort(r) => UNCHANGED status
        BY DEF Abort, rows
    <2>4. CASE InviteCommit(r) \/ AcceptCommit(r) \/ DeclineCommit(r)
        <3>1. CASE r \in stale
            <4>1. UNCHANGED status
                BY <2>4, <3>1 DEF InviteCommit, AcceptCommit, DeclineCommit, rows
            <4> QED BY <4>1, <1>0
        <3>2. ASSUME r \notin stale, DeclineCommit(r) PROVE Rules!Next
            BY <3>2, LeavingFollowsRules DEF DeclineCommit, Inv, SnapshotHolds
        <3> QED BY <2>4, <3>1, <3>2, InviteFollowsRules, AcceptFollowsRules
    <2> QED BY <1>0, <1>1, <2>1, <2>2, <2>3, <2>4 DEF Step
<1>2. ASSUME NEW u \in Users, Disable(u) PROVE Rules!Next
    BY <1>2, LeavingFollowsRules DEF Disable
<1>3. CASE Environment
    BY <1>0, <1>3 DEF Environment, rows
<1>4. CASE UNCHANGED vars
    BY <1>0, <1>4 DEF vars
<1> QED BY <1>1, <1>2, <1>3, <1>4 DEF Next

\* The transactions of the service implement the rules of membership.
THEOREM TransactionsRefineRules == Spec => RulesSpec
<1>1. Init => Rules!Init  BY RulesInit
<1>2. Inv /\ [Next]_vars => [Rules!Next]_<<status, Seats>>
    BY RulesStep
<1> QED BY <1>1, <1>2, Invariance, PTL DEF Spec, RulesSpec, Rules!Spec

\* An acceptance that commits finds its invitation still open.
THEOREM AcceptsOpen == Spec => AcceptsOpenInvitation
<1>1. ASSUME Inv, Next, NEW u \in Users, status[u] # "active", status'[u] = "active"
      PROVE  status[u] = "invited"
    <2>1. [Rules!Next]_<<status, Seats>>
        BY <1>1, RulesStep
    <2>2. PICK w \in Users : Rules!Invite(w) \/ Rules!Accept(w) \/ Rules!Leave(w)
                               \/ Rules!Forget(w)
        BY <1>1, <2>1 DEF Rules!Next
    <2> QED BY <1>1, <2>2
        DEF Inv, TypeOK, Rules!Invite, Rules!Accept, Rules!Leave,
            Rules!Forget, Rules!Move
<1>2. Inv /\ [Next]_vars => [\A u \in Users :
            status[u] # "active" /\ status'[u] = "active"
                => status[u] = "invited"]_vars
    BY <1>1
<1> QED BY <1>2, Invariance, PTL DEF Spec, AcceptsOpenInvitation
=============================================================================
