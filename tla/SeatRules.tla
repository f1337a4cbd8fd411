------------------------------ MODULE SeatRules ------------------------------
(* What a workspace's members are promised, each rule applied at one stroke: *)
(* an invitation reserves a seat while one is free, and only its answer, or  *)
(* an administrator, changes it; a seat is given back with its holder.       *)
EXTENDS Integers

CONSTANTS Users, Owner, Limit

VARIABLES status,       \* status[u]: "none", "invited", "active", "disabled"
          seats         \* seats taken

Init ==
    /\ status = [u \in Users |-> IF u = Owner THEN "active" ELSE "none"]
    /\ seats = 1

Move(u, s) == status' = [status EXCEPT ![u] = s]

Invite(u) ==
    /\ status[u] \in {"none", "disabled"}
    /\ seats < Limit
    /\ Move(u, "invited")
    /\ seats' = seats + 1

Accept(u) == status[u] = "invited" /\ Move(u, "active") /\ UNCHANGED seats

\* Invited or active users are disabled, or decline: the invitation may have
\* been accepted since the decline read it, the membership goes all the same.
Leave(u) ==
    /\ u # Owner
    /\ status[u] \in {"invited", "active"}
    /\ Move(u, "none") \/ Move(u, "disabled")
    /\ seats' = seats - 1

\* A decline may even find the membership disabled.
Forget(u) == status[u] = "disabled" /\ Move(u, "none") /\ UNCHANGED seats

Next == \E u \in Users : Invite(u) \/ Accept(u) \/ Leave(u) \/ Forget(u)

Spec == Init /\ [][Next]_<<status, seats>>
=============================================================================
