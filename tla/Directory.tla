------------------------------ MODULE Directory ------------------------------
(* What the accounts are to be for people: an e-mail address is registered   *)
(* once, for one user; an identity of a provider belongs to one user; and    *)
(* neither is ever taken back or changes hands.                              *)
CONSTANTS Users, Emails, Ids, NoUser

VARIABLES owners,       \* owners[e]: the users that have address e
          belongs       \* belongs[i]: the user identity i signs in as

Init ==
    /\ owners = [e \in Emails |-> {}]
    /\ belongs = [i \in Ids |-> NoUser]

\* A new user is the first of its address, and has no other.
Register(e, u) ==
    /\ owners[e] = {}
    /\ \A f \in Emails : u \notin owners[f]
    /\ owners' = [owners EXCEPT ![e] = {u}]

SignUp(e, u) ==
    /\ Register(e, u)
    /\ UNCHANGED belongs

Link(i, u) ==
    /\ belongs[i] = NoUser
    /\ \E e \in Emails : u \in owners[e]
    /\ belongs' = [belongs EXCEPT ![i] = u]
    /\ UNCHANGED owners

\* A first sign-in with a provider: both at once, or neither.
Enrol(i, e, u) ==
    /\ belongs[i] = NoUser
    /\ Register(e, u)
    /\ belongs' = [belongs EXCEPT ![i] = u]

Next ==
    \E u \in Users :
        \/ \E e \in Emails : SignUp(e, u)
        \/ \E i \in Ids : Link(i, u) \/ \E e \in Emails : Enrol(i, e, u)

Spec == Init /\ [][Next]_<<owners, belongs>>
=============================================================================
