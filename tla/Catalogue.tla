------------------------------ MODULE Catalogue ------------------------------
(* What a deployment is to the workspaces, as if it happened at one stroke:  *)
(* the plans of its version are on offer, those of the versions that were    *)
(* there when it began are not, and workspaces that had no subscription have *)
(* one.  Who has one keeps it until it is canceled, and gets no second.      *)
CONSTANTS Seeds, VersionOf, Codes, Versions, Workspaces

VARIABLES offered,      \* offered[c]: versions of plan c that are active
          present,      \* versions whose plans are there, on offer or not
          known,        \* known[i]: those that were there when i began
          subscribed    \* workspaces with one open subscription

vars == <<offered, present, known, subscribed>>

Init ==
    /\ present \in SUBSET Versions
    /\ IF present = {} THEN offered = [c \in Codes |-> {}]
       ELSE \E v \in present : offered = [c \in Codes |-> {v}]
    /\ known = [i \in Seeds |-> {}]
    /\ subscribed \in SUBSET Workspaces

Begin(i) ==
    /\ known' = [known EXCEPT ![i] = present]
    /\ UNCHANGED <<offered, present, subscribed>>

GiveUp(i) ==
    /\ known' = [known EXCEPT ![i] = {}]
    /\ UNCHANGED <<offered, present, subscribed>>

\* Versions that came while it was under way need not have been seen.
Deploy(i, W) ==
    /\ offered' \in [Codes -> SUBSET Versions]
    /\ \A c \in Codes :
          /\ VersionOf[i] \in offered'[c]
          /\ offered'[c] \subseteq {VersionOf[i]} \cup (offered[c] \ known[i])
    /\ present' = present \cup {VersionOf[i]}
    /\ known' = [known EXCEPT ![i] = {}]
    /\ W \cap subscribed = {}
    /\ subscribed' = subscribed \cup W

\* A workspace begins with a plan on offer.
Join(w) ==
    /\ \E c \in Codes : offered[c] # {}
    /\ w \notin subscribed
    /\ subscribed' = subscribed \cup {w}
    /\ UNCHANGED <<offered, present, known>>

Leave(w) ==
    /\ w \in subscribed
    /\ subscribed' = subscribed \ {w}
    /\ UNCHANGED <<offered, present, known>>

Next ==
    \/ \E i \in Seeds :
          Begin(i) \/ GiveUp(i) \/ \E W \in SUBSET Workspaces : Deploy(i, W)
    \/ \E w \in Workspaces : Join(w) \/ Leave(w)

Spec == Init /\ [][Next]_vars
=============================================================================
