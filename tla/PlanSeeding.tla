----------------------------- MODULE PlanSeeding -----------------------------
(* Server processes that start, possibly of different versions and at once,  *)
(* and the transaction each runs before it serves: seedPlanPolicies brings   *)
(* the plans of its version up to date, retires the other versions and gives *)
(* a Starter subscription to every workspace without an open one.            *)
(*                                                                           *)
(* PostgreSQL runs it READ COMMITTED: a statement sees what is committed     *)
(* when it begins and its own transaction's writes, and waits for the holder *)
(* of a row it writes, or of a key it inserts.  While it waits it finds      *)
(* nothing new: it goes on with the rows it saw when it began.               *)
EXTENDS Naturals, Sequences

CONSTANTS Instances,
          VersionOf,     \* CURRENT_PLAN_VERSION of each
          Deployments,   \* what the database may begin with: sets of versions
          Workspaces,
          Nobody

Versions == {VersionOf[i] : i \in Instances} \cup UNION Deployments

ASSUME VersionAssumption ==
    VersionOf \in [Instances -> Nat] /\ Nobody \notin Instances

\* A database that was seeded before has a version that was deployed last.
ASSUME DeploymentAssumption ==
    /\ Deployments \in SUBSET SUBSET Nat
    /\ \A D \in Deployments \ {{}} : \E v \in D : \A u \in D : u <= v

VARIABLES
    deployed,   \* the versions seeded before; nobody changes it
    plans,      \* plans by code and version: "none", "active" or "retired"
    lock,       \* the transaction that has written the row
    exists,     \* workspaces
    opens,      \* how many open subscriptions each has
    tx,         \* where each process is
    canceled,   \* workspaces whose subscription ended since a seed looked
    known       \* versions that were there when a seed began

vars == <<deployed, plans, lock, exists, opens, tx, canceled, known>>
data == <<deployed, plans, exists, opens>>
history == <<canceled, known>>

Codes == {"starter", "pro"}
Plans == Codes \X Versions
Seeding == {"upsert", "retire", "retiring", "list", "find", "insert", "commit"}

Tx == [pc : Seeding \cup {"down", "up"},
       policy : 1..2,              \* which of PLAN_POLICIES
       activate : SUBSET Plans,
       retire : SUBSET Plans,
       at : SUBSET Plans,          \* the row the UPDATE is at, if any,
       ahead : SUBSET Plans,       \* and those it has still before it
       listed : SUBSET Workspaces,
       missing : SUBSET Workspaces,
       added : SUBSET Workspaces]

At(pc) == [pc |-> pc, policy |-> 1, activate |-> {}, retire |-> {},
           at |-> {}, ahead |-> {}, listed |-> {}, missing |-> {}, added |-> {}]

TypeOK ==
    /\ deployed \in Deployments
    /\ plans \in [Plans -> {"none", "active", "retired"}]
    /\ lock \in [Plans -> Instances \cup {Nobody}]
    /\ exists \in SUBSET Workspaces
    /\ opens \in [Workspaces -> Nat]
    /\ tx \in [Instances -> Tx]
    /\ canceled \in [Instances -> SUBSET Workspaces]
    /\ known \in [Instances -> SUBSET Versions]

\* A database of the version deployed last, or one from before there were
\* plans; some workspaces, and none of them needs to have a subscription.
Init ==
    /\ deployed \in Deployments
    /\ plans = [p \in Plans |-> IF p[2] \notin deployed THEN "none"
                                ELSE IF \A v \in deployed : v <= p[2]
                                     THEN "active" ELSE "retired"]
    /\ lock = [p \in Plans |-> Nobody]
    /\ exists \in SUBSET Workspaces
    /\ opens \in [Workspaces -> {0, 1}]
    /\ \A w \in Workspaces \ exists : opens[w] = 0
    /\ tx = [i \in Instances |-> At("down")]
    /\ canceled = [i \in Instances |-> {}]
    /\ known = [i \in Instances |-> {}]

Free(i, ps) == \A p \in ps : lock[p] \in {i, Nobody}
Take(i, ps) == lock' = [p \in Plans |-> IF p \in ps THEN i ELSE lock[p]]

KeepLocks(i) == UNCHANGED lock

\* The transaction ends, and with it what it holds.
Release(i) == lock' = [p \in Plans |-> IF lock[p] = i THEN Nobody ELSE lock[p]]

Forget(i) ==
    /\ canceled' = [canceled EXCEPT ![i] = {}]
    /\ known' = [known EXCEPT ![i] = {}]

Set(i, t) == tx' = [tx EXCEPT ![i] = t]

\* PLAN_POLICIES
Policies == <<"starter", "pro">>

OwnInAnyOrder(i) ==
    <<Policies[IF i = CHOOSE j \in Instances : TRUE THEN 3 - tx[i].policy ELSE tx[i].policy],
      VersionOf[i]>>

Own(i) == <<Policies[tx[i].policy], VersionOf[i]>>

InsertedOnly(i) == {p \in {Own(i)} : plans[p] = "none"}

\* The row the upsert writes, whether it inserts or updates.
Upserted(i) == {Own(i)}

NoOthers(i) == {}

\* Rows of the same plan in other versions that are there.
Others(i) == {p \in Plans : /\ p[1] = Own(i)[1] /\ p[2] # Own(i)[2]
                            /\ plans[p] # "none"}

\* The row a statement comes to first, of those in S; their order is the
\* database's.
First(S) == IF S = {} THEN {{}} ELSE {{p} : p \in S}

\* The versions whose plans are there.
Present == {v \in Versions : \A c \in Codes : plans[<<c, v>>] # "none"}

PastLast(i) == tx[i].policy = 3

\* Whether the loop over PLAN_POLICIES ends with this one.
AtLast(i) == tx[i].policy = 2

-----------------------------------------------------------------------------
\* onApplicationBootstrap, or the seed:plans script.
Begin(i) ==
    /\ tx[i].pc = "down"
    /\ Set(i, At("upsert"))
    /\ known' = [known EXCEPT ![i] = Present]
    /\ UNCHANGED <<data, lock, canceled>>

\* upsert on (code, version): waits for whoever inserts or updates that row.
Upsert(i) ==
    /\ tx[i].pc = "upsert"
    /\ Free(i, Upserted(i))
    /\ Take(i, Upserted(i))
    /\ Set(i, [tx[i] EXCEPT !.pc = "retire", !.activate = @ \cup {Own(i)}])
    /\ UNCHANGED <<data, history>>

\* The UPDATE that retires the other versions begins: it finds those that are
\* committed now ...
FindOthers(i) ==
    /\ tx[i].pc = "retire"
    /\ \E row \in First(Others(i)) :
          Set(i, [tx[i] EXCEPT !.pc = "retiring", !.at = row, !.ahead = Others(i) \ row])
    /\ UNCHANGED <<data, lock, history>>

\* ... and retires them row by row, waiting for whoever has written one.  The
\* upsert of the plan's entitlements that follows the last writes only rows of
\* the plan that is held.
Retire(i) ==
    LET t == [tx[i] EXCEPT !.retire = @ \cup tx[i].at]
    IN  /\ tx[i].pc = "retiring"
        /\ Free(i, tx[i].at)
        /\ Take(i, tx[i].at)
        /\ \E row \in First(tx[i].ahead) :
              LET next == [t EXCEPT !.at = row, !.ahead = @ \ row]
              IN  Set(i, IF row # {} THEN next
                         ELSE IF AtLast(i) THEN [next EXCEPT !.pc = "list"]
                         ELSE [next EXCEPT !.pc = "upsert", !.policy = @ + 1])
        /\ UNCHANGED <<data, history>>

\* backfillStarterSubscriptions lists the workspaces ...
List(i) ==
    /\ tx[i].pc = "list"
    /\ Set(i, [tx[i] EXCEPT !.pc = "find", !.listed = exists])
    /\ UNCHANGED <<data, lock, history>>

MissingIfNew(i) ==
    IF plans[Own(i)] = "none" THEN {w \in tx[i].listed : opens[w] = 0} ELSE {}

Missing(i) == {w \in tx[i].listed : opens[w] = 0}

\* ... finds those without an open subscription ...
FindOpen(i) ==
    /\ tx[i].pc = "find"
    /\ Set(i, [tx[i] EXCEPT !.pc = "insert", !.missing = Missing(i)])
    /\ UNCHANGED <<data, lock, history>>

InsertedAll(i) == tx[i].missing

\* Rows that do not collide in UQ_subscriptions_active_workspace (orIgnore).
Inserted(i) == {w \in tx[i].missing : opens[w] = 0}

\* ... and inserts theirs, waiting for whoever inserts the same.
Insert(i) ==
    /\ tx[i].pc = "insert"
    /\ \A j \in Instances \ {i} : tx[j].added \cap tx[i].missing = {}
    /\ Set(i, [tx[i] EXCEPT !.pc = "commit", !.added = Inserted(i)])
    /\ UNCHANGED <<data, lock, history>>

Commit(i) ==
    /\ tx[i].pc = "commit"
    /\ plans' = [p \in Plans |-> IF p \in tx[i].activate THEN "active"
                                 ELSE IF p \in tx[i].retire THEN "retired"
                                 ELSE plans[p]]
    /\ opens' = [w \in Workspaces |-> IF w \in tx[i].added THEN opens[w] + 1
                                      ELSE opens[w]]
    /\ Release(i)
    /\ Set(i, At("up"))
    /\ Forget(i)
    /\ UNCHANGED <<deployed, exists>>

\* Abort if the statements were not in one transaction.
AbortAfterWrites(i) ==
    /\ tx[i].pc \in Seeding
    /\ plans' = [p \in Plans |-> IF p \in tx[i].activate THEN "active"
                                 ELSE IF p \in tx[i].retire THEN "retired"
                                 ELSE plans[p]]
    /\ Release(i)
    /\ Set(i, At("down"))
    /\ Forget(i)
    /\ UNCHANGED <<deployed, exists, opens>>

\* The transaction fails (a deadlock's victim, a lost connection) or the
\* process dies; one that cannot seed does not serve.
Abort(i) ==
    /\ tx[i].pc \in Seeding
    /\ Release(i)
    /\ Set(i, At("down"))
    /\ Forget(i)
    /\ UNCHANGED data

\* The transactions that hold a row this one waits for, or its key.
WaitsFor(i) ==
    {j \in Instances \ {i} :
        \/ tx[i].pc = "upsert" /\ \E p \in Upserted(i) : lock[p] = j
        \/ tx[i].pc = "retiring" /\ \E p \in tx[i].at : lock[p] = j
        \/ tx[i].pc = "insert" /\ tx[j].added \cap tx[i].missing # {}}

Stuck(S) == S # {} /\ \A i \in S : WaitsFor(i) \cap S # {}

\* Transactions that wait for each other in a circle.
Circle(S) == Stuck(S) /\ \A T \in SUBSET S : Stuck(T) => T = S

\* PostgreSQL looks for circles and fails a transaction of each (the two
\* versions take each other's rows in opposite orders, so there are some).
Victim(i) ==
    /\ \E S \in SUBSET Instances : i \in S /\ Circle(S)
    /\ Abort(i)

Stop(i) ==
    /\ tx[i].pc = "up"
    /\ Set(i, At("down"))
    /\ UNCHANGED <<data, lock, history>>

\* createPersonalWorkspace, in a process that serves: it wants the Starter
\* plan of its own version.
Signup(i, w) ==
    /\ tx[i].pc = "up"
    /\ w \notin exists
    /\ plans[<<"starter", VersionOf[i]>>] = "active"
    /\ exists' = exists \cup {w}
    /\ opens' = [opens EXCEPT ![w] = 1]
    /\ UNCHANGED <<deployed, plans, lock, tx, history>>

\* A subscription ends (the entities provide for it; nothing in src does it).
Cancel(w) ==
    /\ opens[w] > 0
    /\ opens' = [opens EXCEPT ![w] = 0]
    /\ canceled' = [i \in Instances |-> IF tx[i].pc \in {"insert", "commit"}
                                        THEN canceled[i] \cup {w}
                                        ELSE canceled[i]]
    /\ UNCHANGED <<deployed, plans, lock, exists, tx, known>>

Seed(i) ==
    \/ Upsert(i) \/ FindOthers(i) \/ Retire(i)
    \/ List(i) \/ FindOpen(i) \/ Insert(i) \/ Commit(i)

Next ==
    \/ \E i \in Instances :
          \/ Begin(i) \/ Seed(i) \/ Abort(i) \/ Victim(i) \/ Stop(i)
          \/ \E w \in Workspaces : Signup(i, w)
    \/ \E w \in Workspaces : Cancel(w)

Spec == Init /\ [][Next]_vars

\* The database runs every statement that waits for nobody, those that wait
\* for a row get it in turn, however often others come for it, and those that
\* wait for each other are found.
FairSpec == /\ Spec
            /\ \A i \in Instances : SF_vars(Seed(i))
            /\ WF_vars(\E i \in Instances : Victim(i))

-----------------------------------------------------------------------------
(* Properties *)

\* In a database that had plans, every committed state has all plans of one
\* version active, while processes of other versions start and fail at any
\* moment.  No other version is active beside it, but for the Starter plan of
\* one that was as new: an UPDATE that waited for that version's seed has not
\* seen the row this seed left, and nothing retires it before the next start.
OneActiveVersion ==
    deployed # {} =>
        \E v \in Versions :
            /\ \A c \in Codes : plans[<<c, v>>] = "active"
            /\ \A u \in Versions \ {v} :
                  /\ plans[<<"pro", u>>] # "active"
                  /\ {u, v} \cap deployed # {} => plans[<<"starter", u>>] # "active"

\* Processes of one version seed one after the other: the first statement
\* holds back everyone else until the transaction ends.
SameVersionInTurn ==
    \A i, j \in Instances :
        i # j /\ VersionOf[i] = VersionOf[j] =>
            tx[i].activate = {} \/ tx[j].activate = {}

\* Seeds that wait for each other in a circle are of different versions:
\* every seed of one version takes its rows in the same order.
CirclesCrossVersions ==
    \A S \in SUBSET Instances : Stuck(S) =>
        \E i, j \in S : VersionOf[i] # VersionOf[j]

\* In a database that had plans, a seed that has retired the Starter plans of
\* the other versions waits for nobody from there to its commit: a circle is
\* found while its seeds have written no plan but their Starter.
StarterDecides ==
    deployed # {} =>
        \A i \in Instances : WaitsFor(i) # {} =>
            tx[i].pc \in {"upsert", "retiring"} /\ tx[i].policy = 1

\* A workspace never has two open subscriptions, whoever else seeds, signs up
\* or cancels between the SELECTs of the backfill and its INSERT.
OneOpenSubscription == \A w \in Workspaces : opens[w] <= 1

\* A seed that commits leaves no workspace it listed without an open
\* subscription, but those whose subscription ended after it looked.
BackfillCovers ==
    [][\A i \in Instances : Commit(i) =>
          \A w \in tx[i].listed \ canceled[i] : opens'[w] = 1]_vars

\* The seeds implement Catalogue: whatever statements of others come between
\* its own, a seed takes effect at its commit, as one deployment, and leaves
\* nothing on offer that was there when it began.
Deployed ==
    INSTANCE Catalogue
      WITH Seeds <- Instances,
           offered <- [c \in Codes |-> {v \in Versions : plans[<<c, v>>] = "active"}],
           present <- Present,
           subscribed <- {w \in Workspaces : opens[w] = 1}
CatalogueSpec == Deployed!Spec

\* Every seed ends, with its commit or a failure, while processes of two
\* versions come and go: seeds of one version never wait in a circle, those of
\* two can, and then one of them fails and the other gets what it waits for.
SeedsEnd ==
    \A i \in Instances : tx[i].pc \in Seeding ~> tx[i].pc \notin Seeding
=============================================================================
