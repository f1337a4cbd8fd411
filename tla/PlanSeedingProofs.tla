--------------------------- MODULE PlanSeedingProofs ---------------------------
(* Proofs about PlanSeeding, for any processes, versions and workspaces.     *)
EXTENDS PlanSeeding, TLAPS

Starter(i) == <<"starter", VersionOf[i]>>
Pro(i) == <<"pro", VersionOf[i]>>

\* What a transaction has activated follows from where it is.
Activates(i) ==
    tx[i].activate =
        IF \/ tx[i].pc \in {"down", "up"}
           \/ tx[i].pc = "upsert" /\ tx[i].policy = 1
        THEN {}
        ELSE IF \/ tx[i].pc = "upsert"
                \/ tx[i].pc \in {"retire", "retiring"} /\ tx[i].policy = 1
        THEN {Starter(i)}
        ELSE {Starter(i), Pro(i)}

\* It holds the rows it has written.
Held(i) == \A p \in tx[i].activate \cup tx[i].retire : lock[p] = i

\* The rows it has written or will write before its next plan.
Account(i) == tx[i].activate \cup tx[i].retire \cup tx[i].at \cup tx[i].ahead

\* The codes whose other versions it has retired, ...
Done(i) ==
    IF tx[i].pc \in {"upsert", "retire", "retiring"}
    THEN IF tx[i].policy = 1 THEN {} ELSE {"starter"}
    ELSE IF tx[i].pc \in {"down", "up"} THEN {} ELSE Codes

\* ... and with that whose it is retiring.
Begun(i) == Done(i) \cup (IF tx[i].pc = "retiring" THEN {Own(i)[1]} ELSE {})

\* Only an UPDATE has rows before it: rows of its plan that are there.
Finds(i) ==
    /\ tx[i].pc # "retiring" => tx[i].at \cup tx[i].ahead = {}
    /\ \A p \in tx[i].at \cup tx[i].ahead : p[1] = Own(i)[1]
    /\ \A p \in tx[i].retire \cup tx[i].at \cup tx[i].ahead : plans[p] # "none"

\* What was there when it began still is, ...
Knows(i) ==
    /\ known[i] \subseteq Present
    /\ tx[i].pc \in Seeding => deployed \subseteq known[i]

\* ... and the UPDATE of a plan has found that plan in all these versions.
Sees(i) == \A c \in Begun(i), v \in known[i] : <<c, v>> \in Account(i)

\* In a database that had plans it has found every active row of a plan, but
\* for Starter rows that came since, when its own version is new too.
Covers(i) ==
    deployed # {} =>
        \A c \in Begun(i), u \in Versions :
            /\ plans[<<c, u>>] = "active"
            /\ c = "pro" \/ VersionOf[i] \in deployed
            => <<c, u>> \in Account(i)

Plans1(i) == Activates(i) /\ Held(i) /\ Finds(i) /\ Knows(i) /\ Sees(i) /\ Covers(i)

\* The backfill inserts for workspaces that are there and have nothing open,
\* and no two backfills for the same.
Inserts(i) ==
    /\ tx[i].added \subseteq tx[i].missing
    /\ tx[i].missing \subseteq tx[i].listed
    /\ tx[i].listed \subseteq exists
    /\ \A w \in tx[i].added : opens[w] = 0
    /\ \A j \in Instances \ {i} : tx[i].added \cap tx[j].added = {}

\* A workspace it listed has a subscription, will get one, or lost its own.
Found(i) ==
    /\ tx[i].pc = "insert" =>
          \A w \in tx[i].listed \ (tx[i].missing \cup canceled[i]) : opens[w] > 0
    /\ tx[i].pc = "commit" =>
          \A w \in tx[i].listed \ canceled[i] : w \in tx[i].added \/ opens[w] > 0

Backfill(i) == Inserts(i) /\ Found(i)

Inv ==
    /\ TypeOK
    /\ OneActiveVersion
    /\ OneOpenSubscription
    /\ deployed \subseteq Present
    /\ \A i \in Instances : Plans1(i) /\ Backfill(i)

USE VersionAssumption

-----------------------------------------------------------------------------
LEMMA PlansType ==
    ASSUME NEW i \in Instances
    PROVE  Starter(i) \in Plans /\ Pro(i) \in Plans
<1>1. VersionOf[i] \in Versions
  BY DEF Versions
<1> QED BY <1>1 DEF Starter, Pro, Plans, Codes

LEMMA OwnIs ==
    ASSUME TypeOK, NEW i \in Instances
    PROVE  /\ tx[i].policy = 1 => Own(i) = Starter(i)
           /\ tx[i].policy # 1 => tx[i].policy = 2 /\ Own(i) = Pro(i)
           /\ Own(i) \in Plans
<1>1. tx[i].policy \in 1..2
  BY DEF TypeOK, Tx
<1>2. tx[i].policy = 1 \/ tx[i].policy = 2
  BY <1>1
<1>3. <<"starter", "pro">>[1] = "starter" /\ <<"starter", "pro">>[2] = "pro"
  OBVIOUS
<1> QED BY <1>2, <1>3, PlansType DEF Own, Policies, Starter, Pro

LEMMA AtType ==
    ASSUME NEW pc \in Seeding \cup {"down", "up"}
    PROVE  /\ At(pc) \in Tx /\ At(pc).pc = pc /\ At(pc).policy = 1
           /\ At(pc).activate = {} /\ At(pc).retire = {} /\ At(pc).listed = {}
           /\ At(pc).at = {} /\ At(pc).ahead = {}
           /\ At(pc).missing = {} /\ At(pc).added = {}
BY DEF At, Tx

\* Which versions are there depends on the plans alone, and none goes.
LEMMA PresentGrows ==
    ASSUME \A p \in Plans : plans[p] # "none" => plans'[p] # "none"
    PROVE  Present \subseteq Present'
BY DEF Present, Plans, Versions

\* A step leaves the plan part of a transaction alone that keeps its rows.
LEMMA PlansKeep ==
    ASSUME Inv, NEW i \in Instances,
           \/ tx'[i].pc = tx[i].pc
           \/ {tx[i].pc, tx'[i].pc} \subseteq {"list", "find", "insert", "commit"},
           tx'[i].policy = tx[i].policy,
           tx'[i].activate = tx[i].activate, tx'[i].retire = tx[i].retire,
           tx'[i].at = tx[i].at, tx'[i].ahead = tx[i].ahead,
           \A p \in Plans : lock[p] = i => lock'[p] = i,
           UNCHANGED deployed, known'[i] = known[i],
           \A p \in Plans : plans[p] # "none" => plans'[p] # "none",
           UNCHANGED plans \/ Covers(i)'
    PROVE  Plans1(i)'
<1>1. Activates(i) /\ Held(i) /\ Finds(i) /\ Knows(i) /\ Sees(i) /\ Covers(i)
  BY DEF Inv, Plans1
<1>2. Account(i) \subseteq Plans
  BY DEF Inv, TypeOK, Tx, Account
<1>3. Account(i)' = Account(i) /\ Begun(i)' = Begun(i)
  BY DEF Account, Begun, Done, Own
<1>4. Activates(i)'
  BY <1>1 DEF Activates, Starter, Pro
<1>5. Held(i)'
  BY <1>1, <1>2 DEF Held, Account
<1>6. Finds(i)'
  BY <1>1, <1>2 DEF Finds, Own, Account
<1>7. Knows(i)'
  BY <1>1, PresentGrows DEF Knows, Seeding
<1>8. Sees(i)'
  BY <1>1, <1>3 DEF Sees
<1>9. Covers(i)'
  <2>1. CASE UNCHANGED plans
    BY <1>1, <1>3, <2>1 DEF Covers, Versions
  <2> QED BY <2>1
<1> QED BY <1>4, <1>5, <1>6, <1>7, <1>8, <1>9 DEF Plans1

\* The same for the backfill part, when nothing is added.
LEMMA BackfillKeeps ==
    ASSUME Inv, NEW i \in Instances,
           tx'[i].pc = tx[i].pc \/ {tx[i].pc, tx'[i].pc} \cap {"insert", "commit"} = {},
           tx'[i].listed = tx[i].listed, tx'[i].missing = tx[i].missing,
           \A j \in Instances : tx'[j].added = tx[j].added \/ (j # i /\ tx'[j].added = {}),
           UNCHANGED <<exists, opens>>, canceled'[i] = canceled[i]
    PROVE  Backfill(i)'
<1>1. Inserts(i) /\ Found(i)
  BY DEF Inv, Backfill
<1>2. tx'[i].added = tx[i].added
  OBVIOUS
<1>3. Inserts(i)'
  BY <1>1, <1>2 DEF Inserts
<1>4. Found(i)'
  BY <1>1, <1>2 DEF Found
<1> QED BY <1>3, <1>4 DEF Backfill

\* A transaction that has not begun, or has ended, promises nothing.
LEMMA AtKeeps ==
    ASSUME NEW i \in Instances, NEW pc \in {"down", "up", "upsert"}, tx'[i] = At(pc),
           known'[i] \subseteq Present',
           pc = "upsert" => (deployed \subseteq known[i])'
    PROVE  Plans1(i)' /\ Backfill(i)'
<1>1. /\ At(pc).pc = pc /\ At(pc).policy = 1
      /\ At(pc).activate = {} /\ At(pc).retire = {} /\ At(pc).listed = {}
      /\ At(pc).at = {} /\ At(pc).ahead = {}
      /\ At(pc).missing = {} /\ At(pc).added = {}
  BY AtType DEF Seeding
<1>2. Begun(i)' = {}
  BY <1>1 DEF Begun, Done
<1>3. Plans1(i)'
  <2>1. Activates(i)' /\ Held(i)' /\ Finds(i)' /\ Knows(i)'
    BY <1>1 DEF Activates, Held, Finds, Knows, Seeding
  <2> QED BY <1>2, <2>1 DEF Plans1, Sees, Covers
<1>4. Backfill(i)'
  BY <1>1 DEF Backfill, Inserts, Found
<1> QED BY <1>3, <1>4


LEMMA InitInvariant == Init => Inv
<1> SUFFICES ASSUME Init PROVE Inv
  OBVIOUS
<1>1. \A pc \in {"down", "up", "upsert"} : At(pc) \in Tx
  BY AtType DEF Seeding
<1>2. TypeOK
  <2>1. tx \in [Instances -> Tx]
    BY <1>1 DEF Init
  <2>2. plans \in [Plans -> {"none", "active", "retired"}]
    BY DEF Init
  <2> QED BY <2>1, <2>2 DEF Init, TypeOK
<1>3. OneOpenSubscription
  BY DEF Init, OneOpenSubscription
<1>4. ASSUME NEW i \in Instances PROVE Plans1(i) /\ Backfill(i)
  <2>1. /\ tx[i].pc = "down" /\ tx[i].policy = 1 /\ tx[i].activate = {}
        /\ tx[i].retire = {} /\ tx[i].at = {} /\ tx[i].ahead = {}
        /\ tx[i].listed = {} /\ tx[i].missing = {} /\ tx[i].added = {}
        /\ known[i] = {}
    BY AtType DEF Init
  <2>2. Plans1(i)
    <3>1. Begun(i) = {}
      BY <2>1 DEF Begun, Done
    <3>2. Activates(i) /\ Held(i) /\ Finds(i) /\ Knows(i)
      BY <2>1 DEF Activates, Held, Finds, Knows, Seeding
    <3> QED BY <3>1, <3>2 DEF Plans1, Sees, Covers
  <2>3. Backfill(i)
    BY <2>1 DEF Backfill, Inserts, Found
  <2> QED BY <2>2, <2>3
<1>5. \A v \in deployed : v \in Versions /\ v \in Nat
  BY DeploymentAssumption DEF Init, Versions
<1>6. deployed \subseteq Present
  BY <1>5 DEF Init, Present, Plans
<1>7. OneActiveVersion
  <2> SUFFICES ASSUME deployed # {}
               PROVE  \E v \in Versions : \A c \in Codes, u \in Versions :
                         plans[<<c, u>>] = "active" <=> u = v
    BY DEF OneActiveVersion, Codes
  <2>1. PICK v \in deployed : \A u \in deployed : u <= v
    BY DeploymentAssumption DEF Init
  <2>3. ASSUME NEW c \in Codes, NEW u \in Versions
        PROVE  plans[<<c, u>>] = "active" <=> u = v
    <3>1. <<c, u>> \in Plans
      BY DEF Plans
    <3>2. plans[<<c, u>>] = "active" <=> u \in deployed /\ \A x \in deployed : x <= u
      BY <3>1 DEF Init
    <3> QED BY <1>5, <2>1, <3>2
  <2> QED BY <1>5, <2>1, <2>3
<1> QED BY <1>2, <1>3, <1>4, <1>6, <1>7 DEF Inv

LEMMA BeginKeeps ==
    ASSUME Inv, NEW i \in Instances,
           Begin(i) \/ Stop(i)
    PROVE  Inv'
<1> PICK pc \in {"down", "upsert"} :
           /\ tx' = [tx EXCEPT ![i] = At(pc)]
           /\ pc = "upsert" => known' = [known EXCEPT ![i] = Present]
           /\ pc = "down" => UNCHANGED known
  BY DEF Begin, Stop, Set, history
<1>1. /\ UNCHANGED <<deployed, plans, lock, exists, opens, canceled>>
      /\ tx[i].pc \in {"down", "up"}
  BY DEF Begin, Stop, data, history
<1>2. At(pc) \in Tx /\ At(pc).added = {}
  BY AtType DEF Seeding
<1>3. tx' \in [Instances -> Tx] /\ tx'[i] = At(pc) /\ \A j \in Instances \ {i} : tx'[j] = tx[j]
  BY <1>2 DEF Inv, TypeOK
<1>4. /\ Present' = Present /\ known[i] \subseteq Present /\ deployed \subseteq Present
      /\ Present \in SUBSET Versions
  BY <1>1 DEF Present, Versions, Inv, Plans1, Knows
<1>5. /\ known' \in [Instances -> SUBSET Versions]
      /\ \A j \in Instances \ {i} : known'[j] = known[j]
      /\ pc = "upsert" => known'[i] = Present
      /\ pc = "down" => known'[i] = known[i]
  BY <1>4 DEF Inv, TypeOK
<1>6. TypeOK' /\ OneActiveVersion' /\ OneOpenSubscription'
  BY <1>1, <1>3, <1>5 DEF Inv, TypeOK, OneActiveVersion, OneOpenSubscription
<1>7. Plans1(i)' /\ Backfill(i)'
  BY <1>1, <1>3, <1>4, <1>5, AtKeeps
<1>8. ASSUME NEW j \in Instances \ {i} PROVE Plans1(j)' /\ Backfill(j)'
  BY <1>1, <1>2, <1>3, <1>5, PlansKeep, BackfillKeeps
<1> QED BY <1>1, <1>4, <1>6, <1>7, <1>8 DEF Inv

\* Taking rows that are free takes none from anybody else.
LEMMA TakeFree ==
    ASSUME Inv, NEW i \in Instances, NEW ps, Free(i, ps), Take(i, ps)
    PROVE  /\ lock' \in [Plans -> Instances \cup {Nobody}]
           /\ \A p \in ps \cap Plans : lock'[p] = i
           /\ \A p \in Plans, j \in Instances : lock[p] = j => lock'[p] = j
BY DEF Inv, TypeOK, Free, Take

LEMMA UpsertKeeps ==
    ASSUME Inv, NEW i \in Instances, Upsert(i)
    PROVE  Inv'
<1> PICK q : q = [tx[i] EXCEPT !.pc = "retire", !.activate = @ \cup {Own(i)}]
  OBVIOUS
<1>1. tx[i] \in Tx /\ tx[i].pc = "upsert" /\ Own(i) \in Plans
  BY OwnIs DEF Inv, TypeOK, Upsert
<1>2. /\ q.pc = "retire" /\ q.policy = tx[i].policy
      /\ q.activate = tx[i].activate \cup {Own(i)} /\ q.retire = tx[i].retire
      /\ q.at = tx[i].at /\ q.ahead = tx[i].ahead
      /\ q.listed = tx[i].listed /\ q.missing = tx[i].missing /\ q.added = tx[i].added
      /\ q \in Tx
  BY <1>1 DEF Tx, Seeding
<1>3. /\ tx' = [tx EXCEPT ![i] = q]
      /\ UNCHANGED <<deployed, plans, exists, opens, canceled, known>>
  BY DEF Upsert, Set, data, history
<1>4. tx' \in [Instances -> Tx] /\ tx'[i] = q /\ \A j \in Instances \ {i} : tx'[j] = tx[j]
  BY <1>2, <1>3 DEF Inv, TypeOK
<1>5. /\ lock' \in [Plans -> Instances \cup {Nobody}]
      /\ lock'[Own(i)] = i
      /\ \A p \in Plans, j \in Instances : lock[p] = j => lock'[p] = j
  BY <1>1, TakeFree DEF Upsert, Upserted
<1>6. TypeOK' /\ OneActiveVersion' /\ OneOpenSubscription' /\ (deployed \subseteq Present)'
  <2>1. TypeOK' /\ OneActiveVersion' /\ OneOpenSubscription'
    BY <1>3, <1>4, <1>5 DEF Inv, TypeOK, OneActiveVersion, OneOpenSubscription
  <2> QED BY <1>3, <2>1 DEF Inv, Present, Versions
<1>7. Plans1(i)'
  <2>1. Activates(i) /\ Held(i) /\ Finds(i) /\ Knows(i) /\ Sees(i) /\ Covers(i)
    BY DEF Inv, Plans1
  <2>2. Activates(i)'
    BY <1>1, <1>2, <1>4, <2>1, OwnIs DEF Inv, Activates, Starter, Pro
  <2>3. tx[i].activate \cup tx[i].retire \subseteq Plans
    BY <1>1 DEF Tx
  <2>4. Held(i)'
    BY <1>2, <1>4, <1>5, <2>1, <2>3 DEF Held
  <2>5. Finds(i)'
    BY <1>1, <1>2, <1>3, <1>4, <2>1 DEF Finds
  <2>6. Knows(i)'
    BY <1>1, <1>2, <1>3, <1>4, <2>1 DEF Knows, Present, Versions, Seeding
  <2>7. Begun(i)' = Begun(i) /\ Account(i) \subseteq Account(i)'
    BY <1>1, <1>2, <1>4 DEF Begun, Done, Account
  <2>8. Sees(i)'
    BY <1>3, <2>1, <2>7 DEF Sees
  <2>9. Covers(i)'
    BY <1>3, <2>1, <2>7 DEF Covers, Versions
  <2> QED BY <2>2, <2>4, <2>5, <2>6, <2>8, <2>9 DEF Plans1
<1>8. ASSUME NEW j \in Instances \ {i} PROVE Plans1(j)'
  BY <1>3, <1>4, <1>5, PlansKeep
<1>9. ASSUME NEW j \in Instances PROVE Backfill(j)'
  <2>1. \A k \in Instances : tx'[k].added = tx[k].added
    BY <1>2, <1>4
  <2>2. /\ tx'[j].listed = tx[j].listed /\ tx'[j].missing = tx[j].missing
        /\ tx'[j].pc = tx[j].pc \/ {tx[j].pc, tx'[j].pc} \cap {"insert", "commit"} = {}
    <3>1. CASE j = i
      BY <1>1, <1>2, <1>4, <3>1
    <3>2. CASE j # i
      BY <1>4, <3>2
    <3> QED BY <3>1, <3>2
  <2> QED BY <1>3, <2>1, <2>2, BackfillKeeps
<1> QED BY <1>6, <1>7, <1>8, <1>9 DEF Inv

\* A step of the UPDATE, from FindOthers to the last Retire, changes nothing
\* but the rows of its transaction, and leaves the backfill alone.
LEMMA UpdateKeeps ==
    ASSUME Inv, NEW i \in Instances, Plans1(i)',
           NEW q \in Tx, tx' = [tx EXCEPT ![i] = q],
           tx[i].pc \in {"retire", "retiring"}, q.pc \in {"retiring", "upsert", "list"},
           q.listed = tx[i].listed, q.missing = tx[i].missing, q.added = tx[i].added,
           lock' \in [Plans -> Instances \cup {Nobody}],
           \A p \in Plans, j \in Instances : lock[p] = j => lock'[p] = j,
           UNCHANGED <<deployed, plans, exists, opens, canceled, known>>
    PROVE  Inv'
<1>1. tx' \in [Instances -> Tx] /\ tx'[i] = q /\ \A j \in Instances \ {i} : tx'[j] = tx[j]
  BY DEF Inv, TypeOK
<1>2. TypeOK' /\ OneActiveVersion' /\ OneOpenSubscription' /\ (deployed \subseteq Present)'
  <2>1. TypeOK' /\ OneActiveVersion' /\ OneOpenSubscription'
    BY <1>1 DEF Inv, TypeOK, OneActiveVersion, OneOpenSubscription
  <2> QED BY <2>1 DEF Inv, Present, Versions
<1>3. ASSUME NEW j \in Instances \ {i} PROVE Plans1(j)'
  BY <1>1, PlansKeep
<1>4. ASSUME NEW j \in Instances PROVE Backfill(j)'
  <2>1. \A k \in Instances : tx'[k].added = tx[k].added
    BY <1>1
  <2>2. /\ tx'[j].listed = tx[j].listed /\ tx'[j].missing = tx[j].missing
        /\ tx'[j].pc = tx[j].pc \/ {tx[j].pc, tx'[j].pc} \cap {"insert", "commit"} = {}
    <3>1. CASE j = i
      BY <1>1, <3>1
    <3>2. CASE j # i
      BY <1>1, <3>2
    <3> QED BY <3>1, <3>2
  <2> QED BY <2>1, <2>2, BackfillKeeps
<1> QED BY <1>2, <1>3, <1>4 DEF Inv

LEMMA FirstIs ==
    ASSUME NEW S, NEW row \in First(S)
    PROVE  row \subseteq S /\ (row = {} => S = {})
BY DEF First

\* The UPDATE finds every other version of its plan that is there.
LEMMA FindOthersKeeps ==
    ASSUME Inv, NEW i \in Instances, FindOthers(i)
    PROVE  Inv'
<1>1. PICK row \in First(Others(i)) :
          tx' = [tx EXCEPT ![i] = [tx[i] EXCEPT !.pc = "retiring", !.at = row,
                                                !.ahead = Others(i) \ row]]
  BY DEF FindOthers, Set
<1>2. PICK q : q = [tx[i] EXCEPT !.pc = "retiring", !.at = row, !.ahead = Others(i) \ row]
  OBVIOUS
<1>3. /\ tx[i] \in Tx /\ tx[i].pc = "retire" /\ Others(i) \subseteq Plans
      /\ row \subseteq Others(i)
      /\ UNCHANGED <<deployed, plans, lock, exists, opens, canceled, known>>
  BY FirstIs DEF Inv, TypeOK, FindOthers, Others, data, history
<1>4. /\ q.pc = "retiring" /\ q.policy = tx[i].policy
      /\ q.activate = tx[i].activate /\ q.retire = tx[i].retire
      /\ q.at = row /\ q.ahead = Others(i) \ row
      /\ q.listed = tx[i].listed /\ q.missing = tx[i].missing /\ q.added = tx[i].added
      /\ q \in Tx
  BY <1>2, <1>3 DEF Tx, Seeding
<1>5. tx' = [tx EXCEPT ![i] = q] /\ tx'[i] = q
  BY <1>1, <1>2 DEF Inv, TypeOK
<1>6. Activates(i) /\ Held(i) /\ Finds(i) /\ Knows(i) /\ Sees(i) /\ Covers(i)
  BY DEF Inv, Plans1
<1>7. /\ Own(i)' = Own(i) /\ Begun(i)' = Begun(i) \cup {Own(i)[1]}
      /\ Account(i)' = tx[i].activate \cup tx[i].retire \cup Others(i)
      /\ Account(i) \subseteq Account(i)'
  <2>1. Own(i)' = Own(i)
    BY <1>4, <1>5 DEF Own
  <2>2. tx[i].at \cup tx[i].ahead = {}
    BY <1>3, <1>6 DEF Finds
  <2>3. Begun(i)' = Begun(i) \cup {Own(i)[1]}
    BY <1>3, <1>4, <1>5, <2>1 DEF Begun, Done
  <2> QED BY <1>3, <1>4, <1>5, <2>1, <2>2, <2>3 DEF Account
<1>8. Own(i) \in Plans /\ Own(i) \in tx[i].activate /\ Own(i)[2] = VersionOf[i]
  BY <1>3, <1>6, OwnIs DEF Inv, Activates, Own
\* All rows of this plan that are there are its own or found.
<1>9. ASSUME NEW u \in Versions, plans[<<Own(i)[1], u>>] # "none"
      PROVE  <<Own(i)[1], u>> \in Account(i)'
  <2>1. <<Own(i)[1], u>> \in Plans
    BY <1>8 DEF Plans
  <2>2. CASE u = Own(i)[2]
    BY <1>7, <1>8, <2>2 DEF Plans
  <2>3. CASE u # Own(i)[2]
    BY <1>7, <1>9, <2>1, <2>3 DEF Others
  <2> QED BY <2>2, <2>3
<1>10. Activates(i)' /\ Held(i)'
  BY <1>3, <1>4, <1>5, <1>6 DEF Activates, Held, Starter, Pro
<1>11. Finds(i)'
  BY <1>3, <1>4, <1>5, <1>6, <1>7 DEF Finds, Others
<1>12. Knows(i)'
  BY <1>3, <1>4, <1>5, <1>6 DEF Knows, Present, Versions, Seeding
<1>13. Sees(i)'
  <2>1. ASSUME NEW v \in known[i] PROVE <<Own(i)[1], v>> \in Account(i)'
    <3>1. v \in Present
      BY <1>6 DEF Knows
    <3>2. v \in Versions /\ plans[<<Own(i)[1], v>>] # "none"
      BY <1>8, <3>1 DEF Present, Plans
    <3> QED BY <1>9, <3>2
  <2> QED BY <1>3, <1>6, <1>7, <2>1 DEF Sees
<1>14. Covers(i)'
  <2>1. \A u \in Versions : plans[<<Own(i)[1], u>>] = "active" => <<Own(i)[1], u>> \in Account(i)'
    BY <1>9
  <2> QED BY <1>3, <1>6, <1>7, <2>1 DEF Covers, Versions
<1>15. Plans1(i)'
  BY <1>10, <1>11, <1>12, <1>13, <1>14 DEF Plans1
<1> QED BY <1>3, <1>4, <1>5, <1>15, UpdateKeeps DEF Inv, TypeOK

\* The fields of a transaction after Retire: the row it was at is retired, and
\* it goes on to the next row or, after the last, to the next statement.
LEMMA RetireFields ==
    ASSUME Inv, NEW i \in Instances, Retire(i)
    PROVE  /\ tx'[i] \in Tx /\ tx' = [tx EXCEPT ![i] = tx'[i]]
           /\ \A j \in Instances \ {i} : tx'[j] = tx[j]
           /\ tx'[i].activate = tx[i].activate
           /\ tx'[i].retire = tx[i].retire \cup tx[i].at
           /\ tx'[i].at \cup tx'[i].ahead = tx[i].ahead
           /\ tx'[i].listed = tx[i].listed /\ tx'[i].missing = tx[i].missing
           /\ tx'[i].added = tx[i].added
           /\ \/ tx'[i].pc = "retiring" /\ tx'[i].policy = tx[i].policy
              \/ tx[i].ahead = {} /\ tx[i].policy = 1 /\ tx'[i].pc = "upsert" /\ tx'[i].policy = 2
              \/ tx[i].ahead = {} /\ tx[i].policy = 2 /\ tx'[i].pc = "list" /\ tx'[i].policy = 2
<1>1. tx \in [Instances -> Tx] /\ tx[i] \in Tx /\ tx[i].policy \in {1, 2} /\ tx[i].pc = "retiring"
  BY DEF Inv, TypeOK, Tx, Retire
<1> PICK t : t = [tx[i] EXCEPT !.retire = @ \cup tx[i].at]
  OBVIOUS
<1>2. PICK row \in First(tx[i].ahead) :
          Set(i, IF row # {} THEN [t EXCEPT !.at = row, !.ahead = @ \ row]
                 ELSE IF AtLast(i) THEN [[t EXCEPT !.at = row, !.ahead = @ \ row] EXCEPT !.pc = "list"]
                 ELSE [[t EXCEPT !.at = row, !.ahead = @ \ row] EXCEPT !.pc = "upsert", !.policy = @ + 1])
  BY DEF Retire
<1> PICK n : n = [t EXCEPT !.at = row, !.ahead = @ \ row]
  OBVIOUS
<1>3. row \subseteq tx[i].ahead /\ (row = {} => tx[i].ahead = {})
  BY <1>2, FirstIs
<1>4. /\ t \in Tx /\ t.pc = "retiring" /\ t.policy = tx[i].policy
      /\ t.activate = tx[i].activate /\ t.retire = tx[i].retire \cup tx[i].at
      /\ t.ahead = tx[i].ahead /\ t.listed = tx[i].listed
      /\ t.missing = tx[i].missing /\ t.added = tx[i].added
  BY <1>1 DEF Tx
<1>5. /\ n \in Tx /\ n.pc = "retiring" /\ n.policy = tx[i].policy
      /\ n.activate = tx[i].activate /\ n.retire = tx[i].retire \cup tx[i].at
      /\ n.at = row /\ n.ahead = tx[i].ahead \ row /\ n.listed = tx[i].listed
      /\ n.missing = tx[i].missing /\ n.added = tx[i].added
  BY <1>3, <1>4 DEF Tx
<1>6. CASE row # {}
  <2>1. tx' = [tx EXCEPT ![i] = n]
    BY <1>2, <1>6 DEF Set
  <2>2. tx'[i] = n /\ \A j \in Instances \ {i} : tx'[j] = tx[j]
    BY <1>1, <2>1
  <2> QED BY <1>3, <1>5, <2>1, <2>2
<1>7. CASE row = {} /\ tx[i].policy = 2
  <2> PICK q : q = [n EXCEPT !.pc = "list"]
    OBVIOUS
  <2>1. /\ q.pc = "list" /\ q.policy = n.policy
        /\ q.activate = n.activate /\ q.retire = n.retire /\ q.at = n.at /\ q.ahead = n.ahead
        /\ q.listed = n.listed /\ q.missing = n.missing /\ q.added = n.added
        /\ q \in Tx
    BY <1>5 DEF Tx, Seeding
  <2>2. tx' = [tx EXCEPT ![i] = q]
    BY <1>2, <1>7 DEF Set, AtLast
  <2>3. tx'[i] = q /\ \A j \in Instances \ {i} : tx'[j] = tx[j]
    BY <1>1, <2>2
  <2> QED BY <1>3, <1>5, <1>7, <2>1, <2>2, <2>3
<1>8. CASE row = {} /\ tx[i].policy = 1
  <2> PICK q : q = [n EXCEPT !.pc = "upsert", !.policy = 2]
    OBVIOUS
  <2>1. /\ q.pc = "upsert" /\ q.policy = 2
        /\ q.activate = n.activate /\ q.retire = n.retire /\ q.at = n.at /\ q.ahead = n.ahead
        /\ q.listed = n.listed /\ q.missing = n.missing /\ q.added = n.added
    BY <1>5 DEF Tx
  <2>2. q \in Tx
    <3>1. 2 \in 1..2
      OBVIOUS
    <3> QED BY <1>5, <3>1 DEF Tx, Seeding
  <2>3. n.policy + 1 = 2 /\ tx[i].policy # 2 /\ ~AtLast(i)
    BY <1>5, <1>8 DEF AtLast
  <2>4. tx' = [tx EXCEPT ![i] = q]
    BY <1>2, <1>8, <2>3 DEF Set
  <2>5. tx'[i] = q /\ \A j \in Instances \ {i} : tx'[j] = tx[j]
    BY <1>1, <2>4
  <2> QED BY <1>3, <1>5, <1>8, <2>1, <2>2, <2>4, <2>5
<1> QED BY <1>1, <1>6, <1>7, <1>8

LEMMA RetireKeeps ==
    ASSUME Inv, NEW i \in Instances, Retire(i)
    PROVE  Inv'
<1>1. /\ tx[i] \in Tx /\ tx[i].pc = "retiring" /\ tx[i].at \subseteq Plans
      /\ tx[i].policy \in {1, 2}
      /\ UNCHANGED <<deployed, plans, exists, opens, canceled, known>>
  BY DEF Inv, TypeOK, Tx, Retire, data, history
<1>2. /\ lock' \in [Plans -> Instances \cup {Nobody}]
      /\ \A p \in tx[i].at : lock'[p] = i
      /\ \A p \in Plans, j \in Instances : lock[p] = j => lock'[p] = j
  BY <1>1, TakeFree DEF Retire
<1>3. Activates(i) /\ Held(i) /\ Finds(i) /\ Knows(i) /\ Sees(i) /\ Covers(i)
  BY DEF Inv, Plans1
<1>4. Activates(i)'
  BY <1>1, <1>3, RetireFields DEF Activates, Starter, Pro
<1>5. Held(i)'
  <2>1. tx[i].activate \cup tx[i].retire \subseteq Plans
    BY <1>1 DEF Tx
  <2> QED BY <1>2, <1>3, <2>1, RetireFields DEF Held
<1>6. Finds(i)'
  <2>1. tx'[i].pc = "retiring" => Own(i)' = Own(i)
    BY RetireFields DEF Own
  <2>2. tx'[i].pc # "retiring" => tx'[i].at \cup tx'[i].ahead = {}
    BY RetireFields
  <2> QED BY <1>1, <1>3, <2>1, <2>2, RetireFields DEF Finds
<1>7. Knows(i)'
  BY <1>1, <1>3, RetireFields DEF Knows, Present, Versions, Seeding
<1>8. Account(i)' = Account(i)
  BY RetireFields DEF Account
<1>9. Begun(i)' = Begun(i)
  <2>1. Own(i)[1] = IF tx[i].policy = 1 THEN "starter" ELSE "pro"
    BY OwnIs DEF Inv, Starter, Pro
  <2>2. tx'[i].pc = "retiring" => Own(i)' = Own(i)
    BY RetireFields DEF Own
  <2> QED BY <1>1, <2>1, <2>2, RetireFields DEF Begun, Done, Codes
<1>10. Sees(i)' /\ Covers(i)'
  BY <1>1, <1>3, <1>8, <1>9 DEF Sees, Covers, Versions
<1>11. Plans1(i)'
  BY <1>4, <1>5, <1>6, <1>7, <1>10 DEF Plans1
<1>12. tx'[i].pc \in {"retiring", "upsert", "list"}
  BY RetireFields
<1> QED BY <1>1, <1>2, <1>11, <1>12, RetireFields, UpdateKeeps

\* The three statements of the backfill change the sets of their transaction.
LEMMA BackfillFields ==
    ASSUME Inv, NEW i \in Instances, List(i) \/ FindOpen(i) \/ Insert(i)
    PROVE  /\ tx' \in [Instances -> Tx]
           /\ \A j \in Instances \ {i} : tx'[j] = tx[j]
           /\ tx'[i].policy = tx[i].policy /\ tx'[i].activate = tx[i].activate
           /\ tx'[i].retire = tx[i].retire
           /\ tx'[i].at = tx[i].at /\ tx'[i].ahead = tx[i].ahead
           /\ List(i) =>
                 /\ tx[i].pc = "list" /\ tx'[i].pc = "find" /\ tx'[i].listed = exists
                 /\ tx'[i].missing = tx[i].missing /\ tx'[i].added = tx[i].added
           /\ FindOpen(i) =>
                 /\ tx[i].pc = "find" /\ tx'[i].pc = "insert" /\ tx'[i].listed = tx[i].listed
                 /\ tx'[i].missing = Missing(i) /\ tx'[i].added = tx[i].added
           /\ Insert(i) =>
                 /\ tx[i].pc = "insert" /\ tx'[i].pc = "commit" /\ tx'[i].listed = tx[i].listed
                 /\ tx'[i].missing = tx[i].missing /\ tx'[i].added = Inserted(i)
<1>1. /\ tx \in [Instances -> Tx] /\ tx[i] \in Tx /\ exists \subseteq Workspaces
      /\ Missing(i) \subseteq Workspaces /\ Inserted(i) \subseteq Workspaces
  BY DEF Inv, TypeOK, Tx, Missing, Inserted
<1>2. CASE List(i)
  <2> PICK q : q = [tx[i] EXCEPT !.pc = "find", !.listed = exists]
    OBVIOUS
  <2>1. /\ q.pc = "find" /\ q.listed = exists /\ q.policy = tx[i].policy
        /\ q.activate = tx[i].activate /\ q.retire = tx[i].retire
        /\ q.at = tx[i].at /\ q.ahead = tx[i].ahead
        /\ q.missing = tx[i].missing /\ q.added = tx[i].added /\ q \in Tx
    BY <1>1 DEF Tx, Seeding
  <2>2. tx' = [tx EXCEPT ![i] = q] /\ tx[i].pc = "list"
    BY <1>2 DEF List, Set
  <2>3. /\ tx' \in [Instances -> Tx] /\ tx'[i] = q
        /\ \A j \in Instances \ {i} : tx'[j] = tx[j]
    BY <1>1, <2>1, <2>2
  <2>4. ~FindOpen(i) /\ ~Insert(i)
    BY <2>2 DEF FindOpen, Insert
  <2> QED BY <2>1, <2>2, <2>3, <2>4
<1>3. CASE FindOpen(i)
  <2> PICK q : q = [tx[i] EXCEPT !.pc = "insert", !.missing = Missing(i)]
    OBVIOUS
  <2>1. /\ q.pc = "insert" /\ q.missing = Missing(i) /\ q.policy = tx[i].policy
        /\ q.activate = tx[i].activate /\ q.retire = tx[i].retire
        /\ q.at = tx[i].at /\ q.ahead = tx[i].ahead
        /\ q.listed = tx[i].listed /\ q.added = tx[i].added /\ q \in Tx
    BY <1>1 DEF Tx, Seeding
  <2>2. tx' = [tx EXCEPT ![i] = q] /\ tx[i].pc = "find"
    BY <1>3 DEF FindOpen, Set
  <2>3. /\ tx' \in [Instances -> Tx] /\ tx'[i] = q
        /\ \A j \in Instances \ {i} : tx'[j] = tx[j]
    BY <1>1, <2>1, <2>2
  <2>4. ~List(i) /\ ~Insert(i)
    BY <2>2 DEF List, Insert
  <2> QED BY <2>1, <2>2, <2>3, <2>4
<1>4. CASE Insert(i)
  <2> PICK q : q = [tx[i] EXCEPT !.pc = "commit", !.added = Inserted(i)]
    OBVIOUS
  <2>1. /\ q.pc = "commit" /\ q.added = Inserted(i) /\ q.policy = tx[i].policy
        /\ q.activate = tx[i].activate /\ q.retire = tx[i].retire
        /\ q.at = tx[i].at /\ q.ahead = tx[i].ahead
        /\ q.listed = tx[i].listed /\ q.missing = tx[i].missing /\ q \in Tx
    BY <1>1 DEF Tx, Seeding
  <2>2. tx' = [tx EXCEPT ![i] = q] /\ tx[i].pc = "insert"
    BY <1>4 DEF Insert, Set
  <2>3. /\ tx' \in [Instances -> Tx] /\ tx'[i] = q
        /\ \A j \in Instances \ {i} : tx'[j] = tx[j]
    BY <1>1, <2>1, <2>2
  <2>4. ~FindOpen(i) /\ ~List(i)
    BY <2>2 DEF FindOpen, List
  <2> QED BY <2>1, <2>2, <2>3, <2>4
<1> QED BY <1>2, <1>3, <1>4

LEMMA BackfillStepKeeps ==
    ASSUME Inv, NEW i \in Instances, List(i) \/ FindOpen(i) \/ Insert(i)
    PROVE  Inv'
<1>1. UNCHANGED <<deployed, plans, lock, exists, opens, canceled, known>>
  BY DEF List, FindOpen, Insert, data, history
<1>2. TypeOK' /\ OneActiveVersion' /\ OneOpenSubscription' /\ (deployed \subseteq Present)'
  <2>1. TypeOK' /\ OneActiveVersion' /\ OneOpenSubscription'
    BY <1>1, BackfillFields DEF Inv, TypeOK, OneActiveVersion, OneOpenSubscription
  <2> QED BY <1>1, <2>1 DEF Inv, Present, Versions
<1>3. {tx[i].pc, tx'[i].pc} \subseteq {"list", "find", "insert", "commit"}
  BY BackfillFields
<1>4. ASSUME NEW j \in Instances PROVE Plans1(j)'
  <2>1. CASE j = i
    BY <1>1, <1>3, <2>1, BackfillFields, PlansKeep
  <2>2. CASE j # i
    BY <1>1, <2>2, BackfillFields, PlansKeep
  <2> QED BY <2>1, <2>2
<1>5. \A w \in Workspaces : opens[w] \in Nat
  BY DEF Inv, TypeOK
<1>6. \A j \in Instances : Inserts(j) /\ Found(j) /\ tx[j] \in Tx
  BY DEF Inv, Backfill, TypeOK
<1>7. CASE List(i)
  <2>1. Inserts(i)' /\ Found(i)'
    BY <1>1, <1>6, <1>7, BackfillFields DEF Inserts, Found
  <2>2. ASSUME NEW j \in Instances \ {i} PROVE Inserts(j)' /\ Found(j)'
    BY <1>1, <1>6, <1>7, BackfillFields DEF Inserts, Found
  <2> QED BY <1>2, <1>4, <2>1, <2>2 DEF Inv, Backfill
<1>8. CASE FindOpen(i)
  <2>1. tx[i].listed \subseteq Workspaces
    BY <1>6 DEF Tx
  <2>2. Inserts(i)'
    BY <1>1, <1>6, <1>8, BackfillFields DEF Inserts, Missing
  <2>3. Found(i)'
    BY <1>1, <1>5, <1>8, <2>1, BackfillFields DEF Found, Missing
  <2>4. ASSUME NEW j \in Instances \ {i} PROVE Inserts(j)' /\ Found(j)'
    BY <1>1, <1>6, <1>8, BackfillFields DEF Inserts, Found
  <2> QED BY <1>2, <1>4, <2>2, <2>3, <2>4 DEF Inv, Backfill
<1>9. CASE Insert(i)
  <2>1. tx[i].missing \subseteq Workspaces
    BY <1>6 DEF Tx
  <2>2. \A j \in Instances \ {i} : tx[j].added \cap tx[i].missing = {}
    BY <1>9 DEF Insert
  <2>3. Inserted(i) \subseteq tx[i].missing /\ \A w \in Inserted(i) : opens[w] = 0
    BY DEF Inserted
  <2>4. Inserts(i)'
    BY <1>1, <1>6, <1>9, <2>2, <2>3, BackfillFields DEF Inserts
  <2>5. Found(i)'
    <3>1. \A w \in tx[i].missing : w \in Inserted(i) \/ opens[w] > 0
      BY <1>5, <2>1 DEF Inserted
    <3> QED BY <1>1, <1>6, <1>9, <3>1, BackfillFields DEF Found
  <2>6. ASSUME NEW j \in Instances \ {i} PROVE Inserts(j)' /\ Found(j)'
    BY <1>1, <1>6, <1>9, <2>2, <2>3, BackfillFields DEF Inserts, Found
  <2> QED BY <1>2, <1>4, <2>4, <2>5, <2>6 DEF Inv, Backfill
<1> QED BY <1>7, <1>8, <1>9

\* A transaction that ends gives back its own rows and nobody else's.
LEMMA EndsAlone ==
    ASSUME Inv, NEW i \in Instances, NEW pc \in {"down", "up"},
           Release(i), Set(i, At(pc)), Forget(i)
    PROVE  /\ tx' \in [Instances -> Tx] /\ tx'[i] = At(pc) /\ tx'[i].added = {}
           /\ lock' \in [Plans -> Instances \cup {Nobody}]
           /\ canceled' \in [Instances -> SUBSET Workspaces]
           /\ known' \in [Instances -> SUBSET Versions] /\ known'[i] = {}
           /\ \A j \in Instances \ {i} :
                 /\ tx'[j] = tx[j] /\ canceled'[j] = canceled[j] /\ known'[j] = known[j]
                 /\ \A p \in Plans : lock[p] = j => lock'[p] = j
<1>1. At(pc) \in Tx /\ At(pc).added = {}
  BY AtType DEF Seeding
<1>2. /\ tx \in [Instances -> Tx] /\ canceled \in [Instances -> SUBSET Workspaces]
      /\ known \in [Instances -> SUBSET Versions]
  BY DEF Inv, TypeOK
<1>3. /\ tx' \in [Instances -> Tx] /\ tx'[i] = At(pc)
      /\ \A j \in Instances \ {i} : tx'[j] = tx[j]
  BY <1>1, <1>2 DEF Set
<1>4. /\ canceled' \in [Instances -> SUBSET Workspaces]
      /\ known' \in [Instances -> SUBSET Versions] /\ known'[i] = {}
      /\ \A j \in Instances \ {i} : canceled'[j] = canceled[j] /\ known'[j] = known[j]
  BY <1>2 DEF Forget
<1>5. /\ lock' \in [Plans -> Instances \cup {Nobody}]
      /\ \A j \in Instances \ {i} : \A p \in Plans : lock[p] = j => lock'[p] = j
  BY DEF Inv, TypeOK, Release
<1> QED BY <1>1, <1>3, <1>4, <1>5

LEMMA AbortKeeps ==
    ASSUME Inv, NEW i \in Instances, Abort(i)
    PROVE  Inv'
<1>1. /\ tx' \in [Instances -> Tx] /\ tx'[i] = At("down") /\ tx'[i].added = {}
      /\ lock' \in [Plans -> Instances \cup {Nobody}]
      /\ canceled' \in [Instances -> SUBSET Workspaces]
      /\ known' \in [Instances -> SUBSET Versions] /\ known'[i] = {}
      /\ \A j \in Instances \ {i} :
            /\ tx'[j] = tx[j] /\ canceled'[j] = canceled[j] /\ known'[j] = known[j]
            /\ \A p \in Plans : lock[p] = j => lock'[p] = j
  BY EndsAlone DEF Abort
<1>2. UNCHANGED <<deployed, plans, exists, opens>>
  BY DEF Abort, data
<1>3. TypeOK' /\ OneActiveVersion' /\ OneOpenSubscription' /\ (deployed \subseteq Present)'
  <2>1. TypeOK' /\ OneActiveVersion' /\ OneOpenSubscription'
    BY <1>1, <1>2 DEF Inv, TypeOK, OneActiveVersion, OneOpenSubscription
  <2> QED BY <1>2, <2>1 DEF Inv, Present, Versions
<1>4. Plans1(i)' /\ Backfill(i)'
  BY <1>1, AtKeeps
<1>5. ASSUME NEW j \in Instances \ {i} PROVE Plans1(j)' /\ Backfill(j)'
  BY <1>1, <1>2, PlansKeep, BackfillKeeps
<1> QED BY <1>3, <1>4, <1>5 DEF Inv

\* What a commit makes of the plans: those of its own version are active, and
\* what else is active was before and is not among what it has retired.
LEMMA CommittedPlans ==
    ASSUME Inv, NEW i \in Instances, Commit(i),
           NEW c \in Codes, NEW u \in Versions
    PROVE  /\ u = VersionOf[i] => plans'[<<c, u>>] = "active"
           /\ u # VersionOf[i] /\ plans'[<<c, u>>] = "active" =>
                 plans[<<c, u>>] = "active" /\ <<c, u>> \notin Account(i)
           /\ u # VersionOf[i] => (plans'[<<c, u>>] # "none" <=> plans[<<c, u>>] # "none")
<1>1. /\ <<c, u>> \in Plans /\ tx[i].activate = {Starter(i), Pro(i)}
      /\ tx[i].at \cup tx[i].ahead = {}
      /\ \A p \in tx[i].retire : plans[p] # "none"
  BY DEF Inv, Plans1, Activates, Finds, Commit, Plans
<1>2. <<c, u>> \in tx[i].activate <=> u = VersionOf[i]
  BY <1>1 DEF Starter, Pro, Codes
<1>3. plans'[<<c, u>>] = IF <<c, u>> \in tx[i].activate THEN "active"
                         ELSE IF <<c, u>> \in tx[i].retire THEN "retired"
                         ELSE plans[<<c, u>>]
  BY <1>1 DEF Commit
<1> QED BY <1>1, <1>2, <1>3 DEF Account

\* One that is past the Starter plan has written it in every version that was
\* there from the start.
LEMMA HoldsStarter ==
    ASSUME Inv, NEW i \in Instances, "starter" \in Done(i), NEW d \in deployed
    PROVE  lock[<<"starter", d>>] = i
<1>1. Held(i) /\ Finds(i) /\ Knows(i) /\ Sees(i)
  BY DEF Inv, Plans1
<1>2. "starter" \in Begun(i) /\ tx[i].pc \in Seeding /\ tx[i] \in Tx
  BY DEF Begun, Done, Inv, TypeOK, Tx
<1>3. <<"starter", d>> \in Account(i)
  BY <1>1, <1>2 DEF Knows, Sees
<1>4. <<"starter", d>> \notin tx[i].at \cup tx[i].ahead
  <2>1. CASE tx[i].pc # "retiring"
    BY <1>1, <2>1 DEF Finds
  <2>2. CASE tx[i].pc = "retiring"
    <3>1. Own(i) = Pro(i)
      BY <2>2, OwnIs DEF Done, Inv
    <3> QED BY <1>1, <3>1 DEF Finds, Pro
  <2> QED BY <2>1, <2>2
<1> QED BY <1>1, <1>3, <1>4 DEF Held, Account

\* In a database that had plans only one seed at a time is past the Starter
\* plan.
LEMMA OnePastStarter ==
    ASSUME Inv, deployed # {}, NEW i \in Instances, NEW j \in Instances,
           "starter" \in Done(i), "starter" \in Done(j)
    PROVE  i = j
BY HoldsStarter

LEMMA CommitKeeps ==
    ASSUME Inv, NEW i \in Instances, Commit(i)
    PROVE  Inv'
<1>1. /\ tx' \in [Instances -> Tx] /\ tx'[i] = At("up") /\ tx'[i].added = {}
      /\ lock' \in [Plans -> Instances \cup {Nobody}]
      /\ canceled' \in [Instances -> SUBSET Workspaces]
      /\ known' \in [Instances -> SUBSET Versions] /\ known'[i] = {}
      /\ \A j \in Instances \ {i} :
            /\ tx'[j] = tx[j] /\ canceled'[j] = canceled[j] /\ known'[j] = known[j]
            /\ \A p \in Plans : lock[p] = j => lock'[p] = j
  BY EndsAlone DEF Commit
<1>2. /\ UNCHANGED <<deployed, exists>>
      /\ opens' = [w \in Workspaces |-> IF w \in tx[i].added THEN opens[w] + 1 ELSE opens[w]]
  BY DEF Commit
<1>3. opens \in [Workspaces -> Nat] /\ \A w \in tx[i].added : opens[w] = 0
  BY DEF Inv, TypeOK, Backfill, Inserts
<1>4. TypeOK'
  <2>1. plans' \in [Plans -> {"none", "active", "retired"}]
    BY DEF Inv, TypeOK, Commit
  <2>2. opens' \in [Workspaces -> Nat]
    BY <1>2, <1>3
  <2> QED BY <1>1, <1>2, <2>1, <2>2 DEF Inv, TypeOK
<1>5. OneActiveVersion'
  <2> SUFFICES ASSUME deployed # {}
               PROVE  /\ \A c \in Codes : plans'[<<c, VersionOf[i]>>] = "active"
                      /\ \A u \in Versions \ {VersionOf[i]} :
                            /\ plans'[<<"pro", u>>] # "active"
                            /\ {u, VersionOf[i]} \cap deployed # {} =>
                                  plans'[<<"starter", u>>] # "active"
    BY <1>2 DEF OneActiveVersion, Versions
  <2>1. /\ VersionOf[i] \in Versions /\ Begun(i) = Codes /\ deployed \subseteq known[i]
        /\ Sees(i) /\ Covers(i)
    BY DEF Versions, Begun, Done, Commit, Inv, Plans1, Knows, Seeding
  <2>2. \A c \in Codes : plans'[<<c, VersionOf[i]>>] = "active"
    BY <2>1, CommittedPlans
  <2>3. ASSUME NEW u \in Versions \ {VersionOf[i]} PROVE plans'[<<"pro", u>>] # "active"
    BY <2>1, CommittedPlans DEF Covers, Codes
  <2>4. ASSUME NEW u \in Versions \ {VersionOf[i]}, {u, VersionOf[i]} \cap deployed # {}
        PROVE  plans'[<<"starter", u>>] # "active"
    <3>1. CASE VersionOf[i] \in deployed
      BY <2>1, <3>1, CommittedPlans DEF Covers, Codes
    <3>2. CASE u \in deployed
      BY <2>1, <3>2, CommittedPlans DEF Sees, Codes
    <3> QED BY <2>4, <3>1, <3>2
  <2> QED BY <2>2, <2>3, <2>4
<1>6. OneOpenSubscription'
  BY <1>2, <1>3 DEF Inv, OneOpenSubscription
<1>7. Plans1(i)' /\ Backfill(i)'
  BY <1>1, AtKeeps
<1>8. ASSUME NEW p \in Plans, plans[p] # "none" PROVE plans'[p] # "none"
  BY <1>8 DEF Commit
<1>9. (deployed \subseteq Present)'
  BY <1>2, <1>8, PresentGrows DEF Inv
<1>10. ASSUME NEW j \in Instances \ {i} PROVE Plans1(j)'
  <2>1. Covers(j)'
    <3> SUFFICES ASSUME deployed # {}, NEW c \in Begun(j), NEW u \in Versions,
                        plans'[<<c, u>>] = "active", c = "pro" \/ VersionOf[j] \in deployed
                 PROVE  <<c, u>> \in Account(j)
      BY <1>1, <1>2 DEF Covers, Versions, Begun, Done, Own, Account
    <3>1. /\ c \in Codes /\ Covers(j) /\ Held(j) /\ Activates(j) /\ tx[j].policy \in {1, 2}
          /\ Covers(i) /\ Held(i) /\ "starter" \in Done(i)
      BY OwnIs DEF Inv, Plans1, TypeOK, Tx, Begun, Done, Codes, Starter, Pro, Commit
    <3>2. "starter" \notin Done(j)
      BY <3>1, OnePastStarter
    <3>3. tx[j].pc = "retiring" /\ tx[j].policy = 1 /\ Own(j) = Starter(j) /\ c = "starter"
      BY <3>1, <3>2, OwnIs DEF Inv, Begun, Done, Codes, Starter, Pro
    <3>4. Starter(j) \in tx[j].activate /\ lock[Starter(j)] = j
      BY <3>1, <3>3 DEF Activates, Held
    <3>5. VersionOf[j] \in deployed
      BY <3>3
    <3>6. lock[Starter(j)] = i
      BY <3>1, <3>5, HoldsStarter DEF Starter
    <3> QED BY <3>4, <3>6
  <2> QED BY <1>1, <1>2, <1>8, <2>1, PlansKeep
<1>11. ASSUME NEW j \in Instances \ {i} PROVE Backfill(j)'
  <2>1. Inserts(j) /\ Found(j) /\ tx[j] \in Tx /\ tx[i].added \cap tx[j].added = {}
    BY DEF Inv, Backfill, Inserts, TypeOK
  <2>2. \A w \in Workspaces : opens[w] > 0 => opens'[w] > 0
    BY <1>2, <1>3
  <2>3. \A w \in tx[j].added : opens'[w] = 0
    BY <1>2, <2>1 DEF Inserts, Tx
  <2>4. Inserts(j)'
    BY <1>1, <1>2, <2>1, <2>3 DEF Inserts
  <2>5. Found(j)'
    BY <1>1, <2>1, <2>2 DEF Found, Tx
  <2> QED BY <2>4, <2>5 DEF Backfill
<1> QED BY <1>4, <1>5, <1>6, <1>7, <1>9, <1>10, <1>11 DEF Inv

LEMMA SignupKeeps ==
    ASSUME Inv, NEW i \in Instances, NEW w \in Workspaces, Signup(i, w)
    PROVE  Inv'
<1>1. /\ UNCHANGED <<deployed, plans, lock, tx, canceled, known>> /\ w \notin exists
      /\ exists' = exists \cup {w} /\ opens' = [opens EXCEPT ![w] = 1]
  BY DEF Signup, history
<1>2. opens \in [Workspaces -> Nat] /\ exists \subseteq Workspaces
  BY DEF Inv, TypeOK
<1>3. opens'[w] = 1 /\ \A x \in Workspaces \ {w} : opens'[x] = opens[x]
  BY <1>1, <1>2
<1>4. TypeOK' /\ OneActiveVersion' /\ OneOpenSubscription' /\ (deployed \subseteq Present)'
  <2>1. opens' \in [Workspaces -> Nat] /\ exists' \in SUBSET Workspaces
    BY <1>1, <1>2
  <2>2. OneOpenSubscription'
    BY <1>3 DEF Inv, OneOpenSubscription
  <2>3. (deployed \subseteq Present)'
    BY <1>1 DEF Inv, Present, Versions
  <2> QED BY <1>1, <2>1, <2>2, <2>3 DEF Inv, TypeOK, OneActiveVersion
<1>5. ASSUME NEW j \in Instances PROVE Plans1(j)' /\ Backfill(j)'
  <2>1. Plans1(j)'
    BY <1>1, PlansKeep
  <2>2. Inserts(j) /\ Found(j) /\ tx[j] \in Tx
    BY DEF Inv, Backfill, TypeOK
  <2>3. w \notin tx[j].added /\ tx[j].added \subseteq Workspaces /\ tx[j].listed \subseteq Workspaces
    BY <1>1, <2>2 DEF Inserts, Tx
  <2>4. Inserts(j)'
    BY <1>1, <1>3, <2>2, <2>3 DEF Inserts
  <2>5. Found(j)'
    <3>1. \A x \in tx[j].listed : opens[x] > 0 => opens'[x] > 0
      BY <1>3, <2>3
    <3> QED BY <1>1, <2>2, <3>1 DEF Found
  <2> QED BY <2>1, <2>4, <2>5 DEF Backfill
<1> QED BY <1>4, <1>5 DEF Inv

LEMMA CancelKeeps ==
    ASSUME Inv, NEW w \in Workspaces, Cancel(w)
    PROVE  Inv'
<1>1. /\ UNCHANGED <<deployed, plans, lock, exists, tx, known>> /\ opens[w] > 0
      /\ opens' = [opens EXCEPT ![w] = 0]
      /\ canceled' = [i \in Instances |-> IF tx[i].pc \in {"insert", "commit"}
                                          THEN canceled[i] \cup {w} ELSE canceled[i]]
  BY DEF Cancel
<1>2. opens \in [Workspaces -> Nat] /\ canceled \in [Instances -> SUBSET Workspaces]
  BY DEF Inv, TypeOK
<1>3. opens'[w] = 0 /\ \A x \in Workspaces \ {w} : opens'[x] = opens[x]
  BY <1>1, <1>2
<1>4. TypeOK' /\ OneActiveVersion' /\ OneOpenSubscription' /\ (deployed \subseteq Present)'
  <2>1. opens' \in [Workspaces -> Nat]
    BY <1>1, <1>2
  <2>2. canceled' \in [Instances -> SUBSET Workspaces]
    BY <1>1, <1>2
  <2>3. OneOpenSubscription'
    BY <1>3 DEF Inv, OneOpenSubscription
  <2>4. (deployed \subseteq Present)'
    BY <1>1 DEF Inv, Present, Versions
  <2> QED BY <1>1, <2>1, <2>2, <2>3, <2>4 DEF Inv, TypeOK, OneActiveVersion
<1>5. ASSUME NEW j \in Instances PROVE Plans1(j)' /\ Backfill(j)'
  <2>1. Plans1(j)'
    BY <1>1, PlansKeep
  <2>2. Inserts(j) /\ Found(j) /\ tx[j].added \subseteq Workspaces /\ tx[j].listed \subseteq Workspaces
    BY DEF Inv, Backfill, TypeOK, Tx
  <2>3. \A x \in tx[j].added : opens'[x] = 0
    BY <1>3, <2>2 DEF Inserts
  <2>4. Inserts(j)'
    BY <1>1, <2>2, <2>3 DEF Inserts
  <2>5. Found(j)'
    <3>1. canceled[j] \subseteq canceled'[j]
      BY <1>1
    <3>2. tx[j].pc \in {"insert", "commit"} => w \in canceled'[j]
      BY <1>1
    <3> QED BY <1>1, <1>3, <2>2, <3>1, <3>2 DEF Found
  <2> QED BY <2>1, <2>4, <2>5 DEF Backfill
<1> QED BY <1>4, <1>5 DEF Inv

LEMMA NextKeeps == Inv /\ [Next]_vars => Inv'
<1> SUFFICES ASSUME Inv, [Next]_vars PROVE Inv'
  OBVIOUS
<1>1. ASSUME NEW i \in Instances, Begin(i) \/ Stop(i) PROVE Inv'
  BY <1>1, BeginKeeps
<1>2. ASSUME NEW i \in Instances, Seed(i) PROVE Inv'
  BY <1>2, UpsertKeeps, FindOthersKeeps, RetireKeeps, BackfillStepKeeps, CommitKeeps DEF Seed
<1>3. ASSUME NEW i \in Instances, Abort(i) \/ Victim(i) PROVE Inv'
  BY <1>3, AbortKeeps DEF Victim
<1>4. ASSUME NEW i \in Instances, NEW w \in Workspaces, Signup(i, w) PROVE Inv'
  BY <1>4, SignupKeeps
<1>5. ASSUME NEW w \in Workspaces, Cancel(w) PROVE Inv'
  BY <1>5, CancelKeeps
<1>6. ASSUME UNCHANGED vars PROVE Inv'
  <2>1. UNCHANGED <<deployed, plans, lock, exists, opens, tx, canceled, known>>
    BY <1>6 DEF vars
  <2>2. TypeOK' /\ OneActiveVersion' /\ OneOpenSubscription' /\ (deployed \subseteq Present)'
    <3>1. TypeOK' /\ OneActiveVersion' /\ OneOpenSubscription'
      BY <2>1 DEF Inv, TypeOK, OneActiveVersion, OneOpenSubscription
    <3> QED BY <2>1, <3>1 DEF Inv, Present, Versions
  <2>3. ASSUME NEW j \in Instances PROVE Plans1(j)' /\ Backfill(j)'
    BY <2>1, PlansKeep, BackfillKeeps
  <2> QED BY <2>2, <2>3 DEF Inv
<1> QED BY <1>1, <1>2, <1>3, <1>4, <1>5, <1>6 DEF Next

-----------------------------------------------------------------------------
\* What holds in every state of a rollout.
THEOREM Invariance == Spec => []Inv
BY InitInvariant, NextKeeps, PTL DEF Spec

\* The variables keep their types.
THEOREM TypeCorrect == Spec => []TypeOK
<1>1. Inv => TypeOK
  BY DEF Inv
<1> QED BY <1>1, Invariance, PTL

\* In a database that had plans, those of one version are all active, and
\* beside them at most the Starter plan of one that was as new as it.
THEOREM OneVersionServes == Spec => []OneActiveVersion
<1>1. Inv => OneActiveVersion
  BY DEF Inv
<1> QED BY <1>1, Invariance, PTL

\* No workspace has two open subscriptions.
THEOREM OneSubscriptionEach == Spec => []OneOpenSubscription
<1>1. Inv => OneOpenSubscription
  BY DEF Inv
<1> QED BY <1>1, Invariance, PTL

\* The seeds of one version do not overlap: both would hold its Starter row.
THEOREM OneAtATime == Spec => []SameVersionInTurn
<1>1. Inv => SameVersionInTurn
  <2> SUFFICES ASSUME Inv, NEW i \in Instances, NEW j \in Instances,
                      i # j, VersionOf[i] = VersionOf[j],
                      tx[i].activate # {}, tx[j].activate # {}
               PROVE  FALSE
    BY DEF SameVersionInTurn
  <2>1. \A k \in Instances : tx[k].activate # {} => Starter(k) \in tx[k].activate
    BY DEF Inv, Plans1, Activates
  <2>2. lock[Starter(i)] = i /\ lock[Starter(j)] = j
    BY <2>1 DEF Inv, Plans1, Held
  <2>3. Starter(i) = Starter(j)
    BY DEF Starter
  <2> QED BY <2>2, <2>3
<1> QED BY <1>1, Invariance, PTL

\* The backfill leaves no workspace it listed without a subscription, but
\* those that lost theirs meanwhile.
THEOREM NobodyForgotten == Spec => BackfillCovers
<1>1. Inv /\ [Next]_vars =>
         [\A i \in Instances : Commit(i) =>
             \A w \in tx[i].listed \ canceled[i] : opens'[w] = 1]_vars
  <2> SUFFICES ASSUME Inv, NEW i \in Instances, Commit(i),
                      NEW w \in tx[i].listed \ canceled[i]
               PROVE  opens'[w] = 1
    OBVIOUS
  <2>1. w \in Workspaces /\ opens[w] \in Nat /\ opens[w] <= 1
    BY DEF Inv, TypeOK, Tx, OneOpenSubscription
  <2>2. w \in tx[i].added \/ opens[w] > 0
    BY DEF Inv, Backfill, Found, Commit
  <2>3. \A x \in tx[i].added : opens[x] = 0
    BY DEF Inv, Backfill, Inserts
  <2>4. opens'[w] = IF w \in tx[i].added THEN opens[w] + 1 ELSE opens[w]
    BY <2>1 DEF Commit
  <2> QED BY <2>1, <2>2, <2>3, <2>4
<1> QED BY <1>1, Invariance, PTL DEF Spec, BackfillCovers

-----------------------------------------------------------------------------
(* Who waits for whom *)

\* A row is locked by a transaction that has written it, and what a
\* transaction has retired is of the plans whose UPDATE it has begun.
Locks(i) ==
    /\ \A p \in Plans : lock[p] = i => p \in tx[i].activate \cup tx[i].retire
    /\ \A p \in tx[i].retire : p[1] \in Begun(i)
    /\ tx[i].added # {} => tx[i].pc = "commit"

WaitInv == Inv /\ \A i \in Instances : Locks(i)

LEMMA WaitInit == Init => WaitInv
<1> SUFFICES ASSUME Init, NEW i \in Instances PROVE Locks(i)
  BY InitInvariant DEF WaitInv
<1>1. \A p \in Plans : lock[p] # i
  BY DEF Init
<1>2. tx[i].retire = {} /\ tx[i].added = {}
  BY AtType DEF Init
<1> QED BY <1>1, <1>2 DEF Locks

\* A step of another process that takes nothing from this one.
LEMMA LocksKeep ==
    ASSUME WaitInv, NEW i \in Instances, tx'[i] = tx[i],
           \A p \in Plans : lock'[p] = i => lock[p] = i
    PROVE  Locks(i)'
BY DEF WaitInv, Locks, Begun, Done, Own

\* One that has not begun, or has ended, holds nothing.
LEMMA LocksNone ==
    ASSUME NEW i \in Instances, NEW pc \in {"down", "up", "upsert"}, tx'[i] = At(pc),
           \A p \in Plans : lock'[p] # i
    PROVE  Locks(i)'
BY AtType DEF Locks, Seeding

LEMMA WaitNext == WaitInv /\ [Next]_vars => WaitInv'
<1> SUFFICES ASSUME WaitInv, [Next]_vars, NEW j \in Instances PROVE Locks(j)'
  BY NextKeeps DEF WaitInv
<1>1. /\ Inv /\ tx \in [Instances -> Tx] /\ lock \in [Plans -> Instances \cup {Nobody}]
      /\ \A i \in Instances : Plans1(i) /\ Locks(i)
  BY DEF WaitInv, Inv, TypeOK
<1>2. ASSUME NEW i \in Instances, Begin(i) \/ Stop(i) PROVE Locks(j)'
  <2>1. PICK pc \in {"down", "upsert"} : tx' = [tx EXCEPT ![i] = At(pc)]
    BY <1>2 DEF Begin, Stop, Set
  <2>2. UNCHANGED lock /\ tx[i].pc \in {"down", "up"}
    BY <1>2 DEF Begin, Stop
  <2>3. tx'[i] = At(pc) /\ \A k \in Instances \ {i} : tx'[k] = tx[k]
    BY <1>1, <2>1
  <2>4. \A p \in Plans : lock'[p] # i
    BY <1>1, <2>2 DEF Plans1, Activates, Locks, Begun, Done
  <2> QED BY <2>2, <2>3, <2>4, LocksKeep, LocksNone
<1>3. ASSUME NEW i \in Instances, Upsert(i) PROVE Locks(j)'
  <2> PICK q : q = [tx[i] EXCEPT !.pc = "retire", !.activate = @ \cup {Own(i)}]
    OBVIOUS
  <2>1. /\ q.pc = "retire" /\ q.policy = tx[i].policy
        /\ q.activate = tx[i].activate \cup {Own(i)} /\ q.retire = tx[i].retire
        /\ q.added = tx[i].added
    BY <1>1 DEF Tx
  <2>2. tx'[i] = q /\ tx[i].pc = "upsert" /\ \A k \in Instances \ {i} : tx'[k] = tx[k]
    BY <1>1, <1>3 DEF Upsert, Set
  <2>3. \A p \in Plans : lock'[p] = IF p = Own(i) THEN i ELSE lock[p]
    BY <1>3 DEF Upsert, Take, Upserted
  <2>4. Locks(i)'
    BY <1>1, <2>1, <2>2, <2>3 DEF Locks, Begun, Done
  <2>5. ASSUME j # i PROVE \A p \in Plans : lock'[p] = j => lock[p] = j
    BY <2>3, <2>5
  <2> QED BY <2>2, <2>4, <2>5, LocksKeep
<1>4. ASSUME NEW i \in Instances, Retire(i) PROVE Locks(j)'
  <2>1. \A p \in Plans : lock'[p] = IF p \in tx[i].at THEN i ELSE lock[p]
    BY <1>4 DEF Retire, Take
  <2>2. /\ tx[i].pc = "retiring" /\ tx[i].added = {} /\ tx[i].policy \in {1, 2}
        /\ \A p \in tx[i].retire \cup tx[i].at : p[1] \in Begun(i)
    BY <1>1, <1>4 DEF Retire, Tx, Locks, Plans1, Finds, Begun
  <2>3. Begun(i) \subseteq Begun(i)'
    <3>1. Own(i)[1] = IF tx[i].policy = 1 THEN "starter" ELSE "pro"
      BY <1>1, OwnIs DEF Inv, Starter, Pro
    <3>2. tx'[i].pc = "retiring" => Own(i)' = Own(i)
      BY <1>1, <1>4, RetireFields DEF Own
    <3> QED BY <1>1, <1>4, <2>2, <3>1, <3>2, RetireFields DEF Begun, Done, Codes
  <2>4. Locks(i)'
    BY <1>1, <1>4, <2>1, <2>2, <2>3, RetireFields DEF Locks
  <2>5. ASSUME j # i PROVE tx'[j] = tx[j] /\ \A p \in Plans : lock'[p] = j => lock[p] = j
    BY <1>1, <1>4, <2>1, <2>5, RetireFields
  <2> QED BY <2>4, <2>5, LocksKeep
<1>5. ASSUME NEW i \in Instances, List(i) \/ FindOpen(i) \/ Insert(i) PROVE Locks(j)'
  <2>1. UNCHANGED lock
    BY <1>5 DEF List, FindOpen, Insert
  <2>2. CASE j = i
    <3>1. {tx[i].pc, tx'[i].pc} \subseteq {"list", "find", "insert", "commit"}
          /\ tx'[i].activate = tx[i].activate /\ tx'[i].retire = tx[i].retire
      BY <1>1, <1>5, BackfillFields
    <3>2. Begun(i)' = Begun(i)
      BY <3>1 DEF Begun, Done
    <3>3. tx'[i].added # {} => tx'[i].pc = "commit"
      BY <1>1, <1>5, BackfillFields DEF Locks
    <3> QED BY <1>1, <2>1, <2>2, <3>1, <3>2, <3>3 DEF Locks
  <2>3. CASE j # i
    BY <1>1, <1>5, <2>1, <2>3, BackfillFields, LocksKeep
  <2> QED BY <2>2, <2>3
<1>6. ASSUME NEW i \in Instances, Commit(i) \/ Abort(i) PROVE Locks(j)'
  <2>1. PICK pc \in {"down", "up"} : Set(i, At(pc))
    BY <1>6 DEF Commit, Abort
  <2>2. tx'[i] = At(pc) /\ \A k \in Instances \ {i} : tx'[k] = tx[k]
    BY <1>1, <2>1 DEF Set
  <2>3. \A p \in Plans : lock'[p] = IF lock[p] = i THEN Nobody ELSE lock[p]
    BY <1>6 DEF Commit, Abort, Release
  <2>4. \A p \in Plans : lock'[p] # i /\ (lock'[p] = j => lock[p] = j)
    BY <2>3
  <2> QED BY <2>2, <2>4, LocksKeep, LocksNone
<1>7. ASSUME UNCHANGED <<tx, lock>> PROVE Locks(j)'
  BY <1>7, LocksKeep
<1>8. ASSUME NEW i \in Instances, NEW w \in Workspaces, Signup(i, w) PROVE Locks(j)'
  BY <1>7, <1>8 DEF Signup
<1>9. ASSUME NEW w \in Workspaces, Cancel(w) PROVE Locks(j)'
  BY <1>7, <1>9 DEF Cancel
<1>10. ASSUME UNCHANGED vars PROVE Locks(j)'
  BY <1>7, <1>10 DEF vars
<1>11. ASSUME NEW i \in Instances, FindOthers(i) PROVE Locks(j)'
  <2>1. PICK row \in First(Others(i)) :
            tx' = [tx EXCEPT ![i] = [tx[i] EXCEPT !.pc = "retiring", !.at = row,
                                                  !.ahead = Others(i) \ row]]
    BY <1>11 DEF FindOthers, Set
  <2> PICK q : q = [tx[i] EXCEPT !.pc = "retiring", !.at = row, !.ahead = Others(i) \ row]
    OBVIOUS
  <2>2. /\ q.pc = "retiring" /\ q.policy = tx[i].policy
        /\ q.activate = tx[i].activate /\ q.retire = tx[i].retire /\ q.added = tx[i].added
    BY <1>1 DEF Tx
  <2>3. /\ tx'[i] = q /\ tx[i].pc = "retire" /\ UNCHANGED lock
        /\ \A k \in Instances \ {i} : tx'[k] = tx[k]
    BY <1>1, <1>11, <2>1 DEF FindOthers
  <2>4. Begun(i) \subseteq Begun(i)'
    BY <2>2, <2>3 DEF Begun, Done
  <2>5. Locks(i)'
    BY <1>1, <2>2, <2>3, <2>4 DEF Locks
  <2> QED BY <2>3, <2>5, LocksKeep
<1> QED BY <1>2, <1>3, <1>4, <1>5, <1>6, <1>8, <1>9, <1>10, <1>11 DEF Next, Seed, Victim

\* Whoever is waited for has written the Starter plan of its version.
LEMMA WaitedForHasBegun ==
    ASSUME WaitInv, NEW i \in Instances, NEW j \in WaitsFor(i)
    PROVE  j \in Instances \ {i} /\ tx[j].activate # {}
<1>1. /\ j \in Instances \ {i}
      /\ \/ \E p \in Plans : lock[p] = j
         \/ tx[j].added # {}
  <2>1. Own(i) \in Plans /\ tx[i].at \subseteq Plans
    BY OwnIs DEF WaitInv, Inv, TypeOK, Tx
  <2> QED BY <2>1 DEF WaitsFor, Upserted
<1>2. Locks(j) /\ Activates(j)
  BY <1>1 DEF WaitInv, Inv, Plans1
<1>3. CASE \E p \in Plans : lock[p] = j
  <2>1. tx[j].activate # {} \/ Begun(j) # {}
    BY <1>2, <1>3 DEF Locks
  <2>2. Begun(j) # {} => tx[j].activate # {}
    BY <1>2 DEF Begun, Done, Activates
  <2> QED BY <1>1, <2>1, <2>2
<1>4. CASE tx[j].added # {}
  BY <1>1, <1>2, <1>4 DEF Locks, Activates
<1> QED BY <1>1, <1>3, <1>4

\* Two seeds of one version never both are past their first statement.
LEMMA Alone ==
    ASSUME Inv, NEW i \in Instances, NEW j \in Instances,
           VersionOf[i] = VersionOf[j], tx[i].activate # {}, tx[j].activate # {}
    PROVE  i = j
<1>1. \A k \in Instances : tx[k].activate # {} => Starter(k) \in tx[k].activate
  BY DEF Inv, Plans1, Activates
<1>2. lock[Starter(i)] = i /\ lock[Starter(j)] = j
  BY <1>1 DEF Inv, Plans1, Held
<1>3. Starter(i) = Starter(j)
  BY DEF Starter
<1> QED BY <1>2, <1>3

\* Every circle is across versions: in one of a single version somebody who is
\* waited for would wait for another who is, and both would hold its Starter.
THEOREM CirclesCross == Spec => []CirclesCrossVersions
<1>1. WaitInv => CirclesCrossVersions
  <2> SUFFICES ASSUME WaitInv, NEW S \in SUBSET Instances, Stuck(S),
                      \A i, j \in S : VersionOf[i] = VersionOf[j]
               PROVE  FALSE
    BY DEF CirclesCrossVersions
  <2>1. PICK i \in S : TRUE
    BY DEF Stuck
  <2>2. PICK j \in S : j \in WaitsFor(i)
    BY DEF Stuck
  <2>3. PICK k \in S : k \in WaitsFor(j)
    BY DEF Stuck
  <2>4. tx[j].activate # {} /\ tx[k].activate # {} /\ k # j
    BY <2>2, <2>3, WaitedForHasBegun
  <2> QED BY <2>4, Alone DEF WaitInv
<1> QED BY <1>1, WaitInit, WaitNext, PTL DEF Spec

\* In a database that had plans, a seed that has retired the Starter plans of
\* the other versions waits for nobody.
THEOREM StarterWins == Spec => []StarterDecides
<1>1. WaitInv => StarterDecides
  <2> SUFFICES ASSUME WaitInv, deployed # {}, NEW i \in Instances, NEW j \in WaitsFor(i),
                      ~ (tx[i].pc \in {"upsert", "retiring"} /\ tx[i].policy = 1)
               PROVE  FALSE
    BY DEF StarterDecides
  <2>1. TypeOK /\ j \in Instances \ {i} /\ Locks(j) /\ Activates(j) /\ tx[i] \in Tx /\ tx[j] \in Tx
    BY WaitedForHasBegun DEF WaitInv, Inv, Plans1, TypeOK
  <2>2. "starter" \in Done(i)
    BY <2>1 DEF WaitsFor, Done, Codes
  <2>3. "starter" \in Done(j)
    <3>1. CASE tx[i].pc = "insert"
      <4>1. tx[j].added # {}
        BY <3>1 DEF WaitsFor
      <4> QED BY <2>1, <4>1 DEF Locks, Done, Codes
    <3>2. CASE tx[i].pc \in {"upsert", "retiring"}
      <4>1. Own(i) = Pro(i) /\ Own(i) \in Plans
        BY <2>1, <3>2, OwnIs
      <4>2. PICK p \in Plans : p[1] = "pro" /\ lock[p] = j
        <5>1. tx[i].at \subseteq Plans /\ \A p \in tx[i].at : p[1] = "pro"
          BY <2>1, <4>1 DEF WaitInv, Inv, Plans1, Finds, Tx, Pro
        <5> QED BY <3>2, <4>1, <5>1 DEF WaitsFor, Upserted, Pro
      <4>3. p \in tx[j].activate \/ "pro" \in Begun(j)
        BY <2>1, <4>2 DEF Locks
      <4>4. p # Starter(j)
        BY <4>2 DEF Starter
      <4>5. CASE p \in tx[j].activate
        BY <2>1, <4>4, <4>5 DEF Activates, Done, Codes, Tx, Seeding
      <4>6. CASE "pro" \in Begun(j)
        BY <2>1, <4>6, OwnIs DEF Begun, Done, Codes, Starter
      <4> QED BY <4>3, <4>5, <4>6
    <3> QED BY <3>1, <3>2 DEF WaitsFor
  <2> QED BY <2>1, <2>2, <2>3, OnePastStarter DEF WaitInv
<1> QED BY <1>1, WaitInit, WaitNext, PTL DEF Spec

-----------------------------------------------------------------------------
(* The seeds implement Catalogue *)

Offered == [c \in Codes |-> {v \in Versions : plans[<<c, v>>] = "active"}]
Subscribed == {w \in Workspaces : opens[w] = 1}

\* A workspace that is not there has no subscription.
NotThere == \A w \in Workspaces \ exists : opens[w] = 0

CatalogueInv == Inv /\ NotThere

LEMMA CatalogueInit ==
    Init => CatalogueInv /\ Deployed!Init
<1> SUFFICES ASSUME Init PROVE CatalogueInv /\ Deployed!Init
  OBVIOUS
<1>1. CatalogueInv
  BY InitInvariant DEF CatalogueInv, NotThere, Init
<1>2. Present \in SUBSET Versions /\ known = [i \in Instances |-> {}]
      /\ Subscribed \in SUBSET Workspaces
  BY DEF Present, Init, Subscribed
<1>3. CASE deployed # {}
  <2>1. PICK v \in deployed : \A u \in deployed : u <= v
    BY <1>3, DeploymentAssumption DEF Init
  <2>2. \A u \in deployed : u \in Versions /\ u \in Nat
    BY DeploymentAssumption DEF Init, Versions
  <2>3. ASSUME NEW c \in Codes, NEW u \in Versions
        PROVE  plans[<<c, u>>] = "active" <=> u = v
    <3>1. plans[<<c, u>>] = "active" <=> u \in deployed /\ \A x \in deployed : x <= u
      BY DEF Init, Plans
    <3> QED BY <2>1, <2>2, <3>1
  <2>4. Offered = [c \in Codes |-> {v}]
    BY <2>1, <2>2, <2>3 DEF Offered
  <2>5. v \in Present
    BY <1>1, <2>1 DEF CatalogueInv, Inv
  <2> QED BY <1>1, <1>2, <2>4, <2>5 DEF Deployed!Init, Offered, Subscribed
<1>4. CASE deployed = {}
  <2>1. \A p \in Plans : plans[p] = "none"
    BY <1>4 DEF Init
  <2>2. Offered = [c \in Codes |-> {}]
    BY <2>1 DEF Offered, Plans
  <2>3. Present = {}
    BY <2>1 DEF Present, Plans, Codes
  <2> QED BY <1>1, <1>2, <2>2, <2>3 DEF Deployed!Init, Offered, Subscribed
<1> QED BY <1>3, <1>4

LEMMA NotThereNext == CatalogueInv /\ [Next]_vars => CatalogueInv'
<1> SUFFICES ASSUME CatalogueInv, [Next]_vars PROVE NotThere'
  BY NextKeeps DEF CatalogueInv
<1>1. Inv /\ NotThere /\ opens \in [Workspaces -> Nat]
  BY DEF CatalogueInv, Inv, TypeOK
<1>2. CASE UNCHANGED <<exists, opens>>
  BY <1>1, <1>2 DEF NotThere
<1>3. ASSUME NEW i \in Instances, Commit(i) PROVE NotThere'
  <2>1. tx[i].added \subseteq exists
    BY <1>1 DEF Inv, Backfill, Inserts
  <2> QED BY <1>1, <1>3, <2>1 DEF Commit, NotThere
<1>4. ASSUME NEW i \in Instances, NEW w \in Workspaces, Signup(i, w) PROVE NotThere'
  BY <1>1, <1>4 DEF Signup, NotThere
<1>5. ASSUME NEW w \in Workspaces, Cancel(w) PROVE NotThere'
  BY <1>1, <1>5 DEF Cancel, NotThere
<1> QED BY <1>2, <1>3, <1>4, <1>5
        DEF Next, Seed, Victim, Begin, Upsert, FindOthers, Retire, List, FindOpen, Insert,
            Abort, Stop, data, vars

\* What was there when a seed began is in its account at the commit, so that
\* what stays on offer came later.
LEMMA CommitDeploys ==
    ASSUME CatalogueInv, NEW i \in Instances, Commit(i),
           NEW W, W = tx[i].added
    PROVE  Deployed!Deploy(i, W)
<1>1. /\ Inv /\ opens \in [Workspaces -> Nat]
      /\ tx[i].added \in SUBSET Workspaces /\ VersionOf[i] \in Versions
      /\ \A w \in tx[i].added : opens[w] = 0
      /\ Begun(i) = Codes /\ Sees(i)
  BY DEF CatalogueInv, Inv, TypeOK, Tx, Commit, Backfill, Inserts, Versions, Plans1, Begun, Done
<1>2. \A w \in Workspaces : opens'[w] = IF w \in tx[i].added THEN opens[w] + 1 ELSE opens[w]
  BY DEF Commit
<1>3. Subscribed' = Subscribed \cup W /\ W \cap Subscribed = {}
  BY <1>1, <1>2 DEF Subscribed
<1>4. known' = [known EXCEPT ![i] = {}]
  BY DEF Commit, Forget
<1>5. Present' = Present \cup {VersionOf[i]}
  <2>1. ASSUME NEW u \in Versions
        PROVE  (\A c \in Codes : plans'[<<c, u>>] # "none")
                  <=> (\A c \in Codes : plans[<<c, u>>] # "none") \/ u = VersionOf[i]
    BY <1>1, CommittedPlans
  <2> QED BY <1>1, <2>1 DEF Present, Versions
<1>6. /\ Offered' \in [Codes -> SUBSET Versions]
      /\ \A c \in Codes :
            /\ VersionOf[i] \in Offered'[c]
            /\ Offered'[c] \subseteq {VersionOf[i]} \cup (Offered[c] \ known[i])
  <2>1. ASSUME NEW c \in Codes, NEW u \in Versions
        PROVE  /\ u = VersionOf[i] => plans'[<<c, u>>] = "active"
               /\ plans'[<<c, u>>] = "active" =>
                     u = VersionOf[i] \/ (plans[<<c, u>>] = "active" /\ u \notin known[i])
    BY <1>1, CommittedPlans DEF Sees
  <2>2. PICK f, g : f = Offered /\ g = Offered'
    OBVIOUS
  <2>3. /\ f = [c \in Codes |-> {u \in Versions : plans[<<c, u>>] = "active"}]
        /\ g = [c \in Codes |-> {u \in Versions : plans'[<<c, u>>] = "active"}]
    BY <2>2 DEF Offered, Versions
  <2>4. /\ g \in [Codes -> SUBSET Versions]
        /\ \A c \in Codes : /\ VersionOf[i] \in g[c]
                             /\ g[c] \subseteq {VersionOf[i]} \cup (f[c] \ known[i])
    BY <1>1, <2>1, <2>3
  <2> QED BY <2>2, <2>4
<1> QED BY <1>3, <1>4, <1>5, <1>6 DEF Deployed!Deploy, Offered, Subscribed

LEMMA SignupJoins ==
    ASSUME CatalogueInv, NEW i \in Instances, NEW w \in Workspaces, Signup(i, w)
    PROVE  Deployed!Join(w)
<1>1. /\ opens \in [Workspaces -> Nat] /\ opens[w] = 0 /\ UNCHANGED <<plans, known>>
      /\ opens' = [opens EXCEPT ![w] = 1]
  BY DEF CatalogueInv, Inv, TypeOK, NotThere, Signup, history
<1>2. Subscribed' = Subscribed \cup {w} /\ w \notin Subscribed
  BY <1>1 DEF Subscribed
<1>3. VersionOf[i] \in Offered["starter"] /\ "starter" \in Codes
  BY DEF Offered, Signup, Versions, Codes
<1>4. Offered' = Offered /\ Present' = Present
  BY <1>1 DEF Offered, Present, Versions
<1> QED BY <1>1, <1>2, <1>3, <1>4 DEF Deployed!Join, Offered, Subscribed

LEMMA CancelLeaves ==
    ASSUME CatalogueInv, NEW w \in Workspaces, Cancel(w)
    PROVE  Deployed!Leave(w)
<1>1. /\ opens \in [Workspaces -> Nat] /\ opens[w] = 1 /\ UNCHANGED <<plans, known>>
      /\ opens' = [opens EXCEPT ![w] = 0]
  BY DEF CatalogueInv, Inv, TypeOK, OneOpenSubscription, Cancel
<1>2. Subscribed' = Subscribed \ {w} /\ w \in Subscribed
  BY <1>1 DEF Subscribed
<1>3. Offered' = Offered /\ Present' = Present
  BY <1>1 DEF Offered, Present, Versions
<1> QED BY <1>1, <1>2, <1>3 DEF Deployed!Leave, Offered, Subscribed

\* Neither the beginning of a seed nor its failure changes what is on offer.
LEMMA BeginOrAbort ==
    ASSUME CatalogueInv, NEW i \in Instances
    PROVE  /\ Begin(i) => Deployed!Begin(i)
           /\ Abort(i) => Deployed!GiveUp(i)
<1>1. ASSUME UNCHANGED <<plans, opens>>
      PROVE  Offered' = Offered /\ Present' = Present /\ Subscribed' = Subscribed
  BY <1>1 DEF Offered, Present, Subscribed, Versions
<1>2. ASSUME Begin(i) PROVE Deployed!Begin(i)
  <2>1. UNCHANGED <<plans, opens>> /\ known' = [known EXCEPT ![i] = Present]
    BY <1>2 DEF Begin, data
  <2> QED BY <1>1, <2>1 DEF Deployed!Begin, Offered, Subscribed
<1>3. ASSUME Abort(i) PROVE Deployed!GiveUp(i)
  <2>1. UNCHANGED <<plans, opens>> /\ known' = [known EXCEPT ![i] = {}]
    BY <1>3 DEF Abort, Forget, data
  <2> QED BY <1>1, <2>1 DEF Deployed!GiveUp, Offered, Subscribed
<1> QED BY <1>2, <1>3

LEMMA CatalogueStep ==
    CatalogueInv /\ [Next]_vars => [Deployed!Next]_<<Offered, Present, known, Subscribed>>
<1> SUFFICES ASSUME CatalogueInv, [Next]_vars
             PROVE  Deployed!Next \/ UNCHANGED <<Offered, Present, known, Subscribed>>
  OBVIOUS
<1>1. CASE UNCHANGED <<plans, opens, known>>
  BY <1>1 DEF Offered, Present, Subscribed, Versions
<1>2. ASSUME NEW i \in Instances, Commit(i) PROVE Deployed!Next
  <2>1. tx[i].added \in SUBSET Workspaces
    BY <1>2 DEF CatalogueInv, Inv, TypeOK, Tx
  <2>2. PICK W \in SUBSET Workspaces : W = tx[i].added
    BY <2>1
  <2>3. Deployed!Deploy(i, W)
    BY <1>2, <2>2, CommitDeploys
  <2> QED BY <2>3 DEF Deployed!Next
<1>3. ASSUME NEW i \in Instances, NEW w \in Workspaces, Signup(i, w) PROVE Deployed!Next
  BY <1>3, SignupJoins DEF Deployed!Next
<1>4. ASSUME NEW w \in Workspaces, Cancel(w) PROVE Deployed!Next
  BY <1>4, CancelLeaves DEF Deployed!Next
<1>5. ASSUME NEW i \in Instances, Begin(i) \/ Abort(i) PROVE Deployed!Next
  BY <1>5, BeginOrAbort DEF Deployed!Next
<1> QED BY <1>1, <1>2, <1>3, <1>4, <1>5
        DEF Next, Seed, Victim, Upsert, FindOthers, Retire, List, FindOpen, Insert, Stop,
            data, history, vars

\* Whatever statements of others come between its own, a seed takes effect at
\* its commit, as one deployment: nothing is on offer beside its version that
\* was there when it began.
THEOREM SeedsImplementCatalogue == Spec => CatalogueSpec
<1>1. CatalogueInv /\ [Next]_vars => [Deployed!Next]_<<
          [c \in Codes |-> {v \in Versions : plans[<<c, v>>] = "active"}],
          Present, known, {w \in Workspaces : opens[w] = 1}>>
  BY CatalogueStep DEF Offered, Subscribed
<1> QED BY <1>1, CatalogueInit, NotThereNext, PTL DEF Spec, CatalogueSpec, Deployed!Spec, Deployed!vars
=============================================================================
