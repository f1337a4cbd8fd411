---------------------- MODULE WorkspaceSettingsProofs ----------------------
(* Proofs about WorkspaceSettings, for any fields, values and number of      *)
(* requests.                                                                 *)
EXTENDS WorkspaceSettings, TLAPS

\* A request under way holds, in the columns nobody changed since it read
\* them, what it asks for and otherwise what the row has.
Fresh(r) ==
    req[r].pc # "idle" =>
        /\ req[r].entity \in Rows
        /\ \A c \in Columns \ overtaken[r] :
              req[r].entity[c] =
                  IF c \in DOMAIN req[r].dto THEN req[r].dto[c] ELSE row[c]

\* The columns save found to differ still do, and no others, but for those.
Exact(r) ==
    req[r].pc = "saving" =>
        \A c \in Columns \ overtaken[r] :
            c \in req[r].diff <=> req[r].entity[c] # row[c]

IInv == TypeOK /\ (\A r \in Reqs : Fresh(r)) /\ (\A r \in Reqs : Exact(r))

LEMMA IdleType == Idle \in Request /\ Idle.pc = "idle"
<1>1. Nothing \in [{} -> Values \cup {NoZone}] /\ DOMAIN Nothing = {}
  BY DEF Nothing
<1>2. Nothing \in UNION {[S -> Values \cup {NoZone}] : S \in SUBSET Fields}
  BY <1>1
<1>3. Nothing \in Dto
  BY <1>1, <1>2 DEF Dto
<1> QED BY <1>3 DEF Idle, Request

\* What a write does to a request that has read the row: the columns it
\* changes are added to those it may not rely on.
LEMMA OvertakeKeeps ==
    ASSUME IInv, NEW r \in Reqs, NEW qs \in SUBSET Reqs, r \in qs,
           row' \in Rows, overtaken' = Overtake(qs, row'), req'[r] = req[r]
    PROVE  Fresh(r)' /\ Exact(r)'
<1>1. CASE req[r].pc = "idle"
  BY <1>1 DEF Fresh, Exact
<1>2. CASE req[r].pc # "idle"
  <2>1. /\ overtaken[r] \subseteq overtaken'[r]
        /\ \A c \in Columns \ overtaken'[r] : row'[c] = row[c]
    BY <1>2 DEF Overtake
  <2>2. Fresh(r)'
    BY <1>2, <2>1 DEF IInv, Fresh
  <2>3. Exact(r)'
    BY <1>2, <2>1 DEF IInv, Exact
  <2> QED BY <2>2, <2>3
<1> QED BY <1>1, <1>2

LEMMA OvertakeType ==
    ASSUME IInv, NEW qs \in SUBSET Reqs, overtaken' = Overtake(qs, row')
    PROVE  overtaken' \in [Reqs -> SUBSET Columns]
BY DEF IInv, TypeOK, Overtake

\* The request that answers is idle again, and nothing else changed.
LEMMA AnswerKeeps ==
    ASSUME IInv, NEW r \in Reqs, Answer(r), UNCHANGED row
    PROVE  IInv'
<1>1. Idle \in Request
  BY IdleType
<1>2. TypeOK'
  BY <1>1 DEF IInv, TypeOK, Answer
<1>3. ASSUME NEW q \in Reqs PROVE Fresh(q)' /\ Exact(q)'
  <2>1. CASE q = r
    BY <2>1 DEF IInv, TypeOK, Answer, Idle, Fresh, Exact
  <2>2. CASE q # r
    BY <2>2 DEF IInv, TypeOK, Answer, Fresh, Exact
  <2> QED BY <2>1, <2>2
<1> QED BY <1>2, <1>3 DEF IInv

LEMMA InitInvariant == Init => IInv
BY IdleType DEF Init, IInv, TypeOK, Fresh, Exact

LEMMA LoadKeeps ==
    ASSUME IInv, NEW r \in Reqs, NEW d \in Dto, Load(r, d)
    PROVE  IInv'
<1> DEFINE q == [pc |-> "loaded", dto |-> d, entity |-> Assign(d, row), diff |-> {}]
<1>1. Assign(d, row) \in Rows
  <2>1. DOMAIN d \subseteq Fields /\ \A f \in DOMAIN d : d[f] \in Values
    BY DEF Dto, Load, ValidZone
  <2>2. row \in Rows
    BY DEF IInv, TypeOK
  <2>3. \A f \in Fields : f # "status"
    BY FieldsAssumption
  <2>4. \A c \in Columns : Assign(d, row)[c] \in Values \cup Statuses
    BY <2>1, <2>2 DEF Assign, Rows
  <2>5. Assign(d, row) \in [Columns -> Values \cup Statuses]
    BY <2>4 DEF Assign
  <2>6. Assign(d, row)["status"] \in Statuses
    BY <2>1, <2>2, <2>3 DEF Assign, Rows, Columns
  <2>7. \A f \in Fields : Assign(d, row)[f] \in Values
    BY <2>1, <2>2, <2>3 DEF Assign, Rows, Columns
  <2> QED BY <2>5, <2>6, <2>7 DEF Rows
<1>2. q \in Request
  BY <1>1 DEF Request
<1>3. req' = [req EXCEPT ![r] = q] /\ UNCHANGED <<row, overtaken>>
  BY DEF Load
<1>4. TypeOK'
  BY <1>2, <1>3 DEF IInv, TypeOK
<1>5. ASSUME NEW p \in Reqs PROVE Fresh(p)' /\ Exact(p)'
  <2>1. CASE p = r
    BY <1>1, <1>3, <2>1 DEF IInv, TypeOK, Fresh, Exact, Assign
  <2>2. CASE p # r
    BY <1>3, <2>2 DEF IInv, TypeOK, Fresh, Exact
  <2> QED BY <2>1, <2>2
<1> QED BY <1>4, <1>5 DEF IInv

LEMMA CompareKeeps ==
    ASSUME IInv, NEW r \in Reqs, Compare(r)
    PROVE  IInv'
<1> DEFINE diff == {c \in Columns : req[r].entity[c] # row[c]}
<1> DEFINE q == [pc |-> "saving", dto |-> req[r].dto,
                 entity |-> req[r].entity, diff |-> diff]
<1>1. CASE diff = {}
  BY <1>1, AnswerKeeps DEF Compare
<1>2. CASE diff # {}
  <2>1. req' = [req EXCEPT ![r] = q] /\ UNCHANGED <<row, overtaken>>
    BY <1>2 DEF Compare
  <2>2. q \in Request
    BY DEF IInv, TypeOK, Request
  <2>3. TypeOK'
    BY <2>1, <2>2 DEF IInv, TypeOK
  <2>4. ASSUME NEW p \in Reqs PROVE Fresh(p)' /\ Exact(p)'
    <3>1. CASE p = r
      <4>1. req'[r] = q /\ req[r].pc = "loaded" /\ Fresh(r)
        BY <2>1 DEF IInv, TypeOK, Compare
      <4>2. Fresh(r)'
        BY <2>1, <4>1 DEF Fresh
      <4>3. Exact(r)'
        BY <2>1, <4>1 DEF Exact
      <4> QED BY <3>1, <4>2, <4>3
    <3>2. CASE p # r
      BY <2>1, <3>2 DEF IInv, TypeOK, Fresh, Exact
    <3> QED BY <3>1, <3>2
  <2> QED BY <2>3, <2>4 DEF IInv
<1> QED BY <1>1, <1>2

LEMMA UpdateKeeps ==
    ASSUME IInv, NEW r \in Reqs, Update(r)
    PROVE  IInv'
<1>1. row' \in Rows
  <2>1. row \in Rows /\ req[r].entity \in Rows
    BY DEF IInv, TypeOK, Fresh, Update
  <2>2. row' = Written(req[r], row)
    BY DEF Update
  <2>3. \A c \in Columns : row'[c] = row[c] \/ row'[c] = req[r].entity[c]
    BY <2>2 DEF Written
  <2>4. \A f \in Fields : row'[f] \in Values
    BY <2>1, <2>3 DEF Rows, Columns
  <2>5. row'["status"] \in Statuses
    BY <2>1, <2>3 DEF Rows, Columns
  <2>6. row' \in [Columns -> Values \cup Statuses]
    BY <2>1, <2>2 DEF Written, Rows
  <2> QED BY <2>4, <2>5, <2>6 DEF Rows
<1>2. overtaken' = Overtake(Reqs \ {r}, row') /\ req' = [req EXCEPT ![r] = Idle]
  BY DEF Update
<1>3. overtaken' \in [Reqs -> SUBSET Columns]
  BY <1>2, OvertakeType
<1>4. Idle \in Request
  BY IdleType
<1>5. TypeOK'
  BY <1>1, <1>2, <1>3, <1>4 DEF IInv, TypeOK
<1>6. ASSUME NEW p \in Reqs PROVE Fresh(p)' /\ Exact(p)'
  <2>1. CASE p = r
    BY <1>2, <2>1 DEF IInv, TypeOK, Fresh, Exact, Idle
  <2>2. CASE p # r
    <3>1. req'[p] = req[p]
      BY <1>2, <2>2 DEF IInv, TypeOK
    <3> QED BY <1>1, <1>2, <2>2, <3>1, OvertakeKeeps
  <2> QED BY <2>1, <2>2
<1> QED BY <1>5, <1>6 DEF IInv

LEMMA SetStatusKeeps ==
    ASSUME IInv, NEW s \in Statuses, SetStatus(s)
    PROVE  IInv'
<1>1. row' \in Rows
  <2>1. \A f \in Fields : f # "status"
    BY FieldsAssumption
  <2> QED BY <2>1 DEF IInv, TypeOK, Rows, SetStatus, Columns
<1>2. overtaken' = Overtake(Reqs, row') /\ UNCHANGED req
  BY DEF SetStatus
<1>3. overtaken' \in [Reqs -> SUBSET Columns]
  BY <1>2, OvertakeType
<1>4. TypeOK'
  BY <1>1, <1>2, <1>3 DEF IInv, TypeOK
<1>5. ASSUME NEW p \in Reqs PROVE Fresh(p)' /\ Exact(p)'
  BY <1>1, <1>2, OvertakeKeeps
<1> QED BY <1>4, <1>5 DEF IInv

LEMMA NextInvariant == IInv /\ [Next]_vars => IInv'
<1> SUFFICES ASSUME IInv, [Next]_vars PROVE IInv'
  OBVIOUS
<1>1. ASSUME NEW r \in Reqs, NEW d \in Dto, Load(r, d) PROVE IInv'
  BY <1>1, LoadKeeps
<1>2. ASSUME NEW r \in Reqs, Compare(r) PROVE IInv'
  BY <1>2, CompareKeeps
<1>3. ASSUME NEW r \in Reqs, Update(r) PROVE IInv'
  BY <1>3, UpdateKeeps
<1>4. ASSUME NEW r \in Reqs, Abort(r) PROVE IInv'
  BY <1>4, AnswerKeeps DEF Abort
<1>5. ASSUME NEW s \in Statuses, SetStatus(s) PROVE IInv'
  BY <1>5, SetStatusKeeps
<1>6. CASE UNCHANGED vars
  BY <1>6 DEF vars, IInv, TypeOK, Fresh, Exact
<1> QED BY <1>1, <1>2, <1>3, <1>4, <1>5, <1>6 DEF Next

LEMMA InvariantHolds == Spec => []IInv
<1> QED BY InitInvariant, NextInvariant, PTL DEF Spec

\* The row, the requests and what overtook them keep their types; with it no
\* timezone is stored that the runtime does not know.
THEOREM TypeCorrect == Spec => []TypeOK
<1>1. IInv => TypeOK
  BY DEF IInv
<1> QED BY <1>1, InvariantHolds, PTL

\* A prepared UPDATE is exact in every column that nobody changed since the
\* guard read it, however many requests and status changes run at once.
THEOREM UpdatesAsAsked == Spec => []PreparedAsAsked
<1>1. IInv => PreparedAsAsked
  <2> SUFFICES ASSUME IInv, NEW r \in Reqs, req[r].pc = "saving",
                      NEW c \in Columns \ overtaken[r]
               PROVE  Written(req[r], row)[c] =
                          IF c \in DOMAIN req[r].dto THEN req[r].dto[c] ELSE row[c]
    BY DEF PreparedAsAsked
  <2>1. c \in req[r].diff <=> req[r].entity[c] # row[c]
    BY DEF IInv, Exact
  <2>2. req[r].entity[c] = IF c \in DOMAIN req[r].dto THEN req[r].dto[c] ELSE row[c]
    BY DEF IInv, Fresh
  <2> QED BY <2>1, <2>2 DEF Written
<1> QED BY <1>1, InvariantHolds, PTL
=============================================================================
