------------------------- MODULE WorkspaceSettings -------------------------
(* PATCH /workspaces/:workspaceId.  WorkspaceMemberGuard loads the row and   *)
(* updateWorkspace assigns the fields of the request to that entity; then    *)
(* TypeORM's save reads the row once more and updates the columns in which   *)
(* the entity differs from it, the ones nobody assigned included.  The three *)
(* statements are no transaction, so any other write may come between them.  *)
CONSTANTS Fields,     \* the columns UpdateWorkspaceDto can set
          Values,
          NoZone,     \* a timezone the runtime does not know
          Reqs

ASSUME FieldsAssumption == "timezone" \in Fields /\ "status" \notin Fields
ASSUME NoZoneAssumption == NoZone \notin Values

VARIABLES row,        \* the workspace's row, its status included
          req,        \* requests in flight
          overtaken   \* overtaken[r]: columns others changed since r read them

vars == <<row, req, overtaken>>

Columns == Fields \cup {"status"}
Statuses == {"active", "suspended", "closed"}

\* The bodies that pass the validation pipe: any of the fields, or none.
Dto == {d \in UNION {[S -> Values \cup {NoZone}] : S \in SUBSET Fields} :
           \A f \in DOMAIN d : d[f] = NoZone => f = "timezone"}

\* Contents of a row or of an entity.
Rows == {e \in [Columns -> Values \cup Statuses] :
            e["status"] \in Statuses /\ \A f \in Fields : e[f] \in Values}

Nothing == [c \in {} |-> NoZone]

Request == [pc : {"idle", "loaded", "saving"},
            dto : Dto,
            entity : Rows \cup {Nothing},
            diff : SUBSET Columns]

Idle == [pc |-> "idle", dto |-> Nothing, entity |-> Nothing, diff |-> {}]

TypeOK ==
    /\ row \in Rows
    /\ req \in [Reqs -> Request]
    /\ overtaken \in [Reqs -> SUBSET Columns]

Init ==
    /\ row \in Rows
    /\ row["status"] = "active"
    /\ req = [r \in Reqs |-> Idle]
    /\ overtaken = [r \in Reqs |-> {}]

AnyZone(d) == TRUE

\* validateTimezone
ValidZone(d) == "timezone" \in DOMAIN d => d["timezone"] # NoZone

AssignButZone(d, e) ==
    [c \in Columns |-> IF c \in DOMAIN d \ {"timezone"} THEN d[c] ELSE e[c]]

\* The assignments of updateWorkspace to the entity e.
Assign(d, e) == [c \in Columns |-> IF c \in DOMAIN d THEN d[c] ELSE e[c]]

\* The UPDATE of a save, applied to the row e.
Written(q, e) == [c \in Columns |-> IF c \in q.diff THEN q.entity[c] ELSE e[c]]

\* A write of the row overtakes those of the requests qs that have read it.
Overtake(qs, new) ==
    [q \in Reqs |-> IF q \notin qs \/ req[q].pc = "idle" THEN {}
                    ELSE overtaken[q] \cup {c \in Columns : new[c] # row[c]}]

-----------------------------------------------------------------------------
\* WorkspaceMemberGuard loads the workspace, if it is active; updateWorkspace
\* checks the timezone and assigns.  (A member who may not is refused before
\* anything changes, as is anyone whose timezone is unknown.)
Load(r, d) ==
    /\ req[r].pc = "idle"
    /\ row["status"] = "active"
    /\ ValidZone(d)
    /\ req' = [req EXCEPT ![r] = [pc |-> "loaded", dto |-> d,
                                  entity |-> Assign(d, row), diff |-> {}]]
    /\ UNCHANGED <<row, overtaken>>

Answer(r) ==
    /\ req' = [req EXCEPT ![r] = Idle]
    /\ overtaken' = [overtaken EXCEPT ![r] = {}]

\* save reads the row; when nothing differs it sends no UPDATE.
Compare(r) ==
    LET diff == {c \in Columns : req[r].entity[c] # row[c]}
    IN  /\ req[r].pc = "loaded"
        /\ IF diff = {}
           THEN Answer(r)
           ELSE /\ req' = [req EXCEPT ![r] = [pc |-> "saving", dto |-> req[r].dto,
                                              entity |-> req[r].entity, diff |-> diff]]
                /\ UNCHANGED overtaken
        /\ UNCHANGED row

Update(r) ==
    /\ req[r].pc = "saving"
    /\ row' = Written(req[r], row)
    /\ req' = [req EXCEPT ![r] = Idle]
    /\ overtaken' = Overtake(Reqs \ {r}, row')

\* The request fails, or its process dies.
Abort(r) ==
    /\ req[r].pc # "idle"
    /\ Answer(r)
    /\ UNCHANGED row

\* An administrator's tool suspends, closes or reopens the workspace (the API
\* reads the status; nothing in it sets one).
SetStatus(s) ==
    /\ row["status"] # s
    /\ row' = [row EXCEPT !["status"] = s]
    /\ overtaken' = Overtake(Reqs, row')
    /\ UNCHANGED req

Next ==
    \/ \E r \in Reqs : (\E d \in Dto : Load(r, d)) \/ Compare(r) \/ Update(r) \/ Abort(r)
    \/ \E s \in Statuses : SetStatus(s)

Spec == Init /\ [][Next]_vars

-----------------------------------------------------------------------------
(* Properties *)

\* The UPDATE a request is about to send writes what the request asks for and
\* leaves the rest of the row, but for columns that others changed after the
\* guard read them: those it may set back, or fail to set.
PreparedAsAsked ==
    \A r \in Reqs : req[r].pc = "saving" =>
        \A c \in Columns \ overtaken[r] :
            Written(req[r], row)[c] =
                IF c \in DOMAIN req[r].dto THEN req[r].dto[c] ELSE row[c]

\* "updates only allowed fields on the context workspace": an update leaves
\* every column alone that its request does not give.
UpdatesOnlyAllowedFields ==
    [][\A r \in Reqs : Update(r) =>
          \A c \in Columns \ DOMAIN req[r].dto : row'[c] = row[c]]_vars
=============================================================================
