------------------------------- MODULE DaoNodes ------------------------------
(***************************************************************************)
(* The nodes of the DAO database and what ties them and the organisations  *)
(* to a DAO (dao/modules/node-crud.ts), with the constraints of            *)
(* dao/schema.ts.  Every operation is one statement, so one step; one that *)
(* breaks a constraint throws and changes nothing.  The times of the rows, *)
(* last_seen among them, are read by no statement and left out.            *)
(***************************************************************************)
EXTENDS Integers, FiniteSets

CONSTANTS
  NodeRows,    \* ids the database gives to nodes
  NodeMeshIds,
  Daos,        \* DAOs that exist
  Owners,      \* organisations that exist
  Scores,      \* reputations asked for, in tenths
  Stakes,      \* stakes asked for
  Undefined,   \* no stake asked for
  Splits,      \* revenue shares asked for: worker, platform, treasury
  MaxEarned    \* bound on the earnings of a node

ASSUME NodesAssumption == "none" \notin NodeMeshIds

VARIABLES
  nodeRows, \* bucky_nodes
  nodeDaos, \* node_daos: the row of a node and a DAO
  orgDaos   \* org_daos: the role of an organisation in a DAO

rowVars == <<nodeRows, nodeDaos, orgDaos>>

NodeRoles == {"worker", "validator", "admin"}
NoNode == [here |-> FALSE]
NotJoined == [role |-> "none"]
DefaultSplit == [worker |-> 70, platform |-> 20, treasury |-> 10]

NodesInit ==
  /\ nodeRows = [n \in NodeRows |-> NoNode]
  /\ nodeDaos = [n \in NodeRows |-> [d \in Daos |-> NotJoined]]
  /\ orgDaos = [o \in Owners |-> [d \in Daos |-> "none"]]

HasRow(n) == nodeRows[n].here

\* getByMeshId.
GetByMeshId(m) == {n \in NodeRows : HasRow(n) /\ nodeRows[n].mesh = m}
ListByOwner(o) == {n \in NodeRows : HasRow(n) /\ nodeRows[n].owner = o}

\* The mesh id may be missing, and the owner; a mesh id that is there is unique.
RegisterNode(n, mesh, owner) ==
  /\ ~HasRow(n)
  /\ mesh # "none" => GetByMeshId(mesh) = {}
  /\ nodeRows' = [nodeRows EXCEPT ![n] =
       [here |-> TRUE, mesh |-> mesh, owner |-> owner, reputation |-> 5, stake |-> 0, earned |-> 0]]
  /\ UNCHANGED <<nodeDaos, orgDaos>>

\* The CHECK of the column refuses a reputation outside 0 .. 1; without a stake it is left.
UpdateReputation(n, score, stake) ==
  /\ HasRow(n) /\ score \in 0 .. 10
  /\ nodeRows' = [nodeRows EXCEPT ![n].reputation = score,
                                  ![n].stake = IF stake = Undefined THEN @ ELSE stake]
  /\ UNCHANGED <<nodeDaos, orgDaos>>

\* The sum is made by the database.
RecordEarnings(n, amount) ==
  /\ HasRow(n) /\ nodeRows[n].earned + amount \in 0 .. MaxEarned
  /\ nodeRows' = [nodeRows EXCEPT ![n].earned = @ + amount]
  /\ UNCHANGED <<nodeDaos, orgDaos>>

\* An upsert that writes role and all three shares.  Only the worker's share is checked; the three
\* need not add up to 100.
JoinDAO(n, d, role, split) ==
  /\ HasRow(n) /\ split.worker \in 1 .. 100
  /\ nodeDaos' = [nodeDaos EXCEPT ![n][d] = [role |-> role, split |-> split]]
  /\ UNCHANGED <<nodeRows, orgDaos>>

LeaveDAO(n, d) ==
  /\ nodeDaos' = [nodeDaos EXCEPT ![n][d] = NotJoined]
  /\ UNCHANGED <<nodeRows, orgDaos>>

GetNodeDAOs(n) == {d \in Daos : nodeDaos[n][d] # NotJoined}
GetDAONodes(d) == {n \in NodeRows : nodeDaos[n][d] # NotJoined}

LinkOrgToDAO(o, d, role) ==
  /\ orgDaos' = [orgDaos EXCEPT ![o][d] = role]
  /\ UNCHANGED <<nodeRows, nodeDaos>>

NodesNext ==
  \/ \E n \in NodeRows, m \in NodeMeshIds \cup {"none"}, o \in Owners \cup {"none"} : RegisterNode(n, m, o)
  \/ \E n \in NodeRows, s \in Scores, k \in Stakes \cup {Undefined} : UpdateReputation(n, s, k)
  \/ \E n \in NodeRows : RecordEarnings(n, 1)
  \/ \E n \in NodeRows, d \in Daos :
       LeaveDAO(n, d) \/ \E role \in NodeRoles, s \in Splits \cup {DefaultSplit} : JoinDAO(n, d, role, s)
  \/ \E o \in Owners, d \in Daos, role \in {"owner", "member"} : LinkOrgToDAO(o, d, role)

NodesSpec == NodesInit /\ [][NodesNext]_rowVars

NodesTypeOK ==
  /\ \A n \in NodeRows : HasRow(n) => nodeRows[n].reputation \in 0 .. 10 /\ nodeRows[n].earned \in Nat
  /\ orgDaos \in [Owners -> [Daos -> {"none", "owner", "member"}]]
=============================================================================
