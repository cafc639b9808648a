-------------------------- MODULE RestClustersProofs --------------------------
(***************************************************************************)
(* Theorems about RestClusters, for every number of requests, names, node   *)
(* ids, addresses and nodes.                                               *)
(***************************************************************************)
EXTENDS RestClusters, HandlersProofs, FiniteSetTheorems

Tables == {"clusters", "nodes"}

Statements == {"GetSession", "CreateCluster", "GetCluster", "GetClusters", "UpdateCluster",
               "DeleteCluster", "GetNodeByHostPort", "GetNodeByNodeID", "CreateNode",
               "GetNodes", "DeleteNode"}

\* The operation whose visitor has the statement c is at.
OpAt(c) ==
  /\ pc[c] # "idle" => request[c] \in Requests
  /\ pc[c] \in {"CreateCluster", "GetClusters", "UpdateCluster", "DeleteCluster",
                "CreateNode", "GetNodes", "DeleteNode"} => request[c].op = pc[c]
  /\ pc[c] = "GetCluster" => request[c].op \in {"GetCluster", "UpdateCluster", "CreateNode",
                                                "GetNode", "GetNodes", "DeleteNode"}
  /\ pc[c] = "GetNodeByHostPort" => request[c].op = "CreateNode"
  /\ pc[c] = "GetNodeByNodeID" => request[c].op \in {"CreateNode", "GetNode", "DeleteNode"}
  /\ pc[c] \in TxSteps => request[c].op \in TxOps
  /\ pc[c] = "UpdateCluster" => row[c] \in ClusterRow

CallTypes ==
  /\ request \in [Calls -> Requests \cup {Nothing}]
  /\ pc \in [Calls -> Statements \cup {"idle", "begin", "commit", "rollback", "answered"}]
  /\ DOMAIN row = Calls
  /\ status \in [Calls -> {"OK", "Error"}]
  /\ answer \in [Calls -> {"OK", "Error", Nothing}]
  /\ conn \in {"open", "closed"}
  /\ tx \in {"idle", "open", "failed"}
  /\ \A c \in Calls : OpAt(c)

\* The tables are functions, the database a record of them.
Maps(f) == f = [k \in DOMAIN f |-> f[k]]
Database(t) == /\ Maps(t) /\ DOMAIN t = Tables
               /\ Maps(t.nodes)
               /\ TablesOK(t)

TypeInv == CallTypes /\ Database(db) /\ Database(saved)

\* The statements of the visitors.
Visitor(c) ==
  \/ GetSession(c) \/ CreateCluster(c) \/ GetCluster(c) \/ GetClusters(c)
  \/ UpdateCluster(c) \/ DeleteCluster(c) \/ GetNodeByHostPort(c)
  \/ GetNodeByNodeID(c) \/ CheckErrs(c) \/ CreateNode(c) \/ GetNodes(c) \/ DeleteNode(c)

\* The next-state relation, by whose step it is.
LEMMA Steps ==
  ASSUME [Next]_vars
  PROVE  \/ \E c \in Calls : Arrive(c, Requests) \/ Visits(c) \/ Lost(c, db) \/ Visitor(c)
         \/ UNCHANGED vars
BY DEF Next, Progress, Idle, Visitor

\* What a request may ask for.
LEMMA RequestOps ==
  ASSUME NEW r \in Requests
  PROVE  /\ r.op \in {"CreateCluster", "GetCluster", "GetClusters", "DeleteCluster",
                      "UpdateCluster", "CreateNode", "GetNode", "DeleteNode", "GetNodes"}
         /\ r.name \in Names
         /\ r.op = "CreateNode" => r.nodeID \in NodeIDs /\ r.address \in Addresses
BY RestClustersAssumption DEF Requests, Request

-----------------------------------------------------------------------------
(* What the statements that write do to the tables.                        *)

Writes(c) == /\ conn = "open"
             /\ tx # "failed"
             /\ pc' = [pc EXCEPT ![c] = "commit"]
             /\ UNCHANGED <<request, conn, tx, saved>>
             /\ DOMAIN db' = Tables /\ Maps(db')

ClusterCreated(c, n) ==
  /\ pc[c] = "CreateCluster"
  /\ n \notin Clusters
  /\ db'.clusters = Insert(db.clusters, n, [id |-> c, description |-> Nothing,
                                            password |-> Nothing])
  /\ db'.nodes = db.nodes

ClusterUpdated(c, n) ==
  /\ pc[c] = "UpdateCluster"
  /\ Unnamed \in Clusters
  /\ n \notin Clusters \ {Unnamed}
  /\ db'.clusters = Insert(Without(db.clusters, {Unnamed}), n, UpdatedRow(c))
  /\ db'.nodes = db.nodes

ClusterDeleted(c, n) ==
  /\ pc[c] = "DeleteCluster"
  /\ n \in Clusters
  /\ db'.clusters = Without(db.clusters, {n})
  /\ db'.nodes = Without(db.nodes, NodesIn(db, n))

NodeCreated(c, n) ==
  /\ pc[c] = "CreateNode"
  /\ n \in Clusters
  /\ db'.clusters = db.clusters
  /\ db'.nodes = Insert(db.nodes, c, [cluster |-> db.clusters[n].id,
                                      nodeID |-> request[c].nodeID,
                                      address |-> request[c].address])

NodesDeleted(c, n) ==
  /\ pc[c] = "DeleteNode"
  /\ NodesNamed(n, request[c].nodeID) # {}
  /\ db'.clusters = db.clusters
  /\ db'.nodes = Without(db.nodes, NodesNamed(n, request[c].nodeID))

Written(c) ==
  /\ Writes(c)
  /\ LET n == request[c].name IN
     ClusterCreated(c, n) \/ ClusterUpdated(c, n) \/ ClusterDeleted(c, n)
       \/ NodeCreated(c, n) \/ NodesDeleted(c, n)

\* A step leaves the tables alone, begins a transaction, goes back to what one
\* began with, or is one of the five writes, after which the visitor is done.
TableStep ==
  \/ db' = db /\ saved' = saved
  \/ db' = db /\ saved' = db /\ tx = "idle" /\ tx' = "open"
  \/ db' = saved /\ saved' = saved /\ tx # "idle" /\ tx' = "idle"
  \/ \E c \in Calls : Written(c)

\* Every visitor's statement writes in one of these ways, or not at all.
LEMMA VisitorWrites ==
  ASSUME TypeInv, NEW c \in Calls, Visitor(c)
  PROVE  (db' = db /\ saved' = saved /\ pc'[c] # "commit") \/ Written(c)
<1> USE DEF TypeInv, CallTypes, Writes, Executes, Tables, Database, Maps
<1>0. pc[c] \in {"CreateCluster", "UpdateCluster", "DeleteCluster", "CreateNode", "DeleteNode"}
        => request[c].op \in TxOps
  BY DEF OpAt, TxOps
<1>1. CASE CreateCluster(c)
  BY <1>0, <1>1 DEF CreateCluster, Succeed, Fail, Answer, BreakTx, Goto, Written, ClusterCreated
<1>2. CASE UpdateCluster(c)
  BY <1>0, <1>2 DEF UpdateCluster, Succeed, Fail, Answer, BreakTx, Goto, Written, ClusterUpdated
<1>3. CASE DeleteCluster(c)
  BY <1>0, <1>3 DEF DeleteCluster, Succeed, Fail, Answer, BreakTx, Goto, Written, ClusterDeleted
<1>4. CASE CreateNode(c)
  BY <1>0, <1>4 DEF CreateNode, Succeed, Fail, Answer, BreakTx, Goto, Written, NodeCreated
<1>5. CASE DeleteNode(c)
  <2> DEFINE found == NodesNamed(request[c].name, request[c].nodeID)
  <2>1. CASE found = {}
    <3>1. Without(db.nodes, found) = db.nodes
      BY <2>1 DEF Without, Database, Maps
    <3>2. db' = [db EXCEPT !.nodes = db.nodes] /\ saved' = saved
      BY <1>5, <3>1 DEF DeleteNode
    <3>3. db' = db
      BY <3>2 DEF Database, Maps
    <3>4. pc'[c] # "commit"
      BY <1>5, <2>1 DEF DeleteNode, Fail, Answer, Goto
    <3> QED
      BY <3>2, <3>3, <3>4
  <2>2. CASE found # {}
    BY <1>0, <1>5, <2>2 DEF DeleteNode, Succeed, Goto, Written, NodesDeleted
  <2> QED
    BY <2>1, <2>2
<1>6. CASE GetSession(c) \/ GetCluster(c) \/ GetClusters(c) \/ GetNodeByHostPort(c)
             \/ GetNodeByNodeID(c) \/ CheckErrs(c) \/ GetNodes(c)
  <2>1. db' = db /\ saved' = saved
    BY <1>6 DEF GetSession, GetCluster, GetClusters, GetNodeByHostPort, GetNodeByNodeID,
                CheckErrs, GetNodes
  <2>2. pc'[c] # "commit"
    <3> USE DEF OpAt, TxOps, Goto, Continue, Succeed, Fail, Answer
    <3>1. CASE GetSession(c)
      BY <3>1 DEF GetSession, AfterSession
    <3>2. CASE GetCluster(c)
      BY <3>2 DEF GetCluster, AfterCluster
    <3>3. CASE GetClusters(c) \/ GetNodeByHostPort(c) \/ GetNodeByNodeID(c) \/ CheckErrs(c)
                 \/ GetNodes(c)
      BY <3>3 DEF GetClusters, GetNodeByHostPort, GetNodeByNodeID, CheckErrs, GetNodes
    <3> QED
      BY <1>6, <3>1, <3>2, <3>3
  <2> QED
    BY <2>1, <2>2
<1> QED
  BY <1>1, <1>2, <1>3, <1>4, <1>5, <1>6 DEF Visitor

\* Every step does one of these things to the tables.
LEMMA TableSteps ==
  ASSUME TypeInv, [Next]_vars
  PROVE  TableStep
<1> USE DEF TableStep
<1>0. tx \in {"idle", "open", "failed"}
  BY DEF TypeInv, CallTypes
<1>1. ASSUME NEW c \in Calls, Visits(c) PROVE TableStep
  BY <1>0, <1>1 DEF Visits, Begin, Commit, Rollback, StatementRefused, TxRefused, Committed, Close
<1>2. ASSUME NEW c \in Calls, Lost(c, db) PROVE TableStep
  BY <1>0, <1>2 DEF Lost, Committed
<1>3. ASSUME NEW c \in Calls, Visitor(c) PROVE TableStep
  BY <1>3, VisitorWrites
<1>4. ASSUME NEW c \in Calls, Arrive(c, Requests) PROVE TableStep
  BY <1>4 DEF Arrive
<1>5. CASE UNCHANGED vars
  BY <1>5 DEF vars
<1> QED
  BY <1>1, <1>2, <1>3, <1>4, <1>5, Steps
-----------------------------------------------------------------------------
(* Types, also when requests overlap.                                      *)

\* Before any request has come in.
LEMMA InitTypes == Init => TypeInv
<1> SUFFICES ASSUME Init PROVE TypeInv
  OBVIOUS
<1>1. CallTypes
  BY DEF Init, InitCalls, CallTypes, OpAt, TxSteps
<1>2. PICK known \in SUBSET Names, used \in SUBSET SeedNodes :
        \E node \in [used -> [cluster : known, nodeID : NodeIDs, address : Addresses]] :
          db = [clusters |-> [n \in known |-> [id |-> n, description |-> Nothing,
                                               password |-> Nothing]],
                nodes |-> node]
  BY DEF Init
<1>2a. PICK node \in [used -> [cluster : known, nodeID : NodeIDs, address : Addresses]] :
        db = [clusters |-> [n \in known |-> [id |-> n, description |-> Nothing,
                                             password |-> Nothing]],
              nodes |-> node]
  BY <1>2
<1>3. /\ Maps(db) /\ DOMAIN db = Tables /\ Maps(db.nodes)
      /\ DOMAIN db.clusters = known /\ DOMAIN db.nodes = used
      /\ \A n \in known : db.clusters[n] = [id |-> n, description |-> Nothing, password |-> Nothing]
      /\ \A k \in used : db.nodes[k] \in [cluster : known, nodeID : NodeIDs, address : Addresses]
  BY <1>2a DEF Maps, Tables
<1>4. \A n \in known : db.clusters[n] \in ClusterRow
  <2>1. \A n \in Names : [id |-> n, description |-> Nothing, password |-> Nothing] \in ClusterRow
    BY DEF ClusterRow, ClusterIDs
  <2> QED
    BY <1>3, <2>1
<1>5. \A k \in used : /\ db.nodes[k] \in NodeRow
                       /\ db.nodes[k].cluster \in known
                       /\ k \in NodesIn(db, db.nodes[k].cluster)
  <2> SUFFICES ASSUME NEW k \in used
               PROVE  /\ db.nodes[k] \in NodeRow
                      /\ db.nodes[k].cluster \in known
                      /\ k \in NodesIn(db, db.nodes[k].cluster)
    OBVIOUS
  <2>1. db.nodes[k] \in [cluster : known, nodeID : NodeIDs, address : Addresses]
    BY <1>3
  <2>2. \A m \in known : m \in ClusterIDs
    BY DEF ClusterIDs
  <2>3. db.nodes[k] \in NodeRow
    BY <2>1, <2>2 DEF NodeRow
  <2>4. db.nodes[k].cluster \in known
    BY <2>1
  <2>5. \A m \in known : db.clusters[m].id = m
    <3> SUFFICES ASSUME NEW m \in known PROVE db.clusters[m].id = m
      OBVIOUS
    <3>1. db.clusters[m] = [id |-> m, description |-> Nothing, password |-> Nothing]
      BY <1>3
    <3> QED
      BY <3>1
  <2>6. DOMAIN db.clusters = known /\ DOMAIN db.nodes = used
    BY <1>3
  <2> QED
    BY <2>3, <2>4, <2>5, <2>6 DEF NodesIn
<1>6. Database(db)
  BY <1>3, <1>4, <1>5 DEF Database, TablesOK
<1> QED
  BY <1>1, <1>6 DEF TypeInv, Init

\* The row UpdateCluster writes is one, with the id of the row it replaces.
LEMMA UpdatedRows ==
  ASSUME NEW c \in Calls, row[c] \in ClusterRow, Unnamed \in Clusters,
         db.clusters[Unnamed] \in ClusterRow
  PROVE  UpdatedRow(c) \in ClusterRow /\ UpdatedRow(c).id = db.clusters[Unnamed].id
BY DEF UpdatedRow, ClusterRow

\* Every node belongs to a cluster that exists after a write, too: DeleteCluster
\* takes its nodes with it, and UpdateCluster keeps the cluster's id.
LEMMA WrittenTypes ==
  ASSUME TypeInv, NEW c \in Calls, Written(c)
  PROVE  Database(db')
<1> DEFINE n == request[c].name
<1>0. /\ Database(db) /\ Maps(db.nodes) /\ OpAt(c)
      /\ Maps(db') /\ DOMAIN db' = Tables
  BY DEF TypeInv, CallTypes, Database, Written, Writes
<1>1. /\ DOMAIN db.clusters \subseteq Names
      /\ \A m \in DOMAIN db.clusters : db.clusters[m] \in ClusterRow
      /\ DOMAIN db.nodes \subseteq Calls \cup SeedNodes
      /\ \A k \in DOMAIN db.nodes : db.nodes[k] \in NodeRow
      /\ \A k \in DOMAIN db.nodes : \E m \in DOMAIN db.clusters :
           db.nodes[k].cluster = db.clusters[m].id
  BY <1>0 DEF Database, TablesOK, NodesIn
<1>2. ASSUME /\ DOMAIN db'.clusters \subseteq Names
             /\ \A m \in DOMAIN db'.clusters : db'.clusters[m] \in ClusterRow
             /\ Maps(db'.nodes)
             /\ DOMAIN db'.nodes \subseteq Calls \cup SeedNodes
             /\ \A k \in DOMAIN db'.nodes : db'.nodes[k] \in NodeRow
             /\ \A k \in DOMAIN db'.nodes : \E m \in DOMAIN db'.clusters :
                  db'.nodes[k].cluster = db'.clusters[m].id
      PROVE  Database(db')
  BY <1>0, <1>2 DEF Database, TablesOK, NodesIn
<1>3. n \in Names \/ pc[c] = "idle"
  BY <1>0, RequestOps DEF OpAt
<1>4. CASE ClusterCreated(c, n)
  <2>1. [id |-> c, description |-> Nothing, password |-> Nothing] \in ClusterRow
    BY DEF ClusterRow, ClusterIDs
  <2>2. n \in Names
    BY <1>3, <1>4 DEF ClusterCreated
  <2> QED
    BY <1>0, <1>1, <1>2, <1>4, <2>1, <2>2 DEF ClusterCreated, Insert, Clusters
<1>5. CASE ClusterUpdated(c, n)
  <2>1. UpdatedRow(c) \in ClusterRow /\ UpdatedRow(c).id = db.clusters[Unnamed].id
    BY <1>0, <1>1, <1>5, UpdatedRows DEF ClusterUpdated, OpAt, Clusters
  <2>2. n \in Names
    BY <1>3, <1>5 DEF ClusterUpdated
  <2>3. /\ DOMAIN db'.clusters = (Clusters \ {Unnamed}) \cup {n}
        /\ db'.clusters[n] = UpdatedRow(c)
        /\ \A m \in Clusters \ {Unnamed} : db'.clusters[m] = db.clusters[m]
        /\ db'.nodes = db.nodes
    BY <1>5 DEF ClusterUpdated, Insert, Without, Clusters
  <2> QED
    BY <1>0, <1>1, <1>2, <2>1, <2>2, <2>3 DEF Clusters
<1>6. CASE ClusterDeleted(c, n)
  BY <1>0, <1>1, <1>2, <1>6 DEF ClusterDeleted, Without, Clusters, NodesIn, Maps
<1>7. CASE NodeCreated(c, n)
  <2>1. /\ request[c].nodeID \in NodeIDs /\ request[c].address \in Addresses
        /\ db.clusters[n].id \in ClusterIDs
    BY <1>0, <1>1, <1>7, RequestOps DEF NodeCreated, OpAt, Clusters, ClusterRow
  <2>2. [cluster |-> db.clusters[n].id, nodeID |-> request[c].nodeID,
         address |-> request[c].address] \in NodeRow
    BY <2>1 DEF NodeRow
  <2> QED
    BY <1>0, <1>1, <1>2, <1>7, <2>2 DEF NodeCreated, Insert, Clusters, Maps
<1>8. CASE NodesDeleted(c, n)
  BY <1>0, <1>1, <1>2, <1>8 DEF NodesDeleted, Without, Maps
<1> QED
  BY <1>4, <1>5, <1>6, <1>7, <1>8 DEF Written

\* A visitor's statement keeps the types of what belongs to the calls, and goes
\* on to a statement of the same operation.
LEMMA VisitorTypes ==
  ASSUME TypeInv, NEW c \in Calls, Visitor(c)
  PROVE  CallTypes'
<1>0. CallTypes /\ \A m \in Clusters : db.clusters[m] \in ClusterRow
  BY DEF TypeInv, Database, TablesOK, Clusters
<1> USE <1>0 DEF CallTypes, OpAt, Executes, Answer, Continue, Succeed, Fail, Goto, BreakTx,
                 TxSteps, TxOps, Statements
<1>1. CASE GetSession(c)
  <2>1. request[c].op \in {"CreateCluster", "GetCluster", "GetClusters", "DeleteCluster",
                           "UpdateCluster", "CreateNode", "GetNode", "DeleteNode", "GetNodes"}
    <3>1. request[c] \in Requests
      BY <1>1 DEF GetSession
    <3> QED
      BY <3>1, RequestOps
  <2>2. LET s == AfterSession(request[c].op) IN
        \/ s \in {"CreateCluster", "DeleteCluster", "GetClusters"} /\ s = request[c].op
        \/ s = "GetNodeByNodeID" /\ request[c].op = "GetNode"
        \/ /\ s = "GetCluster"
           /\ request[c].op \in {"GetCluster", "UpdateCluster", "CreateNode", "GetNodes", "DeleteNode"}
    BY <2>1 DEF AfterSession
  <2> QED
    BY <1>1, <2>2 DEF GetSession
<1>2. CASE CreateCluster(c)
  BY <1>2 DEF CreateCluster
<1>3. CASE GetCluster(c)
  <2> DEFINE op == request[c].op
  <2>1. op \in {"UpdateCluster", "CreateNode", "GetNodes", "DeleteNode"} =>
          AfterCluster(op) = CASE op = "CreateNode" -> "GetNodeByHostPort"
                               [] op = "DeleteNode" -> "GetNodeByNodeID"
                               [] OTHER -> op
    BY DEF AfterCluster
  <2> QED
    BY <1>3, <2>1 DEF GetCluster
<1>4. CASE GetClusters(c)
  BY <1>4 DEF GetClusters
<1>5. CASE UpdateCluster(c)
  BY <1>5 DEF UpdateCluster
<1>6. CASE DeleteCluster(c)
  BY <1>6 DEF DeleteCluster
<1>7. CASE GetNodeByHostPort(c)
  BY <1>7 DEF GetNodeByHostPort
<1>8. CASE GetNodeByNodeID(c)
  BY <1>8 DEF GetNodeByNodeID
<1>9. CASE CheckErrs(c)
  BY <1>9 DEF CheckErrs
<1>10. CASE CreateNode(c)
  BY <1>10 DEF CreateNode
<1>11. CASE GetNodes(c)
  BY <1>11 DEF GetNodes
<1>12. CASE DeleteNode(c)
  BY <1>12 DEF DeleteNode
<1> QED
  BY <1>1, <1>2, <1>3, <1>4, <1>5, <1>6, <1>7, <1>8, <1>9, <1>10, <1>11, <1>12 DEF Visitor

\* Every step keeps the types of what belongs to the calls.
LEMMA NextCallTypes ==
  ASSUME TypeInv, [Next]_vars
  PROVE  CallTypes'
<1>0. CallTypes
  BY DEF TypeInv
<1>1. ASSUME NEW c \in Calls, Arrive(c, Requests) PROVE CallTypes'
  <2>1. PICK r \in Requests : /\ request' = [request EXCEPT ![c] = r]
                              /\ Goto(c, IF r.op \in TxOps THEN "begin" ELSE FirstStatement(r.op))
    BY <1>1 DEF Arrive
  <2>2. FirstStatement(r.op) = "GetSession"
    BY RequestOps DEF FirstStatement
  <2>3. /\ request' \in [Calls -> Requests \cup {Nothing}]
        /\ pc' \in [Calls -> Statements \cup {"idle", "begin", "commit", "rollback", "answered"}]
    BY <1>0, <2>1, <2>2 DEF Goto, CallTypes, Statements
  <2>4. \A d \in Calls : OpAt(d)'
    BY <1>0, <1>1, <2>1, <2>2 DEF Goto, CallTypes, OpAt, Arrive, TxSteps
  <2> QED
    BY <1>0, <1>1, <2>3, <2>4 DEF CallTypes, Arrive
<1>2. ASSUME NEW c \in Calls, Visits(c) PROVE CallTypes'
  <2> USE <1>0 DEF CallTypes
  <2>1. CASE Begin(c)
    <3>1. request[c] \in Requests
      BY <2>1 DEF Begin, OpAt
    <3>2. FirstStatement(request[c].op) = "GetSession"
      BY <3>1, RequestOps DEF FirstStatement
    <3> QED
      BY <2>1, <3>1, <3>2 DEF Begin, Goto, OpAt, Statements, TxSteps
  <2>2. CASE Commit(c)
    BY <2>2 DEF Commit, Answer, Goto, OpAt, TxSteps
  <2>3. CASE Rollback(c)
    BY <2>3 DEF Rollback, Answer, Goto, OpAt, TxSteps
  <2>4. CASE StatementRefused(c)
    BY <2>4 DEF StatementRefused, Quiet, Fail, Answer, Goto, OpAt, TxSteps
  <2>5. CASE TxRefused(c)
    BY <2>5 DEF TxRefused, Close, Answer, Goto, OpAt, TxSteps
  <2> QED
    BY <1>2, <2>1, <2>2, <2>3, <2>4, <2>5 DEF Visits
<1>3. ASSUME NEW c \in Calls, Lost(c, db) PROVE CallTypes'
  BY <1>0, <1>3 DEF Lost, callVars, CallTypes, OpAt
<1>4. CASE UNCHANGED vars
  BY <1>0, <1>4 DEF vars, callVars, CallTypes, OpAt
<1> QED
  BY <1>1, <1>2, <1>3, <1>4, VisitorTypes, Steps

\* Every step keeps every type.
LEMMA NextTypes == ASSUME TypeInv, [Next]_vars PROVE TypeInv'
<1>1. Database(db') /\ Database(saved')
  BY TableSteps, WrittenTypes DEF TypeInv, TableStep, Written, Writes
<1> QED
  BY <1>1, NextCallTypes DEF TypeInv, Database, TablesOK, NodesIn

\* The handlers of the clusters and nodes keep the types of their tables, and
\* every node in a cluster that exists, however requests overlap.
THEOREM ClustersTypeOK == Spec => []TypeOK
<1>1. TypeInv => TypeOK
  BY DEF TypeInv, CallTypes, Database, TypeOK
<1> QED
  BY <1>1, InitTypes, NextTypes, PTL DEF Spec
-----------------------------------------------------------------------------
(* The listings.                                                           *)

\* The least of some numbers.
LEMMA Least ==
  ASSUME NEW t, t \subseteq Nat, t # {}
  PROVE  \E n \in t : \A m \in t : n <= m
<1> DEFINE r == OpToRel(<, Nat)
<1>1. PICK n \in t : \A m \in t : ~(<<m, n>> \in r)
  <2> HIDE DEF r
  <2>1. IsWellFoundedOn(r, Nat)
    BY NatLessThanWellFounded DEF r
  <2> QED
    BY <2>1, WFMin
<1>2. \A m \in t : ~(m < n) /\ m \in Nat /\ n \in Nat
  BY <1>1 DEF OpToRel
<1> QED
  BY <1>2

\* The greatest of finitely many.
LEMMA Greatest ==
  ASSUME NEW s, s \subseteq Nat, IsFiniteSet(s), s # {}
  PROVE  \E n \in s : \A m \in s : m <= n
<1> DEFINE above(x) == {y \in s : y > x}
<1>1. \A x \in s : above(x) \subseteq s /\ IsFiniteSet(above(x)) /\ Cardinality(above(x)) \in Nat
  <2>1. ASSUME NEW x \in s PROVE IsFiniteSet(above(x)) /\ Cardinality(above(x)) \in Nat
    BY FS_Subset, FS_CardinalityType
  <2> QED
    BY <2>1
<1> DEFINE sizes == {Cardinality(above(x)) : x \in s}
<1>2. PICK size \in sizes : \A other \in sizes : size <= other
  <2>1. sizes \subseteq Nat /\ sizes # {}
    BY <1>1
  <2> HIDE DEF sizes
  <2> QED
    BY <2>1, Least
<1>3. PICK n \in s : size = Cardinality(above(n))
  OBVIOUS
<1>4. ASSUME NEW m \in s, m > n PROVE FALSE
  <2>1. m \in Nat /\ n \in Nat
    OBVIOUS
  <2>2. above(m) \subseteq above(n)
    <3>1. \A y \in s : y > m => y > n
      <4>1. ASSUME NEW y \in s, y > m PROVE y > n
        <5>1. y \in Nat
          OBVIOUS
        <5> QED
          BY <1>4, <2>1, <4>1, <5>1
      <4> QED
        BY <4>1
    <3> QED
      BY <3>1
  <2>3. m \in above(n) /\ m \notin above(m)
    BY <1>4, <2>1
  <2>4. Cardinality(above(n)) <= Cardinality(above(m))
    BY <1>2, <1>3
  <2> HIDE DEF above
  <2>5. /\ Cardinality(above(m)) <= Cardinality(above(n))
        /\ Cardinality(above(m)) = Cardinality(above(n)) => above(m) = above(n)
    BY <1>1, <2>2, FS_Subset
  <2>6. Cardinality(above(m)) \in Nat /\ Cardinality(above(n)) \in Nat
    BY <1>1
  <2> QED
    BY <2>3, <2>4, <2>5, <2>6
<1>5. \A m \in s : m \in Nat /\ n \in Nat /\ ~(m > n)
  BY <1>4
<1> QED
  BY <1>5

\* Finitely many rows have finitely many keys.
LEMMA FiniteKeys ==
  ASSUME NEW rows, IsFiniteSet(rows), NEW key
  PROVE  IsFiniteSet({key[k] : k \in rows})
<1> DEFINE keys == {key[k] : k \in rows}
           f == [k \in rows |-> key[k]]
<1>1. f \in Surjection(rows, keys)
  BY DEF Surjection
<1> HIDE DEF keys, f
<1>2. IsFiniteSet(keys)
  BY <1>1, FS_Surjection
<1> QED
  BY <1>2 DEF keys

\* Of finitely many rows there are any number with the lowest keys.
LEMMA LowestRows ==
  ASSUME NEW rows, IsFiniteSet(rows), NEW key, \A k \in rows : key[k] \in Nat,
         NEW n \in 0..Cardinality(rows)
  PROVE  \E p \in SUBSET rows : /\ Cardinality(p) = n
                                /\ \A k \in p, l \in rows \ p : key[k] <= key[l]
<1> DEFINE Lowest(p, m) == /\ p \in SUBSET rows /\ Cardinality(p) = m
                           /\ \A k \in p, l \in rows \ p : key[k] <= key[l]
           not == {m \in 0..Cardinality(rows) : ~\E p : Lowest(p, m)}
<1>1. Cardinality(rows) \in Nat
  BY FS_CardinalityType
<1>2. SUFFICES ASSUME not # {} PROVE FALSE
  <2>1. n \notin not
    BY <1>2
  <2> QED
    BY <2>1
<1>3. PICK m \in not : \A other \in not : m <= other
  <2>1. not \subseteq Nat
    BY <1>1
  <2> HIDE DEF not
  <2> QED
    BY <1>2, <2>1, Least
<1>4. m # 0
  <2>1. Lowest({}, 0)
    BY FS_EmptySet
  <2> HIDE DEF Lowest
  <2> QED
    BY <2>1
<1>5. PICK p : Lowest(p, m - 1)
  <2>1. m - 1 \in 0..Cardinality(rows) /\ ~(m <= m - 1)
    BY <1>1, <1>4
  <2>2. m - 1 \notin not
    BY <1>3, <2>1
  <2> HIDE DEF Lowest
  <2> QED
    BY <2>1, <2>2
<1>6. IsFiniteSet(p) /\ rows \ p # {}
  <2>1. IsFiniteSet(p)
    BY <1>5, FS_Subset
  <2>2. p # rows
    BY <1>1, <1>5
  <2> QED
    BY <1>5, <2>1, <2>2
<1>7. PICK l \in rows \ p : \A other \in rows \ p : key[l] <= key[other]
  <2> DEFINE left == {key[k] : k \in rows \ p}
  <2>1. left \subseteq Nat /\ left # {}
    BY <1>6
  <2>2. PICK v \in left : \A other \in left : v <= other
    <3> HIDE DEF left
    <3> QED
      BY <2>1, Least
  <2> QED
    BY <2>2
<1>8. Cardinality(p \cup {l}) = m
  <2>1. Cardinality(p \cup {l}) = Cardinality(p) + 1
    BY <1>6, <1>7, FS_AddElement
  <2> QED
    BY <1>1, <1>5, <2>1
<1>9. Lowest(p \cup {l}, m)
  BY <1>5, <1>7, <1>8
<1> HIDE DEF Lowest
<1> QED
  BY <1>9

\* The keys beyond the cursor.
Beyond(key, cursor) == {v \in Range(key) : cursor = Unnamed \/ v > cursor}

\* Every listing has an answer.
LEMMA SomePage ==
  ASSUME NEW keys, IsFiniteSet(keys), NEW key \in [keys -> Nat], NEW cursor
  PROVE  Pages(keys, key, cursor) # {}
<1> DEFINE rest == {k \in keys : cursor = Unnamed \/ key[k] > cursor}
<1>1. IsFiniteSet(rest) /\ Cardinality(rest) \in Nat /\ rest \subseteq keys
  BY FS_Subset, FS_CardinalityType
<1>2. PageSize \in Nat
  BY RestClustersAssumption
<1>3. CASE Cardinality(rest) < PageSize
  <2>1. rest \in Pages(keys, key, cursor)
    BY <1>3 DEF Pages
  <2> QED
    BY <2>1
<1>4. CASE ~(Cardinality(rest) < PageSize)
  <2>1. PageSize \in 0..Cardinality(rest)
    BY <1>1, <1>2, <1>4
  <2>2. \A k \in rest : key[k] \in Nat
    OBVIOUS
  <2>3. PICK p \in SUBSET rest : /\ Cardinality(p) = PageSize
                                 /\ \A k \in p, l \in rest \ p : key[k] <= key[l]
    <3> HIDE DEF rest
    <3> QED
      BY <1>1, <2>1, <2>2, LowestRows
  <2>4. p \in Pages(keys, key, cursor)
    BY <2>3 DEF Pages
  <2> QED
    BY <2>4
<1> QED
  BY <1>3, <1>4

\* A page shows all there is beyond the cursor, or it is full, and then all that is
\* beyond its last key is what it does not show.
LEMMA OnePage ==
  ASSUME NEW keys, IsFiniteSet(keys), NEW key \in [keys -> Nat],
         Cardinality({k \in keys : key[k] = Unnamed}) < PageSize,
         NEW cursor \in Nat, NEW p \in Pages(keys, key, cursor),
         NEW shown, shown = {key[k] : k \in p}
  PROVE  \/ Cardinality(p) < PageSize /\ shown = Beyond(key, cursor)
         \/ /\ ~(Cardinality(p) < PageSize)
            /\ Largest(shown) \in Range(key) /\ Largest(shown) # Unnamed
            /\ Largest(shown) > cursor
            /\ shown \cup Beyond(key, Largest(shown)) = Beyond(key, cursor)
<1> DEFINE rest == {k \in keys : cursor = Unnamed \/ key[k] > cursor}
<1>1. /\ p \subseteq rest /\ rest \subseteq keys
      /\ Cardinality(p) = PageSize \/ (Cardinality(p) < PageSize /\ p = rest)
      /\ \A k \in p, l \in rest \ p : key[k] <= key[l]
  BY DEF Pages
<1>2. PageSize \in Nat \ {0, 1}
  BY RestClustersAssumption
<1>3. Beyond(key, cursor) = {key[k] : k \in rest}
  BY DEF Beyond, Range
<1>4. CASE Cardinality(p) < PageSize
  BY <1>1, <1>2, <1>3, <1>4
<1>5. CASE ~(Cardinality(p) < PageSize)
  <2>0. Cardinality(p) = PageSize
    BY <1>1, <1>5
  <2>1. IsFiniteSet(p) /\ shown \subseteq Nat /\ shown \subseteq Range(key)
    <3>1. IsFiniteSet(p)
      BY <1>1, FS_Subset
    <3> QED
      BY <1>1, <3>1 DEF Range
  <2>2. PICK k1 \in p : TRUE
    <3>1. p # {}
      BY <1>2, <2>0, FS_EmptySet
    <3> QED
      BY <3>1
  <2>3. IsFiniteSet(shown)
    <3>1. IsFiniteSet({key[k] : k \in p})
      BY <2>1, FiniteKeys
    <3> QED
      BY <3>1
  <2>4. Largest(shown) \in shown /\ \A v \in shown : v <= Largest(shown)
    <3>1. shown # {}
      BY <2>2
    <3>2. \E n \in shown : \A m \in shown : m <= n
      BY <2>1, <2>3, <3>1, Greatest
    <3> QED
      BY <3>2 DEF Largest
  <2>5. PICK last \in shown : last = Largest(shown) /\ \A v \in shown : v <= last
    BY <2>4
  <2>6. last \in Nat /\ last \in Range(key)
    BY <2>1
  <2>7. last # Unnamed
    <3> SUFFICES ASSUME last = Unnamed PROVE FALSE
      OBVIOUS
    <3> DEFINE without == {k \in keys : key[k] = Unnamed}
    <3>1. ASSUME NEW k \in p PROVE k \in without
      <4>1. key[k] <= last /\ key[k] \in Nat /\ k \in keys
        BY <1>1, <2>5
      <4> QED
        BY <4>1 DEF Unnamed
    <3>2. p \in SUBSET without /\ without \in SUBSET keys
      BY <3>1
    <3>3. Cardinality(without) < PageSize
      OBVIOUS
    <3> HIDE DEF without
    <3>4. IsFiniteSet(without) /\ Cardinality(without) \in Nat
      BY <3>2, FS_Subset, FS_CardinalityType
    <3>5. Cardinality(p) <= Cardinality(without)
      BY <3>2, <3>4, FS_Subset
    <3> QED
      BY <1>2, <2>0, <3>3, <3>4, <3>5
  <2>8. last > cursor
    <3>1. PICK k \in rest : last = key[k]
      BY <1>1
    <3> QED
      BY <2>6, <2>7, <3>1 DEF Unnamed
  <2>9. shown \cup Beyond(key, last) \subseteq Beyond(key, cursor)
    <3>1. shown \subseteq Beyond(key, cursor)
      BY <1>1, <1>3
    <3>2. ASSUME NEW v \in Beyond(key, last) PROVE v \in Beyond(key, cursor)
      <4>1. v \in Range(key) /\ v > last /\ v \in Nat
        BY <2>7 DEF Beyond, Range
      <4>2. v > cursor
        BY <2>6, <2>8, <4>1
      <4> QED
        BY <4>1, <4>2 DEF Beyond
    <3> QED
      BY <3>1, <3>2
  <2>10. Beyond(key, cursor) \subseteq shown \cup Beyond(key, last)
    <3>1. ASSUME NEW l \in rest, key[l] \notin shown PROVE key[l] \in Beyond(key, last)
      <4>1. l \in rest \ p
        BY <3>1
      <4>2. PICK k \in p : last = key[k]
        OBVIOUS
      <4>3. last <= key[l] /\ key[l] # last
        BY <1>1, <3>1, <4>1, <4>2
      <4>4. key[l] \in Nat /\ key[l] \in Range(key)
        BY DEF Range
      <4> QED
        BY <2>6, <4>3, <4>4 DEF Beyond
    <3> QED
      BY <1>3, <3>1
  <2> QED
    BY <1>5, <2>5, <2>6, <2>7, <2>8, <2>9, <2>10
<1> QED
  BY <1>4, <1>5

\* Who asks for page after page until one is not full has seen every key.
LEMMA AllListed ==
  ASSUME NEW keys, IsFiniteSet(keys), NEW key \in [keys -> Nat],
         Cardinality({k \in keys : key[k] = Unnamed}) < PageSize,
         NEW pages, \A cursor \in {Unnamed} \cup Range(key) :
                      pages[cursor] = Pages(keys, key, cursor)
  PROVE  Listed(pages, key) = Range(key)
<1> DEFINE cursors == {Unnamed} \cup Range(key)
           Shows(f, p) ==
             LET shown == {key[k] : k \in p} IN
             IF Cardinality(p) < PageSize \/ Largest(shown) = Unnamed THEN shown
             ELSE shown \cup f[Largest(shown)]
           Sees(f, cursor) == UNION {Shows(f, p) : p \in pages[cursor]}
<1>1. cursors \subseteq Nat /\ IsFiniteSet(cursors)
  <2>1. IsFiniteSet({key[k] : k \in keys})
    BY FiniteKeys
  <2>2. Range(key) = {key[k] : k \in keys}
    BY DEF Range
  <2>3. IsFiniteSet(Range(key) \cup {Unnamed})
    BY <2>1, <2>2, FS_AddElement
  <2>4. cursors = Range(key) \cup {Unnamed}
    OBVIOUS
  <2> QED
    BY <2>2, <2>3, <2>4 DEF Unnamed
<1>2. ASSUME NEW f, NEW cursor \in cursors,
             \A later \in cursors : later > cursor => f[later] = Beyond(key, later)
      PROVE  Sees(f, cursor) = Beyond(key, cursor)
  <2>1. ASSUME NEW p \in pages[cursor] PROVE Shows(f, p) = Beyond(key, cursor)
    <3>1. PICK shown : shown = {key[k] : k \in p}
      OBVIOUS
    <3>2. p \in Pages(keys, key, cursor) /\ cursor \in Nat
      BY <1>1, <2>1
    <3>3. \/ Cardinality(p) < PageSize /\ shown = Beyond(key, cursor)
          \/ /\ ~(Cardinality(p) < PageSize)
             /\ Largest(shown) \in Range(key) /\ Largest(shown) # Unnamed
             /\ Largest(shown) > cursor
             /\ shown \cup Beyond(key, Largest(shown)) = Beyond(key, cursor)
      BY <3>1, <3>2, OnePage
    <3>4. Largest(shown) \in Range(key) /\ Largest(shown) > cursor
            => f[Largest(shown)] = Beyond(key, Largest(shown))
      BY <1>2
    <3>5. Shows(f, p) = IF Cardinality(p) < PageSize \/ Largest(shown) = Unnamed THEN shown
                        ELSE shown \cup f[Largest(shown)]
      BY <3>1
    <3> QED
      BY <3>3, <3>4, <3>5
  <2>2. pages[cursor] # {}
    BY <1>1, <1>2, SomePage
  <2> HIDE DEF Shows
  <2> QED
    BY <2>1, <2>2
<1> HIDE DEF cursors, Sees
<1> DEFINE Seen(f) == f = [cursor \in cursors |-> Sees(f, cursor)]
<1>3. \E f : Seen(f)
  <2> DEFINE f == [cursor \in cursors |-> Beyond(key, cursor)]
  <2>1. \A cursor \in cursors : f[cursor] = Beyond(key, cursor)
    OBVIOUS
  <2>2. DOMAIN f = cursors /\ f = [cursor \in cursors |-> f[cursor]]
    OBVIOUS
  <2> HIDE DEF f
  <2>3. \A cursor \in cursors : Sees(f, cursor) = f[cursor]
    BY <1>2, <2>1
  <2>4. Seen(f)
    BY <2>2, <2>3
  <2> QED
    BY <2>4
<1> DEFINE seen == CHOOSE f : Seen(f)
<1>4. Seen(seen)
  BY <1>3
<1>5. Listed(pages, key) = seen[Unnamed]
  BY DEF Listed, Sees, cursors
<1> HIDE DEF seen
<1>6. \A cursor \in cursors : seen[cursor] = Sees(seen, cursor)
  BY <1>4
<1>7. \A cursor \in cursors : seen[cursor] = Beyond(key, cursor)
  <2> DEFINE wrong == {cursor \in cursors : seen[cursor] # Beyond(key, cursor)}
  <2>1. SUFFICES ASSUME wrong # {} PROVE FALSE
    OBVIOUS
  <2>2. PICK cursor \in wrong : \A other \in wrong : other <= cursor
    <3>1. wrong \subseteq cursors
      OBVIOUS
    <3>2. wrong \subseteq Nat /\ IsFiniteSet(wrong)
      <4> HIDE DEF wrong
      <4> QED
        BY <1>1, <3>1, FS_Subset
    <3> HIDE DEF wrong
    <3> QED
      BY <2>1, <3>2, Greatest
  <2>3. ASSUME NEW later \in cursors, later > cursor PROVE seen[later] = Beyond(key, later)
    <3>1. later \in Nat /\ cursor \in Nat /\ ~(later <= cursor)
      BY <1>1, <2>3
    <3> QED
      BY <2>2, <3>1
  <2>4. Sees(seen, cursor) = Beyond(key, cursor)
    BY <1>2, <2>3
  <2> QED
    BY <1>6, <2>4
<1>8. Beyond(key, Unnamed) = Range(key) /\ Unnamed \in cursors
  BY DEF Beyond, cursors
<1> QED
  BY <1>5, <1>7, <1>8

\* The tables are finite.
Finite(t) == IsFiniteSet(DOMAIN t.clusters) /\ IsFiniteSet(DOMAIN t.nodes)

\* They are at the start.
LEMMA InitFinite == Init => Finite(db) /\ Finite(saved)
<1> SUFFICES ASSUME Init PROVE Finite(db) /\ saved = db
  OBVIOUS
<1>1. PICK known \in SUBSET Names, used \in SUBSET SeedNodes :
        /\ IsFiniteSet(known) /\ IsFiniteSet(used)
        /\ \E node \in [used -> [cluster : known, nodeID : NodeIDs, address : Addresses]] :
             db = [clusters |-> [n \in known |-> [id |-> n, description |-> Nothing,
                                                  password |-> Nothing]],
                   nodes |-> node]
  BY DEF Init
<1>2. DOMAIN db.clusters = known /\ DOMAIN db.nodes = used
  BY <1>1
<1> QED
  BY <1>1, <1>2 DEF Init, Finite

\* A statement adds a row to a table at most.
LEMMA NextFinite ==
  ASSUME TypeInv, Finite(db), Finite(saved), [Next]_vars
  PROVE  Finite(db') /\ Finite(saved')
<1>1. ASSUME NEW c \in Calls, Written(c) PROVE Finite(db') /\ saved' = saved
  <2> DEFINE n == request[c].name
  <2>1. /\ \/ DOMAIN db'.clusters \subseteq Clusters
           \/ DOMAIN db'.clusters \subseteq Clusters \cup {n}
        /\ \/ DOMAIN db'.nodes \subseteq DOMAIN db.nodes
           \/ DOMAIN db'.nodes \subseteq DOMAIN db.nodes \cup {c}
        /\ saved' = saved
    BY <1>1 DEF Written, Writes, ClusterCreated, ClusterUpdated, ClusterDeleted, NodeCreated,
                NodesDeleted, Insert, Without, Clusters
  <2>2. /\ IsFiniteSet(Clusters) /\ IsFiniteSet(Clusters \cup {n})
        /\ IsFiniteSet(DOMAIN db.nodes) /\ IsFiniteSet(DOMAIN db.nodes \cup {c})
    BY FS_AddElement DEF Finite, Clusters
  <2> HIDE DEF n
  <2> QED
    BY <2>1, <2>2, FS_Subset DEF Finite
<1> QED
  BY <1>1, TableSteps DEF TableStep

\* Who lists page after page sees every cluster, and every node id of a cluster in
\* which the nodes without an id do not fill a page, however many there are and
\* whatever order rows with equal keys come in.
THEOREM PagesShowAll == Spec => []PagesComplete
<1>1. ASSUME TypeInv, Finite(db) PROVE PagesComplete
  <2>1. /\ Clusters \subseteq Nat /\ IsFiniteSet(Clusters)
        /\ \A k \in DOMAIN db.nodes : db.nodes[k].nodeID \in Nat
    BY <1>1, RestClustersAssumption
       DEF TypeInv, Database, TablesOK, Clusters, Finite, NodeRow
  <2>2. ASSUME NEW byName, byName = [cursor \in {Unnamed} \cup Clusters |-> ClusterPages(db, cursor)]
        PROVE  Listed(byName, [n \in Clusters |-> n]) = Clusters
    <3>1. PICK key \in [Clusters -> Nat] : key = [n \in Clusters |-> n]
      BY <2>1
    <3>2. Range(key) = Clusters /\ \A k, l \in Clusters : key[k] = key[l] => k = l
      BY <3>1 DEF Range
    <3>3. \A cursor \in {Unnamed} \cup Range(key) : byName[cursor] = Pages(Clusters, key, cursor)
      BY <2>2, <3>1, <3>2 DEF ClusterPages, Clusters
    <3>4. /\ Cardinality({k \in Clusters : key[k] = Unnamed}) < PageSize
          /\ IsFiniteSet(Clusters)
      <4>1. PICK w : w = {k \in Clusters : key[k] = Unnamed}
        OBVIOUS
      <4>2. w = {} \/ \E k \in Clusters : w = {k}
        BY <3>2, <4>1
      <4>3. Cardinality(w) \in {0, 1}
        BY <4>2, FS_EmptySet, FS_Singleton
      <4>4. PageSize \in Nat \ {0, 1}
        BY RestClustersAssumption
      <4> QED
        BY <2>1, <4>1, <4>3, <4>4
    <3>5. Listed(byName, key) = Range(key)
      BY <3>3, <3>4, AllListed
    <3> QED
      BY <3>1, <3>2, <3>5
  <2>3. ASSUME NEW n \in Clusters, NEW id, id = NodeIDOf(db, NodesIn(db, n)),
               NEW byID, byID = [cursor \in {Unnamed} \cup Range(id) |-> NodePages(db, n, cursor)],
               Cardinality(NodesNamed(n, Unnamed)) < PageSize
        PROVE  Listed(byID, id) = Range(id)
    <3> DEFINE keys == NodesIn(db, n)
    <3>1. keys \subseteq DOMAIN db.nodes
      BY DEF NodesIn
    <3>2. IsFiniteSet(keys)
      BY <1>1, <3>1, FS_Subset DEF Finite
    <3>3. id \in [keys -> Nat]
      BY <2>1, <2>3, <3>1 DEF NodeIDOf
    <3>5. {k \in keys : id[k] = Unnamed} = NodesNamed(n, Unnamed)
      BY <2>3 DEF NodeIDOf, NodesNamed
    <3>4. \A cursor \in {Unnamed} \cup Range(id) : byID[cursor] = Pages(keys, id, cursor)
      BY <2>3 DEF NodePages
    <3> HIDE DEF keys
    <3> QED
      BY <2>3, <3>2, <3>3, <3>4, <3>5, AllListed
  <2> QED
    BY <2>2, <2>3 DEF PagesComplete
<1>2. TypeInv /\ Finite(db) /\ Finite(saved) /\ [Next]_vars
        => TypeInv' /\ Finite(db)' /\ Finite(saved)'
  BY NextTypes, NextFinite DEF Finite
<1> QED
  BY <1>1, <1>2, InitTypes, InitFinite, PTL DEF Spec
-----------------------------------------------------------------------------
(* One request at a time.                                                  *)

\* The id of a cluster is that of one cluster; and the request that created a
\* cluster or a node has no statement left.
Done(c) == pc[c] \in {"commit", "rollback", "answered"}
KeysOK(t) ==
  /\ \A m, n \in DOMAIN t.clusters : t.clusters[m].id = t.clusters[n].id => m = n
  /\ \A n \in DOMAIN t.clusters : t.clusters[n].id \in Calls => Done(t.clusters[n].id)
  /\ \A c \in Calls : c \in DOMAIN t.nodes => Done(c)

\* No two nodes of the unnamed cluster have an id or an address in common.
Unique(t) ==
  \A k, l \in NodesIn(t, Unnamed) : k # l => /\ t.nodes[k].nodeID # t.nodes[l].nodeID
                                           /\ t.nodes[k].address # t.nodes[l].address

\* CreateNode's checks have found what they say, unless an error has failed the
\* transaction; and what a visitor has read of its cluster is still so.
CheckedOK(c) ==
  conn = "open" /\ tx = "open" =>
    /\ (pc[c] = "GetNodeByNodeID" /\ request[c].op = "CreateNode") \/ pc[c] = "CreateNode"
         => NodesAt(Unnamed, request[c].address) = {}
    /\ pc[c] = "CreateNode" => NodesNamed(Unnamed, request[c].nodeID) = {}
    /\ pc[c] = "UpdateCluster" => /\ request[c].name \in Clusters
                                  /\ row[c] = db.clusters[request[c].name]

SafeInv == /\ TypeInv
           /\ SerialInv
           /\ KeysOK(db) /\ KeysOK(saved)
           /\ Unique(db) /\ Unique(saved)
           /\ \A c \in Calls : CheckedOK(c)

\* A statement of a visitor is a step of the kind HandlersProofs speaks of.
LEMMA Visitors ==
  ASSUME TypeInv, NEW c \in Calls, Visitor(c)
  PROVE  /\ \E s : StatementTo(c, s)
         /\ pc'[c] \notin {"idle", "begin"}
<1>0. CallTypes
  BY DEF TypeInv
<1> USE <1>0 DEF CallTypes, OpAt, Executes, Answer, Continue, Succeed, Fail, Goto, BreakTx,
                 TxSteps, TxOps, StatementTo, Running
<1>1. CASE GetSession(c)
  BY <1>1 DEF GetSession, AfterSession
<1>2. CASE CreateCluster(c)
  BY <1>2 DEF CreateCluster
<1>3. CASE GetCluster(c)
  <2>1. request[c].op \in {"UpdateCluster", "CreateNode", "GetNodes", "DeleteNode"} =>
          AfterCluster(request[c].op) \in {"UpdateCluster", "GetNodeByHostPort", "GetNodes",
                                          "GetNodeByNodeID"}
    BY DEF AfterCluster
  <2> QED
    BY <1>3, <2>1 DEF GetCluster
<1>4. CASE GetClusters(c)
  BY <1>4 DEF GetClusters
<1>5. CASE UpdateCluster(c)
  BY <1>5 DEF UpdateCluster
<1>6. CASE DeleteCluster(c)
  BY <1>6 DEF DeleteCluster
<1>7. CASE GetNodeByHostPort(c)
  BY <1>7 DEF GetNodeByHostPort
<1>8. CASE GetNodeByNodeID(c)
  BY <1>8 DEF GetNodeByNodeID
<1>9. CASE CheckErrs(c)
  BY <1>9 DEF CheckErrs
<1>10. CASE CreateNode(c)
  BY <1>10 DEF CreateNode
<1>11. CASE GetNodes(c)
  BY <1>11 DEF GetNodes
<1>12. CASE DeleteNode(c)
  BY <1>12 DEF DeleteNode
<1> QED
  BY <1>1, <1>2, <1>3, <1>4, <1>5, <1>6, <1>7, <1>8, <1>9, <1>10, <1>11, <1>12 DEF Visitor

\* The connection is shared in turn.
LEMMA NextSerial ==
  ASSUME TypeInv, SerialInv, [Next]_vars, ~Overlap
  PROVE  SerialInv'
<1>1. CASE UNCHANGED vars
  BY <1>1 DEF vars, callVars, SerialInv, Running, Holding
<1> QED
  BY <1>1, Steps, Visitors, ArriveSerial, StatementSerial, VisitsSerial, LostSerial

\* A request that has written stays done.
LEMMA DoneStays ==
  ASSUME TypeInv, [Next]_vars, NEW c \in Calls, Done(c)
  PROVE  Done(c)'
<1> USE DEF Done
<1>0. CallTypes
  BY DEF TypeInv
<1>1. ASSUME NEW d \in Calls, Arrive(d, Requests) PROVE Done(c)'
  BY <1>0, <1>1 DEF Arrive, Goto, CallTypes
<1>2. ASSUME NEW d \in Calls, Visits(d) PROVE Done(c)'
  BY <1>0, <1>2 DEF Visits, Begin, Commit, Rollback, StatementRefused, TxRefused, Fail, Answer,
                    Goto, CallTypes
<1>3. ASSUME NEW d \in Calls, Lost(d, db) PROVE Done(c)'
  BY <1>3 DEF Lost, callVars
<1>4. ASSUME NEW d \in Calls, \E s : StatementTo(d, s) PROVE Done(c)'
  BY <1>0, <1>4 DEF StatementTo, Running, TxSteps, CallTypes
<1>5. CASE UNCHANGED vars
  BY <1>5 DEF vars, callVars
<1> QED
  BY <1>1, <1>2, <1>3, <1>4, <1>5, Steps, Visitors

\* Clusters keep ids of their own, and no request writes twice.
LEMMA NextKeys ==
  ASSUME SafeInv, [Next]_vars
  PROVE  KeysOK(db)' /\ KeysOK(saved)'
<1>0. /\ \A c \in Calls : Done(c) => Done(c)'
      /\ KeysOK(db) /\ KeysOK(saved) /\ TypeInv
      /\ Database(db) /\ CallTypes
  BY DoneStays DEF SafeInv, TypeInv
<1>1. ASSUME NEW c \in Calls, Written(c) PROVE KeysOK(db)' /\ KeysOK(saved)'
  <2> DEFINE n == request[c].name
  <2>0. /\ saved' = saved /\ Done(c)'
        /\ pc[c] \notin {"commit", "rollback", "answered"}
    BY <1>0, <1>1 DEF Written, Writes, Done, CallTypes, ClusterCreated, ClusterUpdated,
                      ClusterDeleted, NodeCreated, NodesDeleted
  <2>1. KeysOK(saved)'
    BY <1>0, <2>0 DEF KeysOK
  <2>2. /\ \A m \in Clusters : db.clusters[m].id # c
        /\ c \notin DOMAIN db.nodes
    BY <1>0, <2>0 DEF KeysOK, Done, Clusters
  <2>3. CASE ClusterCreated(c, n)
    <3>1. /\ DOMAIN db'.clusters = Clusters \cup {n}
          /\ db'.clusters[n].id = c
          /\ \A m \in Clusters : db'.clusters[m] = db.clusters[m]
          /\ db'.nodes = db.nodes
      BY <2>3 DEF ClusterCreated, Insert, Clusters
    <3> QED
      BY <1>0, <2>0, <2>1, <2>2, <3>1 DEF KeysOK, Clusters
  <2>4. CASE ClusterUpdated(c, n)
    <3>1. /\ DOMAIN db'.clusters = (Clusters \ {Unnamed}) \cup {n}
          /\ db'.clusters[n] = UpdatedRow(c)
          /\ \A m \in Clusters \ {Unnamed} : m # n /\ db'.clusters[m] = db.clusters[m]
          /\ db'.nodes = db.nodes
          /\ Unnamed \in Clusters
      BY <2>4 DEF ClusterUpdated, Insert, Without, Clusters
    <3>2. UpdatedRow(c).id = db.clusters[Unnamed].id
      BY <1>0, <2>4, <3>1, UpdatedRows
         DEF ClusterUpdated, CallTypes, OpAt, Database, TablesOK, Clusters
    <3> QED
      BY <1>0, <2>0, <2>1, <3>1, <3>2 DEF KeysOK, Clusters
  <2>5. CASE ClusterDeleted(c, n)
    BY <1>0, <2>0, <2>1, <2>5 DEF ClusterDeleted, Without, KeysOK
  <2>6. CASE NodeCreated(c, n)
    BY <1>0, <2>0, <2>1, <2>6 DEF NodeCreated, Insert, KeysOK
  <2>7. CASE NodesDeleted(c, n)
    BY <1>0, <2>0, <2>1, <2>7 DEF NodesDeleted, Without, KeysOK
  <2> QED
    BY <1>1, <2>3, <2>4, <2>5, <2>6, <2>7 DEF Written
<1> QED
  BY <1>0, <1>1, TableSteps DEF TableStep, KeysOK

\* Who writes does so in the transaction that is open.
LEMMA WritesInTx ==
  ASSUME SafeInv, NEW c \in Calls, Written(c)
  PROVE  conn = "open" /\ tx = "open" /\ Running(c) /\ ~Done(c)
<1>1. /\ pc[c] \in {"CreateCluster", "UpdateCluster", "DeleteCluster", "CreateNode", "DeleteNode"}
      /\ conn = "open" /\ tx # "failed"
  BY DEF Written, Writes, ClusterCreated, ClusterUpdated, ClusterDeleted, NodeCreated, NodesDeleted
<1>2. Holding(c)
  BY <1>1 DEF SafeInv, TypeInv, CallTypes, OpAt, Holding, Running, TxOps
<1> QED
  BY <1>1, <1>2 DEF SafeInv, SerialInv, Holding, Done

\* CreateNode has looked for what it inserts, and the other writes put nobody into
\* the unnamed cluster.
LEMMA NextUnique ==
  ASSUME SafeInv, [Next]_vars
  PROVE  Unique(db)' /\ Unique(saved)'
<1>0. /\ KeysOK(db) /\ Unique(db) /\ Unique(saved) /\ TypeInv /\ Database(db)
  BY DEF SafeInv, TypeInv
<1>1. ASSUME NEW c \in Calls, Written(c) PROVE Unique(db')
  <2> DEFINE n == request[c].name
  <2>0. /\ \A k \in DOMAIN db.nodes : \E m \in Clusters : db.nodes[k].cluster = db.clusters[m].id
        /\ \A m \in Clusters : db.clusters[m].id # c
    BY <1>0, <1>1, WritesInTx DEF Database, TablesOK, NodesIn, KeysOK, Clusters
  <2>1. ASSUME \A k \in NodesIn(db', Unnamed) : /\ k \in NodesIn(db, Unnamed)
                                               /\ db'.nodes[k] = db.nodes[k]
        PROVE  Unique(db')
    BY <1>0, <2>1 DEF Unique
  <2>2. CASE ClusterCreated(c, n)
    <3>1. /\ DOMAIN db'.clusters = Clusters \cup {n}
          /\ db'.clusters[n].id = c
          /\ \A m \in Clusters : db'.clusters[m] = db.clusters[m]
          /\ db'.nodes = db.nodes
      BY <2>2 DEF ClusterCreated, Insert, Clusters
    <3> QED
      BY <2>0, <2>1, <3>1 DEF NodesIn, Clusters
  <2>3. CASE ClusterUpdated(c, n)
    <3>1. /\ DOMAIN db'.clusters = (Clusters \ {Unnamed}) \cup {n}
          /\ db'.clusters[n] = UpdatedRow(c)
          /\ db'.nodes = db.nodes
          /\ Unnamed \in Clusters
      BY <2>3 DEF ClusterUpdated, Insert, Without, Clusters
    <3>2. UpdatedRow(c).id = db.clusters[Unnamed].id
      BY <1>0, <2>3, <3>1, UpdatedRows
         DEF ClusterUpdated, TypeInv, CallTypes, OpAt, Database, TablesOK, Clusters
    <3> QED
      BY <2>1, <3>1, <3>2 DEF NodesIn, Clusters
  <2>4. CASE ClusterDeleted(c, n)
    BY <2>1, <2>4 DEF ClusterDeleted, Without, NodesIn
  <2>5. CASE NodeCreated(c, n)
    <3>1. /\ n \in Clusters
          /\ db'.clusters = db.clusters
          /\ DOMAIN db'.nodes = DOMAIN db.nodes \cup {c}
          /\ \A k \in DOMAIN db.nodes \ {c} : db'.nodes[k] = db.nodes[k]
          /\ db'.nodes[c] = [cluster |-> db.clusters[n].id, nodeID |-> request[c].nodeID,
                             address |-> request[c].address]
      BY <2>5 DEF NodeCreated, Insert
    <3>2. CASE n # Unnamed
      <4>1. c \notin NodesIn(db', Unnamed)
        BY <1>0, <3>1, <3>2 DEF NodesIn, KeysOK, Clusters
      <4> QED
        BY <2>1, <3>1, <4>1 DEF NodesIn
    <3>3. CASE n = Unnamed
      <4>1. /\ NodesAt(Unnamed, request[c].address) = {}
            /\ NodesNamed(Unnamed, request[c].nodeID) = {}
        BY <1>1, <2>5, WritesInTx DEF SafeInv, CheckedOK, NodeCreated
      <4>2. \A k \in NodesIn(db', Unnamed) \ {c} :
              /\ k \in NodesIn(db, Unnamed)
              /\ db'.nodes[k] = db.nodes[k]
              /\ db.nodes[k].address # request[c].address
              /\ db.nodes[k].nodeID # request[c].nodeID
        BY <3>1, <4>1 DEF NodesIn, NodesAt, NodesNamed
      <4>3. /\ db'.nodes[c].address = request[c].address
            /\ db'.nodes[c].nodeID = request[c].nodeID
        BY <3>1
      <4> QED
        BY <1>0, <4>2, <4>3 DEF Unique
    <3> QED
      BY <3>2, <3>3
  <2>6. CASE NodesDeleted(c, n)
    BY <2>1, <2>6 DEF NodesDeleted, Without, NodesIn
  <2> QED
    BY <1>1, <2>2, <2>3, <2>4, <2>5, <2>6 DEF Written
<1>2. Unique(db') /\ Unique(saved')
  BY <1>0, <1>1, TableSteps DEF TableStep, Written, Writes
<1> QED
  BY <1>2 DEF Unique, NodesIn

\* Between a check and the INSERT nobody changes what was found; and the error of
\* a check, which counts as "not found", has failed the transaction.
LEMMA NextChecked ==
  ASSUME SafeInv, [Next]_vars, ~Overlap, NEW c \in Calls
  PROVE  CheckedOK(c)'
<1> DEFINE Checking(s) == s \in {"GetNodeByNodeID", "CreateNode", "UpdateCluster"}
<1>0. CallTypes /\ SerialInv /\ TypeInv /\ CheckedOK(c)
  BY DEF SafeInv, TypeInv
<1>1. ASSUME ~Checking(pc'[c]) PROVE CheckedOK(c)'
  BY <1>1 DEF CheckedOK
<1>2. ASSUME NEW d \in Calls \ {c}, Running(d), pc'[c] = pc[c] PROVE CheckedOK(c)'
  <2>1. ~Running(c)
    BY <1>0, <1>2 DEF SerialInv
  <2> QED
    BY <1>1, <1>2, <2>1 DEF Running
<1>3. ASSUME NEW d \in Calls, Arrive(d, Requests) PROVE CheckedOK(c)'
  <2>1. ~Running(c)
    BY <1>3 DEF Arrive
  <2>2. ~Checking(pc'[c])
    BY <1>0, <1>3, <2>1, FirstStatements DEF Arrive, Goto, Running, CallTypes
  <2> QED
    BY <1>1, <2>2
<1>4. ASSUME NEW d \in Calls, Visits(d) PROVE CheckedOK(c)'
  <2>1. Running(d) /\ (d # c => pc'[c] = pc[c])
    BY <1>0, <1>4 DEF Visits, Begin, Commit, Rollback, StatementRefused, TxRefused, Fail, Answer,
                      Goto, Quiet, TxSteps, Running, CallTypes
  <2>2. d = c => ~Checking(pc'[c])
    BY <1>0, <1>4, FirstStatements
       DEF Visits, Begin, Commit, Rollback, StatementRefused, TxRefused, Fail, Answer, Goto,
           CallTypes
  <2> QED
    BY <1>1, <1>2, <2>1, <2>2
<1>5. ASSUME NEW d \in Calls, Lost(d, db) PROVE CheckedOK(c)'
  BY <1>5 DEF Lost, CheckedOK
<1>6. ASSUME NEW d \in Calls \ {c}, Visitor(d) PROVE CheckedOK(c)'
  <2>1. Running(d) /\ pc'[c] = pc[c]
    <3>1. PICK s : StatementTo(d, s)
      BY <1>0, <1>6, Visitors
    <3> QED
      BY <1>0, <1>6, <3>1 DEF StatementTo, CallTypes
  <2> QED
    BY <1>2, <1>6, <2>1
<1>7. ASSUME Visitor(c) PROVE CheckedOK(c)'
  <2> USE <1>0 DEF CallTypes, Goto, Continue, Succeed, Fail, Answer
  <2>1. CASE GetNodeByHostPort(c)
    BY <2>1 DEF GetNodeByHostPort, Executes, CheckedOK, NodesAt, NodesIn
  <2>2. CASE GetNodeByNodeID(c)
    <3>1. pc'[c] \notin {"GetNodeByNodeID", "UpdateCluster"}
      BY <2>2 DEF GetNodeByNodeID, Executes, OpAt
    <3>2. pc'[c] = "CreateNode" => /\ request[c].op = "CreateNode"
                                   /\ NodesNamed(Unnamed, request[c].nodeID) = {}
      BY <2>2 DEF GetNodeByNodeID, Executes
    <3>3. pc[c] = "GetNodeByNodeID" /\ request' = request /\ db' = db /\ tx' = tx /\ conn' = conn
      BY <2>2 DEF GetNodeByNodeID, Executes
    <3> QED
      BY <3>1, <3>2, <3>3 DEF CheckedOK, NodesAt, NodesNamed, NodesIn
  <2>3. CASE CheckErrs(c)
    BY <2>3 DEF CheckErrs, CheckedOK
  <2>4. CASE GetCluster(c)
    <3> DEFINE op == request[c].op
    <3>1. op \in {"UpdateCluster", "CreateNode", "GetNodes", "DeleteNode"} =>
            /\ AfterCluster(op) \in {"UpdateCluster", "GetNodeByHostPort", "GetNodes",
                                     "GetNodeByNodeID"}
            /\ AfterCluster(op) = "UpdateCluster" => op = "UpdateCluster"
            /\ AfterCluster(op) = "GetNodeByNodeID" => op = "DeleteNode"
      BY DEF AfterCluster
    <3>2. request' = request /\ db' = db
      BY <2>4 DEF GetCluster, Executes
    <3>3. /\ pc'[c] # "CreateNode"
          /\ pc'[c] = "GetNodeByNodeID" => op = "DeleteNode"
          /\ pc'[c] = "UpdateCluster" => /\ request[c].name \in Clusters
                                         /\ row'[c] = db.clusters[request[c].name]
      BY <2>4, <3>1 DEF GetCluster, Executes, OpAt
    <3> QED
      BY <3>2, <3>3 DEF CheckedOK, Clusters
  <2>5. CASE GetSession(c)
    <3>1. /\ request' = request
          /\ AfterSession(request[c].op) \in {"CreateCluster", "DeleteCluster", "GetClusters",
                                              "GetNodeByNodeID", "GetCluster"}
          /\ AfterSession(request[c].op) = "GetNodeByNodeID" => request[c].op = "GetNode"
      BY <2>5 DEF GetSession, Executes, AfterSession
    <3> QED
      BY <2>5, <3>1 DEF GetSession, CheckedOK
  <2>6. ASSUME CreateCluster(c) \/ GetClusters(c) \/ UpdateCluster(c) \/ DeleteCluster(c)
                 \/ CreateNode(c) \/ GetNodes(c) \/ DeleteNode(c)
        PROVE  CheckedOK(c)'
    <3>1. ~Checking(pc'[c])
      BY <2>6 DEF CreateCluster, GetClusters, UpdateCluster, DeleteCluster, CreateNode, GetNodes,
                  DeleteNode
    <3> QED
      BY <1>1, <3>1
  <2> QED
    BY <1>7, <2>1, <2>2, <2>3, <2>4, <2>5, <2>6 DEF Visitor
<1>8. CASE UNCHANGED vars
  BY <1>0, <1>8 DEF vars, callVars, CheckedOK, NodesAt, NodesNamed, NodesIn, Clusters
<1> QED
  BY <1>3, <1>4, <1>5, <1>6, <1>7, <1>8, Steps

\* Before any request has come in.
LEMMA InitSafe == Init => SafeInv
<1> SUFFICES ASSUME Init PROVE SafeInv
  OBVIOUS
<1>1. TypeInv /\ SerialInv
  BY InitTypes, InitSerial DEF Init
<1>2. PICK known \in SUBSET Names, used \in SUBSET SeedNodes :
        \E node \in [used -> [cluster : known, nodeID : NodeIDs, address : Addresses]] :
          db = [clusters |-> [n \in known |-> [id |-> n, description |-> Nothing,
                                               password |-> Nothing]],
                nodes |-> node]
  BY DEF Init
<1>3. PICK node \in [used -> [cluster : known, nodeID : NodeIDs, address : Addresses]] :
        db = [clusters |-> [n \in known |-> [id |-> n, description |-> Nothing,
                                             password |-> Nothing]],
              nodes |-> node]
  BY <1>2
<1>4. /\ DOMAIN db.clusters = known /\ DOMAIN db.nodes = used
      /\ \A n \in known : db.clusters[n].id = n
  BY <1>3
<1>5. KeysOK(db)
  BY <1>4, RestClustersAssumption DEF KeysOK
<1>6. Unique(db)
  BY DEF Init, Unique
<1>7. saved = db /\ tx = "idle" /\ \A c \in Calls : pc[c] = "idle"
  BY DEF Init, InitCalls
<1> QED
  BY <1>1, <1>5, <1>6, <1>7 DEF SafeInv, CheckedOK, KeysOK, Unique, NodesIn

\* What holds of the tables, and of what the visitors have found in them, after
\* every step of requests that come one at a time.
THEOREM ClustersSafe == Overlap = FALSE /\ Spec => []SafeInv
<1>1. ASSUME Overlap = FALSE PROVE Spec => []SafeInv
  <2>1. ASSUME SafeInv, [Next]_vars PROVE SafeInv'
    <3>1. TypeInv' /\ SerialInv'
      BY <1>1, <2>1, NextTypes, NextSerial DEF SafeInv
    <3> QED
      BY <1>1, <2>1, <3>1, NextKeys, NextUnique, NextChecked DEF SafeInv
  <2> QED
    BY <2>1, InitSafe, PTL DEF Spec
<1> QED
  BY <1>1

\* CreateNode lets no id and no address into the unnamed cluster twice, although
\* it takes an error of its checks for "not found".
THEOREM NoNodeTwice == Overlap = FALSE /\ Spec => []UnnamedNodesUnique
<1>1. SafeInv => UnnamedNodesUnique
  BY DEF SafeInv, Unique, UnnamedNodesUnique, Committed
<1> QED
  BY <1>1, ClustersSafe, PTL
-----------------------------------------------------------------------------
(* The refinement.                                                         *)

\* The nodes of a cluster as the directory shows them.
Node(t, k) == [row |-> k, nodeID |-> t.nodes[k].nodeID, address |-> t.nodes[k].address]
NodeSet(t, n) == {Node(t, k) : k \in NodesIn(t, n)}
Entry(d, p, nodes) == [description |-> d, password |-> p, nodes |-> nodes]
IsEntry(e) == e = Entry(e.description, e.password, e.nodes)
WithNodes(e, nodes) == Entry(e.description, e.password, nodes)

\* The directory, entry by entry.
LEMMA DirEntries ==
  ASSUME NEW t
  PROVE  /\ DOMAIN Dir(t) = DOMAIN t.clusters
         /\ Maps(Dir(t))
         /\ \A n \in DOMAIN t.clusters :
              Dir(t)[n] = Entry(t.clusters[n].description, t.clusters[n].password, NodeSet(t, n))
BY DEF Dir, Maps, Entry, NodeSet, Node

\* What a request that has written makes of a directory.
DirChange(c, old, new) ==
  LET n == request[c].name
      op == request[c].op
  IN /\ \A m \in DOMAIN old \ {n} : m \in DOMAIN new /\ new[m] = old[m]
     /\ \/ /\ op = "CreateCluster"
           /\ n \notin DOMAIN old /\ DOMAIN new = DOMAIN old \cup {n}
           /\ new[n] = Entry(Nothing, Nothing, {})
        \/ /\ op = "DeleteCluster"
           /\ n \in DOMAIN old /\ DOMAIN new = DOMAIN old \ {n}
        \/ /\ n \in DOMAIN old /\ DOMAIN new = DOMAIN old
           /\ IsEntry(old[n])
           /\ \/ /\ op = "UpdateCluster"
                 /\ new[n] = Entry(IF "description" \in request[c].given THEN c
                                   ELSE old[n].description,
                                   IF "password" \in request[c].given THEN c
                                   ELSE old[n].password,
                                   old[n].nodes)
              \/ /\ op = "CreateNode"
                 /\ new[n] = WithNodes(old[n], old[n].nodes \cup
                      {[row |-> c, nodeID |-> request[c].nodeID, address |-> request[c].address]})
              \/ /\ op = "DeleteNode"
                 /\ \E x \in old[n].nodes : x.nodeID = request[c].nodeID
                 /\ new[n] = WithNodes(old[n], {x \in old[n].nodes : x.nodeID # request[c].nodeID})

\* A change of a cluster's nodes.
LEMMA NodesChange ==
  ASSUME NEW c, NEW old, NEW new, NEW n \in DOMAIN old, n = request[c].name,
         DOMAIN new = DOMAIN old, \A m \in DOMAIN old \ {n} : new[m] = old[m],
         NEW d, NEW p, NEW nodes, NEW after,
         old[n] = Entry(d, p, nodes), new[n] = Entry(d, p, after),
         \/ /\ request[c].op = "CreateNode"
            /\ after = nodes \cup {[row |-> c, nodeID |-> request[c].nodeID,
                                   address |-> request[c].address]}
         \/ /\ request[c].op = "DeleteNode"
            /\ \E x \in nodes : x.nodeID = request[c].nodeID
            /\ after = {x \in nodes : x.nodeID # request[c].nodeID}
  PROVE  DirChange(c, old, new)
<1>1. old[n].description = d /\ old[n].password = p /\ old[n].nodes = nodes
  BY DEF Entry
<1>2. IsEntry(old[n]) /\ new[n] = WithNodes(old[n], after)
  BY <1>1 DEF IsEntry, WithNodes
<1> QED
  BY <1>1, <1>2 DEF DirChange

\* A change of what a cluster's row says.
LEMMA EntryChange ==
  ASSUME NEW c, NEW old, NEW new, NEW n \in DOMAIN old, n = request[c].name,
         DOMAIN new = DOMAIN old, \A m \in DOMAIN old \ {n} : new[m] = old[m],
         NEW d, NEW p, NEW nodes, NEW e, NEW q,
         old[n] = Entry(d, p, nodes), new[n] = Entry(e, q, nodes),
         request[c].op = "UpdateCluster",
         e = IF "description" \in request[c].given THEN c ELSE d,
         q = IF "password" \in request[c].given THEN c ELSE p
  PROVE  DirChange(c, old, new)
<1>1. old[n].description = d /\ old[n].password = p /\ old[n].nodes = nodes
  BY DEF Entry
<1>2. IsEntry(old[n])
  BY <1>1 DEF IsEntry
<1> QED
  BY <1>1, <1>2 DEF DirChange

\* An entry is that of a row of clusters and of the nodes that belong to it.
LEMMA SameEntry ==
  ASSUME NEW t, NEW u, NEW n \in DOMAIN t.clusters, n \in DOMAIN u.clusters,
         t.clusters[n] = u.clusters[n], NodesIn(t, n) = NodesIn(u, n),
         \A k \in NodesIn(t, n) : t.nodes[k] = u.nodes[k]
  PROVE  Dir(t)[n] = Dir(u)[n]
<1>1. NodeSet(t, n) = NodeSet(u, n)
  BY DEF NodeSet, Node
<1> QED
  BY <1>1, DirEntries

\* Every write is the change its request asks for, to the cluster it names.
LEMMA WrittenChanges ==
  ASSUME SafeInv, NEW c \in Calls, Written(c)
  PROVE  DirChange(c, Dir(db), Dir(db'))
<1> DEFINE n == request[c].name
           old == Dir(db)
           new == Dir(db')
<1>0. /\ KeysOK(db) /\ Database(db) /\ OpAt(c) /\ CheckedOK(c)
      /\ conn = "open" /\ tx = "open"
      /\ DOMAIN old = Clusters /\ DOMAIN new = DOMAIN db'.clusters
  BY WritesInTx, DirEntries DEF SafeInv, TypeInv, CallTypes, Clusters
<1>1. /\ \A m \in Clusters : db.clusters[m].id # c
      /\ c \notin DOMAIN db.nodes
      /\ \A m \in Clusters : db.clusters[m] \in ClusterRow
      /\ \A k \in DOMAIN db.nodes : \E m \in Clusters : db.nodes[k].cluster = db.clusters[m].id
      /\ \A k, m : m \in Clusters /\ n \in Clusters /\ k \in NodesIn(db, n) /\ k \in NodesIn(db, m)
           => m = n
  BY <1>0, WritesInTx DEF KeysOK, Database, TablesOK, NodesIn, Clusters
<1>2. CASE ClusterCreated(c, n)
  <2>1. /\ DOMAIN db'.clusters = Clusters \cup {n} /\ n \notin Clusters
        /\ db'.clusters[n] = [id |-> c, description |-> Nothing, password |-> Nothing]
        /\ \A m \in Clusters : db'.clusters[m] = db.clusters[m]
        /\ db'.nodes = db.nodes
        /\ request[c].op = "CreateCluster"
    BY <1>0, <1>2 DEF ClusterCreated, Insert, Clusters, OpAt
  <2>2. ASSUME NEW m \in Clusters PROVE new[m] = old[m]
    <3>1. NodesIn(db', m) = NodesIn(db, m)
      BY <2>1 DEF NodesIn, Clusters
    <3> QED
      BY <2>1, <3>1, SameEntry DEF Clusters
  <2>3. NodesIn(db', n) = {}
    BY <1>1, <2>1 DEF NodesIn
  <2>4. new[n] = Entry(Nothing, Nothing, {})
    <3>1. NodeSet(db', n) = {}
      BY <2>3 DEF NodeSet
    <3>2. /\ n \in DOMAIN db'.clusters
          /\ db'.clusters[n].description = Nothing
          /\ db'.clusters[n].password = Nothing
      BY <2>1
    <3> QED
      BY <3>1, <3>2, DirEntries
  <2> QED
    BY <1>0, <2>1, <2>2, <2>4 DEF DirChange
<1>3. CASE ClusterUpdated(c, n)
  <2>1. n = Unnamed /\ n \in Clusters /\ row[c] = db.clusters[n] /\ request[c].op = "UpdateCluster"
    BY <1>0, <1>3 DEF ClusterUpdated, CheckedOK, OpAt
  <2>2. /\ DOMAIN db'.clusters = Clusters
        /\ db'.clusters[n] = UpdatedRow(c)
        /\ \A m \in Clusters \ {n} : db'.clusters[m] = db.clusters[m]
        /\ db'.nodes = db.nodes
    BY <1>3, <2>1 DEF ClusterUpdated, Insert, Without, Clusters
  <2>3. UpdatedRow(c).id = db.clusters[n].id
    BY <2>1 DEF UpdatedRow
  <2>4. \A m \in Clusters : NodesIn(db', m) = NodesIn(db, m)
    BY <2>1, <2>2, <2>3 DEF NodesIn, Clusters
  <2>5. ASSUME NEW m \in Clusters \ {n} PROVE new[m] = old[m]
    BY <2>2, <2>4, SameEntry DEF Clusters
  <2>6. NodeSet(db', n) = NodeSet(db, n)
    BY <2>1, <2>2, <2>4 DEF NodeSet, Node
  <2>7. old[n] = Entry(db.clusters[n].description, db.clusters[n].password, NodeSet(db, n))
    BY <2>1, DirEntries DEF Clusters
  <2>8. /\ UpdatedRow(c).description = IF "description" \in request[c].given THEN c
                                       ELSE db.clusters[n].description
        /\ UpdatedRow(c).password = IF "password" \in request[c].given THEN c
                                    ELSE db.clusters[n].password
    BY <2>1 DEF UpdatedRow
  <2>9. new[n] = Entry(UpdatedRow(c).description, UpdatedRow(c).password, NodeSet(db, n))
    BY <2>1, <2>2, <2>6, DirEntries
  <2>10. DOMAIN new = DOMAIN old /\ n \in DOMAIN old /\ \A m \in DOMAIN old \ {n} : new[m] = old[m]
    BY <1>0, <2>1, <2>2, <2>5 DEF Clusters
  <2> HIDE DEF old, new
  <2>11. DirChange(c, old, new)
    BY <2>1, <2>7, <2>8, <2>9, <2>10, EntryChange
  <2> QED
    BY <2>11 DEF old, new
<1>4. CASE ClusterDeleted(c, n)
  <2>1. /\ DOMAIN db'.clusters = Clusters \ {n} /\ n \in Clusters
        /\ \A m \in Clusters \ {n} : db'.clusters[m] = db.clusters[m]
        /\ DOMAIN db'.nodes = DOMAIN db.nodes \ NodesIn(db, n)
        /\ \A k \in DOMAIN db'.nodes : db'.nodes[k] = db.nodes[k]
        /\ request[c].op = "DeleteCluster"
    BY <1>0, <1>4 DEF ClusterDeleted, Without, Clusters, OpAt
  <2>2. ASSUME NEW m \in Clusters \ {n} PROVE new[m] = old[m]
    <3>0. NodesIn(db, m) \cap NodesIn(db, n) = {}
      BY <1>0, <2>1 DEF NodesIn, KeysOK, Clusters
    <3>1. NodesIn(db', m) = NodesIn(db, m)
      BY <2>1, <3>0 DEF NodesIn, Clusters
    <3>2. \A k \in NodesIn(db', m) : db'.nodes[k] = db.nodes[k]
      BY <2>1 DEF NodesIn
    <3> QED
      BY <2>1, <3>1, <3>2, SameEntry DEF Clusters
  <2> QED
    BY <1>0, <2>1, <2>2 DEF DirChange
<1>5. CASE NodeCreated(c, n)
  <2> DEFINE row1 == [row |-> c, nodeID |-> request[c].nodeID, address |-> request[c].address]
  <2>1. /\ n \in Clusters
        /\ db'.clusters = db.clusters
        /\ DOMAIN db'.nodes = DOMAIN db.nodes \cup {c}
        /\ \A k \in DOMAIN db.nodes : db'.nodes[k] = db.nodes[k]
        /\ db'.nodes[c] = [cluster |-> db.clusters[n].id, nodeID |-> request[c].nodeID,
                           address |-> request[c].address]
        /\ request[c].op = "CreateNode"
    BY <1>0, <1>1, <1>5 DEF NodeCreated, Insert, OpAt
  <2>2. ASSUME NEW m \in Clusters \ {n} PROVE new[m] = old[m]
    <3>1. db.clusters[m].id # db.clusters[n].id
      BY <1>0, <2>1 DEF KeysOK, Clusters
    <3>2. NodesIn(db', m) = NodesIn(db, m)
      BY <2>1, <3>1 DEF NodesIn, Clusters
    <3>3. \A k \in NodesIn(db, m) : db'.nodes[k] = db.nodes[k]
      BY <2>1 DEF NodesIn
    <3> QED
      BY <2>1, <3>2, <3>3, SameEntry DEF Clusters
  <2>3. NodesIn(db', n) = NodesIn(db, n) \cup {c}
    BY <1>1, <2>1 DEF NodesIn, Clusters
  <2>4. /\ \A k \in NodesIn(db, n) : Node(db', k) = Node(db, k)
        /\ Node(db', c) = row1
    BY <2>1 DEF Node, NodesIn
  <2>5. NodeSet(db', n) = NodeSet(db, n) \cup {row1}
    BY <2>3, <2>4 DEF NodeSet
  <2>6. /\ old[n] = Entry(db.clusters[n].description, db.clusters[n].password, NodeSet(db, n))
        /\ new[n] = Entry(db.clusters[n].description, db.clusters[n].password, NodeSet(db, n) \cup {row1})
    <3>1. n \in DOMAIN db.clusters /\ n \in DOMAIN db'.clusters
      BY <2>1 DEF Clusters
    <3>2. /\ old[n] = Entry(db.clusters[n].description, db.clusters[n].password, NodeSet(db, n))
          /\ new[n] = Entry(db'.clusters[n].description, db'.clusters[n].password, NodeSet(db', n))
      BY <3>1, DirEntries
    <3> QED
      BY <2>1, <2>5, <3>2
  <2>7. DOMAIN new = DOMAIN old /\ n \in DOMAIN old /\ \A m \in DOMAIN old \ {n} : new[m] = old[m]
    BY <1>0, <2>1, <2>2 DEF Clusters
  <2> HIDE DEF old, new
  <2>8. DirChange(c, old, new)
    BY <2>1, <2>6, <2>7, NodesChange
  <2> QED
    BY <2>8 DEF old, new
<1>6. CASE NodesDeleted(c, n)
  <2> DEFINE id == request[c].nodeID
             kept == {x \in NodeSet(db, n) : x.nodeID # id}
  <2>1. /\ n \in Clusters
        /\ db'.clusters = db.clusters
        /\ DOMAIN db'.nodes = DOMAIN db.nodes \ NodesNamed(n, id)
        /\ \A k \in DOMAIN db'.nodes : db'.nodes[k] = db.nodes[k]
        /\ request[c].op = "DeleteNode"
        /\ NodesNamed(n, id) # {}
    BY <1>0, <1>6 DEF NodesDeleted, Without, OpAt, NodesNamed, NodesIn, Clusters
  <2>2. ASSUME NEW m \in Clusters \ {n} PROVE new[m] = old[m]
    <3>1. NodesIn(db', m) = NodesIn(db, m)
      BY <1>1, <2>1 DEF NodesIn, NodesNamed, Clusters
    <3>2. \A k \in NodesIn(db', m) : db'.nodes[k] = db.nodes[k]
      BY <2>1 DEF NodesIn
    <3> QED
      BY <2>1, <3>1, <3>2, SameEntry DEF Clusters
  <2>3. NodesIn(db', n) = {k \in NodesIn(db, n) : db.nodes[k].nodeID # id}
    BY <2>1 DEF NodesIn, NodesNamed, Clusters
  <2>4. /\ \A k \in NodesIn(db', n) : Node(db', k) = Node(db, k)
        /\ \A k : Node(db, k).nodeID = db.nodes[k].nodeID
    BY <2>1 DEF Node, NodesIn
  <2>5. NodeSet(db', n) = kept
    BY <2>3, <2>4 DEF NodeSet
  <2>6. \E x \in NodeSet(db, n) : x.nodeID = id
    BY <2>1, <2>4 DEF NodeSet, NodesNamed
  <2>7. /\ old[n] = Entry(db.clusters[n].description, db.clusters[n].password, NodeSet(db, n))
        /\ new[n] = Entry(db.clusters[n].description, db.clusters[n].password, kept)
    <3>1. n \in DOMAIN db.clusters /\ n \in DOMAIN db'.clusters
      BY <2>1 DEF Clusters
    <3>2. /\ old[n] = Entry(db.clusters[n].description, db.clusters[n].password, NodeSet(db, n))
          /\ new[n] = Entry(db'.clusters[n].description, db'.clusters[n].password, NodeSet(db', n))
      BY <3>1, DirEntries
    <3> QED
      BY <2>1, <2>5, <3>2
  <2>8. DOMAIN new = DOMAIN old /\ n \in DOMAIN old /\ \A m \in DOMAIN old \ {n} : new[m] = old[m]
    BY <1>0, <2>1, <2>2 DEF Clusters
  <2> HIDE DEF old, new
  <2>9. DirChange(c, old, new)
    BY <2>1, <2>6, <2>7, <2>8, NodesChange
  <2> QED
    BY <2>9 DEF old, new
<1> QED
  BY <1>2, <1>3, <1>4, <1>5, <1>6 DEF Written
\* A request that has not come in asks for nothing; what is open on the connection
\* is the change of the one request that is at its COMMIT, or no change.
RefInv(c) ==
  /\ pc[c] = "idle" => request[c] = Nothing
  /\ conn = "open" /\ Holding(c) /\ pc[c] # "commit" => db = saved
  /\ conn = "open" /\ pc[c] = "commit" => DirChange(c, Dir(saved), Dir(db))

ImplInv == SafeInv /\ \A c \in Calls : RefInv(c)

\* A statement of the visitor, of VisitTx in its transaction, leaves the others alone.
LEMMA HoldingBefore ==
  ASSUME SafeInv, NEW c \in Calls, NEW s, StatementTo(c, s)
  PROVE  /\ Running(c)
         /\ \A d \in Calls \ {c} : ~Running(d) /\ pc'[d] = pc[d]
         /\ pc'[c] = s /\ s # "idle"
         /\ request' = request /\ conn' = conn
         /\ Holding(c)' => Holding(c) /\ pc[c] # "commit"
<1>1. SerialInv
  BY DEF SafeInv
<1>2. /\ Running(c) /\ pc[c] \notin TxSteps /\ s # "idle"
      /\ pc' = [pc EXCEPT ![c] = s]
      /\ request' = request /\ conn' = conn
  BY DEF StatementTo
<1> QED
  BY <1>1, <1>2 DEF SerialInv, Holding, TxSteps

\* Before any request has come in.
LEMMA InitRef == Init => \A c \in Calls : RefInv(c)
BY DEF Init, InitCalls, RefInv, Holding, Running

\* Who is not running has nothing open.
LEMMA NotRunningRef ==
  ASSUME NEW c \in Calls, pc'[c] \in {"idle", "answered"}, pc'[c] = "idle" => request'[c] = Nothing
  PROVE  RefInv(c)'
BY DEF RefInv, Holding, Running

\* Nothing is open but the change of the request at its COMMIT, after every step.
LEMMA NextRef ==
  ASSUME ImplInv, [Next]_vars, ~Overlap, NEW c \in Calls
  PROVE  RefInv(c)'
<1>0. CallTypes /\ SerialInv /\ TypeInv /\ SafeInv /\ RefInv(c)
  BY DEF ImplInv, SafeInv, TypeInv
<1>1. ASSUME NEW d \in Calls \ {c}, Running(d), pc'[c] = pc[c], request'[c] = request[c]
      PROVE  RefInv(c)'
  <2>1. ~Running(c)
    BY <1>0, <1>1 DEF SerialInv
  <2> QED
    BY <1>0, <1>1, <2>1, NotRunningRef DEF Running, RefInv
<1>2. ASSUME NEW d \in Calls, Arrive(d, Requests) PROVE RefInv(c)'
  <2>1. ~Running(c)
    BY <1>2 DEF Arrive
  <2>2. CASE d = c
    <3>1. PICK r \in Requests :
            /\ request' = [request EXCEPT ![d] = r]
            /\ Goto(d, IF r.op \in TxOps THEN "begin" ELSE FirstStatement(r.op))
      BY <1>2 DEF Arrive
    <3>2. /\ request'[c] = r
          /\ pc'[c] = IF r.op \in TxOps THEN "begin" ELSE FirstStatement(r.op)
      BY <1>0, <2>2, <3>1 DEF Goto, CallTypes
    <3>3. pc'[c] \notin {"idle", "commit"} /\ ~Holding(c)'
      BY <3>2, FirstStatements DEF Holding, Running
    <3> QED
      BY <3>3 DEF RefInv
  <2>3. CASE d # c
    <3>1. pc'[c] = pc[c] /\ request'[c] = request[c]
      BY <1>0, <1>2, <2>3 DEF Arrive, Goto, CallTypes
    <3> QED
      BY <1>0, <2>1, <3>1, NotRunningRef DEF Running, RefInv
  <2> QED
    BY <2>2, <2>3
<1>3. ASSUME NEW d \in Calls, Visits(d) PROVE RefInv(c)'
  <2>1. Running(d) /\ request' = request /\ (d # c => pc'[c] = pc[c])
    BY <1>0, <1>3 DEF Visits, Begin, Commit, Rollback, StatementRefused, TxRefused, Fail, Answer,
                      Goto, Quiet, TxSteps, Running, CallTypes
  <2>2. CASE d = c
    <3>1. CASE Begin(c)
      <4>1. tx = "idle"
        BY <1>0, <2>1, <2>2, <3>1 DEF SerialInv, Holding, Begin
      <4>2. db' = saved' /\ pc'[c] \notin {"idle", "commit"}
        BY <1>0, <3>1, <4>1, FirstStatements DEF Begin, Goto, CallTypes
      <4> QED
        BY <4>2 DEF RefInv
    <3>2. CASE Commit(c) \/ Rollback(c) \/ TxRefused(c)
      <4>1. pc'[c] = "answered"
        BY <1>0, <3>2 DEF Commit, Rollback, TxRefused, Answer, Goto, CallTypes
      <4> QED
        BY <4>1, NotRunningRef
    <3>3. CASE StatementRefused(c)
      <4>1. /\ db' = db /\ saved' = saved /\ conn' = conn
            /\ pc'[c] \in {"rollback", "answered"}
            /\ pc[c] \notin {"idle", "answered", "begin", "commit"}
        BY <1>0, <3>3 DEF StatementRefused, Fail, Answer, Goto, Quiet, TxSteps, CallTypes
      <4> QED
        BY <1>0, <2>1, <4>1 DEF RefInv, Holding, Running
    <3> QED
      BY <1>3, <2>2, <3>1, <3>2, <3>3 DEF Visits
  <2>3. CASE d # c
    BY <1>1, <2>1, <2>3
  <2> QED
    BY <2>2, <2>3
<1>4. ASSUME NEW d \in Calls, Lost(d, db) PROVE RefInv(c)'
  BY <1>0, <1>4 DEF Lost, callVars, RefInv
<1>5. ASSUME NEW d \in Calls, Visitor(d) PROVE RefInv(c)'
  <2>1. PICK s : StatementTo(d, s)
    BY <1>0, <1>5, Visitors
  <2>2. CASE d = c
    <3>1. ASSUME Written(c) PROVE RefInv(c)'
      <4>1. Holding(c) /\ conn = "open" /\ pc[c] # "commit"
        BY <1>0, <3>1, WritesInTx DEF SerialInv, Holding, Done
      <4>2. db = saved /\ saved' = saved /\ request' = request /\ pc'[c] = "commit"
        BY <1>0, <3>1, <4>1 DEF RefInv, Written, Writes, CallTypes
      <4>3. DirChange(c, Dir(saved), Dir(db'))
        BY <1>0, <3>1, <4>2, WrittenChanges
      <4>4. DirChange(c, Dir(saved), Dir(db))'
        BY <4>2, <4>3 DEF DirChange
      <4> QED
        BY <4>2, <4>4 DEF RefInv
    <3>2. ASSUME db' = db /\ saved' = saved /\ pc'[c] # "commit" PROVE RefInv(c)'
      BY <1>0, <2>1, <2>2, <3>2, HoldingBefore DEF RefInv
    <3> QED
      BY <1>0, <1>5, <2>2, <3>1, <3>2, VisitorWrites
  <2>3. CASE d # c
    BY <1>0, <1>1, <2>1, <2>3, HoldingBefore
  <2> QED
    BY <2>2, <2>3
<1>6. CASE UNCHANGED vars
  <2>1. /\ pc' = pc /\ request' = request /\ conn' = conn /\ db' = db /\ saved' = saved
    BY <1>6 DEF vars, callVars
  <2> QED
    BY <1>0, <2>1 DEF RefInv, Holding, Running, DirChange
<1> QED
  BY <1>2, <1>3, <1>4, <1>5, <1>6, Steps

\* The changes as Directory writes them.
Changes(c, old, new) ==
  LET n == request[c].name
      op == request[c].op
      given == request[c].given
  IN \/ /\ op = "CreateCluster" /\ n \notin DOMAIN old
        /\ DOMAIN new = DOMAIN old \cup {n}
        /\ \A m \in DOMAIN old \ {n} : m \in DOMAIN new /\ new[m] = old[m]
        /\ new[n] = [description |-> Nothing, password |-> Nothing, nodes |-> {}]
     \/ /\ op = "UpdateCluster" /\ n \in DOMAIN old
        /\ new = [old EXCEPT
             ![n].description = IF "description" \in given THEN c ELSE @,
             ![n].password = IF "password" \in given THEN c ELSE @]
     \/ /\ op = "DeleteCluster" /\ n \in DOMAIN old
        /\ DOMAIN new = DOMAIN old \ {n}
        /\ \A m \in DOMAIN old \ {n} : m \in DOMAIN new /\ new[m] = old[m]
     \/ /\ op = "CreateNode" /\ n \in DOMAIN old
        /\ new = [old EXCEPT ![n].nodes = @ \cup
             {[row |-> c, nodeID |-> request[c].nodeID, address |-> request[c].address]}]
     \/ /\ op = "DeleteNode" /\ n \in DOMAIN old
        /\ new = [old EXCEPT ![n].nodes = {k \in @ : k.nodeID # request[c].nodeID}]
        /\ new # old

\* A change of the directory is one of those Directory allows.
LEMMA ChangeForms ==
  ASSUME NEW c, NEW old, NEW new, Maps(old), Maps(new), DirChange(c, old, new)
  PROVE  Changes(c, old, new)
<1> USE DEF Changes
<1> DEFINE n == request[c].name
           op == request[c].op
           given == request[c].given
<1>1. CASE /\ op \in {"UpdateCluster", "CreateNode", "DeleteNode"}
           /\ n \in DOMAIN old /\ DOMAIN new = DOMAIN old /\ IsEntry(old[n])
           /\ \A m \in DOMAIN old \ {n} : new[m] = old[m]
  <2>1. ASSUME NEW e, new[n] = e PROVE new = [old EXCEPT ![n] = e]
    BY <1>1, <2>1 DEF Maps
  <2>2. ASSUME NEW nodes
        PROVE  /\ [old[n] EXCEPT !.nodes = nodes] = WithNodes(old[n], nodes)
               /\ WithNodes(old[n], nodes).nodes = nodes
    BY <1>1 DEF IsEntry, WithNodes, Entry
  <2>3. ASSUME op = "UpdateCluster",
               new[n] = Entry(IF "description" \in given THEN c ELSE old[n].description,
                              IF "password" \in given THEN c ELSE old[n].password, old[n].nodes)
        PROVE  new = [old EXCEPT
                 ![n].description = IF "description" \in given THEN c ELSE @,
                 ![n].password = IF "password" \in given THEN c ELSE @]
    BY <1>1, <2>3 DEF Maps, IsEntry, Entry
  <2>4. ASSUME NEW nodes, new[n] = WithNodes(old[n], nodes)
        PROVE  new = [old EXCEPT ![n].nodes = nodes]
    BY <2>1, <2>2, <2>4
  <2>5. ASSUME NEW x \in old[n].nodes, x.nodeID = request[c].nodeID,
               new[n] = WithNodes(old[n], {k \in old[n].nodes : k.nodeID # request[c].nodeID})
        PROVE  new # old
    <3>1. new[n].nodes = {k \in old[n].nodes : k.nodeID # request[c].nodeID}
      BY <2>2, <2>5
    <3>2. x \notin new[n].nodes
      BY <2>5, <3>1
    <3> QED
      BY <3>2
  <2>6. CASE op = "UpdateCluster"
    <3>1. new[n] = Entry(IF "description" \in given THEN c ELSE old[n].description,
                         IF "password" \in given THEN c ELSE old[n].password, old[n].nodes)
      BY <2>6 DEF DirChange
    <3> QED
      BY <1>1, <2>3, <2>6, <3>1
  <2>7. CASE op = "CreateNode"
    <3>1. new[n] = WithNodes(old[n], old[n].nodes \cup
            {[row |-> c, nodeID |-> request[c].nodeID, address |-> request[c].address]})
      BY <2>7 DEF DirChange
    <3> QED
      BY <1>1, <2>4, <2>7, <3>1
  <2>8. CASE op = "DeleteNode"
    <3>1. /\ \E x \in old[n].nodes : x.nodeID = request[c].nodeID
          /\ new[n] = WithNodes(old[n], {k \in old[n].nodes : k.nodeID # request[c].nodeID})
      BY <2>8 DEF DirChange
    <3> QED
      BY <1>1, <2>4, <2>5, <2>8, <3>1
  <2> QED
    BY <1>1, <2>6, <2>7, <2>8
<1>2. CASE op \in {"CreateCluster", "DeleteCluster"}
  BY <1>1, <1>2 DEF DirChange, Entry
<1> QED
  BY <1>1, <1>2 DEF DirChange

\* A step of a request that commits nothing is its answer in the directory, or no
\* step at all.
LEMMA RunsAlong ==
  ASSUME TypeInv, NEW c \in Calls, Running(c), NEW s, pc' = [pc EXCEPT ![c] = s],
         request' = request, Committed' = Committed
  PROVE  [D!Next]_(D!vars)
<1>1. request[c] # Nothing
  BY NothingAssumption DEF TypeInv, CallTypes, OpAt, Running
<1>2. Dir(Committed)' = Dir(Committed)
  OBVIOUS
<1>3. CASE s = "answered"
  <2>1. {d \in Calls : pc'[d] = "answered"} = {d \in Calls : pc[d] = "answered"} \cup {c}
    BY <1>3 DEF TypeInv, CallTypes
  <2>2. D!Reply(c)
    BY <1>1, <1>2, <2>1 DEF D!Reply
  <2> QED
    BY <2>2 DEF D!Next
<1>4. CASE s # "answered"
  <2>1. {d \in Calls : pc'[d] = "answered"} = {d \in Calls : pc[d] = "answered"}
    BY <1>4 DEF TypeInv, CallTypes, Running
  <2> QED
    BY <1>2, <2>1 DEF D!vars
<1> QED
  BY <1>3, <1>4

\* What is committed is a change of the directory.
LEMMA CommitsChange ==
  ASSUME TypeInv, NEW c \in Calls, Running(c), request' = request,
         pc' \in {pc, [pc EXCEPT ![c] = "answered"]},
         DirChange(c, Dir(Committed), Dir(Committed'))
  PROVE  D!Next
<1> DEFINE old == Dir(Committed)
           new == Dir(Committed')
           n == request[c].name
<1>1. request[c] # Nothing
  BY NothingAssumption DEF TypeInv, CallTypes, OpAt, Running
<1>2. /\ c \notin {d \in Calls : pc[d] = "answered"}
      /\ {d \in Calls : pc'[d] = "answered"} \in
           {{d \in Calls : pc[d] = "answered"}, {d \in Calls : pc[d] = "answered"} \cup {c}}
  BY DEF TypeInv, CallTypes, Running
<1>3. Maps(old) /\ Maps(new)
  BY DirEntries
<1>4. ASSUME NEW op, request[c].op = op PROVE D!Serves(c, op)
  BY <1>1, <1>2, <1>4 DEF D!Serves
<1>5. Changes(c, old, new)
  BY <1>3, ChangeForms
<1>6. old = Dir(Committed) /\ new = Dir(Committed)'
  OBVIOUS
<1> HIDE DEF old, new
<1>7. CASE request[c].op = "CreateCluster"
  <2>1. D!CreateCluster(c, n)
    BY <1>4, <1>5, <1>6, <1>7 DEF Changes, D!CreateCluster, D!OthersKept
  <2> QED
    BY <1>1, <2>1 DEF D!Change, D!Next
<1>8. CASE request[c].op = "UpdateCluster"
  <2>1. D!UpdateCluster(c, n)
    BY <1>4, <1>5, <1>6, <1>8 DEF Changes, D!UpdateCluster
  <2> QED
    BY <1>1, <2>1 DEF D!Change, D!Next
<1>9. CASE request[c].op = "DeleteCluster"
  <2>1. D!DeleteCluster(c, n)
    BY <1>4, <1>5, <1>6, <1>9 DEF Changes, D!DeleteCluster, D!OthersKept
  <2> QED
    BY <1>1, <2>1 DEF D!Change, D!Next
<1>10. CASE request[c].op = "CreateNode"
  <2>1. D!CreateNode(c, n)
    BY <1>4, <1>5, <1>6, <1>10 DEF Changes, D!CreateNode
  <2> QED
    BY <1>1, <2>1 DEF D!Change, D!Next
<1>11. CASE request[c].op = "DeleteNode"
  <2>1. D!DeleteNode(c, n)
    BY <1>4, <1>5, <1>6, <1>11 DEF Changes, D!DeleteNode
  <2> QED
    BY <1>1, <2>1 DEF D!Change, D!Next
<1> QED
  BY <1>5, <1>7, <1>8, <1>9, <1>10, <1>11 DEF Changes

\* Before any request has come in.
LEMMA InitDirectory == Init => D!Init
BY DEF Init, InitCalls, D!Init

\* Every step is one of the directory, or none of its business.
LEMMA NextDirectory ==
  ASSUME ImplInv, [Next]_vars, ~Overlap
  PROVE  [D!Next]_(D!vars)
<1>0. CallTypes /\ SerialInv /\ TypeInv /\ SafeInv /\ \A c \in Calls : RefInv(c)
  BY DEF ImplInv, SafeInv, TypeInv
<1>1. ASSUME NEW c \in Calls, Arrive(c, Requests) PROVE [D!Next]_(D!vars)
  <2>1. /\ request[c] = Nothing
        /\ \A d \in Calls \ {c} : request'[d] = request[d]
        /\ Committed' = Committed
    BY <1>0, <1>1 DEF Arrive, RefInv, Committed, CallTypes
  <2>2. pc'[c] # "answered" /\ \A d \in Calls \ {c} : pc'[d] = pc[d]
    BY <1>0, <1>1, FirstStatements DEF Arrive, Goto, CallTypes
  <2>3. {d \in Calls : pc'[d] = "answered"} = {d \in Calls : pc[d] = "answered"}
    BY <1>1, <2>2 DEF Arrive
  <2>4. Dir(Committed)' = Dir(Committed)
    BY <2>1
  <2>5. D!Arrive(c)
    BY <2>1, <2>3, <2>4 DEF D!Arrive
  <2> QED
    BY <2>5 DEF D!Next
<1>2. ASSUME NEW c \in Calls, Visits(c) PROVE [D!Next]_(D!vars)
  <2>0. /\ Running(c) /\ request' = request
        /\ \E s : pc' = [pc EXCEPT ![c] = s]
    BY <1>2 DEF Visits, Begin, Commit, Rollback, StatementRefused, TxRefused, Fail, Answer, Goto,
                Quiet, TxSteps, Running
  <2>1. CASE Begin(c)
    <3>1. tx = "idle"
      BY <1>0, <2>0, <2>1 DEF SerialInv, Holding, Begin
    <3>2. Committed' = Committed
      BY <2>1, <3>1 DEF Begin, Committed
    <3> QED
      BY <1>0, <2>0, <3>2, RunsAlong
  <2>2. CASE Commit(c)
    <3>1. tx = "open"
      BY <1>0, <2>2 DEF SerialInv, Commit
    <3>2. Committed = saved /\ Committed' = db /\ pc' = [pc EXCEPT ![c] = "answered"]
      BY <2>2, <3>1 DEF Commit, Committed, Answer, Goto
    <3>3. DirChange(c, Dir(saved), Dir(db))
      BY <1>0, <2>2 DEF RefInv, Commit
    <3> QED
      BY <1>0, <2>0, <3>2, <3>3, CommitsChange
  <2>3. CASE Rollback(c) \/ StatementRefused(c) \/ TxRefused(c)
    <3>1. Committed' = Committed
      BY <1>0, <2>3 DEF Rollback, StatementRefused, TxRefused, Close, Committed, CallTypes
    <3> QED
      BY <1>0, <2>0, <3>1, RunsAlong
  <2> QED
    BY <1>2, <2>1, <2>2, <2>3 DEF Visits
<1>3. ASSUME NEW c \in Calls, Lost(c, db) PROVE [D!Next]_(D!vars)
  <2>1. pc' = pc /\ request' = request /\ pc' = [pc EXCEPT ![c] = pc[c]] /\ Running(c)
    BY <1>0, <1>3 DEF Lost, callVars, Running, Quiet, CallTypes
  <2>2. CASE Committed' = Committed
    BY <1>0, <2>1, <2>2, RunsAlong
  <2>3. CASE tx = "open" /\ pc[c] = "commit" /\ db' = db
    <3>1. Committed = saved /\ Committed' = db
      BY <1>3, <2>3 DEF Lost, Committed
    <3>2. DirChange(c, Dir(saved), Dir(db))
      BY <1>0, <1>3, <2>3 DEF RefInv, Lost
    <3> QED
      BY <1>0, <2>1, <3>1, <3>2, CommitsChange
  <2> QED
    BY <1>3, <2>2, <2>3 DEF Lost, Committed
<1>4. ASSUME NEW c \in Calls, Visitor(c) PROVE [D!Next]_(D!vars)
  <2>1. PICK s : StatementTo(c, s)
    BY <1>0, <1>4, Visitors
  <2>2. Committed' = Committed
    <3>1. (db' = db /\ saved' = saved) \/ (tx = "open" /\ tx' = tx /\ saved' = saved)
      BY <1>0, <1>4, VisitorWrites, WritesInTx DEF Written, Writes
    <3> QED
      BY <1>0, <2>1, <3>1 DEF StatementTo, Committed, CallTypes
  <2> QED
    BY <1>0, <2>1, <2>2, RunsAlong DEF StatementTo
<1>5. CASE UNCHANGED vars
  BY <1>5 DEF vars, callVars, Committed, D!vars
<1> QED
  BY <1>1, <1>2, <1>3, <1>4, <1>5, Steps

\* The handlers implement the directory their documentation speaks of, as long as
\* requests are served one at a time, for any number of them, and whatever the
\* connection does: a change is the one a request asks for, to the cluster it
\* names, as a whole.
THEOREM ClustersImplementDirectory == Overlap = FALSE /\ Spec => ImplementsDirectory
<1>1. ASSUME Overlap = FALSE PROVE Spec => ImplementsDirectory
  <2>1. ASSUME ImplInv, [Next]_vars PROVE (\A c \in Calls : RefInv(c))'
    BY <1>1, <2>1, NextRef
  <2>2. ASSUME SafeInv, \A c \in Calls : RefInv(c), [Next]_vars
        PROVE  (\A c \in Calls : RefInv(c))' /\ [D!Next]_(D!vars)
    BY <1>1, <2>1, <2>2, NextDirectory DEF ImplInv
  <2>3. Spec => []SafeInv
    BY <1>1, ClustersSafe
  <2> DEFINE Ref == \A c \in Calls : RefInv(c)
  <2>4. Init => Ref /\ D!Init
    BY InitRef, InitDirectory
  <2> HIDE DEF Ref
  <2>5. SafeInv /\ Ref /\ [Next]_vars => Ref' /\ [D!Next]_(D!vars)
    BY <2>2 DEF Ref
  <2>6. Spec => D!Spec
    BY <2>3, <2>4, <2>5, PTL DEF Spec, D!Spec
  <2> QED
    BY <2>6 DEF ImplementsDirectory
<1> QED
  BY <1>1
=============================================================================
