----------------------------- MODULE RestClusters -----------------------------
(***************************************************************************)
(* The cluster and node handlers of lib/api/rest/rest.go, statement by      *)
(* statement, over the tables clusters and nodes.                          *)
(*                                                                         *)
(* Names and node ids are ordered as PostgreSQL orders them: naturals, and *)
(* Unnamed is the empty string, a name and a node id like any other for    *)
(* CreateCluster and CreateNode, the WHERE of every query that is passed   *)
(* no name, and the cursor of a first page.  The key of a row is the call  *)
(* that inserted it.  The parts of a cluster's row are who wrote them:     *)
(* Nothing for the default.                                                *)
(***************************************************************************)
EXTENDS Handlers, Functions

CONSTANTS Names,      \* cluster names, Unnamed among them
          NodeIDs,    \* node ids, the empty one among them
          Addresses,  \* host and port of a node
          SeedNodes,  \* keys of the nodes that exist at the start
          PageSize    \* the LIMIT of the listings: 10, whatever is asked for

Unnamed == 0

ASSUME RestClustersAssumption ==
  /\ Names \subseteq Nat /\ Unnamed \in Names
  /\ NodeIDs \subseteq Nat /\ Unnamed \in NodeIDs
  /\ SeedNodes \cap Calls = {}
  /\ Names \cap Calls = {}
  /\ Nothing \notin Calls \cup SeedNodes
  /\ PageSize \in Nat \ {0, 1}
  /\ Overlap \in BOOLEAN

Parts == {"description", "password"}

\* In GetClusters name is the cursor, in GetNodes nodeID.
Request(ops, nodeIDs, addresses, given) ==
  [op : ops, name : Names, nodeID : nodeIDs, address : addresses, given : given]
Requests ==
  Request({"CreateCluster", "GetCluster", "GetClusters", "DeleteCluster"},
          {Unnamed}, {Nothing}, {{}})
    \cup Request({"UpdateCluster"}, {Unnamed}, {Nothing}, SUBSET Parts)
    \cup Request({"CreateNode"}, NodeIDs, Addresses, {{}})
    \cup Request({"GetNode", "DeleteNode"}, NodeIDs, {Nothing}, {{}})
    \cup Request({"GetNodes"}, NodeIDs, {Nothing}, {{}})

ASSUME NothingAssumption == Nothing \notin Requests

ClusterIDs == Calls \cup Names
ClusterRow == [id : ClusterIDs, description : Calls \cup {Nothing},
               password : Calls \cup {Nothing}]
NodeRow == [cluster : ClusterIDs, nodeID : NodeIDs, address : Addresses]

Clusters == DOMAIN db.clusters

\* The nodes WHERE cluster_id = (SELECT id FROM clusters WHERE name = n).
NodesIn(tables, n) ==
  {k \in DOMAIN tables.nodes : /\ n \in DOMAIN tables.clusters
                               /\ tables.nodes[k].cluster = tables.clusters[n].id}
NodesNamed(n, id) == {k \in NodesIn(db, n) : db.nodes[k].nodeID = id}
NodesAt(n, address) == {k \in NodesIn(db, n) : db.nodes[k].address = address}

\* Mutation: the row after the cursor is passed over, too.
PagesSkip(keys, key, cursor) ==
  LET rest == {k \in keys : cursor = Unnamed \/ key[k] > cursor + 1} IN
  {p \in SUBSET rest :
     /\ Cardinality(p) = PageSize \/ (Cardinality(p) < PageSize /\ p = rest)
     /\ \A k \in p, l \in rest \ p : key[k] <= key[l]}

\* ORDER BY key LIMIT PageSize, of all rows or of those beyond the cursor; rows
\* with equal keys come in any order.
Pages(keys, key, cursor) ==
  LET rest == {k \in keys : cursor = Unnamed \/ key[k] > cursor} IN
  {p \in SUBSET rest :
     /\ Cardinality(p) = PageSize \/ (Cardinality(p) < PageSize /\ p = rest)
     /\ \A k \in p, l \in rest \ p : key[k] <= key[l]}

NodeIDOf(tables, keys) == [k \in keys |-> tables.nodes[k].nodeID]

ClusterPages(tables, cursor) ==
  LET names == DOMAIN tables.clusters IN Pages(names, [n \in names |-> n], cursor)
NodePages(tables, n, cursor) ==
  LET keys == NodesIn(tables, n) IN Pages(keys, NodeIDOf(tables, keys), cursor)

\* A database in use: some clusters, and nodes in them as CreateNode leaves them.
Init == /\ InitCalls
        /\ \E known \in SUBSET Names, used \in SUBSET SeedNodes :
             /\ IsFiniteSet(known) /\ IsFiniteSet(used)
             /\ \E node \in [used -> [cluster : known, nodeID : NodeIDs, address : Addresses]] :
                  db = [clusters |-> [n \in known |-> [id |-> n, description |-> Nothing,
                                                       password |-> Nothing]],
                        nodes |-> node]
        /\ \A k, l \in NodesIn(db, Unnamed) : k # l =>
             /\ db.nodes[k].nodeID # db.nodes[l].nodeID
             /\ db.nodes[k].address # db.nodes[l].address
        /\ saved = db

\* UpdateCluster writes the parts given, and for the others what it has read.
UpdatedRow(c) ==
  [id |-> db.clusters[Unnamed].id,
   description |-> IF "description" \in request[c].given THEN c ELSE row[c].description,
   password |-> IF "password" \in request[c].given THEN c ELSE row[c].password]
-----------------------------------------------------------------------------
(* The visitors' statements.                                               *)

\* Where the visitor goes from here, unless it is done.
AfterSession(op) == CASE op = "CreateCluster" -> "CreateCluster"
                      [] op = "DeleteCluster" -> "DeleteCluster"
                      [] op = "GetClusters" -> "GetClusters"
                      [] op = "GetNode" -> "GetNodeByNodeID"
                      [] OTHER -> "GetCluster"
AfterCluster(op) == CASE op = "UpdateCluster" -> "UpdateCluster"
                      [] op = "CreateNode" -> "GetNodeByHostPort"
                      [] op = "GetNodes" -> "GetNodes"
                      [] op = "DeleteNode" -> "GetNodeByNodeID"

\* The cookie's token is that of a session, or of none.
GetSession(c) ==
  /\ Executes(c, "GetSession")
  /\ Continue(c, AfterSession(request[c].op)) \/ Fail(c)
  /\ UNCHANGED <<row, tx, db>>

\* The name is unique.
CreateCluster(c) ==
  /\ Executes(c, "CreateCluster")
  /\ LET n == request[c].name IN
     IF n \notin Clusters
     THEN /\ Succeed(c)
          /\ db' = [db EXCEPT !.clusters = Insert(@, n, [id |-> c, description |-> Nothing,
                                                         password |-> Nothing])]
          /\ UNCHANGED tx
     ELSE Fail(c) /\ BreakTx /\ UNCHANGED db
  /\ UNCHANGED row

\* Mutation: UpdateCluster does not look whether there is such a cluster.
GetClusterUnchecked(c) ==
  /\ Executes(c, "GetCluster")
  /\ IF request[c].op = "UpdateCluster"
     THEN /\ row' = [row EXCEPT ![c] = [id |-> c, description |-> Nothing,
                                        password |-> Nothing]]
          /\ Continue(c, "UpdateCluster")
     ELSE Fail(c) /\ UNCHANGED row
  /\ UNCHANGED <<tx, db>>

\* GetNode answers the node it has read, the others need the cluster's row.
GetCluster(c) ==
  /\ Executes(c, "GetCluster")
  /\ LET n == request[c].name
         op == request[c].op
     IN IF n \in Clusters
        THEN /\ row' = IF op = "GetNode" THEN row
                       ELSE [row EXCEPT ![c] = db.clusters[n]]
             /\ IF op \in {"GetCluster", "GetNode"} THEN Succeed(c)
                ELSE Continue(c, AfterCluster(op))
        ELSE Fail(c) /\ UNCHANGED row
  /\ UNCHANGED <<tx, db>>

GetClusters(c) ==
  /\ Executes(c, "GetClusters")
  /\ \E p \in ClusterPages(db, request[c].name) : row' = [row EXCEPT ![c] = [page |-> p]]
  /\ Succeed(c)
  /\ UNCHANGED <<tx, db>>

\* UPDATE clusters SET name = the name asked for ... WHERE name = Name_2, which
\* is left empty.
UpdateCluster(c) ==
  /\ Executes(c, "UpdateCluster")
  /\ LET n == request[c].name IN
     \/ /\ Unnamed \notin Clusters
        /\ Fail(c)
        /\ UNCHANGED <<tx, db>>
     \/ /\ Unnamed \in Clusters
        /\ n \in Clusters \ {Unnamed}
        /\ Fail(c)
        /\ BreakTx
        /\ UNCHANGED db
     \/ /\ Unnamed \in Clusters
        /\ n \notin Clusters \ {Unnamed}
        /\ Succeed(c)
        /\ db' = [db EXCEPT !.clusters = Insert(Without(@, {Unnamed}), n, UpdatedRow(c))]
        /\ UNCHANGED tx
  /\ UNCHANGED row

\* Mutation: the nodes of the cluster stay.
DeleteClusterNoCascade(c) ==
  /\ Executes(c, "DeleteCluster")
  /\ LET n == request[c].name IN
     IF n \in Clusters
     THEN Succeed(c) /\ db' = [db EXCEPT !.clusters = Without(@, {n})]
     ELSE Fail(c) /\ UNCHANGED db
  /\ UNCHANGED <<row, tx>>

\* ON DELETE CASCADE: its nodes go with it.
DeleteCluster(c) ==
  /\ Executes(c, "DeleteCluster")
  /\ LET n == request[c].name IN
     IF n \in Clusters
     THEN /\ Succeed(c)
          /\ db' = [db EXCEPT !.clusters = Without(@, {n}),
                              !.nodes = Without(@, NodesIn(db, n))]
     ELSE Fail(c) /\ UNCHANGED db
  /\ UNCHANGED <<row, tx>>

\* CreateNode's check: passed no name, it looks for the address among the nodes
\* of the unnamed cluster.
GetNodeByHostPort(c) ==
  /\ Executes(c, "GetNodeByHostPort")
  /\ IF NodesAt(Unnamed, request[c].address) = {}
     THEN Continue(c, "GetNodeByNodeID")
     ELSE Fail(c)
  /\ UNCHANGED <<row, tx, db>>

\* CreateNode's other check, and the lookup of GetNode, are passed no name either.
GetNodeByNodeID(c) ==
  /\ Executes(c, "GetNodeByNodeID")
  /\ LET op == request[c].op
         found == NodesNamed(IF op = "DeleteNode" THEN request[c].name ELSE Unnamed,
                             request[c].nodeID)
     IN \/ /\ (found = {}) = (op = "CreateNode")
           /\ Continue(c, IF op = "GetNode" THEN "GetCluster" ELSE op)
           /\ IF op = "GetNode"
              THEN \E k \in found : row' = [row EXCEPT ![c] = db.nodes[k]]
              ELSE UNCHANGED row
        \/ /\ (found = {}) # (op = "CreateNode")
           /\ Fail(c)
           /\ UNCHANGED row
  /\ UNCHANGED <<tx, db>>

\* Mutation: an error leaves the transaction as it was.
CheckErrsHarmless(c) ==
  /\ request[c] # Nothing
  /\ request[c].op = "CreateNode"
  /\ pc[c] \in {"GetNodeByHostPort", "GetNodeByNodeID"}
  /\ Continue(c, IF pc[c] = "GetNodeByHostPort" THEN "GetNodeByNodeID" ELSE "CreateNode")
  /\ UNCHANGED <<request, row, conn, tx, db, saved>>

\* One of CreateNode's checks ends in an error, which is taken for "no such
\* node".  An error from the server has failed the transaction; that the
\* connection is busy with another request's SQL has not.
CheckErrs(c) ==
  /\ pc[c] \in {"GetNodeByHostPort", "GetNodeByNodeID"}
  /\ request[c].op = "CreateNode"
  /\ Continue(c, IF pc[c] = "GetNodeByHostPort" THEN "GetNodeByNodeID" ELSE "CreateNode")
  /\ tx' \in {IF tx = "open" THEN "failed" ELSE tx} \cup (IF Overlap THEN {tx} ELSE {})
  /\ UNCHANGED <<request, row, conn, db, saved>>

\* The cluster's id is selected again: NULL, which the column refuses, if there
\* is no such cluster any more.
CreateNode(c) ==
  /\ Executes(c, "CreateNode")
  /\ LET r == request[c] IN
     IF r.name \in Clusters
     THEN /\ Succeed(c)
          /\ db' = [db EXCEPT !.nodes = Insert(@, c, [cluster |-> db.clusters[r.name].id,
                                                      nodeID |-> r.nodeID,
                                                      address |-> r.address])]
          /\ UNCHANGED tx
     ELSE Fail(c) /\ BreakTx /\ UNCHANGED db
  /\ UNCHANGED row

GetNodes(c) ==
  /\ Executes(c, "GetNodes")
  /\ \E p \in NodePages(db, request[c].name, request[c].nodeID) :
       row' = [row EXCEPT ![c] = [page |-> {db.nodes[k] : k \in p}]]
  /\ Succeed(c)
  /\ UNCHANGED <<tx, db>>

\* Every node of that id in the cluster, not only the one that was looked up.
DeleteNode(c) ==
  /\ Executes(c, "DeleteNode")
  /\ LET found == NodesNamed(request[c].name, request[c].nodeID) IN
     IF found # {} THEN Succeed(c) ELSE Fail(c)
  /\ db' = [db EXCEPT !.nodes = Without(@, NodesNamed(request[c].name, request[c].nodeID))]
  /\ UNCHANGED <<row, tx>>
-----------------------------------------------------------------------------
Progress(c) ==
  \/ GetSession(c) \/ CreateCluster(c) \/ GetCluster(c) \/ GetClusters(c)
  \/ UpdateCluster(c) \/ DeleteCluster(c) \/ GetNodeByHostPort(c)
  \/ GetNodeByNodeID(c) \/ CheckErrs(c) \/ CreateNode(c) \/ GetNodes(c) \/ DeleteNode(c)
  \/ Visits(c)

Idle == /\ \A c \in Calls : pc[c] = "answered"
        /\ UNCHANGED vars

\* These handlers write in transactions only: SQL that is lost outside of one,
\* or in one, leaves no trace unless it is the COMMIT.
Next == \/ \E c \in Calls : Arrive(c, Requests) \/ Progress(c) \/ Lost(c, db)
        \/ Idle

Spec == Init /\ [][Next]_vars
-----------------------------------------------------------------------------
\* Every node belongs to a cluster that exists, and ids are those of one cluster.
TablesOK(tables) ==
  /\ DOMAIN tables.clusters \subseteq Names
  /\ \A n \in DOMAIN tables.clusters : tables.clusters[n] \in ClusterRow
  /\ DOMAIN tables.nodes \subseteq Calls \cup SeedNodes
  /\ \A k \in DOMAIN tables.nodes :
       /\ tables.nodes[k] \in NodeRow
       /\ \E n \in DOMAIN tables.clusters : k \in NodesIn(tables, n)

TypeOK ==
  /\ request \in [Calls -> Requests \cup {Nothing}]
  /\ status \in [Calls -> {"OK", "Error"}]
  /\ answer \in [Calls -> {"OK", "Error", Nothing}]
  /\ conn \in {"open", "closed"}
  /\ tx \in {"idle", "open", "failed"}
  /\ TablesOK(db)
  /\ TablesOK(saved)
-----------------------------------------------------------------------------
(* With Overlap = FALSE: one request at a time.                            *)

\* CreateNode refuses a node whose id or address is taken, as far as it looks: in
\* the unnamed cluster.  That holds although an error of a check counts as "not
\* taken", because the error has failed the transaction.
UnnamedNodesUnique ==
  \A k, l \in NodesIn(Committed, Unnamed) : k # l =>
    /\ Committed.nodes[k].nodeID # Committed.nodes[l].nodeID
    /\ Committed.nodes[k].address # Committed.nodes[l].address

\* A client that asks for page after page, with the last name or id it was shown,
\* until one is not full, has seen every cluster, and every node id of a cluster in
\* which the nodes without an id do not fill a page: after such a page the first comes
\* again.  (It need not have seen every node: of two with one id the second may fall
\* behind the cursor.)
Largest(s) == CHOOSE x \in s : \A y \in s : y <= x
Listed(pages, key) ==
  LET seen[cursor \in {Unnamed} \cup Range(key)] ==
        UNION {LET shown == {key[k] : k \in p} IN
               IF Cardinality(p) < PageSize \/ Largest(shown) = Unnamed
               THEN shown
               ELSE shown \cup seen[Largest(shown)] : p \in pages[cursor]}
  IN seen[Unnamed]

PagesComplete ==
  LET byName == [cursor \in {Unnamed} \cup Clusters |-> ClusterPages(db, cursor)]
  IN /\ Listed(byName, [n \in Clusters |-> n]) = Clusters
     /\ \A n \in Clusters :
          LET id == NodeIDOf(db, NodesIn(db, n))
              byID == [cursor \in {Unnamed} \cup Range(id) |-> NodePages(db, n, cursor)]
          IN Cardinality(NodesNamed(n, Unnamed)) < PageSize => Listed(byID, id) = Range(id)

\* The handlers implement the directory their documentation speaks of, as far as
\* the committed tables go: a change is the one a request being served asks for,
\* to the cluster it names, as a whole.
Dir(tables) ==
  [n \in DOMAIN tables.clusters |->
     [description |-> tables.clusters[n].description,
      password |-> tables.clusters[n].password,
      nodes |-> {[row |-> k, nodeID |-> tables.nodes[k].nodeID,
                  address |-> tables.nodes[k].address] : k \in NodesIn(tables, n)}]]
D == INSTANCE Directory WITH dir <- Dir(Committed),
                             answered <- {c \in Calls : pc[c] = "answered"}
ImplementsDirectory == D!Spec
=============================================================================
