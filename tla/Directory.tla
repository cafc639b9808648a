------------------------------ MODULE Directory ------------------------------
(***************************************************************************)
(* What the handlers of clusters and nodes promise to a client: a directory *)
(* of clusters by name, each with its nodes, that changes only as a request *)
(* names it, all at once, while the request is being served.               *)
(***************************************************************************)
EXTENDS Naturals

CONSTANTS Calls,     \* the requests
          Nothing    \* no request yet

VARIABLES request,   \* per call: the request
          answered,  \* the calls that have been answered
          dir        \* name -> [description, password, nodes]

vars == <<request, answered, dir>>

Init == /\ request = [c \in Calls |-> Nothing]
        /\ answered = {}

Arrive(c) == /\ request[c] = Nothing
             /\ \A d \in Calls \ {c} : request'[d] = request[d]
             /\ UNCHANGED <<answered, dir>>

Reply(c) == /\ request[c] # Nothing
            /\ answered' = answered \cup {c}
            /\ UNCHANGED <<request, dir>>

\* The change of a request, before its answer or with it.
Serves(c, op) == /\ c \notin answered
                 /\ request[c] # Nothing
                 /\ request[c].op = op
                 /\ answered' \in {answered, answered \cup {c}}
                 /\ UNCHANGED request

\* The other clusters are left as they are.
OthersKept(n) == \A m \in DOMAIN dir \ {n} : m \in DOMAIN dir' /\ dir'[m] = dir[m]

CreateCluster(c, n) ==
  /\ Serves(c, "CreateCluster")
  /\ n \notin DOMAIN dir
  /\ DOMAIN dir' = DOMAIN dir \cup {n}
  /\ OthersKept(n)
  /\ dir'[n] = [description |-> Nothing, password |-> Nothing, nodes |-> {}]

\* What the request leaves out is kept.
UpdateCluster(c, n) ==
  /\ Serves(c, "UpdateCluster")
  /\ n \in DOMAIN dir
  /\ dir' = [dir EXCEPT
       ![n].description = IF "description" \in request[c].given THEN c ELSE @,
       ![n].password = IF "password" \in request[c].given THEN c ELSE @]

DeleteCluster(c, n) ==
  /\ Serves(c, "DeleteCluster")
  /\ n \in DOMAIN dir
  /\ DOMAIN dir' = DOMAIN dir \ {n}
  /\ OthersKept(n)

CreateNode(c, n) ==
  /\ Serves(c, "CreateNode")
  /\ n \in DOMAIN dir
  /\ dir' = [dir EXCEPT ![n].nodes = @ \cup
       {[row |-> c, nodeID |-> request[c].nodeID, address |-> request[c].address]}]

\* All nodes of that id go, however many there are.
DeleteNode(c, n) ==
  /\ Serves(c, "DeleteNode")
  /\ n \in DOMAIN dir
  /\ dir' = [dir EXCEPT ![n].nodes = {k \in @ : k.nodeID # request[c].nodeID}]
  /\ dir' # dir

Change(c, n) == \/ CreateCluster(c, n) \/ UpdateCluster(c, n) \/ DeleteCluster(c, n)
                \/ CreateNode(c, n) \/ DeleteNode(c, n)

Next == \E c \in Calls : \/ Arrive(c) \/ Reply(c)
                         \/ request[c] # Nothing /\ Change(c, request[c].name)

Spec == Init /\ [][Next]_vars
=============================================================================
