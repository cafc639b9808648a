------------------------------ MODULE SlotPlans ------------------------------
(***************************************************************************)
(* CLI.ReshardAll, CLI.ExceptNode and CLI.MergeNode of lib/cli/cli.go: the  *)
(* cluster is read, a plan made of what was read, and Reshard called with  *)
(* it, on a cluster that may have changed meanwhile.                       *)
(*                                                                         *)
(* What a call of Reshard comes to is Reshard's and Command's promise: an  *)
(* error, or nil for a child that has done what it was started for or was   *)
(* not started, which nothing but Reshard need have caused.                *)
(* What valkey-cli makes of the plan is external: it asks for a number of  *)
(* slots and a receiving node until it is given valid ones.                *)
(***************************************************************************)
EXTENDS ClusterNodes

CONSTANTS Subjects,  \* bound: the ids that operations are called with, of nodes or not
          HalfMoved, \* bound: the nodes that may be moving a slot at the start
          Nothing    \* no result yet

ASSUME SlotPlansAssumption == /\ Subjects \subseteq Nat /\ HalfMoved \subseteq Node
                              /\ Nothing \notin {"ok", "error"}

VARIABLES masterOf,  \* per node: the master it replicates, or NoNode
          slots,     \* per node: its slots
          moving,    \* the masters that a slot is half moved to or from
          ctx,       \* the caller's context: live, done
          request,   \* the operation asked for
          pc,        \* read, plan, reshard, hangs, returned, panicked
          nodes,     \* the cluster as it was read
          plan,      \* the calls of Reshard that are left
          result,    \* what the operation returned
          changed,   \* has a replica taken over since the operation began?
          skipped    \* has a call of Reshard returned nil without its child?

clusterVars == <<masterOf, slots, moving>>
vars == <<clusterVars, ctx, request, pc, nodes, plan, result, changed, skipped>>

Masters == {n \in Node : masterOf[n] = NoNode}
All == 0

\* Every slot has one master, and a replica has a master.
ClusterOK == /\ masterOf \in [Node -> Node \cup {NoNode}]
             /\ \A n \in Node : masterOf[n] \in Masters \cup {NoNode}
             /\ slots \in [Node -> SUBSET Slot]
             /\ \A n \in Node \ Masters : slots[n] = {}
             /\ \A s \in Slot : \E n \in Node : {m \in Node : s \in slots[m]} = {n}
             /\ moving \subseteq Masters

Requests == [op : {"ReshardAll"}, target : {NoNode}, source : {NoNode}]
              \cup [op : {"ExceptNode"}, target : {NoNode}, source : Subjects]
              \cup [op : {"MergeNode"}, target : Subjects, source : Subjects]

\* Any cluster, and any operation on it.
Init == /\ masterOf \in [Node -> Node \cup {NoNode}]
        /\ \A n \in Node : masterOf[n] \in Masters \cup {NoNode}
        /\ \E owner \in [Slot -> Masters] :
             slots = [n \in Node |-> {s \in Slot : owner[s] = n}]
        /\ moving \in SUBSET (HalfMoved \cap Masters)
        /\ ctx = "live"
        /\ request \in Requests
        /\ pc = "read"
        /\ nodes = <<>>
        /\ plan = <<>>
        /\ result = Nothing
        /\ changed = FALSE
        /\ skipped = FALSE

Return(r) == pc' = "returned" /\ result' = r
-----------------------------------------------------------------------------
(* The operations.                                                         *)

\* valkey-cli cluster nodes, or its failure.  Only the node that answers shows what is
\* moving, and only of itself; the one that slots are moving to may have none.
Read == /\ pc = "read"
        /\ \/ /\ ctx = "live"
              /\ \E myself \in Node :
                   nodes' = GetClusterNodes(masterOf, slots, moving \cap {myself})
              /\ pc' = "plan"
              /\ UNCHANGED result
           \/ Return("error") /\ UNCHANGED nodes
        /\ UNCHANGED <<clusterVars, ctx, request, plan, changed, skipped>>

\* Mutation: nobody looks whether there is a call to make.
ReshardsAnyway(calls) == /\ plan' = calls
                         /\ pc' = "reshard"
                         /\ UNCHANGED result

Reshards(calls) == /\ plan' = calls
                   /\ IF calls = <<>> THEN Return("ok") ELSE pc' = "reshard" /\ UNCHANGED result

\* Every node without slots is to get its share, of all the others.
PlanReshardAll ==
  /\ request.op = "ReshardAll"
  /\ LET empty == GetNoSlotNodes(nodes) IN
     Reshards([i \in DOMAIN empty |->
                 [target |-> empty[i].id, count |-> MaxSlots \div Len(nodes), source |-> All]])

\* The nodes ExceptNode looks at.
Borders == {i \in DOMAIN nodes : nodes[i].slots # <<>> /\ ~nodes[i].slave}

First(i) == nodes[i].slots[1]
Last(i) == nodes[i].slots[Len(nodes[i].slots)]

\* Mutation: the last slot is not counted.
SpanShort(i) == Last(i) - First(i)

Span(i) == Last(i) - First(i) + 1

\* Mutation: one neighbour is enough.
NoNeighbourAtAll(under, over) == under = {} /\ over = {}

\* ExceptNode wants both, and then takes either.
NoNeighbour(under, over) == under = {} \/ over = {}

\* As many slots as lie from the node's first to its last are to go to the node
\* before or the node after it.  A node that is not found has the borders 0 and 0.
PlanExceptNode ==
  /\ request.op = "ExceptNode"
  /\ LET excepted == {i \in Borders : nodes[i].id = request.source}
         underSlot == IF excepted = {} THEN 0 ELSE First(request.source)
         overSlot == IF excepted = {} THEN 0 ELSE Last(request.source)
         count == IF excepted = {} THEN 0 ELSE Span(request.source)
         over == {i \in Borders : First(i) = overSlot + 1}
         under == {i \in Borders : Last(i) = underSlot - 1}
         Latest(s) == CHOOSE i \in s : \A j \in s : j <= i
     IN IF NoNeighbour(under, over)
        THEN Return("error") /\ UNCHANGED plan
        ELSE \E found \in {over, under} \ {{}} :
               Reshards(<<[target |-> nodes[Latest(found)].id, count |-> count,
                           source |-> request.source]>>)

\* Mutation: the last slot of a block is not counted.
CountPairsShort(s) ==
  LET count[i \in 0..(Len(s) \div 2)] ==
        IF i = 0 THEN 0 ELSE count[i - 1] + s[2 * i] - s[2 * i - 1]
  IN count[Len(s) \div 2]

\* The numbers are taken two by two.
CountPairs(s) ==
  LET count[i \in 0..(Len(s) \div 2)] ==
        IF i = 0 THEN 0 ELSE count[i - 1] + s[2 * i] - s[2 * i - 1] + 1
  IN count[Len(s) \div 2]

\* An odd number of them is an index out of range.
PlanMergeNode ==
  /\ request.op = "MergeNode"
  /\ LET s == nodes[request.source].slots IN
     IF {request.target, request.source} \subseteq DOMAIN nodes
     THEN IF Len(s) % 2 = 1
          THEN pc' = "panicked" /\ UNCHANGED <<plan, result>>
          ELSE Reshards(<<[target |-> request.target, count |-> CountPairs(s),
                           source |-> request.source]>>)
     ELSE Return("error") /\ UNCHANGED plan

Plan == /\ pc = "plan"
        /\ PlanReshardAll \/ PlanExceptNode \/ PlanMergeNode
        /\ UNCHANGED <<clusterVars, ctx, request, nodes, changed, skipped>>
-----------------------------------------------------------------------------
(* The calls of Reshard.                                                   *)

Call == Head(plan)
Sources == IF Call.source = All THEN Masters \ {Call.target} ELSE {Call.source}

\* Unless a slot is half moved, when valkey-cli gives up at once, its first two
\* questions are asked until the answer is valid.
Accepted == Call.count \in 1..MaxSlots /\ Call.target \in Masters

\* It moves no slots of a source that is no other master.
Possible == Accepted /\ moving = {} /\ Sources \subseteq Masters \ {Call.target}

\* What valkey-cli takes from the sources: from each in proportion to what it has,
\* rounded up for the largest (any of the largest) and down for the others, lowest
\* slots first.
Total == Cardinality(UNION {slots[n] : n \in Sources})
Share(n, largest) ==
  LET part == Call.count * Cardinality(slots[n]) IN
  IF n = largest THEN (part + Total - 1) \div Total ELSE part \div Total
Taken(n, largest) ==
  {s \in slots[n] : Cardinality({t \in slots[n] : t < s}) < Share(n, largest)}

Move(s) == slots' = [n \in Node |-> IF n = Call.target THEN slots[n] \cup s ELSE slots[n] \ s]

\* Reshard returned nil.
Succeeds == /\ plan' = Tail(plan)
            /\ IF plan' = <<>> THEN Return("ok") ELSE UNCHANGED <<pc, result>>

\* Mutation: ReshardAll goes on with the next node.
FailsOn == /\ plan' = Tail(plan)
           /\ IF plan' = <<>> THEN Return("ok") ELSE UNCHANGED <<pc, result>>

\* Reshard returned an error, and so does the operation; what has been moved stays.
Fails == Return("error") /\ UNCHANGED plan

\* The context of this call was cancelled before valkey-cli was started: nil.  The
\* caller need not have done so: React has a tick of its own (cli.go:330).
NotStarted == /\ Succeeds
              /\ skipped' = TRUE
              /\ UNCHANGED clusterVars

Moved == /\ Possible
         /\ IF Total = 0
            THEN UNCHANGED slots
            ELSE \E largest \in {n \in Sources : \A m \in Sources :
                                   Cardinality(slots[m]) <= Cardinality(slots[n])} :
                   Move(UNION {Taken(n, largest) : n \in Sources})
         /\ Succeeds
         /\ UNCHANGED <<masterOf, moving, skipped>>

\* It fails, is killed, or is turned down, with some of the slots moved or none,
\* and one perhaps half moved, which its source, the receiver or both still have to
\* be told of.
Broke == /\ Fails
         /\ \/ UNCHANGED <<slots, moving>>
            \/ /\ Possible
               /\ \E n \in Sources : \E s \in slots[n] :
                    /\ Move({t \in slots[n] : t < s})
                    /\ moving' \in SUBSET {n, Call.target}
         /\ UNCHANGED <<masterOf, skipped>>

Hangs == /\ moving = {}
         /\ ~Accepted
         /\ pc' = "hangs"
         /\ UNCHANGED <<clusterVars, plan, result, skipped>>

Reshard == /\ pc = "reshard"
           /\ NotStarted \/ Moved \/ Broke \/ Hangs
           /\ UNCHANGED <<ctx, request, nodes, changed>>

\* Only the caller's context ends a dialogue that goes round in circles.
Killed == /\ pc = "hangs"
          /\ ctx = "done"
          /\ Fails
          /\ UNCHANGED <<clusterVars, ctx, request, nodes, changed, skipped>>

Cancel == /\ ctx = "live"
          /\ ctx' = "done"
          /\ UNCHANGED <<clusterVars, request, pc, nodes, plan, result, changed, skipped>>

\* A replica takes its master's place and slots.
Failover == /\ pc \in {"plan", "reshard"}
            /\ moving = {}
            /\ \E n \in Node \ Masters :
                 LET old == masterOf[n] IN
                 /\ masterOf' = [m \in Node |-> IF m = n THEN NoNode
                                                ELSE IF m = old \/ masterOf[m] = old THEN n
                                                ELSE masterOf[m]]
                 /\ slots' = [slots EXCEPT ![n] = slots[old], ![old] = {}]
            /\ changed' = TRUE
            /\ UNCHANGED <<moving, ctx, request, pc, nodes, plan, result, skipped>>

Next == \/ Read \/ Plan \/ Reshard \/ Killed \/ Cancel \/ Failover
        \/ pc \in {"returned", "panicked", "hangs"} /\ UNCHANGED vars

Spec == Init /\ [][Next]_vars
-----------------------------------------------------------------------------
TypeOK == /\ ClusterOK
          /\ ctx \in {"live", "done"}
          /\ request \in Requests
          /\ pc \in {"read", "plan", "reshard", "hangs", "returned", "panicked"}
          /\ pc = "reshard" => plan # <<>>
          /\ result \in {Nothing, "ok", "error"}
          /\ changed \in BOOLEAN
          /\ skipped \in BOOLEAN

\* The operation returns nil in this step, and every call of Reshard has started its
\* child: nil for one that has not would have nothing moved, and says so to nobody.
Done == result = Nothing /\ result' = "ok" /\ ~skipped'

\* An ExceptNode that returns nil leaves no slots on the node it was called for,
\* however its slots lie, although it counts the span of them; and whoever has
\* failed over meanwhile.
ExceptNodeEmpties ==
  [][Done /\ request.op = "ExceptNode" => slots'[request.source] = {}]_vars

\* A MergeNode that returns nil leaves none on its source, whichever node answered and
\* whoever has failed over since, if that had no block of a single slot, which it would
\* have paired with one of another block.
NoSingles(n) == \A s \in slots[n] : s - 1 \in slots[n] \/ s + 1 \in slots[n]
MergeNodeEmpties ==
  [][Done /\ request.op = "MergeNode" /\ NoSingles(request.source)
       => slots'[request.source] = {}]_vars

\* When ReshardAll has returned nil every master has slots, those it has taken from
\* included, unless a node has taken over another's slots since it counted them; and
\* except for one that a slot is half moved to, which may look as if it had slots.
ReshardAllFills ==
  [][Done /\ request.op = "ReshardAll" /\ ~changed
       => \A n \in Masters \ moving : slots'[n] # {}]_vars

\* ExceptNode names a master and a number of slots that there may be, whichever node
\* or id it is called for: its dialogue does not go round in circles until the
\* caller gives up, as that of ReshardAll with a replica does.
ExceptNodeEnds == request.op = "ExceptNode" /\ ~changed => pc # "hangs"
=============================================================================
