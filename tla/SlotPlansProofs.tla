--------------------------- MODULE SlotPlansProofs ---------------------------
(***************************************************************************)
(* Proofs about SlotPlans.                                                 *)
(***************************************************************************)
EXTENDS SlotPlans, FiniteSetTheorems, SequenceTheorems, TLAPS

\* There are slots.
LEMMA SlotNumbers == MaxSlots \in Nat \ {0} /\ Slot \subseteq Nat
BY ClusterNodesAssumption DEF Slot

\* There are N nodes, and none has the number NoNode.
LEMMA NodeNumbers ==
  /\ N \in Nat \ {0} /\ NoNode \notin Node /\ Node \subseteq Nat
  /\ IsFiniteSet(Node) /\ Cardinality(Node) = N
<1>1. N \in Nat \ {0}
  BY ClusterNodesAssumption
<1> QED
  BY <1>1, FS_Interval DEF NoNode, Node

-----------------------------------------------------------------------------
(* Every slot has one master.                                              *)

\* The same of slots sl, in the shape in which steps preserve it.
Owned(sl) == \A s \in Slot : /\ \E n \in Node : s \in sl[n]
                             /\ \A n, m \in Node : s \in sl[n] /\ s \in sl[m] => n = m

\* The two shapes say the same.
LEMMA OwnedForm ==
  ASSUME NEW sl
  PROVE  (\A s \in Slot : \E n \in Node : {m \in Node : s \in sl[m]} = {n}) <=> Owned(sl)
<1>1. ASSUME NEW s \in Slot
      PROVE  (\E n \in Node : {m \in Node : s \in sl[m]} = {n})
               <=> /\ \E n \in Node : s \in sl[n]
                   /\ \A n, m \in Node : s \in sl[n] /\ s \in sl[m] => n = m
  <2>1. ASSUME NEW n \in Node, {m \in Node : s \in sl[m]} = {n}
        PROVE  s \in sl[n] /\ \A m \in Node : s \in sl[m] => m = n
    BY <2>1
  <2>2. ASSUME NEW n \in Node, s \in sl[n], \A m \in Node : s \in sl[m] => m = n
        PROVE  {m \in Node : s \in sl[m]} = {n}
    BY <2>2
  <2> QED
    BY <2>1, <2>2
<1> QED
  BY <1>1 DEF Owned

\* Slots that go to a master, whichever they are and whoever had them, leave every
\* slot with one master.
LEMMA MovesKeepCluster ==
  ASSUME ClusterOK, NEW to \in Masters, NEW s, s \subseteq Slot,
         slots' = [n \in Node |-> IF n = to THEN slots[n] \cup s ELSE slots[n] \ s],
         masterOf' = masterOf, moving' \subseteq Masters
  PROVE  ClusterOK'
<1>1. to \in Node /\ Masters' = Masters
  BY DEF Masters
<1>2. Owned(slots')
  <2>1. Owned(slots)
    BY OwnedForm DEF ClusterOK
  <2> QED
    BY <1>1, <2>1 DEF Owned, ClusterOK
<1>3. slots' \in [Node -> SUBSET Slot] /\ \A n \in Node \ Masters : slots'[n] = {}
  BY <1>1 DEF ClusterOK, Masters
<1> QED
  BY <1>1, <1>2, <1>3, OwnedForm DEF ClusterOK

\* A replica's master is a master, and no replica.
LEMMA ReplicasMaster ==
  ASSUME ClusterOK, NEW n \in Node \ Masters
  PROVE  masterOf[n] \in Masters /\ masterOf[n] # n
BY NodeNumbers DEF ClusterOK, Masters

\* A replica that takes its master's place leaves every slot with one master.
LEMMA FailoverKeepsCluster ==
  ASSUME ClusterOK, Failover
  PROVE  ClusterOK'
<1>1. PICK n \in Node \ Masters :
        /\ masterOf' = [m \in Node |-> IF m = n THEN NoNode
                                       ELSE IF m = masterOf[n] \/ masterOf[m] = masterOf[n]
                                       THEN n ELSE masterOf[m]]
        /\ slots' = [slots EXCEPT ![n] = slots[masterOf[n]], ![masterOf[n]] = {}]
  BY DEF Failover
<1> DEFINE old == masterOf[n]
<1>2. old \in Masters /\ old # n /\ old \in Node
  BY ReplicasMaster DEF Masters
<1>3. Masters' = (Masters \ {old}) \cup {n}
  BY <1>1, <1>2, NodeNumbers DEF Masters, ClusterOK
<1>4. masterOf' \in [Node -> Node \cup {NoNode}]
  BY <1>1 DEF ClusterOK
<1>5. \A m \in Node : masterOf'[m] \in Masters' \cup {NoNode}
  BY <1>1, <1>2, <1>3 DEF ClusterOK
<1>6. \A m \in Node : slots'[m] = IF m = n THEN slots[old] ELSE IF m = old THEN {} ELSE slots[m]
  BY <1>1, <1>2 DEF ClusterOK
<1>7. slots' \in [Node -> SUBSET Slot]
  BY <1>1, <1>2 DEF ClusterOK
<1>8. \A m \in Node \ Masters' : slots'[m] = {}
  BY <1>2, <1>3, <1>6 DEF ClusterOK
<1>9. Owned(slots')
  <2>1. Owned(slots) /\ slots[n] = {}
    BY OwnedForm DEF ClusterOK
  <2> QED
    BY <1>2, <1>6, <2>1 DEF Owned
<1>10. moving' \subseteq Masters'
  BY DEF Failover
<1> QED
  BY <1>4, <1>5, <1>7, <1>8, <1>9, <1>10, OwnedForm DEF ClusterOK

\* The clusters that an operation may find.
LEMMA InitCluster == Init => ClusterOK
<1> SUFFICES ASSUME Init PROVE ClusterOK
  OBVIOUS
<1>1. PICK owner \in [Slot -> Masters] : slots = [n \in Node |-> {s \in Slot : owner[s] = n}]
  BY DEF Init
<1>2. Masters \subseteq Node
  BY DEF Masters
<1>3. Owned(slots)
  BY <1>1, <1>2 DEF Owned
<1>4. \A n \in Node \ Masters : slots[n] = {}
  BY <1>1
<1>5. slots \in [Node -> SUBSET Slot]
  BY <1>1
<1>6. moving \subseteq Masters
  BY DEF Init
<1> QED
  BY <1>3, <1>4, <1>5, <1>6, OwnedForm DEF Init, ClusterOK

\* What valkey-cli moves when Reshard comes to its end, or to half of it.
LEMMA ReshardKeepsCluster ==
  ASSUME ClusterOK, Reshard
  PROVE  ClusterOK'
<1>1. CASE UNCHANGED clusterVars
  BY <1>1 DEF clusterVars, ClusterOK, Masters
<1>2. CASE Moved /\ Total # 0
  <2>1. Call.target \in Masters /\ Sources \subseteq Node
    BY <1>2 DEF Moved, Possible, Accepted, Masters
  <2>2. PICK largest \in Sources : Move(UNION {Taken(n, largest) : n \in Sources})
    BY <1>2 DEF Moved
  <2> DEFINE s == UNION {Taken(n, largest) : n \in Sources}
  <2>3. s \subseteq Slot
    BY <2>1 DEF Taken, ClusterOK
  <2>4. masterOf' = masterOf /\ moving' \subseteq Masters
    BY <1>2 DEF Moved, ClusterOK
  <2> QED
    BY <2>1, <2>2, <2>3, <2>4, MovesKeepCluster DEF Move
<1>3. CASE Broke /\ ~UNCHANGED <<slots, moving>>
  <2>1. PICK n \in Sources : \E s \in slots[n] :
          Move({t \in slots[n] : t < s}) /\ moving' \in SUBSET {n, Call.target}
    BY <1>3 DEF Broke
  <2>2. PICK s \in slots[n] : Move({t \in slots[n] : t < s}) /\ moving' \in SUBSET {n, Call.target}
    BY <2>1
  <2>3. Call.target \in Masters /\ n \in Masters /\ n \in Node
    BY <1>3 DEF Broke, Possible, Accepted, Masters
  <2>4. {t \in slots[n] : t < s} \subseteq Slot /\ masterOf' = masterOf
    BY <1>3, <2>3 DEF ClusterOK, Broke
  <2> QED
    BY <2>2, <2>3, <2>4, MovesKeepCluster DEF Move
<1> QED
  BY <1>1, <1>2, <1>3 DEF Reshard, NotStarted, Moved, Broke, Hangs, clusterVars
-----------------------------------------------------------------------------
(* Types.                                                                  *)

\* An operation's calls of Reshard are planned when there are some.
LEMMA PlanSteps ==
  ASSUME Plan
  PROVE  /\ pc = "plan" /\ UNCHANGED <<clusterVars, ctx, request, nodes, changed, skipped>>
         /\ \/ pc' = "reshard" /\ plan' # <<>> /\ UNCHANGED result
            \/ pc' = "returned" /\ result' \in {"ok", "error"}
            \/ pc' = "panicked" /\ UNCHANGED result
BY DEF Plan, PlanReshardAll, PlanExceptNode, PlanMergeNode, Reshards, Return

\* A call of Reshard ends the operation, leads to the next call, or hangs.
LEMMA ReshardSteps ==
  ASSUME Reshard
  PROVE  /\ pc = "reshard" /\ UNCHANGED <<ctx, request, nodes, changed>>
         /\ skipped' = skipped \/ skipped' = TRUE
         /\ \/ pc' = "reshard" /\ plan' # <<>> /\ plan' = Tail(plan) /\ UNCHANGED result
            \/ pc' = "returned" /\ result' \in {"ok", "error"}
            \/ pc' = "hangs" /\ UNCHANGED result
BY DEF Reshard, NotStarted, Moved, Broke, Hangs, Succeeds, Fails, Return

\* The types, and every slot of a cluster that has it with one master.
THEOREM PlansTypeOK == Spec => []TypeOK
<1>1. Init => TypeOK
  BY InitCluster, SlotPlansAssumption DEF Init, TypeOK
<1>2. TypeOK /\ [Next]_vars => TypeOK'
  <2> SUFFICES ASSUME TypeOK, [Next]_vars PROVE TypeOK'
    OBVIOUS
  <2>1. CASE Read
    BY <2>1 DEF Read, TypeOK, Return, clusterVars, ClusterOK, Masters
  <2>2. CASE Plan
    BY <2>2, PlanSteps DEF TypeOK, clusterVars, ClusterOK, Masters
  <2>3. CASE Reshard
    BY <2>3, ReshardSteps, ReshardKeepsCluster DEF TypeOK
  <2>4. CASE Killed
    BY <2>4 DEF Killed, Fails, TypeOK, Return, clusterVars, ClusterOK, Masters
  <2>5. CASE Cancel
    BY <2>5 DEF Cancel, TypeOK, clusterVars, ClusterOK, Masters
  <2>6. CASE Failover
    <3>1. UNCHANGED <<ctx, request, pc, plan, result, skipped>> /\ changed' = TRUE
      BY <2>6 DEF Failover
    <3> QED
      BY <2>6, <3>1, FailoverKeepsCluster DEF TypeOK
  <2>7. CASE UNCHANGED vars
    BY <2>7 DEF vars, TypeOK, clusterVars, ClusterOK, Masters
  <2> QED
    BY <2>1, <2>2, <2>3, <2>4, <2>5, <2>6, <2>7 DEF Next
<1> QED
  BY <1>1, <1>2, PTL DEF Spec
-----------------------------------------------------------------------------
(* The numbers of a set in order.                                          *)

\* How many of s are lower than x.
Rank(s, x) == Cardinality({y \in s : y < x})

\* The lower of two has the lower rank, and every rank is less than the number of
\* them all.
LEMMA Ranks ==
  ASSUME NEW s, s \subseteq Nat, IsFiniteSet(s)
  PROVE  /\ Cardinality(s) \in Nat
         /\ \A x \in s : Rank(s, x) \in 0..(Cardinality(s) - 1)
         /\ \A x, z \in s : x < z => Rank(s, x) < Rank(s, z)
<1>1. ASSUME NEW x \in s, NEW t \in SUBSET s, {y \in s : y < x} \subseteq t, x \in t
      PROVE  /\ Cardinality({y \in s : y < x}) \in Nat /\ Cardinality(t) \in Nat
             /\ Cardinality({y \in s : y < x}) < Cardinality(t)
  <2> DEFINE b == {y \in s : y < x}
  <2>1. IsFiniteSet(t) /\ Cardinality(t) \in Nat
    BY <1>1, FS_Subset, FS_CardinalityType
  <2>2. b \in SUBSET t /\ x \notin b /\ x \in t
    BY <1>1
  <2>3. IsFiniteSet(b) /\ Cardinality(b) <= Cardinality(t) /\ (Cardinality(t) = Cardinality(b) => t = b)
    <3> HIDE DEF b
    <3> QED
      BY <2>1, <2>2, FS_Subset
  <2>4. Cardinality(b) \in Nat
    BY <2>3, FS_CardinalityType
  <2> QED
    BY <2>1, <2>2, <2>3, <2>4
<1>2. \A x \in s : Rank(s, x) \in Nat /\ Rank(s, x) < Cardinality(s)
  BY <1>1 DEF Rank
<1>3. ASSUME NEW x \in s, NEW z \in s, x < z PROVE Rank(s, x) < Rank(s, z)
  <2>1. {y \in s : y < z} \in SUBSET s /\ x \in {y \in s : y < z}
    BY <1>3
  <2>2. {y \in s : y < x} \subseteq {y \in s : y < z}
    <3>1. ASSUME NEW y \in s, y < x PROVE y < z
      <4>1. x \in Nat /\ y \in Nat /\ z \in Nat
        OBVIOUS
      <4> QED
        BY <1>3, <3>1, <4>1
    <3> QED
      BY <3>1
  <2> QED
    BY <1>1, <2>1, <2>2 DEF Rank
<1> QED
  BY <1>2, <1>3, FS_CardinalityType

\* Every rank that there may be is somebody's.
LEMMA RanksTaken ==
  ASSUME NEW s, s \subseteq Nat, IsFiniteSet(s), NEW r \in 0..(Cardinality(s) - 1)
  PROVE  \E x \in s : Rank(s, x) = r
<1> DEFINE t == 0..(Cardinality(s) - 1)
           f == [x \in s |-> Rank(s, x)]
<1>1. Cardinality(s) \in Nat
  BY FS_CardinalityType
<1>2. IsFiniteSet(t) /\ Cardinality(t) = Cardinality(s)
  BY <1>1, FS_Interval
<1>3. f \in Injection(s, t)
  <2>1. f \in [s -> t]
    BY Ranks
  <2>2. ASSUME NEW x \in s, NEW z \in s, f[x] = f[z] PROVE x = z
    <3>1. x \in Nat /\ z \in Nat
      OBVIOUS
    <3>2. Rank(s, x) = Rank(s, z)
      BY <2>2
    <3>3. /\ Rank(s, x) \in 0..(Cardinality(s) - 1) /\ Cardinality(s) \in Nat
          /\ x < z => Rank(s, x) < Rank(s, z)
          /\ z < x => Rank(s, z) < Rank(s, x)
      BY Ranks
    <3> QED
      BY <3>1, <3>2, <3>3
  <2> QED
    BY <2>1, <2>2 DEF Injection, IsInjective
<1>4. f \in Surjection(s, t)
  <2> HIDE DEF f, t
  <2> QED
    BY <1>2, <1>3, FS_Injection
<1> QED
  BY <1>4 DEF Surjection

\* InOrder has every number of a set at its rank, and so the lowest first and the
\* highest last.
LEMMA InOrderRanks ==
  ASSUME NEW s, s \subseteq Nat, IsFiniteSet(s)
  PROVE  /\ Len(InOrder(s)) = Cardinality(s) /\ Cardinality(s) \in Nat
         /\ InOrder(s) \in Seq(s)
         /\ \A k \in 1..Cardinality(s) : InOrder(s)[k] \in s /\ Rank(s, InOrder(s)[k]) = k - 1
<1>1. Cardinality(s) \in Nat
  BY FS_CardinalityType
<1>2. ASSUME NEW k \in 1..Cardinality(s)
      PROVE  InOrder(s)[k] \in s /\ Rank(s, InOrder(s)[k]) = k - 1
  <2>1. k - 1 \in 0..(Cardinality(s) - 1)
    BY <1>1
  <2>2. \E x \in s : Rank(s, x) = k - 1
    BY <2>1, RanksTaken
  <2> QED
    BY <2>2 DEF InOrder, Rank
<1>3. InOrder(s) \in [1..Cardinality(s) -> s]
  BY <1>2 DEF InOrder
<1> QED
  BY <1>1, <1>2, <1>3

\* Nobody is lower than the first, or higher than the last.
LEMMA InOrderEnds ==
  ASSUME NEW s, s \subseteq Nat, IsFiniteSet(s), NEW x \in s
  PROVE  /\ Cardinality(s) \in Nat \ {0}
         /\ InOrder(s)[1] \in s /\ InOrder(s)[1] <= x
         /\ InOrder(s)[Cardinality(s)] \in s /\ x <= InOrder(s)[Cardinality(s)]
<1>1. Cardinality(s) \in Nat \ {0}
  BY FS_CardinalityType, FS_EmptySet
<1>2. PICK low : low = InOrder(s)[1]
  OBVIOUS
<1>3. PICK high : high = InOrder(s)[Cardinality(s)]
  OBVIOUS
<1>4. 1 \in 1..Cardinality(s) /\ Cardinality(s) \in 1..Cardinality(s)
  BY <1>1
<1>5. \A k \in 1..Cardinality(s) : InOrder(s)[k] \in s /\ Rank(s, InOrder(s)[k]) = k - 1
  BY InOrderRanks
<1>6. low \in s /\ Rank(s, low) = 0 /\ high \in s /\ Rank(s, high) = Cardinality(s) - 1
  BY <1>1, <1>2, <1>3, <1>4, <1>5
<1>7. /\ Rank(s, x) \in 0..(Cardinality(s) - 1)
      /\ x < low => Rank(s, x) < Rank(s, low)
      /\ high < x => Rank(s, high) < Rank(s, x)
  BY <1>6, Ranks
<1>8. ~(x < low) /\ ~(high < x)
  BY <1>1, <1>6, <1>7
<1>9. x \in Nat /\ low \in Nat /\ high \in Nat
  BY <1>6
<1> QED
  BY <1>1, <1>2, <1>3, <1>6, <1>8, <1>9
-----------------------------------------------------------------------------
(* What is read of a cluster.                                              *)

\* Slots are numbers, and there are no more of them than MaxSlots.
LEMMA SlotSets ==
  ASSUME NEW s, s \subseteq Slot
  PROVE  s \subseteq Nat /\ IsFiniteSet(s) /\ Cardinality(s) \in Nat
<1>1. IsFiniteSet(Slot) /\ Slot \subseteq Nat
  BY SlotNumbers, FS_Interval DEF Slot
<1> QED
  BY <1>1, FS_Subset, FS_CardinalityType

\* The numbers of a node's blocks are slots of its own, the first no higher than any
\* of its slots and the last no lower; a node without slots has none.
LEMMA BorderEnds ==
  ASSUME NEW s, s \subseteq Slot
  PROVE  /\ Border(s) \in Seq(Slot)
         /\ s = {} => Border(s) = <<>>
         /\ \A x \in s : /\ Border(s) # <<>>
                         /\ Border(s)[1] \in Slot /\ Border(s)[1] <= x
                         /\ Border(s)[Len(Border(s))] \in Slot /\ x <= Border(s)[Len(Border(s))]
<1> DEFINE b == {i \in s : i - 1 \notin s \/ i + 1 \notin s}
<1>0. s \subseteq Nat /\ IsFiniteSet(s) /\ b \subseteq s /\ Border(s) = InOrder(b)
  BY SlotSets DEF Border
<1>1. b \subseteq Nat /\ IsFiniteSet(b) /\ Slot \subseteq Nat
  <2> HIDE DEF b
  <2> QED
    BY <1>0, SlotSets DEF Slot
<1>2. /\ Len(Border(s)) = Cardinality(b) /\ Cardinality(b) \in Nat
      /\ Border(s) \in Seq(b)
  <2> HIDE DEF b
  <2> QED
    BY <1>0, <1>1, InOrderRanks
<1>3. Border(s) \in Seq(Slot)
  <2> HIDE DEF b
  <2>1. b \subseteq Slot
    BY <1>0
  <2> QED
    BY <1>2, <2>1, SeqMonotonic
<1>4. ASSUME s = {} PROVE Border(s) = <<>>
  <2>1. b = {}
    BY <1>4
  <2> HIDE DEF b
  <2>2. Len(Border(s)) = 0
    BY <1>2, <2>1, FS_EmptySet
  <2> QED
    BY <1>3, <2>2
<1>5. ASSUME NEW x \in s
      PROVE  \E low \in b : low <= x
  <2>1. PICK low \in s : \A y \in s : low <= y
    BY <1>0, <1>5, InOrderEnds
  <2>2. low \in Nat
    BY <1>0
  <2>3. low - 1 \notin s
    BY <2>1, <2>2
  <2> QED
    BY <1>5, <2>1, <2>3
<1>6. ASSUME NEW x \in s
      PROVE  \E high \in b : x <= high
  <2>1. PICK high \in s : \A y \in s : y <= high
    BY <1>0, <1>6, InOrderEnds
  <2>2. high \in Nat
    BY <1>0
  <2>3. high + 1 \notin s
    BY <2>1, <2>2
  <2> QED
    BY <1>6, <2>1, <2>3
<1>7. ASSUME NEW x \in s
      PROVE  /\ Border(s) # <<>>
             /\ Border(s)[1] \in Slot /\ Border(s)[1] <= x
             /\ Border(s)[Len(Border(s))] \in Slot /\ x <= Border(s)[Len(Border(s))]
  <2>1. PICK low \in b : low <= x
    BY <1>5
  <2>2. PICK high \in b : x <= high
    BY <1>6
  <2> HIDE DEF b
  <2>3. /\ Cardinality(b) \in Nat \ {0}
        /\ InOrder(b)[1] \in b /\ InOrder(b)[1] <= low
    BY <1>1, InOrderEnds
  <2>4. InOrder(b)[Cardinality(b)] \in b /\ high <= InOrder(b)[Cardinality(b)]
    BY <1>1, InOrderEnds
  <2>5. x \in Nat /\ low \in Nat /\ high \in Nat /\ b \subseteq Slot
    BY <1>0, <1>1
  <2>6. InOrder(b)[1] \in Nat /\ InOrder(b)[Cardinality(b)] \in Nat
    BY <1>1, <2>3, <2>4
  <2> QED
    BY <1>0, <1>2, <2>1, <2>2, <2>3, <2>4, <2>5, <2>6
<1> QED
  BY <1>3, <1>4, <1>7

\* Every node is read, with numbers for its slots; those of a master whose line shows
\* no slot half moved are the borders of its own.
LEMMA NodesRead ==
  ASSUME ClusterOK, NEW shown, NEW nd, nd = GetClusterNodes(masterOf, slots, shown)
  PROVE  /\ DOMAIN nd = Node
         /\ \A i \in Node : /\ nd[i].id = i
                            /\ nd[i].slots \in Seq(Nat)
                            /\ ~nd[i].slave <=> i \in Masters
                            /\ i \in Masters \ shown => nd[i].slots = Border(slots[i])
                            /\ i \in Masters => (nd[i].slots = <<>> <=> slots[i] = {} /\ i \notin shown)
<1>1. ASSUME NEW i \in Node
      PROVE  /\ nd[i].id = i
             /\ nd[i].slots \in Seq(Nat)
             /\ ~nd[i].slave <=> i \in Masters
             /\ i \in Masters \ shown => nd[i].slots = Border(slots[i])
             /\ i \in Masters => (nd[i].slots = <<>> <=> slots[i] = {} /\ i \notin shown)
  <2> DEFINE before == \E j \in 1..(i - 1) : masterOf[j] # NoNode
             line == Line(i, masterOf, slots, shown)
  <2>1. nd[i] = ParseLine(line, before)
    BY DEF GetClusterNodes
  <2>0. slots[i] \subseteq Slot /\ Slot \subseteq Nat
    BY DEF ClusterOK, Slot
  <2>2. Border(slots[i]) \in Seq(Nat)
    <3>1. Border(slots[i]) \in Seq(Slot)
      BY <2>0, BorderEnds
    <3> QED
      BY <2>0, <3>1, SeqMonotonic
  <2>3. /\ line.id = i /\ line.master = masterOf[i] /\ line.blocks = Border(slots[i])
        /\ line.moving = (i \in shown)
    BY DEF Line
  <2> HIDE DEF before, line
  <2> DEFINE words == IF line.master # NoNode /\ before
                      THEN <<0, Stamp, Epoch, 0>>
                      ELSE line.blocks \o (IF line.moving THEN <<0, 0>> ELSE <<>>)
  <2>9. nd[i] = [id |-> line.id, slave |-> line.master # NoNode, slots |-> words]
    BY <2>1 DEF ParseLine
  <2> HIDE DEF words
  <2>4. nd[i].id = i /\ (~nd[i].slave <=> i \in Masters) /\ nd[i].slots = words
    <3>1. nd[i].id = line.id /\ nd[i].slots = words
      BY <2>9
    <3>2. nd[i].slave = (masterOf[i] # NoNode)
      BY <2>3, <2>9
    <3>3. (masterOf[i] = NoNode) <=> i \in Masters
      BY DEF Masters
    <3> QED
      BY <2>3, <3>1, <3>2, <3>3
  <2>5. nd[i].slots \in Seq(Nat)
    <3>1. <<0, Stamp, Epoch, 0>> \in Seq(Nat) /\ <<0, 0>> \in Seq(Nat) /\ <<>> \in Seq(Nat)
      BY ClusterNodesAssumption
    <3> QED
      BY <2>2, <2>3, <2>4, <3>1 DEF words
  <2>6. ASSUME i \in Masters \ shown PROVE nd[i].slots = Border(slots[i])
    <3>1. nd[i].slots = Border(slots[i]) \o <<>>
      BY <2>3, <2>4, <2>6, NodeNumbers DEF words, Masters
    <3> QED
      BY <2>2, <3>1
  <2>7. ASSUME i \in Masters PROVE nd[i].slots = <<>> <=> slots[i] = {} /\ i \notin shown
    <3>1. nd[i].slots = Border(slots[i]) \o (IF i \in shown THEN <<0, 0>> ELSE <<>>)
      BY <2>3, <2>4, <2>7 DEF words, Masters
    <3>2. Border(slots[i]) = <<>> <=> slots[i] = {}
      BY <2>0, BorderEnds
    <3>3. CASE i \in shown
      <4>1. <<0, 0>> \in Seq(Nat) /\ Len(<<0, 0>>) = 2
        OBVIOUS
      <4>2. Len(Border(slots[i]) \o <<0, 0>>) # 0
        BY <2>2, <4>1
      <4> QED
        BY <3>1, <3>3, <4>2
    <3>4. CASE i \notin shown
      BY <2>2, <3>1, <3>2, <3>4
    <3> QED
      BY <3>3, <3>4
  <2> QED
    BY <2>4, <2>5, <2>6, <2>7
<1> QED
  BY <1>1 DEF GetClusterNodes
-----------------------------------------------------------------------------
(* ExceptNode.                                                             *)

\* The slots of the node i, or of the master whose replica it is.
Held(i) == IF i \in Masters THEN slots[i] ELSE slots[masterOf[i]]

\* What was read, while the plan is made: the borders of a node that was a master
\* enclose what it holds, also if a replica has taken over.  If none has it still is
\* one, and has no slots if it was read with none; the other way round, unless a slot
\* is half moved.
NodesInv ==
  pc = "plan" =>
    /\ DOMAIN nodes = Node
    /\ \A i \in Node : nodes[i].id = i /\ nodes[i].slots \in Seq(Nat)
    /\ ~changed => /\ Borders \subseteq Masters
                   /\ \A i \in Masters : nodes[i].slots = <<>> => slots[i] = {}
                   /\ \A i \in Masters \ moving : slots[i] = {} => nodes[i].slots = <<>>
    /\ moving = {} =>
         \A i \in Borders : /\ First(i) \in Slot /\ Last(i) \in Slot /\ First(i) <= Last(i)
                            /\ Held(i) \subseteq First(i)..Last(i)

\* What ExceptNode has planned is one call, that takes as many slots as its source
\* holds, or more.
ExceptInv ==
  request.op = "ExceptNode" =>
    /\ pc = "reshard" =>
         /\ Tail(plan) = <<>>
         /\ Call.source \in Node /\ Call.source = request.source
         /\ ~changed => Call.target \in Masters
         /\ moving = {} => /\ Call.count \in 1..MaxSlots
                               /\ Cardinality(Held(Call.source)) <= Call.count
    /\ pc = "hangs" => changed

PlanInv == TypeOK /\ NodesInv /\ ExceptInv

\* A failover moves slots within a master and its replicas.
LEMMA FailoverKeepsHeld ==
  ASSUME ClusterOK, Failover, NEW i \in Node
  PROVE  Held(i)' = Held(i)
<1>1. PICK n \in Node \ Masters :
        /\ masterOf' = [m \in Node |-> IF m = n THEN NoNode
                                       ELSE IF m = masterOf[n] \/ masterOf[m] = masterOf[n]
                                       THEN n ELSE masterOf[m]]
        /\ slots' = [slots EXCEPT ![n] = slots[masterOf[n]], ![masterOf[n]] = {}]
  BY DEF Failover
<1> DEFINE old == masterOf[n]
<1>2. old \in Masters /\ old # n /\ old \in Node
  BY ReplicasMaster DEF Masters
<1>3. Masters' = (Masters \ {old}) \cup {n}
  BY <1>1, <1>2, NodeNumbers DEF Masters, ClusterOK
<1>4. \A m \in Node : slots'[m] = IF m = n THEN slots[old] ELSE IF m = old THEN {} ELSE slots[m]
  BY <1>1, <1>2 DEF ClusterOK
<1>5. masterOf'[i] = IF i = n THEN NoNode
                     ELSE IF i = old \/ masterOf[i] = old THEN n ELSE masterOf[i]
  BY <1>1
<1>6. i \notin Masters => masterOf[i] \in Masters /\ masterOf[i] \in Node /\ masterOf[i] # n
  BY ReplicasMaster DEF Masters
<1> HIDE DEF old
<1>7. CASE i = n
  BY <1>2, <1>3, <1>4, <1>7 DEF Held, old
<1>8. CASE i = old
  BY <1>2, <1>3, <1>4, <1>5, <1>8 DEF Held
<1>9. CASE i # n /\ i # old /\ i \in Masters
  BY <1>3, <1>4, <1>9 DEF Held
<1>10. CASE i # n /\ i # old /\ i \notin Masters
  <2>1. i \notin Masters'
    BY <1>3, <1>10
  <2>2. CASE masterOf[i] = old
    BY <1>2, <1>4, <1>5, <1>10, <2>1, <2>2 DEF Held
  <2>3. CASE masterOf[i] # old
    BY <1>4, <1>5, <1>6, <1>10, <2>1, <2>3 DEF Held
  <2> QED
    BY <2>2, <2>3
<1> QED
  BY <1>7, <1>8, <1>9, <1>10

\* It is read as NodesInv says.
LEMMA ReadNodes ==
  ASSUME PlanInv, Read
  PROVE  NodesInv'
<1> SUFFICES ASSUME pc' = "plan" PROVE NodesInv'
  BY DEF NodesInv
<1>1. PICK myself \in Node : nodes' = GetClusterNodes(masterOf, slots, moving \cap {myself})
  BY DEF Read, Return
<1>0. UNCHANGED <<masterOf, slots, moving>>
  BY DEF Read, clusterVars
<1>2. ClusterOK
  BY DEF PlanInv, TypeOK
<1> DEFINE shown == moving \cap {myself}
<1>3. /\ DOMAIN nodes' = Node
      /\ \A i \in Node : /\ nodes'[i].id = i
                         /\ nodes'[i].slots \in Seq(Nat)
                         /\ ~nodes'[i].slave <=> i \in Masters
                         /\ i \in Masters \ shown => nodes'[i].slots = Border(slots[i])
                         /\ i \in Masters => (nodes'[i].slots = <<>> <=> slots[i] = {} /\ i \notin shown)
  <2>1. nodes' = GetClusterNodes(masterOf, slots, shown)
    BY <1>1
  <2> HIDE DEF shown
  <2> QED
    BY <1>2, <2>1, NodesRead
<1>4. Masters' = Masters /\ \A i \in Node : Held(i)' = Held(i)
  BY <1>0 DEF Masters, Held
<1>5. Borders' = {i \in Node : nodes'[i].slots # <<>> /\ i \in Masters}
  BY <1>3 DEF Borders
<1>6. ASSUME moving = {}, NEW i \in Borders'
      PROVE  /\ First(i)' \in Slot /\ Last(i)' \in Slot /\ First(i)' <= Last(i)'
             /\ Held(i)' \subseteq First(i)'..Last(i)'
  <2>1. i \in Node /\ i \in Masters /\ nodes'[i].slots = Border(slots[i]) /\ Border(slots[i]) # <<>>
    BY <1>3, <1>5, <1>6
  <2>2. slots[i] \subseteq Slot
    BY <1>2, <2>1 DEF ClusterOK
  <2>3. slots[i] # {}
    BY <2>1, <2>2, BorderEnds
  <2>4. First(i)' = Border(slots[i])[1] /\ Last(i)' = Border(slots[i])[Len(Border(slots[i]))]
    BY <2>1 DEF First, Last
  <2>5. \A x \in slots[i] : /\ First(i)' \in Slot /\ First(i)' <= x
                            /\ Last(i)' \in Slot /\ x <= Last(i)'
    BY <2>2, <2>4, BorderEnds
  <2>6. Slot \subseteq Nat
    BY DEF Slot
  <2>7. Held(i)' = slots[i]
    BY <1>4, <2>1 DEF Held
  <2>8. PICK low, high : low = First(i)' /\ high = Last(i)'
    OBVIOUS
  <2>9. \A x \in slots[i] : low \in Slot /\ low <= x /\ high \in Slot /\ x <= high /\ x \in Nat
    BY <2>2, <2>5, <2>6, <2>8
  <2>10. low \in Slot /\ high \in Slot /\ low <= high /\ slots[i] \subseteq low..high
    <3>1. PICK x \in slots[i] : TRUE
      BY <2>3
    <3>2. low \in Nat /\ high \in Nat /\ low \in Slot /\ high \in Slot /\ low <= x /\ x <= high /\ x \in Nat
      BY <2>6, <2>9, <3>1
    <3>3. \A y \in slots[i] : y \in low..high
      BY <2>9, <3>2
    <3> QED
      BY <3>2, <3>3
  <2> QED
    BY <2>7, <2>8, <2>10
<1>7. /\ \A i \in Masters' : nodes'[i].slots = <<>> => slots'[i] = {}
      /\ \A i \in Masters' \ moving' : slots'[i] = {} => nodes'[i].slots = <<>>
  <2>1. Masters \subseteq Node
    BY DEF Masters
  <2> QED
    BY <1>0, <1>3, <1>4, <2>1
<1>8. moving' = {} => moving = {}
  BY <1>0
<1>9. Borders' \subseteq Masters'
  BY <1>4, <1>5
<1>10. DOMAIN nodes' = Node /\ \A i \in Node : nodes'[i].id = i /\ nodes'[i].slots \in Seq(Nat)
  BY <1>3
<1> HIDE DEF shown
<1>11. moving' = {} =>
         \A i \in Borders' : /\ First(i)' \in Slot /\ Last(i)' \in Slot /\ First(i)' <= Last(i)'
                             /\ Held(i)' \subseteq First(i)'..Last(i)'
  BY <1>6, <1>8
<1> QED
  BY <1>7, <1>9, <1>10, <1>11 DEF NodesInv

\* It plans one call, for a node that was a master and has a neighbour that was.
LEMMA ExceptNodePlans ==
  ASSUME PlanInv, Plan, request.op = "ExceptNode"
  PROVE  ExceptInv'
<1>1. /\ pc = "plan" /\ PlanExceptNode
      /\ UNCHANGED <<masterOf, slots, moving, request, nodes, changed, skipped>>
  BY DEF Plan, PlanReshardAll, PlanMergeNode, clusterVars
<1>2. /\ DOMAIN nodes = Node
      /\ \A i \in Node : nodes[i].id = i /\ nodes[i].slots \in Seq(Nat)
      /\ ~changed => Borders \subseteq Masters
      /\ moving = {} =>
           \A i \in Borders : /\ First(i) \in Slot /\ Last(i) \in Slot /\ First(i) <= Last(i)
                              /\ Held(i) \subseteq First(i)..Last(i)
  BY <1>1 DEF PlanInv, NodesInv
<1>3. Borders \subseteq Node /\ \A i \in Borders : Last(i) \in Nat
  <2>1. ASSUME NEW i \in Borders PROVE i \in Node /\ Last(i) \in Nat
    <3>1. i \in Node /\ nodes[i].slots \in Seq(Nat) /\ nodes[i].slots # <<>>
      BY <1>2 DEF Borders
    <3> QED
      BY <3>1 DEF Last
  <2> QED
    BY <2>1
<1> DEFINE source == request.source
           excepted == {i \in Borders : nodes[i].id = source}
           underSlot == IF excepted = {} THEN 0 ELSE First(source)
           overSlot == IF excepted = {} THEN 0 ELSE Last(source)
           over == {i \in Borders : First(i) = overSlot + 1}
           under == {i \in Borders : Last(i) = underSlot - 1}
           Latest(s) == CHOOSE i \in s : \A j \in s : j <= i
<1>4. CASE NoNeighbour(under, over)
  <2>1. pc' = "returned"
    BY <1>1, <1>4 DEF PlanExceptNode, Return
  <2> QED
    BY <2>1 DEF ExceptInv
<1>5. CASE ~NoNeighbour(under, over)
  <2>1. excepted # {}
    <3>1. ASSUME excepted = {} PROVE under = {}
      BY <1>3, <3>1
    <3> QED
      BY <1>5, <3>1 DEF NoNeighbour
  <2>2. source \in Borders /\ source \in Node
    BY <1>2, <1>3, <2>1
  <2>3. PICK found \in {over, under} \ {{}} :
          Reshards(<<[target |-> nodes[Latest(found)].id, count |-> Span(source),
                      source |-> source]>>)
    BY <1>1, <1>5, <2>1 DEF PlanExceptNode
  <2>4. found \subseteq Borders /\ found # {}
    BY <2>3
  <2> DEFINE latest == Latest(found)
  <2>5. latest \in found
    <3>1. found \subseteq Nat /\ IsFiniteSet(found)
      <4>1. IsFiniteSet(Node) /\ Node \subseteq Nat
        BY NodeNumbers
      <4> QED
        BY <1>3, <2>4, <4>1, FS_Subset
    <3>2. \E i \in found : \A j \in found : j <= i
      BY <2>4, <3>1, InOrderEnds
    <3> QED
      BY <3>2
  <2>6. latest \in Borders /\ nodes[latest].id = latest
    BY <1>2, <1>3, <2>4, <2>5
  <2> HIDE DEF latest, source
  <2>7. pc' = "reshard" /\ plan' = <<[target |-> latest, count |-> Span(source), source |-> source]>>
    BY <2>3, <2>6 DEF Reshards, latest
  <2>8. /\ Tail(plan') = <<>>
        /\ Call' = [target |-> latest, count |-> Span(source), source |-> source]
    BY <2>7 DEF Call
  <2>9. ASSUME moving = {}
        PROVE  Span(source) \in 1..MaxSlots /\ Cardinality(Held(source)) <= Span(source)
    <3>1. PICK low, high : low = First(source) /\ high = Last(source)
      OBVIOUS
    <3>2. low \in Slot /\ high \in Slot /\ low <= high /\ Held(source) \subseteq low..high
      BY <1>2, <2>2, <2>9, <3>1
    <3>3. Span(source) = high - low + 1
      BY <3>1 DEF Span
    <3>4. /\ low \in Int /\ high \in Int
          /\ high - low + 1 \in 1..MaxSlots
      <4>1. low \in 0..(MaxSlots - 1) /\ high \in 0..(MaxSlots - 1) /\ low <= high
        BY <3>2 DEF Slot
      <4> QED
        BY <4>1, SlotNumbers
    <3>5. IsFiniteSet(low..high) /\ Cardinality(low..high) = high - low + 1
      BY <3>2, <3>4, FS_Interval
    <3>6. Cardinality(Held(source)) <= high - low + 1
      BY <3>2, <3>5, FS_Subset
    <3> QED
      BY <3>3, <3>4, <3>6
  <2>10. Masters' = Masters /\ Held(source)' = Held(source)
    BY <1>1 DEF Masters, Held, source
  <2>11. ~changed => latest \in Masters
    BY <1>2, <2>6
  <2> QED
    BY <1>1, <2>2, <2>7, <2>8, <2>9, <2>10, <2>11 DEF ExceptInv, source
<1> QED
  BY <1>4, <1>5

\* A call of Reshard ends the one there is to make, and hangs only if a replica has
\* taken over.
LEMMA ExceptNodeReshards ==
  ASSUME PlanInv, Reshard
  PROVE  ExceptInv'
<1> SUFFICES ASSUME request.op = "ExceptNode" PROVE ExceptInv'
  BY ReshardSteps DEF ExceptInv
<1>1. /\ pc = "reshard" /\ UNCHANGED <<ctx, request, nodes, changed>>
      /\ skipped' = skipped \/ skipped' = TRUE
      /\ \/ pc' = "reshard" /\ plan' # <<>> /\ plan' = Tail(plan) /\ UNCHANGED result
         \/ pc' = "returned" /\ result' \in {"ok", "error"}
         \/ pc' = "hangs" /\ UNCHANGED result
  BY ReshardSteps
<1>2. /\ Tail(plan) = <<>>
      /\ ~changed => Call.target \in Masters
      /\ moving = {} => Call.count \in 1..MaxSlots
  BY <1>1 DEF PlanInv, ExceptInv
<1>3. pc' # "reshard"
  BY <1>1, <1>2
<1>4. ASSUME pc' = "hangs" PROVE changed
  <2>1. Hangs
    BY <1>1, <1>4 DEF Reshard, NotStarted, Moved, Broke, Succeeds, Fails, Return
  <2> QED
    BY <1>2, <2>1 DEF Hangs, Accepted
<1> QED
  BY <1>1, <1>3, <1>4 DEF ExceptInv

\* The invariant is inductive.
LEMMA PlansSafe == Spec => []PlanInv
<1>1. Init => PlanInv
  BY InitCluster, SlotPlansAssumption DEF Init, PlanInv, TypeOK, NodesInv, ExceptInv
<1>2. PlanInv /\ TypeOK' /\ [Next]_vars => PlanInv'
  <2> SUFFICES ASSUME PlanInv, TypeOK', [Next]_vars PROVE NodesInv' /\ ExceptInv'
    BY DEF PlanInv
  <2>1. CASE Read
    <3>1. pc' # "reshard" /\ pc' # "hangs"
      BY <2>1 DEF Read, Return
    <3> QED
      BY <2>1, <3>1, ReadNodes DEF ExceptInv
  <2>2. CASE Plan
    <3>1. pc' \in {"reshard", "returned", "panicked"} /\ request' = request
      BY <2>2, PlanSteps
    <3>2. NodesInv'
      BY <3>1 DEF NodesInv
    <3>3. CASE request.op = "ExceptNode"
      BY <2>2, <3>2, <3>3, ExceptNodePlans
    <3>4. CASE request.op # "ExceptNode"
      BY <3>1, <3>2, <3>4 DEF ExceptInv
    <3> QED
      BY <3>3, <3>4
  <2>3. CASE Reshard
    <3>1. pc' # "plan"
      BY <2>3, ReshardSteps
    <3> QED
      BY <2>3, <3>1, ExceptNodeReshards DEF NodesInv
  <2>4. CASE Killed
    <3>1. pc' = "returned"
      BY <2>4 DEF Killed, Fails, Return
    <3> QED
      BY <3>1 DEF NodesInv, ExceptInv
  <2>5. CASE Cancel \/ UNCHANGED vars
    <3>1. UNCHANGED <<masterOf, slots, moving, request, pc, nodes, plan, changed>>
      BY <2>5 DEF Cancel, vars, clusterVars
    <3>2. UNCHANGED <<Masters, Borders, Call>> /\ \A i : Held(i)' = Held(i)
      BY <3>1 DEF Masters, Borders, Call, Held
    <3>3. \A i : First(i)' = First(i) /\ Last(i)' = Last(i)
      BY <3>1 DEF First, Last
    <3>4. NodesInv'
      BY <3>1, <3>2, <3>3 DEF PlanInv, NodesInv
    <3>5. ExceptInv'
      BY <3>1, <3>2 DEF PlanInv, ExceptInv
    <3> QED
      BY <3>4, <3>5
  <2>6. CASE Failover
    <3>1. UNCHANGED <<moving, request, pc, nodes, plan>> /\ changed' /\ pc \in {"plan", "reshard"}
      BY <2>6 DEF Failover
    <3>2. ClusterOK /\ \A i \in Node : Held(i)' = Held(i)
      BY <2>6, FailoverKeepsHeld DEF PlanInv, TypeOK
    <3>3. UNCHANGED <<Borders, Call>> /\ \A i : First(i)' = First(i) /\ Last(i)' = Last(i)
      BY <3>1 DEF Borders, Call, First, Last
    <3>4. NodesInv'
      <4>1. pc = "plan" => Borders \subseteq Node
        BY DEF PlanInv, NodesInv, Borders
      <4> QED
        BY <3>1, <3>2, <3>3, <4>1 DEF PlanInv, NodesInv
    <3>5. ExceptInv'
      BY <3>1, <3>2, <3>3 DEF PlanInv, ExceptInv
    <3> QED
      BY <3>4, <3>5
  <2> QED
    BY <2>1, <2>2, <2>3, <2>4, <2>5, <2>6 DEF Next
<1> QED
  BY <1>1, <1>2, PlansTypeOK, PTL DEF Spec

\* ExceptNode never hangs, unless a replica has taken over since it began.
THEOREM ExceptNodeComesToAnEnd == Spec => []ExceptNodeEnds
<1>1. PlanInv => ExceptNodeEnds
  BY DEF PlanInv, ExceptInv, ExceptNodeEnds
<1> QED
  BY <1>1, PlansSafe, PTL

\* What valkey-cli takes from a single source is all it has, if it is asked for as
\* many slots or more.
LEMMA OneSourceEmptied ==
  ASSUME NEW n \in Node, ClusterOK, Sources = {n}, Call.count \in Nat,
         Total <= Call.count, Total # 0
  PROVE  Taken(n, n) = slots[n]
<1>1. /\ slots[n] \subseteq Nat /\ IsFiniteSet(slots[n]) /\ Cardinality(slots[n]) \in Nat
      /\ Total = Cardinality(slots[n])
  <2>1. slots[n] \subseteq Slot
    BY DEF ClusterOK
  <2>2. UNION {slots[m] : m \in Sources} = slots[n]
    OBVIOUS
  <2> QED
    BY <2>1, <2>2, SlotSets DEF Total
<1>2. PICK c \in Nat, t \in Nat \ {0} : c = Call.count /\ t = Total
  BY <1>1
<1>3. t <= Share(n, n)
  <2>1. Share(n, n) = (c * t + t - 1) \div t
    BY <1>1, <1>2 DEF Share
  <2>2. c * t <= c * t + t - 1 /\ c * t + t - 1 \in Nat
    BY <1>2
  <2>3. c <= (c * t + t - 1) \div t /\ (c * t + t - 1) \div t \in Int
    BY <1>2, <2>2
  <2> QED
    BY <1>2, <2>1, <2>3
<1>4. \A x \in slots[n] : Rank(slots[n], x) \in 0..(t - 1)
  BY <1>1, <1>2, Ranks
<1>5. Share(n, n) \in Int
  BY <1>1, <1>2 DEF Share
<1>6. \A x \in slots[n] : Rank(slots[n], x) < Share(n, n)
  BY <1>2, <1>3, <1>4, <1>5
<1> QED
  BY <1>6 DEF Taken, Rank

\* An ExceptNode or a MergeNode that returns nil has moved slots in its one call.
LEMMA DoneMoves ==
  ASSUME [Next]_vars, Done, request.op \in {"ExceptNode", "MergeNode"}
  PROVE  Moved /\ pc = "reshard"
<1>1. result = Nothing /\ result' = "ok" /\ ~skipped' /\ result' # result
  BY SlotPlansAssumption DEF Done
<1>2. ~Plan
  <2>1. ~PlanReshardAll
    BY DEF PlanReshardAll
  <2>2. ~PlanExceptNode
    BY <1>1 DEF PlanExceptNode, Reshards, Return
  <2>3. ~PlanMergeNode
    BY <1>1 DEF PlanMergeNode, Reshards, Return
  <2> QED
    BY <2>1, <2>2, <2>3 DEF Plan
<1>3. Reshard
  BY <1>1, <1>2 DEF Next, Read, Killed, Fails, Return, Cancel, Failover, vars
<1> QED
  BY <1>1, <1>3 DEF Reshard, NotStarted, Broke, Hangs, Fails, Return

\* A call that asks for as many slots as its source holds, or more, and comes to its
\* end, leaves none on it.
LEMMA OneCallEmpties ==
  ASSUME ClusterOK, Moved, NEW source \in Node, Call.source = source,
         Call.count \in 1..MaxSlots => Cardinality(Held(source)) <= Call.count
  PROVE  slots'[source] = {}
<1>1. Sources = {source}
  BY NodeNumbers DEF Sources, All, NoNode
<1>2. /\ moving = {} /\ source \in Masters /\ source # Call.target
      /\ Call.count \in 1..MaxSlots
  BY <1>1 DEF Moved, Possible, Accepted
<1>3. slots[source] \subseteq Slot
  BY DEF ClusterOK
<1>4. Total = Cardinality(slots[source])
  <2>1. UNION {slots[m] : m \in Sources} = slots[source]
    BY <1>1
  <2> QED
    BY <2>1 DEF Total
<1>5. Call.count \in Nat /\ Total <= Call.count
  BY <1>2, <1>4, SlotNumbers DEF Held
<1>6. CASE Total = 0
  <2>1. slots[source] = {}
    BY <1>3, <1>4, <1>6, SlotSets, FS_EmptySet
  <2> QED
    BY <1>6, <2>1 DEF Moved
<1>7. CASE Total # 0
  <2>1. Move(UNION {Taken(n, source) : n \in Sources})
    BY <1>1, <1>7 DEF Moved
  <2>2. UNION {Taken(n, source) : n \in Sources} = slots[source]
    <3>1. Taken(source, source) = slots[source]
      BY <1>1, <1>5, <1>7, OneSourceEmptied
    <3> QED
      BY <1>1, <3>1
  <2> QED
    BY <1>2, <2>1, <2>2 DEF Move
<1> QED
  BY <1>6, <1>7

\* An ExceptNode that returns nil leaves its node without slots.
THEOREM ExceptNodeEmptied == Spec => ExceptNodeEmpties
<1>1. ASSUME PlanInv, [Next]_vars, Done, request.op = "ExceptNode"
      PROVE  slots'[request.source] = {}
  <2>1. Moved /\ pc = "reshard"
    BY <1>1, DoneMoves
  <2>2. /\ Call.source \in Node /\ Call.source = request.source /\ moving = {}
        /\ Cardinality(Held(Call.source)) <= Call.count
    BY <1>1, <2>1 DEF PlanInv, ExceptInv, Moved, Possible
  <2> QED
    BY <1>1, <2>1, <2>2, OneCallEmpties DEF PlanInv, TypeOK
<1>2. PlanInv /\ [Next]_vars
        => [Done /\ request.op = "ExceptNode" => slots'[request.source] = {}]_vars
  BY <1>1
<1> QED
  BY <1>2, PlansSafe, PTL DEF Spec, ExceptNodeEmpties
-----------------------------------------------------------------------------
(* ReshardAll.                                                             *)

\* InOrder leaves nobody out and has nobody twice.
LEMMA InOrderAll ==
  ASSUME NEW s, s \subseteq Nat, IsFiniteSet(s)
  PROVE  /\ \A x \in s : \E k \in 1..Cardinality(s) : InOrder(s)[k] = x
         /\ \A j, k \in 1..Cardinality(s) : InOrder(s)[j] = InOrder(s)[k] => j = k
<1>1. ASSUME NEW x \in s PROVE \E k \in 1..Cardinality(s) : InOrder(s)[k] = x
  <2>0. Rank(s, x) \in 0..(Cardinality(s) - 1) /\ Cardinality(s) \in Nat
    BY Ranks
  <2>1. PICK k \in Int : k = Rank(s, x) + 1
    BY <2>0
  <2>2. k \in 1..Cardinality(s) /\ Rank(s, x) = k - 1
    BY <2>0, <2>1
  <2>3. PICK z \in s : z = InOrder(s)[k] /\ Rank(s, z) = Rank(s, x)
    BY <2>2, InOrderRanks
  <2>4. /\ Rank(s, x) \in 0..(Cardinality(s) - 1) /\ Cardinality(s) \in Nat
        /\ x < z => Rank(s, x) < Rank(s, z)
        /\ z < x => Rank(s, z) < Rank(s, x)
    BY Ranks
  <2>5. x \in Nat /\ z \in Nat
    OBVIOUS
  <2>6. x = z
    BY <2>3, <2>4, <2>5
  <2> QED
    BY <2>2, <2>3, <2>6
<1>2. ASSUME NEW j \in 1..Cardinality(s), NEW k \in 1..Cardinality(s),
             InOrder(s)[j] = InOrder(s)[k]
      PROVE  j = k
  <2>1. Rank(s, InOrder(s)[j]) = j - 1 /\ Rank(s, InOrder(s)[k]) = k - 1 /\ Cardinality(s) \in Nat
    BY InOrderRanks
  <2>2. j - 1 = k - 1
    BY <1>2, <2>1
  <2> QED
    BY <2>1, <2>2
<1> QED
  BY <1>1, <1>2

\* The calls of ReshardAll that are left, while no replica has taken over: each for
\* its share for another node, which has no slots if it is a master; and one for
\* every master without slots, unless a slot is half moved to it, while each call has
\* started its child.
Calls == [target : Node, count : {MaxSlots \div N}, source : {All}]
AllInv ==
  request.op = "ReshardAll" /\ pc = "reshard" /\ ~changed =>
    /\ plan \in Seq(Calls)
    /\ \A j, k \in 1..Len(plan) : plan[j].target = plan[k].target => j = k
    /\ \A k \in 1..Len(plan) : plan[k].target \in Masters => slots[plan[k].target] = {}
    /\ ~skipped =>
         \A i \in Masters \ moving : slots[i] = {} => \E k \in 1..Len(plan) : plan[k].target = i

\* It plans them so, or finds that every master has slots.
LEMMA ReshardAllPlans ==
  ASSUME PlanInv, Plan, request.op = "ReshardAll", ~changed
  PROVE  /\ AllInv'
         /\ result # "ok" /\ result' = "ok" => \A i \in Masters \ moving : slots'[i] # {}
<1>1. /\ pc = "plan" /\ PlanReshardAll
      /\ UNCHANGED <<masterOf, slots, moving, request, nodes, changed, skipped>>
  BY DEF Plan, PlanExceptNode, PlanMergeNode, clusterVars
<1>2. /\ DOMAIN nodes = Node
      /\ \A i \in Node : nodes[i].id = i
      /\ \A i \in Masters : nodes[i].slots = <<>> => slots[i] = {}
      /\ \A i \in Masters \ moving : slots[i] = {} => nodes[i].slots = <<>>
  BY <1>1 DEF PlanInv, NodesInv
<1>3. Len(nodes) = N
  <2>1. DOMAIN nodes = 1..N /\ N \in Nat
    BY <1>2, NodeNumbers DEF Node
  <2> QED
    BY <2>1
<1> DEFINE without == {i \in DOMAIN nodes : nodes[i].slots = <<>>}
           c == Cardinality(without)
           empty == GetNoSlotNodes(nodes)
           calls == [i \in DOMAIN empty |->
                       [target |-> empty[i].id, count |-> MaxSlots \div Len(nodes), source |-> All]]
<1>4. without \subseteq Node /\ without \subseteq Nat /\ IsFiniteSet(without)
  <2>1. IsFiniteSet(Node) /\ Node \subseteq Nat
    BY NodeNumbers
  <2> QED
    BY <1>2, <2>1, FS_Subset
<1>5. /\ c \in Nat /\ DOMAIN empty = 1..c
      /\ \A k \in 1..c : InOrder(without)[k] \in without /\ empty[k] = nodes[InOrder(without)[k]]
  <2>1. empty = [k \in DOMAIN InOrder(without) |-> nodes[InOrder(without)[k]]]
    BY DEF GetNoSlotNodes
  <2> HIDE DEF without
  <2>2. c \in Nat /\ DOMAIN InOrder(without) = 1..c
    BY <1>4, InOrderRanks DEF InOrder
  <2> QED
    BY <1>4, <2>1, <2>2, InOrderRanks
<1> HIDE DEF empty
<1>6. /\ DOMAIN calls = 1..c
      /\ \A k \in 1..c : calls[k] = [target |-> InOrder(without)[k], count |-> MaxSlots \div N,
                                     source |-> All]
  BY <1>2, <1>3, <1>4, <1>5
<1> HIDE DEF without, c
<1>7. calls \in Seq(Calls) /\ Len(calls) = c
  <2>1. \A k \in 1..c : calls[k] \in Calls
    BY <1>4, <1>5, <1>6 DEF Calls
  <2>2. calls \in [1..c -> Calls]
    BY <1>6, <2>1
  <2> QED
    BY <1>5, <2>2
<1>8. \A k \in 1..c : calls[k].target = InOrder(without)[k]
  BY <1>6
<1>9. Reshards(calls)
  BY <1>1 DEF PlanReshardAll, empty
<1> HIDE DEF calls
<1>10. plan' = calls
  BY <1>9 DEF Reshards
<1>11. \A j, k \in 1..c : calls[j].target = calls[k].target => j = k
  BY <1>4, <1>8, InOrderAll DEF c
<1>12. Masters \subseteq Node /\ Masters' = Masters /\ moving' = moving
  BY <1>1 DEF Masters
<1>13. ASSUME NEW k \in 1..c, calls[k].target \in Masters
       PROVE  slots'[calls[k].target] = {}
  <2>1. calls[k].target \in without
    BY <1>5, <1>8
  <2>2. nodes[calls[k].target].slots = <<>>
    BY <2>1 DEF without
  <2> QED
    BY <1>1, <1>2, <1>13, <2>2
<1>14. ASSUME NEW i \in Masters \ moving, slots'[i] = {}
       PROVE  \E k \in 1..c : calls[k].target = i
  <2>1. i \in without
    BY <1>1, <1>2, <1>12, <1>14 DEF without
  <2>2. PICK k \in 1..Cardinality(without) : InOrder(without)[k] = i
    BY <1>4, <2>1, InOrderAll
  <2> QED
    BY <1>8, <2>2 DEF c
<1>15. ASSUME result # "ok", result' = "ok" PROVE \A i \in Masters \ moving : slots'[i] # {}
  <2>1. CASE calls = <<>>
    <3>1. c = 0
      BY <1>7, <2>1
    <3> QED
      BY <1>14, <3>1
  <2>2. CASE calls # <<>>
    <3>1. FALSE
      BY <1>9, <1>15, <2>2 DEF Reshards
    <3> QED
      BY <3>1
  <2> QED
    BY <2>1, <2>2
<1> QED
  BY <1>7, <1>10, <1>11, <1>12, <1>13, <1>14, <1>15 DEF AllInv

\* If every node of Node but t has at most one slot, there are fewer slots than nodes.
LEMMA FewSlots ==
  ASSUME ClusterOK, NEW t \in Node, slots[t] = {},
         \A n \in Node : Cardinality(slots[n]) <= 1
  PROVE  MaxSlots <= N - 1
<1> DEFINE owner == [s \in Slot |-> CHOOSE n \in Node : s \in slots[n]]
           others == Node \ {t}
<1>1. Owned(slots)
  BY OwnedForm DEF ClusterOK
<1>2. \A s \in Slot : owner[s] \in others /\ s \in slots[owner[s]]
  BY <1>1 DEF Owned
<1>3. ASSUME NEW s \in Slot, NEW u \in Slot, owner[s] = owner[u] PROVE s = u
  <2>1. PICK n \in Node : n = owner[s] /\ s \in slots[n] /\ u \in slots[n]
    BY <1>2, <1>3
  <2>2. /\ IsFiniteSet(slots[n]) /\ slots[n] \subseteq Nat /\ s \in Nat /\ u \in Nat
        /\ Cardinality(slots[n]) \in Nat /\ Cardinality(slots[n]) <= 1
    <3>1. slots[n] \subseteq Slot
      BY DEF ClusterOK
    <3> QED
      BY <2>1, <3>1, SlotSets
  <2>3. /\ Rank(slots[n], s) \in 0..(Cardinality(slots[n]) - 1)
        /\ Rank(slots[n], u) \in 0..(Cardinality(slots[n]) - 1)
        /\ s < u => Rank(slots[n], s) < Rank(slots[n], u)
        /\ u < s => Rank(slots[n], u) < Rank(slots[n], s)
    BY <2>1, <2>2, Ranks
  <2> QED
    BY <2>2, <2>3
<1>4. owner \in Injection(Slot, others)
  BY <1>2, <1>3 DEF Injection, IsInjective
<1>5. IsFiniteSet(others) /\ Cardinality(others) = N - 1
  <2>1. IsFiniteSet(Node) /\ Cardinality(Node) = N
    BY NodeNumbers
  <2> QED
    BY <2>1, FS_RemoveElement
<1>6. Cardinality(Slot) = MaxSlots
  BY SlotNumbers, FS_Interval DEF Slot
<1>7. Cardinality(Slot) <= Cardinality(others)
  <2> HIDE DEF owner, others
  <2> QED
    BY <1>4, <1>5, FS_Injection
<1> QED
  BY <1>5, <1>6, <1>7

\* The arithmetic of shares: with c slots of m to move, c at most half of them, each
\* node that has l of them and not a single one keeps one, also if its share is
\* rounded up; and one whose share is rounded down does in any case.
LEMMA Division ==
  ASSUME NEW c \in Nat \ {0}, NEW m \in Nat \ {0}, NEW l \in Nat \ {0}, 2 * c <= m
  PROVE  /\ (c * l) \div m \in Int /\ (c * l) \div m < l
         /\ (c * l + m - 1) \div m \in Int /\ 1 <= (c * l + m - 1) \div m
         /\ l >= 2 => (c * l + m - 1) \div m < l
<1>1. c * l \in Nat /\ c * l + m - 1 \in Nat /\ c * l >= 1
  OBVIOUS
<1>2. c * l < l * m
  <2>1. c < m
    OBVIOUS
  <2> QED
    BY <2>1
<1>3. ASSUME l >= 2 PROVE c * l + m - 1 < l * m
  <2>1. 2 * (c * l) <= m * l
    OBVIOUS
  <2>2. 2 * m <= m * l
    BY <1>3
  <2> QED
    BY <1>1, <2>1, <2>2
<1>4. (c * l) \div m < l /\ (c * l) \div m \in Int
  BY <1>1, <1>2
<1>5. l >= 2 => (c * l + m - 1) \div m < l
  BY <1>1, <1>3
<1>6. 1 <= (c * l + m - 1) \div m /\ (c * l + m - 1) \div m \in Int
  <2>1. 1 * m <= c * l + m - 1
    BY <1>1
  <2> QED
    BY <1>1, <2>1
<1> QED
  BY <1>4, <1>5, <1>6

\* A node without slots gets some from all the others, and none of them is left
\* without.
LEMMA FairShares ==
  ASSUME ClusterOK, Call \in Calls, Call.count \in 1..MaxSlots, Call.target \in Masters,
         slots[Call.target] = {}, NEW largest \in Sources,
         \A m \in Sources : Cardinality(slots[m]) <= Cardinality(slots[largest])
  PROVE  /\ Total # 0
         /\ Taken(largest, largest) # {}
         /\ \A n \in Sources : slots[n] # {} => slots[n] \ Taken(n, largest) # {}
<1> DEFINE t == Call.target
           c == MaxSlots \div N
<1>1. Sources = Masters \ {t} /\ Call.count = c /\ t \in Node /\ Masters \subseteq Node
  BY DEF Sources, Calls, Masters
<1>2. \A n \in Node : /\ slots[n] \subseteq Slot /\ slots[n] \subseteq Nat
                      /\ IsFiniteSet(slots[n]) /\ Cardinality(slots[n]) \in Nat
  <2>1. \A n \in Node : slots[n] \subseteq Slot
    BY DEF ClusterOK
  <2> QED
    BY <2>1, SlotSets
<1>3. Owned(slots) /\ \A n \in Node \ Sources : slots[n] = {}
  BY <1>1, OwnedForm DEF ClusterOK
<1>4. Total = MaxSlots
  <2>1. UNION {slots[n] : n \in Sources} = Slot
    <3>1. ASSUME NEW s \in Slot PROVE s \in UNION {slots[n] : n \in Sources}
      <4>1. PICK n \in Node : s \in slots[n]
        BY <1>3 DEF Owned
      <4>2. n \in Sources
        BY <1>3, <4>1
      <4> QED
        BY <4>1, <4>2
    <3> QED
      BY <1>1, <1>2, <3>1
  <2>2. Cardinality(Slot) = MaxSlots
    BY SlotNumbers, FS_Interval DEF Slot
  <2> QED
    BY <2>1, <2>2 DEF Total
<1>5. c \in Nat \ {0} /\ MaxSlots \in Nat \ {0} /\ 2 * c <= MaxSlots
  <2>1. N \in Nat /\ N >= 2
    BY <1>1, NodeNumbers DEF Node
  <2>2. MaxSlots \in Nat \ {0}
    BY SlotNumbers
  <2>3. c \in 1..MaxSlots /\ N * c <= MaxSlots
    BY <1>1, <2>1, <2>2
  <2>4. 2 * c <= N * c
    BY <2>1, <2>3
  <2> QED
    BY <2>1, <2>2, <2>3, <2>4
<1> DEFINE most == Cardinality(slots[largest])
<1>6. most \in Nat /\ largest \in Node
  BY <1>1, <1>2
<1>7. most >= 2
  <2>1. SUFFICES ASSUME most <= 1 PROVE FALSE
    BY <1>6
  <2>2. \A n \in Node : Cardinality(slots[n]) <= 1
    <3>1. ASSUME NEW n \in Node PROVE Cardinality(slots[n]) <= 1
      <4>1. CASE n \in Sources
        BY <1>2, <1>6, <2>1, <4>1
      <4>2. CASE n \notin Sources
        BY <1>3, <4>2, FS_EmptySet
      <4> QED
        BY <4>1, <4>2
    <3> QED
      BY <3>1
  <2>3. MaxSlots <= N - 1
    BY <1>1, <2>2, FewSlots
  <2>4. N \in Nat \ {0} /\ N * c <= MaxSlots /\ N * 1 <= N * c
    BY <1>5, NodeNumbers
  <2> QED
    BY <1>5, <2>3, <2>4
<1>8. /\ Share(largest, largest) = (c * most + MaxSlots - 1) \div MaxSlots
      /\ \A n \in Sources \ {largest} :
           Share(n, largest) = (c * Cardinality(slots[n])) \div MaxSlots
  BY <1>1, <1>4 DEF Share
<1> HIDE DEF most, c, t
<1>9. \A n \in Sources : slots[n] # {} => /\ Share(n, largest) \in Int
                                          /\ Share(n, largest) < Cardinality(slots[n])
  <2>1. ASSUME NEW n \in Sources, slots[n] # {}
        PROVE  Share(n, largest) \in Int /\ Share(n, largest) < Cardinality(slots[n])
    <3>1. PICK l \in Nat \ {0} : l = Cardinality(slots[n])
      BY <1>1, <1>2, <2>1, FS_EmptySet
    <3>2. CASE n = largest
      BY <1>5, <1>7, <1>8, <3>1, <3>2, Division DEF most
    <3>3. CASE n # largest
      BY <1>5, <1>8, <3>1, <3>3, Division
    <3> QED
      BY <3>2, <3>3
  <2> QED
    BY <2>1
<1>10. Share(largest, largest) \in Int /\ 1 <= Share(largest, largest)
  BY <1>5, <1>6, <1>7, <1>8, Division
<1>11. ASSUME NEW n \in Sources, slots[n] # {} PROVE slots[n] \ Taken(n, largest) # {}
  <2>1. PICK l \in Nat \ {0} : l = Cardinality(slots[n])
    BY <1>1, <1>2, <1>11, FS_EmptySet
  <2>2. l - 1 \in 0..(Cardinality(slots[n]) - 1)
    BY <2>1
  <2>3. PICK x \in slots[n] : Rank(slots[n], x) = l - 1
    BY <1>1, <1>2, <2>2, RanksTaken
  <2>4. ~(Rank(slots[n], x) < Share(n, largest))
    BY <1>9, <1>11, <2>1, <2>3
  <2>5. x \notin Taken(n, largest)
    BY <2>4 DEF Taken, Rank
  <2> QED
    BY <2>3, <2>5
<1>12. Taken(largest, largest) # {}
  <2>1. 0 \in 0..(Cardinality(slots[largest]) - 1)
    BY <1>6, <1>7 DEF most
  <2>2. PICK x \in slots[largest] : Rank(slots[largest], x) = 0
    BY <1>2, <1>6, <2>1, RanksTaken
  <2>3. Rank(slots[largest], x) < Share(largest, largest)
    BY <1>10, <2>2
  <2>4. x \in Taken(largest, largest)
    BY <2>3 DEF Taken, Rank
  <2> QED
    BY <2>4
<1> QED
  BY <1>4, <1>5, <1>11, <1>12

\* The first call that is left, and the others.
LEMMA FirstCall ==
  ASSUME plan \in Seq(Calls), plan # <<>>
  PROVE  /\ Call = plan[1] /\ Call \in Calls /\ 1 \in 1..Len(plan)
         /\ Len(Tail(plan)) = Len(plan) - 1 /\ Tail(plan) \in Seq(Calls)
         /\ \A k \in 1..Len(Tail(plan)) : k + 1 \in 1..Len(plan) /\ Tail(plan)[k] = plan[k + 1]
         /\ \A k \in 1..Len(plan) : k = 1 \/ (k - 1 \in 1..Len(Tail(plan)) /\ plan[k] = Tail(plan)[k - 1])
BY DEF Call

\* After a call has succeeded the masters without slots are those there were, but for
\* the one it was made for.
LEMMA ReshardAllMoves ==
  ASSUME PlanInv, AllInv, Moved, pc = "reshard", request.op = "ReshardAll", ~changed
  PROVE  \A i \in Masters : slots'[i] = {} <=> slots[i] = {} /\ i # Call.target
<1>1. /\ ClusterOK /\ Call \in Calls
      /\ Call.target \in Masters => slots[Call.target] = {}
  BY FirstCall DEF PlanInv, TypeOK, AllInv
<1>2. Call.count \in 1..MaxSlots /\ Call.target \in Masters /\ Call.source = All
  BY <1>1 DEF Moved, Possible, Accepted, Calls
<1>3. Sources = Masters \ {Call.target} /\ Masters \subseteq Node
  BY <1>2 DEF Sources, Masters
<1>4. Total # 0
  <2>1. PICK o \in Node : 0 \in slots[o]
    BY <1>1, OwnedForm, SlotNumbers DEF ClusterOK, Owned, Slot
  <2>2. o \in Sources /\ 0 \in UNION {slots[n] : n \in Sources}
    BY <1>1, <1>2, <1>3, <2>1 DEF ClusterOK
  <2>3. UNION {slots[n] : n \in Sources} \subseteq Slot
    BY <1>1, <1>3 DEF ClusterOK
  <2> QED
    BY <2>2, <2>3, SlotSets, FS_EmptySet DEF Total
<1>5. PICK largest \in Sources :
        /\ \A m \in Sources : Cardinality(slots[m]) <= Cardinality(slots[largest])
        /\ Move(UNION {Taken(n, largest) : n \in Sources})
  BY <1>4 DEF Moved
<1> DEFINE taken == UNION {Taken(n, largest) : n \in Sources}
<1>6. /\ Taken(largest, largest) # {}
      /\ \A n \in Sources : slots[n] # {} => slots[n] \ Taken(n, largest) # {}
  BY <1>1, <1>2, <1>5, FairShares
<1>7. \A i \in Masters : slots'[i] = IF i = Call.target THEN slots[i] \cup taken ELSE slots[i] \ taken
  BY <1>3, <1>5 DEF Move
<1>8. ASSUME NEW i \in Sources, slots[i] # {} PROVE slots[i] \ taken # {}
  <2>1. PICK x \in slots[i] : x \notin Taken(i, largest)
    BY <1>6, <1>8
  <2>2. ASSUME x \in taken PROVE FALSE
    <3>1. PICK n \in Sources : x \in Taken(n, largest)
      BY <2>2
    <3>2. x \in slots[n] /\ x \in Slot /\ i \in Node /\ n \in Node
      BY <1>1, <1>3, <3>1 DEF Taken, ClusterOK
    <3>3. i = n
      BY <1>1, <3>2, OwnedForm DEF ClusterOK, Owned
    <3> QED
      BY <2>1, <3>1, <3>3
  <2> QED
    BY <2>1, <2>2
<1>9. taken # {}
  BY <1>5, <1>6
<1> HIDE DEF taken
<1> QED
  BY <1>2, <1>3, <1>7, <1>8, <1>9

\* The calls that are left after one has come to its end.
LEMMA ReshardAllGoesOn ==
  ASSUME PlanInv, AllInv, Reshard, request.op = "ReshardAll", ~changed
  PROVE  /\ AllInv'
         /\ ~skipped' /\ result # "ok" /\ result' = "ok"
              => \A i \in Masters \ moving : slots'[i] # {}
<1>1. /\ pc = "reshard" /\ UNCHANGED <<ctx, request, nodes, changed>>
      /\ skipped' = skipped \/ skipped' = TRUE
      /\ \/ pc' = "reshard" /\ plan' # <<>> /\ plan' = Tail(plan) /\ UNCHANGED result
         \/ pc' = "returned" /\ result' \in {"ok", "error"}
         \/ pc' = "hangs" /\ UNCHANGED result
  BY ReshardSteps
<1>2. /\ plan \in Seq(Calls) /\ plan # <<>>
      /\ \A j, k \in 1..Len(plan) : plan[j].target = plan[k].target => j = k
      /\ \A k \in 1..Len(plan) : plan[k].target \in Masters => slots[plan[k].target] = {}
      /\ ~skipped =>
           \A i \in Masters \ moving : slots[i] = {} => \E k \in 1..Len(plan) : plan[k].target = i
  BY <1>1 DEF PlanInv, TypeOK, AllInv
<1>3. /\ Call = plan[1] /\ 1 \in 1..Len(plan)
      /\ Len(Tail(plan)) = Len(plan) - 1 /\ Tail(plan) \in Seq(Calls)
      /\ \A k \in 1..Len(Tail(plan)) : k + 1 \in 1..Len(plan) /\ Tail(plan)[k] = plan[k + 1]
      /\ \A k \in 1..Len(plan) : k = 1 \/ (k - 1 \in 1..Len(Tail(plan)) /\ plan[k] = Tail(plan)[k - 1])
  BY <1>2, FirstCall
<1>4. CASE NotStarted
  <2>1. skipped' /\ UNCHANGED <<masterOf, slots>>
    BY <1>4 DEF NotStarted, clusterVars
  <2>2. Masters' = Masters
    BY <2>1 DEF Masters
  <2>3. ASSUME pc' = "reshard" PROVE AllInv'
    <3>1. plan' = Tail(plan)
      BY <1>1, <2>3
    <3>2. \A j, k \in 1..Len(plan') : plan'[j].target = plan'[k].target => j = k
      <4>1. ASSUME NEW j \in 1..Len(plan'), NEW k \in 1..Len(plan'),
                   plan'[j].target = plan'[k].target
            PROVE  j = k
        <5>1. j + 1 = k + 1
          BY <1>2, <1>3, <3>1, <4>1
        <5> QED
          BY <5>1
      <4> QED
        BY <4>1
    <3>3. ASSUME NEW k \in 1..Len(plan'), plan'[k].target \in Masters
          PROVE  slots[plan'[k].target] = {}
      <4>1. PICK m \in 1..Len(plan) : plan'[k].target = plan[m].target
        BY <1>3, <3>1
      <4> QED
        BY <1>2, <3>3, <4>1
    <3> QED
      BY <1>1, <1>3, <2>1, <2>2, <3>1, <3>2, <3>3 DEF AllInv
  <2> QED
    BY <2>1, <2>3 DEF AllInv
<1>5. CASE Moved
  <2>1. /\ masterOf' = masterOf /\ plan' = Tail(plan) /\ skipped' = skipped
        /\ moving = {} /\ moving' = moving
        /\ result' # result => plan' = <<>>
    BY <1>5 DEF Moved, Possible, Succeeds, Return
  <2>2. Masters' = Masters
    BY <2>1 DEF Masters
  <2>3. \A i \in Masters : slots'[i] = {} <=> slots[i] = {} /\ i # Call.target
    BY <1>1, <1>5, ReshardAllMoves
  <2>4. \A j, k \in 1..Len(plan') : plan'[j].target = plan'[k].target => j = k
    <3>1. ASSUME NEW j \in 1..Len(plan'), NEW k \in 1..Len(plan'),
                 plan'[j].target = plan'[k].target
          PROVE  j = k
      <4>1. j + 1 = k + 1
        BY <1>2, <1>3, <2>1, <3>1
      <4> QED
        BY <4>1
    <3> QED
      BY <3>1
  <2>5. ASSUME NEW k \in 1..Len(plan'), plan'[k].target \in Masters
        PROVE  slots'[plan'[k].target] = {}
    <3>1. k + 1 \in 1..Len(plan) /\ plan'[k] = plan[k + 1] /\ k + 1 # 1
      BY <1>3, <2>1
    <3>2. plan[k + 1].target # Call.target
      BY <1>2, <1>3, <3>1
    <3>3. PICK m \in 1..Len(plan) : m = k + 1
      BY <3>1
    <3>4. PICK i \in Masters : i = plan[m].target /\ i = plan'[k].target
      BY <2>5, <3>1, <3>3
    <3>5. slots[i] = {}
      <4>1. plan[m].target \in Masters => slots[plan[m].target] = {}
        BY <1>2
      <4> QED
        BY <3>4, <4>1
    <3>6. i # Call.target
      BY <3>2, <3>3, <3>4
    <3> QED
      BY <2>3, <3>4, <3>5, <3>6
  <2>6. ASSUME ~skipped, NEW i \in Masters, slots'[i] = {}
        PROVE  \E k \in 1..Len(plan') : plan'[k].target = i
    <3>1. PICK k \in 1..Len(plan) : plan[k].target = i
      BY <1>2, <2>1, <2>3, <2>6
    <3>2. k # 1
      BY <1>3, <2>3, <2>6, <3>1
    <3>3. k - 1 \in 1..Len(plan') /\ plan'[k - 1].target = i
      BY <1>3, <2>1, <3>1, <3>2
    <3> QED
      BY <3>3
  <2>7. AllInv'
    BY <1>1, <1>3, <2>1, <2>2, <2>4, <2>5, <2>6 DEF AllInv
  <2>8. ASSUME ~skipped', result # "ok", result' = "ok" PROVE \A i \in Masters : slots'[i] # {}
    <3>1. plan' = <<>> /\ Len(plan') = 0
      BY <2>1, <2>8
    <3> QED
      BY <2>1, <2>6, <2>8, <3>1
  <2> QED
    BY <2>7, <2>8
<1>6. CASE Broke \/ Hangs
  <2>1. pc' # "reshard" /\ (result' = result \/ result' = "error")
    BY <1>1, <1>6 DEF Broke, Hangs, Fails, Return
  <2> QED
    BY <2>1 DEF AllInv
<1> QED
  BY <1>4, <1>5, <1>6 DEF Reshard

\* The invariant is inductive.
LEMMA AllSafe == Spec => []AllInv
<1>1. Init => AllInv
  BY DEF Init, AllInv
<1>2. PlanInv /\ AllInv /\ [Next]_vars => AllInv'
  <2> SUFFICES ASSUME PlanInv, AllInv, [Next]_vars PROVE AllInv'
    OBVIOUS
  <2>1. CASE Read \/ Killed
    <3>1. pc' # "reshard"
      BY <2>1 DEF Read, Killed, Fails, Return
    <3> QED
      BY <3>1 DEF AllInv
  <2>2. CASE Plan
    <3>1. request' = request /\ changed' = changed
      BY <2>2, PlanSteps
    <3> QED
      BY <2>2, <3>1, ReshardAllPlans DEF AllInv
  <2>3. CASE Reshard
    <3>1. request' = request /\ changed' = changed
      BY <2>3, ReshardSteps
    <3> QED
      BY <2>3, <3>1, ReshardAllGoesOn DEF AllInv
  <2>4. CASE Cancel \/ UNCHANGED vars
    <3>1. UNCHANGED <<masterOf, slots, moving, request, pc, plan, changed, skipped>>
      BY <2>4 DEF Cancel, vars, clusterVars
    <3>2. Masters' = Masters
      BY <3>1 DEF Masters
    <3> QED
      BY <3>1, <3>2 DEF AllInv
  <2>5. CASE Failover
    <3>1. changed' = TRUE
      BY <2>5 DEF Failover
    <3> QED
      BY <3>1 DEF AllInv
  <2> QED
    BY <2>1, <2>2, <2>3, <2>4, <2>5 DEF Next
<1> QED
  BY <1>1, <1>2, PlansSafe, PTL DEF Spec

\* A ReshardAll that returns nil leaves no master without slots, except one that a slot
\* is half moved to.
THEOREM ReshardAllFilled == Spec => ReshardAllFills
<1>1. PlanInv /\ AllInv /\ [Next]_vars
        => [Done /\ request.op = "ReshardAll" /\ ~changed
              => \A n \in Masters \ moving : slots'[n] # {}]_vars
  <2> SUFFICES ASSUME PlanInv, AllInv, [Next]_vars, Done, request.op = "ReshardAll", ~changed
               PROVE  \A n \in Masters \ moving : slots'[n] # {}
    OBVIOUS
  <2>1. result # "ok" /\ result' = "ok" /\ ~skipped'
    BY SlotPlansAssumption DEF Done
  <2>2. CASE Plan
    BY <2>1, <2>2, ReshardAllPlans
  <2>3. CASE Reshard
    BY <2>1, <2>3, ReshardAllGoesOn
  <2>4. Plan \/ Reshard
    BY <2>1 DEF Next, Read, Killed, Fails, Return, Cancel, Failover, vars
  <2> QED
    BY <2>2, <2>3, <2>4
<1> QED
  BY <1>1, PlansSafe, AllSafe, PTL DEF Spec, ReshardAllFills
-----------------------------------------------------------------------------
(* MergeNode.                                                              *)

\* The least of some numbers.
LEMMA Least ==
  ASSUME NEW t, t \subseteq Nat, t # {}
  PROVE  \E n \in t : \A m \in t : n <= m
<1> DEFINE r == OpToRel(<, Nat)
<1>1. PICK n \in t : \A m \in t : ~(<<m, n>> \in r)
  <2> HIDE DEF r
  <2>1. IsWellFoundedOn(r, Nat)
    BY NatLessThanWellFounded DEF r
  <2> QED
    BY <2>1, WFMin
<1>2. \A m \in t : ~(m < n) /\ m \in Nat /\ n \in Nat
  BY <1>1 DEF OpToRel
<1> QED
  BY <1>2

\* Induction, in the numbers up to m.
LEMMA Induction ==
  ASSUME NEW m \in Nat, NEW s, 0 \in s, \A i \in 0..m : i \in s /\ i < m => i + 1 \in s
  PROVE  \A i \in 0..m : i \in s
<1>1. SUFFICES ASSUME (0..m) \ s # {} PROVE FALSE
  OBVIOUS
<1>2. PICK n \in (0..m) \ s : \A k \in (0..m) \ s : n <= k
  <2>1. PICK out : out = (0..m) \ s
    OBVIOUS
  <2>2. out \subseteq Nat /\ out # {}
    BY <1>1, <2>1
  <2> QED
    BY <2>1, <2>2, Least
<1>3. n # 0 /\ n - 1 \in 0..m /\ n - 1 < m
  BY <1>2
<1>4. n - 1 \in s
  BY <1>2, <1>3
<1> QED
  BY <1>2, <1>3, <1>4

\* There is a sum of numbers d, from the first on.
LEMMA Sums ==
  ASSUME NEW m \in Nat, NEW d \in [1..m -> Int]
  PROVE  \E g \in [0..m -> Int] : g[0] = 0 /\ \A i \in 1..m : g[i] = g[i - 1] + d[i]
<1> DEFINE Sum(g, k) == g[0] = 0 /\ \A i \in 1..k : g[i] = g[i - 1] + d[i]
           summed == {k \in 0..m : \E g \in [0..k -> Int] : Sum(g, k)}
<1>1. 0 \in summed
  <2>1. [i \in 0..0 |-> 0] \in [0..0 -> Int] /\ Sum([i \in 0..0 |-> 0], 0)
    OBVIOUS
  <2> HIDE DEF Sum
  <2> QED
    BY <2>1
<1>2. ASSUME NEW k \in 0..m, k \in summed, k < m PROVE k + 1 \in summed
  <2>1. PICK g \in [0..k -> Int] : Sum(g, k)
    BY <1>2
  <2>2. k + 1 \in 1..m /\ k \in 0..k /\ k \in Nat
    BY <1>2
  <2>3. d[k + 1] \in Int /\ g[k] \in Int
    BY <2>2
  <2> DEFINE h == [i \in 0..(k + 1) |-> IF i = k + 1 THEN g[k] + d[k + 1] ELSE g[i]]
  <2>4. h \in [0..(k + 1) -> Int]
    <3>1. \A i \in 0..(k + 1) : i # k + 1 => i \in 0..k
      BY <2>2
    <3> QED
      BY <2>3, <3>1
  <2>5. h[0] = 0
    BY <2>1, <2>2
  <2>6. ASSUME NEW i \in 1..(k + 1) PROVE h[i] = h[i - 1] + d[i]
    <3>1. i \in 0..(k + 1) /\ i - 1 \in 0..(k + 1) /\ i - 1 # k + 1
      BY <2>2
    <3>2. CASE i = k + 1
      <4>1. h[i] = g[k] + d[k + 1] /\ h[i - 1] = g[k]
        BY <2>2, <3>1, <3>2
      <4> QED
        BY <3>2, <4>1
    <3>3. CASE i # k + 1
      <4>1. h[i] = g[i] /\ h[i - 1] = g[i - 1] /\ i \in 1..k
        BY <2>2, <3>1, <3>3
      <4> QED
        BY <2>1, <4>1
    <3> QED
      BY <3>2, <3>3
  <2>7. Sum(h, k + 1)
    BY <2>5, <2>6
  <2> HIDE DEF h, Sum
  <2> QED
    BY <2>2, <2>4, <2>7
<1>3. m \in summed
  <2>1. \A k \in 0..m : k \in summed
    <3> HIDE DEF summed
    <3> QED
      BY <1>1, <1>2, Induction
  <2> HIDE DEF summed
  <2> QED
    BY <2>1
<1> QED
  BY <1>3

\* CountPairs adds up what lies between the two numbers of each pair.
LEMMA PairsCounted ==
  ASSUME NEW s \in Seq(Nat), NEW m \in Nat, m = Len(s) \div 2
  PROVE  \E g \in [0..m -> Int] :
           /\ g[0] = 0 /\ CountPairs(s) = g[m]
           /\ \A i \in 1..m : g[i] = g[i - 1] + s[2 * i] - s[2 * i - 1] + 1
<1> DEFINE Counts(g) == g = [i \in 0..m |-> IF i = 0 THEN 0
                                            ELSE g[i - 1] + s[2 * i] - s[2 * i - 1] + 1]
           d == [i \in 1..m |-> s[2 * i] - s[2 * i - 1] + 1]
<1>1. \A i \in 1..m : s[2 * i] \in Nat /\ s[2 * i - 1] \in Nat
  <2>1. \A i \in 1..m : 2 * i \in 1..Len(s) /\ 2 * i - 1 \in 1..Len(s)
    OBVIOUS
  <2> QED
    BY <2>1
<1>2. d \in [1..m -> Int]
  <2>1. ASSUME NEW i \in 1..m PROVE s[2 * i] - s[2 * i - 1] + 1 \in Int
    BY <1>1
  <2> QED
    BY <2>1
<1>3. PICK g \in [0..m -> Int] : g[0] = 0 /\ \A i \in 1..m : g[i] = g[i - 1] + d[i]
  <2> HIDE DEF d
  <2> QED
    BY <1>2, Sums
<1>4. Counts(g)
  <2>1. ASSUME NEW i \in 1..m PROVE g[i] = g[i - 1] + s[2 * i] - s[2 * i - 1] + 1
    <3>1. PICK a, b \in Nat : a = s[2 * i] /\ b = s[2 * i - 1]
      BY <1>1
    <3>2. d[i] = s[2 * i] - s[2 * i - 1] + 1
      OBVIOUS
    <3> HIDE DEF d
    <3>3. d[i] = a - b + 1
      BY <3>1, <3>2
    <3>4. i - 1 \in 0..m
      OBVIOUS
    <3>5. PICK v \in Int : v = g[i - 1]
      BY <3>4
    <3>6. g[i] = v + (a - b + 1)
      BY <1>3, <3>3, <3>5
    <3>7. v + (a - b + 1) = v + a - b + 1
      OBVIOUS
    <3> QED
      BY <3>1, <3>5, <3>6, <3>7
  <2>2. \A i \in 0..m : g[i] = IF i = 0 THEN 0 ELSE g[i - 1] + s[2 * i] - s[2 * i - 1] + 1
    BY <1>3, <2>1
  <2> QED
    BY <2>2
<1> DEFINE count == CHOOSE f : Counts(f)
<1>5. Counts(count)
  BY <1>4
<1>6. CountPairs(s) = count[m]
  BY DEF CountPairs
<1> HIDE DEF count
<1>7. /\ DOMAIN count = 0..m /\ count[0] = 0
      /\ \A i \in 1..m : count[i] = count[i - 1] + s[2 * i] - s[2 * i - 1] + 1
  <2>1. /\ DOMAIN count = 0..m
        /\ \A i \in 0..m : count[i] = IF i = 0 THEN 0
                                     ELSE count[i - 1] + s[2 * i] - s[2 * i - 1] + 1
    BY <1>5
  <2>2. ASSUME NEW i \in 1..m PROVE count[i] = count[i - 1] + s[2 * i] - s[2 * i - 1] + 1
    <3>1. i \in 0..m /\ i # 0
      OBVIOUS
    <3> QED
      BY <2>1, <3>1
  <2> QED
    BY <2>1, <2>2
<1>8. count \in [0..m -> Int]
  <2> DEFINE ints == {i \in 0..m : count[i] \in Int}
  <2>1. 0 \in ints
    BY <1>7
  <2>2. ASSUME NEW i \in 0..m, i \in ints, i < m PROVE i + 1 \in ints
    <3>1. PICK k \in 1..m : k = i + 1 /\ k - 1 = i
      BY <2>2
    <3>2. PICK a, b \in Nat : a = s[2 * k] /\ b = s[2 * k - 1]
      BY <1>1
    <3>3. count[k] = count[i] + a - b + 1 /\ count[i] \in Int
      BY <1>7, <2>2, <3>1, <3>2
    <3>4. count[k] \in Int
      BY <3>3
    <3> QED
      BY <3>1, <3>4
  <2>3. \A i \in 0..m : i \in ints
    <3> HIDE DEF ints
    <3> QED
      BY <2>1, <2>2, Induction
  <2>4. count = [i \in 0..m |-> count[i]]
    BY <1>5
  <2> QED
    BY <2>3, <2>4
<1> QED
  BY <1>6, <1>7, <1>8

\* The numbers of a set's blocks are ends of blocks, and between two that follow each
\* other there is none.
LEMMA BorderOrder ==
  ASSUME NEW h, h \subseteq Slot
  PROVE  /\ \A k \in 1..Len(Border(h)) :
              /\ Border(h)[k] \in h
              /\ Border(h)[k] - 1 \notin h \/ Border(h)[k] + 1 \notin h
         /\ \A k \in 1..(Len(Border(h)) - 1) :
              /\ Border(h)[k] < Border(h)[k + 1]
              /\ \A x \in h : Border(h)[k] < x /\ x < Border(h)[k + 1] => x - 1 \in h /\ x + 1 \in h
<1> DEFINE b == {i \in h : i - 1 \notin h \/ i + 1 \notin h}
<1>1. h \subseteq Nat /\ b \subseteq h /\ Border(h) = InOrder(b)
  BY SlotSets DEF Border
<1>2. b \subseteq Nat /\ IsFiniteSet(b)
  <2>1. b \subseteq Slot
    BY <1>1
  <2> HIDE DEF b
  <2> QED
    BY <2>1, SlotSets
<1>3. /\ Len(Border(h)) = Cardinality(b) /\ Cardinality(b) \in Nat
      /\ \A k \in 1..Cardinality(b) : Border(h)[k] \in b /\ Rank(b, Border(h)[k]) = k - 1
  <2> HIDE DEF b
  <2> QED
    BY <1>1, <1>2, InOrderRanks
<1>4. ASSUME NEW k \in 1..(Len(Border(h)) - 1)
      PROVE  /\ Border(h)[k] < Border(h)[k + 1]
             /\ \A x \in b : ~(Border(h)[k] < x /\ x < Border(h)[k + 1])
  <2>1. k \in 1..Cardinality(b) /\ k + 1 \in 1..Cardinality(b) /\ k \in Nat
    BY <1>3
  <2>2. PICK low \in b : low = Border(h)[k] /\ Rank(b, low) = k - 1
    BY <1>3, <2>1
  <2> HIDE DEF b
  <2>3. PICK high \in b : high = Border(h)[k + 1] /\ Rank(b, high) = k
    <3>1. PICK j \in 1..Cardinality(b) : j = k + 1 /\ j - 1 = k
      BY <2>1
    <3>2. Border(h)[j] \in b /\ Rank(b, Border(h)[j]) = j - 1
      BY <1>3, <3>1
    <3> QED
      BY <3>1, <3>2
  <2>4. /\ \A x \in b : x \in Nat /\ Rank(b, x) \in Int
        /\ \A x, z \in b : x < z => Rank(b, x) < Rank(b, z)
    <3>1. /\ \A x \in b : Rank(b, x) \in 0..(Cardinality(b) - 1)
          /\ \A x, z \in b : x < z => Rank(b, x) < Rank(b, z)
      BY <1>2, Ranks
    <3> QED
      BY <1>2, <3>1
  <2>5. low < high
    <3>1. ~(high < low) /\ high # low /\ high \in Nat /\ low \in Nat
      BY <2>1, <2>2, <2>3, <2>4
    <3> QED
      BY <3>1
  <2>6. ASSUME NEW x \in b, low < x, x < high PROVE FALSE
    <3>1. Rank(b, low) < Rank(b, x) /\ Rank(b, x) < Rank(b, high) /\ Rank(b, x) \in Int
      BY <2>4, <2>6
    <3> QED
      BY <2>1, <2>2, <2>3, <3>1
  <2> QED
    BY <2>2, <2>3, <2>5, <2>6
<1>5. \A k \in 1..Len(Border(h)) : Border(h)[k] \in b
  BY <1>3
<1> QED
  BY <1>4, <1>5

\* What is between two such numbers: all of it is in the set, and then the second is
\* the end of a block, or nothing, and then it is the beginning of one.
LEMMA Gap ==
  ASSUME NEW h, h \subseteq Nat, NEW low \in h, NEW high \in h, low < high,
         \A x \in h : low < x /\ x < high => x - 1 \in h /\ x + 1 \in h,
         high - 1 \notin h \/ high + 1 \notin h
  PROVE  /\ low + 1 \in h => low..high \subseteq h /\ high + 1 \notin h
         /\ low + 1 \notin h => /\ high - 1 \notin h
                                /\ \A x \in h : ~(low < x /\ x < high)
<1>0. low \in Nat /\ high \in Nat
  OBVIOUS
<1>1. ASSUME low + 1 \in h PROVE low..high \subseteq h
  <2>1. SUFFICES ASSUME ~(low..high \subseteq h) PROVE FALSE
    OBVIOUS
  <2>2. PICK out : out = (low..high) \ h
    OBVIOUS
  <2>3. out \subseteq Nat /\ out # {}
    BY <1>0, <2>1, <2>2
  <2>4. PICK x \in out : \A y \in out : x <= y
    BY <2>3, Least
  <2>5. x \in low..high /\ x \notin h /\ x # low /\ x # high /\ x # low + 1
    BY <1>1, <2>2
  <2>6. x - 1 \in low..high /\ ~(x <= x - 1)
    BY <1>0, <2>5
  <2>7. x - 1 \in h
    BY <2>2, <2>4, <2>6
  <2>8. low < x - 1 /\ x - 1 < high /\ (x - 1) + 1 = x
    BY <1>0, <2>5
  <2> QED
    BY <2>5, <2>7, <2>8
<1>2. ASSUME low + 1 \notin h PROVE \A x \in h : ~(low < x /\ x < high)
  <2>1. SUFFICES ASSUME NEW z \in h, low < z, z < high PROVE FALSE
    OBVIOUS
  <2>2. PICK in : in = {y \in h : low < y /\ y < high}
    OBVIOUS
  <2>3. in \subseteq Nat /\ in # {}
    BY <2>1, <2>2
  <2>4. PICK x \in in : \A y \in in : x <= y
    BY <2>3, Least
  <2>5. x \in h /\ x \in Nat /\ low < x /\ x < high /\ x - 1 \in h
    BY <2>2
  <2>6. x - 1 # low
    BY <1>0, <1>2, <2>5
  <2>7. low < x - 1 /\ x - 1 < high /\ ~(x <= x - 1)
    BY <1>0, <2>5, <2>6
  <2>8. x - 1 \in in
    BY <2>2, <2>5, <2>7
  <2> QED
    BY <2>4, <2>7, <2>8
<1>3. ASSUME low + 1 \in h PROVE high + 1 \notin h
  <2>1. high - 1 \in low..high
    BY <1>0
  <2> QED
    BY <1>1, <1>3, <2>1
<1>4. ASSUME low + 1 \notin h PROVE high - 1 \notin h
  <2>1. SUFFICES ASSUME high - 1 \in h PROVE FALSE
    OBVIOUS
  <2>2. high - 1 # low
    BY <1>0, <1>4
  <2>3. low < high - 1 /\ high - 1 < high
    BY <1>0, <2>2
  <2> QED
    BY <1>2, <1>4, <2>1, <2>3
<1> QED
  BY <1>1, <1>2, <1>3, <1>4

\* If a set has no block of one, the numbers of its blocks are even in number, and
\* MergeNode's sum over them, two by two, counts the set.
THEOREM BlocksCounted ==
  ASSUME NEW h, h \subseteq Slot, \A x \in h : x - 1 \in h \/ x + 1 \in h
  PROVE  /\ Len(Border(h)) % 2 = 0
         /\ CountPairs(Border(h)) = Cardinality(h)
<1> DEFINE b == Border(h)
           m == Len(b) \div 2
           upTo(i) == IF i = 0 THEN {} ELSE {x \in h : x <= b[2 * i]}
<1>1. h \subseteq Nat /\ IsFiniteSet(h) /\ b \in Seq(Slot) /\ b \in Seq(Nat)
  <2>1. h \subseteq Nat /\ IsFiniteSet(h) /\ b \in Seq(Slot)
    BY SlotSets, BorderEnds
  <2> QED
    BY <2>1, SlotNumbers, SeqMonotonic
<1>2. m \in Nat /\ (Len(b) = 2 * m \/ Len(b) = 2 * m + 1)
  <2>1. Len(b) \in Nat
    BY <1>1
  <2> QED
    BY <2>1
<1>3. /\ \A k \in 1..Len(b) : b[k] \in h /\ (b[k] - 1 \notin h \/ b[k] + 1 \notin h)
      /\ \A k \in 1..(Len(b) - 1) :
           /\ b[k] < b[k + 1]
           /\ \A x \in h : b[k] < x /\ x < b[k + 1] => x - 1 \in h /\ x + 1 \in h
  BY BorderOrder
<1>4. \A x \in h : b # <<>> /\ b[1] <= x /\ x <= b[Len(b)]
  BY BorderEnds
<1>5. PICK g \in [0..m -> Int] :
        /\ g[0] = 0 /\ CountPairs(b) = g[m]
        /\ \A i \in 1..m : g[i] = g[i - 1] + b[2 * i] - b[2 * i - 1] + 1
  <2> HIDE DEF b
  <2> QED
    BY <1>1, <1>2, PairsCounted
<1> HIDE DEF b, m
<1> DEFINE counted == {i \in 0..m : /\ g[i] = Cardinality(upTo(i))
                                    /\ i # 0 => b[2 * i] + 1 \notin h}
<1>6. 0 \in counted
  BY <1>2, <1>5, FS_EmptySet
<1>7. ASSUME NEW i \in 0..m, i \in counted, NEW first \in 1..Len(b), first = 2 * i + 1,
             NEW low \in h, low = b[first]
      PROVE  /\ low - 1 \notin h /\ low + 1 \in h
             /\ {x \in h : x < low} = upTo(i)
  <2>1. low \in Nat /\ (low - 1 \in h \/ low + 1 \in h) /\ (low - 1 \notin h \/ low + 1 \notin h)
    BY <1>1, <1>3, <1>7
  <2>2. CASE i = 0
    <3>1. \A x \in h : low <= x /\ x \in Nat
      BY <1>1, <1>4, <1>7, <2>2
    <3>2. \A x \in h : ~(x < low) /\ x # low - 1
      BY <2>1, <3>1
    <3> QED
      BY <2>1, <2>2, <3>2
  <2>3. CASE i # 0
    <3>1. PICK last \in Nat : last = 2 * i /\ last \in 1..(Len(b) - 1) /\ last + 1 = first
      BY <1>1, <1>2, <1>7, <2>3
    <3>2. PICK before \in h : before = b[2 * i] /\ before = b[last]
      BY <1>1, <1>3, <3>1
    <3>3. /\ before < low /\ before + 1 \notin h /\ before \in Nat
          /\ \A x \in h : before < x /\ x < low => x - 1 \in h /\ x + 1 \in h
      BY <1>1, <1>3, <1>7, <2>3, <3>1, <3>2
    <3>4. low - 1 \notin h /\ \A x \in h : ~(before < x /\ x < low)
      <4> HIDE DEF upTo, counted
      <4>1. before + 1 \notin h => /\ low - 1 \notin h
                                   /\ \A x \in h : ~(before < x /\ x < low)
        <5>1. /\ h \subseteq Nat /\ (low - 1 \notin h \/ low + 1 \notin h)
              /\ before < low /\ \A x \in h : before < x /\ x < low => x - 1 \in h /\ x + 1 \in h
          BY <1>1, <2>1, <3>3
        <5> QED
          BY <5>1, Gap
      <4> QED
        BY <3>3, <4>1
    <3>5. \A x \in h : x < low <=> x <= before
      <4>1. \A x \in h : x \in Nat /\ ~(before < x /\ x < low)
        BY <1>1, <3>4
      <4> QED
        BY <2>1, <3>3, <4>1
    <3> QED
      BY <2>1, <2>3, <3>2, <3>4, <3>5
  <2> QED
    BY <2>2, <2>3
<1>8. ASSUME NEW i \in 0..m, i \in counted, i < m PROVE i + 1 \in counted
  <2>1. PICK k \in 1..m : k = i + 1 /\ i = k - 1
    BY <1>2, <1>8
  <2>2. PICK first \in 1..Len(b) : /\ first = 2 * k - 1 /\ first = 2 * i + 1
                                   /\ first \in 1..(Len(b) - 1) /\ first + 1 = 2 * k
    BY <1>1, <1>2, <2>1
  <2>3. PICK low \in h : low = b[2 * k - 1] /\ low = b[first]
    BY <1>3, <2>2
  <2>4. PICK high \in h : high = b[2 * k] /\ high = b[first + 1]
    BY <1>1, <1>2, <1>3, <2>2
  <2>5. /\ low < high /\ low \in Nat /\ high \in Nat
        /\ \A x \in h : low < x /\ x < high => x - 1 \in h /\ x + 1 \in h
        /\ high - 1 \notin h \/ high + 1 \notin h
    <3>1. 2 * k \in 1..Len(b) /\ 2 * k - 1 \in 1..Len(b)
      BY <1>1, <1>2
    <3> QED
      BY <1>1, <1>3, <2>2, <2>3, <2>4, <3>1
  <2>6. low + 1 \in h /\ {x \in h : x < low} = upTo(i)
    BY <1>7, <1>8, <2>2, <2>3
  <2>7. low..high \subseteq h /\ high + 1 \notin h
    BY <1>1, <2>5, <2>6, Gap
  <2>8. /\ IsFiniteSet(low..high) /\ Cardinality(low..high) = high - low + 1
        /\ IsFiniteSet(upTo(i)) /\ Cardinality(upTo(i)) \in Nat
    <3>1. upTo(i) \subseteq h
      OBVIOUS
    <3>2. IsFiniteSet(low..high) /\ Cardinality(low..high) = high - low + 1
      BY <2>5, FS_Interval
    <3> HIDE DEF upTo
    <3> QED
      BY <1>1, <3>1, <3>2, FS_Subset, FS_CardinalityType
  <2>9. upTo(k) = upTo(i) \cup (low..high) /\ upTo(i) \cap (low..high) = {}
    <3>1. upTo(k) = {x \in h : x <= high}
      BY <2>1, <2>4
    <3>2. upTo(i) = {x \in h : x < low}
      BY <2>6
    <3> HIDE DEF upTo
    <3>3. \A x \in h : /\ x <= high <=> x < low \/ x \in low..high
                      /\ ~(x < low /\ x \in low..high)
      <4>1. ASSUME NEW x \in h
            PROVE  /\ x <= high <=> x < low \/ x \in low..high
                   /\ ~(x < low /\ x \in low..high)
        <5>1. x \in Nat
          BY <1>1
        <5> QED
          BY <2>5, <5>1
      <4> QED
        BY <4>1
    <3> QED
      BY <2>7, <3>1, <3>2, <3>3
  <2>10. Cardinality(upTo(k)) = Cardinality(upTo(i)) + (high - low + 1)
    <3> HIDE DEF upTo
    <3>1. Cardinality(upTo(i) \cap (low..high)) = 0
      BY <2>9, FS_EmptySet
    <3>2. Cardinality(upTo(k)) = Cardinality(upTo(i)) + Cardinality(low..high)
                                   - Cardinality(upTo(i) \cap (low..high))
      BY <2>8, <2>9, FS_Union
    <3> QED
      BY <2>5, <2>8, <3>1, <3>2
  <2>11. g[k] = Cardinality(upTo(i)) + high - low + 1
    BY <1>5, <1>8, <2>1, <2>3, <2>4
  <2>12. g[k] = Cardinality(upTo(k))
    <3> HIDE DEF upTo
    <3> QED
      BY <2>5, <2>8, <2>10, <2>11
  <2> QED
    BY <2>1, <2>4, <2>7, <2>12
<1>9. m \in counted
  <2> HIDE DEF counted
  <2>1. \A i \in 0..m : i \in counted
    BY <1>2, <1>6, <1>8, Induction
  <2> QED
    BY <1>2, <2>1
<1>10. Len(b) = 2 * m
  <2>1. SUFFICES ASSUME Len(b) = 2 * m + 1 PROVE FALSE
    BY <1>2
  <2>2. PICK first \in 1..Len(b) : first = 2 * m + 1 /\ first = Len(b)
    BY <1>2, <2>1
  <2>3. PICK low \in h : low = b[first]
    BY <1>3
  <2>4. m \in 0..m
    BY <1>2
  <2>5. low + 1 \in h /\ low \in Nat
    BY <1>1, <1>7, <1>9, <2>2, <2>3, <2>4
  <2> QED
    BY <1>4, <2>2, <2>3, <2>5
<1>11. upTo(m) = h
  <2>1. CASE m = 0
    <3>1. b = <<>>
      BY <1>1, <1>10, <2>1
    <3> QED
      BY <1>4, <2>1, <3>1
  <2>2. CASE m # 0
    BY <1>2, <1>4, <1>10, <2>2
  <2> QED
    BY <2>1, <2>2
<1>12. CountPairs(b) = Cardinality(h)
  BY <1>5, <1>9, <1>11
<1> HIDE DEF counted, upTo
<1>13. Len(b) % 2 = 0
  BY <1>2, <1>10
<1> QED
  BY <1>12, <1>13 DEF b

\* Has a set no block of a single number?
NoSinglesIn(s) == \A x \in s : x - 1 \in s \/ x + 1 \in s

\* What MergeNode reads of its source is the blocks of what that holds, or nothing, or
\* the words of a replica's line that pass for slots, whichever node has failed over
\* since; and the one call it has planned takes as many slots as the source holds,
\* if their number is accepted and no block is of a single slot.
MergeInv ==
  /\ pc = "plan" /\ moving = {} =>
       \A i \in Node : nodes[i].slots \in {Border(Held(i)), <<>>, <<0, Stamp, Epoch, 0>>}
  /\ request.op = "MergeNode" /\ pc = "reshard" =>
       /\ Tail(plan) = <<>>
       /\ Call.source \in Node /\ Call.source = request.source
       /\ moving = {} /\ Call.count \in 1..MaxSlots /\ NoSinglesIn(Held(Call.source))
            => Cardinality(Held(Call.source)) <= Call.count

\* It is read as MergeInv says.
LEMMA MergeNodeReads ==
  ASSUME ClusterOK, Read
  PROVE  MergeInv'
<1> SUFFICES ASSUME pc' = "plan", moving' = {}, NEW i \in Node
             PROVE  nodes'[i].slots \in {Border(Held(i)'), <<>>, <<0, Stamp, Epoch, 0>>}
  <2>1. pc' # "reshard"
    BY DEF Read, Return
  <2> QED
    BY <2>1 DEF MergeInv
<1>1. PICK myself \in Node : nodes' = GetClusterNodes(masterOf, slots, moving \cap {myself})
  BY DEF Read, Return
<1>0. UNCHANGED <<masterOf, slots, moving>> /\ moving \cap {myself} = {}
  BY DEF Read, clusterVars
<1>2. Masters' = Masters /\ Held(i)' = Held(i)
  BY <1>0 DEF Masters, Held
<1>3. CASE i \in Masters
  <2>1. nodes'[i].slots = Border(slots[i])
    BY <1>0, <1>1, <1>3, NodesRead
  <2> QED
    BY <1>2, <1>3, <2>1 DEF Held
<1>4. CASE i \notin Masters
  <2> DEFINE before == \E j \in 1..(i - 1) : masterOf[j] # NoNode
             line == Line(i, masterOf, slots, {})
  <2>1. nodes'[i].slots = ParseLine(line, before).slots
    BY <1>0, <1>1 DEF GetClusterNodes
  <2>2. line.blocks = Border({}) /\ line.moving = (i \in {})
    BY <1>4 DEF Line, ClusterOK
  <2>3. Border({}) = <<>> /\ ~line.moving
    BY <2>2, BorderEnds, NodeNumbers
  <2> HIDE DEF before, line
  <2>4. \/ nodes'[i].slots = <<0, Stamp, Epoch, 0>>
        \/ nodes'[i].slots = <<>> \o <<>>
    BY <2>1, <2>2, <2>3 DEF ParseLine
  <2>5. <<>> \o <<>> = <<>>
    OBVIOUS
  <2> QED
    BY <2>4, <2>5
<1> QED
  BY <1>3, <1>4

\* The words of a replica's line count for more slots than there are.
LEMMA WordsCounted ==
  /\ CountPairs(<<>>) = 0
  /\ CountPairs(<<0, Stamp, Epoch, 0>>) > MaxSlots
<1> DEFINE words == <<0, Stamp, Epoch, 0>>
<1>1. CountPairs(<<>>) = 0
  <2>1. <<>> \in Seq(Nat) /\ 0 = Len(<<>>) \div 2
    OBVIOUS
  <2> QED
    BY <2>1, PairsCounted
<1>2. Stamp \in Nat /\ Epoch \in Nat /\ MaxSlots \in Nat /\ Stamp > MaxSlots + Epoch
  BY ClusterNodesAssumption
<1>3. /\ words \in Seq(Nat) /\ 2 = Len(words) \div 2
      /\ words[1] = 0 /\ words[2] = Stamp /\ words[3] = Epoch /\ words[4] = 0
  BY <1>2
<1> HIDE DEF words
<1>4. PICK g \in [0..2 -> Int] :
        /\ g[0] = 0 /\ CountPairs(words) = g[2]
        /\ \A i \in 1..2 : g[i] = g[i - 1] + words[2 * i] - words[2 * i - 1] + 1
  <2>1. PICK m \in Nat : m = 2
    OBVIOUS
  <2>2. \E g \in [0..m -> Int] :
          /\ g[0] = 0 /\ CountPairs(words) = g[m]
          /\ \A i \in 1..m : g[i] = g[i - 1] + words[2 * i] - words[2 * i - 1] + 1
    <3>1. m = Len(words) \div 2
      BY <1>3, <2>1
    <3> QED
      BY <1>3, <3>1, PairsCounted
  <2> QED
    BY <2>1, <2>2
<1>5. g[1] = 0 + Stamp - 0 + 1 /\ g[2] = g[1] + 0 - Epoch + 1
  <2>1. g[1] = g[0] + words[2] - words[1] + 1
    BY <1>4
  <2>2. g[2] = g[1] + words[4] - words[3] + 1
    BY <1>4
  <2> QED
    BY <1>3, <1>4, <2>1, <2>2
<1>6. CountPairs(words) > MaxSlots
  BY <1>2, <1>4, <1>5
<1> QED
  BY <1>1, <1>6 DEF words

\* It plans one call, for the number of slots that the source's blocks have.
LEMMA MergeNodePlans ==
  ASSUME PlanInv, MergeInv, Plan, request.op = "MergeNode"
  PROVE  MergeInv'
<1>1. /\ pc = "plan" /\ PlanMergeNode
      /\ UNCHANGED <<masterOf, slots, moving, request, nodes>>
  BY DEF Plan, PlanReshardAll, PlanExceptNode, clusterVars
<1>2. pc' # "plan"
  BY PlanSteps
<1> SUFFICES ASSUME pc' = "reshard" PROVE MergeInv'
  BY <1>2 DEF MergeInv
<1> DEFINE source == request.source
           words == nodes[source].slots
<1>3. /\ {request.target, source} \subseteq DOMAIN nodes /\ Len(words) % 2 # 1
      /\ Reshards(<<[target |-> request.target, count |-> CountPairs(words), source |-> source]>>)
  BY <1>1 DEF PlanMergeNode, Return
<1>4. source \in Node /\ words \in Seq(Nat)
  BY <1>1, <1>3 DEF PlanInv, NodesInv
<1>5. plan' = <<[target |-> request.target, count |-> CountPairs(words), source |-> source]>>
  BY <1>3 DEF Reshards
<1>6. /\ Tail(plan') = <<>>
      /\ Call' = [target |-> request.target, count |-> CountPairs(words), source |-> source]
  BY <1>5 DEF Call
<1>7. Masters' = Masters /\ Held(source)' = Held(source)
  BY <1>1 DEF Masters, Held
<1>8. Held(source) \subseteq Slot
  BY <1>4, ReplicasMaster DEF PlanInv, TypeOK, ClusterOK, Held, Masters
<1>9. ASSUME moving = {}, CountPairs(words) \in 1..MaxSlots, NoSinglesIn(Held(source))
      PROVE  Cardinality(Held(source)) <= CountPairs(words)
  <2>1. words \in {Border(Held(source)), <<>>, <<0, Stamp, Epoch, 0>>}
    BY <1>1, <1>4, <1>9 DEF MergeInv
  <2>2. ~(CountPairs(words) > MaxSlots) /\ CountPairs(words) # 0
    BY <1>9, SlotNumbers
  <2>3. words = Border(Held(source))
    BY <2>1, <2>2, WordsCounted
  <2>4. Len(words) % 2 = 0
    <3>1. PICK n \in Nat : n = Len(words)
      BY <1>4
    <3>2. n % 2 # 1 => n % 2 = 0
      OBVIOUS
    <3> QED
      BY <1>3, <3>1, <3>2
  <2>5. CountPairs(words) = Cardinality(Held(source))
    BY <1>8, <1>9, <2>3, <2>4, BlocksCounted DEF NoSinglesIn
  <2> QED
    BY <1>9, <2>5, SlotNumbers
<1> HIDE DEF source, words
<1>10. Call'.source = source /\ Call'.count = CountPairs(words)
  BY <1>6
<1>11. moving' = moving /\ request'.source = source
  BY <1>1 DEF source
<1>12. Held(Call.source)' = Held(source)
  BY <1>1, <1>7, <1>10 DEF Held
<1> QED
  BY <1>2, <1>4, <1>6, <1>9, <1>10, <1>11, <1>12 DEF MergeInv

\* The invariant is inductive.
LEMMA MergeSafe == Spec => []MergeInv
<1>1. Init => MergeInv
  BY DEF Init, MergeInv
<1>2. PlanInv /\ MergeInv /\ [Next]_vars => MergeInv'
  <2> SUFFICES ASSUME PlanInv, MergeInv, [Next]_vars PROVE MergeInv'
    OBVIOUS
  <2>1. CASE Read
    BY <2>1, MergeNodeReads DEF PlanInv, TypeOK
  <2>2. CASE Plan
    <3>1. request' = request /\ pc' # "plan"
      BY <2>2, PlanSteps
    <3> QED
      BY <2>2, <3>1, MergeNodePlans DEF MergeInv
  <2>3. CASE Reshard
    <3>1. /\ request' = request /\ pc = "reshard" /\ pc' # "plan"
          /\ pc' = "reshard" => plan' # <<>> /\ plan' = Tail(plan)
      BY <2>3, ReshardSteps
    <3> QED
      BY <3>1 DEF MergeInv
  <2>4. CASE Killed
    <3>1. pc' = "returned"
      BY <2>4 DEF Killed, Fails, Return
    <3> QED
      BY <3>1 DEF MergeInv
  <2>5. CASE Cancel \/ UNCHANGED vars
    <3>1. UNCHANGED <<masterOf, slots, moving, request, pc, nodes, plan>>
      BY <2>5 DEF Cancel, vars, clusterVars
    <3>2. UNCHANGED <<Masters, Call>> /\ \A i : Held(i)' = Held(i)
      BY <3>1 DEF Masters, Call, Held
    <3> QED
      BY <3>1, <3>2 DEF MergeInv
  <2>6. CASE Failover
    <3>1. UNCHANGED <<moving, request, pc, nodes, plan>>
      BY <2>6 DEF Failover
    <3>2. \A i \in Node : Held(i)' = Held(i)
      BY <2>6, FailoverKeepsHeld DEF PlanInv, TypeOK
    <3>3. Call' = Call
      BY <3>1 DEF Call
    <3> QED
      BY <3>1, <3>2, <3>3 DEF MergeInv
  <2> QED
    BY <2>1, <2>2, <2>3, <2>4, <2>5, <2>6 DEF Next
<1> QED
  BY <1>1, <1>2, PlansSafe, PTL DEF Spec

\* A MergeNode that returns nil leaves none on a source without a block of one slot.
THEOREM MergeNodeEmptied == Spec => MergeNodeEmpties
<1>1. ASSUME PlanInv, MergeInv, [Next]_vars, Done, request.op = "MergeNode",
             NoSingles(request.source)
      PROVE  slots'[request.source] = {}
  <2>1. Moved /\ pc = "reshard"
    BY <1>1, DoneMoves
  <2> DEFINE source == request.source
  <2>2. /\ source \in Node /\ Call.source = source
        /\ moving = {} /\ Call.count \in 1..MaxSlots /\ NoSinglesIn(Held(source))
             => Cardinality(Held(source)) <= Call.count
    BY <1>1, <2>1 DEF MergeInv
  <2>3. moving = {} /\ source \in Masters
    BY <2>1, <2>2, NodeNumbers DEF Moved, Possible, Sources, All, NoNode
  <2>4. NoSinglesIn(Held(source))
    BY <1>1, <2>3 DEF Held, NoSinglesIn, NoSingles
  <2> QED
    BY <1>1, <2>1, <2>2, <2>3, <2>4, OneCallEmpties DEF PlanInv, TypeOK
<1>2. PlanInv /\ MergeInv /\ [Next]_vars
        => [Done /\ request.op = "MergeNode" /\ NoSingles(request.source)
              => slots'[request.source] = {}]_vars
  BY <1>1
<1> QED
  BY <1>2, PlansSafe, MergeSafe, PTL DEF Spec, MergeNodeEmpties
=============================================================================
