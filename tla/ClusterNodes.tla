----------------------------- MODULE ClusterNodes -----------------------------
(***************************************************************************)
(* CLI.GetClusterNodes and CLI.GetNoSlotNodes of lib/cli/cli.go: what is   *)
(* read out of the lines of "cluster nodes".                               *)
(*                                                                         *)
(* A line has an id, an address, flags, the master's id (- of a master),   *)
(* two times, an epoch, the link state, and the slots: a number, or two    *)
(* with a dash between them, for each block of slots, and for a slot that  *)
(* is being moved to or from the node that prints the lines an entry in    *)
(* brackets on its own line.  The model is at the level of these fields;   *)
(* ids are the numbers of the lines, times and epochs are given.           *)
(***************************************************************************)
EXTENDS Integers, Sequences, FiniteSets

CONSTANTS N,        \* the number of nodes
          MaxSlots, \* MaxSlotCount
          Stamp,    \* a time in milliseconds, far larger than any slot or epoch
          Epoch     \* an epoch

ASSUME ClusterNodesAssumption ==
  /\ N \in Nat \ {0}
  /\ MaxSlots \in Nat \ {0}
  /\ Stamp \in Nat /\ Stamp > MaxSlots + Epoch
  /\ Epoch \in Nat

Node == 1..N
NoNode == 0
Slot == 0..(MaxSlots - 1)

\* The numbers of a finite set, the lowest first.  (SetToSortSeq, in a form that
\* proofs can use.)
InOrder(s) == [k \in 1..Cardinality(s) |->
                 CHOOSE x \in s : Cardinality({y \in s : y < x}) = k - 1]

\* The numbers of the blocks of a set of slots, first and last, in order; the
\* block of one slot has one number.
Border(s) == InOrder({i \in s : i - 1 \notin s \/ i + 1 \notin s})

\* The line of node i, when masterOf gives each replica's master and moving are the
\* nodes whose lines have an entry in brackets.
Line(i, masterOf, slots, moving) ==
  [id |-> i, master |-> masterOf[i], blocks |-> Border(slots[i]), moving |-> i \in moving]

\* One line.  A replica's flags set isSlave, its master's id is read if none has
\* been read before and sets checkMasterID, and neither flag is ever reset: both say
\* whether there was a replica before the line.  The first replica's master is read,
\* the id of a later one's master passes for the link state, and what follows for
\* slots; a word is the number 0, and an entry in brackets two of them.
ParseLine(line, replicaBefore) ==
  LET slave == line.master # NoNode
  IN [id |-> line.id,
      slave |-> slave,
      slots |-> IF slave /\ replicaBefore
                THEN <<0, Stamp, Epoch, 0>>
                ELSE line.blocks \o (IF line.moving THEN <<0, 0>> ELSE <<>>)]

GetClusterNodes(masterOf, slots, moving) ==
  [i \in Node |-> ParseLine(Line(i, masterOf, slots, moving),
                            \E j \in 1..(i - 1) : masterOf[j] # NoNode)]

GetNoSlotNodes(nodes) ==
  LET empty == InOrder({i \in DOMAIN nodes : nodes[i].slots = <<>>})
  IN [k \in DOMAIN empty |-> nodes[empty[k]]]
=============================================================================
