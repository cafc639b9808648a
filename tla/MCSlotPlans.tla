----------------------------- MODULE MCSlotPlans -----------------------------
(* An instance of SlotPlans for TLC: five slots and four nodes, the fewest  *)
(* with a node that has two blocks and a neighbour on either side.  No     *)
(* node has the id 5.                                                      *)
EXTENDS SlotPlans

MCSubjects == {2, 3, 5}
MCHalfMoved == {2, 3}
=============================================================================
