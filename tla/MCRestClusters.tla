--------------------------- MODULE MCRestClusters ---------------------------
(* Instances of RestClusters for TLC: two requests; the empty name and      *)
(* another; the empty node id and two others, two addresses, and a node at  *)
(* the start.                                                              *)
EXTENDS RestClusters, TLC

CONSTANTS c1, c2,    \* requests
          n1,        \* a node that is there at the start
          a1, a2     \* addresses

MCCalls == {c1, c2}
MCNames == 0..1
MCNodeIDs == 0..2
MCAddresses == {a1, a2}
MCSeedNodes == {n1}

\* Requests are told apart by their names alone; node ids are ordered.
MCSymmetry == Permutations(MCCalls) \cup Permutations(MCAddresses)
=============================================================================
