------------------------------- MODULE MCRails -------------------------------
(* An instance of RailsHandler for TLC: two connections, from one address   *)
(* or two; two messages; the code as it is, and with what it lacks made in *)
(* the order in which it is missed.                                        *)
EXTENDS RailsHandler

CONSTANTS c1, c2,    \* connections
          a1, a2     \* addresses

MCConns == {c1, c2}
MCAddrs == {a1, a2}
MCRemotes == {[c \in MCConns |-> a1], [c \in MCConns |-> IF c = c1 THEN a1 ELSE a2]}
MCMessages == 1..2
MCBuilds == {{}, {"map"}, {"map", "lock"}, {"map", "lock", "hash"}}
=============================================================================
