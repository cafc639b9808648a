------------------------------ MODULE MCStore ------------------------------
(* Instances of Store for TLC: two VisitTx calls and one Visit call, each   *)
(* with a visitor of two statements.                                       *)
EXTENDS Store

CONSTANTS t1, t2, v1   \* calls

MCCalls == {t1, t2, v1}
MCTxCalls == {t1, t2}
=============================================================================
