------------------------------ MODULE MCReshard ------------------------------
(* An instance of Reshard for TLC.  A channel of two tokens is enough to be *)
(* full with a token left, and two questions to be answered out of turn.   *)
EXTENDS Reshard

MCQuestions == 2
MCChanSize == 2
=============================================================================
