---------------------------- MODULE MCRestUsers ----------------------------
(* Instances of RestUsers for TLC: two requests about two emails.           *)
EXTENDS RestUsers

CONSTANTS c1, c2,    \* requests
          alice, bob \* emails

MCCalls == {c1, c2}
MCEmails == {alice, bob}
=============================================================================
