----------------------------- MODULE AtomicStore -----------------------------
(***************************************************************************)
(* What store.Store.VisitTx promises its caller: the statements of one     *)
(* visitor reach the database all together, once, while the call is        *)
(* running, or not at all.  The promise leaves open what the caller is     *)
(* told: a call may return before or after its effect is applied.          *)
(***************************************************************************)
EXTENDS Naturals

CONSTANTS Calls,      \* the calls of VisitTx
          StmtCount   \* the statements of one visitor

VARIABLES phase,      \* per call: not made yet, running, applied, returned
          db          \* the durable marks, <<c, i>> for statement i of call c

vars == <<phase, db>>

Marks(c) == {c} \X (1..StmtCount)

Init == /\ phase = [c \in Calls |-> "idle"]
        /\ db = {}

Begin(c) == /\ phase[c] = "idle"
            /\ phase' = [phase EXCEPT ![c] = "running"]
            /\ UNCHANGED db

Apply(c) == /\ phase[c] = "running"
            /\ phase' = [phase EXCEPT ![c] = "applied"]
            /\ db' = db \cup Marks(c)

Return(c) == /\ phase[c] \in {"running", "applied"}
             /\ phase' = [phase EXCEPT ![c] = "returned"]
             /\ UNCHANGED db

Next == \E c \in Calls : Begin(c) \/ Apply(c) \/ Return(c)

Spec == Init /\ [][Next]_vars
==============================================================================
