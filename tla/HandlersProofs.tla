---------------------------- MODULE HandlersProofs ----------------------------
(***************************************************************************)
(* Lemmas about Handlers for the proofs about the modules that extend it:   *)
(* how requests that are served one at a time share the connection, for    *)
(* every number of requests.                                               *)
(***************************************************************************)
EXTENDS Handlers, TLAPS

\* VisitTx has sent its BEGIN for c, and c is not answered.
Holding(c) == Running(c) /\ pc[c] # "begin" /\ request[c].op \in TxOps

\* The transaction that is open is that of the one request which is running,
\* and that request is past its BEGIN; only its own statements end or fail it.
SerialInv ==
  /\ DOMAIN pc = Calls
  /\ DOMAIN request = Calls
  /\ conn \in {"open", "closed"}
  /\ tx \in {"idle", "open", "failed"}
  /\ \A c, d \in Calls : Running(c) /\ Running(d) => c = d
  /\ \A c \in Calls : pc[c] \in TxSteps => request[c].op \in TxOps
  /\ tx # "idle" => conn = "open" /\ \E c \in Calls : Holding(c)
  /\ \A c \in Calls : Holding(c) /\ conn = "open" => tx # "idle"
  /\ \A c \in Calls : pc[c] = "commit" /\ conn = "open" => tx = "open"

\* What a visitor's statement, or the hash, does to the request c and to the
\* connection: c goes on to s, and at most the open transaction fails.
StatementTo(c, s) ==
  /\ Running(c)
  /\ pc[c] \notin TxSteps
  /\ s \notin {"idle", "begin"}
  /\ s \in {"commit", "rollback"} => request[c].op \in TxOps
  /\ s = "answered" => request[c].op \notin TxOps
  /\ s = "commit" => conn = "open" /\ tx # "failed" /\ tx' = tx
  /\ tx' = IF tx = "open" /\ tx' # tx THEN "failed" ELSE tx
  /\ pc' = [pc EXCEPT ![c] = s]
  /\ UNCHANGED <<request, conn, saved>>

\* A request that has come in is at one of the visitors' first statements.
LEMMA FirstStatements ==
  ASSUME NEW op
  PROVE  FirstStatement(op) \in {"GetUserPassword", "ExpireSession", "CreateUser",
                                 "GetUserBySession", "GetSession"}
BY DEF FirstStatement

\* Before any request has come in.
LEMMA InitSerial == InitCalls => SerialInv
BY DEF InitCalls, SerialInv, Running, Holding, TxSteps

\* A request comes in when no other one is running.
LEMMA ArriveSerial ==
  ASSUME SerialInv, NEW c \in Calls, NEW requests, Arrive(c, requests), ~Overlap
  PROVE  SerialInv'
<1>1. PICK r \in requests : /\ request' = [request EXCEPT ![c] = r]
                            /\ Goto(c, IF r.op \in TxOps THEN "begin" ELSE FirstStatement(r.op))
  BY DEF Arrive
<1>2. /\ pc'[c] \notin {"idle", "answered", "commit", "rollback"}
      /\ pc'[c] = "begin" <=> r.op \in TxOps
      /\ request'[c] = r
  BY <1>1, FirstStatements DEF Goto, SerialInv
<1>3. /\ \A d \in Calls \ {c} : pc'[d] = pc[d] /\ request'[d] = request[d] /\ ~Running(d)
      /\ DOMAIN pc' = Calls /\ DOMAIN request' = Calls
      /\ conn' = conn /\ tx' = tx
  BY <1>1 DEF Goto, SerialInv, Arrive
<1>4. tx = "idle"
  BY <1>3 DEF Arrive, SerialInv, Holding, Running
<1> QED
  BY <1>2, <1>3, <1>4 DEF SerialInv, Holding, Running, TxSteps

\* A statement of the visitor leaves the transaction with the request it is of.
LEMMA StatementSerial ==
  ASSUME SerialInv, NEW c \in Calls, NEW s, StatementTo(c, s)
  PROVE  SerialInv'
<1>1. /\ pc'[c] = s
      /\ \A d \in Calls \ {c} : pc'[d] = pc[d] /\ ~Running(d)
      /\ DOMAIN pc' = Calls
      /\ request' = request /\ conn' = conn
  BY DEF StatementTo, SerialInv
<1>2. tx' \in {"idle", "open", "failed"} /\ (tx' = "idle" <=> tx = "idle")
  BY DEF StatementTo, SerialInv
<1>3. (Holding(c) <=> request[c].op \in TxOps) /\ (tx # "idle" => Holding(c))
  BY <1>1 DEF StatementTo, SerialInv, Holding, Running, TxSteps
<1>4. Holding(c)' <=> Holding(c)
  BY <1>1, <1>3 DEF Holding, Running, StatementTo
<1>5. \A d \in Calls \ {c} : ~Running(d)' /\ ~Holding(d)'
  BY <1>1 DEF Running, Holding
<1>6. s = "commit" /\ conn = "open" => tx' = "open"
  BY <1>2, <1>3 DEF StatementTo, SerialInv
<1> QED
  BY <1>1, <1>2, <1>3, <1>4, <1>5, <1>6 DEF SerialInv, Running, StatementTo, TxSteps

\* The steps of VisitTx around its visitor, and those of either for a statement
\* that is turned down.
LEMMA VisitsSerial ==
  ASSUME SerialInv, NEW c \in Calls, Visits(c)
  PROVE  SerialInv'
<1> USE DEF SerialInv
<1>1. \A d \in Calls : Running(c) /\ Running(d) => d = c
  OBVIOUS
<1>2. CASE Begin(c)
  <2>1. /\ pc'[c] \notin {"idle", "answered"} \cup TxSteps
        /\ \A d \in Calls \ {c} : pc'[d] = pc[d] /\ ~Running(d)
        /\ DOMAIN pc' = Calls
        /\ request' = request /\ conn' = conn /\ conn = "open" /\ tx' = "open"
        /\ request[c].op \in TxOps
    BY <1>2, FirstStatements DEF Begin, Goto, Running, TxSteps
  <2> QED
    BY <2>1 DEF Running, Holding, TxSteps
<1>3. CASE Commit(c) \/ Rollback(c) \/ TxRefused(c)
  <2>1. /\ pc'[c] = "answered"
        /\ \A d \in Calls \ {c} : pc'[d] = pc[d] /\ ~Running(d)
        /\ DOMAIN pc' = Calls
        /\ request' = request
    BY <1>3 DEF Commit, Rollback, TxRefused, Answer, Goto, Running, TxSteps
  <2>2. tx' = "idle" /\ conn' \in {"open", "closed"}
    BY <1>3 DEF Commit, Rollback, TxRefused, Close
  <2> QED
    BY <2>1, <2>2 DEF Running, Holding, TxSteps
<1>4. CASE StatementRefused(c)
  <2>1. StatementTo(c, IF request[c].op \in TxOps THEN "rollback" ELSE "answered")
    BY <1>4 DEF StatementRefused, Fail, Answer, Goto, StatementTo, Quiet, TxSteps, Running
  <2> QED
    BY <2>1, StatementSerial
<1> QED
  BY <1>2, <1>3, <1>4 DEF Visits

\* The connection is lost: whoever goes on does so without a transaction.
LEMMA LostSerial ==
  ASSUME SerialInv, NEW c \in Calls, NEW effect, Lost(c, effect)
  PROVE  SerialInv'
BY DEF SerialInv, Lost, callVars, Running, Holding
=============================================================================
