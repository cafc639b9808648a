------------------------------- MODULE Handlers -------------------------------
(***************************************************************************)
(* What the REST handlers of lib/api/rest/rest.go have in common, over the  *)
(* one connection of lib/store/store.go.                                   *)
(*                                                                         *)
(* A request is read, its visitor runs as SQL statements, and the answer   *)
(* is sent.  Every statement is one step here (Store separates sending it  *)
(* from its reply): it is executed in the transaction that is open on the  *)
(* connection, whoever opened it, or on its own; or it is turned down.     *)
(* The modules that extend this one add the tables and the statements.     *)
(***************************************************************************)
EXTENDS Naturals, FiniteSets

CONSTANTS Calls,    \* the requests
          Nothing,  \* no value: NULL, no row, no cookie
          Overlap   \* may a request start while another one runs?

VARIABLES request,  \* per call: the request
          pc,       \* per call: the statement it is at
          row,      \* per call: the row, or rows, its visitor has read and kept
          status,   \* per call: the handler's responseStatus
          answer,   \* per call: the answer sent
          conn,     \* the connection: open, closed
          tx,       \* the server's transaction: idle, open, failed
          db,       \* the tables as the connection sees them
          saved     \* the tables as they were when the transaction began

callVars == <<request, pc, row, status, answer>>
vars == <<callVars, conn, tx, db, saved>>

\* The operations run by VisitTx; the others are run by Visit.
TxOps == {"CreateUser", "DeleteUser", "CreateCluster", "UpdateCluster",
          "DeleteCluster", "CreateNode", "DeleteNode"}

\* The first statement of each visitor.
FirstStatement(op) ==
  CASE op = "Login" -> "GetUserPassword"
    [] op = "Logout" -> "ExpireSession"
    [] op = "CreateUser" -> "CreateUser"
    [] op \in {"DeleteUser", "ActivateUser", "PromoteUser", "DemoteUser"} -> "GetUserBySession"
    [] OTHER -> "GetSession"

\* The steps of VisitTx around the visitor; and those at which no SQL is sent.
TxSteps == {"begin", "commit", "rollback"}
Quiet == {"idle", "hash", "answered"}

Running(c) == pc[c] \notin {"idle", "answered"}

\* What survives if the connection is lost now.
Committed == IF tx = "idle" THEN db ELSE saved

\* No request has come in; the tables are the module's to choose.
InitCalls == /\ request = [c \in Calls |-> Nothing]
             /\ pc = [c \in Calls |-> "idle"]
             /\ row = [c \in Calls |-> Nothing]
             /\ status = [c \in Calls |-> "OK"]
             /\ answer = [c \in Calls |-> Nothing]
             /\ conn = "open"
             /\ tx = "idle"
-----------------------------------------------------------------------------
(* How a visitor's statement ends.                                         *)

Goto(c, s) == pc' = [pc EXCEPT ![c] = s]

\* The handler sends its answer; http.Error sends the responseStatus it is given.
Answer(c, a) == /\ Goto(c, "answered")
                /\ answer' = [answer EXCEPT ![c] = a]

\* The visitor goes on to its next statement.
Continue(c, s) == Goto(c, s) /\ UNCHANGED <<status, answer>>

\* The visitor returns nil: Visit's handler answers, VisitTx commits.
Succeed(c) == /\ UNCHANGED status
              /\ IF request[c].op \in TxOps
                 THEN Goto(c, "commit") /\ UNCHANGED answer
                 ELSE Answer(c, "OK")

\* The visitor sets responseStatus and returns an error: VisitTx rolls back.
Fail(c) == /\ status' = [status EXCEPT ![c] = "Error"]
           /\ IF request[c].op \in TxOps
              THEN Goto(c, "rollback") /\ UNCHANGED answer
              ELSE Answer(c, "Error")

\* The server executes the statement c is at; in a failed transaction it
\* executes none.
Executes(c, s) == /\ pc[c] = s
                  /\ conn = "open"
                  /\ tx # "failed"
                  /\ UNCHANGED <<request, conn, saved>>

\* A statement that broke a constraint fails the transaction it was in.
BreakTx == tx' = IF tx = "open" THEN "failed" ELSE tx

\* Tables with one row more, and with fewer rows.
Insert(table, key, value) ==
  [k \in DOMAIN table \cup {key} |-> IF k = key THEN value ELSE table[k]]
Without(table, keys) == [k \in DOMAIN table \ keys |-> table[k]]
-----------------------------------------------------------------------------
(* Visit and VisitTx.                                                      *)

Arrive(c, requests) ==
  /\ pc[c] = "idle"
  /\ Overlap \/ \A d \in Calls : ~Running(d)
  /\ \E r \in requests :
       /\ request' = [request EXCEPT ![c] = r]
       /\ Goto(c, IF r.op \in TxOps THEN "begin" ELSE FirstStatement(r.op))
  /\ UNCHANGED <<row, status, answer, conn, tx, db, saved>>

\* BEGIN inside an open transaction is only warned about.
Begin(c) ==
  /\ pc[c] = "begin"
  /\ conn = "open"
  /\ tx # "failed"
  /\ IF tx = "idle" THEN saved' = db ELSE UNCHANGED saved
  /\ tx' = "open"
  /\ Goto(c, FirstStatement(request[c].op))
  /\ UNCHANGED <<request, row, status, answer, conn, db>>

\* Mutation: nothing is rolled back.
RollbackForgotten(c) ==
  /\ pc[c] = "rollback"
  /\ conn = "open"
  /\ tx' = "idle"
  /\ Answer(c, "Error")
  /\ UNCHANGED <<request, row, status, conn, db, saved>>

Rollback(c) ==
  /\ pc[c] = "rollback"
  /\ conn = "open"
  /\ tx' = "idle"
  /\ db' = Committed
  /\ Answer(c, "Error")
  /\ UNCHANGED <<request, row, status, conn, saved>>

\* After a COMMIT the visitor is run again, on the transaction that is closed:
\* its first statement fails, and the request is answered with an error.  The
\* COMMIT of a failed transaction rolls back, and responseStatus is untouched.
Commit(c) ==
  /\ pc[c] = "commit"
  /\ conn = "open"
  /\ tx' = "idle"
  /\ IF tx = "failed"
     THEN /\ db' = saved
          /\ Answer(c, status[c])
          /\ UNCHANGED status
     ELSE /\ status' = [status EXCEPT ![c] = "Error"]
          /\ Answer(c, "Error")
          /\ UNCHANGED db
  /\ UNCHANGED <<request, row, conn, saved>>

\* The connection is closed: the open transaction is discarded.
Close == /\ conn' = "closed"
         /\ tx' = "idle"
         /\ db' = Committed
         /\ UNCHANGED saved

\* A statement of the visitor is turned down: the connection is busy or closed,
\* the client is gone, or the transaction has failed.  (CreateNode goes on after
\* an error of its checks; but what has turned one down for good turns down the
\* statements after it, too.)
StatementRefused(c) == /\ pc[c] \notin Quiet \cup TxSteps
                       /\ Fail(c)
                       /\ UNCHANGED <<request, row, conn, tx, db, saved>>

\* Mutation: the error of a ROLLBACK is waited out.
TxRefusedNotRollback(c) == /\ pc[c] \in {"begin", "commit"}
                           /\ Answer(c, status[c])
                           /\ IF pc[c] = "commit" /\ tx = "idle"
                              THEN UNCHANGED <<conn, tx, db, saved>>
                              ELSE Close
                           /\ UNCHANGED <<request, row, status>>

\* BEGIN, COMMIT or ROLLBACK is turned down, and the connection given up: the
\* answer has the responseStatus the visitor left.
TxRefused(c) == /\ pc[c] \in TxSteps
                /\ Answer(c, status[c])
                /\ IF pc[c] = "commit" /\ tx = "idle"
                   THEN UNCHANGED <<conn, tx, db, saved>>
                   ELSE Close
                /\ UNCHANGED <<request, row, status>>

\* The client of c goes away, or the process begins to shut down, while SQL of c
\* is in flight: the connection is closed, and nobody learns whether the server
\* executed it, with the given effect on the tables.
Lost(c, effect) ==
  /\ pc[c] \notin Quiet
  /\ conn = "open"
  /\ conn' = "closed"
  /\ tx' = "idle"
  /\ \/ db' = Committed
     \/ tx = "idle" /\ db' = effect
     \/ tx = "open" /\ pc[c] = "commit" /\ db' = db
  /\ UNCHANGED <<callVars, saved>>

\* The steps of Visit and VisitTx that no client is needed for.
Visits(c) == \/ Begin(c) \/ Commit(c) \/ Rollback(c)
             \/ StatementRefused(c) \/ TxRefused(c)
=============================================================================
