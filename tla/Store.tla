-------------------------------- MODULE Store --------------------------------
(***************************************************************************)
(* lib/store/store.go: calls of Visit and VisitTx, made by the goroutines   *)
(* of HTTP requests, over the one pgx connection of the process.           *)
(*                                                                         *)
(* A call sends SQL to the server one statement at a time.  The connection *)
(* carries one statement at a time and refuses another while one is in     *)
(* flight ("conn busy"); it belongs to no call, so whatever transaction is *)
(* open on the server is the transaction of every call.  A visitor is      *)
(* StmtCount statements; statement i of call c leaves the mark <<c, i>>.   *)
(* Around the visitor stands the code common to the REST handlers: the     *)
(* closure variable responseStatus, set whenever a visitor objects and sent *)
(* with http.Error when the call returns an error.  Two things a visitor   *)
(* may do between its statements have actions of their own: return nil     *)
(* although it objects (Login) and never come back (HashPassword).         *)
(***************************************************************************)
EXTENDS Naturals

CONSTANTS Calls,      \* the calls of Visit and VisitTx
          TxCalls,    \* those of VisitTx
          NoCall,     \* no call: nothing is in flight
          StmtCount,  \* the statements of one visitor
          Overlap     \* may a call start while another one runs?

ASSUME StoreAssumption == /\ TxCalls \subseteq Calls
                          /\ NoCall \notin Calls
                          /\ StmtCount \in Nat \ {0}
                          /\ Overlap \in BOOLEAN

VARIABLES pc,              \* per call: the SQL it is at
          next,            \* per call: the statement of the visitor it is at
          err,             \* per call: what the call returned
          responseStatus,  \* per call: the handler's closure variable
          cancelled,       \* the calls whose context is done
          shutdown,        \* is the context given to store.New done?
          conn,            \* the pgx connection
          holder,          \* the call whose SQL is in flight
          tx,              \* the server's transaction: idle, open, failed
          work,            \* the marks made in the open transaction
          durable          \* the marks in the database

callVars == <<pc, next, err, responseStatus>>
connVars == <<conn, holder>>
dbVars == <<tx, work, durable>>
vars == <<callVars, cancelled, shutdown, connVars, dbVars>>

Marks(c) == {c} \X (1..StmtCount)

\* The calls that have an SQL command to send or in flight.
AtSQL == {"begin", "visitor", "commit", "rollback"}
Running(c) == pc[c] \notin {"idle", "returned"}

\* What the HTTP handler around the call sent to its client: responseStatus is
\* only looked at when the call returned an error.
AnsweredOK(c) == /\ pc[c] = "returned"
                 /\ err[c] = "nil" \/ responseStatus[c] = "OK"

Init == /\ pc = [c \in Calls |-> "idle"]
        /\ next = [c \in Calls |-> 1]
        /\ err = [c \in Calls |-> "none"]
        /\ responseStatus = [c \in Calls |-> "OK"]
        /\ cancelled = {}
        /\ shutdown = FALSE
        /\ conn = "open"
        /\ holder = NoCall
        /\ tx = "idle"
        /\ work = {}
        /\ durable = {}
-----------------------------------------------------------------------------
(* The connection: pgx and the server, as store.go uses them.              *)

\* Mutation: pgx does not see that the connection is closed.
RefusedUnlessClosed(c) == /\ holder # c
                          /\ holder # NoCall \/ c \in cancelled

\* SQL of c is turned down before it leaves: the connection is busy or closed,
\* or the context of c is done.
Refused(c) == /\ holder # c
              /\ holder # NoCall \/ conn = "closed" \/ c \in cancelled

\* The marks in the database if the SQL in flight still reaches the server.
Landed ==
  IF holder = NoCall THEN durable
  ELSE IF pc[holder] = "visitor" /\ tx = "idle"
       THEN durable \cup {<<holder, next[holder]>>}
       ELSE IF pc[holder] = "commit" /\ tx = "open" THEN durable \cup work
            ELSE durable

\* The connection is closed, by whomever: the server discards the open
\* transaction, and nobody learns whether the SQL in flight was executed.
Drop == /\ conn' = "closed"
        /\ holder' = NoCall
        /\ tx' = "idle"
        /\ work' = {}
        /\ durable' \in {durable, Landed}

\* The server's reply has been read: the connection is free again.
Release == /\ holder' = NoCall
           /\ UNCHANGED conn

\* pgConn.lock: the connection is free and becomes c's.
Send(c) == /\ pc[c] \in AtSQL
           /\ holder = NoCall
           /\ conn = "open"
           /\ c \notin cancelled
           /\ holder' = c
           /\ UNCHANGED <<callVars, cancelled, shutdown, conn, dbVars>>
-----------------------------------------------------------------------------
(* The calls.                                                              *)

Return(c, e) == /\ pc' = [pc EXCEPT ![c] = "returned"]
                /\ err' = [err EXCEPT ![c] = e]

\* A request reaches Visit or VisitTx.
Call(c) == /\ pc[c] = "idle"
           /\ Overlap \/ \A d \in Calls : ~Running(d)
           /\ pc' = [pc EXCEPT ![c] = IF c \in TxCalls THEN "begin" ELSE "visitor"]
           /\ UNCHANGED <<next, err, responseStatus, cancelled, shutdown>>
           /\ UNCHANGED <<connVars, dbVars>>

\* Mutation: the visitor gets the connection, not the transaction.
BeginReplyNoTx(c) == /\ pc[c] = "begin"
                     /\ holder = c
                     /\ tx # "failed"
                     /\ Release
                     /\ pc' = [pc EXCEPT ![c] = "visitor"]
                     /\ UNCHANGED <<next, err, responseStatus, cancelled, shutdown, dbVars>>

\* BEGIN inside an open transaction is only warned about.
BeginReply(c) == /\ pc[c] = "begin"
                 /\ holder = c
                 /\ tx # "failed"
                 /\ Release
                 /\ tx' = "open"
                 /\ pc' = [pc EXCEPT ![c] = "visitor"]
                 /\ UNCHANGED <<next, err, responseStatus, cancelled, shutdown>>
                 /\ UNCHANGED <<work, durable>>

\* When BEGIN fails pgx gives the connection up; the visitor has not run, so
\* responseStatus still has its initial value.
BeginFails(c) == /\ pc[c] = "begin"
                 /\ Refused(c) \/ (holder = c /\ tx = "failed")
                 /\ Drop
                 /\ Return(c, "err")
                 /\ UNCHANGED <<next, responseStatus, cancelled, shutdown>>

\* Mutation: the loop over the statements goes one too far.
StatementReplyOffByOne(c) ==
  /\ pc[c] = "visitor"
  /\ holder = c
  /\ tx # "failed"
  /\ Release
  /\ next' = [next EXCEPT ![c] = @ + 1]
  /\ UNCHANGED <<pc, err, responseStatus, cancelled, shutdown, dbVars>>

\* The server executes a statement of the visitor: in the open transaction,
\* whoever opened it, or on its own.
StatementReply(c) ==
  /\ pc[c] = "visitor"
  /\ holder = c
  /\ tx # "failed"
  /\ Release
  /\ IF tx = "open"
     THEN /\ work' = work \cup {<<c, next[c]>>}
          /\ UNCHANGED durable
     ELSE /\ durable' = durable \cup {<<c, next[c]>>}
          /\ UNCHANGED work
  /\ \/ /\ next[c] < StmtCount
        /\ next' = [next EXCEPT ![c] = @ + 1]
        /\ UNCHANGED <<pc, err>>
     \/ /\ next[c] = StmtCount
        /\ c \in TxCalls
        /\ pc' = [pc EXCEPT ![c] = "commit"]
        /\ UNCHANGED <<next, err>>
     \/ /\ next[c] = StmtCount
        /\ c \notin TxCalls
        /\ Return(c, "nil")
        /\ UNCHANGED next
  /\ UNCHANGED <<responseStatus, cancelled, shutdown, tx>>

\* A visitor looks at what its statement found, sets responseStatus and yet
\* returns nil, without its other statements: Login for a deleted user or a
\* wrong password.
VisitorLeaves(c) ==
  /\ c \notin TxCalls
  /\ pc[c] = "visitor"
  /\ holder # c
  /\ next[c] > 1
  /\ responseStatus' = [responseStatus EXCEPT ![c] = "Error"]
  /\ Return(c, "nil")
  /\ UNCHANGED <<next, cancelled, shutdown, connVars, dbVars>>

\* A visitor calls HashPassword between two statements, Login and CreateUser:
\* its loops never end, and nothing gets the goroutine out of them.
VisitorSpins(c) ==
  /\ pc[c] = "visitor"
  /\ holder # c
  /\ next[c] > 1
  /\ pc' = [pc EXCEPT ![c] = "spinning"]
  /\ UNCHANGED <<next, err, responseStatus, cancelled, shutdown>>
  /\ UNCHANGED <<connVars, dbVars>>

\* Mutation: VisitTx returns the visitor's error without rolling back.
VisitorErrsNoRollback(c) ==
  /\ responseStatus' = [responseStatus EXCEPT ![c] = "Error"]
  /\ Return(c, "err")

\* Mutation: an error return of a visitor forgets responseStatus.
VisitorErrsStatusKept(c) ==
  /\ IF c \in TxCalls THEN pc' = [pc EXCEPT ![c] = "rollback"] /\ UNCHANGED err
                      ELSE Return(c, "err")
  /\ UNCHANGED responseStatus

\* The visitor of c sets responseStatus and returns an error.
VisitorErrs(c) ==
  /\ IF c \in TxCalls THEN pc' = [pc EXCEPT ![c] = "rollback"] /\ UNCHANGED err
                      ELSE Return(c, "err")
  /\ responseStatus' = [responseStatus EXCEPT ![c] = "Error"]

\* A statement is turned down, finds no row, or breaks a constraint (which
\* fails the transaction).
StatementFails(c) ==
  /\ pc[c] = "visitor"
  /\ \/ /\ Refused(c)
        /\ UNCHANGED <<connVars, tx>>
     \/ /\ holder = c
        /\ Release
        /\ tx' \in {tx, IF tx = "open" THEN "failed" ELSE tx}
  /\ VisitorErrs(c)
  /\ UNCHANGED <<next, cancelled, shutdown, work, durable>>

\* Commit leaves VisitTx at the second run of the visitor.
CommitReply(c) == /\ pc[c] = "commit"
                  /\ holder = c
                  /\ tx # "failed"
                  /\ Release
                  /\ tx' = "idle"
                  /\ durable' = durable \cup work
                  /\ work' = {}
                  /\ pc' = [pc EXCEPT ![c] = "rerun"]
                  /\ UNCHANGED <<next, err, responseStatus, cancelled, shutdown>>

\* COMMIT is turned down, and pgx closes the connection unless no transaction
\* is open; or the server answers the COMMIT of a failed transaction with
\* ROLLBACK.  The visitor had succeeded: responseStatus is not touched.
CommitFails(c) ==
  /\ pc[c] = "commit"
  /\ \/ Refused(c) /\ tx # "idle" /\ Drop
     \/ Refused(c) /\ tx = "idle" /\ UNCHANGED <<connVars, dbVars>>
     \/ /\ holder = c
        /\ tx = "failed"
        /\ Release
        /\ tx' = "idle"
        /\ work' = {}
        /\ UNCHANGED durable
  /\ Return(c, "err")
  /\ UNCHANGED <<next, responseStatus, cancelled, shutdown>>

RollbackReply(c) == /\ pc[c] = "rollback"
                    /\ holder = c
                    /\ Release
                    /\ tx' = "idle"
                    /\ work' = {}
                    /\ Return(c, "err")
                    /\ UNCHANGED <<next, responseStatus, cancelled, shutdown, durable>>

\* When ROLLBACK fails pgx gives the connection up.
RollbackFails(c) == /\ pc[c] = "rollback"
                    /\ Refused(c)
                    /\ Drop
                    /\ Return(c, "err")
                    /\ UNCHANGED <<next, responseStatus, cancelled, shutdown>>

\* VisitTx ends with a second call of the visitor, on the transaction it has
\* just committed: pgx turns the first statement down (ErrTxClosed) without
\* touching the connection.
VisitAgain(c) == /\ pc[c] = "rerun"
                 /\ responseStatus' = [responseStatus EXCEPT ![c] = "Error"]
                 /\ Return(c, "err")
                 /\ UNCHANGED <<next, cancelled, shutdown, connVars, dbVars>>
-----------------------------------------------------------------------------
(* The environment.                                                        *)

\* The client of c goes away: its request's context is done.  pgx closes the
\* connection if SQL of c is in flight.
Cancel(c) == /\ Running(c)
             /\ c \notin cancelled
             /\ cancelled' = cancelled \cup {c}
             /\ IF holder = c THEN Drop ELSE UNCHANGED <<connVars, dbVars>>
             /\ UNCHANGED <<callVars, shutdown>>

\* The context given to store.New is done: its AfterFunc closes the connection.
Shutdown == /\ ~shutdown
            /\ shutdown' = TRUE
            /\ Drop
            /\ UNCHANGED <<callVars, cancelled>>
-----------------------------------------------------------------------------
\* What the goroutine of c does by itself, with a server that replies.  Whether
\* a visitor leaves early or spins is up to its code and its data: neither is
\* owed.
Progress(c) == \/ Send(c)
               \/ BeginReply(c) \/ BeginFails(c)
               \/ StatementReply(c) \/ StatementFails(c)
               \/ CommitReply(c) \/ CommitFails(c)
               \/ RollbackReply(c) \/ RollbackFails(c)
               \/ VisitAgain(c)

\* No call has a statement to send: the process waits for requests.
Idle == /\ \A c \in Calls : pc[c] \in {"idle", "returned", "spinning"}
        /\ UNCHANGED vars

Next == \/ \E c \in Calls : \/ Call(c) \/ Progress(c) \/ Cancel(c)
                            \/ VisitorLeaves(c) \/ VisitorSpins(c)
        \/ Shutdown
        \/ Idle

Spec == Init /\ [][Next]_vars

\* Goroutines are scheduled and the server replies; clients owe nothing.
FairSpec == Spec /\ \A c \in Calls : WF_vars(Progress(c))
-----------------------------------------------------------------------------
TypeOK ==
  /\ pc \in [Calls -> {"idle", "returned", "rerun", "spinning"} \cup AtSQL]
  /\ next \in [Calls -> 1..StmtCount]
  /\ err \in [Calls -> {"none", "nil", "err"}]
  /\ responseStatus \in [Calls -> {"OK", "Error"}]
  /\ cancelled \subseteq Calls
  /\ shutdown \in BOOLEAN
  /\ conn \in {"open", "closed"}
  /\ holder \in Calls \cup {NoCall}
  /\ tx \in {"idle", "open", "failed"}
  /\ work \subseteq Calls \X (1..StmtCount)
  /\ durable \subseteq Calls \X (1..StmtCount)
-----------------------------------------------------------------------------
(* With any number of calls at once.                                       *)

\* A transaction open or failed on the server has a VisitTx call that has not
\* ended it yet: however calls nest, fail and are cancelled on the shared
\* connection, store.go and pgx leave no transaction behind.
NoOrphanTransaction ==
  tx # "idle" => \E c \in TxCalls :
                    pc[c] \in {"visitor", "spinning", "commit", "rollback"}

\* Every call returns unless its own visitor spins, whatever the other calls do,
\* those that spin among them: busy, closed and cancelled end in an error, never
\* in a wait.
Returns == \A c \in Calls : Running(c) ~> pc[c] \in {"returned", "spinning"}

\* A transaction stays open on the server only under a VisitTx call that spins:
\* CreateUser's visitor in HashPassword.
TransactionEnds == tx # "idle" ~> \/ tx = "idle"
                                  \/ \E c \in TxCalls : pc[c] = "spinning"
-----------------------------------------------------------------------------
(* With Overlap = FALSE: one request at a time.                            *)

\* The statements of a VisitTx call are in the database all or none, in every
\* state: also after a lost COMMIT and a connection closed at any step.
TxAtomic == \A c \in TxCalls : \/ Marks(c) \subseteq durable
                              \/ Marks(c) \cap durable = {}

\* Without cancelled requests and shutdown no failing visitor costs the
\* process its connection, which nothing ever reopens.
ConnectionSurvives == conn = "closed" => shutdown \/ cancelled # {}

\* What a Visit call that returned nil wrote is not lost.  (The login whose
\* visitor leaves early has written nothing.)
VisitKept == \A c \in Calls \ TxCalls :
  err[c] = "nil" /\ responseStatus[c] = "OK" => Marks(c) \subseteq durable \cup work

\* As long as the connection is there, a handler that answered OK has done
\* what was asked, or its visitor objected and returned nil all the same: the
\* login that is answered 200 without a session.
OkMeansDoneWhileOpen ==
  conn = "open" => \A c \in Calls :
    AnsweredOK(c) => \/ Marks(c) \subseteq durable
                     \/ err[c] = "nil" /\ responseStatus[c] = "Error"

\* VisitTx implements the promise of AtomicStore.
Phase(c) == CASE pc[c] = "idle" -> "idle"
              [] pc[c] = "returned" -> "returned"
              [] OTHER -> IF Marks(c) \subseteq durable THEN "applied" ELSE "running"

Atomic == INSTANCE AtomicStore WITH Calls <- TxCalls,
                                    phase <- [c \in TxCalls |-> Phase(c)],
                                    db <- durable \cap (TxCalls \X (1..StmtCount))

ImplementsAtomicStore == Atomic!Spec
-----------------------------------------------------------------------------
(* What the API documentation says of the answers.                         *)

\* A client that waited for its answer and got a 2xx from a handler whose
\* visitor did not object had its change made.
OkMeansDone == \A c \in Calls \ cancelled :
  AnsweredOK(c) /\ responseStatus[c] = "OK" => Marks(c) \subseteq durable

\* A client that waited, with the connection up, and whose change was made is
\* answered 2xx and not with an error.
DoneMeansOk == \A c \in Calls \ cancelled :
  conn = "open" /\ pc[c] = "returned" /\ Marks(c) \subseteq durable => AnsweredOK(c)
=============================================================================
