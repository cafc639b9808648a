---------------------------- MODULE StoreProofs ----------------------------
(***************************************************************************)
(* Theorems about Store, for every number of calls and statements.         *)
(***************************************************************************)
EXTENDS Store, TLAPS

\* A process that has just connected, store.New, has variables of their types.
LEMMA InitTypeOK == Init => TypeOK
<1> USE StoreAssumption
<1> SUFFICES ASSUME Init PROVE TypeOK
  OBVIOUS
<1> USE DEF Init
<1>1. pc \in [Calls -> {"idle", "returned", "rerun", "spinning"} \cup AtSQL]
  OBVIOUS
<1>2. next \in [Calls -> 1..StmtCount]
  OBVIOUS
<1>3. /\ err \in [Calls -> {"none", "nil", "err"}]
      /\ responseStatus \in [Calls -> {"OK", "Error"}]
  OBVIOUS
<1> QED
  BY <1>1, <1>2, <1>3 DEF TypeOK

\* Every variable of Store keeps its type: pc stays at one of the steps of
\* store.go and next within the visitor's statements.
THEOREM TypeCorrect == Spec => []TypeOK
<1> USE StoreAssumption DEF AtSQL
<1>1. Init => TypeOK
  BY InitTypeOK
<1>2. TypeOK /\ [Next]_vars => TypeOK'
  <2> SUFFICES ASSUME TypeOK, [Next]_vars PROVE TypeOK'
    OBVIOUS
  <2> USE DEF TypeOK, callVars, connVars, dbVars, vars
  <2>0. Landed \subseteq Calls \X (1..StmtCount)
    BY DEF Landed
  <2>1. ASSUME Drop
        PROVE  /\ conn' \in {"open", "closed"} /\ holder' \in Calls \cup {NoCall}
               /\ tx' \in {"idle", "open", "failed"}
               /\ work' \subseteq Calls \X (1..StmtCount)
               /\ durable' \subseteq Calls \X (1..StmtCount)
    BY <2>0, <2>1 DEF Drop
  <2>2. ASSUME NEW c \in Calls, Call(c) PROVE TypeOK'
    BY <2>2 DEF Call
  <2>3. ASSUME NEW c \in Calls, Send(c) PROVE TypeOK'
    BY <2>3 DEF Send
  <2>4. ASSUME NEW c \in Calls, BeginReply(c) PROVE TypeOK'
    BY <2>4 DEF BeginReply, Release
  <2>5. ASSUME NEW c \in Calls, BeginFails(c) PROVE TypeOK'
    BY <2>5, <2>1 DEF BeginFails, Return
  <2>6. ASSUME NEW c \in Calls, StatementReply(c) PROVE TypeOK'
    BY <2>6 DEF StatementReply, Release, Return
  <2>7. ASSUME NEW c \in Calls, StatementFails(c) PROVE TypeOK'
    BY <2>7 DEF StatementFails, VisitorErrs, Release, Return
  <2>8. ASSUME NEW c \in Calls, CommitReply(c) PROVE TypeOK'
    BY <2>8 DEF CommitReply, Release
  <2>9. ASSUME NEW c \in Calls, CommitFails(c) PROVE TypeOK'
    BY <2>9, <2>1 DEF CommitFails, Release, Return
  <2>10. ASSUME NEW c \in Calls, RollbackReply(c) PROVE TypeOK'
    BY <2>10 DEF RollbackReply, Release, Return
  <2>11. ASSUME NEW c \in Calls, RollbackFails(c) PROVE TypeOK'
    BY <2>11, <2>1 DEF RollbackFails, Return
  <2>12. ASSUME NEW c \in Calls, VisitAgain(c) PROVE TypeOK'
    BY <2>12 DEF VisitAgain, Return
  <2>17. ASSUME NEW c \in Calls, VisitorLeaves(c) PROVE TypeOK'
    BY <2>17 DEF VisitorLeaves, Return
  <2>18. ASSUME NEW c \in Calls, VisitorSpins(c) PROVE TypeOK'
    BY <2>18 DEF VisitorSpins
  <2>13. ASSUME NEW c \in Calls, Cancel(c) PROVE TypeOK'
    BY <2>13, <2>1 DEF Cancel
  <2>14. CASE Shutdown
    BY <2>14, <2>1 DEF Shutdown
  <2>15. CASE Idle
    BY <2>15 DEF Idle
  <2>16. CASE UNCHANGED vars
    BY <2>16
  <2> QED
    BY <2>2, <2>3, <2>4, <2>5, <2>6, <2>7, <2>8, <2>9, <2>10, <2>11, <2>12,
       <2>13, <2>14, <2>15, <2>16, <2>17, <2>18 DEF Next, Progress
<1> QED
  BY <1>1, <1>2, PTL DEF Spec
-----------------------------------------------------------------------------
\* Only a VisitTx call stands at BEGIN, COMMIT, ROLLBACK or the second run of
\* the visitor: what NoOrphanTransaction needs to be inductive.
TxSteps == \A c \in Calls :
  pc[c] \in {"begin", "commit", "rollback", "rerun"} => c \in TxCalls

OwnedInv == TxSteps /\ NoOrphanTransaction

\* The transaction on the server is always some running VisitTx call's: every
\* exit of VisitTx either ends it or closes the connection.
LEMMA OwnedCorrect == Spec => []OwnedInv
<1>1. Init => OwnedInv
  BY DEF Init, OwnedInv, TxSteps, NoOrphanTransaction
<1>2. TypeOK /\ OwnedInv /\ [Next]_vars => OwnedInv'
  <2> SUFFICES ASSUME TypeOK, OwnedInv, [Next]_vars PROVE OwnedInv'
    OBVIOUS
  <2> USE StoreAssumption DEF TypeOK, OwnedInv, TxSteps, NoOrphanTransaction,
                              AtSQL, callVars, connVars, dbVars, vars
  <2>2. ASSUME NEW c \in Calls, Call(c) PROVE OwnedInv'
    BY <2>2 DEF Call
  <2>3. ASSUME NEW c \in Calls, Send(c) PROVE OwnedInv'
    BY <2>3 DEF Send
  <2>4. ASSUME NEW c \in Calls, BeginReply(c) PROVE OwnedInv'
    BY <2>4 DEF BeginReply
  <2>5. ASSUME NEW c \in Calls, BeginFails(c) PROVE OwnedInv'
    BY <2>5 DEF BeginFails, Return, Drop
  <2>6. ASSUME NEW c \in Calls, StatementReply(c) PROVE OwnedInv'
    BY <2>6 DEF StatementReply, Return
  <2>7. ASSUME NEW c \in Calls, StatementFails(c) PROVE OwnedInv'
    BY <2>7 DEF StatementFails, VisitorErrs, Return
  <2>8. ASSUME NEW c \in Calls, CommitReply(c) PROVE OwnedInv'
    BY <2>8 DEF CommitReply
  <2>9. ASSUME NEW c \in Calls, CommitFails(c) PROVE OwnedInv'
    BY <2>9 DEF CommitFails, Return, Drop
  <2>10. ASSUME NEW c \in Calls, RollbackReply(c) PROVE OwnedInv'
    BY <2>10 DEF RollbackReply, Return
  <2>11. ASSUME NEW c \in Calls, RollbackFails(c) PROVE OwnedInv'
    BY <2>11 DEF RollbackFails, Return, Drop
  <2>12. ASSUME NEW c \in Calls, VisitAgain(c) PROVE OwnedInv'
    BY <2>12 DEF VisitAgain, Return
  <2>17. ASSUME NEW c \in Calls, VisitorLeaves(c) PROVE OwnedInv'
    BY <2>17 DEF VisitorLeaves, Return
  <2>18. ASSUME NEW c \in Calls, VisitorSpins(c) PROVE OwnedInv'
    BY <2>18 DEF VisitorSpins
  <2>13. ASSUME NEW c \in Calls, Cancel(c) PROVE OwnedInv'
    BY <2>13 DEF Cancel, Drop
  <2>14. CASE Shutdown
    BY <2>14 DEF Shutdown, Drop
  <2>15. CASE Idle
    BY <2>15 DEF Idle
  <2>16. CASE UNCHANGED vars
    BY <2>16
  <2> QED
    BY <2>2, <2>3, <2>4, <2>5, <2>6, <2>7, <2>8, <2>9, <2>10, <2>11, <2>12,
       <2>13, <2>14, <2>15, <2>16, <2>17, <2>18 DEF Next, Progress
<1> QED
  BY <1>1, <1>2, TypeCorrect, PTL DEF Spec

\* However many calls share the connection, a transaction that is open on the
\* server has a VisitTx call that has not ended it yet (store.go's Rollback and
\* Commit, and pgx giving the connection up when either fails).
THEOREM TransactionOwned == Spec => []NoOrphanTransaction
<1>1. OwnedInv => NoOrphanTransaction
  BY DEF OwnedInv
<1> QED
  BY <1>1, OwnedCorrect, PTL
=============================================================================
