------------------------- MODULE StoreSerialProofs -------------------------
(***************************************************************************)
(* Theorems about Store with one request at a time (Overlap = FALSE): for   *)
(* every number of calls, every length of visitor, and with clients that   *)
(* leave and a process that shuts down at any step.                        *)
(***************************************************************************)
EXTENDS StoreProofs

All(c, S) == \A i \in 1..StmtCount : <<c, i>> \in S
None(c, S) == \A i \in 1..StmtCount : <<c, i>> \notin S

\* One call runs; the connection is its own; a closed one has no transaction.
ConnInv ==
  /\ \A c, d \in Calls : Running(c) /\ Running(d) => c = d
  /\ holder # NoCall => conn = "open" /\ pc[holder] \in AtSQL
  /\ conn = "closed" => tx = "idle"
  /\ tx = "idle" => work = {}
  /\ ConnectionSurvives

\* A VisitTx call: what it wrote is in its transaction until COMMIT.
TxInv(c) ==
  /\ pc[c] \in {"idle", "begin"} => next[c] = 1
  /\ pc[c] \in {"idle", "begin", "visitor", "spinning", "rollback"} => None(c, durable)
  /\ pc[c] \in {"visitor", "spinning"} /\ conn = "open" =>
        /\ tx = "open"
        /\ \A i \in 1..StmtCount : <<c, i>> \in work <=> i < next[c]
  /\ pc[c] = "commit" /\ conn = "open" =>
        /\ tx = "open"
        /\ All(c, work)
        /\ None(c, durable)
  /\ pc[c] \notin {"visitor", "spinning", "commit", "rollback"} => None(c, work)
  /\ All(c, durable) \/ None(c, durable)
  /\ pc[c] = "rollback" => responseStatus[c] = "Error"
  /\ err[c] # "nil"
  /\ pc[c] = "returned" /\ responseStatus[c] = "OK" => conn = "closed"

\* A Visit call: what it wrote is durable at once.
VisitInv(c) ==
  /\ pc[c] \in {"idle", "visitor", "spinning", "returned"}
  /\ pc[c] = "idle" => next[c] = 1
  /\ pc[c] # "returned" => err[c] = "none"
  /\ pc[c] = "visitor" =>
        \A i \in 1..StmtCount : i < next[c] => <<c, i>> \in durable
  /\ err[c] = "nil" => responseStatus[c] = "Error" \/ All(c, durable)
  /\ pc[c] = "returned" /\ responseStatus[c] = "OK" => err[c] = "nil"

SerialInv == /\ TypeOK
             /\ TxSteps
             /\ NoOrphanTransaction
             /\ ConnInv
             /\ \A c \in TxCalls : TxInv(c)
             /\ \A c \in Calls \ TxCalls : VisitInv(c)

-----------------------------------------------------------------------------
(* The marks of a call, element by element.                                *)

\* All and None are TxAtomic's inclusion and disjointness.
LEMMA MarksElements ==
  ASSUME NEW c, NEW S
  PROVE  /\ Marks(c) \subseteq S <=> All(c, S)
         /\ Marks(c) \cap S = {} <=> None(c, S)
  BY DEF Marks, All, None
-----------------------------------------------------------------------------
(* What a step does to the marks of one call.                              *)

\* In the invariant only the running call has a transaction to be found in:
\* the facts every action below starts from.
LEMMA OnlyRunning ==
  ASSUME SerialInv, NEW c \in Calls, Running(c)
  PROVE  /\ holder \in {c, NoCall}
         /\ \A d \in Calls : d # c => pc[d] \in {"idle", "returned"}
         /\ \A d \in TxCalls : d # c => None(d, work)
         /\ tx # "idle" => c \in TxCalls /\ pc[c] \in {"visitor", "spinning", "commit", "rollback"}
<1> USE StoreAssumption DEF SerialInv, TypeOK, AtSQL
<1>1. holder \in {c, NoCall}
  BY DEF ConnInv, Running
<1>2. \A d \in Calls : d # c => pc[d] \in {"idle", "returned"}
  BY DEF ConnInv, Running
<1>3. \A d \in TxCalls : d # c => None(d, work)
  BY <1>2 DEF TxInv
<1>4. tx # "idle" => c \in TxCalls /\ pc[c] \in {"visitor", "spinning", "commit", "rollback"}
  BY <1>2 DEF NoOrphanTransaction
<1> QED
  BY <1>1, <1>2, <1>3, <1>4

\* A connection that is closed leaves the marks of a VisitTx call all or none:
\* only a COMMIT in flight can still land, and it lands whole.
LEMMA DropKeepsMarks ==
  ASSUME SerialInv, Drop
  PROVE  /\ durable \subseteq durable'
         /\ \A d \in TxCalls : /\ All(d, durable') \/ None(d, durable')
                               /\ pc[d] # "commit" /\ None(d, durable) => None(d, durable')
<1> USE StoreAssumption DEF SerialInv, TypeOK
<1>1. CASE durable' = durable
  BY <1>1 DEF TxInv
<1>2. CASE durable' = Landed /\ Landed # durable
  <2>1. holder \in Calls
    BY <1>2 DEF Landed
  <2>2. CASE pc[holder] = "visitor" /\ tx = "idle"
    <3>1. durable' = durable \cup {<<holder, next[holder]>>}
      BY <1>2, <2>1, <2>2 DEF Landed
    <3>2. holder \notin TxCalls
      BY <2>1, <2>2 DEF ConnInv, TxInv
    <3>3. \A d \in TxCalls : \A i \in 1..StmtCount :
             <<d, i>> \in durable' <=> <<d, i>> \in durable
      BY <3>1, <3>2
    <3> QED
      BY <3>1, <3>3 DEF TxInv, All, None
  <2>3. CASE pc[holder] = "commit" /\ tx = "open"
    <3>1. durable' = durable \cup work
      BY <1>2, <2>1, <2>3 DEF Landed
    <3>2. holder \in TxCalls /\ All(holder, work)
      BY <2>1, <2>3 DEF TxSteps, ConnInv, TxInv
    <3>3. \A d \in TxCalls : d # holder => None(d, work)
      BY <2>1, <2>3, OnlyRunning DEF Running
    <3>4. \A d \in TxCalls : d # holder => \A i \in 1..StmtCount :
             <<d, i>> \in durable' <=> <<d, i>> \in durable
      BY <3>1, <3>3 DEF None
    <3>5. All(holder, durable')
      BY <3>1, <3>2 DEF All
    <3> QED
      BY <2>3, <3>1, <3>4, <3>5 DEF TxInv, All, None
  <2> QED
    BY <1>2, <2>1, <2>2, <2>3 DEF Landed
<1> QED
  BY <1>1, <1>2 DEF Drop

\* A closed connection, nothing else changed: what Cancel and Shutdown do.
LEMMA DropKeepsCalls ==
  ASSUME SerialInv, Drop, UNCHANGED callVars
  PROVE  /\ \A d \in TxCalls : TxInv(d)'
         /\ \A d \in Calls \ TxCalls : VisitInv(d)'
<1> USE StoreAssumption DEF SerialInv, TypeOK, callVars
<1>1. ASSUME NEW d \in TxCalls PROVE TxInv(d)'
  BY DropKeepsMarks DEF TxInv, Drop, None
<1>2. ASSUME NEW d \in Calls \ TxCalls PROVE VisitInv(d)'
  BY DropKeepsMarks DEF VisitInv, All
<1> QED
  BY <1>1, <1>2
-----------------------------------------------------------------------------
(* One lemma per kind of step: the calls' own steps leave the other calls    *)
(* alone.                                                                  *)

\* A step of c that leaves the marks of the other calls as they are leaves
\* their part of the invariant alone.
LEMMA OthersKept ==
  ASSUME SerialInv, NEW c \in Calls, Running(c),
         \A d \in Calls : d # c => /\ pc'[d] = pc[d]
                                   /\ next'[d] = next[d]
                                   /\ err'[d] = err[d]
                                   /\ responseStatus'[d] = responseStatus[d],
         conn = "closed" => conn' = "closed",
         \A d \in TxCalls : d # c =>
            /\ None(d, work')
            /\ \A i \in 1..StmtCount : <<d, i>> \in durable' <=> <<d, i>> \in durable,
         durable \subseteq durable'
  PROVE  /\ \A d \in TxCalls : d # c => TxInv(d)'
         /\ \A d \in Calls \ TxCalls : d # c => VisitInv(d)'
<1> USE StoreAssumption DEF SerialInv, TypeOK
<1>1. ASSUME NEW d \in TxCalls, d # c PROVE TxInv(d)'
  BY <1>1, OnlyRunning DEF TxInv, All, None
<1>2. ASSUME NEW d \in Calls \ TxCalls, d # c PROVE VisitInv(d)'
  BY <1>2, OnlyRunning DEF VisitInv, All
<1> QED
  BY <1>1, <1>2

\* Each step of the calls, of the clients and of the shutdown keeps the
\* invariant when no other request is running.
LEMMA SerialStep ==
  ASSUME Overlap = FALSE, SerialInv, TypeOK', TxSteps', NoOrphanTransaction', [Next]_vars
  PROVE  SerialInv'
<1> USE StoreAssumption DEF SerialInv, TypeOK, AtSQL
<1> DEFINE CallsInv == /\ \A d \in TxCalls : TxInv(d)
                       /\ \A d \in Calls \ TxCalls : VisitInv(d)
<1>0. SUFFICES ConnInv' /\ CallsInv'
  OBVIOUS
<1> USE DEF callVars, connVars, dbVars, vars
<1>1. ASSUME NEW c \in Calls, Call(c) PROVE ConnInv' /\ CallsInv'
  <2>1. \A d \in Calls : ~Running(d)
    BY <1>1 DEF Call
  <2>2. tx = "idle" /\ holder = NoCall
    BY <2>1 DEF NoOrphanTransaction, ConnInv, Running
  <2>3. ConnInv'
    BY <1>1, <2>1, <2>2 DEF Call, ConnInv, Running, ConnectionSurvives
  <2>4. ASSUME NEW d \in TxCalls PROVE TxInv(d)'
    BY <1>1, <2>1, <2>4 DEF Call, TxInv, Running, None, All
  <2>5. ASSUME NEW d \in Calls \ TxCalls PROVE VisitInv(d)'
    BY <1>1, <2>1, <2>5 DEF Call, VisitInv, Running, All
  <2> QED
    BY <2>3, <2>4, <2>5
<1>2. ASSUME NEW c \in Calls, Send(c) PROVE ConnInv' /\ CallsInv'
  <2>1. ConnInv'
    BY <1>2 DEF Send, ConnInv, Running, ConnectionSurvives
  <2>2. ASSUME NEW d \in TxCalls PROVE TxInv(d)'
    BY <1>2 DEF Send, TxInv, None, All
  <2>3. ASSUME NEW d \in Calls \ TxCalls PROVE VisitInv(d)'
    BY <1>2 DEF Send, VisitInv, All
  <2> QED
    BY <2>1, <2>2, <2>3
<1>3. ASSUME NEW c \in Calls, BeginReply(c) PROVE ConnInv' /\ CallsInv'
  <2>1. Running(c) /\ c \in TxCalls
    BY <1>3 DEF BeginReply, Running, TxSteps
  <2>2. tx = "idle" /\ conn = "open" /\ work = {}
    BY <1>3, <2>1, OnlyRunning DEF BeginReply, ConnInv
  <2>3. ConnInv'
    BY <1>3, <2>1, <2>2 DEF BeginReply, Release, ConnInv, Running, ConnectionSurvives
  <2>4. TxInv(c)'
    BY <1>3, <2>1, <2>2 DEF BeginReply, Release, TxInv, None, All
  <2>5. CallsInv'
    BY <1>3, <2>1, <2>2, <2>4, OthersKept, OnlyRunning DEF BeginReply, Release, None
  <2> QED
    BY <2>3, <2>5
<1>4. ASSUME NEW c \in Calls, BeginFails(c) PROVE ConnInv' /\ CallsInv'
  <2>1. Running(c) /\ c \in TxCalls
    BY <1>4 DEF BeginFails, Running, TxSteps
  <2>2. conn = "closed" \/ c \in cancelled
    BY <1>4, <2>1, OnlyRunning DEF BeginFails, Refused
  <2>3. ConnInv'
    BY <1>4, <2>1, <2>2 DEF BeginFails, Drop, Return, ConnInv, Running, ConnectionSurvives
  <2>4. durable' = durable
    BY <1>4, <2>1, OnlyRunning DEF BeginFails, Drop, Landed, Refused
  <2>5. TxInv(c)'
    BY <1>4, <2>1, <2>4 DEF BeginFails, Drop, Return, TxInv, None, All
  <2>6. CallsInv'
    BY <1>4, <2>1, <2>4, <2>5, OthersKept DEF BeginFails, Drop, Return, None
  <2> QED
    BY <2>3, <2>6
<1>5. ASSUME NEW c \in Calls, StatementReply(c) PROVE ConnInv' /\ CallsInv'
  <2>1. Running(c) /\ conn = "open"
    BY <1>5 DEF StatementReply, Running, ConnInv
  <2>2. ConnInv'
    BY <1>5, <2>1 DEF StatementReply, Release, Return, ConnInv, Running, ConnectionSurvives
  <2>3. CASE c \in TxCalls
    <3>1. tx = "open" /\ work' = work \cup {<<c, next[c]>>} /\ durable' = durable
      BY <1>5, <2>1, <2>3 DEF StatementReply, TxInv
    <3>2. TxInv(c)'
      BY <1>5, <2>1, <2>3, <3>1 DEF StatementReply, Release, TxInv, None, All
    <3>3. \A d \in TxCalls : d # c => None(d, work')
      BY <2>1, <3>1, OnlyRunning DEF None
    <3>4. CallsInv'
      BY <1>5, <2>1, <2>3, <3>1, <3>2, <3>3, OthersKept
         DEF StatementReply, Release, Return
    <3> QED
      BY <2>2, <3>4
  <2>4. CASE c \notin TxCalls
    <3>1. tx = "idle" /\ work' = work /\ durable' = durable \cup {<<c, next[c]>>}
      BY <1>5, <2>1, <2>4, OnlyRunning DEF StatementReply
    <3>2. VisitInv(c)'
      BY <1>5, <2>1, <2>4, <3>1 DEF StatementReply, Release, Return, VisitInv, All
    <3>3. \A d \in TxCalls : d # c => None(d, work')
      BY <2>1, <3>1, OnlyRunning DEF None
    <3>4. \A d \in TxCalls : \A i \in 1..StmtCount :
             <<d, i>> \in durable' <=> <<d, i>> \in durable
      BY <2>4, <3>1
    <3>5. CallsInv'
      BY <1>5, <2>1, <2>4, <3>1, <3>2, <3>3, <3>4, OthersKept
         DEF StatementReply, Release, Return
    <3> QED
      BY <2>2, <3>5
  <2> QED
    BY <2>2, <2>3, <2>4
<1>6. ASSUME NEW c \in Calls, StatementFails(c) PROVE ConnInv' /\ CallsInv'
  <2>1. Running(c)
    BY <1>6 DEF StatementFails, VisitorErrs, Running
  <2>2. UNCHANGED <<conn, work, durable>> /\ holder' \in {holder, NoCall}
        /\ (tx' = tx \/ (tx = "open" /\ tx' = "failed"))
    BY <1>6 DEF StatementFails, VisitorErrs, Release
  <2>3. ConnInv'
    BY <1>6, <2>1, <2>2, OnlyRunning
       DEF StatementFails, VisitorErrs, Refused, Release, Return, ConnInv, Running, ConnectionSurvives
  <2>4. ASSUME c \in TxCalls PROVE TxInv(c)'
    BY <1>6, <2>1, <2>2, <2>4 DEF StatementFails, VisitorErrs, TxInv, None, All
  <2>5. ASSUME c \notin TxCalls PROVE VisitInv(c)'
    BY <1>6, <2>1, <2>2, <2>5 DEF StatementFails, VisitorErrs, Return, VisitInv, All
  <2>6. CallsInv'
    BY <1>6, <2>1, <2>2, <2>4, <2>5, OthersKept, OnlyRunning
       DEF StatementFails, VisitorErrs, Return, None
  <2> QED
    BY <2>3, <2>6
<1>7. ASSUME NEW c \in Calls, CommitReply(c) PROVE ConnInv' /\ CallsInv'
  <2>1. Running(c) /\ c \in TxCalls /\ conn = "open"
    BY <1>7 DEF CommitReply, Running, TxSteps, ConnInv
  <2>2. ConnInv'
    BY <1>7, <2>1 DEF CommitReply, Release, ConnInv, Running, ConnectionSurvives
  <2>3. TxInv(c)'
    BY <1>7, <2>1 DEF CommitReply, Release, TxInv, None, All
  <2>4. CallsInv'
    BY <1>7, <2>1, <2>3, OthersKept, OnlyRunning DEF CommitReply, Release, None
  <2> QED
    BY <2>2, <2>4
<1>8. ASSUME NEW c \in Calls, CommitFails(c) PROVE ConnInv' /\ CallsInv'
  <2>1. Running(c) /\ c \in TxCalls
    BY <1>8 DEF CommitFails, Running, TxSteps
  <2>2. conn = "open" => tx = "open"
    BY <1>8, <2>1 DEF CommitFails, TxInv
  <2>3. conn = "closed" => tx = "idle"
    BY DEF ConnInv
  <2>4. Refused(c) /\ (conn = "closed" \/ c \in cancelled)
    BY <1>8, <2>1, <2>2, <2>3, OnlyRunning DEF CommitFails, Refused, ConnInv
  <2>5. /\ pc' = [pc EXCEPT ![c] = "returned"]
        /\ err' = [err EXCEPT ![c] = "err"]
        /\ UNCHANGED <<next, responseStatus, cancelled, shutdown>>
    BY <1>8 DEF CommitFails, Return
  <2>6. conn' = "closed" /\ holder' = NoCall /\ tx' = "idle" /\ work' = {} /\ durable' = durable
    BY <1>8, <2>1, <2>2, <2>3, <2>4, OnlyRunning
       DEF CommitFails, Refused, Drop, Landed, ConnInv
  <2>7. ConnInv'
    BY <2>1, <2>4, <2>5, <2>6 DEF ConnInv, Running, ConnectionSurvives
  <2>8. TxInv(c)'
    BY <2>1, <2>5, <2>6 DEF TxInv, None, All
  <2>9. CallsInv'
    BY <2>1, <2>5, <2>6, <2>8, OthersKept DEF None
  <2> QED
    BY <2>7, <2>9
<1>9. ASSUME NEW c \in Calls, RollbackReply(c) PROVE ConnInv' /\ CallsInv'
  <2>1. Running(c) /\ c \in TxCalls /\ conn = "open"
    BY <1>9 DEF RollbackReply, Running, TxSteps, ConnInv
  <2>2. ConnInv'
    BY <1>9, <2>1 DEF RollbackReply, Release, Return, ConnInv, Running, ConnectionSurvives
  <2>3. TxInv(c)'
    BY <1>9, <2>1 DEF RollbackReply, Release, Return, TxInv, None, All
  <2>4. CallsInv'
    BY <1>9, <2>1, <2>3, OthersKept DEF RollbackReply, Release, Return, None
  <2> QED
    BY <2>2, <2>4
<1>10. ASSUME NEW c \in Calls, RollbackFails(c) PROVE ConnInv' /\ CallsInv'
  <2>1. Running(c) /\ c \in TxCalls
    BY <1>10 DEF RollbackFails, Running, TxSteps
  <2>2. conn = "closed" \/ c \in cancelled
    BY <1>10, <2>1, OnlyRunning DEF RollbackFails, Refused
  <2>3. durable' = durable
    BY <1>10, <2>1, OnlyRunning DEF RollbackFails, Drop, Landed, Refused
  <2>4. ConnInv'
    BY <1>10, <2>1, <2>2 DEF RollbackFails, Drop, Return, ConnInv, Running, ConnectionSurvives
  <2>5. TxInv(c)'
    BY <1>10, <2>1, <2>3 DEF RollbackFails, Drop, Return, TxInv, None, All
  <2>6. CallsInv'
    BY <1>10, <2>1, <2>3, <2>5, OthersKept DEF RollbackFails, Drop, Return, None
  <2> QED
    BY <2>4, <2>6
<1>11. ASSUME NEW c \in Calls, VisitAgain(c) PROVE ConnInv' /\ CallsInv'
  <2>1. Running(c) /\ c \in TxCalls
    BY <1>11 DEF VisitAgain, Running, TxSteps
  <2>2. ConnInv'
    BY <1>11, <2>1, OnlyRunning DEF VisitAgain, Return, ConnInv, Running, ConnectionSurvives
  <2>3. TxInv(c)'
    BY <1>11, <2>1 DEF VisitAgain, Return, TxInv, None, All
  <2>4. CallsInv'
    BY <1>11, <2>1, <2>3, OthersKept, OnlyRunning DEF VisitAgain, Return, None
  <2> QED
    BY <2>2, <2>4
<1>12. ASSUME NEW c \in Calls, Cancel(c) PROVE ConnInv' /\ CallsInv'
  <2>1. ConnInv'
    BY <1>12 DEF Cancel, Drop, ConnInv, Running, ConnectionSurvives
  <2>2. CASE Drop
    BY <1>12, <2>1, <2>2, DropKeepsCalls DEF Cancel
  <2>3. CASE UNCHANGED <<connVars, dbVars>>
    <3>1. ASSUME NEW d \in TxCalls PROVE TxInv(d)'
      BY <1>12, <2>3 DEF Cancel, TxInv, None, All
    <3>2. ASSUME NEW d \in Calls \ TxCalls PROVE VisitInv(d)'
      BY <1>12, <2>3 DEF Cancel, VisitInv, All
    <3> QED
      BY <2>1, <3>1, <3>2
  <2> QED
    BY <1>12, <2>2, <2>3 DEF Cancel
<1>13. CASE Shutdown
  <2>1. ConnInv'
    BY <1>13 DEF Shutdown, Drop, ConnInv, Running, ConnectionSurvives
  <2> QED
    BY <1>13, <2>1, DropKeepsCalls DEF Shutdown
<1>15. ASSUME NEW c \in Calls, VisitorLeaves(c) PROVE ConnInv' /\ CallsInv'
  <2>1. Running(c) /\ c \notin TxCalls
    BY <1>15 DEF VisitorLeaves, Running
  <2>2. tx = "idle" /\ holder = NoCall
    BY <1>15, <2>1, OnlyRunning DEF VisitorLeaves
  <2>3. ConnInv'
    BY <1>15, <2>1, <2>2 DEF VisitorLeaves, Return, ConnInv, Running, ConnectionSurvives
  <2>4. VisitInv(c)'
    BY <1>15, <2>1 DEF VisitorLeaves, Return, VisitInv, All
  <2>5. CallsInv'
    BY <1>15, <2>1, <2>4, OthersKept, OnlyRunning DEF VisitorLeaves, Return, None
  <2> QED
    BY <2>3, <2>5
<1>16. ASSUME NEW c \in Calls, VisitorSpins(c) PROVE ConnInv' /\ CallsInv'
  <2>1. Running(c)
    BY <1>16 DEF VisitorSpins, Running
  <2>2. ConnInv'
    BY <1>16, <2>1, OnlyRunning DEF VisitorSpins, ConnInv, Running, ConnectionSurvives
  <2>3. ASSUME c \in TxCalls PROVE TxInv(c)'
    BY <1>16, <2>1, <2>3 DEF VisitorSpins, TxInv, None, All
  <2>4. ASSUME c \notin TxCalls PROVE VisitInv(c)'
    BY <1>16, <2>1, <2>4 DEF VisitorSpins, VisitInv, All
  <2>5. CallsInv'
    BY <1>16, <2>1, <2>3, <2>4, OthersKept, OnlyRunning DEF VisitorSpins, None
  <2> QED
    BY <2>2, <2>5
<1>14. CASE UNCHANGED vars
  <2>1. ConnInv'
    BY <1>14 DEF ConnInv, Running, ConnectionSurvives
  <2>2. ASSUME NEW d \in TxCalls PROVE TxInv(d)'
    BY <1>14 DEF TxInv, None, All
  <2>3. ASSUME NEW d \in Calls \ TxCalls PROVE VisitInv(d)'
    BY <1>14 DEF VisitInv, All
  <2> QED
    BY <2>1, <2>2, <2>3
<1> QED
  BY <1>1, <1>2, <1>3, <1>4, <1>5, <1>6, <1>7, <1>8, <1>9, <1>10, <1>11,
     <1>12, <1>13, <1>14, <1>15, <1>16 DEF Next, Progress, Idle
-----------------------------------------------------------------------------
\* The invariant of one request at a time holds in every state.
THEOREM SerialCorrect == Overlap = FALSE /\ Spec => []SerialInv
<1>1. Init => SerialInv
  <2> SUFFICES ASSUME Init PROVE SerialInv
    OBVIOUS
  <2> USE StoreAssumption DEF Init
  <2>1. TypeOK
    BY InitTypeOK
  <2>2. TxSteps /\ NoOrphanTransaction
    BY DEF TxSteps, NoOrphanTransaction
  <2>3. ConnInv
    BY DEF ConnInv, Running, ConnectionSurvives
  <2>4. ASSUME NEW c \in TxCalls PROVE TxInv(c)
    BY DEF TxInv, None, All
  <2>5. ASSUME NEW c \in Calls \ TxCalls PROVE VisitInv(c)
    BY DEF VisitInv, All
  <2> QED
    BY <2>1, <2>2, <2>3, <2>4, <2>5 DEF SerialInv
<1>2. Overlap = FALSE /\ SerialInv /\ TypeOK' /\ OwnedInv' /\ [Next]_vars => SerialInv'
  BY SerialStep DEF OwnedInv
<1>3. ASSUME Overlap = FALSE PROVE Spec => []SerialInv
  <2>1. SerialInv /\ TypeOK' /\ OwnedInv' /\ [Next]_vars => SerialInv'
    BY <1>2, <1>3
  <2> QED
    BY <1>1, <2>1, TypeCorrect, OwnedCorrect, PTL DEF Spec
<1> QED
  BY <1>3

\* The statements of a VisitTx call are in the database all or none in every
\* state: a failing visitor, a lost COMMIT, a cancelled request or a shutdown at
\* any of its steps leaves no half of it.
THEOREM SerialTxAtomic == Overlap = FALSE /\ Spec => []TxAtomic
<1>1. SerialInv => TxAtomic
  BY MarksElements DEF SerialInv, TxInv, TxAtomic
<1> QED
  BY <1>1, SerialCorrect, PTL

\* Whatever visitors fail, the process keeps its one connection until a client
\* leaves or the process shuts down.
THEOREM SerialConnectionSurvives == Overlap = FALSE /\ Spec => []ConnectionSurvives
<1>1. SerialInv => ConnectionSurvives
  BY DEF SerialInv, ConnInv
<1> QED
  BY <1>1, SerialCorrect, PTL

\* What a Visit call wrote that returned nil, and whose visitor did not object,
\* stays in the database.
THEOREM SerialVisitKept == Overlap = FALSE /\ Spec => []VisitKept
<1>1. SerialInv => VisitKept
  BY StoreAssumption DEF SerialInv, VisitInv, VisitKept, Marks, All
<1> QED
  BY <1>1, SerialCorrect, PTL

\* As long as the connection is up, a handler that answered OK did what was
\* asked, or its Visit call's visitor set another status and returned nil, as
\* Login's does for a deleted user: no VisitTx and no connection is to blame.
THEOREM SerialOkMeansDone == Overlap = FALSE /\ Spec => []OkMeansDoneWhileOpen
<1>1. SerialInv => OkMeansDoneWhileOpen
  <2> SUFFICES ASSUME SerialInv, conn = "open", NEW c \in Calls, AnsweredOK(c)
               PROVE  \/ Marks(c) \subseteq durable
                      \/ err[c] = "nil" /\ responseStatus[c] = "Error"
    BY DEF OkMeansDoneWhileOpen
  <2>1. c \in Calls \ TxCalls /\ err[c] = "nil"
    BY StoreAssumption DEF SerialInv, TypeOK, TxInv, VisitInv, AnsweredOK
  <2> QED
    BY <2>1, StoreAssumption DEF SerialInv, VisitInv, Marks, All
<1> QED
  BY <1>1, SerialCorrect, PTL
-----------------------------------------------------------------------------
(* The refinement.                                                         *)

\* The phase and the database of AtomicStore that a state of Store stands for.
AbsPhase == [d \in TxCalls |-> Phase(d)]
AbsDb == durable \cap (TxCalls \X (1..StmtCount))

\* A step after which every VisitTx call stands where it stood, with its marks,
\* is no step of AtomicStore.
LEMMA Stutters ==
  ASSUME SerialInv,
         \A d \in TxCalls : /\ pc'[d] = pc[d] \/ (Running(d) /\ Running(d)')
                            /\ \A i \in 1..StmtCount :
                                  <<d, i>> \in durable' <=> <<d, i>> \in durable,
         durable' \subseteq Calls \X (1..StmtCount)
  PROVE  UNCHANGED <<AbsPhase, AbsDb>>
<1>1. ASSUME NEW d \in TxCalls PROVE Phase(d)' = Phase(d)
  <2>1. Marks(d)' \subseteq durable' <=> Marks(d) \subseteq durable
    BY DEF Marks
  <2> QED
    BY <2>1 DEF Phase, Running
<1>2. AbsDb' = AbsDb
  BY DEF AbsDb
<1> QED
  BY <1>1, <1>2 DEF AbsPhase

\* The marks of c arrive, and nothing else of any VisitTx call changes.
LEMMA Applies ==
  ASSUME SerialInv, NEW c \in TxCalls, Running(c),
         None(c, durable), All(c, durable'),
         \A d \in TxCalls : /\ pc'[d] = pc[d] \/ (Running(d) /\ Running(d)')
                            /\ d # c => \A i \in 1..StmtCount :
                                  <<d, i>> \in durable' <=> <<d, i>> \in durable
  PROVE  Atomic!Apply(c)
<1> USE StoreAssumption
<1>1. ~(Marks(c) \subseteq durable) /\ (Marks(c) \subseteq durable')
  <2>1. <<c, 1>> \in Marks(c) /\ <<c, 1>> \notin durable
    BY DEF Marks, None
  <2> QED
    BY <2>1 DEF Marks, All
<1>2. Phase(c) = "running"
  BY <1>1 DEF Phase, Running
<1>3. Phase(c)' = "applied"
  BY <1>1 DEF Phase, Running, Marks
<1>4. ASSUME NEW d \in TxCalls, d # c PROVE Phase(d)' = Phase(d)
  <2>1. Marks(d)' \subseteq durable' <=> Marks(d) \subseteq durable
    BY <1>4 DEF Marks
  <2> QED
    BY <2>1 DEF Phase, Running
<1>5. AbsPhase' = [AbsPhase EXCEPT ![c] = "applied"]
  BY <1>3, <1>4 DEF AbsPhase
<1>6. AbsDb' = AbsDb \cup Marks(c)
  BY DEF AbsDb, Marks, All
<1>7. AbsPhase[c] = "running"
  BY <1>2 DEF AbsPhase
<1> QED
  BY <1>5, <1>6, <1>7 DEF AbsPhase, AbsDb, Marks, Atomic!Apply, Atomic!Marks

\* c returns, applied or not.
LEMMA ReturnsSeen ==
  ASSUME SerialInv, NEW c \in TxCalls, Running(c),
         pc' = [pc EXCEPT ![c] = "returned"], durable' = durable
  PROVE  Atomic!Return(c)
<1> USE StoreAssumption
<1>1. Phase(c) \in {"running", "applied"}
  BY DEF Phase, Running
<1>2. Phase(c)' = "returned"
  BY DEF Phase, SerialInv, TypeOK
<1>3. ASSUME NEW d \in TxCalls, d # c PROVE Phase(d)' = Phase(d)
  <2>1. pc'[d] = pc[d]
    BY <1>3 DEF SerialInv, TypeOK
  <2> QED
    BY <2>1 DEF Phase, Marks
<1>4. AbsPhase' = [AbsPhase EXCEPT ![c] = "returned"]
  BY <1>2, <1>3 DEF AbsPhase
<1> QED
  BY <1>1, <1>4 DEF AbsPhase, AbsDb, Atomic!Return

\* Every step of Store is a step of AtomicStore or none: COMMIT's reply, or a
\* COMMIT that lands as the connection closes, is its Apply.
LEMMA AtomicStep ==
  ASSUME Overlap = FALSE, SerialInv, SerialInv', [Next]_vars
  PROVE  [Atomic!Next]_<<AbsPhase, AbsDb>>
<1> USE StoreAssumption DEF SerialInv, TypeOK, AtSQL, callVars, connVars, dbVars, vars
<1> DEFINE Same == UNCHANGED <<AbsPhase, AbsDb>>
           Simulated == Same \/ Atomic!Next
<1>0. SUFFICES Simulated
  OBVIOUS
<1>1. ASSUME NEW c \in Calls, Call(c) PROVE Simulated
  <2>1. CASE c \in TxCalls
    <3>1. ~(Marks(c) \subseteq durable)
      <4>1. <<c, 1>> \in Marks(c) /\ <<c, 1>> \notin durable
        BY <1>1, <2>1 DEF Call, TxInv, None, Marks
      <4> QED
        BY <4>1
    <3>2. Phase(c) = "idle" /\ Phase(c)' = "running"
      BY <1>1, <2>1, <3>1 DEF Call, Phase, Marks
    <3>3. ASSUME NEW d \in TxCalls, d # c PROVE Phase(d)' = Phase(d)
      BY <1>1, <3>3 DEF Call, Phase, Marks
    <3>4. AbsPhase' = [AbsPhase EXCEPT ![c] = "running"]
      BY ONLY <2>1, <3>2, <3>3 DEF AbsPhase
    <3>5. AbsPhase[c] = "idle" /\ durable' = durable
      BY <1>1, <2>1, <3>2 DEF Call, AbsPhase
    <3>6. Atomic!Begin(c)
      BY <3>4, <3>5 DEF AbsPhase, AbsDb, Atomic!Begin
    <3> QED
      BY <2>1, <3>6 DEF Atomic!Next
  <2>2. CASE c \notin TxCalls
    BY <1>1, <2>2, Stutters DEF Call
  <2> QED
    BY <2>1, <2>2
<1>2. ASSUME NEW c \in Calls, Send(c) PROVE Simulated
  BY <1>2, Stutters DEF Send, Running
<1>3. ASSUME NEW c \in Calls, BeginReply(c) PROVE Simulated
  BY <1>3, Stutters DEF BeginReply, Running
<1>4. ASSUME NEW c \in Calls, BeginFails(c) PROVE Simulated
  <2>1. Running(c) /\ c \in TxCalls
    BY <1>4 DEF BeginFails, Running, TxSteps
  <2>2. durable' = durable
    BY <1>4, <2>1, OnlyRunning DEF BeginFails, Drop, Landed, Refused
  <2> QED
    BY <1>4, <2>1, <2>2, ReturnsSeen DEF BeginFails, Return, Atomic!Next
<1>5. ASSUME NEW c \in Calls, StatementReply(c) PROVE Simulated
  <2>1. Running(c)
    BY <1>5 DEF StatementReply, Running
  <2>2. CASE c \in TxCalls
    <3>1. durable' = durable
      BY <1>5, <2>2 DEF StatementReply, TxInv, ConnInv
    <3> QED
      BY <1>5, <2>1, <2>2, <3>1, Stutters DEF StatementReply, Running
  <2>3. CASE c \notin TxCalls
    <3>1. durable' = durable \cup {<<c, next[c]>>}
      BY <1>5, <2>1, <2>3, OnlyRunning DEF StatementReply
    <3>2. \A d \in TxCalls : /\ pc'[d] = pc[d]
                             /\ \A i \in 1..StmtCount :
                                  <<d, i>> \in durable' <=> <<d, i>> \in durable
      BY <1>5, <2>3, <3>1 DEF StatementReply, Return
    <3> QED
      BY <3>2, Stutters
  <2> QED
    BY <2>2, <2>3
<1>6. ASSUME NEW c \in Calls, StatementFails(c) PROVE Simulated
  BY <1>6, Stutters DEF StatementFails, VisitorErrs, Return, Running
<1>7. ASSUME NEW c \in Calls, CommitReply(c) PROVE Simulated
  <2>1. Running(c) /\ c \in TxCalls /\ conn = "open"
    BY <1>7 DEF CommitReply, Running, TxSteps, ConnInv
  <2>2. None(c, durable) /\ All(c, work)
    BY <1>7, <2>1 DEF CommitReply, TxInv
  <2>3. durable' = durable \cup work
    BY <1>7 DEF CommitReply
  <2>4. All(c, durable')
    BY <2>2, <2>3 DEF All
  <2>5. \A d \in TxCalls : d # c => \A i \in 1..StmtCount :
           <<d, i>> \in durable' <=> <<d, i>> \in durable
    BY <2>1, <2>3, OnlyRunning DEF None
  <2>6. \A d \in TxCalls : pc'[d] = pc[d] \/ (Running(d) /\ Running(d)')
    BY <1>7 DEF CommitReply, Running
  <2>7. Atomic!Apply(c)
    BY <2>1, <2>2, <2>4, <2>5, <2>6, Applies
  <2> QED
    BY <2>1, <2>7 DEF Atomic!Next
<1>8. ASSUME NEW c \in Calls, CommitFails(c) PROVE Simulated
  <2>1. Running(c) /\ c \in TxCalls
    BY <1>8 DEF CommitFails, Running, TxSteps
  <2>2. durable' = durable
    BY <1>8, <2>1, OnlyRunning DEF CommitFails, Drop, Landed, Refused
  <2> QED
    BY <1>8, <2>1, <2>2, ReturnsSeen DEF CommitFails, Return, Atomic!Next
<1>9. ASSUME NEW c \in Calls, RollbackReply(c) PROVE Simulated
  <2>1. Running(c) /\ c \in TxCalls
    BY <1>9 DEF RollbackReply, Running, TxSteps
  <2> QED
    BY <1>9, <2>1, ReturnsSeen DEF RollbackReply, Return, Atomic!Next
<1>10. ASSUME NEW c \in Calls, RollbackFails(c) PROVE Simulated
  <2>1. Running(c) /\ c \in TxCalls
    BY <1>10 DEF RollbackFails, Running, TxSteps
  <2>2. durable' = durable
    BY <1>10, <2>1, OnlyRunning DEF RollbackFails, Drop, Landed, Refused
  <2> QED
    BY <1>10, <2>1, <2>2, ReturnsSeen DEF RollbackFails, Return, Atomic!Next
<1>11. ASSUME NEW c \in Calls, VisitAgain(c) PROVE Simulated
  <2>1. Running(c) /\ c \in TxCalls
    BY <1>11 DEF VisitAgain, Running, TxSteps
  <2> QED
    BY <1>11, <2>1, ReturnsSeen DEF VisitAgain, Return, Atomic!Next
<1>12. ASSUME Drop, UNCHANGED callVars PROVE Simulated
  <2>1. CASE \A d \in TxCalls : \A i \in 1..StmtCount :
               <<d, i>> \in durable' <=> <<d, i>> \in durable
    BY <1>12, <2>1, Stutters
  <2>2. CASE ~(\A d \in TxCalls : \A i \in 1..StmtCount :
               <<d, i>> \in durable' <=> <<d, i>> \in durable)
    <3>1. holder \in Calls /\ durable' = Landed /\ Landed # durable
      BY <1>12, <2>2 DEF Drop, Landed
    <3>2. pc[holder] = "commit" /\ tx = "open" /\ holder \in TxCalls
      <4>1. CASE pc[holder] = "visitor" /\ tx = "idle"
        <5>1. holder \notin TxCalls
          BY <3>1, <4>1 DEF ConnInv, TxInv
        <5> QED
          BY <2>2, <3>1, <4>1, <5>1 DEF Landed
      <4> QED
        BY <3>1, <4>1 DEF Landed, TxSteps
    <3>3. Running(holder)
      BY <3>2 DEF Running
    <3>4. durable' = durable \cup work
      BY <3>1, <3>2 DEF Landed
    <3>5. None(holder, durable) /\ All(holder, work)
      BY <3>1, <3>2 DEF ConnInv, TxInv
    <3>6. All(holder, durable')
      BY <3>4, <3>5 DEF All
    <3>7. \A d \in TxCalls : d # holder => \A i \in 1..StmtCount :
             <<d, i>> \in durable' <=> <<d, i>> \in durable
      BY <3>2, <3>3, <3>4, OnlyRunning DEF None
    <3>8. Atomic!Apply(holder)
      BY <1>12, <3>2, <3>3, <3>5, <3>6, <3>7, Applies
    <3> QED
      BY <3>2, <3>8 DEF Atomic!Next
  <2> QED
    BY <2>1, <2>2
<1>13. CASE UNCHANGED vars
  BY <1>13, Stutters
<1>14. ASSUME NEW c \in Calls, Cancel(c) PROVE Simulated
  <2>1. CASE Drop
    BY <1>12, <1>14, <2>1 DEF Cancel
  <2>2. CASE UNCHANGED <<connVars, dbVars>>
    BY <1>14, <2>2, Stutters DEF Cancel
  <2> QED
    BY <1>14, <2>1, <2>2 DEF Cancel
<1>15. CASE Shutdown
  BY <1>12, <1>15 DEF Shutdown
<1>16. ASSUME NEW c \in Calls, VisitorLeaves(c) PROVE Simulated
  BY <1>16, Stutters DEF VisitorLeaves, Return
<1>17. ASSUME NEW c \in Calls, VisitorSpins(c) PROVE Simulated
  BY <1>17, Stutters DEF VisitorSpins, Running
<1> QED
  BY <1>1, <1>2, <1>3, <1>4, <1>5, <1>6, <1>7, <1>8, <1>9, <1>10, <1>11,
     <1>13, <1>14, <1>15, <1>16, <1>17 DEF Next, Progress, Idle

\* store.go's VisitTx keeps the promise of AtomicStore: its statements reach the
\* database all together, once, while the call runs, or not at all.
THEOREM SerialImplementsAtomicStore == Overlap = FALSE /\ Spec => ImplementsAtomicStore
<1>1. Init => Atomic!Init
  <2>1. ASSUME Init PROVE AbsPhase = [c \in TxCalls |-> "idle"] /\ AbsDb = {}
    BY <2>1, StoreAssumption DEF Init, AbsPhase, AbsDb, Phase
  <2> QED
    BY <2>1 DEF Atomic!Init, AbsPhase, AbsDb
<1>2. ASSUME Overlap = FALSE PROVE Spec => Atomic!Spec
  <2>1. SerialInv /\ SerialInv' /\ [Next]_vars => [Atomic!Next]_Atomic!vars
    BY <1>2, AtomicStep DEF Atomic!vars, AbsPhase, AbsDb
  <2>2. Spec => []SerialInv
    BY <1>2, SerialCorrect
  <2> QED
    BY <1>1, <2>1, <2>2, PTL DEF Spec, Atomic!Spec
<1> QED
  BY <1>2 DEF ImplementsAtomicStore
=============================================================================
