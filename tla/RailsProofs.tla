----------------------------- MODULE RailsProofs -----------------------------
(***************************************************************************)
(* Theorems about RailsHandler, for every number of connections, addresses *)
(* and messages, and for every one of the Builds.                          *)
(***************************************************************************)
EXTENDS RailsHandler, TLAPS

\* A step of the server changes none of the handler's variables, a step of the
\* handler at most the connection it takes over.
ServerTypeOK == /\ ctx \in {"live", "done"}
                /\ listener \in {"none", "open", "closed"}
                /\ serve \in {"none", "listening", "serving", "returned"}
                /\ shutdown \in {"waiting", "draining", "done"}
                /\ net \in [Conns -> {"none", "arriving", "active", "rest", "spinning",
                                       "idle", "hijacked", "closed"}]

ServerSteps == ServerNext \/ Interrupt \/ \E c \in Conns : ServerConn(c)

\* server.go keeps the types of its variables.
LEMMA ServerTypes == ASSUME ServerTypeOK, ServerSteps PROVE ServerTypeOK'
<1> USE DEF ServerTypeOK
<1>1. ASSUME NEW c \in Conns, ServerConn(c) PROVE ServerTypeOK'
  BY <1>1 DEF ServerConn, Accept, Received, NextRequest, RestAnswers, RestSpins
<1>2. CASE ServerNext
  BY <1>2 DEF ServerNext, Listen, Serve, ServeReturns, CloseListener, ShutdownBegins,
              ShutdownEnds
<1>3. CASE Interrupt
  BY <1>3 DEF Interrupt
<1> QED
  BY <1>1, <1>2, <1>3 DEF ServerSteps

\* What OneLogin rests on: whoever logs in has taken the lock of its session's
\* state, and where there is no lock nobody gets that far.
LoginLocked == \A m \in Messages : LoggingIn(m) => /\ stateLock[task[m].of]
                                                   /\ "lock" \in made
HandlerInv == TypeOK /\ LoginLocked /\ OneLogin /\ ServedRegistered

\* The next-state relation, one action per disjunct.
LEMMA Steps ==
  ASSUME Next
  PROVE  \/ ServerSteps /\ UNCHANGED handlerVars
         \/ \E c \in Conns : \/ Upgrade(c) \/ StoreSession(c) \/ Unregister(c)
                             \/ BadProtocol(c) \/ ReadMessage(c) \/ ReadFails(c)
         \/ \E m \in Messages : Callback(m) \/ Login(m) \/ Hash(m) \/ Respond(m)
         \/ BroadcastStarts \/ BroadcastEnds
         \/ UNCHANGED vars
BY DEF Next, ServerSteps, Serving, Client, Call

\* A process that has just been started.
LEMMA InitHandlerInv == Init => HandlerInv
<1> SUFFICES ASSUME Init PROVE HandlerInv
  OBVIOUS
<1> USE RailsAssumption DEF Init, ServerInit
<1>1. TypeOK
  BY DEF TypeOK, TaskRow
<1>2. LoginLocked /\ OneLogin
  BY DEF LoginLocked, OneLogin, LoggingIn
<1>3. ServedRegistered
  BY DEF ServedRegistered
<1> QED
  BY <1>1, <1>2, <1>3 DEF HandlerInv

\* What the steps of a callback have in common.
Goes(m, to) == /\ task[m].at # "none"
               /\ task' = [task EXCEPT ![m].at = to]
               /\ UNCHANGED <<serverVars, made, remote, pc, after, sessions, sessionsLock,
                              broadcast>>

\* A callback that goes on stays that of its connection.
LEMMA TaskTypes ==
  ASSUME task \in [Messages -> TaskRow], NEW m \in Messages,
         NEW to \in {"login", "hash", "responding", "done"},
         task[m].at # "none", task' = [task EXCEPT ![m].at = to]
  PROVE  /\ task[m].of \in Conns
         /\ task' \in [Messages -> TaskRow]
         /\ \A k \in Messages : task'[k] = IF k = m THEN [of |-> task[m].of, at |-> to]
                                          ELSE task[k]
<1>1. task[m] \in [of : Conns, at : {"started", "login", "hash", "responding", "done"}]
  BY DEF TaskRow
<1>2. [task[m] EXCEPT !.at = to] = [of |-> task[m].of, at |-> to]
  BY <1>1
<1>3. task' = [task EXCEPT ![m] = [of |-> task[m].of, at |-> to]]
  BY <1>2
<1> QED
  BY <1>1, <1>3 DEF TaskRow

\* Every variable keeps its type, and sessionsLock is held by the panics of
\* ServeHTTP and by nobody else.
LEMMA NextTypeOK == ASSUME TypeOK, [Next]_vars PROVE TypeOK'
<1> USE RailsAssumption DEF TypeOK, serverVars, handlerVars, vars
<1>1. ASSUME ServerSteps, UNCHANGED handlerVars PROVE TypeOK'
  BY <1>1, ServerTypes DEF ServerTypeOK
<1>2. ASSUME NEW c \in Conns, Upgrade(c) PROVE TypeOK'
  BY <1>2 DEF Upgrade, Goto
<1>3. ASSUME NEW c \in Conns, StoreSession(c) PROVE TypeOK'
  BY <1>3 DEF StoreSession, Goto
<1>4. ASSUME NEW c \in Conns, Unregister(c) PROVE TypeOK'
  BY <1>4 DEF Unregister
<1>5. ASSUME NEW c \in Conns, BadProtocol(c) PROVE TypeOK'
  BY <1>5 DEF BadProtocol
<1>6. ASSUME NEW c \in Conns, ReadMessage(c) PROVE TypeOK'
  BY <1>6 DEF ReadMessage, TaskRow
<1>7. ASSUME NEW c \in Conns, ReadFails(c) PROVE TypeOK'
  BY <1>7 DEF ReadFails, Goto
<1>8. ASSUME NEW m \in Messages, Callback(m) PROVE TypeOK'
  <2>1. PICK to \in {"login", "responding", "done"} : Goes(m, to)
    BY <1>8 DEF Callback, Task, Goes
  <2>2. task' \in [Messages -> TaskRow] /\ task[m].of \in Conns
    BY <2>1, TaskTypes DEF Goes
  <2>3. /\ \/ stateLock' = [stateLock EXCEPT ![task[m].of] = TRUE]
           \/ stateLock' = [stateLock EXCEPT ![task[m].of] = FALSE]
        /\ crashed' \in BOOLEAN
    <3>1. CASE "lock" \in made
      BY <1>8, <3>1 DEF Callback
    <3>2. CASE "lock" \notin made
      <4>1. stateLock' = [stateLock EXCEPT ![task[m].of] = ("lock" \in made)]
        BY <1>8 DEF Callback
      <4>2. ("lock" \in made) = FALSE
        BY <3>2
      <4>3. stateLock' = [stateLock EXCEPT ![task[m].of] = FALSE]
        BY <4>1, <4>2, Zenon
      <4> QED
        BY <1>8, <4>3, <3>2 DEF Callback
    <3> QED
      BY <3>1, <3>2
  <2> QED
    BY <2>1, <2>2, <2>3 DEF Goes
<1>9. ASSUME NEW m \in Messages, Login(m) \/ Hash(m) \/ Respond(m) PROVE TypeOK'
  <2>1. PICK to \in {"hash", "responding", "done"} : Goes(m, to)
    BY <1>9 DEF Login, Hash, Respond, Task, Goes
  <2>2. task' \in [Messages -> TaskRow]
    BY <2>1, TaskTypes DEF Goes
  <2>3. UNCHANGED <<stateLock, crashed>>
    BY <1>9 DEF Login, Hash, Respond
  <2> QED
    BY <2>1, <2>2, <2>3 DEF Goes
<1>10. CASE BroadcastStarts \/ BroadcastEnds
  BY <1>10 DEF BroadcastStarts, BroadcastEnds
<1>11. CASE UNCHANGED vars
  BY <1>11
<1> QED
  BY <1>1, <1>2, <1>3, <1>4, <1>5, <1>6, <1>7, <1>8, <1>9, <1>10, <1>11, Steps

\* A login is begun by the callback that takes the lock, which no other login of
\* that session can have.
LEMMA NextOneLogin ==
  ASSUME TypeOK, LoginLocked, OneLogin, [Next]_vars PROVE (LoginLocked /\ OneLogin)'
<1> USE DEF LoginLocked, OneLogin, LoggingIn
<1>0. task \in [Messages -> TaskRow]
  BY DEF TypeOK
<1>1. ASSUME UNCHANGED <<task, stateLock, made>> PROVE (LoginLocked /\ OneLogin)'
  BY <1>1
<1>2. ASSUME NEW c \in Conns, ReadMessage(c) PROVE (LoginLocked /\ OneLogin)'
  BY <1>2 DEF ReadMessage, TypeOK
<1>3. ASSUME NEW m \in Messages, Callback(m) PROVE (LoginLocked /\ OneLogin)'
  <2>1. PICK to \in {"login", "responding", "done"} :
          /\ Goes(m, to)
          /\ to = "login" => "lock" \in made /\ ~stateLock[task[m].of]
    BY <1>3 DEF Callback, Task, Goes
  <2>2. made' = made
    BY <2>1 DEF Goes
  <2>3. /\ task[m].of \in Conns
        /\ \A k \in Messages : task'[k] = IF k = m THEN [of |-> task[m].of, at |-> to]
                                         ELSE task[k]
    BY <1>0, <2>1, TaskTypes DEF Goes
  <2>4. ASSUME "lock" \in made, NEW c \in Conns
        PROVE  stateLock'[c] = IF c = task[m].of THEN TRUE ELSE stateLock[c]
    <3>1. stateLock' = [stateLock EXCEPT ![task[m].of] = TRUE]
      BY <1>3, <2>4 DEF Callback
    <3> QED
      BY <2>3, <3>1 DEF TypeOK
  <2>5. \A k \in Messages : LoggingIn(k) => task[k].of \in Conns
    BY <1>0 DEF TaskRow
  <2>6. OneLogin'
    BY <2>1, <2>3
  <2>7. ASSUME NEW k \in Messages, LoggingIn(k)'
        PROVE  stateLock'[task'[k].of] /\ "lock" \in made'
    <3>1. CASE k = m
      <4>1. task'[k].of = task[m].of /\ to = "login"
        BY <2>1, <2>3, <2>7, <3>1
      <4> QED
        BY <2>1, <2>2, <2>3, <2>4, <4>1
    <3>2. CASE k # m
      <4>1. task'[k] = task[k] /\ LoggingIn(k)
        BY <2>3, <2>7, <3>2
      <4>2. stateLock[task[k].of] /\ "lock" \in made
        BY <4>1
      <4> QED
        BY <2>2, <2>4, <2>5, <4>1, <4>2
    <3> QED
      BY <3>1, <3>2
  <2> QED
    BY <2>6, <2>7
<1>4. ASSUME NEW m \in Messages, Login(m) \/ Hash(m) \/ Respond(m)
      PROVE  (LoginLocked /\ OneLogin)'
  <2>1. PICK to \in {"hash", "responding", "done"} :
          /\ Goes(m, to)
          /\ UNCHANGED stateLock
          /\ to = "hash" => LoggingIn(m)
    BY <1>4 DEF Login, Hash, Respond, Task, Goes
  <2>2. \A k \in Messages : LoggingIn(k)' => LoggingIn(k) /\ task'[k].of = task[k].of
    <3>1. \A k \in Messages : task'[k] = IF k = m THEN [of |-> task[m].of, at |-> to]
                                        ELSE task[k]
      BY <1>0, <2>1, TaskTypes DEF Goes
    <3> QED
      BY <2>1, <3>1
  <2> QED
    BY <2>1, <2>2 DEF Goes
<1>5. ASSUME NEW c \in Conns,
             Upgrade(c) \/ StoreSession(c) \/ Unregister(c) \/ BadProtocol(c) \/ ReadFails(c)
      PROVE  UNCHANGED <<task, stateLock, made>>
  BY <1>5 DEF Upgrade, StoreSession, Unregister, BadProtocol, ReadFails, handlerVars
<1> QED
  BY <1>1, <1>2, <1>3, <1>4, <1>5, Steps
     DEF BroadcastStarts, BroadcastEnds, handlerVars, vars

\* The session of a connection that is read is replaced by that of another from its
\* address, or removed by the AfterFunc of another: of one that was registered.
LEMMA NextServedRegistered ==
  ASSUME TypeOK, ServedRegistered, [Next]_vars PROVE ServedRegistered'
<1> USE DEF ServedRegistered, TypeOK
<1>1. ASSUME UNCHANGED <<pc, sessions, remote, after>> PROVE ServedRegistered'
  BY <1>1
<1>2. ASSUME NEW c \in Conns, Upgrade(c) PROVE ServedRegistered'
  BY <1>2 DEF Upgrade, Goto
<1>3. ASSUME NEW c \in Conns, StoreSession(c) PROVE ServedRegistered'
  <2>1. \A d \in Conns : remote[d] \in Addrs
    BY RailsAssumption
  <2>2. CASE "map" \in made
    <3>1. /\ pc' = [pc EXCEPT ![c] = "reading"]
          /\ sessions' = [sessions EXCEPT ![remote[c]] = c]
          /\ after' = [after EXCEPT ![c] = "registered"]
          /\ remote' = remote
      BY <1>3, <2>2 DEF StoreSession, Goto
    <3> SUFFICES ASSUME NEW d \in Conns, pc'[d] = "reading", sessions'[remote[d]] # d
                 PROVE  \E e \in Conns \ {d} : remote[e] = remote[d] /\ after'[e] # "none"
      BY <3>1
    <3>2. d # c
      BY <3>1, <2>1
    <3>3. CASE remote[d] = remote[c]
      BY <3>1, <3>2, <3>3
    <3>4. CASE remote[d] # remote[c]
      <4>1. PICK e \in Conns \ {d} : remote[e] = remote[d] /\ after[e] # "none"
        BY <3>1, <3>2, <3>4, <2>1
      <4> QED
        BY <4>1, <3>1, <3>4
    <3> QED
      BY <3>3, <3>4
  <2>3. CASE "map" \notin made
    BY <1>3, <2>3 DEF StoreSession, Goto
  <2> QED
    BY <2>2, <2>3
<1>4. ASSUME NEW c \in Conns, Unregister(c) PROVE ServedRegistered'
  BY <1>4 DEF Unregister
<1>5. ASSUME NEW c \in Conns, ReadFails(c) PROVE ServedRegistered'
  BY <1>5 DEF ReadFails, Goto
<1>6. ASSUME NEW c \in Conns, BadProtocol(c) \/ ReadMessage(c)
      PROVE  UNCHANGED <<pc, sessions, remote, after>>
  BY <1>6 DEF BadProtocol, ReadMessage, handlerVars
<1>7. ASSUME NEW m \in Messages, Callback(m) \/ Login(m) \/ Hash(m) \/ Respond(m)
      PROVE  UNCHANGED <<pc, sessions, remote, after>>
  BY <1>7 DEF Callback, Login, Hash, Respond, Task
<1> QED
  BY <1>1, <1>2, <1>3, <1>4, <1>5, <1>6, <1>7, Steps
     DEF BroadcastStarts, BroadcastEnds, handlerVars, vars

\* The invariant of the WebSocket handler on the server.
LEMMA HandlerCorrect == Spec => []HandlerInv
<1>1. HandlerInv /\ [Next]_vars => HandlerInv'
  BY NextTypeOK, NextOneLogin, NextServedRegistered DEF HandlerInv
<1> QED
  BY <1>1, InitHandlerInv, PTL DEF Spec

\* Every variable of Server and RailsHandler keeps its type, and the lock of the
\* sessions is held for ever exactly when a ServeHTTP has panicked with it.
THEOREM RailsTypeCorrect == Spec => []TypeOK
<1>1. HandlerInv => TypeOK
  BY DEF HandlerInv
<1> QED
  BY <1>1, HandlerCorrect, PTL

\* One login at a time is under way for a session, however many messages its
\* client sends: the callback's TryLock (defaults.go) keeps the others out.
THEOREM OneLoginAtATime == Spec => []OneLogin
<1>1. HandlerInv => OneLogin
  BY DEF HandlerInv
<1> QED
  BY <1>1, HandlerCorrect, PTL

\* A connection that is being read (ServeHTTP) is registered for Broadcast, unless
\* another connection has used its address.
THEOREM ServedAreRegistered == Spec => []ServedRegistered
<1>1. HandlerInv => ServedRegistered
  BY DEF HandlerInv
<1> QED
  BY <1>1, HandlerCorrect, PTL
=============================================================================
