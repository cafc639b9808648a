----------------------------- MODULE RailsHandler -----------------------------
(***************************************************************************)
(* The WebSocket handler of lib/api/rails (handler.go, defaults.go) on the  *)
(* server of Server: the map of sessions and its lock, the goroutines of   *)
(* the callback of RegisterDefaultHandlers, and Broadcast.                 *)
(*                                                                         *)
(* Three things the code does not do are what keeps it from being used: it  *)
(* does not make the map of the sessions, nor the lock of a session's      *)
(* state, nor count the rounds of the hash.  Each is a flag, and the model *)
(* is of the code as it is when no flag is set, and with them made one     *)
(* after the other, of what is waiting behind.                             *)
(***************************************************************************)
EXTENDS Server, Naturals

CONSTANTS Addrs,     \* remote addresses
          Remotes,   \* the connections' addresses: one may be used again
          Messages,  \* bound: the messages that are read, whoever sends them
          Builds     \* the sets of flags: {} is the code as it is

ASSUME RailsAssumption == /\ Builds \subseteq SUBSET {"map", "lock", "hash"}
                          /\ Remotes \subseteq [Conns -> Addrs]
                          /\ Messages \subseteq Nat
                          /\ Nothing \notin Conns

VARIABLES made,         \* the flags
          remote,       \* per connection: its remote address
          pc,           \* per connection, ServeHTTP: none, locking, reading, over, panicked
          after,        \* per connection, its AfterFunc: none, registered, done
          sessions,     \* per address: a connection, or Nothing
          sessionsLock, \* free, held for ever
          stateLock,    \* per connection: the lock of its SessionState is taken
          task,         \* per message, its callback: of whom; none, started, login,
                        \* hash, responding, done
          broadcast,    \* none, locking, done
          crashed       \* a panic that nobody recovers has ended the process

handlerVars == <<made, remote, pc, after, sessions, sessionsLock, stateLock, task,
                 broadcast, crashed>>
vars == <<serverVars, handlerVars>>

Init == /\ ServerInit
        /\ made \in Builds
        /\ remote \in Remotes
        /\ pc = [c \in Conns |-> "none"]
        /\ after = [c \in Conns |-> "none"]
        /\ sessions = [a \in Addrs |-> Nothing]
        /\ sessionsLock = "free"
        /\ stateLock = [c \in Conns |-> FALSE]
        /\ task = [m \in Messages |-> [of |-> Nothing, at |-> "none"]]
        /\ broadcast = "none"
        /\ crashed = FALSE
-----------------------------------------------------------------------------
(* ServeHTTP.                                                              *)

Goto(c, s) == pc' = [pc EXCEPT ![c] = s]

\* Mutation: the sessions are locked before the connection is taken over.
UpgradeLate(c) == /\ net[c] = "active"
                  /\ pc[c] = "none"
                  /\ sessionsLock = "free"
                  /\ net' = [net EXCEPT ![c] = "hijacked"]
                  /\ Goto(c, "locking")
                  /\ UNCHANGED <<ctx, listener, serve, shutdown, made, remote, after, sessions,
                                 sessionsLock, stateLock, task, broadcast, crashed>>

\* From here on the connection is not one that Shutdown waits for.
Upgrade(c) == /\ net[c] = "active"
              /\ pc[c] = "none"
              /\ net' = [net EXCEPT ![c] = "hijacked"]
              /\ Goto(c, "locking")
              /\ UNCHANGED <<ctx, listener, serve, shutdown, made, remote, after, sessions,
                             sessionsLock, stateLock, task, broadcast, crashed>>

\* A request that is not a WebSocket's.  Nobody closes the connection: net/http goes on
\* with it, unless UpgradeHTTP had taken it over before it looked at the request.
BadProtocol(c) == /\ net[c] = "active"
                  /\ pc[c] = "none"
                  /\ \E to \in {"idle", "hijacked"} : net' = [net EXCEPT ![c] = to]
                  /\ UNCHANGED <<ctx, listener, serve, shutdown, handlerVars>>

\* Mutation: the lock is not released.
StoreSessionNoUnlock(c) ==
  /\ pc[c] = "locking"
  /\ sessionsLock = "free"
  /\ sessionsLock' = "held"
  /\ Goto(c, "reading")
  /\ sessions' = [sessions EXCEPT ![remote[c]] = c]
  /\ after' = [after EXCEPT ![c] = "registered"]
  /\ UNCHANGED <<serverVars, made, remote, stateLock, task, broadcast, crashed>>

\* Lock, store, Unlock.  A write to a map that was not made panics between them,
\* and net/http recovers it.
StoreSession(c) ==
  /\ pc[c] = "locking"
  /\ sessionsLock = "free"
  /\ IF "map" \in made
     THEN /\ Goto(c, "reading")
          /\ sessions' = [sessions EXCEPT ![remote[c]] = c]
          /\ after' = [after EXCEPT ![c] = "registered"]
          /\ UNCHANGED sessionsLock
     ELSE /\ Goto(c, "panicked")
          /\ sessionsLock' = "held"
          /\ UNCHANGED <<sessions, after>>
  /\ UNCHANGED <<serverVars, made, remote, stateLock, task, broadcast, crashed>>

\* Each message starts the callback in a goroutine of its own.
ReadMessage(c) ==
  /\ pc[c] = "reading"
  /\ \E m \in Messages :
       /\ task[m].at = "none"
       /\ \A k \in Messages : k < m => task[k].at # "none"
       /\ task' = [task EXCEPT ![m] = [of |-> c, at |-> "started"]]
  /\ UNCHANGED <<serverVars, made, remote, pc, after, sessions, sessionsLock, stateLock,
                 broadcast, crashed>>

\* The connection ends, ServeHTTP returns and cancels its context.
ReadFails(c) ==
  /\ pc[c] = "reading"
  /\ Goto(c, "over")
  /\ UNCHANGED <<serverVars, made, remote, after, sessions, sessionsLock, stateLock, task,
                 broadcast, crashed>>

\* Mutation: all sessions are forgotten.
UnregisterAll(c) ==
  /\ after[c] = "registered"
  /\ pc[c] = "over"
  /\ sessionsLock = "free"
  /\ sessions' = [a \in Addrs |-> Nothing]
  /\ after' = [after EXCEPT ![c] = "done"]
  /\ UNCHANGED <<serverVars, made, remote, pc, sessionsLock, stateLock, task, broadcast, crashed>>

\* Mutation: the AfterFunc is one of the process's context.
UnregisterAtExit(c) ==
  /\ after[c] = "registered"
  /\ ctx = "done"
  /\ sessionsLock = "free"
  /\ sessions' = [sessions EXCEPT ![remote[c]] = Nothing]
  /\ after' = [after EXCEPT ![c] = "done"]
  /\ UNCHANGED <<serverVars, made, remote, pc, sessionsLock, stateLock, task, broadcast, crashed>>

\* The AfterFunc removes what is stored at its address, whosever it is by now.
Unregister(c) ==
  /\ after[c] = "registered"
  /\ pc[c] = "over"
  /\ sessionsLock = "free"
  /\ sessions' = [sessions EXCEPT ![remote[c]] = Nothing]
  /\ after' = [after EXCEPT ![c] = "done"]
  /\ UNCHANGED <<serverVars, made, remote, pc, sessionsLock, stateLock, task, broadcast, crashed>>
-----------------------------------------------------------------------------
(* The callback.                                                           *)

Task(m, from, to) == /\ task[m].at = from
                     /\ task' = [task EXCEPT ![m].at = to]
                     /\ UNCHANGED <<serverVars, made, remote, pc, after, sessions,
                                    sessionsLock, broadcast>>

\* Mutation: the lock is asked for and not looked at.
CallbackUnlocked(m) ==
  /\ Task(m, "started", "login")
  /\ stateLock' = [stateLock EXCEPT ![task[m].of] = TRUE]
  /\ crashed' = ("lock" \notin made)

\* TryLock; what is taken here is never released.  A lock that was not made ends
\* the process.  A message that is no login leaves the lock behind, too.
Callback(m) ==
  /\ task[m].at = "started"
  /\ IF "lock" \notin made THEN Task(m, "started", "done")
     ELSE IF stateLock[task[m].of] THEN Task(m, "started", "responding")
     ELSE Task(m, "started", "login") \/ Task(m, "started", "done")
  /\ crashed' = ("lock" \notin made)
  /\ stateLock' = [stateLock EXCEPT ![task[m].of] = ("lock" \in made)]

\* The user's password is looked up: an error is answered.
Login(m) == /\ Task(m, "login", "hash") \/ Task(m, "login", "responding")
            /\ UNCHANGED <<stateLock, crashed>>

\* A password that is wrong is answered; one that is right is not.
Hash(m) == /\ "hash" \in made
           /\ Task(m, "hash", "responding") \/ Task(m, "hash", "done")
           /\ UNCHANGED <<stateLock, crashed>>

\* The response is written, or the connection has gone and that is logged.
Respond(m) == /\ Task(m, "responding", "done")
              /\ UNCHANGED <<stateLock, crashed>>

Call(m) == Callback(m) \/ Login(m) \/ Hash(m) \/ Respond(m)
-----------------------------------------------------------------------------
BroadcastStarts == /\ broadcast = "none"
                   /\ broadcast' = "locking"
                   /\ UNCHANGED <<serverVars, made, remote, pc, after, sessions, sessionsLock,
                                  stateLock, task, crashed>>

\* RLock, a goroutine for every session, RUnlock.
BroadcastEnds == /\ broadcast = "locking"
                 /\ sessionsLock = "free"
                 /\ broadcast' = "done"
                 /\ UNCHANGED <<serverVars, made, remote, pc, after, sessions, sessionsLock,
                                stateLock, task, crashed>>

Serving(c) == Upgrade(c) \/ StoreSession(c) \/ Unregister(c)
Client(c) == BadProtocol(c) \/ ReadMessage(c) \/ ReadFails(c)

Next == \/ /\ ~crashed
           /\ \/ ServerNext /\ UNCHANGED handlerVars
              \/ \E c \in Conns : ServerConn(c) /\ UNCHANGED handlerVars
              \/ Interrupt /\ UNCHANGED handlerVars
              \/ \E c \in Conns : Serving(c) \/ Client(c)
              \/ \E m \in Messages : Call(m)
              \/ BroadcastStarts \/ BroadcastEnds
        \/ (crashed \/ serve = "returned") /\ UNCHANGED vars

Spec == Init /\ [][Next]_vars

\* Goroutines are scheduled; clients and the operator owe nothing.  A REST handler
\* answers, unless it spins.
FairSpec == /\ Spec
            /\ WF_vars(~crashed /\ ServerNext /\ UNCHANGED handlerVars)
            /\ \A c \in Conns : /\ WF_vars(~crashed /\ RestAnswers(c) /\ UNCHANGED handlerVars)
                                /\ WF_vars(~crashed /\ Upgrade(c))
                                /\ WF_vars(~crashed /\ StoreSession(c))
                                /\ WF_vars(~crashed /\ Unregister(c))
-----------------------------------------------------------------------------
TaskRow == [of : Conns, at : {"started", "login", "hash", "responding", "done"}]
             \cup {[of |-> Nothing, at |-> "none"]}

TypeOK ==
  /\ made \in Builds /\ remote \in Remotes
  /\ ctx \in {"live", "done"}
  /\ listener \in {"none", "open", "closed"}
  /\ serve \in {"none", "listening", "serving", "returned"}
  /\ shutdown \in {"waiting", "draining", "done"}
  /\ net \in [Conns -> {"none", "arriving", "active", "rest", "spinning", "idle",
                         "hijacked", "closed"}]
  /\ pc \in [Conns -> {"none", "locking", "reading", "over", "panicked"}]
  /\ after \in [Conns -> {"none", "registered", "done"}]
  /\ sessions \in [Addrs -> Conns \cup {Nothing}]
  /\ sessionsLock \in {"free", "held"}
  /\ stateLock \in [Conns -> BOOLEAN]
  /\ task \in [Messages -> TaskRow]
  /\ broadcast \in {"none", "locking", "done"}
  /\ crashed \in BOOLEAN
  \* Only the panic leaves the lock behind, and whoever has it is known.
  /\ sessionsLock = "held" <=> \E c \in Conns : pc[c] = "panicked"

\* A connection that is being read is among the sessions, unless its address has
\* been used by another: a Broadcast reaches it.  (An AfterFunc that is late removes
\* the session of the connection that came after it.)
ServedRegistered ==
  \A c \in Conns : pc[c] = "reading" /\ sessions[remote[c]] # c =>
    \E d \in Conns \ {c} : remote[d] = remote[c] /\ after[d] # "none"

\* A session has one login at most under way, whatever is read meanwhile.
LoggingIn(m) == task[m].at \in {"login", "hash"}
OneLogin ==
  \A m, k \in Messages :
    LoggingIn(m) /\ LoggingIn(k) /\ task[m].of = task[k].of => m = k

\* A connection that is over does not stay among the sessions.
DeadSessionsGo == \A c \in Conns : pc[c] = "over" ~> crashed \/ sessions[remote[c]] # c

\* The shutdown ends, unless a client stops in the middle of a request for ever, or a
\* REST handler spins in the hash of a password: neither WebSockets that go on keep it,
\* nor those that wait for ever for a lock that a panic has left behind.
Stuck == \E c \in Conns : <>[](net[c] \in {"arriving", "spinning"})
ShutdownReturns == Stuck \/ (ctx = "done" ~> crashed \/ shutdown = "done")
=============================================================================
