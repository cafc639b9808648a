-------------------------------- MODULE Server --------------------------------
(***************************************************************************)
(* lib/api/server.go: the HTTP server, its listener, and the two AfterFuncs *)
(* of the process's context that end them, in no order.                    *)
(*                                                                         *)
(* Handlers of both kinds are registered on it: those of REST, which answer *)
(* or hash a password without end, and that of WebSockets, which takes the  *)
(* connection over.  Shutdown waits for a connection from the first byte of *)
(* a request until it is answered, or taken over (hijacked).               *)
(***************************************************************************)
CONSTANTS Conns,     \* connections of clients
          Nothing    \* none

VARIABLES ctx,       \* the process's context: live, done
          listener,  \* none, open, closed
          serve,     \* ListenAndServe: none, listening, serving, returned
          shutdown,  \* the AfterFunc of NewServer: waiting, draining, done
          net        \* per connection: none, arriving (a request is), active (a
                     \* WebSocket's request), rest (one of REST), spinning, idle,
                     \* hijacked, closed

serverVars == <<ctx, listener, serve, shutdown, net>>

ServerInit == /\ ctx = "live"
              /\ listener = "none"
              /\ serve = "none"
              /\ shutdown = "waiting"
              /\ net = [c \in Conns |-> "none"]

Interrupt == /\ ctx = "live"
             /\ ctx' = "done"
             /\ UNCHANGED <<listener, serve, shutdown, net>>

Listen == /\ serve = "none"
          /\ serve' = "listening"
          /\ listener' = "open"
          /\ UNCHANGED <<ctx, shutdown, net>>

\* A server that has been shut down does not serve, and closes the listener.
Serve == /\ serve = "listening"
         /\ IF shutdown = "waiting"
            THEN serve' = "serving" /\ UNCHANGED listener
            ELSE serve' = "returned" /\ listener' = "closed"
         /\ UNCHANGED <<ctx, shutdown, net>>

Accept(c) == /\ serve = "serving"
             /\ listener = "open"
             /\ net[c] = "none"
             /\ net' = [net EXCEPT ![c] = "arriving"]
             /\ UNCHANGED <<ctx, listener, serve, shutdown>>

\* The client has sent all of its request, or goes.
Received(c) == /\ net[c] = "arriving"
               /\ \E to \in {"active", "rest", "closed"} : net' = [net EXCEPT ![c] = to]
               /\ UNCHANGED <<ctx, listener, serve, shutdown>>

\* A REST handler answers, and the connection is kept.
RestAnswers(c) == /\ net[c] = "rest"
                  /\ net' = [net EXCEPT ![c] = "idle"]
                  /\ UNCHANGED <<ctx, listener, serve, shutdown>>

\* One that hashes a password never answers.
RestSpins(c) == /\ net[c] = "rest"
                /\ net' = [net EXCEPT ![c] = "spinning"]
                /\ UNCHANGED <<ctx, listener, serve, shutdown>>

\* Another request on a connection that was kept; none once Shutdown has been called.
NextRequest(c) == /\ net[c] = "idle"
                  /\ shutdown = "waiting"
                  /\ net' = [net EXCEPT ![c] = "arriving"]
                  /\ UNCHANGED <<ctx, listener, serve, shutdown>>

ServeReturns == /\ serve = "serving"
                /\ listener = "closed"
                /\ serve' = "returned"
                /\ UNCHANGED <<ctx, listener, shutdown, net>>

\* The AfterFunc of ListenAndServe.
CloseListener == /\ ctx = "done"
                 /\ listener = "open"
                 /\ listener' = "closed"
                 /\ UNCHANGED <<ctx, serve, shutdown, net>>

\* The AfterFunc of NewServer: Shutdown closes the listener that is being served, waits
\* for Serve and for every connection with a request, without a limit, and closes
\* those without one.
ShutdownBegins == /\ ctx = "done"
                  /\ shutdown = "waiting"
                  /\ shutdown' = "draining"
                  /\ listener' = IF serve = "serving" THEN "closed" ELSE listener
                  /\ UNCHANGED <<ctx, serve, net>>

ShutdownEnds == /\ shutdown = "draining"
                /\ serve # "serving"
                /\ \A c \in Conns : net[c] \notin {"arriving", "active", "rest", "spinning"}
                /\ shutdown' = "done"
                /\ net' = [c \in Conns |-> IF net[c] = "idle" THEN "closed" ELSE net[c]]
                /\ UNCHANGED <<ctx, listener, serve>>

ServerNext == \/ Listen \/ Serve \/ ServeReturns \/ CloseListener
              \/ ShutdownBegins \/ ShutdownEnds
ServerConn(c) == \/ Accept(c) \/ Received(c) \/ NextRequest(c)
                 \/ RestAnswers(c) \/ RestSpins(c)
=============================================================================
