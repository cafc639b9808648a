------------------------------ MODULE RestUsers ------------------------------
(***************************************************************************)
(* The user and session handlers of lib/api/rest/rest.go, statement by      *)
(* statement, over the tables users, passwords and sessions.               *)
(*                                                                         *)
(* The id of a user is the call that created it, or its email if it was    *)
(* there at the start.  The hash of a password is one step, if it ends.    *)
(***************************************************************************)
EXTENDS Handlers

CONSTANTS Emails,      \* the emails the requests name
          SeedToken,   \* the token of a session that exists at the start
          HashReturns  \* does password.HashPassword return?  Its loops count
                       \* with a step that is never incremented: FALSE is the
                       \* code, TRUE the handlers behind a hash that ends

ASSUME RestUsersAssumption == /\ SeedToken \notin Calls
                              /\ Emails \cap (Calls \cup {SeedToken}) = {}
                              /\ Nothing \notin Emails \cup Calls \cup {SeedToken}
                              /\ Overlap \in BOOLEAN
                              /\ HashReturns \in BOOLEAN

\* CreateSession stores a token made of the time: one of its own per call.
Tokens == Calls \cup {SeedToken}

UpdateOps == {"ActivateUser", "PromoteUser", "DemoteUser"}
Requests ==
  [op : {"Login", "CreateUser"}, email : Emails, token : {Nothing}]
    \cup [op : {"Logout"}, email : {Nothing}, token : Tokens]
    \cup [op : UpdateOps \cup {"DeleteUser"}, email : Emails, token : Tokens]

Statements == {"GetUserPassword", "CreateSession", "ExpireSession", "CreateUser",
               "CreatePassword", "GetUserBySession", "DeleteUser", "GetUser",
               "UpdateUser"}

UserRow == [id : Calls \cup Emails, isAdmin : BOOLEAN, validated : BOOLEAN, deleted : BOOLEAN]
Users == DOMAIN db.users

\* A database in use: an administrator with a session has been put there, and
\* other users may have signed up, or been marked deleted, which no handler
\* does; nobody is a user without a password.
Init == /\ InitCalls
        /\ \E known, gone \in SUBSET Emails, root \in Emails :
             /\ root \in known \ gone
             /\ gone \subseteq known
             /\ db = [users |-> [e \in known |-> [id |-> e,
                                                  isAdmin |-> e = root,
                                                  validated |-> e = root,
                                                  deleted |-> e \in gone]],
                      passwords |-> known,
                      sessions |-> [t \in {SeedToken} |-> root],
                      expired |-> {}]
        /\ saved = db
-----------------------------------------------------------------------------
\* Mutation: an UPDATE that inserts.
MatchingAny(c) == {request[c].token}

\* The sessions WHERE token = the value of c's cookie.
Matching(c) == {request[c].token} \cap DOMAIN db.sessions

NewUser(c) == [id |-> c, isAdmin |-> FALSE, validated |-> FALSE, deleted |-> FALSE]

\* Mutation: the flags are not read back.
UpdatedRowForgets(c) ==
  [db.users[request[c].email] EXCEPT
     !.isAdmin = request[c].op = "PromoteUser",
     !.validated = request[c].op = "ActivateUser"]

\* The row UpdateUser writes: one flag set by the operation, the others as they
\* were when GetUser read them.
UpdatedRow(c) ==
  LET r == request[c] IN
  [row[c] EXCEPT !.id = db.users[r.email].id,
                 !.isAdmin = r.op = "PromoteUser" \/ (@ /\ r.op # "DemoteUser"),
                 !.validated = r.op = "ActivateUser" \/ @]

\* The tables after the statement c is at.
Effect(c) ==
  LET r == request[c] IN
  CASE pc[c] = "CreateSession" /\ r.email \in Users ->
         [db EXCEPT !.sessions = Insert(@, c, db.users[r.email].id)]
    [] pc[c] = "ExpireSession" -> [db EXCEPT !.expired = @ \cup Matching(c)]
    [] pc[c] = "CreateUser" /\ r.email \notin Users ->
         [db EXCEPT !.users = Insert(@, r.email, NewUser(c))]
    [] pc[c] = "CreatePassword" -> [db EXCEPT !.passwords = @ \cup {c}]
    [] pc[c] = "UpdateUser" /\ r.email \in Users ->
         [db EXCEPT !.users[r.email] = UpdatedRow(c)]
    [] OTHER -> db

\* The user of c's cookie, as a set: empty when there is no such session.
SessionUsers(c) ==
  {e \in Users : \E t \in Matching(c) : db.sessions[t] = db.users[e].id}
-----------------------------------------------------------------------------
(* The visitors' statements.                                               *)

\* A deleted user is answered like a success, without a token.
GetUserPassword(c) ==
  /\ Executes(c, "GetUserPassword")
  /\ IF request[c].email \in Users /\ db.users[request[c].email].id \in db.passwords
     THEN IF db.users[request[c].email].deleted
          THEN Answer(c, "OK") /\ status' = [status EXCEPT ![c] = "Error"]
          ELSE Continue(c, "hash")
     ELSE Fail(c)
  /\ UNCHANGED <<row, tx, db>>

\* HashPassword, of Login and of CreateUser.  What it returns depends on the
\* salt alone, so Login's comparison with the stored hash finds them equal.
HashPassword(c) ==
  /\ pc[c] = "hash"
  /\ HashReturns
  /\ Goto(c, IF request[c].op = "Login" THEN "CreateSession" ELSE "CreatePassword")
  /\ UNCHANGED <<request, row, status, answer, conn, tx, db, saved>>

CreateSession(c) ==
  /\ Executes(c, "CreateSession")
  /\ IF request[c].email \in Users
     THEN Succeed(c) /\ UNCHANGED tx
     ELSE Fail(c) /\ BreakTx
  /\ db' = Effect(c)
  /\ UNCHANGED row

ExpireSession(c) ==
  /\ Executes(c, "ExpireSession")
  /\ IF Matching(c) # {} THEN Succeed(c) ELSE Fail(c)
  /\ db' = Effect(c)
  /\ UNCHANGED <<row, tx>>

CreateUser(c) ==
  /\ Executes(c, "CreateUser")
  /\ IF request[c].email \notin Users
     THEN Continue(c, "hash") /\ UNCHANGED tx
     ELSE Fail(c) /\ BreakTx
  /\ db' = Effect(c)
  /\ UNCHANGED row

CreatePassword(c) ==
  /\ Executes(c, "CreatePassword")
  /\ Succeed(c)
  /\ db' = Effect(c)
  /\ UNCHANGED <<row, tx>>

\* Mutation: any session will do.
GetUserBySessionAnyUser(c) ==
  /\ Executes(c, "GetUserBySession")
  /\ IF SessionUsers(c) # {}
     THEN Continue(c, IF request[c].op = "DeleteUser" THEN "DeleteUser" ELSE "GetUser")
     ELSE Fail(c)
  /\ UNCHANGED <<row, tx, db>>

GetUserBySession(c) ==
  /\ Executes(c, "GetUserBySession")
  /\ IF \E e \in SessionUsers(c) :
          db.users[e].isAdmin /\ (request[c].op = "DeleteUser" => e = request[c].email)
     THEN Continue(c, IF request[c].op = "DeleteUser" THEN "DeleteUser" ELSE "GetUser")
     ELSE Fail(c)
  /\ UNCHANGED <<row, tx, db>>

\* DELETE ... WHERE email = the value of the cookie: no user has it for an
\* email, and no row is found.
DeleteUser(c) ==
  /\ Executes(c, "DeleteUser")
  /\ IF request[c].token \in Users THEN Succeed(c) ELSE Fail(c)
  /\ UNCHANGED <<row, tx, db>>

\* Mutation: the deleted flag is not looked at.
GetUserDeletedToo(c) ==
  /\ Executes(c, "GetUser")
  /\ IF request[c].email \in Users
     THEN /\ row' = [row EXCEPT ![c] = db.users[request[c].email]]
          /\ Continue(c, "UpdateUser")
     ELSE Fail(c) /\ UNCHANGED row
  /\ UNCHANGED <<tx, db>>

GetUser(c) ==
  /\ Executes(c, "GetUser")
  /\ IF request[c].email \in Users /\ ~db.users[request[c].email].deleted
     THEN /\ row' = [row EXCEPT ![c] = db.users[request[c].email]]
          /\ Continue(c, "UpdateUser")
     ELSE Fail(c) /\ UNCHANGED row
  /\ UNCHANGED <<tx, db>>

UpdateUser(c) ==
  /\ Executes(c, "UpdateUser")
  /\ IF request[c].email \in Users THEN Succeed(c) ELSE Fail(c)
  /\ db' = Effect(c)
  /\ UNCHANGED <<row, tx>>
-----------------------------------------------------------------------------
Progress(c) ==
  \/ GetUserPassword(c) \/ HashPassword(c) \/ CreateSession(c) \/ ExpireSession(c)
  \/ CreateUser(c) \/ CreatePassword(c) \/ GetUserBySession(c) \/ DeleteUser(c)
  \/ GetUser(c) \/ UpdateUser(c)
  \/ Visits(c)

\* No request is left to run, or those left wait for a hash that never ends.
Idle == /\ \A c \in Calls : \/ pc[c] = "answered"
                            \/ ~HashReturns /\ pc[c] \in {"idle", "hash"}
        /\ UNCHANGED vars

Next == \/ \E c \in Calls : Arrive(c, Requests) \/ Progress(c) \/ Lost(c, Effect(c))
        \/ Idle

Spec == Init /\ [][Next]_vars

\* Goroutines are scheduled and the server replies; clients owe nothing.
FairSpec == Spec /\ \A c \in Calls : WF_vars(Progress(c))
-----------------------------------------------------------------------------
TypeOK ==
  /\ request \in [Calls -> Requests \cup {Nothing}]
  /\ pc \in [Calls -> Statements \cup {"idle", "begin", "hash", "commit",
                                       "rollback", "answered"}]
  /\ row \in [Calls -> UserRow \cup {Nothing}]
  /\ status \in [Calls -> {"OK", "Error"}]
  /\ answer \in [Calls -> {"OK", "Error", Nothing}]
  /\ conn \in {"open", "closed"}
  /\ tx \in {"idle", "open", "failed"}
  /\ \A t \in {db, saved} :
       /\ DOMAIN t.users \subseteq Emails
       /\ \A e \in DOMAIN t.users : t.users[e] \in UserRow
       /\ t.passwords \subseteq Calls \cup Emails
       /\ DOMAIN t.sessions \subseteq Tokens
       /\ \A k \in DOMAIN t.sessions : t.sessions[k] \in Calls \cup Emails
       /\ t.expired \subseteq DOMAIN t.sessions
-----------------------------------------------------------------------------
(* With Overlap = FALSE: one request at a time.                            *)

\* Nobody is signed up without a password, with which nobody could log in or
\* sign up again: CreateUser's two rows are committed together.
UsersHavePasswords ==
  \A e \in DOMAIN Committed.users : Committed.users[e].id \in Committed.passwords

\* An administrator stays one unless a DemoteUser of theirs is executed: the
\* other operations write back the flag they read, and it is still the same.
Admins == {e \in Users : db.users[e].isAdmin}
OnlyDemoteDemotes ==
  [][\A e \in Admins \ Admins' :
       \E c \in Calls : pc[c] = "UpdateUser" /\ request[c].op = "DemoteUser"
                        /\ request[c].email = e]_vars

\* A user who has been activated stays so: nothing takes it back.
ValidatedStays ==
  [][\A e \in Users : db.users[e].validated => e \in Users' /\ db'.users[e].validated]_vars

\* Whoever changes another's flags is an administrator at that moment, and not
\* only when the session was looked up two statements before.
ChangedByAdmin ==
  [][\A e \in Users \cap Users' : db.users[e] # db'.users[e] =>
       \E c \in Calls : /\ pc[c] = "UpdateUser"
                        /\ SessionUsers(c) \cap Admins # {}]_vars

\* A user marked deleted is left as it is: no flag changes, and no session is
\* made for it.
SessionsOf(e) == {t \in DOMAIN db.sessions : db.sessions[t] = db.users[e].id}
DeletedLeftAlone ==
  [][\A e \in Users : db.users[e].deleted =>
       e \in Users' /\ db'.users[e] = db.users[e] /\ SessionsOf(e)' = SessionsOf(e)]_vars

\* Every request is answered.
Answered == \A c \in Calls : Running(c) ~> pc[c] = "answered"
-----------------------------------------------------------------------------
\* A login is answered.
LoginAnswered == \A c \in Calls :
  Running(c) /\ request[c].op = "Login" ~> pc[c] = "answered"

\* ActivateUser activates the user, and changes nobody's administrator flag.
ActivateOnlyActivates ==
  [][\A c \in Calls :
       pc[c] = "UpdateUser" /\ request[c].op = "ActivateUser" /\ pc'[c] = "answered"
         => Admins' = Admins]_vars
=============================================================================
