---------------------------- MODULE RestUsersProofs ----------------------------
(***************************************************************************)
(* Theorems about RestUsers, for every number of requests, users and        *)
(* sessions, and whether the hash of a password ends or not.               *)
(***************************************************************************)
EXTENDS RestUsers, HandlersProofs

Tables == {"users", "passwords", "sessions", "expired"}

\* The operation whose visitor has the statement c is at.
OpAt(c) ==
  /\ pc[c] # "idle" => request[c] \in Requests
  /\ pc[c] \in {"GetUserPassword", "CreateSession"} => request[c].op = "Login"
  /\ pc[c] = "ExpireSession" => request[c].op = "Logout"
  /\ pc[c] \in {"CreateUser", "CreatePassword"} => request[c].op = "CreateUser"
  /\ pc[c] = "hash" => request[c].op \in {"Login", "CreateUser"}
  /\ pc[c] = "GetUserBySession" => request[c].op \in UpdateOps \cup {"DeleteUser"}
  /\ pc[c] = "DeleteUser" => request[c].op = "DeleteUser"
  /\ pc[c] \in {"GetUser", "UpdateUser"} => request[c].op \in UpdateOps
  /\ pc[c] \in TxSteps => request[c].op \in TxOps
  /\ pc[c] = "UpdateUser" => row[c] \in UserRow

UserTables(t) ==
  /\ DOMAIN t = Tables
  /\ DOMAIN t.users \subseteq Emails
  /\ \A e \in DOMAIN t.users : t.users[e] \in UserRow
  /\ t.passwords \subseteq Calls \cup Emails
  /\ DOMAIN t.sessions \subseteq Tokens
  /\ \A k \in DOMAIN t.sessions : t.sessions[k] \in Calls \cup Emails
  /\ t.expired \subseteq DOMAIN t.sessions

CallTypes ==
  /\ request \in [Calls -> Requests \cup {Nothing}]
  /\ pc \in [Calls -> Statements \cup {"idle", "begin", "hash", "commit",
                                       "rollback", "answered"}]
  /\ row \in [Calls -> UserRow \cup {Nothing}]
  /\ status \in [Calls -> {"OK", "Error"}]
  /\ answer \in [Calls -> {"OK", "Error", Nothing}]
  /\ conn \in {"open", "closed"}
  /\ tx \in {"idle", "open", "failed"}
  /\ \A c \in Calls : OpAt(c)

TypeInv == CallTypes /\ UserTables(db) /\ UserTables(saved)

\* The next-state relation, one action per disjunct.
LEMMA Steps ==
  ASSUME [Next]_vars
  PROVE  \/ \E c \in Calls :
              \/ Arrive(c, Requests) \/ Visits(c) \/ Lost(c, Effect(c))
              \/ GetUserPassword(c) \/ HashPassword(c) \/ CreateSession(c)
              \/ ExpireSession(c) \/ CreateUser(c) \/ CreatePassword(c)
              \/ GetUserBySession(c) \/ DeleteUser(c) \/ GetUser(c) \/ UpdateUser(c)
         \/ UNCHANGED vars
BY DEF Next, Progress, Idle

\* What a request may ask for.
LEMMA RequestOps ==
  ASSUME NEW r \in Requests
  PROVE  /\ r.op \in {"Login", "CreateUser", "Logout", "DeleteUser"} \cup UpdateOps
         /\ r.op \in {"Login", "CreateUser", "DeleteUser"} \cup UpdateOps => r.email \in Emails
         /\ r.op \in {"Logout", "DeleteUser"} \cup UpdateOps => r.token \in Tokens
BY RestUsersAssumption DEF Requests, UpdateOps

\* The row UpdateUser writes, field by field.
LEMMA UpdatedRows ==
  ASSUME NEW c, row[c] \in UserRow, NEW u \in UserRow, db.users[request[c].email] = u
  PROVE  /\ UpdatedRow(c) \in UserRow
         /\ UpdatedRow(c).id = u.id
         /\ UpdatedRow(c).deleted = row[c].deleted
         /\ UpdatedRow(c).isAdmin <=> \/ request[c].op = "PromoteUser"
                                      \/ row[c].isAdmin /\ request[c].op # "DemoteUser"
         /\ UpdatedRow(c).validated <=> request[c].op = "ActivateUser" \/ row[c].validated
<1> DEFINE admin == request[c].op = "PromoteUser" \/ (row[c].isAdmin /\ request[c].op # "DemoteUser")
           valid == request[c].op = "ActivateUser" \/ row[c].validated
           new == [id |-> u.id, isAdmin |-> admin, validated |-> valid,
                   deleted |-> row[c].deleted]
<1>1. UpdatedRow(c) = new
  <2>1. UpdatedRow(c) = [row[c] EXCEPT !.id = u.id, !.isAdmin = admin, !.validated = valid]
    BY Zenon DEF UpdatedRow
  <2> HIDE DEF admin, valid
  <2> QED
    BY <2>1 DEF UserRow
<1>2. admin \in BOOLEAN /\ valid \in BOOLEAN
  OBVIOUS
<1>3. new \in UserRow
  <2> HIDE DEF admin, valid
  <2> QED
    BY <1>2 DEF UserRow
<1>4. new.id = u.id /\ new.deleted = row[c].deleted /\ new.isAdmin = admin /\ new.validated = valid
  <2> HIDE DEF admin, valid
  <2> QED
    OBVIOUS
<1>5. /\ UpdatedRow(c).id = u.id
      /\ UpdatedRow(c).deleted = row[c].deleted
      /\ UpdatedRow(c).isAdmin = admin
      /\ UpdatedRow(c).validated = valid
  <2> HIDE DEF admin, valid, new
  <2> QED
    BY <1>1, <1>4
<1>6. UpdatedRow(c) \in UserRow
  <2> HIDE DEF new
  <2> QED
    BY <1>1, <1>3
<1> QED
  BY <1>5, <1>6, Zenon

\* The tables after a statement, table by table.
LEMMA Effects ==
  ASSUME NEW c \in Calls, DOMAIN db = Tables
  PROVE  /\ DOMAIN Effect(c) = Tables
         /\ Effect(c).users =
              IF pc[c] = "CreateUser" /\ request[c].email \notin Users
              THEN Insert(db.users, request[c].email, NewUser(c))
              ELSE IF pc[c] = "UpdateUser" /\ request[c].email \in Users
                   THEN [db.users EXCEPT ![request[c].email] = UpdatedRow(c)]
                   ELSE db.users
         /\ Effect(c).passwords = IF pc[c] = "CreatePassword" THEN db.passwords \cup {c}
                                  ELSE db.passwords
         /\ Effect(c).sessions =
              IF pc[c] = "CreateSession" /\ request[c].email \in Users
              THEN Insert(db.sessions, c, db.users[request[c].email].id)
              ELSE db.sessions
         /\ Effect(c).expired = IF pc[c] = "ExpireSession" THEN db.expired \cup Matching(c)
                                ELSE db.expired
<1> DEFINE mail == request[c].email
<1>1. CASE pc[c] = "CreateSession" /\ mail \in Users
  <2>1. Effect(c) = [db EXCEPT !.sessions = Insert(@, c, db.users[mail].id)]
    BY <1>1 DEF Effect
  <2> QED
    BY <1>1, <2>1 DEF Tables
<1>2. CASE pc[c] = "ExpireSession"
  <2>1. Effect(c) = [db EXCEPT !.expired = @ \cup Matching(c)]
    BY <1>2 DEF Effect
  <2> QED
    BY <1>2, <2>1 DEF Tables
<1>3. CASE pc[c] = "CreateUser" /\ mail \notin Users
  <2>1. Effect(c) = [db EXCEPT !.users = Insert(@, mail, NewUser(c))]
    BY <1>3 DEF Effect
  <2> QED
    BY <1>3, <2>1 DEF Tables
<1>4. CASE pc[c] = "CreatePassword"
  <2>1. Effect(c) = [db EXCEPT !.passwords = @ \cup {c}]
    BY <1>4 DEF Effect
  <2> QED
    BY <1>4, <2>1 DEF Tables
<1>5. CASE pc[c] = "UpdateUser" /\ mail \in Users
  <2>1. Effect(c) = [db EXCEPT !.users[mail] = UpdatedRow(c)]
    BY <1>5 DEF Effect
  <2>2. Effect(c) = [db EXCEPT !.users = [db.users EXCEPT ![mail] = UpdatedRow(c)]]
    BY <2>1
  <2> QED
    BY <1>5, <2>2 DEF Tables
<1>6. CASE /\ ~(pc[c] = "CreateSession" /\ mail \in Users)
           /\ pc[c] # "ExpireSession"
           /\ ~(pc[c] = "CreateUser" /\ mail \notin Users)
           /\ pc[c] # "CreatePassword"
           /\ ~(pc[c] = "UpdateUser" /\ mail \in Users)
  <2>1. Effect(c) = db
    BY <1>6 DEF Effect
  <2> QED
    BY <1>6, <2>1
<1> QED
  BY <1>1, <1>2, <1>3, <1>4, <1>5, <1>6

\* No statement leaves a table that is not one.
LEMMA EffectTypes ==
  ASSUME TypeInv, NEW c \in Calls
  PROVE  UserTables(Effect(c))
<1> DEFINE mail == request[c].email
           t == Effect(c)
<1>0. OpAt(c) /\ UserTables(db) /\ DOMAIN db = Tables
  BY DEF TypeInv, CallTypes, UserTables
<1>1. DOMAIN t = Tables
  BY <1>0, Effects
<1>2. DOMAIN t.users \subseteq Emails /\ \A e \in DOMAIN t.users : t.users[e] \in UserRow
  <2>1. CASE pc[c] = "CreateUser" /\ mail \notin Users
    <3>1. t.users = Insert(db.users, mail, NewUser(c))
      BY <1>0, <2>1, Effects
    <3>2. mail \in Emails
      BY <1>0, <2>1, RequestOps DEF OpAt
    <3>3. NewUser(c) \in UserRow
      BY DEF NewUser, UserRow
    <3> QED
      BY <1>0, <3>1, <3>2, <3>3 DEF Insert, UserTables
  <2>2. CASE pc[c] = "UpdateUser" /\ mail \in Users
    <3>1. t.users = [db.users EXCEPT ![mail] = UpdatedRow(c)]
      BY <1>0, <2>2, Effects
    <3>2. UpdatedRow(c) \in UserRow
      BY <1>0, <2>2, UpdatedRows DEF OpAt, UserTables, Users
    <3> QED
      BY <1>0, <3>1, <3>2 DEF UserTables
  <2>3. CASE ~(pc[c] = "CreateUser" /\ mail \notin Users) /\ ~(pc[c] = "UpdateUser" /\ mail \in Users)
    <3>1. t.users = db.users
      BY <1>0, <2>3, Effects
    <3> QED
      BY <1>0, <3>1 DEF UserTables
  <2> QED
    BY <2>1, <2>2, <2>3
<1>3. t.passwords \subseteq Calls \cup Emails
  BY <1>0, Effects DEF UserTables
<1>4. /\ DOMAIN t.sessions \subseteq Tokens
      /\ \A k \in DOMAIN t.sessions : t.sessions[k] \in Calls \cup Emails
      /\ DOMAIN db.sessions \subseteq DOMAIN t.sessions
  <2>1. CASE pc[c] = "CreateSession" /\ mail \in Users
    <3>1. t.sessions = Insert(db.sessions, c, db.users[mail].id)
      BY <1>0, <2>1, Effects
    <3>2. db.users[mail].id \in Calls \cup Emails
      BY <1>0, <2>1 DEF UserTables, Users, UserRow
    <3> QED
      BY <1>0, <3>1, <3>2 DEF Insert, UserTables, Tokens
  <2>2. CASE ~(pc[c] = "CreateSession" /\ mail \in Users)
    <3>1. t.sessions = db.sessions
      BY <1>0, <2>2, Effects
    <3> QED
      BY <1>0, <3>1 DEF UserTables
  <2> QED
    BY <2>1, <2>2
<1>5. t.expired \subseteq DOMAIN t.sessions
  <2>1. t.expired \subseteq db.expired \cup Matching(c)
    BY <1>0, Effects
  <2> QED
    BY <1>0, <1>4, <2>1 DEF UserTables, Matching
<1> QED
  BY <1>1, <1>2, <1>3, <1>4, <1>5 DEF UserTables
-----------------------------------------------------------------------------
(* Types, also when requests overlap.                                      *)

\* Before any request has come in.
LEMMA InitTypes == Init => TypeInv
<1> SUFFICES ASSUME Init PROVE TypeInv
  OBVIOUS
<1>1. CallTypes
  BY DEF Init, InitCalls, CallTypes, OpAt, TxSteps
<1>2. PICK known \in SUBSET Emails, gone \in SUBSET Emails, root \in Emails :
        /\ root \in known \ gone
        /\ db = [users |-> [e \in known |-> [id |-> e,
                                             isAdmin |-> e = root,
                                             validated |-> e = root,
                                             deleted |-> e \in gone]],
                 passwords |-> known,
                 sessions |-> [t \in {SeedToken} |-> root],
                 expired |-> {}]
  BY DEF Init
<1>3. \A e \in known : db.users[e] \in UserRow
  <2> SUFFICES ASSUME NEW e \in known PROVE db.users[e] \in UserRow
    OBVIOUS
  <2>1. db.users[e] = [id |-> e, isAdmin |-> e = root, validated |-> e = root,
                       deleted |-> e \in gone]
    BY <1>2, Zenon
  <2>2. \A a, b \in BOOLEAN : [id |-> e, isAdmin |-> a, validated |-> a, deleted |-> b] \in UserRow
    BY DEF UserRow
  <2>3. (e = root) \in BOOLEAN /\ (e \in gone) \in BOOLEAN
    OBVIOUS
  <2> QED
    BY <2>1, <2>2, <2>3, Zenon
<1>4. /\ DOMAIN db = Tables
      /\ DOMAIN db.users = known
      /\ db.passwords = known
      /\ DOMAIN db.sessions = {SeedToken}
      /\ \A t \in DOMAIN db.sessions : db.sessions[t] \in Emails
      /\ db.expired = {}
  BY <1>2 DEF Tables
<1>5. UserTables(db)
  BY <1>3, <1>4 DEF UserTables, Tokens
<1> QED
  BY <1>1, <1>5 DEF TypeInv, Init

\* A visitor's statement keeps the types of what belongs to the calls, and goes
\* on to a statement of the same operation.
LEMMA StatementTypes ==
  ASSUME CallTypes, NEW c \in Calls,
         \/ GetUserPassword(c) \/ HashPassword(c) \/ CreateSession(c)
         \/ ExpireSession(c) \/ CreateUser(c) \/ CreatePassword(c)
         \/ GetUserBySession(c) \/ DeleteUser(c) \/ UpdateUser(c)
  PROVE  CallTypes'
<1> USE DEF CallTypes, OpAt, Executes, Answer, Continue, Succeed, Fail, Goto, BreakTx, TxSteps,
            TxOps, Statements, UpdateOps
<1>1. CASE GetUserPassword(c)
  BY <1>1 DEF GetUserPassword
<1>2. CASE HashPassword(c)
  BY <1>2 DEF HashPassword
<1>3. CASE CreateSession(c)
  BY <1>3 DEF CreateSession
<1>4. CASE ExpireSession(c)
  BY <1>4 DEF ExpireSession
<1>5. CASE CreateUser(c)
  BY <1>5 DEF CreateUser
<1>6. CASE CreatePassword(c)
  BY <1>6 DEF CreatePassword
<1>7. CASE GetUserBySession(c)
  BY <1>7 DEF GetUserBySession
<1>8. CASE DeleteUser(c)
  BY <1>8 DEF DeleteUser
<1>9. CASE UpdateUser(c)
  BY <1>9 DEF UpdateUser
<1> QED
  BY <1>1, <1>2, <1>3, <1>4, <1>5, <1>6, <1>7, <1>8, <1>9

\* Every step keeps the types of what belongs to the calls.
LEMMA NextCallTypes ==
  ASSUME TypeInv, [Next]_vars
  PROVE  CallTypes'
<1> USE DEF TypeInv
<1>1. ASSUME NEW c \in Calls, Arrive(c, Requests) PROVE CallTypes'
  <2>1. PICK r \in Requests : /\ request' = [request EXCEPT ![c] = r]
                              /\ Goto(c, IF r.op \in TxOps THEN "begin" ELSE FirstStatement(r.op))
    BY <1>1 DEF Arrive
  <2>2. r.op \in {"Login", "CreateUser", "Logout", "DeleteUser"} \cup UpdateOps
    BY RequestOps
  <2>3. /\ r.op \in TxOps => r.op \in {"CreateUser", "DeleteUser"}
        /\ r.op \notin TxOps => \/ r.op = "Login" /\ FirstStatement(r.op) = "GetUserPassword"
                                \/ r.op = "Logout" /\ FirstStatement(r.op) = "ExpireSession"
                                \/ /\ r.op \in UpdateOps
                                   /\ FirstStatement(r.op) = "GetUserBySession"
    BY <2>2 DEF UpdateOps, TxOps, FirstStatement
  <2>4. /\ request' \in [Calls -> Requests \cup {Nothing}]
        /\ pc' \in [Calls -> Statements \cup {"idle", "begin", "hash", "commit",
                                              "rollback", "answered"}]
    BY <2>1, <2>3 DEF Goto, CallTypes, Statements
  <2>5. \A d \in Calls : OpAt(d)'
    BY <1>1, <2>1, <2>3 DEF Goto, CallTypes, OpAt, Arrive, TxSteps
  <2> QED
    BY <1>1, <2>4, <2>5 DEF CallTypes, Arrive
<1>2. ASSUME NEW c \in Calls, Visits(c) PROVE CallTypes'
  <2> USE DEF CallTypes
  <2>1. CASE Begin(c)
    <3>1. request[c].op \in {"CreateUser", "DeleteUser"}
      BY <2>1, RequestOps DEF Begin, OpAt, TxSteps, TxOps, UpdateOps
    <3>2. FirstStatement(request[c].op) =
            IF request[c].op = "CreateUser" THEN "CreateUser" ELSE "GetUserBySession"
      BY <3>1 DEF FirstStatement
    <3> QED
      BY <2>1, <3>1, <3>2 DEF Begin, Goto, OpAt, Statements, TxSteps
  <2>2. CASE Commit(c)
    BY <2>2 DEF Commit, Answer, Goto, OpAt, TxSteps
  <2>3. CASE Rollback(c)
    BY <2>3 DEF Rollback, Answer, Goto, OpAt, TxSteps
  <2>4. CASE StatementRefused(c)
    BY <2>4 DEF StatementRefused, Quiet, Fail, Answer, Goto, OpAt, TxSteps
  <2>5. CASE TxRefused(c)
    BY <2>5 DEF TxRefused, Close, Answer, Goto, OpAt, TxSteps
  <2> QED
    BY <1>2, <2>1, <2>2, <2>3, <2>4, <2>5 DEF Visits
<1>3. ASSUME NEW c \in Calls, Lost(c, Effect(c)) PROVE CallTypes'
  BY <1>3 DEF Lost, callVars, CallTypes, OpAt
<1>4. ASSUME NEW c \in Calls, GetUser(c) PROVE CallTypes'
  <2>1. request[c].email \in Users => db.users[request[c].email] \in UserRow
    BY DEF UserTables, Users
  <2> QED
    BY <1>4, <2>1 DEF GetUser, CallTypes, OpAt, Executes, Continue, Fail, Answer, Goto, TxSteps,
                      TxOps, Statements, UpdateOps
<1>5. CASE UNCHANGED vars
  BY <1>5 DEF vars, callVars, CallTypes, OpAt
<1> QED
  BY <1>1, <1>2, <1>3, <1>4, <1>5, StatementTypes, Steps

\* A step leaves the tables alone, begins a transaction, goes back to what one
\* began with, or executes the statement of a request that is running, which then
\* goes on, unless the connection is lost with its answer.
Executed(c) ==
  /\ conn = "open"
  /\ Running(c)
  /\ pc[c] \notin TxSteps
  /\ db' = Effect(c)
  /\ saved' = saved
  /\ \/ conn' = "closed" /\ tx = "idle"
     \/ /\ pc[c] = "CreateUser" /\ request[c].email \notin Users => pc'[c] = "hash"
        /\ pc[c] = "CreateSession" => pc'[c] = "answered"
TableStep ==
  \/ db' = db /\ saved' = saved
  \/ db' = db /\ saved' = db /\ tx = "idle"
  \/ db' = saved /\ saved' = saved /\ tx # "idle" /\ tx' = "idle"
  \/ \E c \in Calls : Executed(c)

\* Every step does one of these things to the tables.
LEMMA TableSteps ==
  ASSUME TypeInv, [Next]_vars
  PROVE  TableStep
<1> USE DEF TableStep
<1>0. tx \in {"idle", "open", "failed"} /\ DOMAIN db = Tables
  BY DEF TypeInv, CallTypes, UserTables
<1>1. ASSUME NEW c \in Calls, Visits(c) PROVE TableStep
  BY <1>0, <1>1 DEF Visits, Begin, Commit, Rollback, StatementRefused, TxRefused, Committed, Close
<1>2. ASSUME NEW c \in Calls, Lost(c, Effect(c)) PROVE TableStep
  <2>1. pc[c] \in TxSteps => Effect(c) = db
    BY DEF TxSteps, Effect
  <2> QED
    BY <1>0, <1>2, <2>1 DEF Lost, Committed, Quiet, Running, Executed
<1>3. ASSUME NEW c \in Calls,
             CreateSession(c) \/ ExpireSession(c) \/ CreateUser(c) \/ CreatePassword(c)
               \/ UpdateUser(c)
      PROVE TableStep
  <2>0. pc[c] = "CreateSession" => request[c].op \notin TxOps
    BY DEF TypeInv, CallTypes, OpAt, TxOps
  <2>1. /\ conn = "open" /\ Running(c) /\ pc[c] \notin TxSteps
        /\ db' = Effect(c) /\ saved' = saved
    BY <1>3 DEF CreateSession, ExpireSession, CreateUser, CreatePassword, UpdateUser, Executes,
                TxSteps, Running
  <2>2. pc[c] = "CreateUser" /\ request[c].email \notin Users => pc'[c] = "hash"
    BY <1>3 DEF CreateSession, ExpireSession, CreateUser, CreatePassword, UpdateUser, Executes,
                Continue, Goto, TypeInv, CallTypes
  <2>3. pc[c] = "CreateSession" => pc'[c] = "answered"
    BY <1>3, <2>0 DEF CreateSession, ExpireSession, CreateUser, CreatePassword, UpdateUser,
                      Executes, Succeed, Fail, Answer, Goto, TypeInv, CallTypes
  <2> QED
    BY <2>1, <2>2, <2>3 DEF Executed
<1>4. ASSUME NEW c \in Calls,
             Arrive(c, Requests) \/ GetUserPassword(c) \/ HashPassword(c) \/ GetUserBySession(c)
               \/ DeleteUser(c) \/ GetUser(c)
      PROVE TableStep
  BY <1>4 DEF Arrive, GetUserPassword, HashPassword, GetUserBySession, DeleteUser, GetUser,
              Executes
<1>5. CASE UNCHANGED vars
  BY <1>5 DEF vars
<1> QED
  BY <1>1, <1>2, <1>3, <1>4, <1>5, Steps

\* Every step keeps every type.
LEMMA NextTypes == ASSUME TypeInv, [Next]_vars PROVE TypeInv'
<1>1. UserTables(db') /\ UserTables(saved')
  BY TableSteps, EffectTypes DEF TypeInv, TableStep, Executed
<1> QED
  BY <1>1, NextCallTypes DEF TypeInv, UserTables

\* The handlers of the users and sessions keep the types of their tables, of what
\* their visitors keep and of the connection, however requests overlap.
THEOREM UsersTypeOK == Spec => []TypeOK
<1>1. TypeInv => TypeOK
  BY DEF TypeInv, CallTypes, UserTables, TypeOK
<1> QED
  BY <1>1, InitTypes, NextTypes, PTL DEF Spec
-----------------------------------------------------------------------------
(* One request at a time.                                                  *)

\* A user that was not there at the start was inserted by the one CreateUser of
\* its email that has come as far as its hash.
IDsOK(t) ==
  \A e \in DOMAIN t.users :
    \/ t.users[e].id = e
    \/ /\ t.users[e].id \in Calls
       /\ pc[t.users[e].id] \notin {"idle", "begin", "CreateUser"}
       /\ request[t.users[e].id].op = "CreateUser"
       /\ request[t.users[e].id].email = e

\* A session that was not there at the start belongs to a Login that is answered,
\* unless the connection was lost with it.
SessionsOK(t) == \A c \in Calls : c \in DOMAIN t.sessions => pc[c] = "answered" \/ conn = "closed"

\* A user without a password is that of a CreateUser which is between its two
\* statements, or about to be rolled back; what it is rolled back to has none.
HasPassword(t, e) == t.users[e].id \in t.passwords
Unfinished(c) == request[c].op = "CreateUser" /\ pc[c] \in {"hash", "CreatePassword", "rollback"}
PasswordsOK ==
  /\ \A e \in DOMAIN saved.users : HasPassword(saved, e)
  /\ \A e \in DOMAIN db.users :
       \/ HasPassword(db, e)
       \/ tx # "idle" /\ db.users[e].id \in Calls /\ Unfinished(db.users[e].id)

\* A transaction does no more to the users than add some without rights.
ViewOK ==
  tx # "idle" =>
    /\ db.sessions = saved.sessions
    /\ \A e \in DOMAIN saved.users : e \in Users /\ db.users[e] = saved.users[e]
    /\ \A e \in Users \ DOMAIN saved.users :
         ~db.users[e].isAdmin /\ ~db.users[e].validated /\ ~db.users[e].deleted

\* What a visitor has read is still so: UpdateUser's row, the administrator who
\* asks for the update, and that the user who logs in is not marked deleted.
ReadOK(c) ==
  conn = "open" =>
    /\ pc[c] = "UpdateUser" => /\ request[c].email \in Users
                               /\ row[c] = db.users[request[c].email]
                               /\ ~row[c].deleted
    /\ pc[c] \in {"GetUser", "UpdateUser"} => SessionUsers(c) \cap Admins # {}
    /\ pc[c] \in {"hash", "CreateSession"} /\ request[c].op = "Login" =>
         request[c].email \in Users /\ ~db.users[request[c].email].deleted

SafeInv == /\ TypeInv
           /\ SerialInv
           /\ IDsOK(db) /\ IDsOK(saved)
           /\ SessionsOK(db) /\ SessionsOK(saved)
           /\ PasswordsOK
           /\ ViewOK
           /\ \A c \in Calls : ReadOK(c)

\* A statement of a visitor, or the hash, is a step of the kind HandlersProofs
\* speaks of.
LEMMA Visitors ==
  ASSUME CallTypes, NEW c \in Calls,
         \/ GetUserPassword(c) \/ HashPassword(c) \/ CreateSession(c)
         \/ ExpireSession(c) \/ CreateUser(c) \/ CreatePassword(c)
         \/ GetUserBySession(c) \/ DeleteUser(c) \/ GetUser(c) \/ UpdateUser(c)
  PROVE  /\ \E s : StatementTo(c, s)
         /\ pc'[c] \notin {"idle", "begin", "CreateUser"}
         /\ pc'[c] \in {"hash", "CreateSession"} /\ request[c].op = "Login" =>
              pc[c] \in {"GetUserPassword", "hash"}
         /\ pc'[c] = "GetUser" => pc[c] = "GetUserBySession"
         /\ pc'[c] = "UpdateUser" => pc[c] = "GetUser"
<1> USE DEF CallTypes, OpAt, Executes, Answer, Continue, Succeed, Fail, Goto, BreakTx, TxSteps,
            TxOps, UpdateOps, StatementTo, Running
<1>1. CASE GetUserPassword(c)
  BY <1>1 DEF GetUserPassword
<1>2. CASE HashPassword(c)
  BY <1>2 DEF HashPassword
<1>3. CASE CreateSession(c)
  BY <1>3 DEF CreateSession
<1>4. CASE ExpireSession(c)
  BY <1>4 DEF ExpireSession
<1>5. CASE CreateUser(c)
  BY <1>5 DEF CreateUser
<1>6. CASE CreatePassword(c)
  BY <1>6 DEF CreatePassword
<1>7. CASE GetUserBySession(c)
  BY <1>7 DEF GetUserBySession
<1>8. CASE DeleteUser(c)
  BY <1>8 DEF DeleteUser
<1>9. CASE GetUser(c)
  BY <1>9 DEF GetUser
<1>10. CASE UpdateUser(c)
  BY <1>10 DEF UpdateUser
<1> QED
  BY <1>1, <1>2, <1>3, <1>4, <1>5, <1>6, <1>7, <1>8, <1>9, <1>10

\* The next-state relation, by what the step is to the connection.
LEMMA StepKinds ==
  ASSUME TypeInv, [Next]_vars
  PROVE  \/ \E c \in Calls : \/ Arrive(c, Requests) \/ Visits(c) \/ Lost(c, Effect(c))
                             \/ \E s : StatementTo(c, s)
         \/ UNCHANGED vars
BY Steps, Visitors DEF TypeInv

\* The connection is shared in turn.
LEMMA NextSerial ==
  ASSUME TypeInv, SerialInv, [Next]_vars, ~Overlap
  PROVE  SerialInv'
<1>1. CASE UNCHANGED vars
  BY <1>1 DEF vars, callVars, SerialInv, Running, Holding
<1> QED
  BY <1>1, StepKinds, ArriveSerial, StatementSerial, VisitsSerial, LostSerial

\* A request that has gone beyond its first steps stays there, as it is.
LEMMA NoWayBack ==
  ASSUME TypeInv, [Next]_vars, NEW c \in Calls, pc[c] \notin {"idle", "begin", "CreateUser"}
  PROVE  pc'[c] \notin {"idle", "begin", "CreateUser"} /\ request'[c] = request[c]
<1> USE DEF TypeInv, CallTypes
<1>1. ASSUME NEW d \in Calls, Arrive(d, Requests) PROVE pc'[c] = pc[c] /\ request'[c] = request[c]
  BY <1>1 DEF Arrive, Goto
<1>2. ASSUME NEW d \in Calls, Visits(d)
      PROVE  pc'[c] \notin {"idle", "begin", "CreateUser"} /\ request'[c] = request[c]
  BY <1>2 DEF Visits, Begin, Commit, Rollback, StatementRefused, TxRefused, Fail, Answer, Goto
<1>3. ASSUME NEW d \in Calls, Lost(d, Effect(d)) PROVE pc'[c] = pc[c] /\ request'[c] = request[c]
  BY <1>3 DEF Lost, callVars
<1>4. ASSUME NEW d \in Calls,
             \/ GetUserPassword(d) \/ HashPassword(d) \/ CreateSession(d)
             \/ ExpireSession(d) \/ CreateUser(d) \/ CreatePassword(d)
             \/ GetUserBySession(d) \/ DeleteUser(d) \/ GetUser(d) \/ UpdateUser(d)
      PROVE  pc'[c] \notin {"idle", "begin", "CreateUser"} /\ request'[c] = request[c]
  <2>1. PICK s : StatementTo(d, s)
    BY <1>4, Visitors
  <2> QED
    BY <1>4, <2>1, Visitors DEF StatementTo
<1>5. CASE UNCHANGED vars
  BY <1>5 DEF vars, callVars
<1> QED
  BY <1>1, <1>2, <1>3, <1>4, <1>5, Steps

\* Users keep the call they were inserted by.
LEMMA NextIDs ==
  ASSUME SafeInv, [Next]_vars
  PROVE  IDsOK(db)' /\ IDsOK(saved)'
<1> USE DEF SafeInv
<1>1. \A c \in Calls : pc[c] \notin {"idle", "begin", "CreateUser"} =>
        pc'[c] \notin {"idle", "begin", "CreateUser"} /\ request'[c] = request[c]
  BY NoWayBack
<1>2. ASSUME NEW t, IDsOK(t) PROVE
        \A e \in DOMAIN t.users :
          \/ t.users[e].id = e
          \/ /\ t.users[e].id \in Calls
             /\ pc'[t.users[e].id] \notin {"idle", "begin", "CreateUser"}
             /\ request'[t.users[e].id].op = "CreateUser"
             /\ request'[t.users[e].id].email = e
  BY <1>1, <1>2 DEF IDsOK
<1>3. ASSUME NEW c \in Calls, Executed(c) PROVE IDsOK(db)' /\ IDsOK(saved)'
  <2>0. DOMAIN db = Tables /\ saved' = saved /\ UserTables(db)
    BY <1>3 DEF Executed, TypeInv, UserTables
  <2>1. CASE pc[c] = "CreateUser" /\ request[c].email \notin Users
    <3>1. db'.users = Insert(db.users, request[c].email, NewUser(c))
      BY <1>3, <2>0, <2>1, Effects DEF Executed
    <3>2. tx # "idle"
      BY <1>3, <2>1 DEF Executed, SerialInv, Holding, Running, TypeInv, CallTypes, OpAt, TxOps
    <3>3. pc'[c] = "hash" /\ request'[c] = request[c] /\ request[c].op = "CreateUser"
      <4>1. pc'[c] = "hash" /\ request[c].op = "CreateUser"
        BY <1>3, <2>1, <3>2 DEF Executed, TypeInv, CallTypes, OpAt
      <4>2. request'[c] = request[c]
        <5>1. CASE UNCHANGED vars
          BY <5>1 DEF vars, callVars
        <5>2. ASSUME NEW d \in Calls, Arrive(d, Requests) PROVE request'[c] = request[c]
          BY <1>3, <5>2 DEF Arrive, Executed, Running, TypeInv, CallTypes
        <5>3. ASSUME NEW d \in Calls, \E s : StatementTo(d, s) PROVE request'[c] = request[c]
          BY <5>3 DEF StatementTo
        <5>4. ASSUME NEW d \in Calls, Visits(d) \/ Lost(d, Effect(d))
              PROVE  request'[c] = request[c]
          BY <5>4 DEF Visits, Begin, Commit, Rollback, StatementRefused, TxRefused, Lost, callVars
        <5> QED
          BY <5>1, <5>2, <5>3, <5>4, StepKinds
      <4> QED
        BY <4>1, <4>2
    <3> QED
      BY <1>2, <2>0, <3>1, <3>3 DEF IDsOK, Insert, NewUser
  <2>2. CASE ~(pc[c] = "CreateUser" /\ request[c].email \notin Users)
    <3>1. /\ DOMAIN db'.users = DOMAIN db.users
          /\ \A e \in DOMAIN db.users : db'.users[e].id = db.users[e].id
      <4>1. CASE pc[c] = "UpdateUser" /\ request[c].email \in Users
        <5>1. db'.users = [db.users EXCEPT ![request[c].email] = UpdatedRow(c)]
          BY <1>3, <2>0, <2>2, <4>1, Effects DEF Executed
        <5>2. UpdatedRow(c).id = db.users[request[c].email].id
          BY <2>0, <4>1, UpdatedRows DEF TypeInv, CallTypes, OpAt, UserTables, Users
        <5> QED
          BY <5>1, <5>2
      <4>2. CASE ~(pc[c] = "UpdateUser" /\ request[c].email \in Users)
        BY <1>3, <2>0, <2>2, <4>2, Effects DEF Executed
      <4> QED
        BY <4>1, <4>2
    <3> QED
      BY <1>2, <2>0, <3>1 DEF IDsOK
  <2> QED
    BY <2>1, <2>2
<1> QED
  BY <1>2, <1>3, TableSteps DEF TableStep, IDsOK

\* A request that is answered stays so, and a connection that is closed.
LEMMA Ended ==
  ASSUME TypeInv, [Next]_vars
  PROVE  /\ conn = "closed" => conn' = "closed"
         /\ \A c \in Calls : pc[c] = "answered" => pc'[c] = "answered"
<1> DEFINE Kept == /\ conn = "closed" => conn' = "closed"
                   /\ \A c \in Calls : pc[c] = "answered" => pc'[c] = "answered"
<1> SUFFICES Kept
  OBVIOUS
<1> USE DEF TypeInv, CallTypes
<1>1. ASSUME NEW d \in Calls, Arrive(d, Requests) PROVE Kept
  BY <1>1 DEF Arrive, Goto
<1>2. ASSUME NEW d \in Calls, Visits(d) PROVE Kept
  BY <1>2 DEF Visits, Begin, Commit, Rollback, StatementRefused, TxRefused, Fail, Answer, Goto,
              Close, Quiet
<1>3. ASSUME NEW d \in Calls, Lost(d, Effect(d)) PROVE Kept
  BY <1>3 DEF Lost, callVars
<1>4. ASSUME NEW d \in Calls, \E s : StatementTo(d, s) PROVE Kept
  BY <1>4 DEF StatementTo, Running
<1>5. CASE UNCHANGED vars
  BY <1>5 DEF vars, callVars
<1> QED
  BY <1>1, <1>2, <1>3, <1>4, <1>5, StepKinds

\* Sessions belong to logins that are over.
LEMMA NextSessions ==
  ASSUME SafeInv, [Next]_vars
  PROVE  SessionsOK(db)' /\ SessionsOK(saved)'
<1> USE DEF SafeInv
<1>1. /\ conn = "closed" => conn' = "closed"
      /\ \A c \in Calls : pc[c] = "answered" => pc'[c] = "answered"
  BY Ended
<1>2. ASSUME NEW c \in Calls, Executed(c) PROVE SessionsOK(db)' /\ SessionsOK(saved)'
  <2>0. DOMAIN db = Tables /\ saved' = saved
    BY <1>2 DEF Executed, TypeInv, UserTables
  <2>1. CASE pc[c] = "CreateSession" /\ request[c].email \in Users
    <3>1. db'.sessions = Insert(db.sessions, c, db.users[request[c].email].id)
      BY <1>2, <2>0, <2>1, Effects DEF Executed
    <3>2. pc'[c] = "answered" \/ conn' = "closed"
      BY <1>2, <2>1 DEF Executed
    <3> QED
      BY <1>1, <2>0, <3>1, <3>2 DEF SessionsOK, Insert
  <2>2. CASE ~(pc[c] = "CreateSession" /\ request[c].email \in Users)
    <3>1. db'.sessions = db.sessions
      BY <1>2, <2>0, <2>2, Effects DEF Executed
    <3> QED
      BY <1>1, <2>0, <3>1 DEF SessionsOK
  <2> QED
    BY <2>1, <2>2
<1> QED
  BY <1>1, <1>2, TableSteps DEF TableStep, SessionsOK

\* Outside of a transaction no statement of CreateUser is executed, inside of one
\* none that is not CreateUser's or DeleteUser's.
LEMMA ExecutedIn ==
  ASSUME SafeInv, NEW c \in Calls, Running(c), pc[c] \notin TxSteps, conn = "open"
  PROVE  /\ tx = "idle" => pc[c] \notin {"CreateUser", "CreatePassword"}
         /\ tx # "idle" => pc[c] \notin {"CreateSession", "UpdateUser"} /\ Holding(c)
<1>1. OpAt(c) /\ SerialInv
  BY DEF SafeInv, TypeInv, CallTypes
<1>2. tx # "idle" => Holding(c)
  BY <1>1 DEF SerialInv, Holding
<1>3. tx = "idle" => request[c].op \notin TxOps
  BY <1>1 DEF SerialInv, Holding, TxSteps
<1> QED
  BY <1>1, <1>2, <1>3 DEF OpAt, TxOps, Holding, UpdateOps

\* Which transaction there is after a step.
LEMMA TxAfter ==
  ASSUME SafeInv, [Next]_vars
  PROVE  tx = "idle" /\ tx' # "idle" => saved' = db /\ db' = db
<1> DEFINE Kept == tx = "idle" /\ tx' # "idle" => saved' = db /\ db' = db
<1> SUFFICES Kept
  OBVIOUS
<1> USE DEF SafeInv, TypeInv, CallTypes
<1>1. ASSUME NEW d \in Calls, Arrive(d, Requests) PROVE Kept
  BY <1>1 DEF Arrive
<1>2. ASSUME NEW d \in Calls, Visits(d) PROVE Kept
  BY <1>2 DEF Visits, Begin, Commit, Rollback, StatementRefused, TxRefused, Close
<1>3. ASSUME NEW d \in Calls, Lost(d, Effect(d)) PROVE Kept
  BY <1>3 DEF Lost
<1>4. ASSUME NEW d \in Calls, \E s : StatementTo(d, s) PROVE Kept
  BY <1>4 DEF StatementTo
<1>5. CASE UNCHANGED vars
  BY <1>5 DEF vars
<1> QED
  BY <1>1, <1>2, <1>3, <1>4, <1>5, StepKinds

\* A transaction adds users without rights, and changes nothing else of what the
\* handlers look at.
LEMMA NextView ==
  ASSUME SafeInv, [Next]_vars
  PROVE  ViewOK'
<1> USE DEF SafeInv
<1>1. CASE tx = "idle"
  BY <1>1, TxAfter DEF ViewOK, Users
<1>2. CASE tx # "idle"
  <2>1. ASSUME NEW c \in Calls, Executed(c) PROVE ViewOK'
    <3>0. /\ DOMAIN db = Tables /\ saved' = saved /\ db' = Effect(c) /\ UserTables(saved)
          /\ pc[c] \notin {"CreateSession", "UpdateUser"}
      BY <1>2, <2>1, ExecutedIn DEF Executed, TypeInv, UserTables
    <3>1. db'.sessions = db.sessions
      BY <3>0, Effects
    <3>2. db'.users = IF pc[c] = "CreateUser" /\ request[c].email \notin Users
                      THEN Insert(db.users, request[c].email, NewUser(c))
                      ELSE db.users
      BY <3>0, Effects
    <3> QED
      BY <1>2, <3>0, <3>1, <3>2 DEF ViewOK, Insert, NewUser, Users
  <2> QED
    BY <1>2, <2>1, TableSteps, TxAfter DEF TableStep, ViewOK, Users
<1> QED
  BY <1>1, <1>2

\* Whose password may be missing: the user of the one request that is running.
LEMMA UnfinishedRuns ==
  ASSUME SafeInv, NEW c \in Calls, Running(c), ~Unfinished(c), NEW e \in Users
  PROVE  HasPassword(db, e)
BY DEF SafeInv, SerialInv, PasswordsOK, Unfinished, Running, Users

\* A statement outside of a transaction takes nobody's password.
LEMMA EffectPasswords ==
  ASSUME SafeInv, NEW c \in Calls, pc[c] \notin {"CreateUser", "CreatePassword"},
         \A e \in Users : HasPassword(db, e)
  PROVE  \A e \in DOMAIN Effect(c).users : HasPassword(Effect(c), e)
<1>0. DOMAIN db = Tables /\ UserTables(db) /\ OpAt(c)
  BY DEF SafeInv, TypeInv, CallTypes, UserTables
<1>1. Effect(c).passwords = db.passwords
  BY <1>0, Effects
<1>2. CASE pc[c] = "UpdateUser" /\ request[c].email \in Users
  <2>1. Effect(c).users = [db.users EXCEPT ![request[c].email] = UpdatedRow(c)]
    BY <1>0, <1>2, Effects
  <2>2. UpdatedRow(c).id = db.users[request[c].email].id
    BY <1>0, <1>2, UpdatedRows DEF OpAt, UserTables, Users
  <2> QED
    BY <1>1, <2>1, <2>2 DEF HasPassword, Users
<1>3. CASE ~(pc[c] = "UpdateUser" /\ request[c].email \in Users)
  <2>1. Effect(c).users = db.users
    BY <1>0, <1>3, Effects
  <2> QED
    BY <1>1, <2>1 DEF HasPassword, Users
<1> QED
  BY <1>2, <1>3

\* A user is committed with a password, or not at all.
LEMMA NextPasswords ==
  ASSUME SafeInv, [Next]_vars
  PROVE  PasswordsOK'
<1> DEFINE All(t) == \A e \in DOMAIN t.users : HasPassword(t, e)
           Kept == /\ db' = db
                   /\ tx # "idle" => tx' # "idle"
                   /\ \A d \in Calls : Unfinished(d) => Unfinished(d)'
<1> USE DEF SafeInv, Users
<1>1. All(saved) /\ All(saved') /\ All(Committed) /\ (tx = "idle" => All(db))
  <2>1. All(saved) /\ (tx = "idle" => All(db)) /\ All(Committed)
    BY DEF PasswordsOK, Committed
  <2>2. saved' = saved \/ (saved' = db /\ tx = "idle")
    BY TableSteps DEF TableStep, Executed
  <2> QED
    BY <2>1, <2>2
<1>2. All(db') => PasswordsOK'
  BY <1>1 DEF PasswordsOK, HasPassword
<1>3. Kept => PasswordsOK'
  BY <1>1 DEF PasswordsOK, HasPassword
<1>4. ASSUME NEW c \in Calls, Running(c), ~Unfinished(c) PROVE All(db)
  BY <1>4, UnfinishedRuns
<1>5. ASSUME NEW c \in Calls, Visits(c) PROVE PasswordsOK'
  <2>1. CASE Begin(c)
    <3>1. All(db)
      BY <2>1, <1>4 DEF Begin, Running, Unfinished
    <3> QED
      BY <1>2, <2>1, <3>1 DEF Begin
  <2>2. CASE Commit(c)
    <3>1. All(db)
      BY <2>2, <1>4 DEF Commit, Running, Unfinished
    <3> QED
      BY <1>1, <1>2, <2>2, <3>1 DEF Commit
  <2>3. CASE Rollback(c)
    BY <1>1, <1>2, <2>3 DEF Rollback
  <2>4. CASE StatementRefused(c)
    <3>1. Kept
      BY <2>4 DEF StatementRefused, Quiet, TxSteps, Fail, Answer, Goto, Unfinished, TypeInv,
                  CallTypes, TxOps
    <3> QED
      BY <1>3, <3>1
  <2>5. CASE TxRefused(c)
    BY <1>1, <1>2, <2>5 DEF TxRefused, Close
  <2> QED
    BY <1>5, <2>1, <2>2, <2>3, <2>4, <2>5 DEF Visits
<1>6. ASSUME NEW c \in Calls, Lost(c, Effect(c)) PROVE PasswordsOK'
  <2>1. CASE db' = Committed
    BY <1>1, <1>2, <2>1
  <2>2. CASE tx = "open" /\ pc[c] = "commit" /\ db' = db
    BY <1>2, <1>4, <2>2 DEF Running, Unfinished
  <2>3. CASE tx = "idle" /\ db' = Effect(c)
    <3>1. CASE pc[c] \in TxSteps
      BY <1>1, <1>2, <2>3, <3>1 DEF Effect, TxSteps
    <3>2. CASE pc[c] \notin TxSteps
      <4>1. pc[c] \notin {"CreateUser", "CreatePassword"}
        BY <1>6, <2>3, <3>2, ExecutedIn DEF Lost, Quiet, Running
      <4> QED
        BY <1>1, <1>2, <2>3, <4>1, EffectPasswords
    <3> QED
      BY <3>1, <3>2
  <2> QED
    BY <1>6, <2>1, <2>2, <2>3 DEF Lost
<1>7. ASSUME NEW c \in Calls,
             \/ GetUserPassword(c) \/ CreateSession(c) \/ ExpireSession(c)
             \/ GetUserBySession(c) \/ DeleteUser(c) \/ GetUser(c) \/ UpdateUser(c)
      PROVE  PasswordsOK'
  <2>1. /\ pc[c] \notin {"hash", "rollback", "CreateUser", "CreatePassword"} /\ Running(c)
        /\ db' = db \/ db' = Effect(c)
    BY <1>7 DEF GetUserPassword, CreateSession, ExpireSession, GetUserBySession, DeleteUser,
                GetUser, UpdateUser, Executes, Running
  <2>2. All(db)
    BY <1>4, <2>1 DEF Unfinished
  <2> QED
    BY <1>2, <2>1, <2>2, EffectPasswords
<1>8. ASSUME NEW c \in Calls, CreateUser(c) PROVE PasswordsOK'
  <2>1. All(db) /\ DOMAIN db = Tables /\ tx # "idle" /\ request[c].op = "CreateUser"
    <3>1. Running(c) /\ pc[c] = "CreateUser" /\ pc[c] \notin TxSteps /\ conn = "open"
      BY <1>8 DEF CreateUser, Executes, Running, TxSteps
    <3> QED
      BY <1>4, <3>1, ExecutedIn DEF Unfinished, TypeInv, CallTypes, OpAt, UserTables
  <2>2. CASE request[c].email \notin Users
    <3>1. /\ db'.users = Insert(db.users, request[c].email, NewUser(c))
          /\ db'.passwords = db.passwords
      BY <1>8, <2>1, <2>2, Effects DEF CreateUser, Executes
    <3>2. tx' = tx /\ Unfinished(c)'
      BY <1>8, <2>1, <2>2 DEF CreateUser, Executes, Continue, Goto, Unfinished, TypeInv, CallTypes
    <3> QED
      BY <1>1, <2>1, <3>1, <3>2 DEF PasswordsOK, HasPassword, Insert, NewUser
  <2>3. CASE request[c].email \in Users
    <3>1. db' = db
      BY <1>8, <2>3 DEF CreateUser, Executes, Effect
    <3> QED
      BY <1>2, <2>1, <3>1
  <2> QED
    BY <2>2, <2>3
<1>9. ASSUME NEW c \in Calls, CreatePassword(c) PROVE PasswordsOK'
  <2>1. pc[c] = "CreatePassword" /\ Running(c) /\ db' = Effect(c) /\ DOMAIN db = Tables
    BY <1>9 DEF CreatePassword, Executes, Running, TypeInv, UserTables
  <2>2. db'.users = db.users /\ db'.passwords = db.passwords \cup {c}
    BY <2>1, Effects
  <2>3. \A d \in Calls : Unfinished(d) => d = c
    BY <2>1 DEF Unfinished, Running, SerialInv
  <2>4. All(db')
    BY <2>2, <2>3 DEF PasswordsOK, HasPassword
  <2> QED
    BY <1>2, <2>4
<1>10. ASSUME NEW c \in Calls, HashPassword(c) \/ Arrive(c, Requests) PROVE PasswordsOK'
  <2>1. Kept
    BY <1>10 DEF HashPassword, Arrive, Goto, Unfinished, TypeInv, CallTypes
  <2> QED
    BY <1>3, <2>1
<1>11. CASE UNCHANGED vars
  BY <1>3, <1>11 DEF vars, callVars, Unfinished
<1> QED
  BY <1>5, <1>6, <1>7, <1>8, <1>9, <1>10, <1>11, Steps

\* Between two statements of a visitor nobody changes what it has read.
LEMMA NextRead ==
  ASSUME SafeInv, [Next]_vars, NEW c \in Calls
  PROVE  ReadOK(c)'
<1> DEFINE Reading(s) == s \in {"GetUser", "UpdateUser", "hash", "CreateSession"}
<1> USE DEF SafeInv, TypeInv, CallTypes
<1>1. ASSUME ~Reading(pc'[c]) PROVE ReadOK(c)'
  BY <1>1 DEF ReadOK
<1>2. ASSUME NEW d \in Calls \ {c}, Running(d), pc'[c] = pc[c] PROVE ReadOK(c)'
  <2>1. ~Running(c)
    BY <1>2 DEF SerialInv
  <2> QED
    BY <1>1, <1>2, <2>1 DEF Running
<1>3. ASSUME NEW d \in Calls, Arrive(d, Requests) PROVE ReadOK(c)'
  <2>1. PICK r \in Requests : /\ request' = [request EXCEPT ![d] = r]
                              /\ Goto(d, IF r.op \in TxOps THEN "begin" ELSE FirstStatement(r.op))
    BY <1>3 DEF Arrive
  <2>2. CASE c = d
    BY <1>1, <2>1, <2>2, FirstStatements DEF Goto
  <2>3. CASE c # d
    BY <1>3, <2>1, <2>3 DEF Goto, Arrive, ReadOK, SessionUsers, Matching, Admins, Users
  <2> QED
    BY <2>2, <2>3
<1>4. ASSUME NEW d \in Calls, Visits(d) PROVE ReadOK(c)'
  <2>1. Running(d) /\ (d # c => pc'[c] = pc[c])
    BY <1>4 DEF Visits, Begin, Commit, Rollback, StatementRefused, TxRefused, Fail, Answer, Goto,
                Quiet, TxSteps, Running
  <2>2. d = c => ~Reading(pc'[c])
    BY <1>4, FirstStatements
       DEF Visits, Begin, Commit, Rollback, StatementRefused, TxRefused, Fail, Answer, Goto
  <2> QED
    BY <1>1, <1>2, <2>1, <2>2
<1>5. ASSUME NEW d \in Calls, Lost(d, Effect(d)) PROVE ReadOK(c)'
  BY <1>5 DEF Lost, ReadOK
<1>6. ASSUME NEW d \in Calls \ {c}, \E s : StatementTo(d, s) PROVE ReadOK(c)'
  BY <1>2, <1>6 DEF StatementTo
<1>7. CASE GetUserPassword(c)
  BY <1>7 DEF GetUserPassword, Executes, Answer, Continue, Fail, Goto, ReadOK, Users, OpAt
<1>8. CASE HashPassword(c)
  BY <1>8 DEF HashPassword, Goto, ReadOK, Users
<1>9. CASE GetUserBySession(c)
  <2>1. pc'[c] \notin {"UpdateUser", "hash", "CreateSession"}
    BY <1>9 DEF GetUserBySession, Executes, Continue, Fail, Answer, Goto
  <2>2. pc'[c] = "GetUser" => SessionUsers(c) \cap Admins # {}
    BY <1>9 DEF GetUserBySession, Executes, Continue, Fail, Answer, Goto, Admins, SessionUsers
  <2>3. request' = request /\ db' = db
    BY <1>9 DEF GetUserBySession, Executes
  <2> QED
    BY <2>1, <2>2, <2>3 DEF ReadOK, SessionUsers, Matching, Admins, Users
<1>10. CASE GetUser(c)
  <2>1. pc'[c] \notin {"GetUser", "hash", "CreateSession"}
    BY <1>10 DEF GetUser, Executes, Continue, Fail, Answer, Goto
  <2>2. pc'[c] = "UpdateUser" => /\ request[c].email \in Users
                                 /\ row'[c] = db.users[request[c].email]
                                 /\ ~row'[c].deleted
    BY <1>10 DEF GetUser, Executes, Continue, Fail, Answer, Goto
  <2>3. request' = request /\ db' = db /\ conn = "open"
    BY <1>10 DEF GetUser, Executes
  <2>4. SessionUsers(c) \cap Admins # {}
    BY <1>10, <2>3 DEF GetUser, Executes, ReadOK
  <2> QED
    BY <2>1, <2>2, <2>3, <2>4 DEF ReadOK, SessionUsers, Matching, Admins, Users
<1>11. ASSUME \/ CreateSession(c) \/ ExpireSession(c) \/ CreateUser(c) \/ CreatePassword(c)
              \/ DeleteUser(c) \/ UpdateUser(c)
       PROVE  ReadOK(c)'
  <2>1. pc[c] \notin {"GetUserPassword", "hash", "GetUserBySession", "GetUser"}
    BY <1>11 DEF CreateSession, ExpireSession, CreateUser, CreatePassword, DeleteUser, UpdateUser,
                 Executes
  <2>2. request' = request
    BY <1>11 DEF CreateSession, ExpireSession, CreateUser, CreatePassword, DeleteUser, UpdateUser,
                 Executes
  <2> QED
    BY <1>11, <2>1, <2>2, Visitors DEF ReadOK
<1>12. CASE UNCHANGED vars
  BY <1>12 DEF vars, callVars, ReadOK, SessionUsers, Matching, Admins, Users
<1>13. ASSUME NEW d \in Calls,
              \/ GetUserPassword(d) \/ HashPassword(d) \/ CreateSession(d)
              \/ ExpireSession(d) \/ CreateUser(d) \/ CreatePassword(d)
              \/ GetUserBySession(d) \/ DeleteUser(d) \/ GetUser(d) \/ UpdateUser(d)
       PROVE  ReadOK(c)'
  <2>1. CASE d = c
    BY <1>7, <1>8, <1>9, <1>10, <1>11, <1>13, <2>1
  <2>2. CASE d # c
    <3>1. \E s : StatementTo(d, s)
      BY <1>13, Visitors
    <3> QED
      BY <1>6, <2>2, <3>1
  <2> QED
    BY <2>1, <2>2
<1> QED
  BY <1>3, <1>4, <1>5, <1>12, <1>13, Steps

\* Before any request has come in.
LEMMA InitSafe == Init => SafeInv
<1> SUFFICES ASSUME Init PROVE SafeInv
  OBVIOUS
<1>1. TypeInv /\ SerialInv
  BY InitTypes, InitSerial DEF Init
<1>2. PICK known \in SUBSET Emails, gone \in SUBSET Emails, root \in Emails :
        db = [users |-> [e \in known |-> [id |-> e,
                                          isAdmin |-> e = root,
                                          validated |-> e = root,
                                          deleted |-> e \in gone]],
              passwords |-> known,
              sessions |-> [t \in {SeedToken} |-> root],
              expired |-> {}]
  BY DEF Init
<1>3. /\ DOMAIN db.users = known /\ db.passwords = known
      /\ DOMAIN db.sessions = {SeedToken}
      /\ \A e \in known : db.users[e].id = e
  BY <1>2, Zenon
<1>4. saved = db /\ tx = "idle" /\ \A c \in Calls : pc[c] = "idle"
  BY DEF Init, InitCalls
<1>5. IDsOK(db) /\ PasswordsOK
  BY <1>3, <1>4 DEF IDsOK, PasswordsOK, HasPassword
<1>6. SessionsOK(db)
  BY <1>3, RestUsersAssumption DEF SessionsOK
<1> QED
  BY <1>1, <1>4, <1>5, <1>6 DEF SafeInv, ViewOK, ReadOK, IDsOK, SessionsOK

\* What holds of the tables, and of what the visitors have read of them, after
\* every step of requests that come one at a time.
THEOREM UsersSafe == Overlap = FALSE /\ Spec => []SafeInv
<1>1. Overlap = FALSE /\ SafeInv /\ [Next]_vars => SafeInv'
  <2> SUFFICES ASSUME Overlap = FALSE, SafeInv, [Next]_vars PROVE SafeInv'
    OBVIOUS
  <2>1. TypeInv' /\ SerialInv'
    BY NextTypes, NextSerial DEF SafeInv
  <2> QED
    BY <2>1, NextIDs, NextSessions, NextPasswords, NextView, NextRead DEF SafeInv
<1>2. ASSUME Overlap = FALSE PROVE Spec => []SafeInv
  <2>1. SafeInv /\ [Next]_vars => SafeInv'
    BY <1>1, <1>2
  <2> QED
    BY <2>1, InitSafe, PTL DEF Spec
<1> QED
  BY <1>2

\* Nobody is signed up without a password: what is committed of CreateUser's two
\* rows is both.
THEOREM SignedUpWithPassword == Overlap = FALSE /\ Spec => []UsersHavePasswords
<1>1. SafeInv => UsersHavePasswords
  BY DEF SafeInv, PasswordsOK, UsersHavePasswords, Committed, HasPassword
<1> QED
  BY <1>1, UsersSafe, PTL
-----------------------------------------------------------------------------
(* What a step may do to a user.                                           *)

\* UpdateUser of c writes the row of e, which it has read in the state it is in.
Updates(c, e) == /\ pc[c] = "UpdateUser"
                 /\ request[c].email = e
                 /\ ~db.users[e].deleted
                 /\ SessionUsers(c) \cap Admins # {}
                 /\ db'.users[e].id = db.users[e].id
                 /\ db'.users[e].deleted = db.users[e].deleted
                 /\ db.users[e].isAdmin /\ request[c].op # "DemoteUser" => db'.users[e].isAdmin
                 /\ db.users[e].validated => db'.users[e].validated

\* A user keeps its row, unless UpdateUser writes it; who is gone with a
\* transaction that is rolled back had no rights, and was not marked deleted.
LEMMA UserSteps ==
  ASSUME SafeInv, [Next]_vars, NEW e \in Users
  PROVE  \/ e \in Users' /\ db'.users[e] = db.users[e]
         \/ e \in Users' /\ \E c \in Calls : Updates(c, e)
         \/ ~db.users[e].isAdmin /\ ~db.users[e].validated /\ ~db.users[e].deleted /\ e \notin Users'
<1> USE DEF Users
<1>1. CASE db' = saved /\ tx # "idle"
  BY <1>1 DEF SafeInv, ViewOK
<1>2. ASSUME NEW c \in Calls, Executed(c)
      PROVE  \/ e \in Users' /\ db'.users[e] = db.users[e]
             \/ e \in Users' /\ Updates(c, e)
  <2>0. /\ DOMAIN db = Tables /\ UserTables(db) /\ db' = Effect(c) /\ conn = "open" /\ OpAt(c)
        /\ ReadOK(c)
    BY <1>2 DEF Executed, SafeInv, TypeInv, CallTypes, UserTables
  <2>1. CASE pc[c] = "CreateUser" /\ request[c].email \notin Users
    <3>1. db'.users = Insert(db.users, request[c].email, NewUser(c))
      BY <2>0, <2>1, Effects
    <3> QED
      BY <2>1, <3>1 DEF Insert
  <2>2. CASE pc[c] = "UpdateUser" /\ request[c].email \in Users
    <3>1. db'.users = [db.users EXCEPT ![request[c].email] = UpdatedRow(c)]
      BY <2>0, <2>2, Effects
    <3>2. CASE e # request[c].email
      BY <3>1, <3>2
    <3>3. CASE e = request[c].email
      <4>1. /\ row[c] = db.users[e] /\ row[c] \in UserRow /\ ~row[c].deleted
            /\ SessionUsers(c) \cap Admins # {}
        BY <2>0, <2>2, <3>3 DEF ReadOK, OpAt
      <4>2. db'.users[e] = UpdatedRow(c) /\ e \in DOMAIN db'.users
        BY <3>1, <3>3
      <4>3. /\ UpdatedRow(c).id = db.users[e].id
            /\ UpdatedRow(c).deleted = row[c].deleted
            /\ row[c].isAdmin /\ request[c].op # "DemoteUser" => UpdatedRow(c).isAdmin
            /\ row[c].validated => UpdatedRow(c).validated
        BY <3>3, <4>1, UpdatedRows
      <4> QED
        BY <2>2, <3>3, <4>1, <4>2, <4>3 DEF Updates
    <3> QED
      BY <3>2, <3>3
  <2>3. CASE /\ ~(pc[c] = "CreateUser" /\ request[c].email \notin Users)
             /\ ~(pc[c] = "UpdateUser" /\ request[c].email \in Users)
    <3>1. db'.users = db.users
      BY <2>0, <2>3, Effects
    <3> QED
      BY <3>1
  <2> QED
    BY <2>1, <2>2, <2>3
<1> QED
  BY <1>1, <1>2, TableSteps DEF TableStep, SafeInv

\* A step makes a session for the user who logs in, and takes none away but those
\* of a user who is gone, too.
LEMMA SessionSteps ==
  ASSUME SafeInv, [Next]_vars, NEW e \in Users, db.users[e].deleted, db'.users[e] = db.users[e]
  PROVE  SessionsOf(e)' = SessionsOf(e)
<1> USE DEF Users
<1>1. CASE db'.sessions = db.sessions
  BY <1>1 DEF SessionsOf
<1>2. CASE db' = saved /\ tx # "idle"
  BY <1>1, <1>2 DEF SafeInv, ViewOK
<1>3. ASSUME NEW c \in Calls, Executed(c) PROVE SessionsOf(e)' = SessionsOf(e)
  <2> DEFINE mail == request[c].email
  <2>0. /\ DOMAIN db = Tables /\ db' = Effect(c) /\ conn = "open" /\ OpAt(c) /\ ReadOK(c)
        /\ IDsOK(db) /\ SessionsOK(db)
    BY <1>3 DEF Executed, SafeInv, TypeInv, CallTypes, UserTables
  <2>1. CASE pc[c] = "CreateSession" /\ mail \in Users
    <3>1. db'.sessions = Insert(db.sessions, c, db.users[mail].id)
      BY <2>0, <2>1, Effects
    <3>2. c \notin DOMAIN db.sessions
      BY <2>0, <2>1 DEF SessionsOK
    <3>3. mail # e
      BY <2>0, <2>1 DEF ReadOK, OpAt
    <3>4. db.users[mail].id # db.users[e].id
      BY <2>0, <2>1, <3>3, RestUsersAssumption DEF IDsOK, SafeInv, TypeInv, UserTables
    <3> QED
      BY <3>1, <3>2, <3>4 DEF SessionsOf, Insert
  <2>2. CASE ~(pc[c] = "CreateSession" /\ mail \in Users)
    BY <1>1, <2>0, <2>2, Effects
  <2> QED
    BY <2>1, <2>2
<1> QED
  BY <1>1, <1>2, <1>3, TableSteps DEF TableStep, SafeInv

\* No other operation than DemoteUser takes the administrator's flag.
THEOREM OnlyDemotesDemote == Overlap = FALSE /\ Spec => OnlyDemoteDemotes
<1>1. ASSUME SafeInv, [Next]_vars, NEW e \in Admins \ Admins'
      PROVE  \E c \in Calls : pc[c] = "UpdateUser" /\ request[c].op = "DemoteUser"
                              /\ request[c].email = e
  BY <1>1, UserSteps DEF Updates, Admins, Users
<1>2. SafeInv /\ [Next]_vars =>
        [\A e \in Admins \ Admins' :
           \E c \in Calls : pc[c] = "UpdateUser" /\ request[c].op = "DemoteUser"
                            /\ request[c].email = e]_vars
  BY <1>1
<1> QED
  BY <1>2, UsersSafe, PTL DEF Spec, OnlyDemoteDemotes

\* Nothing takes back that a user has been activated.
THEOREM ValidatedForGood == Overlap = FALSE /\ Spec => ValidatedStays
<1>1. ASSUME SafeInv, [Next]_vars, NEW e \in Users, db.users[e].validated
      PROVE  e \in Users' /\ db'.users[e].validated
  BY <1>1, UserSteps DEF Updates
<1>2. SafeInv /\ [Next]_vars =>
        [\A e \in Users : db.users[e].validated => e \in Users' /\ db'.users[e].validated]_vars
  BY <1>1
<1> QED
  BY <1>2, UsersSafe, PTL DEF Spec, ValidatedStays

\* The session of an update is still an administrator's when the row is written.
THEOREM AdminsChangeUsers == Overlap = FALSE /\ Spec => ChangedByAdmin
<1>1. ASSUME SafeInv, [Next]_vars, NEW e \in Users \cap Users', db.users[e] # db'.users[e]
      PROVE  \E c \in Calls : pc[c] = "UpdateUser" /\ SessionUsers(c) \cap Admins # {}
  BY <1>1, UserSteps DEF Updates
<1>2. SafeInv /\ [Next]_vars =>
        [\A e \in Users \cap Users' : db.users[e] # db'.users[e] =>
           \E c \in Calls : /\ pc[c] = "UpdateUser"
                            /\ SessionUsers(c) \cap Admins # {}]_vars
  BY <1>1
<1> QED
  BY <1>2, UsersSafe, PTL DEF Spec, ChangedByAdmin

\* A user marked deleted keeps its row and gets no session.
THEOREM DeletedUntouched == Overlap = FALSE /\ Spec => DeletedLeftAlone
<1>1. ASSUME SafeInv, [Next]_vars, NEW e \in Users, db.users[e].deleted
      PROVE  e \in Users' /\ db'.users[e] = db.users[e] /\ SessionsOf(e)' = SessionsOf(e)
  BY <1>1, UserSteps, SessionSteps DEF Updates
<1>2. SafeInv /\ [Next]_vars =>
        [\A e \in Users : db.users[e].deleted =>
           e \in Users' /\ db'.users[e] = db.users[e] /\ SessionsOf(e)' = SessionsOf(e)]_vars
  BY <1>1
<1> QED
  BY <1>2, UsersSafe, PTL DEF Spec, DeletedLeftAlone
=============================================================================
