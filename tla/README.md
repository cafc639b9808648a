# Verification of keycl

TLA+ models of [keycl](../src/readme.md), a management server (REST, WebSocket)
and command-line wrapper for Valkey/Redis clusters, with the TLC runs that check
them and the TLAPS proofs of what holds for every size. `PROJECT.json` lists the
components, the runs, the mutants that show each property can fail, the source
lines behind every definition, the findings, the hazards and the theorems.

    tlc -workers 2 -config store_serial.cfg MCStore.tla     # one run
    tlapm StoreSerialProofs.tla                             # one proof module

Section 1 is the system, 2 the modules and how they correspond to the code, 3
the runs, 4 the proofs, 5 what the code does that no property is about, 6 what
is not modelled, 7 what comes next.

## 1. The system

keycl is one Go process. Nothing in it is a protocol between keycl instances:
the concurrency is that of `net/http` (one goroutine per request), of the
goroutines of one CLI command, and of the WebSocket callbacks.

| Component | State it keeps | Operations | Who it talks to |
|---|---|---|---|
| **Store** `lib/store/store.go` | one `pgx.Conn` for the process; a mutex nobody locks; on the server, the transaction of that connection | `New` (connect, close the connection when the context is done), `Visit`, `VisitTx` | called by every handler; PostgreSQL |
| **REST user and session handlers** `lib/api/rest/rest.go` 57-438 | tables users, passwords, sessions; per request `responseStatus` | Login, Logout, CreateUser, DeleteUser, ActivateUser, PromoteUser, DemoteUser | Store, hashing |
| **REST cluster and node handlers** `rest.go` 440-1076 | tables clusters, nodes | Create/Get/GetAll/Update/DeleteCluster, Create/Get/GetAll/DeleteNode | Store |
| **Queries and schema** `lib/store/queries` | - (generated by sqlc) | one function per statement | PostgreSQL |
| **Hashing** `lib/util/password`, `lib/api/rails/defaults.go` | - | HashPassword, HashToken, GenerateSalt | - |
| **CLI commands** `lib/cli/cli.go` | the external cluster | CreateCluster, AddNode, ForgetNode, DeleteNode, ReplicateNode, Rebalance, GetClusterInfo | a child process each |
| **Reshard and Reactor** `cli.go` 298-356, `reactor.go` | two pipes, a channel of 10, a counter, a ticker, the child | Reshard, React | child process; scanner, ticker and copier goroutines |
| **Parser and slot plans** `cli.go` 78-207, 358-376, 454-561 | - (pure, over the text of `cluster nodes`) | GetClusterNodes, GetNoSlotNodes, ReshardAll, ExceptNode, MergeNode | Reshard |
| **Rails handler** `lib/api/rails` | sessions map and lock, callbacks and lock, per connection a session state and its lock | ServeHTTP, Broadcast, RegisterCallback, the login callback | Store, hashing |
| **HTTP server** `lib/api/server.go` | listener, `http.Server` | NewServer, ListenAndServe, Shutdown by AfterFunc | handlers |

What is hard, and what makes each component correct:

* *Store.* The connection is shared by all requests and guarded by nothing but
  pgx's "conn busy" error; a transaction is a property of the connection and
  not of the request that began it; clients leave, the process shuts down, the
  reply of a COMMIT gets lost. Correct means: transactions are atomic and
  always end, every call returns, what was answered is what happened.
* *User handlers.* Read a row, then write it back whole; check the
  administrator, then act. Correct means: nobody is half signed up, flags change
  only as an administrator asked, every request is answered.
* *Cluster and node handlers.* Existence and conflict checks before inserts,
  by names that are partly not passed on. Correct means: what was named is
  changed, and node ids are unique in a cluster.
* *Reshard and Reactor.* A prompt-driven child process behind two unbuffered
  pipes, ended by silence or by cancellation. Correct means: the dialogue
  is answered in the child's order, everything ends, nothing blocks for ever,
  success is reported only for a child that finished.
* *Parser and plans.* Pure functions on hostile layout. Correct means: every
  line yields its node, the slots moved are the slots the node had.
* *Rails handler, server.* Locks left held, callbacks and broadcasts racing the
  end of a connection, three closings at shutdown in no order.

`PROJECT.json` "hazards" places each of these at the line where it bites.

## 2. The modules

| Module | Models |
|---|---|
| `AtomicStore` | what VisitTx promises: its statements reach the database all together, once, while it runs, or not at all |
| `Store` | Visit and VisitTx over the shared connection, one step per message |
| `StoreProofs`, `StoreSerialProofs` | theorems about `Store` |
| `Handlers` | what all REST handlers have in common: a request, the steps of Visit and VisitTx around its statements, the connection and its transaction, seen more coarsely than in `Store` |
| `HandlersProofs` | what the proofs about both share: one request at a time, and whose the transaction is |
| `RestUsers` (extends `Handlers`) | the user and session handlers over users, passwords, sessions |
| `RestUsersProofs` | theorems about `RestUsers` |
| `RestClusters` (extends `Handlers`) | the cluster and node handlers over clusters, nodes |
| `Directory` | what the cluster and node handlers promise: a directory that changes only as a request names it |
| `RestClustersProofs` | theorems about `RestClusters`, among them that it implements `Directory` |
| `Reshard` | CLI.Reshard, the Reactor, the child and all goroutines and pipes between them |
| `Command` | what a call of Reshard promises its caller |
| `ReshardProofs` | theorems about `Reshard`, among them that it implements `Command` |
| `ClusterNodes` | GetClusterNodes and GetNoSlotNodes: what is read out of the lines of `cluster nodes` |
| `SlotPlans` (extends `ClusterNodes`) | ReshardAll, ExceptNode, MergeNode on a cluster that may change meanwhile |
| `SlotPlansProofs` | theorems about `SlotPlans` |
| `Server` | NewServer, ListenAndServe and the two AfterFuncs that end them |
| `RailsHandler` (extends `Server`) | ServeHTTP, Broadcast, the callback with the login |
| `RailsProofs` | theorems about `RailsHandler` |
| `MC*` | the instances TLC checks |

How they compose: `Store` is the connection message by message, and what it
shows of VisitTx is why `Handlers` may make a statement and its reply one step.
`Reshard` is the dialogue with one child, and `Command`, which it implements, is
all `SlotPlans` assumes of a call of it: nil for a child that has done what it was
started for (`Moved`), nil for one that was never started, whether or not the caller
has given up (`NotStarted`), an error otherwise (`Broke`, `Killed`). The WebSocket
handler runs on the connections of `Server` (`net`), which `Upgrade` takes away from
those that Shutdown waits for; the requests of REST on the same server are in `Server`.

### Store

A *call* is one use of Visit or VisitTx by one request. `pc` is the SQL it is
at: `begin`, `visitor` (with `next`, the statement), `commit`, `rollback`;
`rerun` is the second run of the visitor that `VisitTx` ends with; `err` is what
the call returned and `responseStatus` the closure variable of the handler
around it, with the two values the properties tell apart. `conn` and `holder`
are pgx's connection and whose SQL is in flight; `tx` is the server's
transaction status; `work` and `durable` are the marks `<<call, statement>>`
made in the open transaction and in the database.

| Code | Action |
|---|---|
| a request reaches Visit or VisitTx | `Call` |
| pgx takes the connection and writes | `Send` |
| the reply of BEGIN, a statement, COMMIT, ROLLBACK | `BeginReply`, `StatementReply`, `CommitReply`, `RollbackReply` |
| any of them fails | `BeginFails`, `StatementFails`, `CommitFails`, `RollbackFails` |
| `return visitor(ctx, q)`, store.go:54 | `VisitAgain` |
| a visitor that returns nil early, rest.go:79-82 and 86-88 | `VisitorLeaves` |
| a visitor in HashPassword, rest.go:84 and 200 | `VisitorSpins` |
| the request's context is done | `Cancel` |
| the context of `New` is done | `Shutdown` |

pgx and PostgreSQL are not part of the repository; they are modelled from how
store.go uses them. SQL is refused at once while other SQL is in flight, on a
closed connection, or with a context that is done (`Refused`). A BEGIN or
ROLLBACK that fails makes pgx close the connection, and so does a COMMIT that
fails with a transaction open; a context that is done while SQL is in flight
closes it too (`Drop`), and whether the server executed that SQL is open
(`Landed`). BEGIN inside a transaction only warns; the COMMIT of a failed
transaction rolls back. pgx's busy check is not synchronised between
goroutines; it is taken as atomic, which is the kinder reading of the code.
A visitor is `StmtCount` statements that each write; a visitor that only reads
is one whose marks nobody looks at. After its first statement a visitor may also
object and yet return nil, with `responseStatus` set, as Login's does for a deleted
user or a wrong password (`VisitorLeaves`: of Visit calls only), or call
`HashPassword`, whose loops never end (`VisitorSpins`: Login in a Visit, CreateUser in
a VisitTx). A call that spins stays so: a cancelled context does not reach it, and a
transaction it has open stays open until the connection is closed by somebody else.

### Handlers, RestUsers, RestClusters

The handlers share the connection and transaction of Store, seen more coarsely:
a statement and its reply are one step (`Executes`), a statement may be turned down at
any time (`StatementRefused`, `TxRefused`: busy, closed, or the client is gone),
and the connection may be lost with a statement in flight (`Lost`). `db` is the
tables as the connection sees them and `saved` what the open transaction would be
rolled back to; `Committed` is what survives now. There is one action per query:
its condition, its effect on the tables, and what the handler does with its result
(`Succeed`, `Fail`, `Continue`). `pc` of a call is the query it is at.

Requests turned away before the store is called (no cookie, no email, malformed
JSON) change nothing and are left out.

*Users.* The handlers never look at a session's `expired` flag, so the model keeps
it and nothing reads it. DeleteUser passes the cookie's token for the email, so
its statement finds no row. No handler sets `deleted`; the initial state may have
users so marked, as it must have an administrator, whom no handler can create.
`HashReturns` stands for the one thing that would keep the model from reaching
anything behind a password: both loops of `HashPassword` wait for a counter that
is never incremented. FALSE is the code, and the run `users_login` shows what it
means. TRUE lets the hash end, so that the rest of Login and CreateUser is
checked as well; the properties of `users_serial` are about those handlers with
the loop repaired. What the function would return depends on the salt alone;
the comparison with the stored hash is modelled as that makes it.

*Clusters.* Names and node ids are naturals, because the listings order by them;
`Unnamed` is the empty string, which CreateCluster and CreateNode take for a name and
a node id like any other, and the listings for the cursor of the first page. Most of these queries take the cluster's name, and
several calls leave it out: the WHERE of UpdateCluster, both checks of CreateNode
and the lookup of GetNode then speak of the cluster whose name is empty, and so
they do in the model (`UpdateCluster`, `GetNodeByHostPort`, `GetNodeByNodeID`).
CreateNode takes any error of its checks for "no such node" (`CheckErrs`); an
error of the server has failed the transaction all the same. The tables have the
constraints of schema.sql: the unique name, the NOT NULL of a node's cluster, the
cascade, and no constraint on node ids. A listing returns some page that ORDER BY
and LIMIT allow (`Pages`).

| Code | Action |
|---|---|
| conn.Begin, tx.Commit, tx.Rollback, and their errors | `Begin`, `Commit`, `Rollback`, `TxRefused` |
| q.GetSession, GetUserBySession, GetUser, ... | the action of that name |
| q.CreateCluster, GetCluster, GetClusters(ByCursor), UpdateCluster, DeleteCluster | the action of that name |
| q.GetNodeByHostPort, GetNodeByNodeID, CreateNode, GetNodes(ByCursor), DeleteNode | the action of that name |

### Reshard

    child -out-> drain -ipw/ipr-> scanner -scanCh-> react
    child <-typed- feeder <-opr/opw- react

Each arrow is a pipe or a channel and each name a process: the child, the two
goroutines with which os/exec copies its stdin and stdout, the scanner goroutine
and the loop of React, and besides them the goroutine that watches the context
(`watcher`) and the caller in cmd.Run (`run`). The io.Pipes hold nothing: what a
copier has read it keeps (`drained`, `fed`) until the other side takes it. The
child writes question q as the token q and anything else as `Text`; React answers
a token with the reaction whose key it contains (`Reaction`). How often the child asks
again and how much it reports has no bound, in the model as in the code: only what is in
its stdout at once has (`PipeSize`), as a pipe's content has.

| Code | Action |
|---|---|
| cmd.Run: Start, the wait, the watcher's result, the copiers' | `RunStart`, `RunStarted`, `RunWait`, `RunWatch`, `RunAwait` |
| `err != nil && !errors.Is(...)`, cli.go:349 | `Returns` |
| scanner.Scan, `scanCh <-`, close(scanCh) | `ScanReads`, `ScanSends`, `ScanEnds` |
| the select of React and the answer | `ReactTicks`, `ReactReads`, `ReactAnswers` |
| the callback: cancel, ipw.Close, opr.Close | `Cancel`, `CloseOut`, `CloseIn` |

os/exec and the child are external, taken from how Reshard uses them: a context,
a stdin and a stdout that are no files. `ReactTicks` may happen at any moment, so
a child that is at work may at any moment have been silent for a second.

### ClusterNodes, SlotPlans

A line of `cluster nodes` is modelled at the level of its fields, the slots as
the numbers of their blocks, the lowest first (`Border`, `InOrder`: one number for a
block of one slot). The parser's two flags that outlive a line are kept: neither is
ever reset, so that both say whether there was a replica before the line. The first
replica's master is read, a later one's passes for the link state, and its times
for slots (`ParseLine`). The cluster is external: `masterOf` and `slots`, `Failover` at
any moment between the reading and the end, and `moving`, the masters that a slot is
half moved to or from, either side of it known to it or not. Only the node that answers
(`myself` in `Read`) shows that, and only of itself: an entry in brackets, which is read as
the slots 0 and 0, also of a node that has none. `Read`, `Plan` and `Reshard` are the phases
of an operation; `plan` is the calls of Reshard that are left, and `skipped` remembers that one
of them returned nil without a child (`NotStarted`): the caller gave up before it was
started, or React's own tick, which runs beside cmd.Run (cli.go:328-330), came first. What valkey-cli does with a plan is external:
it asks again until number and node are valid (`Accepted`, `Hangs`), takes from each
source in proportion (`Taken`), and may break off anywhere (`Broke`).

### Server, RailsHandler

| Code | Action |
|---|---|
| net.Listen, Serve | `Listen`, `Serve`, `ServeReturns` |
| a connection and its requests (net/http) | `Accept`, `Received`, `NextRequest` |
| a REST handler: it answers, or hashes a password | `RestAnswers`, `RestSpins` |
| the AfterFuncs of server.go | `CloseListener`; `ShutdownBegins`, `ShutdownEnds` |
| ws.UpgradeHTTP, and its error | `Upgrade`, `BadProtocol` |
| Lock, h.sessions[remoteAddr] = conn, Unlock | `StoreSession` |
| ReadClientBinary, and its error | `ReadMessage`, `ReadFails` |
| the AfterFunc of ServeHTTP | `Unregister` |
| the callback of RegisterDefaultHandlers | `Callback`, `Login`, `Hash`, `Respond` |
| Broadcast | `BroadcastStarts`, `BroadcastEnds` |

`Shutdown` is given `context.TODO()` and so waits for every connection that has a request,
from its first byte (`arriving`) until it is answered or taken over (`active`, `rest`,
`spinning`), and closes those without one (`idle`). A request that is no WebSocket's leaves
the connection to net/http, or, if UpgradeHTTP took it over first, to nobody.

Three omissions keep this handler from being used at all: the sessions map is not
made, the session state's lock is nil, the hash never ends. `Builds` says which
of them are made good: `{}` is the code as it is, and every initial state
chooses one, so each property is checked of the code as it is and of what is
behind each omission.

## 3. The runs

| Run | Expect | Shows |
|---|---|---|
| `store_overlap` | pass | `Overlap = TRUE`: three calls interleaved at will, clients leaving, shutdown. `NoOrphanTransaction`: an open transaction has a call whose task it is to end it. `Returns`: every call returns, unless its own visitor spins. `TransactionEnds`: a transaction stays open only under a visitor that spins |
| `store_serial` | pass | `Overlap = FALSE`. `TxAtomic`, `ConnectionSurvives`, `VisitKept`, `OkMeansDoneWhileOpen`, and `ImplementsAtomicStore`, the refinement |
| `store_ok_means_done` | violation | a failing BEGIN or COMMIT is answered 200 |
| `store_done_means_ok` | violation | a committed VisitTx is answered with an error, because of the second run of the visitor |
| `store_visit_kept` | violation | with overlapping calls, a successful Visit is rolled back with another request's transaction |
| `users_serial` | pass | two requests of any kind one after the other: `UsersHavePasswords`, `OnlyDemoteDemotes`, `ValidatedStays`, `ChangedByAdmin`, `DeletedLeftAlone`, `Answered` |
| `users_lost_update` | violation | with overlapping requests, ActivateUser undoes a promotion or a demotion |
| `users_login` | violation | with the hash as it is, a login is never answered |
| `clusters_serial` | pass | two requests of any kind, from any small tables: `ImplementsDirectory` (refinement), `UnnamedNodesUnique`, `PagesComplete`, and, in `TypeOK`, that no node outlives its cluster |
| `reshard` | pass | `ImplementsCommand` (refinement): Reshard returns only when its child has ended, and its result is true of it. `CallReturns`: it returns, from every dialogue that is not endless. `OneQuestion`: one answer per question, in turn. `LeavesNothing`: after such a dialogue the goroutines end |
| `slot_plans` | pass | `ExceptNodeEmpties`, `MergeNodeEmpties`, `ReshardAllFills`: what a nil means. `ExceptNodeEnds` |
| `rails` | pass | `ServedRegistered`, `OneLogin`, `DeadSessionsGo`; `ShutdownReturns`: the shutdown ends, unless a client stops in the middle of a request or a REST handler spins |

*One request at a time, and overlapping.* keycl serves requests concurrently,
and most of what one would want of the store fails then; the violation runs say
how. `Overlap = FALSE` is the question what the code gets right by itself: under
a client that waits for its answers (or a proxy that serialises), with
failures, cancellations and shutdown still at any step. What holds even with
overlapping calls is checked with `Overlap = TRUE`.

*Conditions in the properties.* Some say exactly how far the code goes.
`UnnamedNodesUnique` is about the one cluster CreateNode's checks look at.
`OkMeansDoneWhileOpen` excepts the visitor that objected and returned nil (Login's),
and `VisitKept` and `OkMeansDone` are about visitors that did not. `Returns`
and `TransactionEnds` except the call that spins in HashPassword, its own or the
transaction's. `PagesComplete` promises every node id, not every node, and
those of a cluster only in which the nodes with the empty id do not fill a page.
`ImplementsCommand` lets a call that was cancelled before the child was started,
by its caller or by React's tick, report success, because cli.go:349 takes
context.Canceled for it; for the same reason the properties of `slot_plans` are
about operations whose children were all started (`Done`, `skipped`).
`MergeNodeEmpties` excludes sources with a block of one slot, `ReshardAllFills`
and `ExceptNodeEnds` a failover since the reading, and `ReshardAllFills` a master that a
slot is half moved to. `CallReturns` and `LeavesNothing` except a child that asks or
reports for ever while the caller waits (`Endless`), and `LeavesNothing` also
a scanner that has more tokens than the channel takes. `ShutdownReturns` excepts a
connection that stays for ever in the middle of a request, because its client stopped or
its handler spins (`Stuck`).

*Bounds, and why they are enough.*
- Store: two VisitTx and one Visit is the least that has a pair of transactions
  to mix up and a third party whose statement falls between; two statements per
  visitor give a half-done transaction. No call is made twice; a run ends in `Idle`.
- RestUsers: two requests, each of any operation, email and token; two emails:
  the seeded administrator and a user who is unknown, known or deleted at the start.
- RestClusters: two requests; the empty name and one other; the empty node id and two others, two
  addresses, and one node at the start, so that with two CreateNodes there are
  three nodes and two have an id in common; a page of two, so that there is a second page.
- Reshard: two questions (order), each asked again and between other lines as often as
  the child likes, a channel of two (it can be full with a token left), a stdout of three.
- SlotPlans: four nodes and five slots, all distributions and all roles: the least
  with a node of two blocks that has a neighbour on either side, and with two
  replicas. `Subjects` is two nodes and an id nobody has, `HalfMoved` (what may be half moved at the
  start, from or to) the same two nodes. `Stamp` exceeds the number of
  slots and the epoch together, as a time in milliseconds does.
- Rails: two connections, from one address or two, of WebSockets or with REST requests;
  two messages, of one
  connection or of both; one broadcast.

Deadlock is checked in every run; where a system may stop, `Next` says so.

*Fairness.* In `Store`, `RestUsers`: weak fairness of the steps a call's own
goroutine takes with a server that replies; in `Store` a visitor may spin instead. In `Reshard`: of every goroutine of the
program and of os/exec, and of the ticker; none of the child, which may hang, and
none of the caller's cancellation. In `RailsHandler`: of the server's steps and
AfterFuncs, of the answer of a REST handler that does not spin and of what ServeHTTP does without
its client; none of requests, of messages, of the ends of connections, of broadcasts or of the
shutdown. Go runs every runnable goroutine, and a
connection whose server never replies is a fault the code has no timeout for.
`RestClusters` and `SlotPlans` state no liveness: their steps are Store's and Reshard's.

## 4. The proofs

Every invariant, action property and refinement that a passing run checks is also
a theorem, for every value of the constants: any number of requests, users,
clusters, nodes, slots, connections and messages.

*Assumptions.* Those on the constants are named and in the modules that declare
them, and TLC evaluates them in the runs. They bound no size. `StoreAssumption`, `RailsAssumption`,
`ReshardAssumption` and `SlotPlansAssumption` type the constants.
`RestUsersAssumption`, `RestClustersAssumption` and `NothingAssumption` also keep
apart the values that stand for things of different kinds: an id made by a call is
not one that was there before, a cluster's seeded id (its name) is not a call, no
request is `Nothing`. Node ids are naturals, the empty one among them. `PageSize` (10 in the code) is at least 2: a page with nothing
but the unnamed cluster leaves no cursor to ask for the next one with. `ClusterNodesAssumption` has `Stamp > MaxSlots + Epoch`: a replica's
ping time, in milliseconds since 1970, passes for a slot number, and what is
counted with it must not be accepted as a number of slots; an epoch grows by one
with a failover. `Init` of `RestClusters` says that the tables in use at the start are
finite, which a page with a last row needs.

*Store.*
* `TypeCorrect`, for `TypeOK`.
* `TransactionOwned`, for `NoOrphanTransaction` with overlapping calls. It is
  inductive once it is known that only VisitTx calls stand at BEGIN, COMMIT,
  ROLLBACK or the second run (`TxSteps`); each action either keeps its call at a
  step that owns the transaction or ends the transaction.
* `SerialCorrect`: with `Overlap = FALSE`, `SerialInv`. None of
  the serial properties is inductive by itself: that a COMMIT makes all marks
  durable needs that all of them are in the transaction when it is sent, that
  none was durable before, and that nobody else's are in there. `SerialInv` says
  for each call where its marks are at each `pc` (`TxInv`, `VisitInv`), and that
  one call runs and the connection is its own (`ConnInv`). `DropKeepsMarks` is
  the case of a connection that is closed with a COMMIT in flight.
* From it `SerialTxAtomic`, `SerialConnectionSurvives`, `SerialVisitKept`,
  `SerialOkMeansDone`, each the property of that name in `store_serial`.
* `SerialImplementsAtomicStore`: every step of Store is a step of AtomicStore or
  none. `CommitReply`, and a closing that lets a COMMIT land, are its `Apply`;
  a call's last step is its `Return`; the rest is stuttering (`AtomicStep`).

*Rails handler.* `RailsTypeCorrect`, `OneLoginAtATime`, `ServedAreRegistered`, from
the invariant `HandlerInv`, for every `Builds`. `ServedRegistered` is inductive by itself:
a session is only ever replaced or removed by a connection that has been registered,
and `after` never goes back. `OneLogin` needs `LoginLocked`: who logs in has
taken the lock of its session, so the next callback finds it taken.

*REST handlers.* `HandlersProofs` has the part both share: with `Overlap = FALSE`, an
open transaction is that of the one running request, which is past its BEGIN, and a request
at its COMMIT has an open, unfailed one (`SerialInv`). Type correctness is proved with
overlapping requests too, everything else with one request at a time unless said otherwise.
* `UsersSafe`: `SafeInv` of RestUsers. That nobody is half signed up
  (`SignedUpWithPassword`) is not inductive: a user without a password is there
  between the two inserts, so it must be known that only the running CreateUser has
  such a one, in the transaction and not in what that would be rolled back to
  (`PasswordsOK`), and that the id under which it writes the password is of its own user
  (`IDsOK`). `ReadOK` says that what a visitor has read is still so when it writes:
  the row it writes back, the administrator who asks. `ViewOK` compares the
  transaction with what it is rolled back to, for the step that drops it.
* From it `OnlyDemotesDemote`, `ValidatedForGood`, `AdminsChangeUsers`,
  `DeletedUntouched`. With overlapping requests the run `users_lost_update` shows what becomes of `ReadOK`.
* `ClustersSafe`: `SafeInv` of RestClusters. For `NoNodeTwice` it must be known that
  CreateNode's two checks still hold when it inserts, or that the transaction has
  failed, because it takes errors for absence (`CheckedOK`), and that the id of the
  cluster inserted into is one cluster's (`KeysOK`).
* `ClustersImplementDirectory`: every step of the handlers is a step of `Directory` or
  none. `ImplInv` adds what is open on the connection (`RefInv`): before the
  COMMIT of a listing or a check nothing, at a COMMIT exactly the change the request names.
* `PagesShowAll`: who follows the cursors of a listing to the end has seen every
  cluster, and every node id of a cluster in which the nodes with the empty id do not fill a page,
  for every table and page size, and with overlapping requests. The last row of a
  page that is not the last one lies beyond the first row that would have been missed.

*Reshard.*
* `ReshardImplementsCommand`, from `RunInv`: what cmd.Run has found out is true of the
  child, which is gone once Run is past its wait. The steps of the pipes are stuttering.
* `OneQuestionAtATime`, from `OneInv`: while the child waits at a question and the pipes are
  open, the question or its answer is at exactly one place of the ring
  (`Place`: stdout, the copiers' hands, the channel, ...), and while it does not wait no
  place has one. `Passes` is the step all goroutines have in common: one place hands on to another.

*Slot plans.* A failover may come at any step, and exchanges a master and its
replica. What it leaves alone is `Held`: the slots of a node or, if it has become a
replica, of its master; the invariants speak of that.
* `ExceptNodeComesToAnEnd`, `ExceptNodeEmptied`, from `PlanInv`: the borders that were
  read enclose what the source holds (`NodesInv`), so the one call planned
  takes at least as many slots (`ExceptInv`), and a call that takes that many
  empties its source (`OneCallEmpties`).
* `ReshardAllFilled`, from `AllInv`: the calls left are for different nodes, and every master
  without slots has one, unless a slot is half moved to it or a call was skipped. That a call never empties a node that has slots is
  arithmetic of the shares valkey-cli takes, rounded up for one source and down for the others (`FairShares`).
* `BlocksCounted`: for a set of slots without a block of one, the numbers read are even in
  number and MergeNode's sum over them is its cardinality; by induction over the
  blocks, the gap between two of them being empty (`Gap`). With it `MergeNodeEmptied`,
  from `MergeInv`: the call planned takes no less than the source holds.

*Induction.* Where a proof is by induction (`Induction`, `PagesShowAll`), it takes the
least counterexample, an element of a set of numbers; no induction theorem that
takes an operator is used, and no module has a RECURSIVE operator: what
recurses is a recursive function (`CountPairs`), about which `Sums` and `PairsCounted` say that
there is one.

*Only model-checked:* liveness (`Returns`, `TransactionEnds`, `Answered`,
`CallReturns`, `LeavesNothing`, `DeadSessionsGo`, `ShutdownReturns`), which with its fairness is outside what the prover handles.
The properties of the violation runs are false, and what is left of them where it is
weaker is among the theorems (`VisitKept`, `OkMeansDoneWhileOpen`).

## 5. Facts met on the way

Beside the findings in `PROJECT.json`, which runs show, what reading and modelling the
code brought up and no property says:

* The 409 of POST /api/node (lib/api/rest/swagger.yaml:719) is answered only for
  the cluster with the empty name; PATCH /api/cluster changes only that cluster.
* The login of a deleted user is answered 200 {success:true}, with an empty token and no
  session, where lib/api/rest/swagger.yaml:268 has 401: the visitor sets 401 and returns nil
  (rest.go:79-82). So would be one with a wrong password, if its hash ended (86-88).
* A CreateUser that is not turned down spins in HashPassword with its transaction open, and a
  shutdown waits without a limit for every Login and CreateUser that spins (server.go:25).
* CreateNode takes an empty node id. After a full page of such nodes the cursor is empty, and
  the listing starts over with the first page.
* A rails login that succeeds is not answered; and the code as it is serves no
  WebSocket: the first panics with the lock held, the others wait, and so does every Broadcast
  from then on. The shutdown does not wait for them.
* MergeNode, of a source with an odd number of one-slot blocks, indexes out of range;
  of an even number it counts too few slots and still returns nil.
* ExceptNode refuses the node that holds the first or the last slot of the cluster:
  it wants a neighbour on both sides, and then takes one.
* ReshardAll counts a replica that is read correctly among the nodes without slots:
  valkey-cli does not take it for a receiver, asks again, and React answers until
  the caller gives up. Cancelled between two reshards, ReshardAll returns nil.
* React starts its ticker beside cmd.Run. A tick before the child is started cancels Reshard's
  own context, Start returns context.Canceled, and Reshard, ExceptNode, MergeNode or ReshardAll
  returns nil with nothing moved, to a caller that has not given up (cli.go:328-330, 349).
* A master without slots that a slot is being moved to prints `[slot-<-id]` when it is
  the node asked, which is read as the slots 0 and 0 (cli.go:167-176): ReshardAll overlooks it.
* A child that asks or reports for ever is answered and heard for ever: nothing but the
  caller's context bounds a reshard.
* That scanCh is closed is a case React's select cannot meet: the scanner ends only
  after React has left its loop.

## 6. Not modelled

* *CLI commands* (CreateCluster, AddNode, ForgetNode, DeleteNode, ReplicateNode,
  Rebalance, GetClusterInfo): each builds arguments, runs one process and returns
  its error or what it printed. They have no state and no order of steps. (That
  GetClusterInfo slices out of range on a line without a colon, and that
  `cluster forget` and `cluster replicate` exit 0 on an error reply, show up in any one call.)
* *Generated code* (`model/gen`, row scanning and unused queries in
  `queries.sql.go`): types and their encoding.
* *The frames of WebSockets*: that two goroutines write to one connection, and a
  frame's header and payload are two writes.
* Formatting, logging, headers and cookies; requests rejected before the store is
  called; what the hashes compute; `main.go`, a script of CLI calls.
* *A caller's deadline*: cli.go:349 would tell DeadlineExceeded from a cancellation; no caller in
  the repository sets one (`main.go` only cancels), and none is modelled.
* Two slot plans at once on one cluster: valkey-cli's own locking is all there would be to model.

## 7. Plan

The modules above are the system as far as it is to be modelled, and the safety
properties of the runs are proved. What could still be added:

1. What the parser reads for any cluster: that of a cluster with no replica, or with one, every
   line yields its node and its blocks, as a theorem about `GetClusterNodes`.
2. That MergeNode comes to an end without a panic when its source has no block of one
   slot, which `BlocksCounted` has the arithmetic of.
3. The part of the login and the callbacks behind the three omissions, should the code make them good:
   the modules have it (`HashReturns`, `Builds`), and the runs would be those of the code.
