------------------------------- MODULE Reshard -------------------------------
(***************************************************************************)
(* CLI.Reshard (lib/cli/cli.go) with the Reactor (lib/cli/reactor.go): the  *)
(* child process, and the goroutines that wait for it, watch its context,  *)
(* copy its stdin and stdout, scan its output and answer its questions.    *)
(*                                                                         *)
(*   child -out-> drain -ipw/ipr-> scanner -scanCh-> react                 *)
(*   child <-typed- feeder <-opr/opw- react                                *)
(*                                                                         *)
(* out and typed are pipes of the operating system; ipw/ipr and opr/opw    *)
(* are io.Pipes, which hold nothing: a write ends when it has been read.   *)
(* The child's question q is the token q, and so is the answer to it; any  *)
(* other token is Text.  What os/exec does is taken from how Reshard uses  *)
(* it: a command with a context, and a stdin and stdout that are no files. *)
(***************************************************************************)
EXTENDS Naturals, Sequences

CONSTANTS Questions,  \* how many questions valkey-cli asks: 3, or 4 if sourceNode is not "all"
          ChanSize,   \* the capacity of scanCh: 10
          PipeSize,   \* bound: tokens in the child's stdout before it blocks
          Nothing     \* no result yet

ASSUME ReshardAssumption ==
  /\ Questions \in Nat
  /\ ChanSize \in Nat \ {0}
  /\ PipeSize \in Nat \ {0}
  /\ Nothing \notin {"ok", "error"}

VARIABLES
  child,    \* none, working, asking, done (exit 0), failed, killed
  at,       \* the question the child is at
  out,      \* its stdout: tokens
  typed,    \* its stdin: answers
  ctx,      \* the context: live, done
  run,      \* cmd.Run: start, wait, watch, await, returned
  err,      \* the error Run has found so far: none, exit, canceled, closed, start
  result,   \* what Reshard returned
  watcher,  \* the goroutine of the context: none, watching, signalled, ended
  feeder,   \* the copier of stdin: none, copying, ended
  fed,      \* the answer it has read and not written, or Text
  drain,    \* the copier of stdout: none, copying, ended
  drained,  \* the tokens it has read and not written
  closed,   \* the ends of the io.Pipes that React has closed: ipw, opr
  broken,   \* a copier has ended with io.ErrClosedPipe
  tokens,   \* what the scanner has read and not sent
  scanner,  \* scanning, ended
  scanCh,   \* tokens sent to React
  react,    \* select, cancel, closeOut, closeIn, gone
  reply,    \* the answer it writes, or Text
  heard     \* has a command come since the last tick?

childVars == <<child, at>>
runVars == <<run, err, result, watcher>>
reactVars == <<react, reply, heard>>
vars == <<childVars, out, typed, ctx, runVars, feeder, fed, drain, drained, closed,
          broken, tokens, scanner, scanCh, reactVars>>

Question == 1..Questions
Text == 0
Token == Question \cup {Text}

Alive == child \in {"working", "asking"}
Dead == child \in {"done", "failed", "killed"}

Init == /\ child = "none" /\ at = 1
        /\ out = <<>> /\ typed = <<>>
        /\ ctx = "live"
        /\ run = "start" /\ err = "none" /\ result = Nothing
        /\ watcher = "none"
        /\ feeder = "none" /\ fed = Text
        /\ drain = "none" /\ drained = <<>>
        /\ closed = {} /\ broken = FALSE
        /\ tokens = <<>> /\ scanner = "scanning" /\ scanCh = <<>>
        /\ react = "select" /\ reply = Text /\ heard = FALSE
-----------------------------------------------------------------------------
(* The child: valkey-cli --cluster reshard.  How often it asks again and how *)
(* much it reports is up to it: React answers and listens every time.      *)

Write(text) == /\ Len(out \o text) <= PipeSize
               /\ out' = out \o text

ChildAsks == /\ child = "working"
             /\ at \in Question
             /\ Write(<<at>>) \/ Write(<<at, Text>>)
             /\ child' = "asking"
             /\ UNCHANGED <<at, typed>>

\* It goes on, or asks the same again.
ChildReads == /\ child = "asking"
              /\ typed # <<>>
              /\ typed' = Tail(typed)
              /\ child' = "working"
              /\ at' \in {at, at + 1}
              /\ UNCHANGED out

ChildTalks == /\ child = "working"
              /\ Write(<<Text>>)
              /\ UNCHANGED <<child, at, typed>>

ChildEnds == /\ \/ child = "working" /\ at \notin Question /\ child' = "done"
                \/ Alive /\ child' = "failed"
             /\ UNCHANGED <<at, out, typed>>

Child == /\ ChildAsks \/ ChildReads \/ ChildTalks \/ ChildEnds
         /\ UNCHANGED <<ctx, runVars, feeder, fed, drain, drained, closed, broken,
                        tokens, scanner, scanCh, reactVars>>

\* The caller gives up: its context is cancelled.  (A deadline would be told
\* apart at cli.go:349; no caller in the repository sets one.)
CallerCancels == /\ ctx = "live"
                 /\ ctx' = "done"
                 /\ UNCHANGED <<childVars, out, typed, runVars, feeder, fed, drain, drained,
                                closed, broken, tokens, scanner, scanCh, reactVars>>
-----------------------------------------------------------------------------
(* cmd.Run, in the goroutine of Reshard's caller.                          *)

\* Mutation: whatever comes of a context that is done is taken for success.
ReturnsIgnoringKill(e) == /\ run' = "returned"
                          /\ result' = IF e = "start" \/ (e = "exit" /\ ctx = "live")
                                       THEN "error" ELSE "ok"
                          /\ ctx' = "done"

\* A cancelled context and a closed pipe count as success; cancel is deferred.
Returns(e) == /\ run' = "returned"
              /\ result' = IF e \in {"exit", "start"} THEN "error" ELSE "ok"
              /\ ctx' = "done"

\* Start looks at the context before it starts the child and the goroutines.
RunStart ==
  /\ run = "start"
  /\ \/ ctx = "done" /\ err' = "canceled"
     \/ err' = "start"
  /\ Returns(err')
  /\ UNCHANGED <<childVars, watcher, feeder, drain>>

RunStarted ==
  /\ run = "start"
  /\ ctx = "live"
  /\ run' = "wait"
  /\ child' = "working"
  /\ watcher' = "watching"
  /\ feeder' = "copying"
  /\ drain' = "copying"
  /\ UNCHANGED <<at, ctx, err, result>>

\* The child is reaped.
RunWait == /\ run = "wait"
           /\ Dead
           /\ run' = "watch"
           /\ err' = IF child = "done" THEN "none" ELSE "exit"
           /\ UNCHANGED <<childVars, ctx, result, watcher, feeder, drain>>

\* The watcher's result counts only if the child's status was a success.
RunWatch == /\ run = "watch"
            /\ run' = "await"
            /\ err' = IF err = "none" /\ watcher = "signalled" THEN "canceled" ELSE err
            /\ watcher' = "ended"
            /\ UNCHANGED <<childVars, ctx, result, feeder, drain>>

\* Both copiers have ended; what broke one counts if nothing else went wrong.
RunAwait == /\ run = "await"
            /\ feeder = "ended"
            /\ drain = "ended"
            /\ err' = IF err = "none" /\ broken THEN "closed" ELSE err
            /\ Returns(err')
            /\ UNCHANGED <<childVars, watcher, feeder, drain>>

Run == /\ RunStart \/ RunStarted \/ RunWait \/ RunWatch \/ RunAwait
       /\ UNCHANGED <<out, typed, fed, drained, closed, broken, tokens, scanner, scanCh,
                      reactVars>>

\* The goroutine of the context kills the child; the signal gets through also if
\* it has ended by itself and has not been reaped.
Watch == /\ watcher = "watching"
         /\ ctx = "done"
         /\ run = "wait"
         /\ watcher' = "signalled"
         /\ child' = IF Alive THEN "killed" ELSE child
         /\ UNCHANGED <<at, out, typed, ctx, run, err, result, feeder, fed,
                        drain, drained, closed, broken, tokens, scanner, scanCh, reactVars>>

\* The copier of stdin.  A dead child's pipe ends it without an error, the pipe
\* React has closed ends it with one.
Feed == /\ feeder = "copying"
        /\ \/ /\ fed # Text
              /\ fed' = Text
              /\ IF Dead
                 THEN feeder' = "ended" /\ UNCHANGED typed
                 ELSE typed' = Append(typed, fed) /\ UNCHANGED feeder
              /\ UNCHANGED broken
           \/ /\ fed = Text
              /\ "opr" \in closed
              /\ feeder' = "ended"
              /\ broken' = TRUE
              /\ UNCHANGED <<fed, typed>>
        /\ UNCHANGED <<childVars, out, ctx, runVars, drain, drained, closed, tokens,
                       scanner, scanCh, reactVars>>

\* The copier of stdout, until the end of the child's output.
Drain == /\ drain = "copying"
         /\ \/ /\ drained = <<>>
               /\ out # <<>>
               /\ drained' = out
               /\ out' = <<>>
               /\ UNCHANGED <<drain, broken>>
            \/ /\ drained = <<>>
               /\ out = <<>>
               /\ Dead
               /\ drain' = "ended"
               /\ UNCHANGED <<drained, out, broken>>
            \/ /\ drained # <<>>
               /\ "ipw" \in closed
               /\ drained' = <<>>
               /\ drain' = "ended"
               /\ broken' = TRUE
               /\ UNCHANGED out
         /\ UNCHANGED <<childVars, typed, ctx, runVars, feeder, fed, closed, tokens,
                        scanner, scanCh, reactVars>>
-----------------------------------------------------------------------------
(* Reactor.React.                                                          *)

\* The scanner takes what the copier writes, and sends the tokens one by one;
\* it ends when React has closed the pipe.
ScanReads == /\ tokens = <<>>
             /\ drained # <<>>
             /\ "ipw" \notin closed
             /\ tokens' = drained
             /\ drained' = <<>>
             /\ UNCHANGED <<scanCh, scanner>>
\* Mutation: one token more than the channel holds.
ScanSendsOneMore == /\ tokens # <<>>
                    /\ Len(scanCh) <= ChanSize
                    /\ scanCh' = Append(scanCh, Head(tokens))
                    /\ tokens' = Tail(tokens)
                    /\ UNCHANGED <<drained, scanner>>
ScanSends == /\ tokens # <<>>
             /\ Len(scanCh) < ChanSize
             /\ scanCh' = Append(scanCh, Head(tokens))
             /\ tokens' = Tail(tokens)
             /\ UNCHANGED <<drained, scanner>>
ScanEnds == /\ tokens = <<>>
            /\ "ipw" \in closed
            /\ scanner' = "ended"
            /\ UNCHANGED <<tokens, drained, scanCh>>

Scan == /\ scanner = "scanning"
        /\ ScanReads \/ ScanSends \/ ScanEnds
        /\ UNCHANGED <<childVars, out, typed, ctx, runVars, feeder, fed, drain, closed,
                       broken, reactVars>>

\* Mutation: count.Load() for count.Swap(0).
ReactTicksNoReset == /\ react = "select"
                     /\ reply = Text
                     /\ react' = IF heard THEN "select" ELSE "cancel"
                     /\ UNCHANGED <<reply, heard, ctx, feeder, fed, closed, scanCh>>

\* A second is over.  If nothing was heard in it the child is taken for finished.
ReactTicks == /\ react = "select"
              /\ reply = Text
              /\ react' = IF heard THEN "select" ELSE "cancel"
              /\ heard' = FALSE
              /\ UNCHANGED <<reply, ctx, feeder, fed, closed, scanCh>>

\* Mutation: strings.Contains with its arguments exchanged; every key contains a
\* blank line.
ReactionToBlank(token) == IF token = Text THEN Question ELSE {token}

\* The reactions whose key a token contains.
Reaction(token) == {token} \ {Text}

\* A command from the channel.  That it is closed, the other reason to leave the
\* loop, React cannot find: the scanner ends after React has closed its pipe.
ReactReads == /\ react = "select"
              /\ reply = Text
              /\ scanCh # <<>> \/ scanner = "ended"
              /\ IF scanCh # <<>>
                 THEN /\ heard' = TRUE
                      /\ scanCh' = Tail(scanCh)
                      /\ reply' \in IF Reaction(Head(scanCh)) = {} THEN {Text}
                                    ELSE Reaction(Head(scanCh))
                      /\ UNCHANGED react
                 ELSE react' = "cancel" /\ UNCHANGED <<reply, heard, scanCh>>
              /\ UNCHANGED <<ctx, feeder, fed, closed>>

\* The answer is written when the copier of stdin reads it.
ReactAnswers == /\ reply # Text
                /\ feeder = "copying"
                /\ fed = Text
                /\ fed' = reply
                /\ reply' = Text
                /\ UNCHANGED <<react, heard, ctx, feeder, closed, scanCh>>

\* Mutation: the context is not cancelled.
CancelForgotten == /\ react = "cancel"
                   /\ react' = "closeOut"
                   /\ UNCHANGED <<ctx, closed>>

\* The callback: cancel(), ipw.Close(), opr.Close().  The Kill in it is for a
\* process that has been reaped, and does nothing.
Cancel == /\ react = "cancel"
          /\ react' = "closeOut"
          /\ ctx' = "done"
          /\ UNCHANGED closed
CloseOut == /\ react = "closeOut"
            /\ react' = "closeIn"
            /\ closed' = closed \cup {"ipw"}
            /\ UNCHANGED ctx
CloseIn == /\ react = "closeIn"
           /\ react' = "gone"
           /\ closed' = closed \cup {"opr"}
           /\ UNCHANGED ctx
Callback == /\ Cancel \/ CloseOut \/ CloseIn
            /\ UNCHANGED <<reply, heard, feeder, fed, scanCh>>

React == /\ ReactTicks \/ ReactReads \/ ReactAnswers \/ Callback
         /\ UNCHANGED <<childVars, out, typed, runVars, drain, drained, broken, tokens,
                        scanner>>
-----------------------------------------------------------------------------
\* React has left: the scanner ends, unless it has more than the channel takes.
Ended == /\ run = "returned"
         /\ react = "gone"
         /\ \/ scanner = "ended"
            \/ tokens # <<>> /\ Len(scanCh) = ChanSize

Next == \/ Child \/ CallerCancels \/ Run \/ Watch \/ Feed \/ Drain \/ Scan \/ React
        \/ Ended /\ UNCHANGED vars

Spec == Init /\ [][Next]_vars

\* Goroutines are scheduled and the ticker ticks; the child owes nothing.
FairSpec == /\ Spec
            /\ WF_vars(Run) /\ WF_vars(Watch) /\ WF_vars(Feed) /\ WF_vars(Drain)
            /\ WF_vars(Scan) /\ WF_vars(React)
-----------------------------------------------------------------------------
TypeOK ==
  /\ child \in {"none", "working", "asking", "done", "failed", "killed"}
  /\ at \in 1..(Questions + 1)
  /\ out \in Seq(Token) /\ Len(out) <= PipeSize
  /\ typed \in Seq(Question)
  /\ ctx \in {"live", "done"}
  /\ run \in {"start", "wait", "watch", "await", "returned"}
  /\ err \in {"none", "exit", "canceled", "closed", "start"}
  /\ result \in {Nothing, "ok", "error"}
  /\ watcher \in {"none", "watching", "signalled", "ended"}
  /\ feeder \in {"none", "copying", "ended"} /\ fed \in Token
  /\ drain \in {"none", "copying", "ended"} /\ drained \in Seq(Token)
  /\ closed \subseteq {"ipw", "opr"} /\ broken \in BOOLEAN
  /\ tokens \in Seq(Token) /\ scanner \in {"scanning", "ended"}
  /\ scanCh \in Seq(Token) /\ Len(scanCh) <= ChanSize
  /\ react \in {"select", "cancel", "closeOut", "closeIn", "gone"}
  /\ reply \in Token /\ heard \in BOOLEAN

\* While the pipes are open, the question a child waits at is on its way to React
\* or its answer on its way back, exactly once, and nothing else is: no answer is
\* given twice, to a line that is no question, or out of turn.  (Two answers, and
\* React could wait for ever at a pipe whose reader has ended, reactor.go:99.)
OnTheWay == out \o drained \o tokens \o scanCh \o <<reply, fed>> \o typed
OneQuestion ==
  Alive /\ closed = {} =>
    LET found == {i \in DOMAIN OnTheWay : OnTheWay[i] # Text} IN
    IF child = "asking" THEN \E i \in found : found = {i} /\ OnTheWay[i] = at
    ELSE found = {}

\* Reshard returns when its child has ended, and its result is true of it: a child
\* killed because it was silent for a second, or because the caller gave up, is an
\* error, and one that ended by itself is none although its context was cancelled
\* and its pipes closed.
Cmd == INSTANCE Command WITH child <- IF Alive THEN "running" ELSE child
ImplementsCommand == Cmd!Spec

\* The child never falls silent and the caller waits: it asks for ever what it is
\* answered for ever, or never stops reporting.  Reshard has no bound on that.
Endless == [](ctx = "live") /\ []<><<ChildAsks \/ ChildTalks>>_vars

\* Reshard returns from every dialogue that is not endless: also when the child
\* is silent for ever without ending, or asks what nobody answers, and whenever
\* the caller gives up.
CallReturns == Endless \/ <>(result # Nothing)

\* After such a dialogue React leaves its loop and the goroutines it serves end,
\* but for a scanner with more tokens than the channel takes.
LeavesNothing == Endless \/ <>[]Ended
=============================================================================
