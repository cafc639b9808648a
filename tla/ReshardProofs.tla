----------------------------- MODULE ReshardProofs -----------------------------
(***************************************************************************)
(* Theorems about Reshard, for every number of questions, and every        *)
(* capacity of the channel and of the child's stdout.                      *)
(***************************************************************************)
EXTENDS Reshard, TLAPS

\* The next-state relation, action by action.
LEMMA Steps ==
  ASSUME [Next]_vars
  PROVE  \/ Child \/ CallerCancels \/ Run \/ Watch \/ Feed \/ Drain \/ Scan \/ React
         \/ UNCHANGED vars
BY DEF Next
-----------------------------------------------------------------------------
(* Types.                                                                  *)

\* The child waits for an answer at a question only.
ChildTypes ==
  /\ child \in {"none", "working", "asking", "done", "failed", "killed"}
  /\ at \in 1..(Questions + 1)
  /\ child = "asking" => at \in Question

TokenTypes ==
  /\ out \in Seq(Token) /\ Len(out) <= PipeSize
  /\ typed \in Seq(Question)
  /\ fed \in Token /\ reply \in Token
  /\ drained \in Seq(Token) /\ tokens \in Seq(Token)
  /\ scanCh \in Seq(Token) /\ Len(scanCh) <= ChanSize

ControlTypes ==
  /\ ctx \in {"live", "done"}
  /\ run \in {"start", "wait", "watch", "await", "returned"}
  /\ err \in {"none", "exit", "canceled", "closed", "start"}
  /\ result \in {Nothing, "ok", "error"}
  /\ watcher \in {"none", "watching", "signalled", "ended"}
  /\ feeder \in {"none", "copying", "ended"}
  /\ drain \in {"none", "copying", "ended"}
  /\ closed \subseteq {"ipw", "opr"}
  /\ scanner \in {"scanning", "ended"}
  /\ react \in {"select", "cancel", "closeOut", "closeIn", "gone"}

FlagTypes == broken \in BOOLEAN /\ heard \in BOOLEAN

TypeInv == ChildTypes /\ TokenTypes /\ ControlTypes /\ FlagTypes

\* The sequences a step may leave empty, and the tokens it may leave Text.
LEMMA NoTokens == <<>> \in Seq(Token) /\ Text \in Token
BY DEF Token, Text

\* A token at either end, or not, leaves a sequence of tokens one.
LEMMA TokenSeqs ==
  /\ 0 \in Token /\ Question \subseteq Token
  /\ <<>> \in Seq(Token) /\ <<>> \in Seq(Question)
  /\ \A s \in Seq(Token), t \in Seq(Token) : s \o t \in Seq(Token)
  /\ \A q \in Token : <<q>> \in Seq(Token) /\ <<q, 0>> \in Seq(Token)
BY DEF Token, Text

\* Before the child is started.
LEMMA InitTypes == Init => TypeInv
<1> SUFFICES ASSUME Init PROVE TypeInv
  OBVIOUS
<1>1. ChildTypes
  BY ReshardAssumption DEF Init, ChildTypes
<1>2. TokenTypes
  BY ReshardAssumption, TokenSeqs DEF Init, TokenTypes, Text
<1>3. ControlTypes
  BY DEF Init, ControlTypes
<1>4. FlagTypes
  BY DEF Init, FlagTypes
<1> QED
  BY <1>1, <1>2, <1>3, <1>4 DEF TypeInv

\* The child waits at its questions only.
LEMMA NextChildTypes == ASSUME TypeInv, [Next]_vars PROVE ChildTypes'
<1>0. ChildTypes
  BY DEF TypeInv
<1> USE <1>0, ReshardAssumption DEF ChildTypes, Question
<1>1. CASE Child
  BY <1>1 DEF Child, ChildAsks, ChildReads, ChildTalks, ChildEnds, Alive
<1>2. CASE Run
  BY <1>2 DEF Run, RunStart, RunStarted, RunWait, RunWatch, RunAwait, childVars
<1>3. CASE Watch
  BY <1>3 DEF Watch, Alive
<1>4. CASE UNCHANGED childVars
  BY <1>4 DEF childVars
<1> QED
  BY <1>1, <1>2, <1>3, <1>4, Steps DEF CallerCancels, Feed, Drain, Scan, React, vars

\* Only questions are answered, and neither the child's stdout nor the channel
\* holds more than it takes.
LEMMA NextTokenTypes == ASSUME TypeInv, [Next]_vars PROVE TokenTypes'
<1>0. TokenTypes /\ ChildTypes
  BY DEF TypeInv
<1> USE <1>0 DEF TokenTypes
<1>1. CASE Child
  <2>0. UNCHANGED <<fed, reply, drained, tokens, scanCh>>
    BY <1>1 DEF Child, reactVars
  <2>1. \A text \in Seq(Token) : Write(text) => out' \in Seq(Token) /\ Len(out') <= PipeSize
    BY TokenSeqs DEF Write
  <2>2. CASE ChildAsks
    <3>1. <<at>> \in Seq(Token) /\ <<at, Text>> \in Seq(Token)
      BY <2>2, TokenSeqs DEF ChildAsks, Text
    <3> QED
      BY <2>0, <2>1, <2>2, <3>1 DEF ChildAsks
  <2>3. CASE ChildReads
    <3>1. typed' \in Seq(Question)
      BY <2>3 DEF ChildReads
    <3> QED
      BY <2>0, <2>3, <3>1 DEF ChildReads
  <2>4. CASE ChildTalks
    BY <2>0, <2>1, <2>4, TokenSeqs DEF ChildTalks, Text
  <2>5. CASE ChildEnds
    BY <2>0, <2>5 DEF ChildEnds
  <2> QED
    BY <1>1, <2>2, <2>3, <2>4, <2>5 DEF Child
<1>2. CASE Feed
  <2>1. fed # Text => fed \in Question
    BY DEF Token
  <2>2. UNCHANGED <<out, reply, drained, tokens, scanCh>>
    BY <1>2 DEF Feed, reactVars
  <2>3. CASE fed # Text
    <3>1. fed' = Text /\ (typed' = typed \/ typed' = Append(typed, fed))
      BY <1>2, <2>3 DEF Feed
    <3>2. Append(typed, fed) \in Seq(Question)
      BY <2>1, <2>3
    <3> QED
      BY <2>2, <3>1, <3>2, NoTokens
  <2>4. CASE fed = Text
    <3>1. fed' = fed /\ typed' = typed
      BY <1>2, <2>4 DEF Feed
    <3> QED
      BY <2>2, <3>1
  <2> QED
    BY <2>3, <2>4
<1>3. CASE Drain
  <2>1. UNCHANGED <<typed, fed, reply, tokens, scanCh>>
    BY <1>3 DEF Drain, reactVars
  <2>2. \/ drained' \in {out, <<>>} /\ out' = <<>>
        \/ drained' \in {drained, <<>>} /\ out' = out
    BY <1>3 DEF Drain
  <2>3. Len(<<>>) <= PipeSize
    BY ReshardAssumption
  <2> QED
    BY <2>1, <2>2, <2>3, NoTokens
<1>4. CASE Scan
  <2>0. UNCHANGED <<out, typed, fed, reply>>
    BY <1>4 DEF Scan, reactVars
  <2>1. /\ drained' \in Seq(Token) /\ tokens' \in Seq(Token)
        /\ scanCh' \in Seq(Token) /\ Len(scanCh') <= ChanSize
    <3>1. CASE ScanReads
      BY <3>1, NoTokens DEF ScanReads
    <3>2. CASE ScanSends
      BY <3>2, ReshardAssumption DEF ScanSends
    <3>3. CASE ScanEnds
      BY <3>3 DEF ScanEnds
    <3> QED
      BY <1>4, <3>1, <3>2, <3>3 DEF Scan
  <2> QED
    BY <2>0, <2>1
<1>5. CASE React
  <2>0. UNCHANGED <<out, typed, drained, tokens>>
    BY <1>5 DEF React
  <2>1. scanCh # <<>> => Head(scanCh) \in Token
    OBVIOUS
  <2>2. CASE ReactReads
    <3>1. scanCh # <<>> => Tail(scanCh) \in Seq(Token) /\ Len(Tail(scanCh)) <= ChanSize
      BY ReshardAssumption
    <3>2. reply' \in {reply, Text} \/ (scanCh # <<>> /\ reply' = Head(scanCh))
      BY <2>2 DEF ReactReads, Reaction
    <3>3. fed' = fed /\ (scanCh' = scanCh \/ (scanCh # <<>> /\ scanCh' = Tail(scanCh)))
      BY <2>2 DEF ReactReads
    <3> QED
      BY <2>0, <2>1, <3>1, <3>2, <3>3, NoTokens
  <2>3. CASE ReactTicks \/ ReactAnswers \/ Callback
    BY <2>0, <2>3, NoTokens DEF ReactTicks, ReactAnswers, Callback, Text
  <2> QED
    BY <1>5, <2>2, <2>3 DEF React
<1>6. CASE UNCHANGED <<out, typed, fed, reply, drained, tokens, scanCh>>
  BY <1>6
<1> QED
  BY <1>1, <1>2, <1>3, <1>4, <1>5, <1>6, Steps DEF CallerCancels, Run, Watch, vars, reactVars

\* The goroutines have the states their variables are declared with.
LEMMA NextControlTypes == ASSUME TypeInv, [Next]_vars PROVE ControlTypes'
<1>0. ControlTypes
  BY DEF TypeInv
<1> USE <1>0 DEF ControlTypes
<1>1. CASE Run
  BY <1>1 DEF Run, RunStart, RunStarted, RunWait, RunWatch, RunAwait, Returns, reactVars
<1>2. CASE Child \/ CallerCancels \/ Watch
  BY <1>2 DEF Child, CallerCancels, Watch, runVars, reactVars
<1>3. CASE Feed \/ Drain \/ Scan
  BY <1>3 DEF Feed, Drain, Scan, ScanReads, ScanSends, ScanEnds, runVars, reactVars
<1>4. CASE React
  <2>1. UNCHANGED <<run, err, result, watcher, drain, scanner>>
    BY <1>4 DEF React, runVars
  <2>2. /\ ctx' \in {ctx, "done"} /\ feeder' = feeder
        /\ react' \in {react, "select", "cancel", "closeOut", "closeIn", "gone"}
        /\ closed' \in {closed, closed \cup {"ipw"}, closed \cup {"opr"}}
    <3>1. CASE ReactTicks
      BY <3>1 DEF ReactTicks
    <3>2. CASE ReactReads
      BY <3>2 DEF ReactReads
    <3>3. CASE ReactAnswers
      BY <3>3 DEF ReactAnswers
    <3>4. CASE Callback
      BY <3>4 DEF Callback, Cancel, CloseOut, CloseIn
    <3> QED
      BY <1>4, <3>1, <3>2, <3>3, <3>4 DEF React
  <2> QED
    BY <2>1, <2>2
<1>5. CASE UNCHANGED vars
  BY <1>5 DEF vars, runVars, reactVars
<1> QED
  BY <1>1, <1>2, <1>3, <1>4, <1>5, Steps

\* The flags are true or false.
LEMMA NextFlagTypes == ASSUME TypeInv, [Next]_vars PROVE FlagTypes'
<1>0. FlagTypes
  BY DEF TypeInv
<1>1. broken' \in {broken, TRUE}
  BY Steps DEF Child, CallerCancels, Run, Watch, Feed, Drain, Scan, React, vars
<1>2. heard' \in {heard, TRUE, FALSE}
  BY Steps DEF Child, CallerCancels, Run, Watch, Feed, Drain, Scan, React, ReactTicks, ReactReads,
               ReactAnswers, Callback, vars, reactVars
<1> QED
  BY <1>0, <1>1, <1>2 DEF FlagTypes

\* Every step keeps every type.
LEMMA NextTypes == ASSUME TypeInv, [Next]_vars PROVE TypeInv'
BY NextChildTypes, NextTokenTypes, NextControlTypes, NextFlagTypes DEF TypeInv

\* The goroutines of Reshard keep the types of what they share; the channel never
\* holds more than it takes.
THEOREM ReshardTypeOK == Spec => []TypeOK
<1>1. TypeInv => TypeOK
  BY DEF TypeInv, ChildTypes, TokenTypes, ControlTypes, FlagTypes, TypeOK
<1> QED
  BY <1>1, InitTypes, NextTypes, PTL DEF Spec
-----------------------------------------------------------------------------
(* The result of the call.                                                 *)

\* What Run has found out is true of the child: until it is reaped the error is
\* unknown, then it is that of the exit status unless that was a success.
RunInv ==
  /\ run = "start" <=> child = "none" /\ result = Nothing
  /\ run = "returned" <=> result # Nothing
  /\ run \in {"watch", "await"} => Dead
  /\ Alive => run = "wait"
  /\ run \in {"watch", "await"} => (err = "exit" <=> child # "done") /\ err # "start"

\* The steps that the caller sees, and the others.
LEMMA NextRun ==
  ASSUME TypeInv, RunInv, [Next]_vars
  PROVE  RunInv' /\ [Cmd!Next]_(Cmd!vars)
<1> DEFINE shown == IF Alive THEN "running" ELSE child
<1>0. Nothing \notin {"ok", "error"} /\ ChildTypes /\ ControlTypes
  BY ReshardAssumption DEF TypeInv
<1> USE <1>0 DEF ChildTypes, ControlTypes, RunInv, Alive, Dead
<1>1. ASSUME UNCHANGED <<child, run, err, result>>
      PROVE  RunInv' /\ [Cmd!Next]_(Cmd!vars)
  BY <1>1 DEF Cmd!vars
<1>2. CASE Child
  <2>1. /\ Alive /\ UNCHANGED <<run, err, result>>
        /\ child' \in {"working", "asking", "done", "failed"}
    BY <1>2 DEF Child, ChildAsks, ChildReads, ChildTalks, ChildEnds, runVars
  <2>2. CASE Alive'
    BY <2>1, <2>2 DEF Cmd!vars
  <2>3. CASE ~Alive'
    BY <2>1, <2>3 DEF Cmd!Next, Cmd!End
  <2> QED
    BY <2>2, <2>3
<1>3. CASE Run
  <2>1. CASE RunStart
    BY <2>1 DEF RunStart, Returns, childVars, Cmd!Next, Cmd!Return
  <2>2. CASE RunStarted
    BY <2>2 DEF RunStarted, Cmd!Next, Cmd!Start
  <2>3. CASE RunWait
    BY <2>3 DEF RunWait, childVars, Cmd!vars
  <2>4. CASE RunWatch
    BY <2>4 DEF RunWatch, childVars, Cmd!vars
  <2>5. CASE RunAwait
    BY <2>5 DEF RunAwait, Returns, childVars, Cmd!Next, Cmd!Return
  <2> QED
    BY <1>3, <2>1, <2>2, <2>3, <2>4, <2>5 DEF Run
<1>4. CASE Watch
  <2>1. UNCHANGED <<run, err, result>> /\ run = "wait" /\ child' = IF Alive THEN "killed" ELSE child
    BY <1>4 DEF Watch
  <2>2. CASE Alive
    BY <2>1, <2>2 DEF Cmd!Next, Cmd!End
  <2> QED
    BY <1>1, <2>1, <2>2
<1> QED
  BY <1>1, <1>2, <1>3, <1>4, Steps
     DEF CallerCancels, Feed, Drain, Scan, React, vars, childVars, runVars

\* Whatever the child does, whoever cancels, and in whatever order the goroutines
\* run: Reshard returns when its child has ended, with a result that is true of it.
THEOREM ReshardImplementsCommand == Spec => ImplementsCommand
<1>1. Init => RunInv /\ Cmd!Init
  BY DEF Init, RunInv, Cmd!Init, Alive, Dead
<1>2. TypeInv /\ RunInv /\ [Next]_vars => TypeInv' /\ RunInv' /\ [Cmd!Next]_(Cmd!vars)
  BY NextTypes, NextRun
<1>3. Spec => Cmd!Spec
  BY <1>1, <1>2, InitTypes, PTL DEF Spec, Cmd!Spec
<1> QED
  BY <1>3 DEF ImplementsCommand
-----------------------------------------------------------------------------
(* One question at a time.                                                 *)

\* A sequence of lines that are no questions, and one with the question q.
Silent(s) == \A i \in DOMAIN s : s[i] = Text
Just(s, q) == \E i \in DOMAIN s : s[i] = q /\ \A j \in DOMAIN s \ {i} : s[j] = Text

\* Silence, in a line, a line more, a line less, and two sequences one after the other.
LEMMA SilentOne == ASSUME NEW x PROVE Silent(<<x>>) <=> x = Text
<1>1. DOMAIN <<x>> = {1} /\ <<x>>[1] = x
  OBVIOUS
<1> QED
  BY <1>1 DEF Silent

\* A silent sequence stays silent with Text after it.
LEMMA SilentMore ==
  ASSUME NEW s \in Seq(Token), NEW x \in Token, Silent(s), x = Text
  PROVE  Silent(Append(s, x))
BY DEF Silent

\* It is silent without its head, which is Text.
LEMMA SilentRest ==
  ASSUME NEW s \in Seq(Token), s # <<>>, Silent(s)
  PROVE  Head(s) = Text /\ Silent(Tail(s))
BY DEF Silent

\* Two silent sequences are silent one after the other.
LEMMA SilentBoth ==
  ASSUME NEW s \in Seq(Token), NEW t \in Seq(Token), Silent(s), Silent(t)
  PROVE  Silent(s \o t)
<1>1. /\ DOMAIN (s \o t) = 1..(Len(s) + Len(t))
      /\ DOMAIN s = 1..Len(s) /\ DOMAIN t = 1..Len(t)
      /\ Len(s) \in Nat /\ Len(t) \in Nat
      /\ \A i \in 1..(Len(s) + Len(t)) :
           (s \o t)[i] = IF i <= Len(s) THEN s[i] ELSE t[i - Len(s)]
  OBVIOUS
<1> QED
  BY <1>1 DEF Silent

\* The same of a question.
LEMMA JustOne == ASSUME NEW x, NEW q PROVE Just(<<x>>, q) <=> x = q
<1>1. DOMAIN <<x>> = {1} /\ <<x>>[1] = x
  OBVIOUS
<1> QED
  BY <1>1 DEF Just

\* The question stays alone with Text after it, or is the first after Text.
LEMMA JustMore ==
  ASSUME NEW s \in Seq(Token), NEW x \in Token, NEW q,
         (Just(s, q) /\ x = Text) \/ (Silent(s) /\ x = q)
  PROVE  Just(Append(s, x), q)
<1>1. /\ DOMAIN Append(s, x) = 1..(Len(s) + 1)
      /\ DOMAIN s = 1..Len(s) /\ Len(s) \in Nat
      /\ \A i \in 1..Len(s) : Append(s, x)[i] = s[i]
      /\ Append(s, x)[Len(s) + 1] = x
  OBVIOUS
<1>2. CASE Just(s, q) /\ x = Text
  <2>1. PICK i \in DOMAIN s : s[i] = q /\ \A j \in DOMAIN s \ {i} : s[j] = Text
    BY <1>2 DEF Just
  <2>2. i \in DOMAIN Append(s, x) /\ Append(s, x)[i] = q
    BY <1>1, <2>1
  <2>3. \A j \in DOMAIN Append(s, x) \ {i} : Append(s, x)[j] = Text
    BY <1>1, <1>2, <2>1
  <2> QED
    BY <2>2, <2>3 DEF Just
<1>3. CASE Silent(s) /\ x = q
  <2>1. Len(s) + 1 \in DOMAIN Append(s, x)
    BY <1>1
  <2>2. \A j \in DOMAIN Append(s, x) \ {Len(s) + 1} : Append(s, x)[j] = Text
    BY <1>1, <1>3 DEF Silent
  <2> QED
    BY <1>1, <1>3, <2>1, <2>2 DEF Just
<1> QED
  BY <1>2, <1>3

\* It is the head, or alone in what follows.
LEMMA JustRest ==
  ASSUME NEW s \in Seq(Token), s # <<>>, NEW q, Just(s, q)
  PROVE  (Head(s) = q /\ Silent(Tail(s))) \/ (Head(s) = Text /\ Just(Tail(s), q))
<1>1. /\ DOMAIN s = 1..Len(s) /\ Len(s) \in Nat \ {0}
      /\ DOMAIN Tail(s) = 1..(Len(s) - 1)
      /\ \A i \in 1..(Len(s) - 1) : Tail(s)[i] = s[i + 1]
      /\ Head(s) = s[1]
  OBVIOUS
<1>2. PICK i \in DOMAIN s : s[i] = q /\ \A j \in DOMAIN s \ {i} : s[j] = Text
  BY DEF Just
<1>3. CASE i = 1
  BY <1>1, <1>2, <1>3 DEF Silent
<1>4. CASE i # 1
  <2>1. i - 1 \in DOMAIN Tail(s) /\ Tail(s)[i - 1] = q
    BY <1>1, <1>2, <1>4
  <2>2. \A j \in DOMAIN Tail(s) \ {i - 1} : Tail(s)[j] = Text
    BY <1>1, <1>2
  <2>3. Head(s) = Text
    BY <1>1, <1>2, <1>4
  <2> QED
    BY <2>1, <2>2, <2>3 DEF Just
<1> QED
  BY <1>3, <1>4

\* The question is alone in two sequences if it is in one and the other is silent.
LEMMA JustBoth ==
  ASSUME NEW s \in Seq(Token), NEW t \in Seq(Token), NEW q,
         (Just(s, q) /\ Silent(t)) \/ (Silent(s) /\ Just(t, q))
  PROVE  Just(s \o t, q)
<1>1. /\ DOMAIN (s \o t) = 1..(Len(s) + Len(t))
      /\ DOMAIN s = 1..Len(s) /\ DOMAIN t = 1..Len(t)
      /\ Len(s) \in Nat /\ Len(t) \in Nat
      /\ \A i \in 1..(Len(s) + Len(t)) :
           (s \o t)[i] = IF i <= Len(s) THEN s[i] ELSE t[i - Len(s)]
  OBVIOUS
<1>2. CASE Just(s, q) /\ Silent(t)
  <2>1. PICK i \in DOMAIN s : s[i] = q /\ \A j \in DOMAIN s \ {i} : s[j] = Text
    BY <1>2 DEF Just
  <2>2. i \in DOMAIN (s \o t) /\ (s \o t)[i] = q
    BY <1>1, <2>1
  <2>3. \A j \in DOMAIN (s \o t) \ {i} : (s \o t)[j] = Text
    BY <1>1, <1>2, <2>1 DEF Silent
  <2> QED
    BY <2>2, <2>3 DEF Just
<1>3. CASE Silent(s) /\ Just(t, q)
  <2>1. PICK i \in DOMAIN t : t[i] = q /\ \A j \in DOMAIN t \ {i} : t[j] = Text
    BY <1>3 DEF Just
  <2>2. Len(s) + i \in DOMAIN (s \o t) /\ (s \o t)[Len(s) + i] = q
    BY <1>1, <2>1
  <2>3. ASSUME NEW j \in DOMAIN (s \o t) \ {Len(s) + i} PROVE (s \o t)[j] = Text
    <3>1. CASE j <= Len(s)
      BY <1>1, <1>3, <3>1 DEF Silent
    <3>2. CASE ~(j <= Len(s))
      <4>1. j - Len(s) \in DOMAIN t \ {i}
        BY <1>1, <2>1, <3>2
      <4> QED
        BY <1>1, <2>1, <3>2, <4>1
    <3> QED
      BY <3>1, <3>2
  <2> QED
    BY <2>2, <2>3 DEF Just
<1> QED
  BY <1>2, <1>3

\* The places a question and its answer pass through.
Place == {"out", "drained", "tokens", "scanCh", "reply", "fed", "typed"}
Way == [p \in Place |-> CASE p = "out" -> out
                          [] p = "drained" -> drained
                          [] p = "tokens" -> tokens
                          [] p = "scanCh" -> scanCh
                          [] p = "reply" -> <<reply>>
                          [] p = "fed" -> <<fed>>
                          [] p = "typed" -> typed]

Quiet(way) == \A p \in Place : Silent(way[p])
Carries(way, q) == \E p \in Place : /\ Just(way[p], q)
                                    /\ \A o \in Place \ {p} : Silent(way[o])

\* The question the child waits at is at one of these places; before it is asked,
\* and when it has been answered, no question is at any.
OneInv ==
  (child = "none" \/ Alive) /\ closed = {} =>
    IF child = "asking" THEN Carries(Way, at) ELSE Quiet(Way)

\* What goes from one place to another stays on the way.
LEMMA Passes ==
  ASSUME NEW f, NEW g, NEW q, NEW a \in Place, NEW b \in Place, a # b,
         \A p \in Place \ {a, b} : g[p] = f[p],
         Silent(f[a]) /\ Silent(f[b]) => Silent(g[a]) /\ Silent(g[b]),
         (Just(f[a], q) /\ Silent(f[b])) \/ (Silent(f[a]) /\ Just(f[b], q))
           => (Just(g[a], q) /\ Silent(g[b])) \/ (Silent(g[a]) /\ Just(g[b], q))
  PROVE  /\ Quiet(f) => Quiet(g)
         /\ Carries(f, q) => Carries(g, q)
<1>1. ASSUME Quiet(f) PROVE Quiet(g)
  BY <1>1 DEF Quiet
<1>2. ASSUME Carries(f, q) PROVE Carries(g, q)
  <2>1. PICK p \in Place : Just(f[p], q) /\ \A o \in Place \ {p} : Silent(f[o])
    BY <1>2 DEF Carries
  <2>2. CASE p \notin {a, b}
    BY <2>1, <2>2 DEF Carries
  <2>3. CASE p \in {a, b}
    <3>1. (Just(g[a], q) /\ Silent(g[b])) \/ (Silent(g[a]) /\ Just(g[b], q))
      BY <2>1, <2>3
    <3>2. \A o \in Place \ {a, b} : Silent(g[o])
      BY <2>1, <2>3
    <3> QED
      BY <3>1, <3>2 DEF Carries
  <2> QED
    BY <2>2, <2>3
<1> QED
  BY <1>1, <1>2

\* An empty place.
LEMMA NoLines == Silent(<<>>) /\ \A q : ~Just(<<>>, q)
<1>1. DOMAIN <<>> = {}
  OBVIOUS
<1> QED
  BY <1>1 DEF Silent, Just

\* The places, and the types of what is at them.
LEMMA Places ==
  /\ Way["out"] = out /\ Way["drained"] = drained /\ Way["tokens"] = tokens
  /\ Way["scanCh"] = scanCh /\ Way["reply"] = <<reply>> /\ Way["fed"] = <<fed>>
  /\ Way["typed"] = typed
BY DEF Way, Place

\* Every step passes on what is on the way, asks, or takes the answer.
LEMMA NextOne ==
  ASSUME TypeInv, RunInv, OneInv, [Next]_vars
  PROVE  OneInv'
<1>0. /\ TokenTypes /\ ChildTypes
      /\ out \in Seq(Token) /\ drained \in Seq(Token) /\ tokens \in Seq(Token)
      /\ scanCh \in Seq(Token) /\ typed \in Seq(Question)
      /\ reply \in Token /\ fed \in Token
  BY DEF TypeInv, TokenTypes
<1>1. ASSUME closed' # {} PROVE OneInv'
  BY <1>1 DEF OneInv
<1>2. ASSUME UNCHANGED <<child, at>>, closed = {},
             Quiet(Way) => Quiet(Way'),
             at \in Question /\ Carries(Way, at) => Carries(Way', at)
      PROVE  OneInv'
  <2>1. CASE child = "asking" /\ Carries(Way, at)
    <3>1. Carries(Way', at')
      BY <1>0, <1>2, <2>1 DEF ChildTypes
    <3> QED
      BY <1>2, <2>1, <3>1 DEF OneInv
  <2>2. CASE child # "asking" /\ Quiet(Way)
    BY <1>2, <2>2 DEF OneInv
  <2>3. CASE child # "none" /\ ~Alive
    BY <1>2, <2>3 DEF OneInv, Alive
  <2>4. \/ child = "asking" /\ Carries(Way, at)
        \/ child # "asking" /\ Quiet(Way)
        \/ child # "none" /\ ~Alive
    BY <1>2 DEF OneInv, Alive
  <2> QED
    BY <2>1, <2>2, <2>3, <2>4
<1>3. ASSUME UNCHANGED <<child, at, closed, out, drained, tokens, scanCh, reply, fed, typed>>
      PROVE  OneInv'
  <2>1. Way' = Way
    BY <1>3 DEF Way
  <2> QED
    BY <1>3, <2>1 DEF OneInv, Alive
<1>4. CASE Child
  <2>0. UNCHANGED <<closed, drained, tokens, scanCh, reply, fed>>
    BY <1>4 DEF Child, reactVars
  <2>1. CASE closed = {} /\ Alive'
    <3>1. Alive
      BY <1>4 DEF Child, ChildAsks, ChildReads, ChildTalks, ChildEnds, Alive
    <3>2. CASE ChildAsks
      <4>1. Quiet(Way) /\ at \in Question /\ at' = at /\ typed' = typed /\ child' = "asking"
        BY <2>1, <3>1, <3>2 DEF OneInv, ChildAsks
      <4>2. Just(out', at)
        <5>1. PICK text \in {<<at>>, <<at, Text>>} : out' = out \o text
          BY <3>2 DEF ChildAsks, Write
        <5>2. text \in Seq(Token) /\ Just(text, at)
          <6>1. at \in Token
            BY <4>1, TokenSeqs
          <6>2. Just(<<at>>, at) /\ <<at>> \in Seq(Token)
            BY <6>1, TokenSeqs, JustOne
          <6>3. <<at, Text>> = Append(<<at>>, Text)
            BY <6>1
          <6>4. Just(<<at, Text>>, at) /\ <<at, Text>> \in Seq(Token)
            <7>1. Just(Append(<<at>>, Text), at)
              BY <6>2, NoTokens, JustMore
            <7> QED
              BY <6>1, <6>3, <7>1, TokenSeqs DEF Text
          <6> QED
            BY <6>2, <6>4
        <5>3. Silent(out)
          BY <4>1, Places DEF Quiet, Place
        <5> QED
          BY <1>0, <5>1, <5>2, <5>3, JustBoth
      <4>3. \A o \in Place \ {"out"} : Way'[o] = Way[o]
        BY <2>0, <4>1 DEF Way, Place
      <4>4. Way'["out"] = out'
        BY DEF Way, Place
      <4>5. Carries(Way', at)
        BY <4>1, <4>2, <4>3, <4>4 DEF Quiet, Carries, Place
      <4> QED
        BY <4>1, <4>5 DEF OneInv
    <3>3. CASE ChildReads
      <4>1. /\ Carries(Way, at) /\ at \in Question /\ typed # <<>> /\ typed' = Tail(typed)
            /\ child' = "working" /\ out' = out
        BY <1>0, <2>1, <3>1, <3>3 DEF OneInv, ChildReads, ChildTypes
      <4>2. typed \in Seq(Token) /\ Head(typed) \in Question
        BY <1>0, <4>1 DEF Token
      <4>3. Head(typed) # Text /\ ~Silent(typed)
        BY <4>1, <4>2, SilentRest DEF Question, Text
      <4>4. Just(typed, at) /\ \A o \in Place \ {"typed"} : Silent(Way[o])
        BY <4>1, <4>3, Places DEF Carries, Place
      <4>5. Silent(typed')
        BY <4>1, <4>2, <4>3, <4>4, JustRest
      <4>6. \A o \in Place \ {"typed"} : Way'[o] = Way[o]
        BY <2>0, <4>1 DEF Way, Place
      <4>7. Way'["typed"] = typed'
        BY DEF Way, Place
      <4>8. Quiet(Way')
        BY <4>4, <4>5, <4>6, <4>7 DEF Quiet
      <4> QED
        BY <4>1, <4>8 DEF OneInv
    <3>4. CASE ChildTalks
      <4>1. Quiet(Way) /\ typed' = typed /\ child' = child /\ child = "working"
        BY <2>1, <3>1, <3>4 DEF OneInv, ChildTalks
      <4>2. Silent(out')
        <5>1. out' = out \o <<Text>> /\ <<Text>> \in Seq(Token)
          BY <3>4, NoTokens DEF ChildTalks, Write
        <5>2. Silent(out) /\ Silent(<<Text>>)
          BY <4>1, SilentOne, Places DEF Quiet, Place
        <5> QED
          BY <1>0, <5>1, <5>2, SilentBoth
      <4>3. \A o \in Place \ {"out"} : Way'[o] = Way[o]
        BY <2>0, <4>1 DEF Way, Place
      <4>4. Way'["out"] = out'
        BY DEF Way, Place
      <4>5. Quiet(Way')
        BY <4>1, <4>2, <4>3, <4>4 DEF Quiet
      <4> QED
        BY <4>1, <4>5 DEF OneInv
    <3>5. ~ChildEnds
      BY <2>1 DEF ChildEnds, Alive
    <3> QED
      BY <1>4, <3>2, <3>3, <3>4, <3>5 DEF Child
  <2>2. CASE closed # {}
    BY <1>1, <2>0, <2>2
  <2>3. CASE ~Alive'
    <3>1. child' # "none"
      BY <1>4 DEF Child, ChildAsks, ChildReads, ChildTalks, ChildEnds, Alive
    <3> QED
      BY <2>3, <3>1 DEF OneInv
  <2> QED
    BY <2>1, <2>2, <2>3
<1>5. CASE Run
  <2>0. UNCHANGED <<closed, out, drained, tokens, scanCh, reply, fed, typed>> /\ Way' = Way
    BY <1>5 DEF Run, reactVars, Way
  <2>1. (child' = child /\ at' = at) \/ (child = "none" /\ child' = "working")
    <3>1. run = "start" => child = "none"
      BY DEF RunInv
    <3> QED
      BY <1>5, <3>1 DEF Run, RunStart, RunStarted, RunWait, RunWatch, RunAwait, childVars
  <2> QED
    BY <2>0, <2>1 DEF OneInv, Alive
<1>6. CASE CallerCancels \/ Watch
  <2>1. /\ UNCHANGED <<at, closed, out, drained, tokens, scanCh, reply, fed, typed>>
        /\ child' = child \/ child' = "killed"
    BY <1>6 DEF CallerCancels, Watch, childVars, reactVars
  <2> QED
    BY <1>3, <2>1 DEF OneInv, Alive
<1>7. CASE Feed
  <2>0. UNCHANGED <<child, at, closed, out, drained, tokens, scanCh, reply>>
    BY <1>7 DEF Feed, childVars, reactVars
  <2>1. CASE closed = {} /\ ~Dead
    <3>1. fed # Text /\ fed' = Text /\ typed' = Append(typed, fed)
      BY <1>7, <2>1 DEF Feed
    <3>2. typed \in Seq(Token) /\ fed \in Question
      BY <1>0, <3>1 DEF Token
    <3>3. /\ ~Silent(<<fed>>)
          /\ Silent(<<fed'>>)
      BY <3>1, SilentOne
    <3>4. ASSUME NEW q, Just(<<fed>>, q) /\ Silent(typed) PROVE Just(typed', q)
      <4>1. fed = q
        BY <3>4, JustOne
      <4> QED
        BY <1>0, <3>1, <3>2, <3>4, <4>1, JustMore
    <3>5. \A o \in Place \ {"fed", "typed"} : Way'[o] = Way[o]
      BY <2>0 DEF Way, Place
    <3>6. Way'["fed"] = <<fed'>> /\ Way'["typed"] = typed'
      BY DEF Way, Place
    <3>7. ASSUME NEW q
          PROVE  (Quiet(Way) => Quiet(Way')) /\ (Carries(Way, q) => Carries(Way', q))
      BY <3>3, <3>4, <3>5, <3>6, Places, Passes DEF Place
    <3> QED
      BY <1>2, <2>0, <2>1, <3>7
  <2>2. CASE closed # {}
    BY <1>1, <2>0, <2>2
  <2>3. CASE Dead
    BY <2>0, <2>3 DEF OneInv, Alive, Dead
  <2> QED
    BY <2>1, <2>2, <2>3
<1>8. CASE Drain
  <2>0. UNCHANGED <<child, at, closed, tokens, scanCh, reply, fed, typed>>
    BY <1>8 DEF Drain, childVars, reactVars
  <2>1. CASE closed = {}
    <3>1. drained = <<>> /\ ((drained' = out /\ out' = <<>>) \/ (drained' = drained /\ out' = out))
      BY <1>8, <2>1 DEF Drain
    <3>2. \A o \in Place \ {"out", "drained"} : Way'[o] = Way[o]
      BY <2>0 DEF Way, Place
    <3>3. Way'["out"] = out' /\ Way'["drained"] = drained'
      BY DEF Way, Place
    <3>4. ASSUME NEW q
          PROVE  (Quiet(Way) => Quiet(Way')) /\ (Carries(Way, q) => Carries(Way', q))
      BY <3>1, <3>2, <3>3, Places, Passes, NoLines DEF Place
    <3> QED
      BY <1>2, <2>0, <2>1, <3>4
  <2>2. CASE closed # {}
    BY <1>1, <2>0, <2>2
  <2> QED
    BY <2>1, <2>2
<1>9. CASE Scan
  <2>0. UNCHANGED <<child, at, closed, out, scanCh, reply, fed, typed>> \/ ScanSends
    BY <1>9 DEF Scan, ScanReads, ScanEnds, childVars, reactVars
  <2>1. CASE ScanSends
    <3>1. /\ tokens # <<>> /\ tokens' = Tail(tokens) /\ scanCh' = Append(scanCh, Head(tokens))
          /\ UNCHANGED <<child, at, closed, out, drained, reply, fed, typed>>
      BY <1>9, <2>1 DEF Scan, ScanSends, childVars, reactVars
    <3>2. Head(tokens) \in Token
      BY <1>0, <3>1
    <3>3. \A o \in Place \ {"tokens", "scanCh"} : Way'[o] = Way[o]
      BY <3>1 DEF Way, Place
    <3>4. Way'["tokens"] = tokens' /\ Way'["scanCh"] = scanCh'
      BY DEF Way, Place
    <3>5. ASSUME NEW q
          PROVE  /\ Silent(tokens) /\ Silent(scanCh) => Silent(tokens') /\ Silent(scanCh')
                 /\ Just(tokens, q) /\ Silent(scanCh)
                      => (Just(tokens', q) /\ Silent(scanCh')) \/ (Silent(tokens') /\ Just(scanCh', q))
                 /\ Silent(tokens) /\ Just(scanCh, q)
                      => Silent(tokens') /\ Just(scanCh', q)
      BY <1>0, <3>1, <3>2, SilentMore, SilentRest, JustMore, JustRest
    <3>6. ASSUME NEW q
          PROVE  (Quiet(Way) => Quiet(Way')) /\ (Carries(Way, q) => Carries(Way', q))
      BY <3>3, <3>4, <3>5, Places, Passes DEF Place
    <3> QED
      BY <1>1, <1>2, <3>1, <3>6
  <2>2. CASE ~ScanSends
    <3>1. /\ (tokens = <<>> /\ tokens' = drained /\ drained' = <<>>)
             \/ (tokens' = tokens /\ drained' = drained)
      BY <1>9, <2>2 DEF Scan, ScanReads, ScanEnds
    <3>2. \A o \in Place \ {"tokens", "drained"} : Way'[o] = Way[o]
      BY <2>0, <2>2 DEF Way, Place
    <3>3. Way'["tokens"] = tokens' /\ Way'["drained"] = drained'
      BY DEF Way, Place
    <3>4. ASSUME NEW q
          PROVE  (Quiet(Way) => Quiet(Way')) /\ (Carries(Way, q) => Carries(Way', q))
      BY <3>1, <3>2, <3>3, Places, Passes, NoLines DEF Place
    <3> QED
      BY <1>1, <1>2, <2>0, <2>2, <3>4
  <2> QED
    BY <2>1, <2>2
<1>10. CASE React
  <2>0. UNCHANGED <<child, at, out, drained, tokens, typed>>
    BY <1>10 DEF React, childVars
  <2>1. CASE ReactReads
    <3>1. /\ UNCHANGED <<closed, fed>> /\ reply = Text
          /\ \/ scanCh # <<>> /\ scanCh' = Tail(scanCh) /\ reply' = Head(scanCh)
             \/ scanCh' = scanCh /\ reply' = reply
      BY <2>1 DEF ReactReads, Reaction
    <3>2. \A o \in Place \ {"scanCh", "reply"} : Way'[o] = Way[o]
      BY <2>0, <3>1 DEF Way, Place
    <3>3. Way'["scanCh"] = scanCh' /\ Way'["reply"] = <<reply'>>
      BY DEF Way, Place
    <3>4. Silent(<<reply>>) /\ \A q : Just(<<reply>>, q) => q = Text
      BY <3>1, SilentOne, JustOne
    <3>5. ASSUME NEW q, q # Text
          PROVE  /\ Silent(scanCh) => Silent(scanCh') /\ Silent(<<reply'>>)
                 /\ Just(scanCh, q) => (Just(scanCh', q) /\ Silent(<<reply'>>))
                                          \/ (Silent(scanCh') /\ Just(<<reply'>>, q))
      <4>1. CASE scanCh # <<>> /\ scanCh' = Tail(scanCh) /\ reply' = Head(scanCh)
        <5>1. scanCh \in Seq(Token) /\ Head(scanCh) \in Token
          BY <1>0, <4>1
        <5>2. Silent(scanCh) => Silent(scanCh') /\ Head(scanCh) = Text
          BY <4>1, <5>1, SilentRest
        <5>3. Just(scanCh, q) => \/ Head(scanCh) = Text /\ Just(scanCh', q)
                                 \/ Head(scanCh) = q /\ Silent(scanCh')
          BY <3>5, <4>1, <5>1, JustRest
        <5>4. /\ Head(scanCh) = Text => Silent(<<reply'>>)
              /\ Head(scanCh) = q => Just(<<reply'>>, q)
          BY <3>5, <4>1, SilentOne, JustOne
        <5> QED
          BY <5>2, <5>3, <5>4
      <4>2. CASE scanCh' = scanCh /\ reply' = reply
        BY <3>4, <4>2
      <4> QED
        BY <3>1, <4>1, <4>2
    <3>6. ASSUME NEW q, q # Text
          PROVE  (Quiet(Way) => Quiet(Way')) /\ (Carries(Way, q) => Carries(Way', q))
      BY <3>2, <3>3, <3>4, <3>5, <3>6, Places, Passes DEF Place
    <3>7. 1 # Text /\ (at \in Question => at # Text)
      BY DEF Text, Question
    <3> QED
      BY <1>1, <1>2, <2>0, <3>1, <3>6, <3>7
  <2>2. CASE ReactAnswers
    <3>1. /\ UNCHANGED <<closed, scanCh>> /\ fed = Text
          /\ fed' = reply /\ reply' = fed
      BY <2>2 DEF ReactAnswers
    <3>2. \A o \in Place \ {"fed", "reply"} : Way'[o] = Way[o]
      BY <2>0, <3>1 DEF Way, Place
    <3>3. Way'["fed"] = <<reply>> /\ Way'["reply"] = <<fed>>
      BY <3>1 DEF Way, Place
    <3>4. ASSUME NEW q
          PROVE  (Quiet(Way) => Quiet(Way')) /\ (Carries(Way, q) => Carries(Way', q))
      BY <3>2, <3>3, Places, Passes DEF Place
    <3> QED
      BY <1>1, <1>2, <2>0, <3>1, <3>4
  <2>3. CASE ReactTicks
    BY <1>3, <2>0, <2>3 DEF ReactTicks
  <2>4. CASE Callback
    <3>1. CASE Cancel
      BY <1>3, <2>0, <2>4, <3>1 DEF Callback, Cancel
    <3>2. CASE CloseOut \/ CloseIn
      BY <1>1, <3>2 DEF CloseOut, CloseIn
    <3> QED
      BY <2>4, <3>1, <3>2 DEF Callback
  <2> QED
    BY <1>10, <2>1, <2>2, <2>3, <2>4 DEF React
<1>11. CASE UNCHANGED vars
  BY <1>3, <1>11 DEF vars, childVars, reactVars
<1> QED
  BY <1>4, <1>5, <1>6, <1>7, <1>8, <1>9, <1>10, <1>11, Steps

\* What is on the way is in one sequence what it is place by place.
LEMMA AllTheWay ==
  ASSUME TypeInv
  PROVE  /\ OnTheWay \in Seq(Token)
         /\ Quiet(Way) => Silent(OnTheWay)
         /\ \A q : Carries(Way, q) => Just(OnTheWay, q)
<1> DEFINE s1 == out \o drained
           s2 == s1 \o tokens
           s3 == s2 \o scanCh
           s4 == s3 \o <<reply, fed>>
<1>0. /\ out \in Seq(Token) /\ drained \in Seq(Token) /\ tokens \in Seq(Token)
      /\ scanCh \in Seq(Token) /\ typed \in Seq(Token)
      /\ reply \in Token /\ fed \in Token
      /\ <<reply>> \in Seq(Token) /\ <<reply, fed>> = Append(<<reply>>, fed)
  BY TokenSeqs DEF TypeInv, TokenTypes, Token
<1>1. /\ s1 \in Seq(Token) /\ s2 \in Seq(Token) /\ s3 \in Seq(Token)
      /\ <<reply, fed>> \in Seq(Token) /\ s4 \in Seq(Token)
  BY <1>0, TokenSeqs
<1>2. OnTheWay = s4 \o typed
  BY DEF OnTheWay
<1> HIDE DEF s1, s2, s3, s4
<1>3. ASSUME Quiet(Way) PROVE Silent(OnTheWay)
  <2>1. /\ Silent(out) /\ Silent(drained) /\ Silent(tokens) /\ Silent(scanCh)
        /\ Silent(<<reply>>) /\ Silent(<<fed>>) /\ Silent(typed)
    BY <1>3, Places DEF Quiet, Place
  <2>2. Silent(<<reply, fed>>)
    BY <1>0, <2>1, SilentMore, SilentOne
  <2>3. Silent(s1)
    BY <1>0, <2>1, SilentBoth DEF s1
  <2>4. Silent(s2)
    BY <1>0, <1>1, <2>1, <2>3, SilentBoth DEF s2
  <2>5. Silent(s3)
    BY <1>0, <1>1, <2>1, <2>4, SilentBoth DEF s3
  <2>6. Silent(s4)
    BY <1>1, <2>2, <2>5, SilentBoth DEF s4
  <2> QED
    BY <1>0, <1>1, <1>2, <2>1, <2>6, SilentBoth
<1>4. ASSUME NEW q, Carries(Way, q) PROVE Just(OnTheWay, q)
  <2>1. PICK p \in Place : Just(Way[p], q) /\ \A o \in Place \ {p} : Silent(Way[o])
    BY <1>4 DEF Carries
  <2>2. /\ IF p = "out" THEN Just(out, q) ELSE Silent(out)
        /\ IF p = "drained" THEN Just(drained, q) ELSE Silent(drained)
        /\ IF p = "tokens" THEN Just(tokens, q) ELSE Silent(tokens)
        /\ IF p = "scanCh" THEN Just(scanCh, q) ELSE Silent(scanCh)
        /\ IF p = "reply" THEN Just(<<reply>>, q) ELSE Silent(<<reply>>)
        /\ IF p = "fed" THEN Just(<<fed>>, q) ELSE Silent(<<fed>>)
        /\ IF p = "typed" THEN Just(typed, q) ELSE Silent(typed)
    BY <2>1, Places DEF Place
  <2>3. IF p \in {"reply", "fed"} THEN Just(<<reply, fed>>, q) ELSE Silent(<<reply, fed>>)
    <3>1. IF p = "fed" THEN fed = q ELSE fed = Text
      BY <2>2, SilentOne, JustOne
    <3>2. IF p \in {"reply", "fed"} THEN Just(Append(<<reply>>, fed), q)
          ELSE Silent(Append(<<reply>>, fed))
      BY <1>0, <2>2, <3>1, JustMore, SilentMore
    <3> QED
      BY <1>0, <3>2
  <2>4. IF p \in {"out", "drained"} THEN Just(s1, q) ELSE Silent(s1)
    BY <1>0, <2>2, SilentBoth, JustBoth DEF s1
  <2>5. IF p \in {"out", "drained", "tokens"} THEN Just(s2, q) ELSE Silent(s2)
    BY <1>0, <1>1, <2>2, <2>4, SilentBoth, JustBoth DEF s2
  <2>6. IF p \in {"out", "drained", "tokens", "scanCh"} THEN Just(s3, q) ELSE Silent(s3)
    BY <1>0, <1>1, <2>2, <2>5, SilentBoth, JustBoth DEF s3
  <2>7. IF p = "typed" THEN Silent(s4) ELSE Just(s4, q)
    BY <1>1, <2>3, <2>6, SilentBoth, JustBoth DEF s4, Place
  <2> QED
    BY <1>0, <1>1, <1>2, <2>2, <2>7, JustBoth
<1>5. OnTheWay \in Seq(Token)
  BY <1>0, <1>1, <1>2, TokenSeqs
<1> QED
  BY <1>3, <1>4, <1>5

\* While the pipes are open a child's question is on its way to React, or the answer
\* to it on its way back, once, and nothing else is, however many questions and
\* lines there are, and whatever the pipes and the channel hold.
THEOREM OneQuestionAtATime == Spec => []OneQuestion
<1>1. Init => OneInv
  <2>1. ASSUME Init PROVE Quiet(Way)
    BY <2>1, NoLines, SilentOne, Places DEF Init, Quiet, Place
  <2> QED
    BY <2>1 DEF Init, OneInv
<1>2. Init => RunInv
  BY DEF Init, RunInv, Alive, Dead
<1>3. TypeInv /\ RunInv /\ OneInv /\ [Next]_vars => TypeInv' /\ RunInv' /\ OneInv'
  BY NextTypes, NextRun, NextOne
<1>4. TypeInv /\ OneInv => OneQuestion
  <2> SUFFICES ASSUME TypeInv, OneInv, Alive, closed = {} PROVE OneQuestion
    BY DEF OneQuestion
  <2> DEFINE found == {i \in DOMAIN OnTheWay : OnTheWay[i] # Text}
  <2>1. CASE child = "asking"
    <3>1. at \in Question /\ Just(OnTheWay, at)
      BY <2>1, AllTheWay DEF OneInv, TypeInv, ChildTypes
    <3>2. PICK i \in DOMAIN OnTheWay :
            OnTheWay[i] = at /\ \A j \in DOMAIN OnTheWay \ {i} : OnTheWay[j] = Text
      BY <3>1 DEF Just
    <3>3. at # Text
      BY <3>1 DEF Question, Text
    <3>4. found = {i}
      BY <3>2, <3>3
    <3> QED
      BY <2>1, <3>2, <3>4 DEF OneQuestion
  <2>2. CASE child # "asking"
    <3>1. Silent(OnTheWay)
      BY <2>2, AllTheWay DEF OneInv
    <3>2. found = {}
      BY <3>1 DEF Silent
    <3> QED
      BY <2>2, <3>2 DEF OneQuestion
  <2> QED
    BY <2>1, <2>2
<1> QED
  BY <1>1, <1>2, <1>3, <1>4, InitTypes, PTL DEF Spec
=============================================================================
