------------------------------- MODULE Command -------------------------------
(***************************************************************************)
(* What a caller of CLI.Reshard relies on: one child process at most, none  *)
(* of it left when the call returns, and a result that tells whether the    *)
(* child did what it was started for; except that a call that is cancelled  *)
(* before the child was started, by its caller or by React's own tick       *)
(* (cli.go:330), may report success (cli.go:349).                          *)
(***************************************************************************)
CONSTANT Nothing    \* no result yet

VARIABLES child,    \* none, running, done, failed, killed
          result    \* Nothing, ok, error

vars == <<child, result>>

Init == child = "none" /\ result = Nothing

Start == /\ child = "none"
         /\ result = Nothing
         /\ child' = "running"
         /\ UNCHANGED result

End == /\ child = "running"
       /\ child' \in {"done", "failed", "killed"}
       /\ UNCHANGED result

Return == /\ result = Nothing
          /\ child # "running"
          /\ \/ result' = "ok" /\ child \in {"done", "none"}
             \/ result' = "error" /\ child # "done"
          /\ UNCHANGED child

Next == Start \/ End \/ Return

Spec == Init /\ [][Next]_vars
=============================================================================
