------------------------------ MODULE Commands ------------------------------
(***************************************************************************)
(* The command goroutines of one agent: handleCommand of                   *)
(* agent/internal/rpc/agent.go runs every command it receives in a         *)
(* goroutine of its own, and nothing keeps two of them apart.              *)
(*                                                                         *)
(* A command is a record with a kind and arguments.  The modules that      *)
(* extend this one say which steps the commands of their kinds take, over  *)
(* their own state.  A command that has failed, or whose outcome another   *)
(* command may have undone, is "over" and forgotten: nothing is promised   *)
(* of it any more, though what it did stays done.                          *)
(***************************************************************************)
CONSTANTS
  Ops,          \* the commands received, in any order
  None

VARIABLES
  pc,           \* the step each command is at; "ok" when it has succeeded
  cmd,          \* its kind and arguments
  undone,       \* commands in progress whose outcome another may undo
  raced         \* commands that overlapped one that disturbs them

goroutines == <<pc, cmd, undone, raced>>

Nothing == [kind |-> "none"]
Busy(o) == pc[o] \notin {"idle", "ok", "over"}

CommandsInit ==
  /\ pc = [o \in Ops |-> "idle"]
  /\ cmd = [o \in Ops |-> Nothing]
  /\ undone = {}
  /\ raced = {}

\* The commands of S are over.
Forget(S) ==
  /\ cmd' = [o \in Ops |-> IF o \in S THEN Nothing ELSE cmd[o]]
  /\ undone' = undone \ S
  /\ raced' = raced \ S

Over(o) == /\ pc' = [pc EXCEPT ![o] = "over"]
           /\ Forget({o})

Goto(o, l) ==
  \/ l = "ok" /\ o \in undone /\ Over(o)
  \/ /\ l # "ok" \/ o \notin undone
     /\ pc' = [pc EXCEPT ![o] = l]
     /\ UNCHANGED <<cmd, undone, raced>>

\* A command arrives and its goroutine goes to step l.  Undoes(c, e): c may
\* undo what e has achieved.  Disturbs(c, e): it may when the two overlap.
Arrive(o, c, l, Undoes(_, _), Disturbs(_, _)) ==
  LET busy == {p \in Ops : Busy(p)}
      old  == {p \in Ops : pc[p] = "ok" /\ Undoes(c, cmd[p])}
  IN
  /\ pc[o] = "idle"
  /\ pc' = [p \in Ops |-> IF p = o THEN l ELSE IF p \in old THEN "over"
                                               ELSE pc[p]]
  /\ cmd' = [p \in Ops |-> IF p = o THEN c ELSE IF p \in old THEN Nothing
                                                ELSE cmd[p]]
  /\ undone' = undone \cup {p \in busy : Undoes(c, cmd[p])}
               \cup {p \in {o} : \E q \in busy : Undoes(cmd[q], c)}
  /\ raced' = (raced \ old) \cup {p \in busy : Disturbs(c, cmd[p])}
              \cup {p \in {o} : \E q \in busy : Disturbs(cmd[q], c)}

\* A command that the dispatcher refuses.
Refuse(o) == pc[o] = "idle" /\ Over(o)

\* The error is returned, and nothing of vs has changed.
Fail(o, vs) == Over(o) /\ UNCHANGED vs

\* A step of o over the state vs: it has its effect and the goroutine goes on,
\* or its error is returned; a step that fails may have had its effect.
Try(o, Effect, l, vs) ==
  \/ Effect /\ Goto(o, l)
  \/ (Effect \/ UNCHANGED vs) /\ Over(o)

\* The agent dies, or is restarted: commands in progress end where they are.
AllLost ==
  /\ pc' = [o \in Ops |-> IF Busy(o) THEN "over" ELSE pc[o]]
  /\ Forget({o \in Ops : Busy(o)})

\* o has succeeded, and no later command may have undone its outcome.
Stands(o) == pc[o] = "ok"
=============================================================================
