----------------------------- MODULE CommandRpc -----------------------------
(***************************************************************************)
(* What SendCommand promises to an HTTP handler, with the sessions, queues *)
(* and goroutines left out: a remote call that runs at most once.          *)
(*                                                                         *)
(* A call is refused before anything is sent, or it is issued.  An issued  *)
(* call may start on an agent, once; a started run may complete with a     *)
(* verdict; the caller is answered with that verdict, or gives up without  *)
(* learning it.  Giving up withdraws nothing: the run may still start and  *)
(* complete after the caller has left.                                     *)
(***************************************************************************)
EXTENDS Naturals

CONSTANT Calls      \* one element per invocation of SendCommand

Verdicts == {"ok", "err"}

VARIABLES
  phase,            \* what the caller knows of the call
  runs,             \* how often an agent has started the command
  verdict           \* what the run reported: CommandResult.success

vars == <<phase, runs, verdict>>

Phases == {"new", "refused", "open", "abandoned"} \cup Verdicts

TypeOK ==
  /\ phase \in [Calls -> Phases]
  /\ runs \in [Calls -> {0, 1}]
  /\ verdict \in [Calls -> Verdicts \cup {"none"}]

Init ==
  /\ phase = [k \in Calls |-> "new"]
  /\ runs = [k \in Calls |-> 0]
  /\ verdict = [k \in Calls |-> "none"]

\* The server has no session: the call ends without a command being sent.
Refuse(k) ==
  /\ phase[k] = "new"
  /\ phase' = [phase EXCEPT ![k] = "refused"]
  /\ UNCHANGED <<runs, verdict>>

\* A session was found: from here on the command may reach an agent.
Issue(k) ==
  /\ phase[k] = "new"
  /\ phase' = [phase EXCEPT ![k] = "open"]
  /\ UNCHANGED <<runs, verdict>>

\* An agent starts the command, whether or not its caller is still there.
Start(k) ==
  /\ phase[k] \in {"open", "abandoned"}
  /\ runs[k] = 0
  /\ runs' = [runs EXCEPT ![k] = 1]
  /\ UNCHANGED <<phase, verdict>>

\* The run ends with success or with an error.
Complete(k, v) ==
  /\ runs[k] = 1
  /\ verdict[k] = "none"
  /\ verdict' = [verdict EXCEPT ![k] = v]
  /\ UNCHANGED <<phase, runs>>

\* The caller is told the verdict of its own command.
Answer(k) ==
  /\ phase[k] = "open"
  /\ verdict[k] \in Verdicts
  /\ phase' = [phase EXCEPT ![k] = verdict[k]]
  /\ UNCHANGED <<runs, verdict>>

\* Callers stop waiting: one at its timeout, all of them when the API stops.
Abandon(K) ==
  /\ \A k \in K : phase[k] = "open"
  /\ phase' = [k \in Calls |-> IF k \in K THEN "abandoned" ELSE phase[k]]
  /\ UNCHANGED <<runs, verdict>>

Next ==
  \/ \E k \in Calls :
       \/ Refuse(k)
       \/ Issue(k)
       \/ Start(k)
       \/ \E v \in Verdicts : Complete(k, v)
       \/ Answer(k)
  \/ \E K \in SUBSET Calls : Abandon(K)

Spec == Init /\ [][Next]_vars
=============================================================================
