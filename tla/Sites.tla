------------------------------- MODULE Sites -------------------------------
(***************************************************************************)
(* The sites of one server, from the HTTP request to nginx: the routes     *)
(* handleCreateVhost and handleDeleteVhost (api/internal/grpc/routes.go)   *)
(* call SendCommand, of which CommandRpc says what reaches the agent and   *)
(* what comes back; the agent runs each command in a goroutine of its own  *)
(* (handleCommand), over the files of Vhosts.  No route sends              *)
(* RestartService yet; here it is a call like the others.                  *)
(*                                                                         *)
(* Neither side keeps commands for one domain apart.  Here the callers do: *)
(* none asks for a domain before the last command for it is over.          *)
(***************************************************************************)
EXTENDS Vhosts

VARIABLES
  phase, runs, verdict,   \* the calls, as in CommandRpc
  request,                \* what each call asks for
  tasks,                  \* the goroutines of handleCommand
  asked                   \* history: the last call made for each domain

rpc   == <<phase, runs, verdict>>
calls == <<rpc, request, asked>>
svars == <<vars, calls, tasks>>

Rpc == INSTANCE CommandRpc WITH Calls <- Ops

Requests ==
  [kind : {"create"}, dom : Domains, sound : BOOLEAN]
    \cup [kind : {"delete"}, dom : Domains, sound : {TRUE}]
    \cup [kind : {"restart"}, dom : {None}, sound : {TRUE}]

ASSUME RequestsOK == None \notin Requests

SitesTypeOK ==
  /\ TypeOK
  /\ Rpc!TypeOK
  /\ request \in [Ops -> Requests \cup {None}]
  /\ tasks \subseteq Ops
  /\ asked \in [Domains -> Ops \cup {None}]

SitesInit ==
  /\ Init
  /\ Rpc!Init
  /\ request = [o \in Ops |-> None]
  /\ tasks = {}
  /\ asked = [d \in Domains |-> None]

-----------------------------------------------------------------------------
(* The API.                                                                *)

\* Nothing will come of the command any more: it has reported its result, which
\* a caller finds in the answer or, when that came too late, in the API's log;
\* or its goroutine died with the agent.
IsOver(o) == verdict[o] # "none" \/ (runs[o] = 1 /\ o \notin tasks)

MayAsk(d) == d # None /\ asked[d] # None => IsOver(asked[d])

\* A request whose SendCommand finds a session.
Ask(o, r) ==
  /\ MayAsk(r.dom)
  /\ Rpc!Issue(o)
  /\ request' = [request EXCEPT ![o] = r]
  /\ asked' = [d \in Domains |-> IF d = r.dom THEN o ELSE asked[d]]
  /\ UNCHANGED <<vars, tasks>>

\* "server not connected": nothing was sent.
Unsent(o) ==
  /\ Rpc!Refuse(o)
  /\ UNCHANGED <<vars, request, asked, tasks>>

\* 201 or 204 for a success, 422 for an error.
Reply(o) ==
  /\ Rpc!Answer(o)
  /\ UNCHANGED <<vars, request, asked, tasks>>

\* "command timed out": one call gives up, or all do when the API stops.  The
\* commands are not withdrawn.
TimeOut(K) ==
  /\ K # {}
  /\ Rpc!Abandon(K)
  /\ UNCHANGED <<vars, request, asked, tasks>>

-----------------------------------------------------------------------------
(* The agent.                                                              *)

\* The loop of session takes the command and starts its goroutine.
TakeCommand(o) ==
  /\ Rpc!Start(o)
  /\ tasks' = tasks \cup {o}
  /\ UNCHANGED <<vars, verdict, request, asked>>

\* What the dispatcher does with the command.
Dispatched(o) ==
  \/ request[o].kind = "create" /\ BeginCreate(o, request[o].dom, request[o].sound)
  \/ request[o].kind = "delete" /\ BeginDelete(o, request[o].dom)
  \/ request[o].kind = "restart" /\ BeginRestart(o)
  \/ CreateStep(o)
  \/ DeleteStep(o)
  \/ ReloadNginx(o)
  \/ RestartService(o)

\* Variants of Reported: the result is sent before the work is done; an error
\* is reported as a success; the result is passed on as it is.
ReportedEarly(o) ==
  /\ tasks' = IF pc'[o] \in Busy THEN tasks ELSE tasks \ {o}
  /\ IF pc[o] = "idle" THEN Rpc!Complete(o, "ok") ELSE UNCHANGED rpc

ReportedOk(o) ==
  IF pc'[o] \in Busy
    THEN UNCHANGED <<rpc, tasks>>
    ELSE Rpc!Complete(o, "ok") /\ tasks' = tasks \ {o}

ReportedRaw(o) ==
  IF pc'[o] \in Busy
    THEN UNCHANGED <<rpc, tasks>>
    ELSE Rpc!Complete(o, pc'[o]) /\ tasks' = tasks \ {o}

\* handleCommand sends the result of Dispatch, once it has returned.
Reported(o) ==
  IF pc'[o] \in Busy
    THEN UNCHANGED <<rpc, tasks>>
    ELSE /\ Rpc!Complete(o, IF pc'[o] = "ok" THEN "ok" ELSE "err")
         /\ tasks' = tasks \ {o}

HandleCommand(o) ==
  /\ o \in tasks
  /\ Dispatched(o)
  /\ Reported(o)
  /\ UNCHANGED <<request, asked>>

\* The agent dies, whether or not a goroutine has begun with its files.
AgentDies ==
  /\ "crash" \in Faults
  /\ tasks # {}
  /\ AgentRestart \/ ((\A o \in Ops : pc[o] \notin Busy) /\ UNCHANGED vars)
  /\ tasks' = {}
  /\ UNCHANGED calls

-----------------------------------------------------------------------------
SitesNext ==
  \/ \E o \in Ops :
       \/ \E r \in Requests : Ask(o, r)
       \/ Unsent(o)
       \/ Reply(o)
       \/ TakeCommand(o)
       \/ HandleCommand(o)
  \/ \E K \in SUBSET Ops : TimeOut(K)
  \/ AgentDies

SitesSpec == SitesInit /\ [][SitesNext]_svars

-----------------------------------------------------------------------------
(* Properties.                                                             *)

\* Answers that come late or never, calls that give up, commands of other
\* domains and an agent that dies: callers that wait for the last command of a
\* domain to be over are enough to keep commands for one domain apart, which
\* Vhosts assumes of them.
W == INSTANCE Vhosts WITH Overlaps <- {"other"}

ImplementsVhosts == W!Spec

\* A 201 or 204 is true: once the last call for a domain was answered with a
\* success, nginx serves what that call asked for, whatever else is going on.
StatusTrue ==
  \A d \in Domains :
    LET o == asked[d] IN
    up /\ o # None /\ phase[o] = "ok" =>
      loaded[d] = IF request[o].kind = "create" THEN o ELSE None

-----------------------------------------------------------------------------
(* The inductive invariant behind them, beside that of Vhosts.             *)

Made(o) == request[o] # None

\* What has begun with the files is a call that an agent has started; it is in
\* progress only in a goroutine, which has not reported.
TasksOwn ==
  \A o \in Ops :
    /\ phase[o] \in {"new", "refused"} <=> ~Made(o)
    /\ runs[o] = 1 => Made(o)
    /\ verdict[o] # "none" => runs[o] = 1
    /\ o \in tasks => runs[o] = 1 /\ verdict[o] = "none"
    /\ pc[o] \in Busy => o \in tasks
    /\ pc[o] # "idle" =>
         runs[o] = 1 /\ kind[o] = request[o].kind /\ dom[o] = request[o].dom

\* All calls for a domain but the last are over, and the last one is also the
\* last that has begun with the files.
LastAsked ==
  /\ \A d \in Domains :
       asked[d] # None =>
         /\ Made(asked[d]) /\ request[asked[d]].dom = d
         /\ pc[asked[d]] # "idle" => last[d] = asked[d]
  /\ \A o \in Ops :
       Made(o) /\ request[o].dom # None /\ o # asked[request[o].dom] => IsOver(o)

\* An answer is the verdict, and a success is one.
AnswersTrue ==
  \A o \in Ops :
    /\ phase[o] \in Rpc!Verdicts => verdict[o] = phase[o]
    /\ verdict[o] = "ok" => pc[o] = "ok"

CallsInv ==
  SitesTypeOK /\ TasksOwn /\ LastAsked /\ AnswersTrue
=============================================================================
