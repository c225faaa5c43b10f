---------------------------- MODULE ControlPlane ----------------------------
(***************************************************************************)
(* The API server (api/internal/grpc/server.go), the agents                *)
(* (agent/internal/rpc/agent.go) and the gRPC streams between them: how an *)
(* agent's session is registered and torn down, and how SendCommand turns  *)
(* an HTTP request into a command, waits for its result and gives up.      *)
(*                                                                         *)
(* Processes and goroutines.  On the API: one handler goroutine per stream *)
(* (Connect, handleSession) and one goroutine per HTTP request             *)
(* (SendCommand); they share the maps agents and pending under s.mu, and   *)
(* per-session and per-call Go channels.  On an agent: the reconnect loop  *)
(* (Run, connect, session) and one goroutine per command (handleCommand).  *)
(*                                                                         *)
(* A step is what one goroutine does between two points where another one  *)
(* can interfere: a critical section of s.mu, one channel operation, one   *)
(* stream operation.                                                       *)
(*                                                                         *)
(* A stream carries messages in order.  up[c] is what the agent has sent   *)
(* and the handler's loop has not taken yet (the wire, and the recv        *)
(* channel of capacity 8 behind it); down[c] likewise for the other        *)
(* direction.  Heartbeats and log messages are not in it: they touch       *)
(* neither the registry nor the calls.                                     *)
(***************************************************************************)
EXTENDS Naturals, Sequences, FiniteSets

CONSTANTS
  Agents,        \* agent processes, one per managed host
  Servers,       \* server IDs, the keys of the registry
  ServerOf,      \* the server ID that authenticate returns to each agent; two
                 \* agents share one when they share a hostname (no store) or
                 \* a provisioning token (store)
  Conns,         \* gRPC streams; a stream nobody refers to any more is reused
  Calls,         \* invocations of SendCommand, and the command ID of each
  SendCap,       \* capacity of connectedAgent.send (32 in the code)
  None           \* the nil pointer, and an absent map entry

Verdicts == {"ok", "err"}
Result   == [call : Calls, verdict : Verdicts]
Job      == [call : Calls, conn : Conns, state : {"running", "reporting"}]

Accepted == "accepted"      \* RegisterResponse{Accepted: true}

ASSUME ConstantsOK ==
  /\ ServerOf \in [Agents -> Servers]
  /\ SendCap \in Nat \ {0}
  /\ None \notin Conns
  /\ None \notin Result
  /\ Accepted \notin Calls       \* a command is not a RegisterResponse

VARIABLES
  \* API process
  agents,        \* Server.agents: server ID -> session
  pending,       \* keys of Server.pending: calls a result can be routed to
  resultCh,      \* content of each call's resultCh (capacity 1)
  sendq,         \* content of each session's send channel
  handler,       \* where each stream's handler goroutine is
  inhand,        \* the call and verdict a handler is about to deliver
  pc,            \* where each SendCommand goroutine is, or how it returned
  via,           \* the *connectedAgent a SendCommand goroutine holds
  target,        \* the server ID each call was made for
  \* streams
  stream, owner, down, up,
  \* agent processes
  aconn,         \* the stream an agent is using
  phase,         \* where an agent's connect loop is
  jobs,          \* handleCommand goroutines
  \* history
  ran,           \* the agents that started each command, in order
  verdict        \* what the dispatcher returned for each command

callVars   == <<pc, via, target>>
apiVars    == <<agents, pending, resultCh, sendq, handler, inhand>>
streamVars == <<stream, owner, down, up>>
agentVars  == <<aconn, phase, jobs>>
history    == <<ran, verdict>>
vars == <<callVars, apiVars, streamVars, agentVars, history>>

InFlight == {"looked", "posting", "waiting", "expiring"}
Returned == {"refused", "timedout", "lost"} \cup Verdicts

HandlerStates ==
  {"none", "auth", "accepted", "loop", "delivering", "closing", "done"}

TypeOK ==
  /\ agents \in [Servers -> Conns \cup {None}]
  /\ pending \subseteq Calls
  /\ resultCh \in [Calls -> Verdicts \cup {"none"}]
  /\ sendq \in [Conns -> Seq(Calls)]
  /\ handler \in [Conns -> HandlerStates]
  /\ inhand \in [Conns -> Result \cup {None}]
  /\ pc \in [Calls -> {"idle"} \cup InFlight \cup Returned]
  /\ via \in [Calls -> Conns \cup {None}]
  /\ target \in [Calls -> Servers \cup {None}]
  /\ stream \in [Conns -> {"unused", "open", "broken"}]
  /\ owner \in [Conns -> Agents \cup {None}]
  /\ down \in [Conns -> Seq(Calls \cup {Accepted})]
  /\ up \in [Conns -> Seq(Result)]
  /\ aconn \in [Agents -> Conns \cup {None}]
  /\ phase \in [Agents -> {"idle", "registering", "session"}]
  /\ jobs \subseteq Job
  /\ ran \in [Calls -> Seq(Agents)]
  /\ verdict \in [Calls -> Verdicts \cup {"none"}]

Init ==
  /\ agents = [s \in Servers |-> None]
  /\ pending = {}
  /\ resultCh = [k \in Calls |-> "none"]
  /\ sendq = [c \in Conns |-> <<>>]
  /\ handler = [c \in Conns |-> "none"]
  /\ inhand = [c \in Conns |-> None]
  /\ pc = [k \in Calls |-> "idle"]
  /\ via = [k \in Calls |-> None]
  /\ target = [k \in Calls |-> None]
  /\ stream = [c \in Conns |-> "unused"]
  /\ owner = [c \in Conns |-> None]
  /\ down = [c \in Conns |-> <<>>]
  /\ up = [c \in Conns |-> <<>>]
  /\ aconn = [a \in Agents |-> None]
  /\ phase = [a \in Agents |-> "idle"]
  /\ jobs = {}
  /\ ran = [k \in Calls |-> <<>>]
  /\ verdict = [k \in Calls |-> "none"]

ServerId(c) == ServerOf[owner[c]]

\* Nobody refers to the stream: its handler has returned, no agent, command
\* goroutine or SendCommand goroutine holds it.
Free(c) ==
  /\ handler[c] \in {"none", "done"}
  /\ \A a \in Agents : aconn[a] # c
  /\ \A k \in Calls : via[k] # c
  /\ \A j \in jobs : j.conn # c

-----------------------------------------------------------------------------
(* Agent: Run, connect, session, handleCommand.                            *)

\* connect: open a stream and send the RegisterRequest.  The API starts a
\* handler for it, with a fresh session (its own send channel).
Dial(a, c) ==
  /\ phase[a] = "idle"
  /\ Free(c)
  /\ phase' = [phase EXCEPT ![a] = "registering"]
  /\ aconn' = [aconn EXCEPT ![a] = c]
  /\ stream' = [stream EXCEPT ![c] = "open"]
  /\ owner' = [owner EXCEPT ![c] = a]
  /\ down' = [down EXCEPT ![c] = <<>>]
  /\ up' = [up EXCEPT ![c] = <<>>]
  /\ sendq' = [sendq EXCEPT ![c] = <<>>]
  /\ handler' = [handler EXCEPT ![c] = "auth"]
  /\ UNCHANGED <<callVars, agents, pending, resultCh, inhand, jobs, history>>

\* connect: the RegisterResponse arrives and accepts; session starts.
BeginSession(a) ==
  /\ phase[a] = "registering"
  /\ down[aconn[a]] # <<>>
  /\ Head(down[aconn[a]]) = Accepted
  /\ down' = [down EXCEPT ![aconn[a]] = Tail(@)]
  /\ phase' = [phase EXCEPT ![a] = "session"]
  /\ UNCHANGED <<callVars, apiVars, stream, owner, up, aconn, jobs, history>>

\* session: a command arrives and gets a goroutine, which starts the dispatch.
\* Nothing orders the goroutines: commands may run in any order.
TakeCommand(a) ==
  LET c == aconn[a] IN
  /\ phase[a] = "session"
  /\ down[c] # <<>>
  /\ Head(down[c]) \in Calls
  /\ down' = [down EXCEPT ![c] = Tail(@)]
  /\ jobs' = jobs \cup
               {[call |-> Head(down[c]), conn |-> c, state |-> "running"]}
  /\ ran' = [ran EXCEPT ![Head(down[c])] = Append(@, a)]
  /\ UNCHANGED <<callVars, apiVars, stream, owner, up, aconn, phase, verdict>>

\* Dispatch returns: the handler of the command succeeded or failed.
Finish(j, v) ==
  /\ j.state = "running"
  /\ jobs' = (jobs \ {j}) \cup
               {[call |-> j.call, conn |-> j.conn, state |-> "reporting"]}
  /\ verdict' = [verdict EXCEPT ![j.call] = v]
  /\ UNCHANGED <<callVars, apiVars, streamVars, aconn, phase, ran>>

\* Variant of Report: the result is sent without waiting for the dispatcher.
ReportEarly(j) ==
  /\ jobs' = jobs \ {j}
  /\ up' = IF stream[j.conn] = "open"
             THEN [up EXCEPT ![j.conn] =
                     Append(@, [call |-> j.call, verdict |-> verdict[j.call]])]
             ELSE up
  /\ UNCHANGED <<callVars, apiVars, stream, owner, down, aconn, phase, history>>

\* handleCommand sends the result on the stream the command came from and
\* ignores an error: on a broken stream the result is lost.
Report(j) ==
  /\ j.state = "reporting"
  /\ jobs' = jobs \ {j}
  /\ up' = IF stream[j.conn] = "open"
             THEN [up EXCEPT ![j.conn] =
                     Append(@, [call |-> j.call, verdict |-> verdict[j.call]])]
             ELSE up
  /\ UNCHANGED <<callVars, apiVars, stream, owner, down, aconn, phase, history>>

\* connect or session returns because the stream is broken; conn.Close drops
\* what was not read.  Command goroutines go on.
SessionLost(a) ==
  /\ phase[a] \in {"registering", "session"}
  /\ stream[aconn[a]] = "broken"
  /\ phase' = [phase EXCEPT ![a] = "idle"]
  /\ aconn' = [aconn EXCEPT ![a] = None]
  /\ down' = [down EXCEPT ![aconn[a]] = <<>>]
  /\ UNCHANGED <<callVars, apiVars, stream, owner, up, jobs, history>>

\* The agent process dies or is restarted: its goroutines end where they are.
AgentRestart(a) ==
  /\ phase[a] # "idle" \/ \E j \in jobs : owner[j.conn] = a
  /\ phase' = [phase EXCEPT ![a] = "idle"]
  /\ aconn' = [aconn EXCEPT ![a] = None]
  /\ jobs' = {j \in jobs : owner[j.conn] # a}
  /\ stream' = [c \in Conns |->
                  IF c = aconn[a] THEN "broken" ELSE stream[c]]
  /\ down' = [c \in Conns |-> IF c = aconn[a] THEN <<>> ELSE down[c]]
  /\ UNCHANGED <<callVars, apiVars, owner, up, history>>

-----------------------------------------------------------------------------
(* API: Connect and handleSession, one goroutine per stream.               *)

\* authenticate succeeds and the acceptance is sent.
Accept(c) ==
  /\ handler[c] = "auth"
  /\ stream[c] = "open"
  /\ down' = [down EXCEPT ![c] = Append(@, Accepted)]
  /\ handler' = [handler EXCEPT ![c] = "accepted"]
  /\ UNCHANGED <<callVars, agents, pending, resultCh, sendq, inhand,
                 stream, owner, up, agentVars, history>>

\* authenticate fails, or the stream breaks before the answer: Connect returns
\* an error, which ends the stream.  Whether the agent reads the rejection or
\* the error, its connect returns.
Reject(c) ==
  /\ handler[c] = "auth"
  /\ handler' = [handler EXCEPT ![c] = "done"]
  /\ stream' = [stream EXCEPT ![c] = "broken"]
  /\ UNCHANGED <<callVars, agents, pending, resultCh, sendq, inhand,
                 owner, down, up, agentVars, history>>

\* registerAgent: the session becomes the entry of its server ID.
RegisterAgent(c) ==
  /\ handler[c] = "accepted"
  /\ agents' = [agents EXCEPT ![ServerId(c)] = c]
  /\ handler' = [handler EXCEPT ![c] = "loop"]
  /\ UNCHANGED <<callVars, pending, resultCh, sendq, inhand,
                 streamVars, agentVars, history>>

\* Variant of SendCommandDown: the message stays queued until it is answered.
SendCommandDownKeep(c) ==
  /\ handler[c] = "loop"
  /\ sendq[c] # <<>>
  /\ Len(down[c]) < 2
  /\ stream[c] = "open"
  /\ down' = [down EXCEPT ![c] = Append(@, Head(sendq[c]))]
  /\ UNCHANGED <<callVars, agents, pending, resultCh, sendq, handler, inhand,
                 stream, owner, up, agentVars, history>>

\* handleSession takes a message from agent.send and writes it to the stream.
SendCommandDown(c) ==
  /\ handler[c] = "loop"
  /\ sendq[c] # <<>>
  /\ stream[c] = "open"
  /\ sendq' = [sendq EXCEPT ![c] = Tail(@)]
  /\ down' = [down EXCEPT ![c] = Append(@, Head(sendq[c]))]
  /\ UNCHANGED <<callVars, agents, pending, resultCh, handler, inhand,
                 stream, owner, up, agentVars, history>>

\* Variant of SendCommandLost: the error path returns without unregistering.
SendCommandLostNoDefer(c) ==
  /\ handler[c] = "loop"
  /\ sendq[c] # <<>>
  /\ stream[c] = "broken"
  /\ sendq' = [sendq EXCEPT ![c] = Tail(@)]
  /\ \E h \in {"loop", "done"} : handler' = [handler EXCEPT ![c] = h]
  /\ UNCHANGED <<callVars, agents, pending, resultCh, inhand,
                 streamVars, agentVars, history>>

\* The same on a broken stream: the message is lost, and Send may or may not
\* return the error that ends the session.
SendCommandLost(c) ==
  /\ handler[c] = "loop"
  /\ sendq[c] # <<>>
  /\ stream[c] = "broken"
  /\ sendq' = [sendq EXCEPT ![c] = Tail(@)]
  /\ \E h \in {"loop", "closing"} : handler' = [handler EXCEPT ![c] = h]
  /\ UNCHANGED <<callVars, agents, pending, resultCh, inhand,
                 streamVars, agentVars, history>>

\* Variant of ClaimResult: results are matched to waiting calls in any order,
\* not by their command ID.
ClaimResultUnmatched(c) ==
  /\ handler[c] = "loop"
  /\ up[c] # <<>>
  /\ up' = [up EXCEPT ![c] = Tail(@)]
  /\ \E k \in pending :
       /\ pending' = pending \ {k}
       /\ handler' = [handler EXCEPT ![c] = "delivering"]
       /\ inhand' = [inhand EXCEPT ![c] = [Head(up[c]) EXCEPT !.call = k]]
  /\ UNCHANGED <<callVars, agents, resultCh, sendq,
                 stream, owner, down, agentVars, history>>

\* handleAgentMessage, under s.mu: claim the call the result belongs to.  A
\* result nobody waits for is dropped.
ClaimResult(c) ==
  LET r == Head(up[c]) IN
  /\ handler[c] = "loop"
  /\ up[c] # <<>>
  /\ up' = [up EXCEPT ![c] = Tail(@)]
  /\ pending' = pending \ {r.call}
  /\ IF r.call \in pending
       THEN /\ handler' = [handler EXCEPT ![c] = "delivering"]
            /\ inhand' = [inhand EXCEPT ![c] = r]
       ELSE UNCHANGED <<handler, inhand>>
  /\ UNCHANGED <<callVars, agents, resultCh, sendq,
                 stream, owner, down, agentVars, history>>

\* Variant of HasRoom: an unbuffered channel, whose receiver must be there.
HasReceiver(k) == pc[k] = "waiting"

\* The channel has a free slot, so that a send on it does not block.
HasRoom(k) == resultCh[k] = "none"

\* handleAgentMessage, after s.mu is released: ch <- result.
DeliverResult(c) ==
  LET r == inhand[c] IN
  /\ handler[c] = "delivering"
  /\ HasRoom(r.call)
  /\ resultCh' = [resultCh EXCEPT ![r.call] = r.verdict]
  /\ handler' = [handler EXCEPT ![c] = "loop"]
  /\ inhand' = [inhand EXCEPT ![c] = None]
  /\ UNCHANGED <<callVars, agents, pending, sendq, streamVars, agentVars, history>>

\* handleSession returns on ctx.Done or a receive error.  Messages that were
\* received and not handled are dropped: select takes any ready case.
EndSession(c) ==
  /\ handler[c] = "loop"
  /\ stream[c] = "broken"
  /\ handler' = [handler EXCEPT ![c] = "closing"]
  /\ up' = [up EXCEPT ![c] = <<>>]
  /\ UNCHANGED <<callVars, agents, pending, resultCh, sendq, inhand,
                 stream, owner, down, agentVars, history>>

\* The deferred unregisterAgent: whatever session the server ID has is removed.
UnregisterAgent(c) ==
  /\ handler[c] = "closing"
  /\ agents' = [agents EXCEPT ![ServerId(c)] = None]
  /\ handler' = [handler EXCEPT ![c] = "done"]
  /\ up' = [up EXCEPT ![c] = <<>>]
  /\ UNCHANGED <<callVars, pending, resultCh, sendq, inhand,
                 stream, owner, down, agentVars, history>>

-----------------------------------------------------------------------------
(* API: SendCommand, one goroutine per HTTP request.                       *)

\* Under s.mu.RLock: find the session of the server.
Lookup(k, s) ==
  /\ pc[k] = "idle"
  /\ target' = [target EXCEPT ![k] = s]
  /\ IF agents[s] = None
       THEN /\ pc' = [pc EXCEPT ![k] = "refused"]
            /\ UNCHANGED via
       ELSE /\ pc' = [pc EXCEPT ![k] = "looked"]
            /\ via' = [via EXCEPT ![k] = agents[s]]
  /\ UNCHANGED <<apiVars, streamVars, agentVars, history>>

\* Under s.mu.Lock: make a command ID and a channel for its result.
Post(k) ==
  /\ pc[k] = "looked"
  /\ pc' = [pc EXCEPT ![k] = "posting"]
  /\ pending' = pending \cup {k}
  /\ UNCHANGED <<via, target, agents, resultCh, sendq, handler, inhand,
                 streamVars, agentVars, history>>

\* agent.send <- command: blocks while the channel is full, with no timeout,
\* and whether or not the session still has a handler.
Enqueue(k) ==
  LET c == via[k] IN
  /\ pc[k] = "posting"
  /\ Len(sendq[c]) < SendCap
  /\ sendq' = [sendq EXCEPT ![c] = Append(@, k)]
  /\ pc' = [pc EXCEPT ![k] = "waiting"]
  /\ via' = [via EXCEPT ![k] = None]
  /\ UNCHANGED <<target, agents, pending, resultCh, handler, inhand,
                 streamVars, agentVars, history>>

\* The select takes the result.
TakeResult(k) ==
  /\ pc[k] = "waiting"
  /\ resultCh[k] # "none"
  /\ pc' = [pc EXCEPT ![k] = resultCh[k]]
  /\ resultCh' = [resultCh EXCEPT ![k] = "none"]
  /\ UNCHANGED <<via, target, agents, pending, sendq, handler, inhand,
                 streamVars, agentVars, history>>

\* The select takes cmdCtx.Done: 30 seconds have passed, or the HTTP client
\* has left.
Expire(k) ==
  /\ pc[k] = "waiting"
  /\ pc' = [pc EXCEPT ![k] = "expiring"]
  /\ UNCHANGED <<via, target, apiVars, streamVars, agentVars, history>>

\* Variant of GiveUp: the entry of pending is forgotten on the timeout path.
GiveUpLeaky(k) ==
  /\ pc[k] = "expiring"
  /\ pc' = [pc EXCEPT ![k] = "timedout"]
  /\ UNCHANGED <<via, target, apiVars, streamVars, agentVars, history>>

\* Variant of GiveUp: the timeout is reported as "not connected".
GiveUpAsRefused(k) ==
  /\ pc[k] = "expiring"
  /\ pc' = [pc EXCEPT ![k] = "refused"]
  /\ pending' = pending \ {k}
  /\ UNCHANGED <<via, target, agents, resultCh, sendq, handler, inhand,
                 streamVars, agentVars, history>>

\* Under s.mu.Lock: forget the call, and return the timeout error.
GiveUp(k) ==
  /\ pc[k] = "expiring"
  /\ pc' = [pc EXCEPT ![k] = "timedout"]
  /\ pending' = pending \ {k}
  /\ UNCHANGED <<via, target, agents, resultCh, sendq, handler, inhand,
                 streamVars, agentVars, history>>

-----------------------------------------------------------------------------
(* Environment.                                                            *)

\* The connection under a stream fails.  Each end finds out by itself.
Break(c) ==
  /\ stream[c] = "open"
  /\ stream' = [stream EXCEPT ![c] = "broken"]
  /\ UNCHANGED <<callVars, apiVars, owner, down, up, agentVars, history>>

\* The API process dies and is restarted: registry, pending calls, sessions
\* and requests in progress are gone, and every stream is broken.
ApiRestart ==
  /\ \/ \E c \in Conns : handler[c] \notin {"none", "done"}
     \/ \E k \in Calls : pc[k] \in InFlight
  /\ agents' = [s \in Servers |-> None]
  /\ pending' = {}
  /\ resultCh' = [k \in Calls |-> "none"]
  /\ sendq' = [c \in Conns |-> <<>>]
  /\ handler' = [c \in Conns |->
                   IF handler[c] = "none" THEN "none" ELSE "done"]
  /\ inhand' = [c \in Conns |-> None]
  /\ pc' = [k \in Calls |-> IF pc[k] \in InFlight THEN "lost" ELSE pc[k]]
  /\ via' = [k \in Calls |-> None]
  /\ stream' = [c \in Conns |->
                  IF stream[c] = "open" THEN "broken" ELSE stream[c]]
  /\ up' = [c \in Conns |-> <<>>]
  /\ UNCHANGED <<target, owner, down, agentVars, history>>

-----------------------------------------------------------------------------
AgentStep(a) ==
  \/ \E c \in Conns : Dial(a, c)
  \/ BeginSession(a)
  \/ TakeCommand(a)
  \/ SessionLost(a)
  \/ AgentRestart(a)

JobStep(j) ==
  \/ \E v \in Verdicts : Finish(j, v)
  \/ Report(j)

HandlerStep(c) ==
  \/ Accept(c)
  \/ Reject(c)
  \/ RegisterAgent(c)
  \/ SendCommandDown(c)
  \/ SendCommandLost(c)
  \/ ClaimResult(c)
  \/ DeliverResult(c)
  \/ EndSession(c)
  \/ UnregisterAgent(c)

CallStep(k) ==
  \/ \E s \in Servers : Lookup(k, s)
  \/ Post(k)
  \/ Enqueue(k)
  \/ TakeResult(k)
  \/ Expire(k)
  \/ GiveUp(k)

Next ==
  \/ \E a \in Agents : AgentStep(a)
  \/ \E j \in jobs : JobStep(j)
  \/ \E c \in Conns : HandlerStep(c)
  \/ \E k \in Calls : CallStep(k)
  \/ \E c \in Conns : Break(c)
  \/ ApiRestart

Spec == Init /\ [][Next]_vars

\* What the Go runtimes, gRPC and the timers guarantee.  A goroutine that can
\* go on does; select picks among its ready cases at random, so that no case
\* that stays ready is passed over for ever; a broken stream is noticed at both
\* ends (Recv fails, by keepalive if nothing else); an agent redials.  Not
\* assumed: that a command finishes (its handler may hang), that authenticate
\* accepts, or that anything of the environment happens.
HandlerFairness ==
  \A c \in Conns :
    /\ WF_vars(RegisterAgent(c))
    /\ WF_vars(SendCommandDown(c))
    /\ WF_vars(ClaimResult(c))
    /\ WF_vars(DeliverResult(c))
    /\ WF_vars(EndSession(c))
    /\ WF_vars(UnregisterAgent(c))

Fairness ==
  /\ HandlerFairness
  /\ \A a \in Agents :
       /\ WF_vars(\E c \in Conns : Dial(a, c))
       /\ WF_vars(BeginSession(a))
       /\ WF_vars(TakeCommand(a))
       /\ WF_vars(SessionLost(a))
  /\ \A j \in Job : WF_vars(j \in jobs /\ Report(j))
  /\ \A c \in Conns : WF_vars(Accept(c) \/ Reject(c))
  /\ \A k \in Calls :
       /\ WF_vars(Post(k))
       /\ WF_vars(Enqueue(k))
       /\ WF_vars(TakeResult(k))
       /\ WF_vars(Expire(k))
       /\ WF_vars(GiveUp(k))

\* Only the sessions of the API need to go on.
HandlersGoOn == Spec /\ HandlerFairness

FairSpec == Spec /\ Fairness

-----------------------------------------------------------------------------
(* Safety.                                                                 *)

\* A command is started at most once, and only by an agent that authenticated
\* as the server the HTTP request named -- whatever sessions of whichever
\* servers come, go and replace each other between Lookup and Enqueue.
RunsOnceOnTarget ==
  \A k \in Calls :
    /\ Len(ran[k]) <= 1
    /\ \A i \in 1..Len(ran[k]) : ServerOf[ran[k][i]] = target[k]

\* handleCreateVhost, handleDeleteVhost: what the HTTP status says of a call.
Status(k) ==
  CASE pc[k] = "ok"                    -> "done"            \* 201, 204
    [] pc[k] = "err"                   -> "unprocessable"   \* 422
    [] pc[k] \in {"refused", "timedout"} -> "bad gateway"   \* 502
    [] OTHER                           -> "none"

\* A 201 or 204 says that an agent ran this very command with success, a 422
\* that one ran it and it failed: a late result of a call that was given up, or
\* one routed through another session, never answers a later call.
ReplyIsOwn ==
  \A k \in Calls :
    /\ Status(k) = "done" => ran[k] # <<>> /\ verdict[k] = "ok"
    /\ Status(k) = "unprocessable" => ran[k] # <<>> /\ verdict[k] = "err"

\* Server.pending does not leak: every entry belongs to a SendCommand that is
\* still there to be answered or to delete it.
PendingOwned ==
  \A k \in pending : pc[k] \in {"posting", "waiting", "expiring"}

\* handleAgentMessage never blocks in "ch <- result", outside s.mu and in the
\* goroutine that serves the whole session: the slot of the claimed channel is
\* free, also when the caller has left and when a result comes in twice.
DeliverNeverBlocks ==
  \A c \in Conns : handler[c] = "delivering" => HasRoom(inhand[c].call)

\* The registry never leads to a session without a handler: the entry of a
\* server is a session that authenticated as that server and whose handler
\* has not yet removed it, through every order of reconnects and teardowns.
RegistryLive ==
  \A s \in Servers :
    agents[s] # None =>
      /\ handler[agents[s]] \in {"loop", "delivering", "closing"}
      /\ ServerId(agents[s]) = s

\* What the caller of SendCommand knows of a call.
CallPhase(k) ==
  CASE pc[k] = "idle" -> "new"
    [] pc[k] \in InFlight -> "open"
    [] pc[k] \in {"timedout", "lost"} -> "abandoned"
    [] OTHER -> pc[k]

Rpc == INSTANCE CommandRpc WITH
         phase <- [k \in Calls |-> CallPhase(k)],
         runs  <- [k \in Calls |-> Len(ran[k])],
         verdict <- verdict

\* The sessions, maps and channels together implement a remote call that runs
\* at most once: no command without an issued call, no second run, no answer
\* before or other than the verdict, and nothing runs for a refused call.
ImplementsRpc == Rpc!Spec

-----------------------------------------------------------------------------
(* Liveness.                                                               *)

\* A session whose stream is broken does not stay in the registry: its handler
\* is never stuck in the delivery of a result, and unregisters it.
StaleEntryCleared ==
  \A s \in Servers, c \in Conns :
    (agents[s] = c /\ stream[c] = "broken") ~> (agents[s] # c)

\* deploy/nginx/gratis.conf gives an HTTP request 35 seconds, "slightly above the 30s
\* command timeout": every SendCommand that found a session returns.
SendCommandReturns ==
  \A k \in Calls : (pc[k] \in InFlight) ~> (pc[k] \in Returned)

\* docs/runbook.md: once the agent runs and has registered, "the server should
\* appear in the Gratis dashboard within a few seconds".  An agent in session
\* over a stream that works is in the registry, or its stream breaks.
SessionListed ==
  \A a \in Agents, c \in Conns :
    (phase[a] = "session" /\ aconn[a] = c)
      ~> (agents[ServerOf[a]] = c \/ stream[c] = "broken" \/ aconn[a] # c)
=============================================================================
