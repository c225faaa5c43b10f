------------------------- MODULE ControlPlaneProofs -------------------------
(***************************************************************************)
(* Proofs about ControlPlane, for every set of agents, servers, streams    *)
(* and calls and every capacity of the send channels.                      *)
(*                                                                         *)
(* The invariant IInv of ControlPlaneInv is proved in its three parts,     *)
(* Wiring, Delivery and Routing, each from those before it.  The safety    *)
(* properties and the refinement of CommandRpc follow from it.  A frame    *)
(* lemma says which actions write a group of variables, so that a proof    *)
(* about the group has one case for each of these actions and one for all  *)
(* the others.                                                             *)
(***************************************************************************)
EXTENDS ControlPlaneInv, TLAPS

-----------------------------------------------------------------------------
(* Frames: which actions write which variables.                            *)

\* The connect loop of an agent moves only in its own four actions.
LEMMA AgentFrame ==
  ASSUME [Next]_vars
  PROVE  \/ \E a \in Agents :
              \/ \E c \in Conns : Dial(a, c)
              \/ BeginSession(a) \/ SessionLost(a) \/ AgentRestart(a)
         \/ UNCHANGED <<phase, aconn>>
  BY DEF Next, AgentStep, JobStep, HandlerStep, CallStep, TakeCommand, Finish,
     Report, Accept, Reject, RegisterAgent, SendCommandDown, SendCommandLost,
     ClaimResult, DeliverResult, EndSession, UnregisterAgent, Lookup, Post,
     Enqueue, TakeResult, Expire, GiveUp, Break, ApiRestart,
     vars, callVars, apiVars, streamVars, agentVars

\* Only Dial gives a stream to an agent.
LEMMA OwnerFrame ==
  ASSUME [Next]_vars
  PROVE  (\E a \in Agents, c \in Conns : Dial(a, c)) \/ UNCHANGED owner
  BY DEF Next, AgentStep, JobStep, HandlerStep, CallStep, BeginSession,
     TakeCommand, SessionLost, AgentRestart, Finish, Report, Accept, Reject,
     RegisterAgent, SendCommandDown, SendCommandLost, ClaimResult,
     DeliverResult, EndSession, UnregisterAgent, Lookup, Post, Enqueue,
     TakeResult, Expire, GiveUp, Break, ApiRestart,
     vars, callVars, apiVars, streamVars, agentVars

\* The registry and the handlers move only in the steps of a handler, when an
\* agent dials and when the API restarts.
LEMMA HandlerFrame ==
  ASSUME [Next]_vars
  PROVE  \/ \E a \in Agents, c \in Conns : Dial(a, c)
         \/ \E c \in Conns :
              \/ Accept(c) \/ Reject(c) \/ RegisterAgent(c)
              \/ SendCommandLost(c) \/ ClaimResult(c) \/ DeliverResult(c)
              \/ EndSession(c) \/ UnregisterAgent(c)
         \/ ApiRestart
         \/ UNCHANGED <<agents, handler, inhand>>
  BY DEF Next, AgentStep, JobStep, HandlerStep, CallStep, BeginSession,
     TakeCommand, SessionLost, AgentRestart, Finish, Report, SendCommandDown,
     Lookup, Post, Enqueue, TakeResult, Expire, GiveUp, Break,
     vars, callVars, apiVars, streamVars, agentVars

\* Commands start, finish and report only through their agent.
LEMMA JobFrame ==
  ASSUME [Next]_vars
  PROVE  \/ \E a \in Agents : TakeCommand(a) \/ AgentRestart(a)
         \/ \E j \in jobs : (\E v \in Verdicts : Finish(j, v)) \/ Report(j)
         \/ UNCHANGED <<jobs, ran, verdict>>
  BY DEF Next, AgentStep, JobStep, HandlerStep, CallStep, Dial, BeginSession,
     SessionLost, Accept, Reject, RegisterAgent, SendCommandDown,
     SendCommandLost, ClaimResult, DeliverResult, EndSession, UnregisterAgent,
     Lookup, Post, Enqueue, TakeResult, Expire, GiveUp, Break, ApiRestart,
     vars, callVars, apiVars, streamVars, agentVars, history

\* A SendCommand goroutine moves in its own steps and when the API restarts.
LEMMA CallFrame ==
  ASSUME [Next]_vars
  PROVE  \/ \E k \in Calls :
              \/ \E s \in Servers : Lookup(k, s)
              \/ Post(k) \/ Enqueue(k) \/ TakeResult(k) \/ Expire(k)
              \/ GiveUp(k)
         \/ ApiRestart
         \/ UNCHANGED <<pc, via, target>>
  BY DEF Next, AgentStep, JobStep, HandlerStep, CallStep, Dial, BeginSession,
     TakeCommand, SessionLost, AgentRestart, Finish, Report, Accept, Reject,
     RegisterAgent, SendCommandDown, SendCommandLost, ClaimResult,
     DeliverResult, EndSession, UnregisterAgent, Break,
     vars, callVars, apiVars, streamVars, agentVars

-----------------------------------------------------------------------------
(* Wiring.                                                                 *)

\* Initially nothing is connected.
LEMMA WiringInit == Init => Wiring
  BY ConstantsOK DEF Init, Wiring, TypeOK, AgentOnOwnStream, HandlerHasOwner,
     RegistryLive, CallHoldsSession, InHandIffDelivering, JobsWired,
     HandlerStates, InFlight

\* No step resets a handler to "none": once opened, a stream stays so.
LEMMA StaysOpened ==
  ASSUME Wiring, [Next]_vars, NEW c \in Conns, handler[c] # "none"
  PROVE  handler'[c] # "none"
<1>0. handler \in [Conns -> HandlerStates]
  BY DEF Wiring, TypeOK
<1>1. CASE \E a \in Agents, d \in Conns : Dial(a, d)
  BY <1>0, <1>1 DEF Dial
<1>2. CASE \E d \in Conns :
              \/ Accept(d) \/ Reject(d) \/ RegisterAgent(d)
              \/ SendCommandLost(d) \/ ClaimResult(d) \/ DeliverResult(d)
              \/ EndSession(d) \/ UnregisterAgent(d)
  BY <1>0, <1>2 DEF Accept, Reject, RegisterAgent, SendCommandLost,
     ClaimResult, DeliverResult, EndSession, UnregisterAgent
<1>3. CASE ApiRestart
  BY <1>0, <1>3 DEF ApiRestart
<1>4. CASE UNCHANGED handler
  BY <1>4
<1> QED
  BY <1>1, <1>2, <1>3, <1>4, HandlerFrame

\* An agent keeps the stream it dialled: nobody dials on it meanwhile.
LEMMA AgentOnOwnStreamStep == Wiring /\ [Next]_vars => AgentOnOwnStream'
<1> SUFFICES ASSUME Wiring, [Next]_vars,
                    NEW b \in Agents, phase'[b] # "idle"
             PROVE  /\ aconn'[b] \in Conns
                    /\ owner'[aconn'[b]] = b
                    /\ handler'[aconn'[b]] # "none"
  BY DEF AgentOnOwnStream
<1> USE DEF Wiring, TypeOK, AgentOnOwnStream
<1>1. CASE \E a \in Agents, c \in Conns : Dial(a, c)
  BY <1>1 DEF Dial, Free
<1>2. ASSUME NEW a \in Agents,
             BeginSession(a) \/ SessionLost(a) \/ AgentRestart(a)
      PROVE  phase[b] # "idle" /\ aconn'[b] = aconn[b] /\ UNCHANGED owner
  BY <1>2 DEF BeginSession, SessionLost, AgentRestart, streamVars
<1>3. CASE UNCHANGED <<phase, aconn, owner>>
  BY <1>3, StaysOpened
<1> QED
  BY <1>1, <1>2, <1>3, StaysOpened, AgentFrame, OwnerFrame

\* No step resets a handler to "none", and only Dial changes an owner.
LEMMA HandlerHasOwnerStep == Wiring /\ [Next]_vars => HandlerHasOwner'
<1> SUFFICES ASSUME Wiring, [Next]_vars PROVE HandlerHasOwner'
  OBVIOUS
<1> USE DEF Wiring, TypeOK, HandlerHasOwner
<1>1. ASSUME NEW a \in Agents, NEW c \in Conns, Dial(a, c)
      PROVE  HandlerHasOwner'
  BY <1>1 DEF Dial
<1>2. ASSUME NEW c \in Conns,
             \/ Accept(c) \/ Reject(c) \/ RegisterAgent(c)
             \/ SendCommandLost(c) \/ ClaimResult(c) \/ DeliverResult(c)
             \/ EndSession(c) \/ UnregisterAgent(c)
      PROVE  HandlerHasOwner'
  BY <1>2 DEF Accept, Reject, RegisterAgent, SendCommandLost, ClaimResult,
     DeliverResult, EndSession, UnregisterAgent, streamVars
<1>3. CASE ApiRestart
  BY <1>3 DEF ApiRestart
<1>4. CASE UNCHANGED <<handler, owner>>
  BY <1>4
<1> QED
  BY <1>1, <1>2, <1>3, <1>4, HandlerFrame, OwnerFrame

\* A teardown removes the entry of its own server, so that an entry never
\* outlives its handler; a stream with an entry is not Free.
LEMMA RegistryLiveStep == Wiring /\ [Next]_vars => RegistryLive'
<1> SUFFICES ASSUME Wiring, [Next]_vars,
                    NEW s \in Servers, agents'[s] # None
             PROVE  /\ handler'[agents'[s]] \in {"loop", "delivering", "closing"}
                    /\ ServerOf[owner'[agents'[s]]] = s
  BY DEF RegistryLive, ServerId
<1>0. /\ agents \in [Servers -> Conns \cup {None}]
      /\ handler \in [Conns -> HandlerStates]
      /\ owner \in [Conns -> Agents \cup {None}]
      /\ \A c \in Conns : handler[c] # "none" => owner[c] \in Agents
      /\ \A t \in Servers :
           agents[t] # None =>
             /\ handler[agents[t]] \in {"loop", "delivering", "closing"}
             /\ ServerOf[owner[agents[t]]] = t
      /\ None \notin Conns
      /\ ServerOf \in [Agents -> Servers]
  BY ConstantsOK DEF Wiring, TypeOK, HandlerHasOwner, RegistryLive, ServerId
<1>1. CASE \E a \in Agents, c \in Conns : Dial(a, c)
  BY <1>0, <1>1 DEF Dial, Free
<1>2. CASE \E c \in Conns : Accept(c) \/ Reject(c)
  BY <1>0, <1>2 DEF Accept, Reject, streamVars
<1>3. CASE \E c \in Conns : RegisterAgent(c)
  BY <1>0, <1>3 DEF RegisterAgent, ServerId, streamVars
<1>4. CASE \E c \in Conns : SendCommandLost(c) \/ EndSession(c)
  BY <1>0, <1>4 DEF SendCommandLost, EndSession, streamVars
<1>5. CASE \E c \in Conns : ClaimResult(c) \/ DeliverResult(c)
  BY <1>0, <1>5 DEF ClaimResult, DeliverResult, streamVars
<1>6. CASE \E c \in Conns : UnregisterAgent(c)
  BY <1>0, <1>6 DEF UnregisterAgent, ServerId
<1>7. CASE ApiRestart
  BY <1>0, <1>7 DEF ApiRestart
<1>8. CASE UNCHANGED <<agents, handler, owner>>
  BY <1>0, <1>8
<1> QED
  BY <1>1, <1>2, <1>3, <1>4, <1>5, <1>6, <1>7, <1>8, HandlerFrame, OwnerFrame

\* The session of a SendCommand that has not queued its command stays wired:
\* its stream is not Free, so that no agent dials on it.
LEMMA CallHoldsSessionStep == Wiring /\ [Next]_vars => CallHoldsSession'
<1> SUFFICES ASSUME Wiring, [Next]_vars,
                    NEW k \in Calls, pc'[k] \in {"looked", "posting"}
             PROVE  /\ via'[k] \in Conns
                    /\ handler'[via'[k]] # "none"
                    /\ ServerOf[owner'[via'[k]]] = target'[k]
  BY DEF CallHoldsSession, ServerId
<1> DEFINE Holds == /\ via[k] \in Conns
                    /\ handler[via[k]] # "none"
                    /\ ServerOf[owner[via[k]]] = target[k]
<1>0. /\ agents \in [Servers -> Conns \cup {None}]
      /\ pc \in [Calls -> {"idle"} \cup InFlight \cup Returned]
      /\ resultCh \in [Calls -> Verdicts \cup {"none"}]
      /\ via \in [Calls -> Conns \cup {None}]
      /\ target \in [Calls -> Servers \cup {None}]
      /\ handler \in [Conns -> HandlerStates]
      /\ owner \in [Conns -> Agents \cup {None}]
      /\ pc[k] \in {"looked", "posting"} => Holds
  BY DEF Wiring, TypeOK, CallHoldsSession, ServerId
<1>1. \/ pc[k] \in {"looked", "posting"} /\ UNCHANGED <<via[k], target[k]>>
      \/ \E s \in Servers : Lookup(k, s)
  <2>1. CASE \E i \in Calls, s \in Servers : Lookup(i, s)
    BY <1>0, <2>1 DEF Lookup
  <2>2. CASE \E i \in Calls : Post(i) \/ Enqueue(i) \/ Expire(i) \/ GiveUp(i)
    BY <1>0, <2>2 DEF Post, Enqueue, Expire, GiveUp
  <2>3. CASE \E i \in Calls : TakeResult(i)
    BY <1>0, <2>3 DEF TakeResult, Verdicts
  <2>4. CASE ApiRestart
    BY <1>0, <2>4 DEF ApiRestart, InFlight
  <2>5. CASE UNCHANGED <<pc, via, target>>
    BY <2>5
  <2> QED
    BY <2>1, <2>2, <2>3, <2>4, <2>5, CallFrame
<1>2. CASE \E s \in Servers : Lookup(k, s)
  <2>1. PICK s \in Servers : Lookup(k, s)
    BY <1>2
  <2>2. agents[s] # None /\ via'[k] = agents[s] /\ target'[k] = s
    BY <1>0, <2>1 DEF Lookup
  <2>3. UNCHANGED <<handler, owner>>
    BY <2>1 DEF Lookup, apiVars, streamVars
  <2> QED
    BY <1>0, <2>2, <2>3 DEF Wiring, RegistryLive, ServerId
<1>3. ASSUME pc[k] \in {"looked", "posting"}, UNCHANGED <<via[k], target[k]>>
      PROVE  handler'[via[k]] # "none" /\ owner'[via[k]] = owner[via[k]]
  <2>1. CASE \E a \in Agents, c \in Conns : Dial(a, c)
    BY <1>0, <1>3, <2>1 DEF Dial, Free
  <2>2. CASE \E c \in Conns :
                \/ Accept(c) \/ Reject(c) \/ RegisterAgent(c)
                \/ SendCommandLost(c) \/ ClaimResult(c) \/ DeliverResult(c)
                \/ EndSession(c) \/ UnregisterAgent(c)
    BY <1>0, <1>3, <2>2 DEF Accept, Reject, RegisterAgent, SendCommandLost,
       ClaimResult, DeliverResult, EndSession, UnregisterAgent, streamVars
  <2>3. CASE ApiRestart
    BY <1>0, <1>3, <2>3 DEF ApiRestart
  <2>4. CASE UNCHANGED <<handler, owner>>
    BY <1>0, <1>3, <2>4
  <2> QED
    BY <2>1, <2>2, <2>3, <2>4, HandlerFrame, OwnerFrame
<1> QED
  BY <1>0, <1>1, <1>2, <1>3

\* A handler takes a result in hand exactly when it goes to deliver it.
LEMMA InHandIffDeliveringStep == Wiring /\ [Next]_vars => InHandIffDelivering'
<1> SUFFICES ASSUME Wiring, [Next]_vars PROVE InHandIffDelivering'
  OBVIOUS
<1>0. /\ handler \in [Conns -> HandlerStates]
      /\ inhand \in [Conns -> Result \cup {None}]
      /\ up \in [Conns -> Seq(Result)]
      /\ None \notin Result
      /\ \A c \in Conns : handler[c] = "delivering" <=> inhand[c] # None
  BY ConstantsOK DEF Wiring, TypeOK, InHandIffDelivering
<1>1. CASE \E a \in Agents, c \in Conns : Dial(a, c)
  BY <1>0, <1>1 DEF Dial, Free, InHandIffDelivering
<1>2. CASE \E c \in Conns :
              \/ Accept(c) \/ Reject(c) \/ RegisterAgent(c)
              \/ SendCommandLost(c) \/ EndSession(c) \/ UnregisterAgent(c)
  BY <1>0, <1>2 DEF Accept, Reject, RegisterAgent, SendCommandLost,
     EndSession, UnregisterAgent, InHandIffDelivering
<1>3. ASSUME NEW c \in Conns, ClaimResult(c)
      PROVE  InHandIffDelivering'
  <2>1. Head(up[c]) \in Result
    BY <1>0, <1>3 DEF ClaimResult
  <2> QED
    BY <1>0, <1>3, <2>1 DEF ClaimResult, InHandIffDelivering
<1>4. CASE \E c \in Conns : DeliverResult(c)
  BY <1>0, <1>4 DEF DeliverResult, InHandIffDelivering
<1>5. CASE ApiRestart
  BY <1>0, <1>5 DEF ApiRestart, InHandIffDelivering
<1>6. CASE UNCHANGED <<handler, inhand>>
  BY <1>0, <1>6 DEF InHandIffDelivering
<1> QED
  BY <1>1, <1>2, <1>3, <1>4, <1>5, <1>6, HandlerFrame

\* A job keeps its stream opened, and its verdict once it has one.
LEMMA JobsWiredStep == Wiring /\ [Next]_vars => JobsWired'
<1> SUFFICES ASSUME Wiring, [Next]_vars,
                    NEW j \in jobs'
             PROVE  /\ handler'[j.conn] # "none"
                    /\ j.state = "reporting" => verdict'[j.call] # "none"
  BY DEF JobsWired
<1>0. /\ handler \in [Conns -> HandlerStates]
      /\ verdict \in [Calls -> Verdicts \cup {"none"}]
      /\ jobs \subseteq Job
      /\ \A i \in jobs :
           /\ handler[i.conn] # "none"
           /\ i.state = "reporting" => verdict[i.call] # "none"
  BY DEF Wiring, TypeOK, JobsWired
<1>1. ASSUME j.conn \in Conns, handler[j.conn] # "none",
             j.state = "reporting" => verdict'[j.call] # "none"
      PROVE  /\ handler'[j.conn] # "none"
             /\ j.state = "reporting" => verdict'[j.call] # "none"
  BY <1>1, StaysOpened
<1>2. CASE UNCHANGED <<jobs, ran, verdict>>
  BY <1>0, <1>1, <1>2 DEF Job
<1>3. ASSUME NEW a \in Agents, TakeCommand(a)
      PROVE  /\ j.conn \in Conns /\ handler[j.conn] # "none"
             /\ j.state = "reporting" => verdict'[j.call] # "none"
  <2>1. aconn[a] \in Conns /\ handler[aconn[a]] # "none"
    BY <1>3 DEF TakeCommand, Wiring, AgentOnOwnStream
  <2> QED
    BY <1>0, <1>3, <2>1 DEF TakeCommand, Job
<1>4. CASE \E a \in Agents : AgentRestart(a)
  BY <1>0, <1>1, <1>4 DEF AgentRestart, Job, history
<1>5. CASE \E i \in jobs, v \in Verdicts : Finish(i, v)
  BY <1>0, <1>1, <1>5 DEF Finish, Job, Verdicts
<1>6. CASE \E i \in jobs : Report(i)
  BY <1>0, <1>1, <1>6 DEF Report, Job, history
<1> QED
  BY <1>1, <1>2, <1>3, <1>4, <1>5, <1>6, JobFrame

-----------------------------------------------------------------------------
(* Type correctness, one group of actions at a time.                       *)

\* Steps of an agent.
LEMMA AgentTypes ==
  ASSUME Wiring, NEW a \in Agents, AgentStep(a)
  PROVE  TypeOK'
<1> USE DEF Wiring, TypeOK
<1>1. ASSUME NEW c \in Conns, Dial(a, c) PROVE TypeOK'
  BY <1>1 DEF Dial, HandlerStates, callVars, history
<1>2. CASE BeginSession(a)
  BY <1>2 DEF BeginSession, AgentOnOwnStream, callVars, apiVars, history
<1>3. CASE TakeCommand(a)
  BY <1>3 DEF TakeCommand, AgentOnOwnStream, Job, callVars, apiVars
<1>4. CASE SessionLost(a)
  BY <1>4 DEF SessionLost, AgentOnOwnStream, callVars, apiVars, history
<1>5. CASE AgentRestart(a)
  BY <1>5 DEF AgentRestart, callVars, apiVars, history
<1> QED
  BY <1>1, <1>2, <1>3, <1>4, <1>5 DEF AgentStep

\* Steps of a command goroutine.
LEMMA JobTypes ==
  ASSUME Wiring, NEW j \in jobs, JobStep(j)
  PROVE  TypeOK'
<1> USE DEF Wiring, TypeOK
<1>0. j \in Job /\ j.conn \in Conns /\ j.call \in Calls
  BY DEF Job
<1>1. ASSUME NEW v \in Verdicts, Finish(j, v) PROVE TypeOK'
  BY <1>0, <1>1 DEF Finish, Job, callVars, apiVars, streamVars
<1>2. CASE Report(j)
  <2>1. [call |-> j.call, verdict |-> verdict[j.call]] \in Result
    BY <1>0, <1>2 DEF Report, Result, JobsWired
  <2>2. up' \in [Conns -> Seq(Result)]
    BY <1>0, <1>2, <2>1 DEF Report
  <2> QED
    BY <1>2, <2>2 DEF Report, callVars, apiVars, history
<1> QED
  BY <1>1, <1>2 DEF JobStep

\* Steps of a stream handler.
LEMMA HandlerTypes ==
  ASSUME Wiring, NEW c \in Conns, HandlerStep(c)
  PROVE  TypeOK'
<1> USE DEF Wiring, TypeOK, callVars, agentVars, history
<1>1. CASE Accept(c)
  <2>1. down' \in [Conns -> Seq(Calls \cup {Accepted})]
    BY <1>1 DEF Accept
  <2> QED
    BY <1>1, <2>1 DEF Accept, HandlerStates
<1>2. CASE Reject(c) \/ RegisterAgent(c)
  BY <1>2 DEF Reject, RegisterAgent, HandlerStates, streamVars
<1>3. CASE SendCommandDown(c)
  <2>1. Head(sendq[c]) \in Calls /\ Tail(sendq[c]) \in Seq(Calls)
    BY <1>3 DEF SendCommandDown
  <2>2. /\ sendq' \in [Conns -> Seq(Calls)]
        /\ down' \in [Conns -> Seq(Calls \cup {Accepted})]
    BY <1>3, <2>1 DEF SendCommandDown
  <2> QED
    BY <1>3, <2>2 DEF SendCommandDown
<1>8. CASE SendCommandLost(c)
  BY <1>8 DEF SendCommandLost, HandlerStates, streamVars
<1>4. CASE ClaimResult(c)
  <2>1. Head(up[c]) \in Result /\ Tail(up[c]) \in Seq(Result)
    BY <1>4 DEF ClaimResult
  <2>2. /\ inhand' \in [Conns -> Result \cup {None}]
        /\ up' \in [Conns -> Seq(Result)]
    BY <1>4, <2>1 DEF ClaimResult
  <2> QED
    BY <1>4, <2>2 DEF ClaimResult, HandlerStates
<1>5. CASE DeliverResult(c)
  <2>1. inhand[c].call \in Calls /\ inhand[c].verdict \in Verdicts
    BY <1>5 DEF DeliverResult, InHandIffDelivering, Result
  <2> QED
    BY <1>5, <2>1 DEF DeliverResult, HandlerStates, streamVars
<1>6. CASE EndSession(c)
  BY <1>6 DEF EndSession, HandlerStates
<1>7. CASE UnregisterAgent(c)
  <2>1. agents' \in [Servers -> Conns \cup {None}]
    BY <1>7 DEF UnregisterAgent
  <2> QED
    BY <1>7, <2>1 DEF UnregisterAgent, HandlerStates
<1> QED
  BY <1>1, <1>2, <1>3, <1>4, <1>5, <1>6, <1>7, <1>8 DEF HandlerStep

\* Steps of SendCommand.
LEMMA CallTypes ==
  ASSUME Wiring, NEW k \in Calls, CallStep(k)
  PROVE  TypeOK'
<1> USE DEF Wiring, TypeOK, InFlight, Returned,
            apiVars, streamVars, agentVars, history
<1>1. ASSUME NEW s \in Servers, Lookup(k, s) PROVE TypeOK'
  BY <1>1 DEF Lookup
<1>2. CASE Post(k) \/ Expire(k) \/ GiveUp(k)
  BY <1>2 DEF Post, Expire, GiveUp
<1>3. CASE Enqueue(k)
  <2>1. sendq' \in [Conns -> Seq(Calls)]
    BY <1>3 DEF Enqueue, CallHoldsSession
  <2> QED
    BY <1>3, <2>1 DEF Enqueue
<1>4. CASE TakeResult(k)
  BY <1>4 DEF TakeResult
<1> QED
  BY <1>1, <1>2, <1>3, <1>4 DEF CallStep

\* Every step preserves the types.
LEMMA TypeStep == Wiring /\ [Next]_vars => TypeOK'
<1> SUFFICES ASSUME Wiring, [Next]_vars PROVE TypeOK'
  OBVIOUS
<1> USE DEF Wiring, TypeOK
<1>1. CASE \E c \in Conns : Break(c)
  BY <1>1 DEF Break, callVars, apiVars, agentVars, history
<1>2. CASE ApiRestart
  BY <1>2 DEF ApiRestart, HandlerStates, InFlight, Returned, agentVars, history
<1>3. CASE UNCHANGED vars
  BY <1>3 DEF vars, callVars, apiVars, streamVars, agentVars, history
<1> QED
  BY <1>1, <1>2, <1>3, AgentTypes, JobTypes, HandlerTypes, CallTypes DEF Next

\* Streams, handlers, agents, callers and jobs always refer to each other as
\* Wiring says; in particular the model is type correct.
THEOREM WiringInvariant == Spec => []Wiring
<1>1. Wiring /\ [Next]_vars => Wiring'
  BY TypeStep, AgentOnOwnStreamStep, HandlerHasOwnerStep, RegistryLiveStep,
     CallHoldsSessionStep, InHandIffDeliveringStep, JobsWiredStep DEF Wiring
<1> QED
  BY WiringInit, <1>1, PTL DEF Spec

\* The sessions, calls, channels and streams keep their types, for any number
\* of agents, servers, streams and calls.
THEOREM TypesAreKept == Spec => []TypeOK
<1>1. Wiring => TypeOK
  BY DEF Wiring
<1> QED
  BY <1>1, WiringInvariant, PTL

-----------------------------------------------------------------------------
(* Delivery.                                                               *)

\* pending, the result channels and the results in hand move only in the steps
\* of SendCommand and of handleAgentMessage, and when the API restarts.
LEMMA DeliveryFrame ==
  ASSUME [Next]_vars
  PROVE  \/ \E k \in Calls :
              \/ \E s \in Servers : Lookup(k, s)
              \/ Post(k) \/ Enqueue(k) \/ TakeResult(k) \/ Expire(k)
              \/ GiveUp(k)
         \/ \E c \in Conns : ClaimResult(c) \/ DeliverResult(c)
         \/ ApiRestart
         \/ UNCHANGED <<pc, pending, resultCh, inhand>>
  BY DEF Next, AgentStep, JobStep, HandlerStep, CallStep, Dial, BeginSession,
     TakeCommand, SessionLost, AgentRestart, Finish, Report, Accept, Reject,
     RegisterAgent, SendCommandDown, SendCommandLost, EndSession,
     UnregisterAgent, Break, vars, callVars, apiVars, streamVars, agentVars

\* Initially no call is pending and no result is anywhere.
LEMMA DeliveryInit == Init => Delivery
  BY DEF Init, Delivery, PendingOwned, ClaimedOnce, DeliveredOnce

\* An answer is claimed from pending under s.mu, then delivered, then taken:
\* no step puts the answer of a call in two of these places.
LEMMA DeliveryStep == Wiring /\ Delivery /\ [Next]_vars => Delivery'
<1> SUFFICES ASSUME Wiring, Delivery, [Next]_vars PROVE Delivery'
  OBVIOUS
<1>0. /\ pending \subseteq Calls
      /\ resultCh \in [Calls -> Verdicts \cup {"none"}]
      /\ inhand \in [Conns -> Result \cup {None}]
      /\ up \in [Conns -> Seq(Result)]
      /\ pc \in [Calls -> {"idle"} \cup InFlight \cup Returned]
      /\ \A c \in Conns : handler[c] = "delivering" <=> inhand[c] # None
      /\ \A r \in Result : r.call \in Calls /\ r.verdict \in Verdicts
      /\ None \notin Result
  BY ConstantsOK DEF Wiring, TypeOK, InHandIffDelivering, Result
<1> USE DEF Delivery, PendingOwned, ClaimedOnce, DeliveredOnce
<1>1. ASSUME NEW k \in Calls, NEW s \in Servers, Lookup(k, s)
      PROVE  Delivery'
  BY <1>0, <1>1 DEF Lookup, apiVars
<1>2. ASSUME NEW k \in Calls, Post(k)
      PROVE  Delivery'
  BY <1>0, <1>2 DEF Post
<1>3. ASSUME NEW k \in Calls, Enqueue(k)
      PROVE  Delivery'
  BY <1>0, <1>3 DEF Enqueue
<1>4. ASSUME NEW k \in Calls, TakeResult(k)
      PROVE  Delivery'
  BY <1>0, <1>4 DEF TakeResult, Verdicts
<1>5. ASSUME NEW k \in Calls, Expire(k)
      PROVE  Delivery'
  BY <1>0, <1>5 DEF Expire, apiVars
<1>6. ASSUME NEW k \in Calls, GiveUp(k)
      PROVE  Delivery'
  BY <1>0, <1>6 DEF GiveUp
<1>7. ASSUME NEW c \in Conns, ClaimResult(c)
      PROVE  Delivery'
  <2>1. Head(up[c]) \in Result
    BY <1>0, <1>7 DEF ClaimResult
  <2>2. UNCHANGED <<pc, resultCh>>
    BY <1>7 DEF ClaimResult, callVars
  <2>3. CASE Head(up[c]).call \in pending
    <3>1. /\ pending' = pending \ {Head(up[c]).call}
          /\ inhand' = [inhand EXCEPT ![c] = Head(up[c])]
      BY <1>7, <2>3 DEF ClaimResult
    <3> QED
      BY <1>0, <2>1, <2>2, <2>3, <3>1
  <2>4. CASE Head(up[c]).call \notin pending
    BY <1>0, <1>7, <2>2, <2>4 DEF ClaimResult
  <2> QED
    BY <2>3, <2>4
<1>8. ASSUME NEW c \in Conns, DeliverResult(c)
      PROVE  Delivery'
  <2>1. inhand[c] \in Result
    BY <1>0, <1>8 DEF DeliverResult
  <2> QED
    BY <1>0, <1>8, <2>1 DEF DeliverResult, callVars, Verdicts
<1>9. CASE ApiRestart
  BY <1>0, <1>9 DEF ApiRestart
<1>10. CASE UNCHANGED <<pc, pending, resultCh, inhand>>
  BY <1>10
<1> QED
  BY <1>1, <1>2, <1>3, <1>4, <1>5, <1>6, <1>7, <1>8, <1>9, <1>10, DeliveryFrame

\* Delivery is invariant.
THEOREM DeliveryInvariant == Spec => [](Wiring /\ Delivery)
  BY WiringInvariant, DeliveryInit, DeliveryStep, PTL DEF Spec

\* Server.pending never keeps an entry whose SendCommand has returned.
THEOREM PendingIsOwned == Spec => []PendingOwned
<1>1. Wiring /\ Delivery => PendingOwned
  BY DEF Delivery
<1> QED
  BY <1>1, DeliveryInvariant, PTL

\* "ch <- result" in handleAgentMessage always finds the slot of the channel
\* free, for any number of sessions, callers, timeouts and repeated results.
THEOREM DeliveryNeverBlocks == Spec => []DeliverNeverBlocks
<1>1. Wiring /\ Delivery => DeliverNeverBlocks
  BY DEF Wiring, Delivery, InHandIffDelivering, ClaimedOnce,
     DeliverNeverBlocks, HasRoom
<1> QED
  BY <1>1, DeliveryInvariant, PTL

-----------------------------------------------------------------------------
(* Routing.                                                                *)

\* Send channels and the API-to-agent direction of streams: who writes them.
LEMMA QueueFrame ==
  ASSUME [Next]_vars
  PROVE  \/ \E a \in Agents :
              \/ \E c \in Conns : Dial(a, c)
              \/ BeginSession(a) \/ TakeCommand(a) \/ SessionLost(a)
              \/ AgentRestart(a)
         \/ \E c \in Conns :
              Accept(c) \/ SendCommandDown(c) \/ SendCommandLost(c)
         \/ \E k \in Calls : Enqueue(k)
         \/ ApiRestart
         \/ UNCHANGED <<sendq, down>>
  BY DEF Next, AgentStep, JobStep, HandlerStep, CallStep, Finish, Report,
     Reject, RegisterAgent, ClaimResult, DeliverResult, EndSession,
     UnregisterAgent, Lookup, Post, TakeResult, Expire, GiveUp, Break,
     vars, callVars, apiVars, streamVars, agentVars

\* Results on their way back: who moves them.
LEMMA ResultFrame ==
  ASSUME [Next]_vars
  PROVE  \/ \E a \in Agents, c \in Conns : Dial(a, c)
         \/ \E j \in jobs : Report(j)
         \/ \E c \in Conns :
              \/ ClaimResult(c) \/ DeliverResult(c) \/ EndSession(c)
              \/ UnregisterAgent(c)
         \/ \E k \in Calls : TakeResult(k)
         \/ ApiRestart
         \/ UNCHANGED <<up, inhand, resultCh>>
  BY DEF Next, AgentStep, JobStep, HandlerStep, CallStep, BeginSession,
     TakeCommand, SessionLost, AgentRestart, Finish, Accept, Reject,
     RegisterAgent, SendCommandDown, SendCommandLost, Lookup, Post, Enqueue,
     Expire, GiveUp, Break,
     vars, callVars, apiVars, streamVars, agentVars

\* Initially no command is queued, running or answered.
LEMMA RoutingInit == Init => Routing
  BY DEF Init, Routing, QueuedOnItsWay, QueuedOnce,
     StartedOnce, ResultsTrue, RunsOnceOnTarget, Verdicts

\* A verdict is written once: the job that writes it is running.
LEMMA VerdictStable ==
  ASSUME Wiring, Routing, [Next]_vars, NEW k \in Calls, verdict[k] # "none"
  PROVE  verdict'[k] = verdict[k]
<1>0. /\ verdict \in [Calls -> Verdicts \cup {"none"}]
      /\ \A j \in jobs : j.state = "running" => verdict[j.call] = "none"
  BY DEF Wiring, TypeOK, Routing, StartedOnce
<1>1. CASE \E j \in jobs, v \in Verdicts : Finish(j, v)
  BY <1>0, <1>1 DEF Finish
<1>2. CASE UNCHANGED verdict
  BY <1>2
<1> QED
  BY <1>1, <1>2, JobFrame DEF TakeCommand, AgentRestart, Report, history

\* A call that has a verdict has an answer for nobody else.
LEMMA ResultsTrueStep == Wiring /\ Routing /\ [Next]_vars => ResultsTrue'
<1> SUFFICES ASSUME Wiring, Routing, [Next]_vars PROVE ResultsTrue'
  OBVIOUS
<1>0. /\ resultCh \in [Calls -> Verdicts \cup {"none"}]
      /\ inhand \in [Conns -> Result \cup {None}]
      /\ up \in [Conns -> Seq(Result)]
      /\ verdict \in [Calls -> Verdicts \cup {"none"}]
      /\ pc \in [Calls -> {"idle"} \cup InFlight \cup Returned]
      /\ \A c \in Conns : handler[c] = "delivering" <=> inhand[c] # None
      /\ \A r \in Result : r.call \in Calls /\ r.verdict \in Verdicts
      /\ None \notin Result
  BY ConstantsOK DEF Wiring, TypeOK, InHandIffDelivering, Result
<1>1. ASSUME NEW r \in Result, r.verdict = verdict[r.call]
      PROVE  r.verdict = verdict'[r.call]
  BY <1>0, <1>1, VerdictStable DEF Verdicts
<1>2. ASSUME NEW k \in Calls, NEW v \in Verdicts, v = verdict[k]
      PROVE  v = verdict'[k]
  BY <1>0, <1>2, VerdictStable DEF Verdicts
<1>3. \A c \in Conns : \A i \in 1..Len(up'[c]) :
        up'[c][i].verdict = verdict'[up'[c][i].call]
  <2> SUFFICES ASSUME NEW c \in Conns, NEW i \in 1..Len(up'[c])
               PROVE  /\ up'[c][i] \in Result
                      /\ up'[c][i].verdict = verdict[up'[c][i].call]
    BY <1>1
  <2>0. \A n \in 1..Len(up[c]) :
          /\ up[c][n] \in Result
          /\ up[c][n].verdict = verdict[up[c][n].call]
    BY <1>0 DEF Routing, ResultsTrue
  <2>1. CASE \E a \in Agents, d \in Conns : Dial(a, d)
    BY <1>0, <2>0, <2>1 DEF Dial
  <2>2. ASSUME NEW j \in jobs, Report(j)
        PROVE  /\ up'[c][i] \in Result
               /\ up'[c][i].verdict = verdict[up'[c][i].call]
    <3>1. j.conn \in Conns /\ j.call \in Calls /\ verdict[j.call] \in Verdicts
      BY <1>0, <2>2 DEF Report, Wiring, TypeOK, JobsWired, Job
    <3> DEFINE r == [call |-> j.call, verdict |-> verdict[j.call]]
    <3>2. r \in Result /\ r.verdict = verdict[r.call]
      BY <3>1 DEF Result
    <3>3. up' = up \/ up' = [up EXCEPT ![j.conn] = Append(@, r)]
      BY <2>2 DEF Report
    <3> HIDE DEF r
    <3>4. CASE up' = up
      BY <2>0, <3>4
    <3>5. CASE up' = [up EXCEPT ![j.conn] = Append(@, r)]
      <4>1. CASE c = j.conn /\ i = Len(up[c]) + 1
        BY <1>0, <3>1, <3>2, <3>5, <4>1
      <4>2. CASE ~(c = j.conn /\ i = Len(up[c]) + 1)
        BY <1>0, <2>0, <3>1, <3>5, <4>2
      <4> QED
        BY <4>1, <4>2
    <3> QED
      BY <3>3, <3>4, <3>5
  <2>3. ASSUME NEW d \in Conns, ClaimResult(d)
        PROVE  /\ up'[c][i] \in Result
               /\ up'[c][i].verdict = verdict[up'[c][i].call]
    <3>1. up[d] # <<>> /\ up' = [up EXCEPT ![d] = Tail(@)]
      BY <2>3 DEF ClaimResult
    <3> QED
      BY <1>0, <2>0, <3>1
  <2>4. ASSUME NEW d \in Conns, EndSession(d) \/ UnregisterAgent(d)
        PROVE  /\ up'[c][i] \in Result
               /\ up'[c][i].verdict = verdict[up'[c][i].call]
    <3>1. up' = [up EXCEPT ![d] = <<>>]
      BY <2>4 DEF EndSession, UnregisterAgent
    <3> QED
      BY <1>0, <2>0, <3>1
  <2>5. CASE ApiRestart
    BY <1>0, <2>5 DEF ApiRestart
  <2>6. CASE UNCHANGED up
    BY <2>0, <2>6
  <2> QED
    BY <2>1, <2>2, <2>3, <2>4, <2>5, <2>6, ResultFrame
       DEF DeliverResult, TakeResult, streamVars
<1>4. \A c \in Conns :
        inhand'[c] # None => inhand'[c].verdict = verdict'[inhand'[c].call]
  <2> SUFFICES ASSUME NEW c \in Conns, inhand'[c] # None
               PROVE  /\ inhand'[c] \in Result
                      /\ inhand'[c].verdict = verdict[inhand'[c].call]
    BY <1>1
  <2>1. ASSUME NEW d \in Conns, ClaimResult(d)
        PROVE  /\ inhand'[c] \in Result
               /\ inhand'[c].verdict = verdict[inhand'[c].call]
    <3>1. /\ Head(up[d]) \in Result
          /\ Head(up[d]) = up[d][1] /\ 1 \in 1..Len(up[d])
          /\ inhand' = inhand \/ inhand' = [inhand EXCEPT ![d] = Head(up[d])]
      BY <1>0, <2>1 DEF ClaimResult
    <3>2. Head(up[d]).verdict = verdict[Head(up[d]).call]
      BY <3>1 DEF Routing, ResultsTrue
    <3>3. CASE inhand'[c] = inhand[c]
      BY <1>0, <3>3 DEF Routing, ResultsTrue
    <3>4. CASE inhand'[c] = Head(up[d])
      BY <3>1, <3>2, <3>4
    <3> QED
      BY <1>0, <3>1, <3>3, <3>4
  <2>2. CASE \E d \in Conns : DeliverResult(d)
    BY <1>0, <2>2 DEF DeliverResult, Routing, ResultsTrue
  <2>3. CASE ApiRestart
    BY <1>0, <2>3 DEF ApiRestart
  <2>4. CASE UNCHANGED inhand
    BY <1>0, <2>4 DEF Routing, ResultsTrue
  <2> QED
    BY <2>1, <2>2, <2>3, <2>4, DeliveryFrame
       DEF Lookup, Post, Enqueue, TakeResult, Expire, GiveUp, apiVars
<1>5. \A k \in Calls : resultCh'[k] # "none" => resultCh'[k] = verdict'[k]
  <2> SUFFICES ASSUME NEW k \in Calls, resultCh'[k] # "none"
               PROVE  resultCh'[k] \in Verdicts /\ resultCh'[k] = verdict[k]
    BY <1>2
  <2>1. CASE \E c \in Conns : DeliverResult(c)
    BY <1>0, <2>1 DEF DeliverResult, Routing, ResultsTrue
  <2>2. CASE \E i \in Calls : TakeResult(i)
    BY <1>0, <2>2 DEF TakeResult, Routing, ResultsTrue
  <2>3. CASE ApiRestart
    BY <1>0, <2>3 DEF ApiRestart
  <2>4. CASE UNCHANGED resultCh
    BY <1>0, <2>4 DEF Routing, ResultsTrue
  <2> QED
    BY <2>1, <2>2, <2>3, <2>4, DeliveryFrame
       DEF Lookup, Post, Enqueue, ClaimResult, Expire, GiveUp, apiVars
<1>6. \A k \in Calls : pc'[k] \in Verdicts => pc'[k] = verdict'[k]
  <2> SUFFICES ASSUME NEW k \in Calls, pc'[k] \in Verdicts
               PROVE  pc'[k] = verdict[k]
    BY <1>2
  <2> USE DEF Verdicts
  <2>1. CASE \E i \in Calls : TakeResult(i)
    BY <1>0, <2>1 DEF TakeResult, Routing, ResultsTrue
  <2>2. CASE \E i \in Calls, s \in Servers : Lookup(i, s)
    BY <1>0, <2>2 DEF Lookup, Routing, ResultsTrue
  <2>3. CASE \E i \in Calls : Post(i) \/ Enqueue(i) \/ Expire(i) \/ GiveUp(i)
    BY <1>0, <2>3 DEF Post, Enqueue, Expire, GiveUp, Routing, ResultsTrue
  <2>4. CASE ApiRestart
    BY <1>0, <2>4 DEF ApiRestart, Routing, ResultsTrue
  <2>5. CASE UNCHANGED pc
    BY <1>0, <2>5 DEF Routing, ResultsTrue
  <2> QED
    BY <2>1, <2>2, <2>3, <2>4, <2>5, CallFrame
<1> QED
  BY <1>3, <1>4, <1>5, <1>6 DEF ResultsTrue

\* A command on its way stays so until an agent takes it: its caller can only
\* time out, and the stream it is on is not redialled.
LEMMA OnItsWayStays ==
  ASSUME Wiring, Routing, [Next]_vars, NEW k \in Calls, NEW c \in Conns,
         OnItsWay(k, c),
         \A a \in Agents : ~Dial(a, c),
         \A a \in Agents : ~(TakeCommand(a) /\ Head(down[aconn[a]]) = k)
  PROVE  OnItsWay(k, c)'
<1>0. /\ pc \in [Calls -> {"idle"} \cup InFlight \cup Returned]
      /\ target \in [Calls -> Servers \cup {None}]
      /\ owner \in [Conns -> Agents \cup {None}]
      /\ ran \in [Calls -> Seq(Agents)]
      /\ Unanswered(k) /\ ran[k] = <<>> /\ ServerOf[owner[c]] = target[k]
      /\ resultCh[k] = "none"
  BY DEF Wiring, TypeOK, OnItsWay, ServerId, Routing, StartedOnce, ResultsTrue
<1>1. UNCHANGED <<Unanswered(k), target[k]>>
  <2> USE DEF Unanswered
  <2>1. CASE \E i \in Calls, s \in Servers : Lookup(i, s)
    BY <1>0, <2>1 DEF Lookup
  <2>2. CASE \E i \in Calls : Post(i) \/ Enqueue(i) \/ Expire(i) \/ GiveUp(i)
    BY <1>0, <2>2 DEF Post, Enqueue, Expire, GiveUp
  <2>3. CASE \E i \in Calls : TakeResult(i)
    BY <1>0, <2>3 DEF TakeResult
  <2>4. CASE ApiRestart
    BY <1>0, <2>4 DEF ApiRestart, InFlight
  <2>5. CASE UNCHANGED <<pc, target>>
    BY <2>5
  <2> QED
    BY <2>1, <2>2, <2>3, <2>4, <2>5, CallFrame
<1>2. ran'[k] = <<>>
  <2>1. CASE \E a \in Agents : TakeCommand(a)
    BY <1>0, <2>1 DEF TakeCommand
  <2> QED
    BY <1>0, <2>1, JobFrame DEF AgentRestart, Finish, Report, history
<1>3. owner'[c] = owner[c]
  <2>1. CASE \E a \in Agents, d \in Conns : Dial(a, d)
    BY <1>0, <2>1 DEF Dial
  <2> QED
    BY <2>1, OwnerFrame
<1> QED
  BY <1>0, <1>1, <1>2, <1>3 DEF OnItsWay, ServerId

\* What a step leaves in a send channel was there before, or is the command
\* that Enqueue adds.
LEMMA SendqStep ==
  ASSUME Wiring, [Next]_vars, NEW c \in Conns, NEW i \in 1..Len(sendq'[c])
  PROVE  /\ sendq'[c][i] \in Calls
         /\ \A a \in Agents : ~Dial(a, c)
         /\ \/ \E n \in 1..Len(sendq[c]) : sendq'[c][i] = sendq[c][n]
            \/ Enqueue(sendq'[c][i]) /\ via[sendq'[c][i]] = c
<1>0. /\ sendq \in [Conns -> Seq(Calls)]
      /\ sendq' \in [Conns -> Seq(Calls)]
  BY TypeStep DEF Wiring, TypeOK
<1>1. sendq'[c][i] \in Calls
  BY <1>0
<1>2. \A a \in Agents : ~Dial(a, c)
  BY <1>0 DEF Dial
<1>3. CASE \E a \in Agents, d \in Conns : Dial(a, d)
  BY <1>0, <1>1, <1>2, <1>3 DEF Dial
<1>4. CASE \E d \in Conns : SendCommandDown(d) \/ SendCommandLost(d)
  <2>1. PICK d \in Conns : sendq[d] # <<>> /\ sendq' = [sendq EXCEPT ![d] = Tail(@)]
    BY <1>4 DEF SendCommandDown, SendCommandLost
  <2> QED
    BY <1>0, <1>1, <1>2, <2>1
<1>5. ASSUME NEW k \in Calls, Enqueue(k)
      PROVE  \/ \E n \in 1..Len(sendq[c]) : sendq'[c][i] = sendq[c][n]
             \/ Enqueue(sendq'[c][i]) /\ via[sendq'[c][i]] = c
  <2>1. via[k] \in Conns /\ sendq' = [sendq EXCEPT ![via[k]] = Append(@, k)]
    BY <1>5 DEF Enqueue, Wiring, CallHoldsSession
  <2>2. CASE via[k] = c /\ i = Len(sendq[c]) + 1
    BY <1>0, <1>5, <2>1, <2>2
  <2>3. CASE ~(via[k] = c /\ i = Len(sendq[c]) + 1)
    BY <1>0, <2>1, <2>3
  <2> QED
    BY <2>2, <2>3
<1>6. CASE ApiRestart
  BY <1>0, <1>6 DEF ApiRestart
<1>7. CASE UNCHANGED sendq
  BY <1>1, <1>2, <1>7
<1> QED
  BY <1>1, <1>2, <1>3, <1>4, <1>5, <1>6, <1>7, QueueFrame
     DEF BeginSession, TakeCommand, SessionLost, AgentRestart, Accept, apiVars

\* What a step leaves on a stream was there before, is an acceptance, or is the
\* command that SendCommandDown takes from the session's send channel.
LEMMA DownStep ==
  ASSUME Wiring, [Next]_vars, NEW c \in Conns, NEW i \in 1..Len(down'[c]),
         down'[c][i] # Accepted
  PROVE  /\ down'[c][i] \in Calls
         /\ \A a \in Agents : ~Dial(a, c)
         /\ \/ \E n \in 1..Len(down[c]) : down'[c][i] = down[c][n]
            \/ \E n \in 1..Len(sendq[c]) : down'[c][i] = sendq[c][n]
<1>0. /\ sendq \in [Conns -> Seq(Calls)]
      /\ down \in [Conns -> Seq(Calls \cup {Accepted})]
      /\ down' \in [Conns -> Seq(Calls \cup {Accepted})]
  BY TypeStep DEF Wiring, TypeOK
<1>1. down'[c][i] \in Calls
  BY <1>0
<1>2. \A a \in Agents : ~Dial(a, c)
  BY <1>0 DEF Dial
<1>3. CASE \E a \in Agents, d \in Conns : Dial(a, d)
  BY <1>0, <1>1, <1>2, <1>3 DEF Dial
<1>4. CASE \E a \in Agents : BeginSession(a) \/ TakeCommand(a)
  <2>1. PICK d \in Conns : down[d] # <<>> /\ down' = [down EXCEPT ![d] = Tail(@)]
    BY <1>4 DEF BeginSession, TakeCommand, Wiring, AgentOnOwnStream
  <2> QED
    BY <1>0, <1>1, <1>2, <2>1
<1>5. CASE \E a \in Agents : SessionLost(a) \/ AgentRestart(a)
  <2>1. PICK a \in Agents : SessionLost(a) \/ AgentRestart(a)
    BY <1>5
  <2>2. down'[c] \in {down[c], <<>>}
    BY <1>0, <2>1 DEF SessionLost, AgentRestart
  <2> QED
    BY <1>0, <1>1, <1>2, <2>2
<1>6. CASE \E d \in Conns : Accept(d)
  <2>1. PICK d \in Conns : down' = [down EXCEPT ![d] = Append(@, Accepted)]
    BY <1>6 DEF Accept
  <2> QED
    BY <1>0, <1>1, <1>2, <2>1
<1>7. CASE \E d \in Conns : SendCommandDown(d)
  <2>1. PICK d \in Conns :
           /\ sendq[d] # <<>>
           /\ down' = [down EXCEPT ![d] = Append(@, Head(sendq[d]))]
    BY <1>7 DEF SendCommandDown
  <2>2. CASE c = d /\ i = Len(down[c]) + 1
    BY <1>0, <1>1, <1>2, <2>1, <2>2
  <2>3. CASE ~(c = d /\ i = Len(down[c]) + 1)
    BY <1>0, <1>1, <1>2, <2>1, <2>3
  <2> QED
    BY <2>2, <2>3
<1>8. CASE UNCHANGED down
  BY <1>1, <1>2, <1>8
<1> QED
  BY <1>3, <1>4, <1>5, <1>6, <1>7, <1>8, QueueFrame
     DEF SendCommandLost, Enqueue, ApiRestart, streamVars

\* The command that an agent takes was in one place, and leaves it.
LEMMA TakenIsGone ==
  ASSUME Wiring, Routing, NEW a \in Agents, TakeCommand(a), NEW c \in Conns
  PROVE  /\ \A i \in 1..Len(sendq[c]) : sendq[c][i] # Head(down[aconn[a]])
         /\ \A i \in 1..Len(down'[c]) : down'[c][i] # Head(down[aconn[a]])
<1> DEFINE d == aconn[a]
<1>0. /\ d \in Conns
      /\ sendq \in [Conns -> Seq(Calls)]
      /\ down \in [Conns -> Seq(Calls \cup {Accepted})]
      /\ down[d] # <<>> /\ Head(down[d]) \in Calls
      /\ down' = [down EXCEPT ![d] = Tail(@)]
      /\ Accepted \notin Calls
  BY ConstantsOK DEF TakeCommand, Wiring, TypeOK, AgentOnOwnStream
<1>1. 1 \in 1..Len(down[d]) /\ Head(down[d]) = down[d][1]
  BY <1>0
<1> HIDE DEF d
<1>2. \A i \in 1..Len(sendq[c]) : sendq[c][i] # down[d][1]
  BY <1>0, <1>1 DEF Routing, QueuedOnce
<1>3. \A i \in 1..Len(down[c]) : down[c][i] = down[d][1] => c = d /\ i = 1
  BY <1>0, <1>1 DEF Routing, QueuedOnce
<1>4. \A i \in 1..Len(down'[c]) : down'[c][i] # down[d][1]
  <2>1. CASE c = d
    BY <1>0, <1>3, <2>1
  <2>2. CASE c # d
    BY <1>0, <1>3, <2>2
  <2> QED
    BY <2>1, <2>2
<1> QED
  BY <1>1, <1>2, <1>4 DEF d

\* Every queued command stays a command on its way.
LEMMA QueuedOnItsWayStep == Wiring /\ Routing /\ [Next]_vars => QueuedOnItsWay'
<1> SUFFICES ASSUME Wiring, Routing, [Next]_vars, NEW c \in Conns
             PROVE  /\ \A i \in 1..Len(sendq'[c]) : OnItsWay(sendq[c][i], c)'
                    /\ \A i \in 1..Len(down'[c]) :
                         down'[c][i] # Accepted => OnItsWay(down[c][i], c)'
  BY DEF QueuedOnItsWay
<1>0. /\ sendq \in [Conns -> Seq(Calls)]
      /\ down \in [Conns -> Seq(Calls \cup {Accepted})]
      /\ Accepted \notin Calls
      /\ pc \in [Calls -> {"idle"} \cup InFlight \cup Returned]
  BY ConstantsOK DEF Wiring, TypeOK
<1>1. ASSUME NEW i \in 1..Len(sendq'[c])
      PROVE  OnItsWay(sendq[c][i], c)'
  <2> DEFINE k == sendq'[c][i]
  <2>1. /\ k \in Calls
        /\ \A a \in Agents : ~Dial(a, c)
        /\ \/ \E n \in 1..Len(sendq[c]) : k = sendq[c][n]
           \/ Enqueue(k) /\ via[k] = c
    BY <1>1, SendqStep
  <2> HIDE DEF k
  <2>2. CASE \E n \in 1..Len(sendq[c]) : k = sendq[c][n]
    <3>1. OnItsWay(k, c)
      BY <2>2 DEF Routing, QueuedOnItsWay
    <3>2. \A a \in Agents : ~(TakeCommand(a) /\ Head(down[aconn[a]]) = k)
      BY <2>2, TakenIsGone
    <3> QED
      BY <2>1, <3>1, <3>2, OnItsWayStays DEF k, OnItsWay, Unanswered, ServerId
  <2>3. CASE Enqueue(k) /\ via[k] = c
    <3>1. ran[k] = <<>>
      BY <1>0, <2>1, <2>3 DEF Enqueue, Routing, StartedOnce, Unanswered, Verdicts
    <3>2. ServerOf[owner[c]] = target[k]
      BY <2>1, <2>3 DEF Enqueue, Wiring, CallHoldsSession, ServerId
    <3>3. pc'[k] = "waiting" /\ UNCHANGED <<ran, owner, target>>
      BY <1>0, <2>1, <2>3 DEF Enqueue, history, streamVars
    <3> QED
      BY <3>1, <3>2, <3>3 DEF k, OnItsWay, Unanswered, ServerId
  <2> QED
    BY <2>1, <2>2, <2>3
<1>2. ASSUME NEW i \in 1..Len(down'[c]), down'[c][i] # Accepted
      PROVE  OnItsWay(down[c][i], c)'
  <2> DEFINE k == down'[c][i]
  <2>1. /\ k \in Calls
        /\ \A a \in Agents : ~Dial(a, c)
        /\ \/ \E n \in 1..Len(down[c]) : k = down[c][n]
           \/ \E n \in 1..Len(sendq[c]) : k = sendq[c][n]
    BY <1>2, DownStep
  <2>2. \A a \in Agents : ~(TakeCommand(a) /\ Head(down[aconn[a]]) = k)
    BY <1>2, TakenIsGone
  <2> HIDE DEF k
  <2>3. OnItsWay(k, c)
    BY <1>0, <2>1 DEF Routing, QueuedOnItsWay
  <2> QED
    BY <2>1, <2>2, <2>3, OnItsWayStays DEF k, OnItsWay, Unanswered, ServerId
<1> QED
  BY <1>1, <1>2

\* Moving a command from the send channel to the stream, queueing a new one or
\* dropping some never makes a second copy.
LEMMA QueuedOnceStep == Wiring /\ Routing /\ [Next]_vars => QueuedOnce'
<1> SUFFICES ASSUME Wiring, Routing, [Next]_vars PROVE QueuedOnce'
  OBVIOUS
<1>0. /\ sendq \in [Conns -> Seq(Calls)]
      /\ down \in [Conns -> Seq(Calls \cup {Accepted})]
      /\ Accepted \notin Calls
      /\ pc \in [Calls -> {"idle"} \cup InFlight \cup Returned]
      /\ QueuedOnce
  BY ConstantsOK DEF Wiring, TypeOK, Routing
<1>1. CASE \E a \in Agents, d \in Conns : Dial(a, d)
  BY <1>0, <1>1 DEF Dial, QueuedOnce
<1>2. CASE \E a \in Agents : BeginSession(a) \/ TakeCommand(a)
  <2>1. PICK d \in Conns : down[d] # <<>> /\ down' = [down EXCEPT ![d] = Tail(@)]
    BY <1>2 DEF BeginSession, TakeCommand, Wiring, AgentOnOwnStream
  <2>2. UNCHANGED sendq
    BY <1>2 DEF BeginSession, TakeCommand, apiVars
  <2> QED
    BY <1>0, <2>1, <2>2 DEF QueuedOnce
<1>3. CASE \E a \in Agents : SessionLost(a) \/ AgentRestart(a)
  <2>1. PICK a \in Agents : SessionLost(a) \/ AgentRestart(a)
    BY <1>3
  <2>2. \A c \in Conns : down'[c] \in {down[c], <<>>}
    BY <1>0, <2>1 DEF SessionLost, AgentRestart
  <2>3. UNCHANGED sendq
    BY <1>3 DEF SessionLost, AgentRestart, apiVars
  <2> QED
    BY <1>0, <2>2, <2>3 DEF QueuedOnce
<1>4. CASE \E d \in Conns : Accept(d)
  <2>1. PICK d \in Conns : /\ down' = [down EXCEPT ![d] = Append(@, Accepted)]
                           /\ UNCHANGED sendq
    BY <1>4 DEF Accept
  <2> QED
    BY <1>0, <2>1 DEF QueuedOnce
<1>5. CASE \E d \in Conns : SendCommandLost(d)
  <2>1. PICK d \in Conns : /\ sendq[d] # <<>>
                           /\ sendq' = [sendq EXCEPT ![d] = Tail(@)]
                           /\ UNCHANGED down
    BY <1>5 DEF SendCommandLost, streamVars
  <2> QED
    BY <1>0, <2>1 DEF QueuedOnce
<1>6. CASE \E d \in Conns : SendCommandDown(d)
  <2>1. PICK d \in Conns :
           /\ sendq[d] # <<>>
           /\ sendq' = [sendq EXCEPT ![d] = Tail(@)]
           /\ down' = [down EXCEPT ![d] = Append(@, Head(sendq[d]))]
    BY <1>6 DEF SendCommandDown
  <2> DEFINE k == sendq[d][1]
  <2>2. /\ k \in Calls /\ k = Head(sendq[d]) /\ 1 \in 1..Len(sendq[d])
        /\ Tail(sendq[d]) \in Seq(Calls)
        /\ \A i \in 1..Len(Tail(sendq[d])) :
             i + 1 \in 1..Len(sendq[d]) /\ Tail(sendq[d])[i] = sendq[d][i + 1]
    BY <1>0, <2>1
  <2>9. /\ \A c \in Conns : \A i \in 1..Len(sendq[c]) :
             sendq[c][i] = k => c = d /\ i = 1
        /\ \A c \in Conns : \A i \in 1..Len(down[c]) : down[c][i] # k
    BY <1>0, <2>2 DEF QueuedOnce
  <2>8. QueuedOnce
    BY <1>0
  <2> HIDE DEF k
  <2>3. \A c \in Conns : \A i \in 1..Len(sendq'[c]) :
          LET n == IF c = d THEN i + 1 ELSE i IN
          /\ sendq'[c][i] # k
          /\ n \in 1..Len(sendq[c]) /\ sendq'[c][i] = sendq[c][n]
    <3>1. sendq'[d] = Tail(sendq[d]) /\ \A c \in Conns \ {d} : sendq'[c] = sendq[c]
      BY <1>0, <2>1
    <3> SUFFICES ASSUME NEW c \in Conns, NEW i \in 1..Len(sendq'[c])
                 PROVE  LET n == IF c = d THEN i + 1 ELSE i IN
                        /\ sendq'[c][i] # k
                        /\ n \in 1..Len(sendq[c]) /\ sendq'[c][i] = sendq[c][n]
      OBVIOUS
    <3>2. CASE c = d
      <4>1. i \in Nat /\ i # 0 /\ i \in 1..Len(Tail(sendq[d]))
        BY <1>0, <2>2, <3>1, <3>2
      <4>2. i + 1 \in 1..Len(sendq[d]) /\ sendq'[d][i] = sendq[d][i + 1]
        BY <2>2, <3>1, <4>1
      <4>3. sendq[d][i + 1] # k
        BY <2>9, <4>1, <4>2
      <4> QED
        BY <3>2, <4>2, <4>3
    <3>3. CASE c # d
      BY <2>9, <3>1, <3>3
    <3> QED
      BY <3>2, <3>3
  <2>4. \A c \in Conns : \A i \in 1..Len(down'[c]) :
          \/ c = d /\ i = Len(down[d]) + 1 /\ down'[c][i] = k
          \/ i \in 1..Len(down[c]) /\ down'[c][i] = down[c][i]
    BY <1>0, <2>1, <2>2
  <2>5. ASSUME NEW b \in Conns, NEW c \in Conns,
               NEW i \in 1..Len(sendq'[b]), NEW j \in 1..Len(sendq'[c]),
               sendq'[b][i] = sendq'[c][j]
        PROVE  b = c /\ i = j
    <3> DEFINE m == IF b = d THEN i + 1 ELSE i
               n == IF c = d THEN j + 1 ELSE j
    <3>1. /\ m \in 1..Len(sendq[b]) /\ sendq'[b][i] = sendq[b][m]
          /\ n \in 1..Len(sendq[c]) /\ sendq'[c][j] = sendq[c][n]
      BY <2>3
    <3>2. /\ i \in Nat /\ j \in Nat
          /\ m = (IF b = d THEN i + 1 ELSE i) /\ n = (IF c = d THEN j + 1 ELSE j)
      BY <1>0, <2>1
    <3> HIDE DEF m, n
    <3>3. sendq[b][m] = sendq[c][n]
      BY <2>5, <3>1
    <3>4. b = c /\ m = n
      BY <2>8, <3>1, <3>3 DEF QueuedOnce
    <3> QED
      BY <3>2, <3>4
  <2>6. ASSUME NEW b \in Conns, NEW c \in Conns,
               NEW i \in 1..Len(down'[b]), NEW j \in 1..Len(down'[c]),
               down'[b][i] = down'[c][j], down'[b][i] # Accepted
        PROVE  b = c /\ i = j
    <3>1. CASE i \in 1..Len(down[b]) /\ down'[b][i] = down[b][i]
      <4>1. down[b][i] # k
        BY <2>9, <3>1
      <4>2. j \in 1..Len(down[c]) /\ down'[c][j] = down[c][j]
        BY <2>4, <2>6, <3>1, <4>1
      <4>3. down[b][i] = down[c][j] /\ down[b][i] # Accepted
        BY <2>6, <3>1, <4>2
      <4> QED
        BY <2>8, <3>1, <4>2, <4>3 DEF QueuedOnce
    <3>2. CASE b = d /\ i = Len(down[d]) + 1 /\ down'[b][i] = k
      <4>1. ~(j \in 1..Len(down[c]) /\ down'[c][j] = down[c][j])
        BY <2>6, <2>9, <3>2
      <4> QED
        BY <2>4, <3>2, <4>1
    <3> QED
      BY <2>4, <3>1, <3>2
  <2>7. ASSUME NEW b \in Conns, NEW c \in Conns,
               NEW i \in 1..Len(sendq'[b]), NEW j \in 1..Len(down'[c])
        PROVE  sendq'[b][i] # down'[c][j]
    <3>1. \A f, e \in Conns : \A m \in 1..Len(sendq[f]), n \in 1..Len(down[e]) :
            sendq[f][m] # down[e][n]
      BY <1>0 DEF QueuedOnce
    <3>2. PICK n \in 1..Len(sendq[b]) : sendq'[b][i] = sendq[b][n]
      BY <2>3
    <3>3. sendq'[b][i] # k
      BY <2>3
    <3>4. CASE down'[c][j] = k
      BY <3>3, <3>4
    <3>5. CASE j \in 1..Len(down[c]) /\ down'[c][j] = down[c][j]
      BY <3>1, <3>2, <3>5
    <3> QED
      BY <2>4, <3>4, <3>5
  <2> QED
    BY <2>5, <2>6, <2>7 DEF QueuedOnce
<1>7. ASSUME NEW k \in Calls, Enqueue(k) PROVE QueuedOnce'
  <2>1. /\ via[k] \in Conns
        /\ sendq' = [sendq EXCEPT ![via[k]] = Append(@, k)]
        /\ UNCHANGED down
    BY <1>7 DEF Enqueue, Wiring, CallHoldsSession, streamVars
  <2>2. \A c \in Conns : /\ \A i \in 1..Len(sendq[c]) : sendq[c][i] # k
                         /\ \A i \in 1..Len(down[c]) : down[c][i] # k
    BY <1>0, <1>7 DEF Enqueue, Routing, QueuedOnItsWay, OnItsWay, Unanswered
  <2> QED
    BY <1>0, <2>1, <2>2 DEF QueuedOnce
<1>8. CASE ApiRestart
  <2>1. (\A c \in Conns : Len(sendq'[c]) = 0) /\ UNCHANGED down
    BY <1>8 DEF ApiRestart
  <2>2. QueuedOnce
    BY <1>0
  <2> QED
    BY <2>1, <2>2 DEF QueuedOnce
<1>9. CASE UNCHANGED <<sendq, down>>
  <2>1. QueuedOnce
    BY <1>0
  <2> QED
    BY <1>9, <2>1 DEF QueuedOnce
<1> QED
  BY <1>1, <1>2, <1>3, <1>4, <1>5, <1>6, <1>7, <1>8, <1>9, QueueFrame


\* A started command was sent by its caller, has one goroutine, and ran on an
\* agent of its server.
LEMMA StartedOnceStep ==
  Wiring /\ Routing /\ [Next]_vars => StartedOnce' /\ RunsOnceOnTarget'
<1> SUFFICES ASSUME Wiring, Routing, [Next]_vars
             PROVE  StartedOnce' /\ RunsOnceOnTarget'
  OBVIOUS
<1>0. /\ pc \in [Calls -> {"idle"} \cup InFlight \cup Returned]
      /\ resultCh \in [Calls -> Verdicts \cup {"none"}]
      /\ target \in [Calls -> Servers \cup {None}]
      /\ ran \in [Calls -> Seq(Agents)]
      /\ verdict \in [Calls -> Verdicts \cup {"none"}]
      /\ down \in [Conns -> Seq(Calls \cup {Accepted})]
      /\ jobs \subseteq Job
      /\ StartedOnce
      /\ RunsOnceOnTarget
  BY DEF Wiring, TypeOK, Routing
<1>1. ASSUME NEW a \in Agents, TakeCommand(a)
      PROVE  StartedOnce' /\ RunsOnceOnTarget'
  <2> DEFINE c == aconn[a]
             k == Head(down[c])
  <2>1. /\ c \in Conns /\ owner[c] = a /\ k \in Calls
        /\ down[c] # <<>> /\ k = down[c][1] /\ 1 \in 1..Len(down[c])
    BY <1>0, <1>1 DEF TakeCommand, Wiring, AgentOnOwnStream
  <2>2. OnItsWay(k, c)
    BY <2>1, ConstantsOK DEF Routing, QueuedOnItsWay
  <2>3. /\ jobs' = jobs \cup {[call |-> k, conn |-> c, state |-> "running"]}
        /\ ran' = [ran EXCEPT ![k] = Append(@, a)]
        /\ UNCHANGED <<pc, target, verdict>>
    BY <1>1 DEF TakeCommand, callVars
  <2> HIDE DEF k, c
  <2>4. /\ Unanswered(k) /\ ran[k] = <<>> /\ ServerOf[a] = target[k]
        /\ verdict[k] = "none"
        /\ \A j \in jobs : j.call # k
    BY <1>0, <2>1, <2>2 DEF OnItsWay, ServerId, StartedOnce
  <2>5. ran'[k] = <<a>> /\ \A i \in Calls \ {k} : ran'[i] = ran[i]
    BY <1>0, <2>1, <2>3, <2>4
  <2>6. StartedOnce'
    BY <1>0, <2>1, <2>3, <2>4, <2>5 DEF StartedOnce, Job, Unanswered
  <2>7. RunsOnceOnTarget'
    BY <1>0, <2>1, <2>3, <2>4, <2>5 DEF RunsOnceOnTarget
  <2> QED
    BY <2>6, <2>7
<1>2. CASE \E a \in Agents : AgentRestart(a)
  BY <1>0, <1>2 DEF AgentRestart, StartedOnce, RunsOnceOnTarget, Unanswered,
     callVars, history
<1>3. ASSUME NEW j \in jobs, NEW v \in Verdicts, Finish(j, v)
      PROVE  StartedOnce' /\ RunsOnceOnTarget'
  BY <1>0, <1>3 DEF Finish, StartedOnce, RunsOnceOnTarget, Unanswered, Job, Verdicts,
     callVars
<1>4. CASE \E j \in jobs : Report(j)
  BY <1>0, <1>4 DEF Report, StartedOnce, RunsOnceOnTarget, Unanswered,
     callVars, history
<1>5. ASSUME UNCHANGED <<jobs, ran, verdict>>
      PROVE  StartedOnce' /\ RunsOnceOnTarget'
  <2> SUFFICES ASSUME NEW k \in Calls, ran[k] # <<>>
               PROVE  /\ Unanswered(k)' \/ pc'[k] \in Verdicts
                      /\ target'[k] = target[k]
    BY <1>0, <1>5 DEF StartedOnce, RunsOnceOnTarget
  <2>0. Unanswered(k) \/ pc[k] \in Verdicts
    BY <1>0 DEF StartedOnce
  <2> USE DEF Unanswered, Verdicts
  <2>1. CASE \E i \in Calls, s \in Servers : Lookup(i, s)
    BY <1>0, <2>0, <2>1 DEF Lookup
  <2>2. CASE \E i \in Calls : Post(i) \/ Enqueue(i) \/ Expire(i) \/ GiveUp(i)
    BY <1>0, <2>0, <2>2 DEF Post, Enqueue, Expire, GiveUp
  <2>3. CASE \E i \in Calls : TakeResult(i)
    BY <1>0, <2>0, <2>3 DEF TakeResult
  <2>4. CASE ApiRestart
    BY <1>0, <2>0, <2>4 DEF ApiRestart, InFlight
  <2>5. CASE UNCHANGED <<pc, target>>
    BY <2>0, <2>5
  <2> QED
    BY <2>1, <2>2, <2>3, <2>4, <2>5, CallFrame
<1> QED
  BY <1>1, <1>2, <1>3, <1>4, <1>5, JobFrame

\* IInv is invariant.
THEOREM RoutingInvariant == Spec => []IInv
<1>1. Wiring /\ Routing /\ [Next]_vars => Routing'
  BY QueuedOnItsWayStep, QueuedOnceStep, StartedOnceStep, ResultsTrueStep
     DEF Routing
<1> QED
  BY DeliveryInvariant, RoutingInit, <1>1, PTL DEF Spec, IInv

-----------------------------------------------------------------------------
(* The safety properties.                                                  *)

\* The registry never leads SendCommand to a session without a handler.
THEOREM RegistryIsLive == Spec => []RegistryLive
<1>1. Wiring => RegistryLive
  BY DEF Wiring
<1> QED
  BY <1>1, WiringInvariant, PTL

\* No command is started twice, nor by an agent of another server than the one
\* the request named.
THEOREM CommandsRunOnceOnTarget == Spec => []RunsOnceOnTarget
<1>1. IInv => RunsOnceOnTarget
  BY DEF IInv, Routing
<1> QED
  BY <1>1, RoutingInvariant, PTL

\* SendCommand returns the result of its own command, never of another call.
THEOREM RepliesAreOwn == Spec => []ReplyIsOwn
<1>1. ASSUME IInv, NEW k \in Calls, pc[k] \in Verdicts
      PROVE  ran[k] # <<>> /\ verdict[k] = pc[k]
  BY <1>1 DEF IInv, Wiring, TypeOK, Routing, ResultsTrue, StartedOnce, Verdicts
<1>2. \A k \in Calls :
        /\ Status(k) = "done" => pc[k] = "ok"
        /\ Status(k) = "unprocessable" => pc[k] = "err"
  BY DEF Status
<1>3. IInv => ReplyIsOwn
  BY <1>1, <1>2 DEF ReplyIsOwn, Verdicts
<1> QED
  BY <1>3, RoutingInvariant, PTL

-----------------------------------------------------------------------------
(* Refinement of CommandRpc.                                               *)

\* The initial state maps to the initial state of CommandRpc.
LEMMA RpcInit == Init => Rpc!Init
<1> SUFFICES ASSUME Init PROVE Rpc!Init
  OBVIOUS
<1>1. [k \in Calls |-> CallPhase(k)] = [k \in Calls |-> "new"]
  BY DEF Init, CallPhase, InFlight
<1>3. [k \in Calls |-> Len(ran[k])] = [k \in Calls |-> 0]
  BY DEF Init
<1>2. verdict = [k \in Calls |-> "none"]
  BY DEF Init
<1> QED
  BY <1>1, <1>2, <1>3 DEF Rpc!Init

\* The abstract step on the three mapped functions, call by call.
LEMMA RpcStep == Wiring /\ Routing /\ [Next]_vars => [Rpc!Next]_(Rpc!vars)
<1> SUFFICES ASSUME Wiring, Routing, [Next]_vars
             PROVE  Rpc!Next \/ UNCHANGED Rpc!vars
  OBVIOUS
<1> DEFINE P == [k \in Calls |-> CallPhase(k)]
           R == [k \in Calls |-> Len(ran[k])]
<1>0. /\ pc \in [Calls -> {"idle"} \cup InFlight \cup Returned]
      /\ resultCh \in [Calls -> Verdicts \cup {"none"}]
      /\ target \in [Calls -> Servers \cup {None}]
      /\ ran \in [Calls -> Seq(Agents)]
      /\ verdict \in [Calls -> Verdicts \cup {"none"}]
      /\ down \in [Conns -> Seq(Calls \cup {Accepted})]
      /\ jobs \subseteq Job
  BY DEF Wiring, TypeOK
<1>1. ASSUME NEW a \in Agents, TakeCommand(a)
      PROVE  Rpc!Next
  <2>0. Head(down[aconn[a]]) \in Calls
    BY <1>1 DEF TakeCommand
  <2>. PICK k \in Calls : k = Head(down[aconn[a]])
    BY <2>0
  <2>1. /\ aconn[a] \in Conns
        /\ k = down[aconn[a]][1] /\ 1 \in 1..Len(down[aconn[a]])
        /\ ran' = [ran EXCEPT ![k] = Append(@, a)]
        /\ UNCHANGED <<pc, verdict>>
    BY <1>0, <1>1 DEF TakeCommand, Wiring, AgentOnOwnStream, callVars
  <2>2. Unanswered(k) /\ ran[k] = <<>>
    BY <2>1, ConstantsOK DEF Routing, QueuedOnItsWay, OnItsWay
  <2>3. CallPhase(k) \in {"open", "abandoned"}
    BY <2>2 DEF Unanswered, CallPhase, InFlight
  <2>4. P' = P
    BY <2>1 DEF CallPhase
  <2>7. Len(ran'[k]) = 1
    BY <1>0, <2>1, <2>2
  <2>5. R' = [R EXCEPT ![k] = 1]
    BY <1>0, <2>1, <2>7
  <2>6. Rpc!Start(k)
    BY <2>1, <2>2, <2>3, <2>4, <2>5 DEF Rpc!Start
  <2> QED
    BY <2>1, <2>6 DEF Rpc!Next
<1>2. ASSUME NEW j \in jobs, NEW v \in Verdicts, Finish(j, v)
      PROVE  Rpc!Next
  <2>. PICK k \in Calls : k = j.call
    BY <1>0 DEF Job
  <2>0. ran[k] # <<>> /\ verdict[k] = "none"
    BY <1>0, <1>2 DEF Finish, Routing, StartedOnce
  <2>1. Len(ran[k]) <= 1 /\ Len(ran[k]) \in Nat /\ Len(ran[k]) # 0
    BY <1>0, <2>0 DEF Routing, RunsOnceOnTarget
  <2>2. /\ verdict' = [verdict EXCEPT ![k] = v]
        /\ UNCHANGED <<pc, ran>>
    BY <1>2 DEF Finish, callVars
  <2>3. P' = P /\ R' = R
    BY <2>2 DEF CallPhase
  <2>4. Rpc!Complete(k, v)
    <3>0. \A n \in Nat : n <= 1 /\ n # 0 => n = 1
      OBVIOUS
    <3>1. Len(ran[k]) = 1
      BY <2>1, <3>0
    <3> QED
      BY <2>0, <2>2, <2>3, <3>1 DEF Rpc!Complete
  <2> QED
    BY <2>0, <2>4 DEF Rpc!Next, Rpc!Verdicts, Verdicts
<1>3. ASSUME UNCHANGED <<ran, verdict>>
      PROVE  Rpc!Next \/ UNCHANGED Rpc!vars
  <2>0. R' = R
    BY <1>3
  <2>1. ASSUME NEW k \in Calls, NEW s \in Servers, Lookup(k, s)
        PROVE  Rpc!Next
    <3>1. /\ pc[k] = "idle" /\ pc'[k] \in {"refused", "looked"}
          /\ pc' = [pc EXCEPT ![k] = pc'[k]]
      BY <1>0, <2>1 DEF Lookup
    <3>2. /\ CallPhase(k) = "new"
          /\ P' = [P EXCEPT ![k] = IF pc'[k] = "refused" THEN "refused" ELSE "open"]
      BY <1>0, <3>1 DEF CallPhase, InFlight
    <3>3. Rpc!Refuse(k) \/ Rpc!Issue(k)
      BY <1>3, <2>0, <3>1, <3>2 DEF Rpc!Refuse, Rpc!Issue
    <3> QED
      BY <3>3 DEF Rpc!Next
  <2>2. ASSUME NEW k \in Calls, Post(k) \/ Enqueue(k) \/ Expire(k)
        PROVE  UNCHANGED Rpc!vars
    <3>1. /\ pc[k] \in InFlight /\ pc'[k] \in InFlight
          /\ pc' = [pc EXCEPT ![k] = pc'[k]]
      BY <1>0, <2>2 DEF Post, Enqueue, Expire, InFlight
    <3>2. P' = P
      BY <1>0, <3>1 DEF CallPhase, InFlight
    <3> QED
      BY <1>3, <2>0, <3>2 DEF Rpc!vars
  <2>3. ASSUME NEW k \in Calls, GiveUp(k)
        PROVE  Rpc!Next
    <3>1. pc[k] = "expiring" /\ pc' = [pc EXCEPT ![k] = "timedout"]
      BY <2>3 DEF GiveUp
    <3>2. CallPhase(k) = "open" /\ P' = [P EXCEPT ![k] = "abandoned"]
      BY <1>0, <3>1 DEF CallPhase, InFlight
    <3>3. Rpc!Abandon({k})
      BY <1>3, <2>0, <3>2 DEF Rpc!Abandon
    <3> QED
      BY <3>3 DEF Rpc!Next
  <2>4. ASSUME NEW k \in Calls, TakeResult(k)
        PROVE  Rpc!Next
    <3>1. /\ pc[k] = "waiting"
          /\ resultCh[k] = verdict[k] /\ verdict[k] \in Verdicts
          /\ pc' = [pc EXCEPT ![k] = verdict[k]]
      BY <1>0, <2>4 DEF TakeResult, Routing, ResultsTrue
    <3>2. CallPhase(k) = "open" /\ P' = [P EXCEPT ![k] = verdict[k]]
      BY <1>0, <3>1 DEF CallPhase, InFlight, Verdicts
    <3>3. Rpc!Answer(k)
      BY <1>3, <2>0, <3>1, <3>2 DEF Rpc!Answer, Rpc!Verdicts, Verdicts
    <3> QED
      BY <3>3 DEF Rpc!Next
  <2>5. CASE ApiRestart
    <3> DEFINE K == {k \in Calls : pc[k] \in InFlight}
    <3>1. pc' = [k \in Calls |-> IF pc[k] \in InFlight THEN "lost" ELSE pc[k]]
      BY <2>5 DEF ApiRestart
    <3>2. P' = [k \in Calls |-> IF k \in K THEN "abandoned" ELSE P[k]]
      BY <1>0, <3>1 DEF CallPhase, InFlight
    <3>3. \A k \in K : P[k] = "open"
      BY DEF CallPhase, InFlight
    <3>4. Rpc!Abandon(K)
      BY <1>3, <2>0, <3>2, <3>3 DEF Rpc!Abandon
    <3>5. K \in SUBSET Calls
      OBVIOUS
    <3> QED
      BY <3>4, <3>5 DEF Rpc!Next
  <2>6. CASE UNCHANGED pc
    BY <1>3, <2>0, <2>6 DEF Rpc!vars, CallPhase
  <2> QED
    BY <2>1, <2>2, <2>3, <2>4, <2>5, <2>6, CallFrame
<1> QED
  BY <1>1, <1>2, <1>3, JobFrame DEF AgentRestart, Report, history

\* The control plane implements CommandRpc under the mapping of Rpc: a remote
\* call that runs at most once and is answered only with its own verdict.
THEOREM Refinement == Spec => ImplementsRpc
  BY RpcInit, RpcStep, RoutingInvariant, PTL
     DEF IInv, Spec, ImplementsRpc, Rpc!Spec
=============================================================================
