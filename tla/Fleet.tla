------------------------------- MODULE Fleet -------------------------------
(***************************************************************************)
(* The fleet as the dashboard sees it: replicas of the API that start,     *)
(* drain and are killed (Server.Run, api/cmd/api/main.go), agents that     *)
(* connect to one of them and reconnect (Agent.Run), their heartbeats, and *)
(* the HTTP requests that read the registry of the replica they reach      *)
(* (routes.go).  ControlPlane has the same sessions of one replica with    *)
(* the commands they carry; here a session carries heartbeats only.        *)
(*                                                                         *)
(* The replicas share nothing: Server.agents is a map in the memory of     *)
(* each (values.yaml: "replicaCount: api: 2").  The service in front of    *)
(* them passes a request, or a new stream, to any replica that listens.    *)
(***************************************************************************)
EXTENDS Metrics

CONSTANTS
  Pods,         \* replicas of the API process
  Conns,        \* gRPC streams; one that nobody refers to is used again
  Requests,     \* HTTP requests that read the registry
  MaxBeats,     \* bound: heartbeats of one stream
  Budgets,      \* bounds: [faults, ticks, requests] of one behaviour
  Torn,         \* a time.Time read half before a write, half after it
  None

ASSUME FleetConstants ==
  /\ MaxBeats \in Nat
  /\ None \notin Conns
  /\ Torn \notin Nat

VARIABLES
  pod,          \* the state of each replica
  agents,       \* Server.agents of each replica: server ID -> session
  at, owner,    \* the replica and the host of each stream
  stream,       \* whether it works
  handler,      \* where the Connect goroutine of each stream is
  phase, using, \* where the connect loop of each agent is, and its stream
  sent,         \* the heartbeats sent on each stream, which are numbered
  lastMetrics,  \* the heartbeat whose metrics each session holds
  lastSeen,     \* the heartbeat at whose arrival each session was last seen
  view,         \* each HTTP request, and what it has read
  shown,        \* history: the newest heartbeat of each session that an answer
                \* has shown
  budget

sessions == <<at, owner, stream, handler, phase, using>>
beats    == <<sent, lastMetrics, lastSeen>>
answers  == <<view, shown>>
vars     == <<pod, agents, sessions, beats, answers, budget, gauge>>

NoView == [step |-> "idle", on |-> None, host |-> None, from |-> 0,
           floor |-> 0, seen |-> 0, metrics |-> 0]

\* The request about host h, which finds session c or None, ...
Found(step, c, h, from, floor) ==
  [step |-> step, on |-> c, host |-> h, from |-> from, floor |-> floor,
   seen |-> 0, metrics |-> 0]

\* ... and then goes on.
Goes(v, step, c, seen, metrics) ==
  [step |-> step, on |-> c, host |-> v.host, from |-> v.from,
   floor |-> v.floor, seen |-> seen, metrics |-> metrics]

Active(c) == handler[c] \notin {"none", "done"}

View == [step : {"idle", "lastSeen", "lastMetrics", "done", "missing", "lost"},
         on : Conns \cup {None}, host : Hosts \cup {None},
         from : 0..MaxBeats, floor : 0..MaxBeats,
         seen : (0..MaxBeats) \cup {Torn}, metrics : 0..MaxBeats]

TypeOK ==
  /\ GaugeTypeOK
  /\ pod \in [Pods -> {"up", "draining", "down"}]
  /\ agents \in [Pods -> [Hosts -> Conns \cup {None}]]
  /\ at \in [Conns -> Pods \cup {None}]
  /\ owner \in [Conns -> Hosts \cup {None}]
  /\ stream \in [Conns -> {"unused", "open", "broken"}]
  /\ handler \in [Conns -> {"none", "auth", "accepted", "loop", "beat",
                            "closing", "done"}]
  /\ phase \in [Hosts -> {"idle", "registering", "session"}]
  /\ using \in [Hosts -> Conns \cup {None}]
  /\ sent \in [Conns -> 0..MaxBeats]
  /\ lastMetrics \in [Conns -> 0..MaxBeats]
  /\ lastSeen \in [Conns -> 0..MaxBeats]
  /\ view \in [Requests -> View]
  /\ shown \in [Conns -> 0..MaxBeats]

Init ==
  /\ GaugeInit
  /\ pod = [p \in Pods |-> "up"]
  /\ agents = [p \in Pods |-> [h \in Hosts |-> None]]
  /\ at = [c \in Conns |-> None]
  /\ owner = [c \in Conns |-> None]
  /\ stream = [c \in Conns |-> "unused"]
  /\ handler = [c \in Conns |-> "none"]
  /\ phase = [h \in Hosts |-> "idle"]
  /\ using = [h \in Hosts |-> None]
  /\ sent = [c \in Conns |-> 0]
  /\ lastMetrics = [c \in Conns |-> 0]
  /\ lastSeen = [c \in Conns |-> 0]
  /\ view = [k \in Requests |-> NoView]
  /\ shown = [c \in Conns |-> 0]
  /\ budget \in Budgets

Spend(what) == /\ budget[what] > 0
               /\ budget' = [budget EXCEPT ![what] = @ - 1]

\* A heartbeat is being stored: Server.mu of the replica is held.
Locked(p) == \E c \in Conns : at[c] = p /\ handler[c] = "beat"

-----------------------------------------------------------------------------
(* Replicas: Server.Run and main.                                          *)

\* Nobody refers to the stream any more.
Free(c) ==
  /\ ~Active(c)
  /\ \A h \in Hosts : using[h] # c
  /\ \A k \in Requests : view[k].on # c

\* The process ends: registry, sessions and requests in progress are gone.
Gone(p) ==
  LET cut == {c \in Conns : at[c] = p} IN
  /\ pod' = [pod EXCEPT ![p] = "down"]
  /\ agents' = [agents EXCEPT ![p] = [h \in Hosts |-> None]]
  /\ stream' = [c \in Conns |->
                  IF c \in cut /\ stream[c] = "open" THEN "broken"
                                                   ELSE stream[c]]
  /\ handler' = [c \in Conns |->
                  IF c \in cut /\ Active(c) THEN "done" ELSE handler[c]]
  /\ view' = [k \in Requests |->
                  IF view[k].on \in cut
                    THEN Goes(view[k], "lost", None, view[k].seen,
                              view[k].metrics)
                    ELSE view[k]]
  /\ UNCHANGED <<at, owner, phase, using, beats, shown, gauge>>

\* The process is killed or crashes, or a listener fails and Run returns the
\* error.
Crash(p) ==
  /\ pod[p] # "down"
  /\ Spend("faults")
  /\ Gone(p)

\* SIGTERM: Run calls GracefulStop.  No new stream is accepted; it waits for
\* the streams there are, and the HTTP server goes on meanwhile.
Terminate(p) ==
  /\ pod[p] = "up"
  /\ Spend("faults")
  /\ pod' = [pod EXCEPT ![p] = "draining"]
  /\ UNCHANGED <<agents, sessions, beats, answers, gauge>>

\* GracefulStop returns when the last Connect has, then Shutdown, when the
\* requests in progress are answered: Run returns nil.
Exit(p) ==
  /\ pod[p] = "draining"
  /\ \A c \in Conns : at[c] = p => ~Active(c)
  /\ \A k \in Requests : view[k].on # None => at[view[k].on] # p
  /\ Gone(p)
  /\ UNCHANGED budget

\* An agent never ends its stream.  After the grace period ("docker compose":
\* 10 seconds; terminationGracePeriodSeconds: 30) the replica is killed.
Kill(p) ==
  /\ pod[p] = "draining"
  /\ Gone(p)
  /\ UNCHANGED budget

\* main: a new process listens, with an empty registry.
Start(p) ==
  /\ pod[p] = "down"
  /\ pod' = [pod EXCEPT ![p] = "up"]
  /\ UNCHANGED <<agents, sessions, beats, answers, budget, gauge>>

-----------------------------------------------------------------------------
(* Agents: Run, connect, session; and the handlers of their streams.       *)

\* connect: a new stream to a replica that listens.
Dial(h, c, p) ==
  /\ phase[h] = "idle"
  /\ pod[p] = "up"
  /\ Free(c)
  /\ phase' = [phase EXCEPT ![h] = "registering"]
  /\ using' = [using EXCEPT ![h] = c]
  /\ at' = [at EXCEPT ![c] = p]
  /\ owner' = [owner EXCEPT ![c] = h]
  /\ stream' = [stream EXCEPT ![c] = "open"]
  /\ handler' = [handler EXCEPT ![c] = "auth"]
  /\ sent' = [sent EXCEPT ![c] = 0]
  /\ lastMetrics' = [lastMetrics EXCEPT ![c] = 0]
  /\ lastSeen' = [lastSeen EXCEPT ![c] = 0]
  /\ shown' = [shown EXCEPT ![c] = 0]
  /\ UNCHANGED <<pod, agents, view, budget, gauge>>

\* Connect: authenticate accepts, and so does the agent's end.
Accept(c) ==
  /\ handler[c] = "auth"
  /\ stream[c] = "open"
  /\ handler' = [handler EXCEPT ![c] = "accepted"]
  /\ UNCHANGED <<pod, agents, at, owner, stream, phase, using, beats, answers,
                 budget, gauge>>

\* Connect returns before the session has begun: the stream is broken, or
\* authenticate fails, as it does when the database cannot be reached.
Reject(c) ==
  /\ handler[c] = "auth"
  /\ \/ stream[c] = "broken" /\ UNCHANGED budget
     \/ stream[c] = "open" /\ Spend("faults")
  /\ handler' = [handler EXCEPT ![c] = "done"]
  /\ stream' = [stream EXCEPT ![c] = "broken"]
  /\ UNCHANGED <<pod, agents, at, owner, phase, using, beats, answers, gauge>>

\* The RegisterResponse arrives, before or after the session is registered.
BeginSession(h) ==
  /\ phase[h] = "registering"
  /\ handler[using[h]] \notin {"none", "auth"}
  /\ stream[using[h]] = "open"
  /\ phase' = [phase EXCEPT ![h] = "session"]
  /\ UNCHANGED <<pod, agents, at, owner, stream, handler, using, beats,
                 answers, budget, gauge>>

RegisterAgent(c) ==
  /\ handler[c] = "accepted"
  /\ ~ Locked(at[c])
  /\ agents' = [agents EXCEPT ![at[c]][owner[c]] = c]
  /\ handler' = [handler EXCEPT ![c] = "loop"]
  /\ UNCHANGED <<pod, at, owner, stream, phase, using, beats, answers, budget,
                 gauge>>

\* Variant of EndSession: the session ends although its stream works.
EndSessionEarly(c) ==
  /\ handler[c] = "loop"
  /\ handler' = [handler EXCEPT ![c] = "closing"]
  /\ UNCHANGED <<pod, agents, at, owner, stream, phase, using, beats, answers,
                 budget, gauge>>

EndSession(c) ==
  /\ handler[c] = "loop"
  /\ stream[c] = "broken"
  /\ handler' = [handler EXCEPT ![c] = "closing"]
  /\ UNCHANGED <<pod, agents, at, owner, stream, phase, using, beats, answers,
                 budget, gauge>>

\* The entry of the server ID is removed, whatever session it is.
UnregisterAgent(c) ==
  /\ handler[c] = "closing"
  /\ ~ Locked(at[c])
  /\ agents' = [agents EXCEPT ![at[c]][owner[c]] = None]
  /\ handler' = [handler EXCEPT ![c] = "done"]
  /\ UNCHANGED <<pod, at, owner, stream, phase, using, beats, answers, budget,
                 gauge>>

\* Variant of SessionLost: connect does not notice that its stream has ended.
SessionLostInSession(h) ==
  /\ phase[h] = "session"
  /\ stream[using[h]] = "broken"
  /\ phase' = [phase EXCEPT ![h] = "idle"]
  /\ using' = [using EXCEPT ![h] = None]
  /\ UNCHANGED <<pod, agents, at, owner, stream, handler, beats, answers,
                 budget, gauge>>

\* connect or session returns an error, and Run goes round: "reconnecting".
SessionLost(h) ==
  /\ phase[h] # "idle"
  /\ stream[using[h]] = "broken"
  /\ phase' = [phase EXCEPT ![h] = "idle"]
  /\ using' = [using EXCEPT ![h] = None]
  /\ UNCHANGED <<pod, agents, at, owner, stream, handler, beats, answers,
                 budget, gauge>>

\* A stream breaks: the network fails, or gRPC ends the connection of a client
\* that pings more often than the server's default policy allows.
Break(c) ==
  /\ stream[c] = "open"
  /\ Spend("faults")
  /\ stream' = [stream EXCEPT ![c] = "broken"]
  /\ UNCHANGED <<pod, agents, at, owner, handler, phase, using, beats, answers,
                 gauge>>

\* The agent process is restarted.
AgentRestart(h) ==
  /\ phase[h] # "idle"
  /\ Spend("faults")
  /\ phase' = [phase EXCEPT ![h] = "idle"]
  /\ using' = [using EXCEPT ![h] = None]
  /\ stream' = [stream EXCEPT ![using[h]] = "broken"]
  /\ ForgetSample(h)
  /\ UNCHANGED <<pod, agents, at, owner, handler, beats, answers>>

-----------------------------------------------------------------------------
(* Heartbeats.                                                             *)

\* session: every 15 seconds, a heartbeat with a new sample.
Heartbeat(h) ==
  LET c == using[h] IN
  /\ phase[h] = "session"
  /\ sent[c] < MaxBeats
  /\ sent' = [sent EXCEPT ![c] = @ + 1]
  /\ SampleCPU(h)
  /\ UNCHANGED <<pod, agents, sessions, lastMetrics, lastSeen, answers,
                 budget>>

\* handleAgentMessage, under s.mu: the fields of the session are written one
\* after the other, the metrics
StoreMetrics(c) ==
  /\ handler[c] = "loop"
  /\ lastMetrics[c] < sent[c]
  /\ ~ Locked(at[c])
  /\ lastMetrics' = [lastMetrics EXCEPT ![c] = @ + 1]
  /\ handler' = [handler EXCEPT ![c] = "beat"]
  /\ UNCHANGED <<pod, agents, at, owner, stream, phase, using, sent, lastSeen,
                 answers, budget, gauge>>

\* and the time.
StoreSeen(c) ==
  /\ handler[c] = "beat"
  /\ lastSeen' = [lastSeen EXCEPT ![c] = @ + 1]
  /\ handler' = [handler EXCEPT ![c] = "loop"]
  /\ UNCHANGED <<pod, agents, at, owner, stream, phase, using, sent,
                 lastMetrics, answers, budget, gauge>>

-----------------------------------------------------------------------------
(* Requests.                                                               *)

\* Variant of Lookup: the registry is read without the lock.
LookupUnlocked(k, p, h) ==
  LET c == agents[p][h] IN
  /\ view[k].step = "idle"
  /\ pod[p] # "down"
  /\ Spend("requests")
  /\ view' = [view EXCEPT ![k] =
       IF c = None
         THEN Found("missing", None, h, 0, 0)
         ELSE Found("lastSeen", c, h, lastSeen[c], shown[c])]
  /\ UNCHANGED <<pod, agents, sessions, beats, shown, gauge>>

\* handleListServers, and handleGetServer under s.mu.RLock: the request has the
\* replica's session of the host, or does not find it.  The list has nothing
\* else of a session than its names.
Lookup(k, p, h) ==
  LET c == agents[p][h] IN
  /\ view[k].step = "idle"
  /\ pod[p] # "down"
  /\ ~ Locked(p)
  /\ Spend("requests")
  /\ view' = [view EXCEPT ![k] =
       IF c = None
         THEN Found("missing", None, h, 0, 0)
         ELSE Found("lastSeen", c, h, lastSeen[c], shown[c])]
  /\ UNCHANGED <<pod, agents, sessions, beats, shown, gauge>>

\* What a field may be read as after RUnlock, without the lock: anything that
\* it has been since, for nothing orders the read and the writes.
Since(from, now) == from..now

\* handleGetServer: agent.lastSeen.  It is more than one word: of some read
\* before the first heartbeat is stored and some after it come a time that
\* never was.
ReadSeen(k) ==
  LET v   == view[k]
      now == lastSeen[v.on]
  IN
  /\ v.step = "lastSeen"
  /\ \E t \in Since(v.from, now)
             \cup (IF v.from = 0 /\ now > 0 THEN {Torn} ELSE {}) :
       view' = [view EXCEPT ![k] = Goes(v, "lastMetrics", v.on, t, 0)]
  /\ UNCHANGED <<pod, agents, sessions, beats, shown, budget, gauge>>

Newest(S) == CHOOSE n \in S : \A m \in S : m <= n

\* Then agent.lastMetrics, no newer than the time for all that: it is one
\* pointer, read twice, and no second read of it is older than the first.
\* The answer is written.
ReadMetrics(k) ==
  LET v == view[k] IN
  /\ v.step = "lastMetrics"
  /\ \E m \in Since(v.from, lastMetrics[v.on]) :
       /\ view' = [view EXCEPT ![k] = Goes(v, "done", None, v.seen, m)]
       /\ shown' = [shown EXCEPT ![v.on] =
                       Newest({@, m} \cup ({v.seen} \ {Torn}))]
  /\ UNCHANGED <<pod, agents, sessions, beats, budget, gauge>>

-----------------------------------------------------------------------------
PodStep(p) == Crash(p) \/ Terminate(p) \/ Exit(p) \/ Kill(p) \/ Start(p)

HandlerStep(c) ==
  \/ Accept(c) \/ Reject(c) \/ RegisterAgent(c)
  \/ StoreMetrics(c) \/ StoreSeen(c)
  \/ EndSession(c) \/ UnregisterAgent(c)
  \/ Break(c)

AgentStep(h) ==
  \/ \E c \in Conns, p \in Pods : Dial(h, c, p)
  \/ BeginSession(h) \/ SessionLost(h) \/ Heartbeat(h) \/ AgentRestart(h)

RequestStep(k) ==
  \/ \E p \in Pods, h \in Hosts : Lookup(k, p, h)
  \/ ReadSeen(k) \/ ReadMetrics(k)

HostStep(h) ==
  /\ Spend("ticks")
  /\ Tick(h) \/ GoesBack(h)
  /\ UNCHANGED <<pod, agents, sessions, beats, answers>>

Next ==
  \/ \E p \in Pods : PodStep(p)
  \/ \E c \in Conns : HandlerStep(c)
  \/ \E h \in Hosts : AgentStep(h) \/ HostStep(h)
  \/ \E k \in Requests : RequestStep(k)

Spec == Init /\ [][Next]_vars

\* Goroutines that can go on do; both ends notice a broken stream; a replica
\* that drains is killed in the end, and one that is down is started again (by
\* the restart policy of docker-compose.yml, or the Deployment).  Nothing is
\* assumed of faults, and no heartbeat needs to come.
Fairness ==
  /\ \A p \in Pods : WF_vars(Kill(p)) /\ WF_vars(Start(p))
  /\ \A h \in Hosts :
       /\ WF_vars(\E c \in Conns, p \in Pods : Dial(h, c, p))
       /\ WF_vars(BeginSession(h))
       /\ WF_vars(SessionLost(h))
  /\ \A c \in Conns :
       /\ WF_vars(Accept(c)) /\ WF_vars(stream[c] = "broken" /\ Reject(c))
       /\ WF_vars(RegisterAgent(c))
       /\ WF_vars(StoreSeen(c))
       /\ WF_vars(EndSession(c)) /\ WF_vars(UnregisterAgent(c))
  /\ \A k \in Requests : WF_vars(ReadSeen(k)) /\ WF_vars(ReadMetrics(k))

FairSpec == Spec /\ Fairness

-----------------------------------------------------------------------------
(* Properties.                                                             *)

\* handleGetServer reads the time and the metrics of a session without the
\* lock, while heartbeats are stored and the session ends or is replaced: the
\* two may be of different heartbeats.  But neither is older than what an
\* answer had shown of the session before the request looked it up, so that a
\* dashboard that polls never goes back; and only a session no heartbeat of
\* which had been shown gives a time that never was.
ViewsAdvance ==
  \A k \in Requests :
    LET v == view[k] IN
    v.step = "done" =>
      /\ v.metrics >= v.floor
      /\ IF v.seen = Torn THEN v.floor = 0 ELSE v.seen >= v.floor

\* The agent's session is in the registry of a replica that stays.
Reachable(h) ==
  /\ phase[h] = "session"
  /\ \E p \in Pods : pod[p] = "up" /\ agents[p][h] = using[h]

\* No handler of an earlier stream of the agent is left, nor has one removed
\* the entry of its session.
NothingStale(h) ==
  \A c \in Conns :
    owner[c] = h /\ Active(c) =>
      /\ using[h] = c
      /\ stream[c] = "open"
      /\ handler[c] \in {"auth", "accepted"} \/ agents[at[c]][h] = c

\* "Run connects to the API and maintains the session, reconnecting on failure"
\* (agent.go): however replicas were drained, killed and started and streams
\* broke, once no more faults come every agent is back in a registry, and
\* stays there -- unless a handler of an earlier stream is left, whose
\* unregisterAgent may still remove the new session.
ComesBack ==
  \A h \in Hosts :
    (budget.faults = 0 /\ NothingStale(h)) ~> []Reachable(h)

\* The safety half of it: once no more faults come, replicas that are killed
\* while they drain, handlers that end and streams that are dialled leave no
\* stale handler behind and never take a session out of the registry again.
StaysBack ==
  [][\A h \in Hosts :
       budget.faults = 0 /\ NothingStale(h) =>
         NothingStale(h)' /\ (Reachable(h) => Reachable(h)')]_vars

\* The host is online: its agent is in session, on a stream that works with a
\* replica that runs, whose handler is past registerAgent.
Connected(h) ==
  LET c == using[h] IN
  /\ phase[h] = "session"
  /\ stream[c] = "open"
  /\ handler[c] \in {"loop", "beat"}
  /\ pod[at[c]] = "up"

\* runbook.md promises "HA, rolling deploys" and "Rolling update — zero
\* downtime": a request about a host that is online finds it.
SessionFound ==
  [][\A k \in Requests, h \in Hosts :
       view[k].step = "idle" /\ view'[k].step = "missing" /\ view'[k].host = h
         => ~ Connected(h)]_vars
=============================================================================
