-------------------------- MODULE ControlPlaneInv --------------------------
(***************************************************************************)
(* The inductive invariant behind the safety properties of ControlPlane,   *)
(* in three parts, each inductive given those before it.                   *)
(***************************************************************************)
EXTENDS ControlPlane

(***************************************************************************)
(* Wiring: who points at which stream.                                     *)
(***************************************************************************)

\* An agent outside its reconnect delay uses a stream it opened itself.
AgentOnOwnStream ==
  \A a \in Agents :
    phase[a] # "idle" =>
      /\ aconn[a] \in Conns
      /\ owner[aconn[a]] = a
      /\ handler[aconn[a]] # "none"

\* A handler belongs to a stream that an agent opened.
HandlerHasOwner ==
  \A c \in Conns : handler[c] # "none" => owner[c] \in Agents

\* A SendCommand that has not queued its command holds a session of its
\* server, and the memory of that session is not reused meanwhile.
CallHoldsSession ==
  \A k \in Calls :
    pc[k] \in {"looked", "posting"} =>
      /\ via[k] \in Conns
      /\ handler[via[k]] # "none"
      /\ ServerId(via[k]) = target[k]

\* A handler holds a result exactly while it delivers one.
InHandIffDelivering ==
  \A c \in Conns : handler[c] = "delivering" <=> inhand[c] # None

\* A command goroutine runs on a stream that was opened, and one that is about
\* to report has a verdict.
JobsWired ==
  \A j \in jobs :
    /\ handler[j.conn] # "none"
    /\ j.state = "reporting" => verdict[j.call] # "none"

Wiring ==
  /\ TypeOK
  /\ AgentOnOwnStream
  /\ HandlerHasOwner
  /\ RegistryLive
  /\ CallHoldsSession
  /\ InHandIffDelivering
  /\ JobsWired

(***************************************************************************)
(* Delivery: the pending map, the result channels and the handlers that    *)
(* hold a result are disjoint places for the answer of a call.             *)
(***************************************************************************)

\* A claimed result is in the hand of one handler, its call is no longer
\* pending and the slot of its channel is free.
ClaimedOnce ==
  \A c \in Conns :
    inhand[c] # None =>
      /\ inhand[c].call \notin pending
      /\ resultCh[inhand[c].call] = "none"
      /\ pc[inhand[c].call] \notin {"idle", "looked"}
      /\ \A d \in Conns \ {c} :
           inhand[d] # None => inhand[d].call # inhand[c].call

\* A delivered result is of a call that is no longer pending.
DeliveredOnce ==
  \A k \in Calls :
    resultCh[k] # "none" => k \notin pending /\ pc[k] \notin {"idle", "looked"}

Delivery ==
  /\ PendingOwned
  /\ ClaimedOnce
  /\ DeliveredOnce

(***************************************************************************)
(* Routing: where the command of a call can be, and what its results say.  *)
(***************************************************************************)

\* The command left SendCommand and no answer came back.
Unanswered(k) == pc[k] \in {"waiting", "expiring", "timedout", "lost"}

\* The command has not been started and may travel on stream c.
OnItsWay(k, c) ==
  /\ Unanswered(k)
  /\ ran[k] = <<>>
  /\ ServerId(c) = target[k]

\* Commands in a send channel or on a stream have not been started, and go to
\* the server they were made for.
QueuedOnItsWay ==
  \A c \in Conns :
    /\ \A i \in 1..Len(sendq[c]) : OnItsWay(sendq[c][i], c)
    /\ \A i \in 1..Len(down[c]) :
         down[c][i] # Accepted => OnItsWay(down[c][i], c)

\* A command is in one place of one send channel or stream only.
QueuedOnce ==
  \A c, d \in Conns :
    /\ \A i \in 1..Len(sendq[c]), j \in 1..Len(sendq[d]) :
         sendq[c][i] = sendq[d][j] => c = d /\ i = j
    /\ \A i \in 1..Len(down[c]), j \in 1..Len(down[d]) :
         down[c][i] = down[d][j] /\ down[c][i] # Accepted => c = d /\ i = j
    /\ \A i \in 1..Len(sendq[c]), j \in 1..Len(down[d]) :
         sendq[c][i] # down[d][j]

\* A started command was sent; it has one goroutine at most.
StartedOnce ==
  /\ \A k \in Calls :
       ran[k] # <<>> => Unanswered(k) \/ pc[k] \in Verdicts
  /\ \A k \in Calls : verdict[k] # "none" => ran[k] # <<>>
  /\ \A j \in jobs :
       /\ ran[j.call] # <<>>
       /\ j.state = "running" => verdict[j.call] = "none"
  /\ \A i, j \in jobs : i.call = j.call => i = j

\* Wherever a result is on its way back, it is the verdict of its call.
ResultsTrue ==
  /\ \A c \in Conns :
       /\ \A i \in 1..Len(up[c]) : up[c][i].verdict = verdict[up[c][i].call]
       /\ inhand[c] # None => inhand[c].verdict = verdict[inhand[c].call]
  /\ \A k \in Calls : resultCh[k] # "none" => resultCh[k] = verdict[k]
  /\ \A k \in Calls : pc[k] \in Verdicts => pc[k] = verdict[k]

Routing ==
  /\ QueuedOnItsWay
  /\ QueuedOnce
  /\ StartedOnce
  /\ ResultsTrue
  /\ RunsOnceOnTarget

IInv == Wiring /\ Delivery /\ Routing
=============================================================================
