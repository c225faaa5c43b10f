---------------------------- MODULE SitesProofs ----------------------------
(***************************************************************************)
(* Callers that wait for the last command of a domain keep the commands of *)
(* a domain apart, so what VhostsProofs proves of commands that do not     *)
(* overlap holds from end to end.                                          *)
(***************************************************************************)
EXTENDS Sites, TLAPS

\* The proofs about virtual hosts, under what the callers guarantee.
P == INSTANCE VhostsProofs WITH Overlaps <- {"other"}

\* What VhostsProofs assumes of its constants.
LEMMA Discharged ==
  /\ "same" \notin {"other"}
  /\ /\ {"other"} \subseteq {"same", "other"}
     /\ Faults \subseteq {"io", "crash"}
     /\ {None, P!Torn, P!Blank} \cap Ops = {}
     /\ None \notin {P!Torn, P!Blank}
     /\ None \notin Domains
  BY ConstantsOK DEF P!Torn, P!Blank, Torn, Blank

\* The invariant of the files is kept by every step of Vhosts.
LEMMA SitesFiles ==
  P!SInv /\ [P!Next]_P!vars => P!SInv'
<1>1. P!SInv /\ [P!Next]_P!vars => P!TypeOK'
  BY Discharged, P!TypeStep DEF P!SInv
<1>2. P!SInv /\ [P!Next]_P!vars => P!PcOfKind'
  BY Discharged, P!PcOfKindStep DEF P!SInv
<1>3. P!SInv /\ [P!Next]_P!vars => P!LastIsOwn'
  BY Discharged, P!LastIsOwnStep
<1>4. P!SInv /\ [P!Next]_P!vars => P!FilesFollow'
  BY Discharged, P!FilesFollowStep
<1>5. P!SInv /\ [P!Next]_P!vars => P!OutcomeServed'
  BY Discharged, P!OutcomeServedStep
<1> QED
  BY <1>1, <1>2, <1>3, <1>4, <1>5 DEF P!SInv

-----------------------------------------------------------------------------
(* Steps of Sites are steps of Vhosts.                                     *)

\* The files are in the states that VhostsInv describes, and the calls in those
\* of CallsInv.
SitesInv == P!SInv /\ CallsInv

\* The instances W and P of Vhosts are the same.
LEMMA SameVhosts ==
  /\ W!Init <=> P!Init
  /\ [W!Next]_W!vars <=> [P!Next]_P!vars
<1>1. W!Init <=> P!Init
  BY DEF W!Init, P!Init
<1>2. W!Next <=> P!Next
  BY DEF W!Next, P!Next, W!CreateStep, P!CreateStep, W!DeleteStep,
     P!DeleteStep, W!BeginCreate, P!BeginCreate, W!BeginDelete,
     P!BeginDelete, W!BeginRestart, P!BeginRestart, W!Receive, P!Receive,
     W!MayBegin, P!MayBegin, W!Busy, P!Busy, W!OnDisk, P!OnDisk,
     W!WriteConf, P!WriteConf, W!RemoveStaleLink, P!RemoveStaleLink,
     W!EnableSite, P!EnableSite, W!TestConfig, P!TestConfig, W!DisableSite,
     P!DisableSite, W!DiscardConf, P!DiscardConf, W!DropLink, P!DropLink,
     W!DropConf, P!DropConf, W!ReloadNginx, P!ReloadNginx, W!RestartService,
     P!RestartService, W!AgentRestart, P!AgentRestart, W!RemoveLink,
     P!RemoveLink, W!RemoveConf, P!RemoveConf, W!Valid, P!Valid, W!Enabled,
     P!Enabled, W!Goto, P!Goto, W!Torn, P!Torn, W!Blank, P!Blank, W!disk,
     P!disk, W!nginx, P!nginx, W!cmds, P!cmds, W!vars, P!vars
<1> QED
  BY <1>1, <1>2 DEF W!vars, P!vars, W!disk, P!disk, W!nginx, P!nginx, W!cmds,
     P!cmds

\* No other command of the domain is in progress when a goroutine begins.
LEMMA ApartWhenBegun ==
  ASSUME CallsInv, NEW o \in tasks, pc[o] = "idle"
  PROVE  W!MayBegin(request[o].dom)
<1> USE DEF CallsInv, SitesTypeOK, TasksOwn
<1>1. o \in Ops /\ Made(o) /\ ~IsOver(o)
  BY DEF IsOver
<1>2. request[o].dom # None => asked[request[o].dom] = o
  BY <1>1 DEF LastAsked
<1>3. ASSUME NEW p \in Ops, pc[p] \in Busy, dom[p] = request[o].dom,
             request[o].dom # None
      PROVE  FALSE
  <2>1. p \in tasks /\ pc[p] # "idle"
    BY <1>3 DEF Busy
  <2>2. Made(p) /\ request[p].dom = request[o].dom /\ ~IsOver(p)
    BY <1>3, <2>1 DEF IsOver
  <2>3. p = o
    BY <1>2, <1>3, <2>2 DEF LastAsked
  <2> QED
    BY <2>1, <2>3
<1> QED
  BY <1>3 DEF W!MayBegin, W!Busy, Busy

\* What the goroutine of a command does is a step of Vhosts in which commands
\* for one domain do not overlap.
LEMMA HandleIsStep ==
  ASSUME CallsInv, NEW o \in Ops, HandleCommand(o)
  PROVE  W!Next
<1> DEFINE r == request[o]
<1>1. o \in tasks /\ Dispatched(o)
  BY DEF HandleCommand
<1>2. r \in Requests
  BY <1>1 DEF CallsInv, SitesTypeOK, TasksOwn, Made
<1>3. /\ r.kind \in {"create", "delete"} => r.dom \in Domains
      /\ r.kind = "restart" => r.dom = None
      /\ r.sound \in BOOLEAN
  BY <1>2 DEF Requests
<1>4. ASSUME BeginCreate(o, r.dom, r.sound)
      PROVE  W!BeginCreate(o, r.dom, r.sound)
  <2>1. W!MayBegin(r.dom)
    BY <1>1, <1>4, ApartWhenBegun DEF BeginCreate, Receive
  <2> QED
    BY <1>4, <2>1 DEF BeginCreate, W!BeginCreate, Receive, W!Receive, OnDisk,
       W!OnDisk, Goto, W!Goto, disk, W!disk, nginx, W!nginx
<1>5. ASSUME BeginDelete(o, r.dom)
      PROVE  W!BeginDelete(o, r.dom)
  <2>1. W!MayBegin(r.dom)
    BY <1>1, <1>5, ApartWhenBegun DEF BeginDelete, Receive
  <2> QED
    BY <1>5, <2>1 DEF BeginDelete, W!BeginDelete, Receive, W!Receive, OnDisk,
       W!OnDisk, Goto, W!Goto, disk, W!disk, nginx, W!nginx
<1>6. CreateStep(o) => W!CreateStep(o)
  BY DEF CreateStep, W!CreateStep, WriteConf, W!WriteConf,
     RemoveStaleLink, W!RemoveStaleLink, EnableSite, W!EnableSite,
     TestConfig, W!TestConfig, DisableSite, W!DisableSite, DiscardConf,
     W!DiscardConf, RemoveLink, W!RemoveLink, RemoveConf, W!RemoveConf,
     Valid, W!Valid, Goto, W!Goto, Torn, W!Torn, Blank, W!Blank, disk,
     W!disk, nginx, W!nginx, cmds, W!cmds
<1>7. DeleteStep(o) => W!DeleteStep(o)
  BY DEF DeleteStep, W!DeleteStep, DropLink, W!DropLink, DropConf,
     W!DropConf, RemoveLink, W!RemoveLink, Goto, W!Goto, nginx, W!nginx,
     cmds, W!cmds
<1>8. ReloadNginx(o) => W!ReloadNginx(o)
  BY DEF ReloadNginx, W!ReloadNginx, Valid, W!Valid, Enabled, W!Enabled,
     Torn, W!Torn, Blank, W!Blank, Goto, W!Goto, disk, W!disk, cmds,
     W!cmds
<1>9. ASSUME BeginRestart(o), r.kind = "restart"
      PROVE  W!BeginRestart(o)
  <2>1. W!MayBegin(None)
    BY <1>1, <1>3, <1>9, ApartWhenBegun DEF BeginRestart, Receive
  <2> QED
    BY <1>9, <2>1 DEF BeginRestart, W!BeginRestart, Receive, W!Receive, Goto,
       W!Goto, disk, W!disk, nginx, W!nginx
<1>10. RestartService(o) => W!RestartService(o)
  BY DEF RestartService, W!RestartService, Valid, W!Valid, Enabled, W!Enabled,
     Torn, W!Torn, Blank, W!Blank, Goto, W!Goto, disk, W!disk, cmds, W!cmds
<1> QED
  BY <1>1, <1>3, <1>4, <1>5, <1>6, <1>7, <1>8, <1>9, <1>10
  DEF Dispatched, W!Next

\* Every step of Sites is one of Vhosts, or leaves the files alone.
LEMMA SitesStep ==
  ASSUME CallsInv, [SitesNext]_svars
  PROVE  [W!Next]_W!vars
<1>1. CASE \E o \in Ops : HandleCommand(o)
  BY <1>1, HandleIsStep
<1>2. CASE AgentDies
  <2>1. AgentRestart => W!AgentRestart
    BY DEF AgentRestart, W!AgentRestart, Busy, W!Busy, nginx, W!nginx, cmds,
       W!cmds
  <2> QED
    BY <1>2, <2>1 DEF AgentDies, W!Next, vars, disk, nginx, cmds, W!vars,
       W!disk, W!nginx, W!cmds
<1>3. CASE UNCHANGED vars
  BY <1>3 DEF vars, disk, nginx, cmds, W!vars, W!disk, W!nginx, W!cmds
<1> QED
  BY <1>1, <1>2, <1>3 DEF SitesNext, Ask, Unsent, Reply, TimeOut, TakeCommand,
     svars

-----------------------------------------------------------------------------
(* The calls stay in the states of CallsInv.                               *)

\* Sites begin in these states.
LEMMA SitesInvInit == SitesInit => W!Init /\ SitesInv
<1> SUFFICES ASSUME SitesInit PROVE W!Init /\ SitesInv
  OBVIOUS
<1>1. W!Init /\ P!Init
  BY SameVhosts DEF SitesInit, Init, W!Init
<1>2. P!SInv
  BY <1>1, Discharged, P!SInvInit
<1>3. TypeOK
  BY <1>2 DEF P!SInv, P!TypeOK, TypeOK, P!Files, Files, P!Busy, Busy, P!Ended,
     Ended, P!Torn, Torn, P!Blank, Blank
<1>4. SitesTypeOK
  BY <1>3 DEF SitesInit, SitesTypeOK, Rpc!Init, Rpc!TypeOK, Rpc!Phases,
     Rpc!Verdicts
<1>5. TasksOwn /\ LastAsked /\ AnswersTrue
  BY DEF SitesInit, Init, Rpc!Init, Rpc!Verdicts, TasksOwn, LastAsked,
     AnswersTrue, Made, Busy
<1> QED
  BY <1>1, <1>2, <1>4, <1>5 DEF SitesInv, CallsInv

\* What a step of the goroutine of o changes: the place of o, what is begun for
\* its domain, and the call of o once the work is done.
Handled(o) ==
  /\ o \in tasks
  /\ pc'[o] \in Busy \cup {"ok", "failed", "rejected"}
  /\ kind'[o] = request[o].kind /\ dom'[o] = request[o].dom
  /\ \A p \in Ops \ {o} :
       pc'[p] = pc[p] /\ kind'[p] = kind[p] /\ dom'[p] = dom[p]
  /\ last' = [d \in Domains |-> IF pc[o] = "idle" /\ d = request[o].dom
                                  THEN o ELSE last[d]]
  /\ UNCHANGED <<phase, runs, request, asked>>
  /\ IF pc'[o] \in Busy
       THEN UNCHANGED <<verdict, tasks>>
       ELSE /\ verdict' = [verdict EXCEPT
                            ![o] = IF pc'[o] = "ok" THEN "ok" ELSE "err"]
            /\ tasks' = tasks \ {o}

\* A goroutine changes nothing else.
LEMMA HandleFrame ==
  ASSUME CallsInv, NEW o \in Ops, HandleCommand(o)
  PROVE  Handled(o)
<1> USE DEF CallsInv, SitesTypeOK, TypeOK
<1>1. /\ o \in tasks /\ Dispatched(o) /\ Reported(o)
      /\ UNCHANGED <<request, asked>>
  BY DEF HandleCommand
<1>2. CASE \/ /\ request[o].kind = "create"
              /\ BeginCreate(o, request[o].dom, request[o].sound)
           \/ request[o].kind = "delete" /\ BeginDelete(o, request[o].dom)
  <2>1. request[o] \in Requests /\ request[o].dom \in Domains
    BY <1>1, <1>2 DEF TasksOwn, Made, Requests
  <2>2. /\ pc[o] = "idle"
        /\ last' = [last EXCEPT ![request[o].dom] = o]
        /\ \E l \in {"write", "failed", "droplink"} : pc' = [pc EXCEPT ![o] = l]
        /\ dom' = [dom EXCEPT ![o] = request[o].dom]
    BY <1>2 DEF BeginCreate, BeginDelete, Receive, Goto
  <2>3. kind' = [kind EXCEPT ![o] = request[o].kind]
    BY <1>1, <1>2, <2>2 DEF Dispatched, BeginCreate, BeginDelete, Receive,
       CreateStep, DeleteStep, WriteConf, RemoveStaleLink, EnableSite,
       TestConfig, DisableSite, DiscardConf, DropLink, DropConf, ReloadNginx,
       BeginRestart, RestartService
  <2> QED
    BY <1>1, <2>1, <2>2, <2>3 DEF Reported, Rpc!Complete, rpc, Handled, Busy
<1>3. CASE CreateStep(o) \/ DeleteStep(o) \/ ReloadNginx(o) \/ RestartService(o)
  <2>1. /\ pc[o] \in Busy
        /\ UNCHANGED cmds
        /\ \E l \in Busy \cup {"ok", "failed", "rejected"} :
             pc' = [pc EXCEPT ![o] = l]
    BY <1>3 DEF CreateStep, DeleteStep, WriteConf, RemoveStaleLink, EnableSite,
       TestConfig, DisableSite, DiscardConf, DropLink, DropConf, ReloadNginx,
       RestartService, Goto, Busy
  <2>2. pc[o] # "idle" /\ kind[o] = request[o].kind /\ dom[o] = request[o].dom
    BY <2>1 DEF TasksOwn, Busy
  <2> QED
    BY <1>1, <2>1, <2>2 DEF Reported, Rpc!Complete, rpc, Handled, cmds
<1>4. CASE BeginRestart(o) /\ request[o].kind = "restart"
  <2>1. request[o].dom = None
    BY <1>1, <1>4 DEF TasksOwn, Made, Requests
  <2>2. /\ pc[o] = "idle"
        /\ pc' = [pc EXCEPT ![o] = "restart"]
        /\ kind' = [kind EXCEPT ![o] = "restart"]
        /\ dom' = [dom EXCEPT ![o] = None]
        /\ last' = last
    BY <1>4 DEF BeginRestart, Receive, Goto
  <2>3. last' = [d \in Domains |-> IF pc[o] = "idle" /\ d = request[o].dom
                                    THEN o ELSE last[d]]
    BY <2>1, <2>2, ConstantsOK
  <2> QED
    BY <1>1, <1>4, <2>1, <2>2, <2>3
    DEF Reported, Rpc!Complete, rpc, Handled, Busy
<1> QED
  BY <1>1, <1>2, <1>3, <1>4 DEF Dispatched

\* A call that is made finds the last one of its domain over.
LEMMA AskKeeps ==
  ASSUME CallsInv, NEW o \in Ops, NEW r \in Requests, Ask(o, r), TypeOK'
  PROVE  CallsInv'
<1> USE DEF CallsInv, SitesTypeOK
<1>1. /\ MayAsk(r.dom) /\ phase[o] = "new"
      /\ phase' = [phase EXCEPT ![o] = "open"]
      /\ request' = [request EXCEPT ![o] = r]
      /\ asked' = [d \in Domains |-> IF d = r.dom THEN o ELSE asked[d]]
      /\ UNCHANGED <<vars, runs, verdict, tasks>>
  BY DEF Ask, Rpc!Issue
<1>2. r.dom \in Domains \cup {None} /\ r # None /\ None \notin Ops
  BY RequestsOK, ConstantsOK DEF Requests
<1>3. UNCHANGED <<pc, kind, dom, last>>
  BY <1>1 DEF vars, nginx, cmds
<1>4. SitesTypeOK'
  BY <1>1, <1>2 DEF Rpc!TypeOK, Rpc!Phases
<1>5. request[o] = None /\ runs[o] = 0 /\ pc[o] = "idle"
  BY <1>1 DEF TasksOwn, Made, Rpc!TypeOK
<1>6. TasksOwn'
  BY <1>1, <1>2, <1>3, <1>5 DEF TasksOwn, Made, Rpc!TypeOK
<1>7. LastAsked'
  <2>1. \A p \in Ops : IsOver(p) => IsOver(p)'
    BY <1>1 DEF IsOver
  <2>2. ASSUME NEW p \in Ops, Made(p)', request'[p].dom # None,
               p # asked'[request'[p].dom]
        PROVE  IsOver(p)'
    <3>1. p # o /\ Made(p) /\ request'[p] = request[p]
      BY <1>1, <1>2, <2>2 DEF Made
    <3>2. request[p].dom \in Domains
      BY <2>2, <3>1 DEF Made, Requests
    <3>3. IsOver(p)
      <4>1. CASE request[p].dom = r.dom
        BY <1>1, <1>2, <2>2, <3>1, <3>2, <4>1 DEF MayAsk, LastAsked
      <4>2. CASE request[p].dom # r.dom
        BY <1>1, <2>2, <3>1, <3>2, <4>2 DEF LastAsked
      <4> QED
        BY <4>1, <4>2
    <3> QED
      BY <2>1, <3>3
  <2>3. ASSUME NEW d \in Domains, asked'[d] # None
        PROVE  /\ Made(asked[d])' /\ request'[asked'[d]].dom = d
               /\ pc'[asked'[d]] # "idle" => last'[d] = asked'[d]
    <3>1. CASE d = r.dom
      BY <1>1, <1>2, <1>3, <1>5, <3>1 DEF Made
    <3>2. CASE d # r.dom
      BY <1>1, <1>2, <1>3, <1>5, <2>3, <3>2 DEF LastAsked, Made
    <3> QED
      BY <3>1, <3>2
  <2> QED
    BY <2>2, <2>3 DEF LastAsked
<1>8. AnswersTrue'
  BY <1>1, <1>3 DEF AnswersTrue, Rpc!TypeOK, Rpc!Verdicts
<1> QED
  BY <1>3, <1>4, <1>6, <1>7, <1>8

\* What happens to a call between the caller and the agent: it is refused,
\* answered or given up, and the files stay as they are.
LEMMA CallKeeps ==
  ASSUME CallsInv, TypeOK',
         \/ \E o \in Ops : Unsent(o) \/ Reply(o)
         \/ \E K \in SUBSET Ops : TimeOut(K)
  PROVE  CallsInv'
<1> USE DEF CallsInv, SitesTypeOK
<1>1. UNCHANGED <<vars, runs, verdict, request, asked, tasks>>
  BY DEF Unsent, Reply, TimeOut, Rpc!Refuse, Rpc!Answer, Rpc!Abandon
<1>2. UNCHANGED <<pc, kind, dom, last>>
  BY <1>1 DEF vars, nginx, cmds
<1>3. /\ phase' \in [Ops -> Rpc!Phases]
      /\ \A o \in Ops :
           \/ phase'[o] = phase[o]
           \/ phase[o] = "new" /\ phase'[o] = "refused"
           \/ phase[o] = "open" /\ phase'[o] = verdict[o] /\ verdict[o] # "none"
           \/ phase[o] = "open" /\ phase'[o] = "abandoned"
  BY DEF Unsent, Reply, TimeOut, Rpc!Refuse, Rpc!Answer, Rpc!Abandon,
     Rpc!TypeOK, Rpc!Phases, Rpc!Verdicts
<1>4. SitesTypeOK'
  BY <1>1, <1>3 DEF Rpc!TypeOK
<1>5. TasksOwn'
  BY <1>1, <1>2, <1>3 DEF TasksOwn, Made, Rpc!TypeOK, Rpc!Verdicts
<1>6. LastAsked'
  BY <1>1, <1>2 DEF LastAsked, Made, IsOver
<1>7. AnswersTrue'
  BY <1>1, <1>2, <1>3 DEF AnswersTrue, Rpc!Verdicts
<1> QED
  BY <1>2, <1>4, <1>5, <1>6, <1>7

\* The agent takes a command, once.
LEMMA TakeKeeps ==
  ASSUME CallsInv, NEW o \in Ops, TakeCommand(o), TypeOK'
  PROVE  CallsInv'
<1> USE DEF CallsInv, SitesTypeOK
<1>1. /\ phase[o] \in {"open", "abandoned"} /\ runs[o] = 0
      /\ runs' = [runs EXCEPT ![o] = 1]
      /\ tasks' = tasks \cup {o}
      /\ UNCHANGED <<vars, phase, verdict, request, asked>>
  BY DEF TakeCommand, Rpc!Start
<1>2. UNCHANGED <<pc, kind, dom, last>>
  BY <1>1 DEF vars, nginx, cmds
<1>3. Made(o) /\ verdict[o] = "none" /\ pc[o] = "idle" /\ ~IsOver(o)
  BY <1>1 DEF TasksOwn, IsOver
<1>4. SitesTypeOK'
  BY <1>1 DEF Rpc!TypeOK
<1>5. TasksOwn'
  BY <1>1, <1>2, <1>3 DEF TasksOwn, Made, Rpc!TypeOK
<1>6. LastAsked'
  BY <1>1, <1>2, <1>3 DEF LastAsked, Made, IsOver, Rpc!TypeOK
<1>7. AnswersTrue'
  BY <1>1, <1>2 DEF AnswersTrue
<1> QED
  BY <1>2, <1>4, <1>5, <1>6, <1>7

\* A goroutine takes a step, and reports when it was the last.
LEMMA HandleKeeps ==
  ASSUME CallsInv, NEW o \in Ops, HandleCommand(o), TypeOK'
  PROVE  CallsInv'
<1> USE DEF CallsInv, SitesTypeOK
<1>1. Handled(o)
  BY HandleFrame
<1>2. o \in tasks /\ runs[o] = 1 /\ verdict[o] = "none" /\ Made(o) /\ ~IsOver(o)
  BY <1>1 DEF Handled, TasksOwn, IsOver
<1>3. /\ request[o].dom \in Domains \cup {None}
      /\ request[o].dom \in Domains => asked[request[o].dom] = o
  <2>1. request[o] \in Requests
    BY <1>2 DEF Made
  <2>2. request[o].dom \in Domains \cup {None}
    BY <2>1 DEF Requests
  <2>3. request[o].dom # None => asked[request[o].dom] = o
    BY <1>2 DEF LastAsked
  <2> QED
    BY <2>2, <2>3, ConstantsOK
<1>4. /\ phase[o] \notin Rpc!Verdicts
      /\ \A p \in Ops \ {o} : verdict'[p] = verdict[p] /\ (p \in tasks' <=> p \in tasks)
      /\ verdict'[o] # "none" => o \notin tasks'
      /\ verdict'[o] = "none" => o \in tasks' /\ pc'[o] \in Busy
      /\ verdict'[o] = "ok" => pc'[o] = "ok"
      /\ pc'[o] \in Busy => o \in tasks'
      /\ pc'[o] # "idle"
  BY <1>1, <1>2 DEF Handled, AnswersTrue, Rpc!TypeOK, Rpc!Verdicts, Busy
<1>5. SitesTypeOK'
  BY <1>1 DEF Handled, Rpc!TypeOK, Rpc!Verdicts
<1>6. TasksOwn'
  BY <1>1, <1>2, <1>4 DEF Handled, TasksOwn, Made
<1>7. LastAsked'
  <2>1. \A p \in Ops : IsOver(p) => IsOver(p)'
    BY <1>1, <1>4 DEF Handled, IsOver
  <2>2. \A d \in Domains : asked[d] # None /\ d # request[o].dom => asked[d] # o
    BY DEF LastAsked
  <2>3. ASSUME NEW d \in Domains, asked[d] # None, pc'[asked[d]] # "idle"
        PROVE  last'[d] = asked[d]
    <3>1. CASE d = request[o].dom
      <4>1. pc[o] # "idle" => last[d] = o
        BY <1>3, <2>3, <3>1 DEF LastAsked
      <4>2. last \in [Domains -> Ops \cup {None}]
        BY DEF TypeOK
      <4> QED
        BY <1>1, <1>3, <3>1, <4>1, <4>2 DEF Handled
    <3>2. CASE d # request[o].dom
      <4>1. asked[d] \in Ops \ {o}
        BY <2>2, <2>3, <3>2
      <4>2. last'[d] = last[d]
        BY <1>1, <3>2 DEF Handled, TypeOK
      <4> QED
        BY <1>1, <2>3, <4>1, <4>2 DEF Handled, LastAsked
    <3> QED
      BY <3>1, <3>2
  <2> QED
    BY <1>1, <2>1, <2>3 DEF Handled, LastAsked, Made
<1>8. AnswersTrue'
  BY <1>1, <1>4 DEF Handled, AnswersTrue
<1> QED
  BY <1>1, <1>5, <1>6, <1>7, <1>8 DEF Handled

\* The goroutines die with the agent.
LEMMA DieKeeps ==
  ASSUME CallsInv, AgentDies, TypeOK'
  PROVE  CallsInv'
<1> USE DEF CallsInv, SitesTypeOK
<1>1. /\ tasks' = {}
      /\ UNCHANGED <<phase, runs, verdict, request, asked, kind, dom, last>>
      /\ \A o \in Ops : pc'[o] = IF pc[o] \in Busy THEN "lost" ELSE pc[o]
  BY DEF AgentDies, AgentRestart, calls, rpc, vars, nginx, cmds, TypeOK
<1>2. SitesTypeOK'
  BY <1>1 DEF Rpc!TypeOK
<1>3. TasksOwn'
  BY <1>1 DEF TasksOwn, Made, Busy
<1>4. LastAsked'
  BY <1>1 DEF LastAsked, Made, IsOver, Busy
<1>5. AnswersTrue'
  BY <1>1 DEF AnswersTrue, Busy
<1> QED
  BY <1>1, <1>2, <1>3, <1>4, <1>5

\* Every step keeps them.
LEMMA SitesInvStep == SitesInv /\ [SitesNext]_svars => SitesInv'
<1> SUFFICES ASSUME SitesInv, [SitesNext]_svars PROVE SitesInv'
  OBVIOUS
<1>1. CallsInv /\ P!SInv
  BY DEF SitesInv
<1>2. P!SInv'
  BY <1>1, SitesStep, SameVhosts, SitesFiles
<1>3. TypeOK'
  BY <1>2 DEF P!SInv, P!TypeOK, TypeOK, P!Files, Files, P!Busy, Busy, P!Ended,
     Ended, P!Torn, Torn, P!Blank, Blank
<1>4. ASSUME \E o \in Ops, r \in Requests : Ask(o, r)
      PROVE  CallsInv'
  BY <1>1, <1>3, <1>4, AskKeeps
<1>5. ASSUME \/ \E o \in Ops : Unsent(o) \/ Reply(o)
             \/ \E K \in SUBSET Ops : TimeOut(K)
      PROVE  CallsInv'
  BY <1>1, <1>3, <1>5, CallKeeps
<1>6. ASSUME \E o \in Ops : TakeCommand(o)
      PROVE  CallsInv'
  BY <1>1, <1>3, <1>6, TakeKeeps
<1>7. ASSUME \E o \in Ops : HandleCommand(o)
      PROVE  CallsInv'
  BY <1>1, <1>3, <1>7, HandleKeeps
<1>8. ASSUME AgentDies
      PROVE  CallsInv'
  BY <1>1, <1>3, <1>8, DieKeeps
<1>9. ASSUME UNCHANGED svars
      PROVE  CallsInv'
  BY <1>1, <1>9 DEF svars, vars, disk, nginx, cmds, calls, rpc, CallsInv,
     SitesTypeOK, TypeOK, Rpc!TypeOK, TasksOwn, LastAsked, AnswersTrue, Made,
     IsOver
<1> QED
  BY <1>2, <1>4, <1>5, <1>6, <1>7, <1>8, <1>9 DEF SitesNext, SitesInv

\* So they last.
LEMMA SitesInvariant == SitesSpec => []SitesInv
  BY SitesInvInit, SitesInvStep, PTL DEF SitesSpec

-----------------------------------------------------------------------------
(* Theorems.                                                               *)

\* For any number of domains and calls: with callers that wait for the last
\* command of a domain to be over, the commands that reach the agent do not
\* overlap for one domain, whatever is answered late, lost or given up.
THEOREM SitesImplementVhosts == SitesSpec => ImplementsVhosts
<1>1. SitesInit => W!Init
  BY SitesInvInit
<1>2. SitesInv /\ [SitesNext]_svars => [W!Next]_W!vars
  BY SitesStep DEF SitesInv
<1> QED
  BY <1>1, <1>2, SitesInvariant, PTL DEF SitesSpec, ImplementsVhosts, W!Spec

\* The types of Sites.
THEOREM SitesTypesAreKept == SitesSpec => []SitesTypeOK
<1>1. SitesInv => SitesTypeOK
  BY DEF SitesInv, CallsInv
<1> QED
  BY <1>1, SitesInvariant, PTL

\* For any number of domains and calls: a 201 or 204 is true of nginx, for as
\* long as nothing else is asked for the domain.
THEOREM StatusIsTrue == SitesSpec => []StatusTrue
<1>1. SitesInv => StatusTrue
  <2> SUFFICES ASSUME SitesInv, NEW d \in Domains, NEW o, o = asked[d],
                      up, o # None, phase[o] = "ok"
               PROVE  loaded[d] = IF request[o].kind = "create" THEN o ELSE None
    BY DEF StatusTrue
  <2>1. o \in Ops /\ pc[o] = "ok"
    BY DEF SitesInv, CallsInv, SitesTypeOK, AnswersTrue, Rpc!Verdicts
  <2>2. last[d] = o /\ kind[o] = request[o].kind
    BY <2>1 DEF SitesInv, CallsInv, LastAsked, TasksOwn
  <2>3. P!OutcomeServed
    BY DEF SitesInv, P!SInv
  <2> QED
    BY <2>1, <2>2, <2>3 DEF P!OutcomeServed
<1> QED
  BY <1>1, SitesInvariant, PTL

\* With such callers nginx accepts what is on the disk whenever no command is in
\* progress, unless something has slipped.
THEOREM SitesTrialsRefused == SitesSpec => []ValidUnlessTrying
<1>1. P!Init /\ [][P!Next]_P!vars => []P!ValidUnlessTrying
  BY Discharged, P!OnlyTrialsAreRefused DEF P!Spec
<1>2. SitesInit => P!Init
  BY SitesInvInit, SameVhosts
<1>3. SitesInv /\ [SitesNext]_svars => [P!Next]_P!vars
  BY SitesStep, SameVhosts DEF SitesInv
<1>4. P!ValidUnlessTrying => ValidUnlessTrying
  BY DEF P!ValidUnlessTrying, ValidUnlessTrying, P!Trying, Trying,
     P!Valid, Valid, P!Blank, Blank
<1> QED
  BY <1>1, <1>2, <1>3, <1>4, SitesInvariant, PTL DEF SitesSpec
=============================================================================
