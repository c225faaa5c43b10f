---------------------------- MODULE VhostsProofs ----------------------------
(***************************************************************************)
(* Proofs about Vhosts for every set of domains and commands.              *)
(***************************************************************************)
EXTENDS VhostsInv, TLAPS

\* A command that begins finds no other command of its domain in progress.
LEMMA NoOverlap ==
  ASSUME "same" \notin Overlaps, NEW d \in Domains, MayBegin(d)
  PROVE  \A p \in Ops : pc[p] \in Busy => dom[p] # d
<1>1. None # d
  BY ConstantsOK
<1> QED
  BY <1>1 DEF MayBegin

\* SInv holds of the directories as they are before any command.
LEMMA SInvInit == Init => SInv
<1> SUFFICES ASSUME Init PROVE SInv
  OBVIOUS
<1>1. TypeOK
  BY DEF Init, TypeOK, Files
<1>2. PcOfKind /\ LastIsOwn
  BY DEF Init, PcOfKind, IsSite, LastIsOwn, Busy
<1>3. FilesFollow /\ OutcomeServed
  BY DEF Init, FilesFollow, OutcomeServed
<1> QED
  BY <1>1, <1>2, <1>3 DEF SInv

\* Types are kept, of commands that are where commands of their kind can be.
LEMMA TypeStep == TypeOK /\ PcOfKind /\ [Next]_vars => TypeOK'
<1> SUFFICES ASSUME TypeOK, PcOfKind, [Next]_vars PROVE TypeOK'
  OBVIOUS
<1> USE DEF TypeOK, Goto, Busy, Ended
<1>1. ASSUME NEW o \in Ops, NEW d \in Domains,
             (\E s \in BOOLEAN : BeginCreate(o, d, s)) \/ BeginDelete(o, d)
      PROVE  TypeOK'
  <2>1. OnDisk(d) \in Files \X SUBSET Domains
    BY DEF OnDisk
  <2>2. /\ UNCHANGED <<disk, nginx>>
        /\ \E l \in {"write", "failed", "droplink"} : pc' = [pc EXCEPT ![o] = l]
        /\ \E k \in {"create", "delete"} : kind' = [kind EXCEPT ![o] = k]
        /\ dom' = [dom EXCEPT ![o] = d]
        /\ \E s \in BOOLEAN : sound' = [sound EXCEPT ![o] = s]
        /\ last' = [last EXCEPT ![d] = o]
        /\ was' = [was EXCEPT ![o] = OnDisk(d)]
    BY <1>1 DEF BeginCreate, BeginDelete, Receive
  <2>3. was' \in [Ops -> (Files \X SUBSET Domains) \cup {None}]
    BY <2>1, <2>2
  <2> QED
    BY <2>2, <2>3 DEF disk, nginx
<1>2. ASSUME NEW o \in Ops, BeginRestart(o)
      PROVE  TypeOK'
  BY <1>2 DEF BeginRestart, Receive, disk, nginx
<1>3. ASSUME NEW o \in Ops, WriteConf(o)
      PROVE  TypeOK'
  BY <1>3 DEF WriteConf, Files, nginx, cmds
<1>4. ASSUME NEW o \in Ops,
             RemoveStaleLink(o) \/ EnableSite(o) \/ DisableSite(o) \/ DropLink(o)
      PROVE  TypeOK'
  <2>1. EnableSite(o) => dom[o] \in Domains \/ link' = link
    BY DEF EnableSite, PcOfKind, IsSite, DeletePc
  <2> QED
    BY <1>4, <2>1 DEF RemoveStaleLink, EnableSite, DisableSite, DropLink,
       RemoveLink, nginx, cmds
<1>5. ASSUME NEW o \in Ops, DiscardConf(o) \/ DropConf(o)
      PROVE  TypeOK'
  BY <1>5 DEF DiscardConf, DropConf, RemoveConf, Files, nginx, cmds
<1>6. ASSUME NEW o \in Ops, TestConfig(o)
      PROVE  TypeOK'
  BY <1>6 DEF TestConfig, disk, nginx, cmds
<1>7. ASSUME NEW o \in Ops, ReloadNginx(o) \/ RestartService(o)
      PROVE  TypeOK'
  BY <1>7 DEF ReloadNginx, RestartService, Enabled, disk, cmds
<1>8. CASE AgentRestart
  BY <1>8 DEF AgentRestart, disk, nginx, cmds
<1>9. CASE UNCHANGED vars
  BY <1>9 DEF vars, disk, nginx, cmds
<1> QED
  BY <1>1, <1>2, <1>3, <1>4, <1>5, <1>6, <1>7, <1>8, <1>9
  DEF Next, CreateStep, DeleteStep

\* What a command is stays, once it has begun.
LEMMA KindStep ==
  ASSUME SInv, [Next]_vars, NEW o \in Ops, pc[o] # "idle"
  PROVE  kind'[o] = kind[o] /\ dom'[o] = dom[o] /\ sound'[o] = sound[o]
<1> USE DEF SInv, TypeOK
<1>1. ASSUME NEW p \in Ops, NEW d, NEW k, NEW s, Receive(p, k, d, s)
      PROVE  kind'[o] = kind[o] /\ dom'[o] = dom[o] /\ sound'[o] = sound[o]
  BY <1>1 DEF Receive
<1>2. CASE \E p \in Ops, d \in Domains :
             (\E s \in BOOLEAN : BeginCreate(p, d, s)) \/ BeginDelete(p, d)
  BY <1>1, <1>2 DEF BeginCreate, BeginDelete
<1>3. CASE \E p \in Ops : BeginRestart(p)
  BY <1>1, <1>3 DEF BeginRestart
<1>4. \/ \E p \in Ops, d \in Domains :
           (\E s \in BOOLEAN : BeginCreate(p, d, s)) \/ BeginDelete(p, d)
      \/ \E p \in Ops : BeginRestart(p)
      \/ UNCHANGED <<kind, dom, sound>>
  BY DEF Next, CreateStep, DeleteStep, WriteConf, RemoveStaleLink, EnableSite,
     TestConfig, DisableSite, DiscardConf, DropLink, DropConf, ReloadNginx,
     RestartService, AgentRestart, vars, cmds
<1> QED
  BY <1>2, <1>3, <1>4

\* A command goes on to where commands of its kind can be.
LEMMA PcOfKindStep == TypeOK /\ PcOfKind /\ [Next]_vars => PcOfKind'
<1> SUFFICES ASSUME TypeOK, PcOfKind, [Next]_vars PROVE PcOfKind'
  OBVIOUS
<1> USE DEF TypeOK, PcOfKind, IsSite, Goto, Busy, CreatePc, DeletePc
<1>1. ASSUME NEW o \in Ops, NEW d \in Domains,
             (\E s \in BOOLEAN : BeginCreate(o, d, s)) \/ BeginDelete(o, d)
      PROVE  PcOfKind'
  BY <1>1, ConstantsOK DEF BeginCreate, BeginDelete, Receive
<1>2. ASSUME NEW o \in Ops, BeginRestart(o)
      PROVE  PcOfKind'
  BY <1>2, ConstantsOK DEF BeginRestart, Receive
<1>3. ASSUME NEW o \in Ops, CreateStep(o)
      PROVE  PcOfKind'
  BY <1>3 DEF CreateStep, WriteConf, RemoveStaleLink, EnableSite, TestConfig,
     DisableSite, DiscardConf, cmds
<1>4. ASSUME NEW o \in Ops, DeleteStep(o)
      PROVE  PcOfKind'
  BY <1>4 DEF DeleteStep, DropLink, DropConf, cmds
<1>5. ASSUME NEW o \in Ops, ReloadNginx(o) \/ RestartService(o)
      PROVE  PcOfKind'
  BY <1>5 DEF ReloadNginx, RestartService, cmds
<1>6. CASE AgentRestart
  BY <1>6 DEF AgentRestart, cmds
<1>7. CASE UNCHANGED vars
  BY <1>7 DEF vars, cmds
<1> QED
  BY <1>1, <1>2, <1>3, <1>4, <1>5, <1>6, <1>7 DEF Next

\* A command that has not begun is not the last of any domain.
LEMMA FreshIsNotLast ==
  ASSUME SInv, NEW o \in Ops, pc[o] = "idle"
  PROVE  \A e \in Domains : last[e] # None => last[e] # o /\ last[e] \in Ops
<1>1. kind[o] \notin {"create", "delete"}
  BY DEF SInv, PcOfKind, CreatePc, DeletePc
<1> QED
  BY <1>1 DEF SInv, TypeOK, LastIsOwn, IsSite

\* A command that begins becomes the last of its domain, where no other one is
\* in progress.
LEMMA LastIsOwnStep ==
  ASSUME "same" \notin Overlaps
  PROVE  SInv /\ [Next]_vars => LastIsOwn'
<1> SUFFICES ASSUME SInv, [Next]_vars PROVE LastIsOwn'
  OBVIOUS
<1> USE DEF SInv, TypeOK, LastIsOwn, IsSite, Goto, Busy
<1>1. ASSUME NEW o \in Ops, NEW d \in Domains,
             (\E s \in BOOLEAN : BeginCreate(o, d, s)) \/ BeginDelete(o, d)
      PROVE  LastIsOwn'
  <2>1. MayBegin(d)
    BY <1>1 DEF BeginCreate, BeginDelete, Receive
  <2>2. \A p \in Ops : pc[p] \in Busy => dom[p] # d
    BY <2>1, NoOverlap
  <2>3. /\ pc[o] = "idle"
        /\ \E l \in {"write", "failed", "droplink"} : pc' = [pc EXCEPT ![o] = l]
        /\ \E k \in {"create", "delete"} : kind' = [kind EXCEPT ![o] = k]
        /\ dom' = [dom EXCEPT ![o] = d]
        /\ last' = [last EXCEPT ![d] = o]
    BY <1>1 DEF BeginCreate, BeginDelete, Receive
  <2>4. \A e \in Domains : last[e] # None => last[e] # o /\ last[e] \in Ops
    BY <2>3, FreshIsNotLast
  <2>5. ASSUME NEW e \in Domains, last'[e] # None
        PROVE  dom'[last'[e]] = e /\ kind'[last'[e]] \in {"create", "delete"}
    <3>1. CASE e = d
      BY <2>3, <3>1
    <3>2. CASE e # d
      BY <2>3, <2>5, <2>4, <3>2
    <3> QED
      BY <3>1, <3>2
  <2>6. ASSUME NEW p \in Ops, pc'[p] \in Busy, kind'[p] \in {"create", "delete"}
        PROVE  last'[dom'[p]] = p
    <3>1. CASE p = o
      BY <2>3, <3>1
    <3>2. CASE p # o
      <4>1. pc[p] \in Busy /\ kind[p] \in {"create", "delete"} /\ dom'[p] = dom[p]
        BY <2>3, <2>6, <3>2
      <4> QED
        BY <2>2, <2>3, <4>1 DEF PcOfKind
    <3> QED
      BY <3>1, <3>2
  <2> QED
    BY <2>5, <2>6
<1>2. ASSUME NEW o \in Ops, BeginRestart(o)
      PROVE  LastIsOwn'
  <2>1. \A e \in Domains : last[e] # None => last[e] # o /\ last[e] \in Ops
    BY <1>2, FreshIsNotLast DEF BeginRestart, Receive
  <2> QED
    BY <1>2, <2>1 DEF BeginRestart, Receive
<1>3. ASSUME UNCHANGED cmds, \A o \in Ops : pc'[o] \in Busy => pc[o] \in Busy
      PROVE  LastIsOwn'
  BY <1>3 DEF cmds
<1>4. ASSUME NEW o \in Ops, CreateStep(o) \/ DeleteStep(o)
      PROVE  LastIsOwn'
  BY <1>3, <1>4 DEF CreateStep, WriteConf, RemoveStaleLink, EnableSite,
     TestConfig, DisableSite, DiscardConf, DeleteStep, DropLink, DropConf
<1>5. ASSUME NEW o \in Ops, ReloadNginx(o) \/ RestartService(o)
      PROVE  LastIsOwn'
  BY <1>3, <1>5 DEF ReloadNginx, RestartService
<1>6. CASE AgentRestart
  BY <1>3, <1>6 DEF AgentRestart
<1>7. CASE UNCHANGED vars
  BY <1>3, <1>7 DEF vars, cmds
<1> QED
  BY <1>1, <1>2, <1>4, <1>5, <1>6, <1>7 DEF Next

\* The commands whose steps touch files do so for their own domain, of which
\* they are the last command.
LEMMA OwnFiles ==
  ASSUME SInv, NEW o \in Ops, IsSite(o), pc[o] \in Busy
  PROVE  /\ dom[o] \in Domains
         /\ last[dom[o]] = o
         /\ \A e \in Domains : e # dom[o] /\ last[e] # None =>
              last[e] # o /\ last[e] \in Ops
  BY DEF SInv, TypeOK, LastIsOwn, PcOfKind, IsSite

\* A step of one command changes the files of its own domain only, and no
\* command but itself.
LEMMA FrameOfStep ==
  ASSUME SInv, NEW o \in Ops, CreateStep(o) \/ DeleteStep(o)
  PROVE  /\ IsSite(o)
         /\ pc[o] \in Busy
         /\ UNCHANGED <<kind, dom, sound, last, up, loaded>>
         /\ \A e \in Domains : e # dom[o] =>
              conf'[e] = conf[e] /\ (e \in link' <=> e \in link)
         /\ \A p \in Ops : p # o => pc'[p] = pc[p]
<1> USE DEF SInv, TypeOK, Goto
<1>1. IsSite(o) /\ pc[o] \in Busy
  BY DEF CreateStep, DeleteStep, WriteConf, RemoveStaleLink, EnableSite,
     TestConfig, DisableSite, DiscardConf, DropLink, DropConf, PcOfKind, IsSite, Busy
<1>2. UNCHANGED <<kind, dom, sound, last, up, loaded>>
  BY DEF CreateStep, DeleteStep, WriteConf, RemoveStaleLink, EnableSite,
     TestConfig, DisableSite, DiscardConf, DropLink, DropConf, nginx, cmds
<1>3. \A e \in Domains : e # dom[o] =>
        conf'[e] = conf[e] /\ (e \in link' <=> e \in link)
  BY DEF CreateStep, DeleteStep, WriteConf, RemoveStaleLink, EnableSite,
     TestConfig, DisableSite, DiscardConf, DropLink, DropConf, RemoveLink,
     RemoveConf, disk
<1>4. \A p \in Ops : p # o => pc'[p] = pc[p]
  BY DEF CreateStep, DeleteStep, WriteConf, RemoveStaleLink, EnableSite,
     TestConfig, DisableSite, DiscardConf, DropLink, DropConf
<1> QED
  BY <1>1, <1>2, <1>3, <1>4

\* The files of a domain stay what its last command left there.
LEMMA FilesFollowStep ==
  ASSUME "same" \notin Overlaps
  PROVE  SInv /\ [Next]_vars => FilesFollow'
<1> SUFFICES ASSUME SInv, [Next]_vars,
                    NEW e \in Domains, last'[e] # None
             PROVE  HasFiles(e, last[e])'
  BY DEF FilesFollow
<1> USE DEF SInv, TypeOK
<1>1. ASSUME NEW o \in Ops, NEW d \in Domains,
             (\E s \in BOOLEAN : BeginCreate(o, d, s)) \/ BeginDelete(o, d)
      PROVE  HasFiles(e, last[e])'
  <2>1. /\ pc[o] = "idle"
        /\ UNCHANGED <<conf, link>>
        /\ \E l \in {"write", "failed", "droplink"} : pc' = [pc EXCEPT ![o] = l]
        /\ \E k \in {"create", "delete"} : kind' = [kind EXCEPT ![o] = k]
        /\ last' = [last EXCEPT ![d] = o]
    BY <1>1 DEF BeginCreate, BeginDelete, Receive, disk, Goto
  <2>2. CASE e = d
    BY <2>1, <2>2 DEF HasFiles, WrittenPc
  <2>3. CASE e # d
    <3>1. last'[e] = last[e] /\ last[e] # None
      BY <2>1, <2>3
    <3>2. last[e] # o /\ last[e] \in Ops
      BY <2>1, <3>1, FreshIsNotLast
    <3>3. pc'[last[e]] = pc[last[e]] /\ kind'[last[e]] = kind[last[e]]
      BY <2>1, <3>2
    <3> QED
      BY <2>1, <3>1, <3>3 DEF FilesFollow, HasFiles, WrittenPc
  <2> QED
    BY <2>2, <2>3
<1>2. ASSUME NEW o \in Ops, BeginRestart(o)
      PROVE  HasFiles(e, last[e])'
  <2>1. /\ pc[o] = "idle"
        /\ UNCHANGED <<conf, link, last>>
        /\ pc' = [pc EXCEPT ![o] = "restart"]
        /\ kind' = [kind EXCEPT ![o] = "restart"]
    BY <1>2 DEF BeginRestart, Receive, disk, Goto
  <2>2. last[e] # o /\ last[e] \in Ops
    BY <2>1, FreshIsNotLast
  <2> QED
    BY <2>1, <2>2 DEF FilesFollow, HasFiles, WrittenPc
<1>3. ASSUME NEW o \in Ops, CreateStep(o) \/ DeleteStep(o)
      PROVE  HasFiles(e, last[e])'
  <2>0. /\ IsSite(o)
        /\ pc[o] \in Busy
        /\ UNCHANGED <<kind, dom, sound, last, up, loaded>>
        /\ e # dom[o] => conf'[e] = conf[e] /\ (e \in link' <=> e \in link)
        /\ \A p \in Ops : p # o => pc'[p] = pc[p]
    BY <1>3, FrameOfStep
  <2>1. CASE e # dom[o]
    <3>1. last[e] # o /\ last[e] \in Ops
      BY <2>0, <2>1, OwnFiles
    <3> QED
      BY <2>0, <2>1, <3>1 DEF FilesFollow, HasFiles, WrittenPc
  <2>2. CASE e = dom[o]
    <3>1. last[e] = o /\ HasFiles(e, o)
      BY <2>0, <2>2, OwnFiles DEF FilesFollow
    <3>2. CASE CreateStep(o)
      <4>1. kind[o] = "create"
        BY <2>0, <3>2 DEF CreateStep, WriteConf, RemoveStaleLink, EnableSite,
           TestConfig, DisableSite, DiscardConf, PcOfKind, IsSite, DeletePc
      <4> QED
        BY <2>0, <2>2, <3>1, <3>2, <4>1 DEF CreateStep, WriteConf,
           RemoveStaleLink, EnableSite, TestConfig, DisableSite, DiscardConf,
           HasFiles, WrittenPc, Goto, disk
    <3>3. CASE DeleteStep(o)
      <4>1. kind[o] = "delete"
        BY <2>0, <3>3 DEF DeleteStep, DropLink, DropConf, PcOfKind, IsSite,
           CreatePc
      <4> QED
        BY <2>0, <2>2, <3>1, <3>3, <4>1 DEF DeleteStep, DropLink, DropConf,
           HasFiles, WrittenPc, Goto
    <3> QED
      BY <1>3, <3>2, <3>3
  <2> QED
    BY <2>1, <2>2
<1>4. ASSUME NEW o \in Ops, ReloadNginx(o)
      PROVE  HasFiles(e, last[e])'
  <2>1. /\ UNCHANGED <<conf, link, last, kind>>
        /\ pc[o] = "reload"
        /\ \/ pc' = [pc EXCEPT ![o] = "ok"] /\ Valid
           \/ pc' = [pc EXCEPT ![o] = "failed"]
    BY <1>4 DEF ReloadNginx, disk, cmds, Goto
  <2>2. HasFiles(e, last[e]) /\ last[e] \in Ops
    BY <2>1 DEF FilesFollow
  <2>3. CASE last[e] # o
    BY <2>1, <2>2, <2>3 DEF HasFiles, WrittenPc
  <2>4. CASE last[e] = o
    <3>1. Valid /\ conf[e] = None => e \notin link
      BY ConstantsOK DEF Valid
    <3> QED
      BY <2>1, <2>2, <2>4, <3>1 DEF HasFiles, WrittenPc
  <2> QED
    BY <2>3, <2>4
<1>5. ASSUME NEW o \in Ops, RestartService(o)
      PROVE  HasFiles(e, last[e])'
  <2>1. /\ UNCHANGED <<conf, link, last, kind>>
        /\ pc[o] = "restart"
        /\ \E l \in {"ok", "failed"} : pc' = [pc EXCEPT ![o] = l]
    BY <1>5 DEF RestartService, disk, cmds, Goto
  <2>2. last[e] # o /\ last[e] \in Ops
    BY <2>1 DEF LastIsOwn, PcOfKind, IsSite, CreatePc, DeletePc
  <2> QED
    BY <2>1, <2>2 DEF FilesFollow, HasFiles, WrittenPc
<1>6. CASE AgentRestart
  BY <1>6 DEF AgentRestart, disk, cmds, FilesFollow, HasFiles, WrittenPc
<1>7. CASE UNCHANGED vars
  BY <1>7 DEF vars, disk, cmds, FilesFollow, HasFiles, WrittenPc
<1> QED
  BY <1>1, <1>2, <1>3, <1>4, <1>5, <1>6, <1>7 DEF Next

\* A reload and a restart load what the last successful commands left.
LEMMA OutcomeServedStep ==
  ASSUME "same" \notin Overlaps
  PROVE  SInv /\ [Next]_vars => OutcomeServed'
<1> SUFFICES ASSUME SInv, [Next]_vars,
                    NEW e \in Domains, up', last'[e] # None, pc'[last'[e]] = "ok"
             PROVE  loaded'[e] = IF kind'[last'[e]] = "create"
                                   THEN last'[e] ELSE None
  BY DEF OutcomeServed
<1> DEFINE Goal == loaded'[e] = IF kind'[last'[e]] = "create"
                                  THEN last'[e] ELSE None
<1> USE DEF SInv, TypeOK
<1>1. ASSUME NEW o \in Ops, NEW d \in Domains,
             (\E s \in BOOLEAN : BeginCreate(o, d, s)) \/ BeginDelete(o, d)
      PROVE  Goal
  <2>1. /\ pc[o] = "idle"
        /\ UNCHANGED <<up, loaded>>
        /\ \E l \in {"write", "failed", "droplink"} : pc' = [pc EXCEPT ![o] = l]
        /\ \E k \in {"create", "delete"} : kind' = [kind EXCEPT ![o] = k]
        /\ last' = [last EXCEPT ![d] = o]
    BY <1>1 DEF BeginCreate, BeginDelete, Receive, nginx, Goto
  <2>2. e # d
    BY <2>1
  <2>3. last'[e] = last[e] /\ last[e] # None
    BY <2>1, <2>2
  <2>4. last[e] # o /\ last[e] \in Ops
    BY <2>1, <2>3, FreshIsNotLast
  <2> QED
    BY <2>1, <2>3, <2>4 DEF OutcomeServed
<1>2. ASSUME NEW o \in Ops, BeginRestart(o)
      PROVE  Goal
  <2>1. /\ pc[o] = "idle"
        /\ UNCHANGED <<up, loaded, last>>
        /\ pc' = [pc EXCEPT ![o] = "restart"]
        /\ kind' = [kind EXCEPT ![o] = "restart"]
    BY <1>2 DEF BeginRestart, Receive, nginx, Goto
  <2>2. last[e] # o /\ last[e] \in Ops
    BY <2>1, FreshIsNotLast
  <2> QED
    BY <2>1, <2>2 DEF OutcomeServed
<1>3. ASSUME NEW o \in Ops, CreateStep(o) \/ DeleteStep(o)
      PROVE  Goal
  <2>1. UNCHANGED <<kind, last, up, loaded>>
    BY <1>3, FrameOfStep
  <2>2. \A p \in Ops : pc'[p] = "ok" => pc[p] = "ok"
    BY <1>3 DEF CreateStep, DeleteStep, WriteConf, RemoveStaleLink, EnableSite,
       TestConfig, DisableSite, DiscardConf, DropLink, DropConf, Goto
  <2> QED
    BY <2>1, <2>2 DEF OutcomeServed
<1>4. ASSUME NEW o \in Ops, ReloadNginx(o) \/ RestartService(o)
      PROVE  Goal
  <2>1. UNCHANGED <<conf, link, last, kind>>
    BY <1>4 DEF ReloadNginx, RestartService, disk, cmds
  <2>2. CASE /\ loaded' = Enabled
             /\ Valid
             /\ pc' = [pc EXCEPT ![o] = "ok"]
    <3>1. HasFiles(e, last[e])'
      BY FilesFollowStep DEF FilesFollow
    <3>2. /\ kind[last[e]] = "create" => conf[e] = last[e] /\ e \in link
          /\ kind[last[e]] = "delete" => e \notin link
      BY <2>1, <3>1 DEF HasFiles, WrittenPc
    <3>3. kind[last[e]] \in {"create", "delete"} /\ last[e] \in Ops
      BY <2>1 DEF LastIsOwn, IsSite
    <3> QED
      BY <2>1, <2>2, <3>2, <3>3 DEF Enabled
  <2>3. CASE /\ UNCHANGED <<up, loaded>>
             /\ pc' = [pc EXCEPT ![o] = "failed"]
    BY <2>1, <2>3 DEF OutcomeServed
  <2>4. CASE up' = FALSE
    BY <2>4
  <2> QED
    BY <1>4, <2>2, <2>3, <2>4 DEF ReloadNginx, RestartService, Goto
<1>5. CASE AgentRestart
  BY <1>5 DEF AgentRestart, nginx, cmds, OutcomeServed
<1>6. CASE UNCHANGED vars
  BY <1>6 DEF vars, nginx, cmds, OutcomeServed
<1> QED
  BY <1>1, <1>2, <1>3, <1>4, <1>5, <1>6 DEF Next

\* SInv is an invariant while commands for one domain do not overlap.
LEMMA SInvInvariant ==
  ASSUME "same" \notin Overlaps
  PROVE  Spec => []SInv
<1>1. SInv /\ [Next]_vars => SInv'
  BY TypeStep, PcOfKindStep, LastIsOwnStep, FilesFollowStep, OutcomeServedStep
  DEF SInv
<1> QED
  BY <1>1, SInvInit, PTL DEF Spec

\* For any number of domains and commands, whatever fails and whenever the
\* agent dies: as long as commands for one domain do not overlap, nginx serves
\* for each domain what the last successful command left.
THEOREM OutcomesAreServed ==
  ASSUME "same" \notin Overlaps
  PROVE  Spec => []OutcomeServed
<1>1. SInv => OutcomeServed
  BY DEF SInv
<1> QED
  BY <1>1, SInvInvariant, PTL

\* The types hold whatever commands overlap and fail, for any number of them.
THEOREM TypesAreKept == Spec => []TypeOK
<1>1. Init => TypeOK /\ PcOfKind
  BY SInvInit DEF SInv
<1>2. TypeOK /\ PcOfKind /\ [Next]_vars => TypeOK' /\ PcOfKind'
  BY TypeStep, PcOfKindStep
<1> QED
  BY <1>1, <1>2, PTL DEF Spec

\* A config on the disk is of a command that has begun, and stays as sound as
\* that command made it.
LEMMA ConfWrittenStep ==
  ASSUME "same" \notin Overlaps
  PROVE  VInv /\ [Next]_vars => ConfWritten'
<1> SUFFICES ASSUME VInv, [Next]_vars, NEW e \in Domains, conf'[e] \in Ops
             PROVE  pc'[conf'[e]] # "idle"
  BY DEF ConfWritten
<1>0. SInv /\ (conf[e] \in Ops => pc[conf[e]] # "idle")
  BY DEF VInv, ConfWritten
<1>1. \A o \in Ops : pc[o] # "idle" => pc'[o] # "idle"
  BY <1>0 DEF SInv, TypeOK, Next, CreateStep, DeleteStep, BeginCreate,
     BeginDelete, BeginRestart, Receive, WriteConf, RemoveStaleLink, EnableSite,
     TestConfig, DisableSite, DiscardConf, DropLink, DropConf, ReloadNginx,
     RestartService, AgentRestart, Goto, vars
<1>2. conf'[e] = conf[e] \/ \E o \in Ops : conf'[e] = o /\ pc[o] = "write"
  BY <1>0, ConstantsOK DEF SInv, TypeOK, Next, CreateStep, DeleteStep,
     BeginCreate, BeginDelete, BeginRestart, Receive, WriteConf,
     RemoveStaleLink, EnableSite, TestConfig, DisableSite, DiscardConf,
     RemoveConf, DropLink, DropConf, ReloadNginx, RestartService, AgentRestart,
     vars, disk
<1> QED
  BY <1>0, <1>1, <1>2

\* While nothing has slipped, the file behind a link is sound or its command
\* will still test it or remove the link.
LEMMA LinksVouchedStep ==
  ASSUME "same" \notin Overlaps
  PROVE  VInv /\ [Next]_vars => LinksVouched'
<1> SUFFICES ASSUME VInv, [Next]_vars, ~slipped',
                    NEW e \in Domains
             PROVE  IF last'[e] = None THEN e \notin link'
                                       ELSE Vouched(e, last[e])'
  BY DEF LinksVouched
<1> DEFINE Goal == IF last'[e] = None THEN e \notin link'
                                      ELSE Vouched(e, last[e])'
<1>0. SInv
  BY DEF VInv
<1>s. ~slipped
  BY <1>0 DEF SInv, TypeOK, Next, CreateStep, DeleteStep, BeginCreate,
     BeginDelete, BeginRestart, Receive, WriteConf, RemoveStaleLink, EnableSite,
     TestConfig, DisableSite, DiscardConf, RemoveLink, DropLink, DropConf,
     ReloadNginx, RestartService, AgentRestart, vars, disk
<1>a. last[e] = None => e \notin link
  BY <1>s DEF VInv, LinksVouched
<1>b. last[e] # None => Vouched(e, last[e])
  BY <1>s DEF VInv, LinksVouched
<1>c. conf[e] \in Ops => sound'[conf[e]] = sound[conf[e]]
  BY <1>0, KindStep DEF VInv, ConfWritten
<1>d. conf'[e] = conf[e] /\ Sound(e) => Sound(e)'
  BY <1>c DEF Sound
<1> USE DEF SInv, TypeOK
<1>1. ASSUME NEW o \in Ops, NEW d \in Domains,
             (\E s \in BOOLEAN : BeginCreate(o, d, s)) \/ BeginDelete(o, d)
      PROVE  Goal
  <2>1. /\ pc[o] = "idle"
        /\ MayBegin(d)
        /\ UNCHANGED <<conf, link>>
        /\ \E l \in {"write", "failed", "droplink"} : pc' = [pc EXCEPT ![o] = l]
        /\ last' = [last EXCEPT ![d] = o]
    BY <1>1 DEF BeginCreate, BeginDelete, Receive, disk, Goto
  <2>2. CASE e = d
    <3>1. last'[e] = o /\ pc'[o] \in {"write", "failed", "droplink"}
      BY <1>0, <2>1, <2>2
    <3>2. ASSUME last[e] # None, e \in link
          PROVE  Sound(e)
      <4>1. last[e] \in Ops /\ dom[last[e]] = e /\ IsSite(last[e])
        BY <1>0, <3>2 DEF LastIsOwn
      <4>2. pc[last[e]] \notin Busy
        BY <2>1, <2>2, <4>1, NoOverlap
      <4>3. pc[last[e]] \in Ended
        BY <1>0, <4>1, <4>2 DEF PcOfKind, IsSite, CreatePc, DeletePc
      <4> QED
        BY <1>b, <3>2, <4>3 DEF Vouched
    <3>3. e \in link' => Sound(e)'
      BY <1>a, <1>d, <2>1, <3>2
    <3> QED
      BY <3>1, <3>3, ConstantsOK DEF Vouched
  <2>3. CASE e # d
    <3>1. last'[e] = last[e]
      BY <1>0, <2>1, <2>3
    <3>2. last[e] # None => last[e] # o /\ last[e] \in Ops
      BY <1>0, <2>1, FreshIsNotLast
    <3> QED
      BY <1>0, <1>a, <1>b, <1>d, <2>1, <3>1, <3>2 DEF Vouched
  <2> QED
    BY <2>2, <2>3
<1>2. ASSUME NEW o \in Ops, BeginRestart(o)
      PROVE  Goal
  <2>1. /\ pc[o] = "idle"
        /\ UNCHANGED <<conf, link, last>>
        /\ pc' = [pc EXCEPT ![o] = "restart"]
    BY <1>2 DEF BeginRestart, Receive, disk, Goto
  <2>2. last[e] # None => last[e] # o /\ last[e] \in Ops
    BY <1>0, <2>1, FreshIsNotLast
  <2> QED
    BY <1>0, <1>a, <1>b, <1>d, <2>1, <2>2 DEF Vouched
<1>3. ASSUME NEW o \in Ops, CreateStep(o) \/ DeleteStep(o)
      PROVE  Goal
  <2>0. /\ IsSite(o)
        /\ pc[o] \in Busy
        /\ UNCHANGED <<kind, dom, sound, last, up, loaded>>
        /\ e # dom[o] => conf'[e] = conf[e] /\ (e \in link' <=> e \in link)
        /\ \A p \in Ops : p # o => pc'[p] = pc[p]
    BY <1>0, <1>3, FrameOfStep
  <2>1. CASE e # dom[o]
    <3>1. last[e] # None => last[e] # o /\ last[e] \in Ops
      BY <1>0, <2>0, <2>1, OwnFiles
    <3> QED
      BY <1>a, <1>b, <1>d, <2>0, <2>1, <3>1 DEF Vouched
  <2>2. CASE e = dom[o]
    <3>1. last[e] = o /\ HasFiles(e, o)
      BY <1>0, <2>0, <2>2, OwnFiles, ConstantsOK DEF FilesFollow
    <3>2. Vouched(e, o) /\ o # None
      BY <1>b, <3>1, ConstantsOK
    <3>3. last'[e] = o
      BY <2>0, <3>1
    <3>4. CASE WriteConf(o)
      <4>1. pc[o] = "write" /\ link' = link /\ (e \in link => Sound(e))
        BY <3>2, <3>4 DEF WriteConf, Vouched
      <4>2. \/ pc'[o] = "unlink"
            \/ pc'[o] = "failed" /\ conf'[e] \in {conf[e], Blank}
        BY <1>0, <2>2, <3>4 DEF WriteConf, Goto
      <4>3. pc'[o] = "failed" /\ e \in link => Sound(e)'
        BY <1>d, <4>1, <4>2 DEF Sound
      <4> QED
        BY <3>2, <3>3, <4>1, <4>2, <4>3 DEF Vouched, Ended
    <3>5. CASE TestConfig(o)
      <4>1. /\ UNCHANGED <<conf, link>>
            /\ \/ Valid /\ pc'[o] = "reload"
               \/ pc'[o] = "disable"
        BY <1>0, <3>5 DEF TestConfig, Goto, disk
      <4>2. Valid /\ e \in link => Sound(e)
        BY DEF Valid, Sound
      <4> QED
        BY <1>d, <3>2, <3>3, <4>1, <4>2 DEF Vouched, Ended
    <3>6. CASE RemoveStaleLink(o) \/ DisableSite(o) \/ DropLink(o)
      <4>1. e \notin link' /\ pc'[o] \in {"enable", "discard", "dropconf"}
        BY <1>0, <2>2, <3>6 DEF RemoveStaleLink, DisableSite, DropLink,
           RemoveLink, Goto
      <4> QED
        BY <3>2, <3>3, <4>1 DEF Vouched, Ended
    <3>7. CASE EnableSite(o)
      <4>1. e \notin link
        BY <3>2, <3>7 DEF EnableSite, Vouched
      <4>2. pc'[o] = "test" \/ (pc'[o] = "failed" /\ e \notin link')
        BY <1>0, <2>2, <3>7, <4>1 DEF EnableSite, Goto
      <4> QED
        BY <3>2, <3>3, <4>2 DEF Vouched, Ended
    <3>8. CASE DiscardConf(o) \/ DropConf(o)
      <4>1. e \notin link
        BY <3>2, <3>8 DEF DiscardConf, DropConf, Vouched
      <4>2. link' = link /\ pc'[o] \in {"rejected", "reload", "failed"}
        BY <1>0, <3>8 DEF DiscardConf, DropConf, Goto
      <4> QED
        BY <3>2, <3>3, <4>1, <4>2 DEF Vouched, Ended
    <3> QED
      BY <1>3, <3>4, <3>5, <3>6, <3>7, <3>8 DEF CreateStep, DeleteStep
  <2> QED
    BY <2>1, <2>2
<1>4. ASSUME NEW o \in Ops, ReloadNginx(o)
      PROVE  Goal
  <2>1. /\ UNCHANGED <<conf, link, last>>
        /\ pc[o] = "reload"
        /\ \E l \in {"ok", "failed"} : pc' = [pc EXCEPT ![o] = l]
    BY <1>4 DEF ReloadNginx, disk, cmds, Goto
  <2> QED
    BY <1>0, <1>a, <1>b, <1>d, <2>1 DEF Vouched, Ended
<1>5. ASSUME NEW o \in Ops, RestartService(o)
      PROVE  Goal
  <2>1. /\ UNCHANGED <<conf, link, last>>
        /\ pc[o] = "restart"
        /\ \E l \in {"ok", "failed"} : pc' = [pc EXCEPT ![o] = l]
    BY <1>5 DEF RestartService, disk, cmds, Goto
  <2>2. last[e] # None => last[e] # o /\ last[e] \in Ops
    BY <1>0, <2>1 DEF LastIsOwn, PcOfKind, IsSite, CreatePc, DeletePc
  <2> QED
    BY <1>0, <1>a, <1>b, <1>d, <2>1, <2>2 DEF Vouched
<1>6. CASE AgentRestart
  BY <1>6 DEF AgentRestart
<1>7. CASE UNCHANGED vars
  BY <1>a, <1>b, <1>d, <1>7 DEF vars, disk, cmds, Vouched
<1> QED
  BY <1>1, <1>2, <1>3, <1>4, <1>5, <1>6, <1>7 DEF Next

\* For any number of domains and commands, while commands for one domain do not
\* overlap: nginx accepts what is on the disk unless a command is trying a
\* config that it refuses, whatever failed, short of the three failures that
\* slip.
THEOREM OnlyTrialsAreRefused ==
  ASSUME "same" \notin Overlaps
  PROVE  Spec => []ValidUnlessTrying
<1>1. Init => VInv
  BY SInvInit, ConstantsOK DEF Init, VInv, ConfWritten, LinksVouched
<1>2. VInv /\ [Next]_vars => VInv'
  <2>1. SInv /\ [Next]_vars => SInv'
    BY TypeStep, PcOfKindStep, LastIsOwnStep, FilesFollowStep, OutcomeServedStep
    DEF SInv
  <2> QED
    BY <2>1, ConfWrittenStep, LinksVouchedStep DEF VInv
<1>3. VInv => ValidUnlessTrying
  <2> SUFFICES ASSUME VInv, \A o \in Ops : ~Trying(o), ~slipped, NEW d \in link
               PROVE  Sound(d)
    BY DEF ValidUnlessTrying, Valid, Sound
  <2> DEFINE o == last[d]
  <2>1. d \in Domains /\ o # None /\ Vouched(d, o)
    BY DEF VInv, SInv, TypeOK, LinksVouched
  <2>2. o \in Ops /\ IsSite(o) /\ pc[o] # "idle"
    BY <2>1 DEF VInv, SInv, TypeOK, LastIsOwn, IsSite, PcOfKind, CreatePc,
       DeletePc
  <2>3. CASE pc[o] \in {"unlink", "test", "disable"}
    <3>1. kind[o] = "create"
      BY <2>2, <2>3 DEF VInv, SInv, PcOfKind, IsSite, DeletePc
    <3>2. conf[d] = o
      BY <2>1, <2>3, <3>1 DEF VInv, SInv, FilesFollow, HasFiles, WrittenPc
    <3> QED
      BY <2>2, <2>3, <3>2 DEF Trying, Sound
  <2>4. CASE pc[o] \notin {"unlink", "test", "disable"}
    <3>1. pc[o] \in CreatePc \cup DeletePc
      BY <2>2 DEF VInv, SInv, PcOfKind, IsSite
    <3> QED
      BY <2>1, <2>4, <3>1 DEF Vouched, CreatePc, DeletePc, Ended
  <2> QED
    BY <2>3, <2>4
<1> QED
  BY <1>1, <1>2, <1>3, PTL DEF Spec

\* The rollback has removed the link.
Unlinked == \A o \in Ops : pc[o] = "discard" => dom[o] \notin link

\* Another domain's commands do not make it again.
LEMMA UnlinkedStep ==
  ASSUME "same" \notin Overlaps, "io" \notin Faults
  PROVE  SInv /\ Unlinked /\ [Next]_vars => Unlinked'
<1> SUFFICES ASSUME SInv, Unlinked, [Next]_vars, NEW o \in Ops,
                    pc'[o] = "discard"
             PROVE  dom'[o] \notin link'
  BY DEF Unlinked
<1> USE DEF SInv, TypeOK, Goto
<1>1. ASSUME NEW p \in Ops, NEW d \in Domains,
             (\E s \in BOOLEAN : BeginCreate(p, d, s)) \/ BeginDelete(p, d)
      PROVE  dom'[o] \notin link'
  BY <1>1 DEF BeginCreate, BeginDelete, Receive, Unlinked, disk
<1>2. ASSUME NEW p \in Ops, BeginRestart(p)
      PROVE  dom'[o] \notin link'
  BY <1>2 DEF BeginRestart, Receive, Unlinked, disk
<1>3. ASSUME NEW p \in Ops, CreateStep(p) \/ DeleteStep(p)
      PROVE  dom'[o] \notin link'
  <2>1. /\ IsSite(p) /\ pc[p] \in Busy /\ dom' = dom
        /\ \A e \in Domains : e # dom[p] => (e \in link' <=> e \in link)
    BY <1>3, FrameOfStep
  <2>2. CASE o = p
    BY <1>3, <2>2 DEF CreateStep, DeleteStep, WriteConf, RemoveStaleLink,
       EnableSite, TestConfig, DisableSite, DiscardConf, RemoveLink, DropLink,
       DropConf, cmds
  <2>3. CASE o # p
    <3>1. pc[o] = "discard"
      BY <1>3, <2>3 DEF CreateStep, DeleteStep, WriteConf, RemoveStaleLink,
         EnableSite, TestConfig, DisableSite, DiscardConf, DropLink, DropConf
    <3>2. IsSite(o) /\ pc[o] \in Busy
      BY <3>1 DEF PcOfKind, IsSite, Busy
    <3>3. dom[o] \in Domains /\ dom[o] # dom[p]
      BY <2>1, <2>3, <3>2 DEF LastIsOwn, PcOfKind
    <3> QED
      BY <2>1, <3>1, <3>3 DEF Unlinked
  <2> QED
    BY <2>2, <2>3
<1>4. ASSUME NEW p \in Ops, ReloadNginx(p) \/ RestartService(p)
      PROVE  dom'[o] \notin link'
  BY <1>4 DEF ReloadNginx, RestartService, Unlinked, disk, cmds
<1>5. CASE AgentRestart
  BY <1>5 DEF AgentRestart, Unlinked, cmds
<1>6. CASE UNCHANGED vars
  BY <1>6 DEF vars, disk, cmds, Unlinked
<1> QED
  BY <1>1, <1>2, <1>3, <1>4, <1>5, <1>6 DEF Next

\* For any number of domains and commands, while commands for one domain do not
\* overlap and no file operation fails: the rollback of a create leaves no file
\* of its domain, whatever other commands do meanwhile.  A refused create of a
\* new vhost is undone; a refused change of one removes it, as run
\* vhosts_rollback shows.
THEOREM RollbackOnlyErases ==
  ASSUME "same" \notin Overlaps, "io" \notin Faults
  PROVE  Spec => RollbackErases
<1>1. ASSUME SInv, Unlinked, [Next]_vars, NEW o \in Ops, pc[o] = "discard",
             pc'[o] = "rejected"
      PROVE  OnDisk(dom[o])' = <<None, {}>>
  <2>1. DiscardConf(o)
    <3> USE <1>1 DEF SInv, TypeOK, Goto
    <3>1. ASSUME NEW p \in Ops, NEW d \in Domains,
                 \/ \E s \in BOOLEAN : BeginCreate(p, d, s)
                 \/ BeginDelete(p, d)
          PROVE  FALSE
      BY <3>1 DEF BeginCreate, BeginDelete, Receive
    <3>2. ASSUME NEW p \in Ops, CreateStep(p) \/ DeleteStep(p)
          PROVE  DiscardConf(o)
      <4>1. p = o
        BY <3>2, FrameOfStep
      <4> QED
        BY <3>2, <4>1 DEF CreateStep, DeleteStep, WriteConf, RemoveStaleLink,
           EnableSite, TestConfig, DisableSite, DropLink, DropConf
    <3>3. ASSUME NEW p \in Ops, ReloadNginx(p) \/ RestartService(p)
          PROVE  FALSE
      BY <3>3 DEF ReloadNginx, RestartService
    <3>4. ~AgentRestart /\ ~(UNCHANGED vars)
      BY DEF AgentRestart, vars
    <3>5. ASSUME NEW p \in Ops, BeginRestart(p)
          PROVE  FALSE
      BY <3>5 DEF BeginRestart, Receive
    <3> QED
      BY <3>1, <3>2, <3>3, <3>4, <3>5 DEF Next
  <2>2. dom[o] \in Domains
    BY <1>1 DEF SInv, TypeOK, PcOfKind, IsSite, DeletePc
  <2>3. conf' = [conf EXCEPT ![dom[o]] = None] /\ link' = link /\ dom' = dom
    BY <2>1 DEF DiscardConf, RemoveConf, cmds
  <2>4. conf'[dom[o]] = None
    BY <1>1, <2>2, <2>3 DEF SInv, TypeOK
  <2>5. link \cap {dom[o]} = {}
    BY <1>1 DEF Unlinked
  <2> QED
    BY <2>3, <2>4, <2>5 DEF OnDisk
<1>2. Init => Unlinked
  BY DEF Init, Unlinked
<1>3. SInv /\ Unlinked /\ [Next]_vars =>
        [\A o \in Ops :
           pc[o] = "discard" /\ pc'[o] = "rejected" =>
             OnDisk(dom[o])' = <<None, {}>>]_vars
  BY <1>1
<1> QED
  BY <1>2, <1>3, SInvInvariant, UnlinkedStep, PTL DEF Spec, RollbackErases
=============================================================================
