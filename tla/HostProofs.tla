------------------------------ MODULE HostProofs ------------------------------
(***************************************************************************)
(* What a host promises of its databases, its accounts, its zones and its  *)
(* mail, whatever commands of every kind it receives: the invariants of    *)
(* CommandsProofs and MailProofs are kept by every step of Host.           *)
(***************************************************************************)
EXTENDS Host, CommandsProofs, MailProofs

OtherLabels == DnsLabels \cup MailLabels

\* The state of mail apart from which tables exist.
post == <<id, nextid, boxes, aliases, dirs, found, dkim>>

\* Every other command stays as it is, or is over.
Turn(o) ==
  /\ pc' = [p \in Ops |-> pc'[p]]
  /\ undone' \subseteq {p \in Ops : Busy(p)'}
  /\ \A p \in Ops \ {o} :
       Stays(p) \/ (pc'[p] = "over" /\ cmd'[p] = Nothing /\ ~Busy(p))

\* A turn of a command that is not of the module leaves its commands aside.
LEMMA TurnAside ==
  ASSUME NEW o \in Ops, Turn(o)
  PROVE  /\ UNCHANGED sql /\ DbForeign(o) => DbAside
         /\ UNCHANGED accounts /\ AccForeign(o) => AccAside
         /\ UNCHANGED dns /\ DnsForeign(o) => DnsAside
         /\ UNCHANGED post /\ DkimTypeOK /\ MailForeign(o) /\ ~Writing(o)
              => MailAside
<1>1. /\ UNCHANGED sql /\ DbForeign(o) => DbAside
      /\ UNCHANGED accounts /\ AccForeign(o) => AccAside
  BY DEF Turn, DbAside, AccAside, DbForeign, AccForeign, DbLabels, CreateLabels,
         DropLabels, AccLabels, AddLabels, IsDb, IsAccount, Nothing
<1>2. UNCHANGED post /\ DkimTypeOK /\ MailForeign(o) /\ ~Writing(o) => MailAside
  BY DEF Turn, MailAside, MailForeign, MailLabels, IsMail, IsBox, IsAlias, IsDomain,
         Nothing, Writing, Busy, DkimTypeOK, post, dkim, lines
<1>3. UNCHANGED dns /\ DnsForeign(o) => DnsAside
  BY DEF Turn, DnsAside, DnsForeign, DnsLabels, IsDns, Nothing
<1> QED
  BY <1>1, <1>2, <1>3

\* A DNS command arrives.
LEMMA DnsArrives ==
  ASSUME NEW o \in Ops, NEW c, IsDns(c), BeginDns(o, c), DbPcs
  PROVE  Turn(o) /\ pc'[o] \in DnsLabels /\ cmd'[o] = c
<1> DEFINE l == IF c.kind = "createzone" THEN "postzone" ELSE c.kind
<1>1. DnsBegun(o, c, l)
  BY DnsBegins
<1>2. l \in DnsLabels
  BY DEF IsDns, DnsLabels
<1> HIDE DEF l
<1>3. Turn(o)
  BY <1>1, <1>2 DEF DnsBegun, Turn, Stays, Busy, DbPcs, DnsLabels
<1> QED
  BY <1>1, <1>2, <1>3 DEF DnsBegun

\* A command of mail arrives.
LEMMA MailArrives ==
  ASSUME NEW o \in Ops, NEW c, DbPcs,
         \/ (IsBox(c) \/ IsAlias(c)) /\ BeginMail(o, c)
         \/ IsDomain(c) /\ BeginDomain(o, c)
  PROVE  Turn(o) /\ pc'[o] \in MailLabels /\ cmd'[o] = c
<1>1. PICK l \in MailLabels : Arrived(o, c, l)
  <2>1. CASE (IsBox(c) \/ IsAlias(c)) /\ BeginMail(o, c)
    <3>1. MailEntry(c) \in MailLabels
      BY <2>1 DEF MailEntry, MailLabels, IsBox, IsAlias
    <3> QED
      BY <2>1, <3>1, MailBegun
  <2>2. CASE IsDomain(c) /\ BeginDomain(o, c)
    <3> DEFINE l == IF c.kind = "createdomain" THEN "insertdomain" ELSE "rmkey"
    <3>1. Arrived(o, c, l)
      BY <2>2, DomainBegun
    <3>2. l \in MailLabels
      BY DEF MailLabels
    <3> HIDE DEF l
    <3> QED
      BY <3>1, <3>2
  <2> QED
    BY <2>1, <2>2
<1>2. /\ pc' = [p \in Ops |-> pc'[p]] /\ pc'[o] = l /\ cmd'[o] = c
      /\ \A p \in Ops \ {o} :
           \/ pc'[p] = "over" /\ cmd'[p] = Nothing /\ ~Busy(p)
           \/ Stays(p)
      /\ undone' \subseteq undone \cup {p \in Ops : Busy(p)} \cup {o}
  BY <1>1 DEF Arrived, Stays, Busy
<1>3. undone' \subseteq {p \in Ops : Busy(p)'}
  BY <1>2 DEF DbPcs, Busy, Stays, MailLabels
<1> QED
  BY <1>2, <1>3 DEF Turn

-----------------------------------------------------------------------------
\* A command stays among the steps of its module: requests to PowerDNS.
LEMMA DnsMoves ==
  ASSUME NEW o \in Ops, DnsStep(o)
  PROVE  pc[o] \in DnsLabels /\ \E l \in DnsLabels \cup {"ok"} : Moves(o, l)
<1> USE DEF DnsLabels, Try, Fail, Goto, Moves
<1>1. CASE PostZone(o)
  BY <1>1 DEF PostZone
<1>2. CASE UpsertRecords(o)
  BY <1>2 DEF UpsertRecords
<1>3. CASE DeleteRecord(o)
  BY <1>3 DEF DeleteRecord
<1>4. CASE DeleteZone(o)
  BY <1>4 DEF DeleteZone
<1> QED
  BY <1>1, <1>2, <1>3, <1>4 DEF DnsStep

\* Statements and directories of mail.
LEMMA MailMoves ==
  ASSUME NEW o \in Ops, MailStep(o)
  PROVE  /\ pc[o] \in MailLabels /\ schema' = schema
         /\ \E l \in MailLabels \cup {"ok"} : Moves(o, l)
<1> USE DEF MailLabels, Try, Fail, Goto, Moves, rows, mail
<1>1. CASE FindDomain(o)
  BY <1>1 DEF FindDomain
<1>2. CASE InsertBox(o)
  BY <1>2 DEF InsertBox, Statement
<1>3. CASE MakeMaildir(o)
  BY <1>3 DEF MakeMaildir
<1>4. CASE DropBox(o)
  BY <1>4 DEF DropBox, Statement
<1>5. CASE PurgeBox(o)
  BY <1>5 DEF PurgeBox
<1>6. CASE InsertAlias(o)
  BY <1>6 DEF InsertAlias, Statement
<1>7. CASE DropAlias(o)
  BY <1>7 DEF DropAlias, Statement
<1>8. CASE DeleteDomain(o)
  BY <1>8 DEF DeleteDomain, Statement
<1>9. CASE PurgeDomain(o)
  BY <1>9 DEF PurgeDomain
<1> QED
  BY <1>1, <1>2, <1>3, <1>4, <1>5, <1>6, <1>7, <1>8, <1>9 DEF MailStep

\* The keys and tables of OpenDKIM.
LEMMA DomainMoves ==
  ASSUME NEW o \in Ops, DomainStep(o)
  PROVE  /\ pc[o] \in MailLabels /\ schema' = schema
         /\ \E l \in MailLabels \cup {"ok"} : Moves(o, l)
<1> USE DEF MailLabels, Try, Fail, Goto, Moves, rows, mail
<1>1. CASE AddDomain(o)
  BY <1>1 DEF AddDomain, InsertDomain, MakeDomainDir, Statement
<1>2. CASE GenerateKey(o)
  BY <1>2 DEF GenerateKey
<1>3. CASE AddEntry(o)
  BY <1>3 DEF AddEntry
<1>4. CASE AddEntryFails(o)
  BY <1>4 DEF AddEntryFails
<1>5. CASE RemoveKey(o)
  BY <1>5 DEF RemoveKey
<1>6. CASE ReadTable(o)
  BY <1>6 DEF ReadTable
<1>7. CASE WriteTable(o)
  BY <1>7 DEF WriteTable
<1>10. CASE OpenTable(o)
  BY <1>10 DEF OpenTable
<1>8. CASE RemovalSkipped(o)
  BY <1>8 DEF RemovalSkipped
<1>9. CASE RemovalTorn(o)
  BY <1>9 DEF RemovalTorn
<1> QED
  BY <1>1, <1>2, <1>3, <1>4, <1>5, <1>6, <1>7, <1>8, <1>9, <1>10 DEF DomainStep

\* Statements on databases.
LEMMA DbMoves ==
  ASSUME NEW o \in Ops, DbStep(o)
  PROVE  pc[o] \in DbLabels /\ \E l \in DbLabels \cup {"ok"} : Moves(o, l)
<1> USE DEF DbLabels, CreateLabels, DropLabels, Try, Fail, Goto, Moves
<1>1. CASE CreateDatabase(o)
  BY <1>1 DEF CreateDatabase
<1>2. CASE CreateUser(o)
  BY <1>2 DEF CreateUser
<1>3. CASE Grant(o)
  BY <1>3 DEF Grant
<1>4. CASE DropDatabase(o)
  BY <1>4 DEF DropDatabase
<1>5. CASE DropUser(o)
  BY <1>5 DEF DropUser
<1>6. CASE FlushPrivileges(o)
  BY <1>6 DEF FlushPrivileges
<1> QED
  BY <1>1, <1>2, <1>3, <1>4, <1>5, <1>6 DEF DbStep

\* useradd, setquota and userdel.
LEMMA AccountMoves ==
  ASSUME NEW o \in Ops, AccountStep(o)
  PROVE  pc[o] \in AccLabels /\ \E l \in AccLabels \cup {"ok"} : Moves(o, l)
<1> USE DEF AccLabels, AddLabels, Goto, Moves
<1>1. CASE UserAdd(o)
  BY <1>1 DEF UserAdd
<1>2. CASE SetQuota(o)
  BY <1>2 DEF SetQuota
<1>3. CASE UserDel(o)
  BY <1>3 DEF UserDel
<1> QED
  BY <1>1, <1>2, <1>3 DEF AccountStep

\* A step in which one command moves is a turn of that command.
LEMMA MovesTurn ==
  ASSUME NEW o \in Ops, NEW l, Moves(o, l), Busy(o), l \notin {"idle", "over"},
         pc = [p \in Ops |-> pc[p]], undone \subseteq {p \in Ops : Busy(p)}
  PROVE  /\ Turn(o)
         /\ \/ pc'[o] = "over" /\ cmd'[o] = Nothing
            \/ pc'[o] = l /\ cmd'[o] = cmd[o]
<1>1. /\ Own(o, l) /\ \A p \in Ops \ {o} : Same(p)
      /\ pc' = [p \in Ops |-> pc'[p]]
      /\ Over(o) => pc'[o] = "over" /\ cmd'[o] = Nothing /\ o \notin undone'
      /\ ~Over(o) => /\ pc'[o] = l /\ cmd'[o] = cmd[o]
                     /\ l # "ok" \/ o \notin undone'
  BY MovesFrame
<1>2. undone' \subseteq Ops
  BY DEF Moves, Over, Forget
<1>3. undone' \subseteq {p \in Ops : Busy(p)'}
  BY <1>1, <1>2 DEF Same, Busy
<1> QED
  BY <1>1, <1>3 DEF Turn, Same, Stays

-----------------------------------------------------------------------------
\* What a start chooses from.
Chosen ==
  /\ mix \in Mixes
  /\ managers \subseteq {"db", "dns", "email"}
  /\ schema \in 0..Complete

HostInv == Chosen /\ DbInv /\ AccInv /\ DnsInv /\ MailInv

\* The kinds are apart.
LEMMA Kinds ==
  ASSUME NEW c
  PROVE  /\ IsDns(c) => ~IsDb(c) /\ ~IsAccount(c) /\ ~IsMail(c)
         /\ IsMail(c) => ~IsDb(c) /\ ~IsAccount(c)
         /\ IsDb(c) => ~IsAccount(c) /\ ~IsMail(c)
         /\ IsAccount(c) => ~IsMail(c)
  BY DEF IsDns, IsMail, IsBox, IsAlias, IsDomain, IsDb, IsAccount

\* No label belongs to two modules.
LEMMA Labels ==
  /\ \A l \in DnsLabels \cup MailLabels :
       l \notin DbLabels \cup AccLabels \cup {"idle", "ok", "over"}
  /\ \A l \in DnsLabels : l \notin MailLabels
  /\ \A l \in DbLabels : l \notin AccLabels \cup {"idle", "ok", "over"}
  /\ \A l \in AccLabels : l \notin {"idle", "ok", "over"}
  BY DEF DnsLabels, MailLabels, DbLabels, CreateLabels, DropLabels, AccLabels,
         AddLabels

\* A start makes what it chooses.
LEMMA BegunAs ==
  ASSUME NEW s \in 0..Complete, NEW m, NEW r \in Begun(s, m)
  PROVE  r.managers \subseteq {"db", "email"} /\ r.schema \in 0..Complete
<1>1. \A q \in Started(s) :
        q.managers \subseteq {"db", "email"} /\ q.schema \in 0..Complete
  BY DEF Started, Complete
<1>2. PICK q \in Started(s) :
        r = [managers |-> q.managers \cap Needed(m),
             schema   |-> IF "email" \in Needed(m) THEN q.schema ELSE s]
  BY DEF Begun
<1> QED
  BY <1>1, <1>2

\* A host that starts has made no promise.
LEMMA HostInvInit == Init => HostInv
<1> SUFFICES ASSUME Init PROVE HostInv
  OBVIOUS
<1>1. DbInv /\ AccInv /\ DnsInv /\ MailInv
  BY DbInvInit, AccInvInit, DnsInvInit, MailInvInit DEF Init
<1>2. Chosen
  <2>1. PICK r \in Begun(0, mix), d \in {{}, {"dns"} \cap Needed(mix)} :
          managers = r.managers \cup d /\ schema = r.schema
    BY DEF Init
  <2>2. r.managers \subseteq {"db", "email"} /\ r.schema \in 0..Complete
    BY BegunAs DEF Complete
  <2> QED
    BY <2>1, <2>2 DEF Init, Chosen
<1> QED
  BY <1>1, <1>2 DEF HostInv

\* A command arrives, or is refused.
LEMMA DispatchKeeps ==
  ASSUME HostInv, NEW o \in Ops, Dispatch(o)
  PROVE  HostInv'
<1> USE DEF HostInv
<1>1. /\ DbPcs /\ UNCHANGED <<managers, mix>> /\ mix \in Mixes
      /\ DkimTypeOK /\ ~Writing(o)
  BY DEF DbInv, Dispatch, Chosen, MailInv, Begin, BeginDb, BeginDns, BeginAccount,
         BeginDomain, BeginMail, Arrive, Refuse, Writing
<1>2. PICK c \in mix.commands :
        \/ Manager(c) \in managers \cup {"none"} /\ Begin(o, c)
        \/ Manager(c) \notin managers \cup {"none"} /\ Refuse(o) /\ UNCHANGED stores
  BY DEF Dispatch
<1>3. CASE Refuse(o) /\ UNCHANGED stores
  <2>1. /\ Turn(o) /\ pc'[o] = "over" /\ cmd'[o] = Nothing
        /\ UNCHANGED <<sql, accounts, dns, schema, post>>
    BY <1>1, <1>3 DEF Refuse, Over, Forget, Turn, Stays, Busy, DbPcs, stores, mail,
                      rows, post
  <2>2. DbAside /\ AccAside
    BY <2>1, TurnAside DEF DbForeign, AccForeign, DbLabels, CreateLabels, DropLabels,
                           AccLabels, AddLabels, IsDb, IsAccount, Nothing
  <2>3. MailAside
    BY <1>1, <2>1, TurnAside DEF MailForeign, MailLabels, IsMail, IsBox, IsAlias, IsDomain,
                           Nothing
  <2>4. DnsAside
    BY <2>1, TurnAside DEF DnsForeign, DnsLabels, IsDns, Nothing
  <2>5. Chosen'
    BY <1>1, <2>1 DEF Chosen
  <2> QED
    BY <2>2, <2>3, <2>4, <2>5, DbInvAside, AccInvAside, DnsInvAside, MailInvAside
<1>4. CASE IsDb(c) /\ BeginDb(o, c) /\ UNCHANGED <<dns, accounts, mail, dkim>>
  <2>1. c \in DbCommand /\ IsDb(c)
    BY <1>1, <1>4, MixesOK
  <2>2. DbInv'
    BY <1>4, <2>1, DbInvBegin
  <2>3. /\ pc' = [p \in Ops |-> pc'[p]]
        /\ pc'[o] = c.kind /\ cmd'[o] = Taken(c)
        /\ \A p \in Ops \ {o} :
             \/ pc[p] = "ok" /\ pc'[p] = "over" /\ cmd'[p] = Nothing
             \/ pc'[p] = pc[p] /\ cmd'[p] = cmd[p]
                /\ (p \in undone => p \in undone')
                /\ (p \in raced => p \in raced')
    BY <1>4, <2>1, BeginDbFrame
  <2>4. Turn(o)
    BY <2>2, <2>3 DEF Turn, Stays, Busy, DbInv, DbPcs
  <2>5. pc'[o] \in DbLabels /\ IsDb(cmd'[o])
    BY <2>1, <2>3 DEF IsDb, Taken, DbLabels, CreateLabels, DropLabels
  <2>6. AccAside
    BY <1>4, <2>4, <2>5, TurnAside, Labels, Kinds DEF AccForeign
  <2>7. Chosen'
    BY <1>1, <1>4 DEF mail, rows, Chosen
  <2>8. MailAside
    BY <1>1, <1>4, <2>4, <2>5, TurnAside, Labels, Kinds
       DEF MailForeign, mail, rows, post
  <2>9. DnsAside
    BY <1>4, <2>4, <2>5, TurnAside, Labels, Kinds DEF DnsForeign
  <2> QED
    BY <2>2, <2>6, <2>7, <2>8, <2>9, AccInvAside, DnsInvAside, MailInvAside
<1>5. CASE IsAccount(c) /\ BeginAccount(o, c) /\ UNCHANGED <<sql, dns, mail, dkim>>
  <2>1. c \in AccountCommand /\ IsAccount(c)
    BY <1>1, <1>5, MixesOK
  <2>2. AccInv'
    BY <1>5, <2>1, AccInvBegin
  <2>3. /\ pc' = [p \in Ops |-> pc'[p]]
        /\ pc'[o] = c.kind /\ cmd'[o] = AsBegun(c)
        /\ \A p \in Ops \ {o} :
             \/ pc[p] = "ok" /\ pc'[p] = "over" /\ cmd'[p] = Nothing
             \/ pc'[p] = pc[p] /\ cmd'[p] = cmd[p]
                /\ (p \in undone => p \in undone')
                /\ (p \in raced => p \in raced')
    BY <1>5, <2>1, BeginAccountFrame
  <2>4. Turn(o)
    BY <2>2, <2>3 DEF Turn, Stays, Busy, AccInv, AccPcs
  <2>5. pc'[o] \in AccLabels /\ IsAccount(cmd'[o])
    <3>1. AsBegun(c).kind = c.kind
      BY <2>1 DEF IsAccount, AsBegun
    <3> QED
      BY <2>1, <2>3, <3>1 DEF IsAccount, AccLabels, AddLabels
  <2>6. DbAside
    BY <1>5, <2>4, <2>5, TurnAside, Labels, Kinds DEF DbForeign
  <2>7. Chosen'
    BY <1>1, <1>5 DEF mail, rows, Chosen
  <2>8. MailAside
    BY <1>1, <1>5, <2>4, <2>5, TurnAside, Labels, Kinds
       DEF MailForeign, mail, rows, post
  <2>9. DnsAside
    BY <1>5, <2>4, <2>5, TurnAside, Labels, Kinds DEF DnsForeign
  <2> QED
    BY <2>2, <2>6, <2>7, <2>8, <2>9, DbInvAside, DnsInvAside, MailInvAside
<1>6. ASSUME Turn(o), pc'[o] \in OtherLabels, cmd'[o] = c,
             IsDns(c) \/ IsMail(c), UNCHANGED <<sql, accounts, schema>>
      PROVE  DbInv' /\ AccInv' /\ Chosen'
  <2>1. DbAside /\ AccAside
    BY <1>6, TurnAside, Labels, Kinds DEF DbForeign, AccForeign, OtherLabels
  <2>2. Chosen'
    BY <1>1, <1>6 DEF Chosen
  <2> QED
    BY <2>1, <2>2, DbInvAside, AccInvAside
<1>7. CASE IsDns(c) /\ BeginDns(o, c) /\ UNCHANGED <<sql, accounts, mail, dkim>>
  <2>1. Turn(o) /\ pc'[o] \in DnsLabels /\ cmd'[o] = c /\ ~IsMail(c)
    BY <1>1, <1>7, DnsArrives, Kinds
  <2>2. MailAside
    BY <1>1, <1>7, <2>1, TurnAside, Labels DEF MailForeign, mail, rows, post
  <2>3. DnsSent(c)
    BY <1>1, <1>7, MixesOK
  <2>4. DnsInv'
    BY <1>7, <2>3, DnsInvBegin
  <2> QED
    BY <1>6, <1>7, <2>1, <2>2, <2>4, MailInvAside DEF OtherLabels, mail, rows
<1>8. CASE /\ IsMail(c)
           /\ \/ (IsBox(c) \/ IsAlias(c)) /\ BeginMail(o, c)
              \/ IsDomain(c) /\ BeginDomain(o, c)
           /\ UNCHANGED <<sql, dns, accounts>>
  <2>2. UNCHANGED schema
    BY <1>8, Zenon DEF BeginMail, BeginDomain, mail, rows
  <2>3. MailInv'
    <3>1. /\ IsBox(c) \/ IsAlias(c) => c.at \in Addresses
          /\ IsDomain(c) => c.domain \in Domains
      BY <1>1, MixesOK
    <3> QED
      BY <1>8, <3>1, MailInvBegin
  <2>4. Turn(o) /\ pc'[o] \in MailLabels /\ cmd'[o] = c
    BY <1>1, <1>8, MailArrives
  <2>5. DnsAside
    BY <1>8, <2>4, TurnAside, Labels, Kinds DEF DnsForeign
  <2> QED
    BY <1>6, <1>8, <2>2, <2>3, <2>4, <2>5, DnsInvAside DEF OtherLabels
<1> QED
  BY <1>2, <1>3, <1>4, <1>5, <1>7, <1>8 DEF Begin, IsMail

\* A command takes a step.
LEMMA StepKeeps ==
  ASSUME HostInv, NEW o \in Ops, Step(o)
  PROVE  HostInv'
<1> USE DEF HostInv
<1>1. UNCHANGED <<managers, mix>> /\ pc = [p \in Ops |-> pc[p]]
      /\ undone \subseteq {p \in Ops : Busy(p)}
  BY DEF DbInv, DbPcs, Step
<1>2. ASSUME NEW L \in {DbLabels, AccLabels, DnsLabels, MailLabels},
             NEW l \in L \cup {"ok"}, pc[o] \in L, Moves(o, l), UNCHANGED schema
      PROVE  /\ Chosen'
             /\ L # DbLabels /\ UNCHANGED sql => DbInv'
             /\ L # AccLabels /\ UNCHANGED accounts => AccInv'
             /\ L # DnsLabels /\ UNCHANGED dns => DnsInv'
             /\ L # MailLabels /\ UNCHANGED post => MailInv'
  <2>1. Busy(o) /\ l \notin {"idle", "over"}
    BY <1>2, Labels DEF Busy
  <2>2. /\ Turn(o)
        /\ \/ pc'[o] = "over" /\ cmd'[o] = Nothing
           \/ pc'[o] = l /\ cmd'[o] = cmd[o]
    BY <1>1, <1>2, <2>1, MovesTurn
  <2>4. ASSUME L # DbLabels, UNCHANGED sql
        PROVE  DbInv'
    <3>1. pc[o] \notin DbLabels /\ l \notin DbLabels
      BY <1>2, <2>4, Labels DEF DbLabels, CreateLabels, DropLabels
    <3>2. ~IsDb(cmd[o])
      BY <2>1, <3>1 DEF DbInv, DbPcs, DbLabels, Busy
    <3>3. DbForeign(o)
      BY <2>2, <3>1, <3>2 DEF DbForeign, IsDb, Nothing, DbLabels, CreateLabels,
                              DropLabels
    <3> QED
      BY <2>2, <2>4, <3>3, TurnAside, DbInvAside
  <2>5. ASSUME L # AccLabels, UNCHANGED accounts
        PROVE  AccInv'
    <3>1. pc[o] \notin AccLabels /\ l \notin AccLabels
      BY <1>2, <2>5, Labels DEF AccLabels, AddLabels
    <3>2. ~IsAccount(cmd[o])
      BY <2>1, <3>1 DEF AccInv, AccPcs, AccLabels, Busy
    <3>3. AccForeign(o)
      BY <2>2, <3>1, <3>2 DEF AccForeign, IsAccount, Nothing, AccLabels, AddLabels
    <3> QED
      BY <2>2, <2>5, <3>3, TurnAside, AccInvAside
  <2>6. ASSUME L # MailLabels, UNCHANGED post
        PROVE  MailInv'
    <3>1. pc[o] \notin MailLabels /\ l \notin MailLabels
      BY <1>2, <2>6, Labels DEF MailLabels
    <3>2. ~IsMail(cmd[o])
      BY <2>1, <3>1 DEF MailInv, MailPcs, MailLabels, Busy, Placed, IsMail, IsBox,
                        IsAlias, IsDomain
    <3>3. MailForeign(o)
      BY <2>2, <3>1, <3>2 DEF MailForeign, IsMail, IsBox, IsAlias, IsDomain, Nothing,
                              MailLabels
    <3> QED
      BY <2>2, <2>6, <3>1, <3>3, TurnAside, MailInvAside
         DEF MailInv, Writing, MailLabels
  <2>7. ASSUME L # DnsLabels, UNCHANGED dns
        PROVE  DnsInv'
    <3>1. pc[o] \notin DnsLabels /\ l \notin DnsLabels
      BY <1>2, <2>7, Labels DEF DnsLabels
    <3>2. ~IsDns(cmd[o])
      BY <2>1, <3>1 DEF DnsInv, DnsPcs, DnsPlaced, DnsLabels, Busy, IsDns
    <3>3. DnsForeign(o)
      BY <2>2, <3>1, <3>2 DEF DnsForeign, IsDns, Nothing, DnsLabels
    <3> QED
      BY <2>2, <2>7, <3>3, TurnAside, DnsInvAside
  <2>8. Chosen'
    BY <1>1, <1>2 DEF Chosen
  <2> QED
    BY <2>4, <2>5, <2>6, <2>7, <2>8
<1>3. /\ DbLabels \notin {AccLabels, DnsLabels, MailLabels}
      /\ AccLabels \notin {DnsLabels, MailLabels} /\ DnsLabels # MailLabels
  <2>1. "createdb" \in DbLabels /\ "useradd" \in AccLabels /\ "upsert" \in DnsLabels
    BY DEF DbLabels, CreateLabels, AccLabels, AddLabels, DnsLabels
  <2> QED
    BY <2>1, Labels
<1>4. CASE DbStep(o) /\ UNCHANGED <<dns, accounts, mail, dkim>>
  BY <1>1, <1>2, <1>3, <1>4, DbMoves, DbInvStep DEF mail, rows, post
<1>5. CASE AccountStep(o) /\ UNCHANGED <<sql, dns, mail, dkim>>
  BY <1>1, <1>2, <1>3, <1>5, AccountMoves, AccInvStep DEF mail, rows, post
<1>6. CASE DnsStep(o) /\ UNCHANGED <<sql, accounts, mail, dkim>>
  BY <1>1, <1>2, <1>3, <1>6, DnsMoves, DnsInvStep DEF mail, rows, post
<1>7. CASE MailStep(o) /\ UNCHANGED <<sql, dns, accounts, dkim>>
  BY <1>1, <1>2, <1>3, <1>7, MailMoves, MailInvStep
<1>8. CASE DomainStep(o) /\ UNCHANGED <<sql, dns, accounts>>
  BY <1>1, <1>2, <1>3, <1>8, DomainMoves, DomainInvStep
<1> QED
  BY <1>4, <1>5, <1>6, <1>7, <1>8 DEF Step

\* The agent restarts.
LEMMA RestartKeeps ==
  ASSUME HostInv, AgentRestart
  PROVE  HostInv'
<1> USE DEF HostInv
<1>1. /\ pc' = [o \in Ops |-> pc'[o]] /\ undone' \subseteq {o \in Ops : Busy(o)'}
      /\ \A o \in Ops : ~Busy(o)' /\
           (Stays(o) \/ (pc'[o] = "over" /\ cmd'[o] = Nothing))
      /\ UNCHANGED <<sql, accounts, dns, id, nextid, boxes, aliases, dirs, found>>
      /\ UNCHANGED <<key, tables, kept, skipped, crossed>>
  BY DEF AgentRestart, WritesLost, AllLost, Forget, Busy, Stays, DbInv, DbPcs
<1>2. DbAside
  BY <1>1 DEF DbAside, DbForeign, IsDb, Nothing, DbLabels, CreateLabels, DropLabels
<1>3. AccAside
  BY <1>1 DEF AccAside, AccForeign, IsAccount, Nothing, AccLabels, AddLabels
<1>4. MailAside
  <2>1. torn \in BOOLEAN /\ torn' = (torn \/ \E o \in Ops : Writing(o))
    BY DEF AgentRestart, WritesLost, MailInv, DkimTypeOK
  <2>2. torn' \in BOOLEAN /\ (torn => torn') /\ \A o \in Ops : Writing(o) => torn'
    BY <2>1, Zenon
  <2> QED
    BY <1>1, <2>2 DEF MailAside, MailForeign, MailLabels, IsMail, IsBox, IsAlias,
                      IsDomain, Nothing
<1>5. DnsAside
  BY <1>1 DEF DnsAside, DnsForeign, IsDns, Nothing, DnsLabels
<1>6. Chosen'
  <2>1. PICK r \in Begun(schema, mix) :
          /\ managers' = r.managers \cup (managers \cap {"dns"})
          /\ schema' = r.schema
    BY DEF AgentRestart
  <2>2. r.managers \subseteq {"db", "email"} /\ r.schema \in 0..Complete
    BY BegunAs DEF Chosen
  <2> QED
    BY <2>1, <2>2 DEF Chosen, AgentRestart
<1> QED
  BY <1>2, <1>3, <1>4, <1>5, <1>6, DbInvAside, AccInvAside, DnsInvAside, MailInvAside

\* Every step keeps the invariant.
LEMMA HostInvNext == HostInv /\ [Next]_vars => HostInv'
<1> SUFFICES ASSUME HostInv, [Next]_vars PROVE HostInv'
  OBVIOUS
<1>1. CASE UNCHANGED vars
  <2>1. DbAside /\ AccAside
    BY <1>1 DEF vars, goroutines, stores, DbAside, AccAside, Stays, HostInv, DbInv,
                DbPcs, Busy
  <2>2. MailAside
    BY <1>1 DEF vars, goroutines, stores, mail, rows, dkim, lines, MailAside, Stays,
                HostInv, MailInv, MailPcs, Busy, DkimTypeOK
  <2>3. DnsAside
    BY <1>1 DEF vars, goroutines, stores, DnsAside, Stays, HostInv, DnsInv, DnsPcs,
                Busy
  <2>4. Chosen'
    BY <1>1 DEF vars, goroutines, stores, mail, rows, HostInv, Chosen
  <2> QED
    BY <2>1, <2>2, <2>3, <2>4, DbInvAside, AccInvAside, DnsInvAside, MailInvAside
       DEF HostInv
<1> QED
  BY <1>1, DispatchKeeps, StepKeeps, RestartKeeps DEF Next

\* The invariant of a host.
THEOREM HostInvHolds == Spec => []HostInv
  BY HostInvInit, HostInvNext, PTL DEF Spec

-----------------------------------------------------------------------------
\* handleCreateDatabase, handleDeleteDatabase (dispatch.go) over mariadb.go: a
\* create that reported success and that no drop may have undone has its
\* database, its user and its grant, whatever other creates, drops, failures,
\* restarts and commands of other kinds there are, of any number.
THEOREM DatabasesHold == Spec => []OutcomeDatabase
<1>1. HostInv => OutcomeDatabase
  BY DbInvHolds DEF HostInv
<1> QED
  BY <1>1, HostInvHolds, PTL

\* A drop that reported success and that no create may have undone has left no
\* database, no user and no grant.
THEOREM DropsHold == Spec => []OutcomeDropped
<1>1. HostInv => OutcomeDropped
  BY DbInvHolds DEF HostInv
<1> QED
  BY <1>1, HostInvHolds, PTL

\* CreateAccount (accounts.go): a create that reported success has its user with
\* its uid, which owns its home unless the directory was there before or went
\* with another user, however homes are shared and nested; and, unless setquota
\* failed or was raced by another quota, limits that confine it, for a quota of
\* any size from one block up.
THEOREM AccountsHold == Spec => []OutcomeAccount
<1>1. HostInv => OutcomeAccount
  BY AccInvHolds DEF HostInv
<1> QED
  BY <1>1, HostInvHolds, PTL

\* DeleteAccount (accounts.go): a delete that reported success has left no user
\* and, with purge, no home.
THEOREM NoAccountsHold == Spec => []OutcomeNoAccount
<1>1. HostInv => OutcomeNoAccount
  BY AccInvHolds DEF HostInv
<1> QED
  BY <1>1, HostInvHolds, PTL

\* handleCreateDNSZone, handleUpsertDNSRecord (dispatch.go), upsertRecords
\* (dns/powerdns.go): the records of a command that succeeded are served as
\* they were meant, with the names and the default TTL they stand for, until
\* another command may change them.
THEOREM ServedHold == Spec => []OutcomeServes
<1>1. HostInv => OutcomeServes
  BY DnsInvHolds DEF HostInv
<1> QED
  BY <1>1, HostInvHolds, PTL

\* handleDeleteDNSRecord, handleDeleteDNSZone (dispatch.go): what a deletion
\* that succeeded was for is not served until another command may set it.
THEOREM UnservedHold == Spec => []OutcomeUnserved
<1>1. HostInv => OutcomeUnserved
  BY DnsInvHolds DEF HostInv
<1> QED
  BY <1>1, HostInvHolds, PTL

\* CreateAccount (email/manager.go): a mailbox that was reported created has its
\* one row, with the password and quota of the command, under the row of its
\* domain as it is now, and its directory, however many commands of every kind
\* run beside it.
THEOREM MailboxesHold == Spec => []OutcomeMailbox
<1>1. HostInv => OutcomeMailbox
  BY MailInvHolds DEF HostInv
<1> QED
  BY <1>1, HostInvHolds, PTL

\* CreateAlias, DeleteAlias, DeleteAccount (email/manager.go): an alias that was
\* reported created forwards, one that was deleted does not, and a deleted
\* mailbox has no row and, with purge, no mail.
THEOREM AliasesHold == Spec => []OutcomeForwarded
<1>1. HostInv => OutcomeForwarded
  BY MailInvHolds DEF HostInv
<1> QED
  BY <1>1, HostInvHolds, PTL

\* handleDeleteEmailDomain (dispatch.go): nothing that belonged to a domain is
\* left when its deletion was reported, whatever was looked up before; this
\* holds for overlapping names too.
THEOREM RemovalsHold == Spec => []OutcomeRemoved
<1>1. HostInv => OutcomeRemoved
  BY MailInvHolds DEF HostInv
<1> QED
  BY <1>1, HostInvHolds, PTL

\* handleCreateEmailDomain (dispatch.go), SetupDKIM (email/dkim.go): the mail of
\* a domain whose creation succeeded, not overlapped by the deletion of another,
\* is signed until the next command for it or until two deletions overlap, when
\* no name of a domain begins another's.  Run dkim_prefix shows why that is
\* needed, and dkim_lost what an overlap does.
THEOREM SignedHold ==
  ASSUME Extends = {}
  PROVE  Spec => []OutcomeSigned
<1>1. HostInv => OutcomeSigned
  BY SignedHolds DEF HostInv
<1> QED
  BY <1>1, HostInvHolds, PTL

\* The state is what Host declares it to be; no row has a number that
\* AUTO_INCREMENT has not given out.
THEOREM TypesAreKept == Spec => []TypeOK
<1>1. HostInv => TypeOK
  <2> SUFFICES ASSUME HostInv PROVE TypeOK
    OBVIOUS
  <2>1. MailTypeOK
    BY DEF HostInv, MailInv, RowTypes, FoundOwn, MailTypeOK, Chosen, Addresses
  <2> QED
    BY <2>1 DEF HostInv, TypeOK, DbInv, AccInv, AccTypes, MailInv, Chosen
<1> QED
  BY <1>1, HostInvHolds, PTL
=============================================================================
