--------------------------- MODULE CommandsProofs ---------------------------
(***************************************************************************)
(* The invariants of the commands whose stores no other module shares:     *)
(* databases, behind OutcomeDatabase and OutcomeDropped; system accounts,  *)
(* behind OutcomeAccount and OutcomeNoAccount; DNS, behind OutcomeServes   *)
(* and OutcomeUnserved.  For any commands, names, passwords, uids, quotas, *)
(* zones and records.  What MailProofs shares with them comes first;       *)
(* HostProofs uses them all.                                               *)
(***************************************************************************)
EXTENDS Databases, Accounts, Dns, TLAPS

-----------------------------------------------------------------------------
(* How a step of one goroutine changes the bookkeeping of Commands.        *)

\* The command stays as it is, and is promised no more than before.
Stays(o) ==
  /\ pc'[o] = pc[o]
  /\ cmd'[o] = cmd[o]
  /\ o \in undone => o \in undone'
  /\ o \in raced => o \in raced'

\* The goroutine goes on to l, or is over.
Moves(o, l) ==
  \/ /\ l # "ok" \/ o \notin undone
     /\ pc' = [pc EXCEPT ![o] = l]
     /\ UNCHANGED <<cmd, undone, raced>>
  \/ Over(o)

Own(o, l) ==
  \/ cmd'[o] = Nothing
  \/ /\ pc'[o] = l /\ cmd'[o] = cmd[o]
     /\ o \in undone' <=> o \in undone
     /\ o \in raced' <=> o \in raced

Same(p) ==
  /\ pc'[p] = pc[p] /\ cmd'[p] = cmd[p]
  /\ p \in undone' <=> p \in undone
  /\ p \in raced' <=> p \in raced

\* A step of one goroutine leaves the bookkeeping of the others.
LEMMA MovesFrame ==
  ASSUME NEW o \in Ops, NEW l, Moves(o, l), pc = [p \in Ops |-> pc[p]]
  PROVE  /\ Own(o, l) /\ \A p \in Ops \ {o} : Same(p)
         /\ pc' = [p \in Ops |-> pc'[p]]
         /\ Over(o) => pc'[o] = "over" /\ cmd'[o] = Nothing /\ o \notin undone'
         /\ ~Over(o) => /\ pc'[o] = l /\ cmd'[o] = cmd[o]
                        /\ l # "ok" \/ o \notin undone'
  BY DEF Moves, Over, Forget, Own, Same

-----------------------------------------------------------------------------
(* Databases.                                                              *)

CreateLabels == {"createdb", "createuser", "grant", "flush"}
DropLabels   == {"dropdb", "dropuser", "flush"}
DbLabels     == CreateLabels \cup DropLabels

\* A command as BeginDb leaves it.
IsCreate(c) ==
  /\ c.kind = "createdb" /\ c.db \in DbNames /\ c.user \in DbUsers
  /\ c.pw \in Passwords /\ c.fresh \in BOOLEAN
IsDrop(c) == c.kind = "dropdb" /\ c.db \in DbNames /\ c.user \in DbUsers

\* The labels of this module are those of its commands.
DbPcs ==
  /\ pc = [o \in Ops |-> pc[o]]
  /\ undone \subseteq {o \in Ops : Busy(o)}
  /\ \A o \in Ops :
       /\ pc[o] \in DbLabels => IsDb(cmd[o])
       /\ IsDb(cmd[o]) =>
            \/ IsCreate(cmd[o]) /\ pc[o] \in CreateLabels \cup {"ok"}
            \/ IsDrop(cmd[o]) /\ pc[o] \in DropLabels \cup {"ok"}

\* While a command is in progress, the outcomes that it may undo are withdrawn.
DbUndone ==
  \A o, q \in Ops :
    Busy(q) /\ IsDb(cmd[o]) /\ DbUndoes(cmd[q], cmd[o]) => o \in undone

DbRaced ==
  \A o, q \in Ops :
    Busy(o) /\ Busy(q) /\ DbDisturbs(cmd[o], cmd[q]) => o \in raced

\* What a create at label l has done so far.  Before its CREATE USER, a user
\* that it found missing is missing still, or has got the same password.
Created(o) ==
  LET c == cmd[o] IN
  /\ pc[o] # "createdb" => c.db \in dbs
  /\ pc[o] \in {"grant", "flush", "ok"} => pass[c.user] # None
  /\ pc[o] \in {"flush", "ok"} => <<c.user, c.db>> \in grants
  /\ c.fresh /\ o \notin raced => pass[c.user] \in {None, c.pw}

Dropped(o) ==
  LET c == cmd[o] IN
  /\ pc[o] # "dropdb" => c.db \notin dbs
  /\ pc[o] \in {"flush", "ok"} =>
       pass[c.user] = None /\ \A g \in grants : g[1] # c.user

DbDone ==
  \A o \in Ops :
    IsDb(cmd[o]) /\ o \notin undone =>
      /\ cmd[o].kind = "createdb" => Created(o)
      /\ cmd[o].kind = "dropdb" => Dropped(o)

DbInv == SqlTypeOK /\ DbPcs /\ DbUndone /\ DbRaced /\ DbDone

\* It holds of a host that starts.
LEMMA DbInvInit == CommandsInit /\ SqlInit => DbInv
<1> SUFFICES ASSUME CommandsInit, SqlInit PROVE DbInv
  OBVIOUS
<1>1. \A o \in Ops : pc[o] = "idle" /\ ~IsDb(cmd[o]) /\ ~Busy(o)
  BY DEF CommandsInit, IsDb, Nothing, Busy
<1>2. SqlTypeOK
  BY DEF SqlInit, SqlTypeOK
<1>3. DbPcs
  BY <1>1 DEF CommandsInit, DbPcs, DbLabels, CreateLabels, DropLabels
<1> QED
  BY <1>1, <1>2, <1>3 DEF DbInv, DbUndone, DbRaced, DbDone

-----------------------------------------------------------------------------
(* Commands of other kinds.                                                *)

\* A step that leaves database commands as they are, or ends them.
DbForeign(o) == pc'[o] \notin DbLabels /\ ~IsDb(cmd'[o])

DbAside ==
  /\ UNCHANGED sql
  /\ pc' = [o \in Ops |-> pc'[o]]
  /\ undone' \subseteq {o \in Ops : Busy(o)'}
  /\ \A o \in Ops : Stays(o) \/ DbForeign(o)

\* Commands of other kinds keep it.
LEMMA DbInvAside ==
  ASSUME DbInv, DbAside
  PROVE  DbInv'
<1> USE DEF DbInv, DbAside, Stays, DbForeign, Busy
<1>1. SqlTypeOK'
  BY DEF SqlTypeOK, sql
<1>2. DbPcs'
  BY DEF DbPcs, IsCreate, IsDrop, IsDb
<1>3. DbUndone'
  BY DEF DbUndone, DbUndoes
<1>4. DbRaced'
  BY DEF DbRaced, DbDisturbs, IsDb
<1>5. DbDone'
  BY DEF DbDone, Created, Dropped, sql
<1> QED
  BY <1>1, <1>2, <1>3, <1>4, <1>5

-----------------------------------------------------------------------------
(* A database command arrives.                                             *)

\* The command as it is kept.
Taken(c) ==
  IF c.kind = "createdb"
    THEN [kind |-> "createdb", db |-> c.db, user |-> c.user, pw |-> c.pw,
          fresh |-> pass[c.user] = None]
    ELSE c

\* Commands whose outcome the new one may undo are over.
LEMMA BeginDbFrame ==
  ASSUME NEW o \in Ops, NEW c \in DbCommand, BeginDb(o, c), DbInv
  PROVE  /\ UNCHANGED sql
         /\ pc[o] = "idle" /\ pc' = [p \in Ops |-> pc'[p]]
         /\ pc'[o] = c.kind /\ cmd'[o] = Taken(c)
         /\ \A p \in Ops \ {o} :
              \/ /\ pc[p] = "ok" /\ DbUndoes(Taken(c), cmd[p])
                 /\ pc'[p] = "over" /\ cmd'[p] = Nothing
              \/ /\ ~(pc[p] = "ok" /\ DbUndoes(Taken(c), cmd[p]))
                 /\ pc'[p] = pc[p] /\ cmd'[p] = cmd[p]
                 /\ p \in undone => p \in undone'
                 /\ p \in raced => p \in raced'
         /\ undone' = undone \cup {p \in Ops : Busy(p) /\ DbUndoes(Taken(c), cmd[p])}
                      \cup {p \in {o} : \E q \in Ops : Busy(q) /\ DbUndoes(cmd[q], Taken(c))}
         /\ \A p \in Ops : Busy(p) /\ DbDisturbs(Taken(c), cmd[p]) => p \in raced'
         /\ \A q \in Ops : Busy(q) /\ DbDisturbs(cmd[q], Taken(c)) => o \in raced'
<1>1. Arrive(o, Taken(c), c.kind, DbUndoes, DbDisturbs) /\ UNCHANGED sql
  BY DEF BeginDb, Taken, DbCommand
<1> DEFINE old == {p \in Ops : pc[p] = "ok" /\ DbUndoes(Taken(c), cmd[p])}
<1>3. /\ pc[o] = "idle"
      /\ pc' = [p \in Ops |-> IF p = o THEN c.kind ELSE IF p \in old THEN "over"
                                ELSE pc[p]]
      /\ cmd' = [p \in Ops |-> IF p = o THEN Taken(c)
                                 ELSE IF p \in old THEN Nothing ELSE cmd[p]]
      /\ undone' = undone \cup {p \in Ops : Busy(p) /\ DbUndoes(Taken(c), cmd[p])}
                   \cup {p \in {o} :
                          \E q \in Ops : Busy(q) /\ DbUndoes(cmd[q], Taken(c))}
      /\ raced' = (raced \ old)
                  \cup {p \in Ops : Busy(p) /\ DbDisturbs(Taken(c), cmd[p])}
                  \cup {p \in {o} :
                         \E q \in Ops : Busy(q) /\ DbDisturbs(cmd[q], Taken(c))}
  BY <1>1, Zenon DEF Arrive
<1>4. pc' = [p \in Ops |-> pc'[p]]
  BY <1>3
<1> QED
  BY <1>1, <1>3, <1>4

\* Undoing and disturbing are mutual.
LEMMA DbMutual ==
  ASSUME NEW c, NEW e
  PROVE  /\ DbUndoes(c, e) <=> DbUndoes(e, c)
         /\ DbDisturbs(c, e) <=> DbDisturbs(e, c)
         /\ ~DbUndoes(c, c) /\ ~DbDisturbs(c, c)
         /\ DbUndoes(c, e) \/ DbDisturbs(c, e) => IsDb(c) /\ IsDb(e)
  BY DEF DbUndoes, DbDisturbs, IsDb

\* A command that arrives keeps it.
LEMMA DbInvBegin ==
  ASSUME DbInv, NEW o \in Ops, NEW c \in DbCommand, BeginDb(o, c)
  PROVE  DbInv'
<1> DEFINE t == Taken(c)
<1>1. /\ UNCHANGED sql
      /\ pc[o] = "idle" /\ pc' = [p \in Ops |-> pc'[p]]
      /\ pc'[o] = c.kind /\ cmd'[o] = t
      /\ \A p \in Ops \ {o} :
           \/ /\ pc[p] = "ok" /\ DbUndoes(t, cmd[p])
              /\ pc'[p] = "over" /\ cmd'[p] = Nothing
           \/ /\ ~(pc[p] = "ok" /\ DbUndoes(t, cmd[p]))
              /\ pc'[p] = pc[p] /\ cmd'[p] = cmd[p]
              /\ p \in undone => p \in undone'
              /\ p \in raced => p \in raced'
      /\ undone' = undone \cup {p \in Ops : Busy(p) /\ DbUndoes(t, cmd[p])}
                   \cup {p \in {o} : \E q \in Ops : Busy(q) /\ DbUndoes(cmd[q], t)}
      /\ \A p \in Ops : Busy(p) /\ DbDisturbs(t, cmd[p]) => p \in raced'
      /\ \A q \in Ops : Busy(q) /\ DbDisturbs(cmd[q], t) => o \in raced'
  BY BeginDbFrame
<1>2. IsDb(t) /\ t.kind = c.kind
      /\ \/ IsCreate(t) /\ c.kind = "createdb" /\ t.fresh = (pass[t.user] = None)
         \/ IsDrop(t) /\ c.kind = "dropdb"
  BY DEF Taken, DbCommand, IsCreate, IsDrop, IsDb
<1> HIDE DEF t
<1>3. \A p \in Ops \ {o} :
        /\ Busy(p)' <=> Busy(p)
        /\ Busy(p) => cmd'[p] = cmd[p]
        /\ IsDb(cmd'[p]) => Stays(p) /\ ~(pc[p] = "ok" /\ DbUndoes(t, cmd[p]))
  BY <1>1 DEF Busy, Stays, IsDb, Nothing
<1>4. SqlTypeOK'
  BY <1>1 DEF DbInv, SqlTypeOK, sql
<1>5. DbPcs'
  <2>1. undone' \subseteq {p \in Ops : Busy(p)'}
    BY <1>1, <1>2, <1>3 DEF DbInv, DbPcs, Busy
  <2>2. \A p \in Ops \ {o} :
          /\ pc'[p] \in DbLabels => IsDb(cmd'[p])
          /\ IsDb(cmd'[p]) =>
               \/ IsCreate(cmd'[p]) /\ pc'[p] \in CreateLabels \cup {"ok"}
               \/ IsDrop(cmd'[p]) /\ pc'[p] \in DropLabels \cup {"ok"}
    BY <1>1, <1>3 DEF DbInv, DbPcs, DbLabels, CreateLabels, DropLabels, Stays
  <2> QED
    BY <1>1, <1>2, <2>1, <2>2 DEF DbPcs, CreateLabels, DropLabels
<1>6. DbUndone'
  <2> SUFFICES ASSUME NEW p \in Ops, NEW q \in Ops, Busy(q)', IsDb(cmd'[p]),
                      DbUndoes(cmd'[q], cmd'[p])
               PROVE  p \in undone'
    BY DEF DbUndone
  <2>1. CASE p = o
    BY <2>1, <1>1, <1>3, DbMutual
  <2>2. CASE p # o /\ q = o
    BY <2>2, <1>1, <1>3 DEF Stays, DbInv, DbPcs, Busy, CreateLabels, DropLabels
  <2>3. CASE p # o /\ q # o
    BY <2>3, <1>3 DEF Stays, DbInv, DbUndone
  <2> QED
    BY <2>1, <2>2, <2>3
<1>7. DbRaced'
  <2> SUFFICES ASSUME NEW p \in Ops, NEW q \in Ops, Busy(p)', Busy(q)',
                      DbDisturbs(cmd'[p], cmd'[q])
               PROVE  p \in raced'
    BY DEF DbRaced
  <2>1. CASE p = o
    BY <2>1, <1>1, <1>3, DbMutual
  <2>2. CASE p # o /\ q = o
    BY <2>2, <1>1, <1>3, DbMutual
  <2>3. CASE p # o /\ q # o
    BY <2>3, <1>3, DbMutual DEF Stays, DbInv, DbRaced
  <2> QED
    BY <2>1, <2>2, <2>3
<1>8. DbDone'
  <2> SUFFICES ASSUME NEW p \in Ops, IsDb(cmd'[p]), p \notin undone'
               PROVE  /\ cmd'[p].kind = "createdb" => Created(p)'
                      /\ cmd'[p].kind = "dropdb" => Dropped(p)'
    BY DEF DbDone
  <2>1. CASE p = o
    BY <2>1, <1>1, <1>2 DEF Created, Dropped, sql, IsCreate, IsDrop
  <2>2. CASE p # o
    BY <2>2, <1>1, <1>3 DEF Stays, Created, Dropped, sql, DbInv, DbDone
  <2> QED
    BY <2>1, <2>2
<1> QED
  BY <1>4, <1>5, <1>6, <1>7, <1>8 DEF DbInv

-----------------------------------------------------------------------------
(* A database command takes a step.                                        *)

\* Control is kept, and the outcomes that the command may undo are withdrawn.
LEMMA DbControl ==
  ASSUME DbInv, NEW o \in Ops, pc[o] \in DbLabels, NEW l, Moves(o, l),
         \/ cmd[o].kind = "createdb" /\ l \in CreateLabels \cup {"ok"}
         \/ cmd[o].kind = "dropdb" /\ l \in DropLabels \cup {"ok"}
  PROVE  /\ DbPcs' /\ DbUndone' /\ DbRaced'
         /\ Own(o, l) /\ \A p \in Ops \ {o} : Same(p)
         /\ \A p \in Ops \ {o} :
              IsDb(cmd[p]) /\ p \notin undone => ~DbUndoes(cmd[o], cmd[p])
<1>1. /\ Own(o, l) /\ \A p \in Ops \ {o} : Same(p)
      /\ pc' = [p \in Ops |-> pc'[p]]
      /\ Over(o) => pc'[o] = "over" /\ cmd'[o] = Nothing /\ o \notin undone'
      /\ ~Over(o) => /\ pc'[o] = l /\ cmd'[o] = cmd[o]
                     /\ l # "ok" \/ o \notin undone'
  BY MovesFrame DEF DbInv, DbPcs
<1>2. IsDb(cmd[o]) /\ Busy(o) /\ ~IsDb(Nothing)
  BY DEF DbInv, DbPcs, IsDb, Nothing, Busy, DbLabels, CreateLabels, DropLabels
<1>3. \A p \in Ops \ {o} : Busy(p)' <=> Busy(p)
  BY <1>1 DEF Busy, Same
<1>4. DbPcs'
  <2>1. undone' \subseteq Ops
    BY DEF Moves, Over, Forget, DbInv, DbPcs
  <2>2. undone' \subseteq {p \in Ops : Busy(p)'}
    BY <1>1, <1>3, <2>1 DEF Same, DbInv, DbPcs, Busy, CreateLabels, DropLabels
  <2>3. \A p \in Ops :
          /\ pc'[p] \in DbLabels => IsDb(cmd'[p])
          /\ IsDb(cmd'[p]) =>
               \/ IsCreate(cmd'[p]) /\ pc'[p] \in CreateLabels \cup {"ok"}
               \/ IsDrop(cmd'[p]) /\ pc'[p] \in DropLabels \cup {"ok"}
    BY <1>1, <1>2 DEF Same, DbInv, DbPcs, DbLabels, CreateLabels, DropLabels,
                      IsCreate, IsDrop
  <2> QED
    BY <1>1, <2>2, <2>3 DEF DbPcs
<1>5. DbUndone'
  <2> SUFFICES ASSUME NEW p \in Ops, NEW q \in Ops, Busy(q)', IsDb(cmd'[p]),
                      DbUndoes(cmd'[q], cmd'[p])
               PROVE  p \in undone'
    BY DEF DbUndone
  <2>1. Busy(q) /\ cmd'[q] = cmd[q] /\ cmd'[p] = cmd[p]
    BY <1>1, <1>2, <1>3, DbMutual DEF Same, Own
  <2> QED
    BY <2>1, <1>1, <1>2 DEF Same, Own, DbInv, DbUndone
<1>6. DbRaced'
  <2> SUFFICES ASSUME NEW p \in Ops, NEW q \in Ops, Busy(p)', Busy(q)',
                      DbDisturbs(cmd'[p], cmd'[q])
               PROVE  p \in raced'
    BY DEF DbRaced
  <2>1. Busy(q) /\ cmd'[q] = cmd[q] /\ Busy(p) /\ cmd'[p] = cmd[p]
    BY <1>1, <1>2, <1>3, DbMutual DEF Same, Own
  <2> QED
    BY <2>1, <1>1, <1>2, DbMutual DEF Same, Own, DbInv, DbRaced
<1> QED
  BY <1>1, <1>2, <1>4, <1>5, <1>6 DEF DbInv, DbUndone

\* Each statement keeps what other commands have done, and adds its own part.
LEMMA DbInvStep ==
  ASSUME DbInv, NEW o \in Ops, DbStep(o)
  PROVE  DbInv'
<1> DEFINE c == cmd[o]
<1>1. ASSUME NEW l, Moves(o, l), pc[o] \in DbLabels,
             \/ c.kind = "createdb" /\ l \in CreateLabels \cup {"ok"}
             \/ c.kind = "dropdb" /\ l \in DropLabels \cup {"ok"},
             SqlTypeOK',
             \A p \in Ops \ {o} :
               IsDb(cmd[p]) /\ p \notin undone /\ ~DbUndoes(c, cmd[p])
                 /\ Same(p) =>
                   /\ cmd[p].kind = "createdb" => Created(p)'
                   /\ cmd[p].kind = "dropdb" => Dropped(p)',
             cmd'[o] = c /\ Own(o, l) /\ o \notin undone =>
               /\ c.kind = "createdb" => Created(o)'
               /\ c.kind = "dropdb" => Dropped(o)'
      PROVE  DbInv'
  <2>1. /\ DbPcs' /\ DbUndone' /\ DbRaced'
        /\ Own(o, l) /\ \A p \in Ops \ {o} : Same(p)
        /\ \A p \in Ops \ {o} :
             IsDb(cmd[p]) /\ p \notin undone => ~DbUndoes(cmd[o], cmd[p])
    BY <1>1, DbControl
  <2>2. ~IsDb(Nothing)
    BY DEF IsDb, Nothing
  <2>3. \A p \in Ops \ {o} : IsDb(cmd'[p]) /\ p \notin undone' =>
          /\ cmd'[p].kind = "createdb" => Created(p)'
          /\ cmd'[p].kind = "dropdb" => Dropped(p)'
    BY <1>1, <2>1 DEF Same
  <2>4. IsDb(cmd'[o]) /\ o \notin undone' =>
          /\ cmd'[o].kind = "createdb" => Created(o)'
          /\ cmd'[o].kind = "dropdb" => Dropped(o)'
    BY <1>1, <2>1, <2>2 DEF Own
  <2> QED
    BY <1>1, <2>1, <2>3, <2>4 DEF DbInv, DbDone
<1>2. pc[o] \in DbLabels =>
        /\ IsDb(c) /\ (Over(o) => cmd'[o] # c)
        /\ \/ IsCreate(c) /\ c.kind = "createdb" /\ pc[o] \in CreateLabels
           \/ IsDrop(c) /\ c.kind = "dropdb" /\ pc[o] \in DropLabels
  BY DEF DbInv, DbPcs, IsDb, Over, Forget, Nothing, IsCreate, IsDrop, DbLabels,
         CreateLabels, DropLabels
<1> USE DEF DbLabels, CreateLabels, DropLabels
<1>3. CASE CreateDatabase(o)
  <2>1. /\ IsCreate(c) /\ IsDb(c) /\ pc[o] = "createdb" /\ Moves(o, "createuser")
        /\ \/ dbs' = dbs \cup {c.db} /\ UNCHANGED <<pass, grants>>
           \/ UNCHANGED sql /\ cmd'[o] # c
    BY <1>3, <1>2 DEF CreateDatabase, IsCreate, IsDrop, Try, Goto, Fail, Moves
  <2>2. SqlTypeOK'
    BY <2>1 DEF DbInv, SqlTypeOK, sql, IsCreate, IsDrop
  <2>3. ASSUME NEW p \in Ops \ {o}, IsDb(cmd[p]), p \notin undone,
               ~DbUndoes(c, cmd[p]), Same(p)
        PROVE  /\ cmd[p].kind = "createdb" => Created(p)'
               /\ cmd[p].kind = "dropdb" => Dropped(p)'
    BY <2>1, <2>3 DEF DbInv, DbDone, SqlTypeOK, Created, Dropped, Same, DbUndoes,
                      IsCreate, IsDrop, sql
  <2>4. cmd'[o] = c /\ Own(o, "createuser") /\ o \notin undone =>
          /\ c.kind = "createdb" => Created(o)'
          /\ c.kind = "dropdb" => Dropped(o)'
    BY <2>1 DEF DbInv, DbDone, SqlTypeOK, Created, Dropped, Own, IsDb, Nothing,
                IsCreate, IsDrop, sql
  <2> QED
    BY <1>1, <2>1, <2>2, <2>3, <2>4 DEF IsCreate, IsDrop
<1>4. CASE CreateUser(o)
  <2>1. /\ IsCreate(c) /\ IsDb(c) /\ pc[o] = "createuser" /\ Moves(o, "grant")
        /\ \/ /\ pass' = [pass EXCEPT ![c.user] = IF @ = None THEN c.pw ELSE @]
              /\ UNCHANGED <<dbs, grants>>
           \/ UNCHANGED sql /\ cmd'[o] # c
    BY <1>4, <1>2 DEF CreateUser, IsCreate, IsDrop, Try, Goto, Fail, Moves
  <2>2. SqlTypeOK'
    BY <2>1 DEF DbInv, SqlTypeOK, sql, IsCreate, IsDrop
  <2>3. ASSUME NEW p \in Ops \ {o}, IsDb(cmd[p]), p \notin undone,
               ~DbUndoes(c, cmd[p]), Same(p)
        PROVE  /\ cmd[p].kind = "createdb" => Created(p)'
               /\ cmd[p].kind = "dropdb" => Dropped(p)'
    <3>1. CASE IsCreate(cmd[p])
      <4>1. Created(p) /\ cmd[p].user \in DbUsers /\ cmd[p].kind = "createdb"
            /\ pc[p] \in CreateLabels \cup {"ok"}
        BY <2>3, <3>1 DEF DbInv, DbPcs, DbDone, IsCreate, IsDrop
      <4>2. cmd[p].user = c.user /\ cmd[p].pw # c.pw /\ pc[p] \in CreateLabels
              => p \in raced
        BY <2>1, <4>1 DEF DbInv, DbRaced, DbDisturbs, Busy, IsCreate
      <4>3. pass[c.user] = None /\ cmd[p].user = c.user =>
              pc[p] \in {"createdb", "createuser"}
        BY <4>1 DEF Created
      <4>4. /\ dbs' = dbs /\ grants' = grants
            /\ pass[cmd[p].user] # None => pass'[cmd[p].user] = pass[cmd[p].user]
            /\ pass'[cmd[p].user] \in {pass[cmd[p].user], c.pw}
            /\ cmd[p].user # c.user => pass'[cmd[p].user] = pass[cmd[p].user]
        BY <2>1, <4>1 DEF DbInv, SqlTypeOK, sql, IsCreate
      <4>5. cmd[p].fresh /\ p \notin raced => pass'[cmd[p].user] \in {None, cmd[p].pw}
        BY <4>1, <4>2, <4>3, <4>4 DEF Created
      <4> QED
        BY <2>3, <4>1, <4>4, <4>5 DEF Created, Same
    <3>2. CASE IsDrop(cmd[p])
      <4>1. Dropped(p) /\ cmd[p].user # c.user /\ cmd[p].user \in DbUsers
            /\ cmd[p].kind = "dropdb"
        BY <2>1, <2>3, <3>2 DEF DbInv, DbDone, IsDrop, IsCreate, DbUndoes
      <4>2. dbs' = dbs /\ grants' = grants
            /\ pass'[cmd[p].user] = pass[cmd[p].user]
        BY <2>1, <4>1 DEF DbInv, SqlTypeOK, sql, IsCreate
      <4> QED
        BY <2>3, <4>1, <4>2 DEF Dropped, Same
    <3> QED
      BY <2>3, <3>1, <3>2 DEF DbInv, DbPcs
  <2>4. cmd'[o] = c /\ Own(o, "grant") /\ o \notin undone =>
          /\ c.kind = "createdb" => Created(o)'
          /\ c.kind = "dropdb" => Dropped(o)'
    <3> SUFFICES ASSUME cmd'[o] = c, Own(o, "grant"), o \notin undone
                 PROVE  Created(o)'
      BY <2>1 DEF IsCreate
    <3>1. Created(o) /\ c.user \in DbUsers /\ c.pw \in Passwords /\ c # Nothing
      BY <2>1 DEF DbInv, DbDone, IsCreate, IsDb, Nothing
    <3>2. /\ dbs' = dbs /\ pass'[c.user] = IF pass[c.user] = None THEN c.pw
                                            ELSE pass[c.user]
      BY <2>1, <3>1 DEF DbInv, SqlTypeOK
    <3> QED
      BY <2>1, <3>1, <3>2, PasswordsOK DEF Created, Own
  <2> QED
    BY <1>1, <2>1, <2>2, <2>3, <2>4 DEF IsCreate, IsDrop
<1>5. CASE Grant(o)
  <2>1. /\ IsCreate(c) /\ IsDb(c) /\ pc[o] = "grant" /\ Moves(o, "flush")
        /\ \/ /\ pass[c.user] # None
              /\ grants' = grants \cup {<<c.user, c.db>>}
              /\ UNCHANGED <<dbs, pass>>
           \/ UNCHANGED sql /\ cmd'[o] # c
    BY <1>5, <1>2 DEF Grant, IsCreate, IsDrop, Try, Goto, Fail, Moves
  <2>2. SqlTypeOK'
    BY <2>1 DEF DbInv, SqlTypeOK, sql, IsCreate, IsDrop
  <2>3. ASSUME NEW p \in Ops \ {o}, IsDb(cmd[p]), p \notin undone,
               ~DbUndoes(c, cmd[p]), Same(p)
        PROVE  /\ cmd[p].kind = "createdb" => Created(p)'
               /\ cmd[p].kind = "dropdb" => Dropped(p)'
    BY <2>1, <2>3 DEF DbInv, DbDone, SqlTypeOK, Created, Dropped, Same, DbUndoes,
                      IsCreate, IsDrop, sql
  <2>4. cmd'[o] = c /\ Own(o, "flush") /\ o \notin undone =>
          /\ c.kind = "createdb" => Created(o)'
          /\ c.kind = "dropdb" => Dropped(o)'
    BY <2>1 DEF DbInv, DbDone, SqlTypeOK, Created, Dropped, Own, IsDb, Nothing,
                IsCreate, IsDrop, sql
  <2> QED
    BY <1>1, <2>1, <2>2, <2>3, <2>4 DEF IsCreate, IsDrop
<1>6. CASE DropDatabase(o)
  <2>1. /\ IsDrop(c) /\ IsDb(c) /\ pc[o] = "dropdb" /\ Moves(o, "dropuser")
        /\ \/ dbs' = dbs \ {c.db} /\ UNCHANGED <<pass, grants>>
           \/ UNCHANGED sql /\ cmd'[o] # c
    BY <1>6, <1>2 DEF DropDatabase, IsCreate, IsDrop, Try, Goto, Fail, Moves
  <2>2. SqlTypeOK'
    BY <2>1 DEF DbInv, SqlTypeOK, sql, IsCreate, IsDrop
  <2>3. ASSUME NEW p \in Ops \ {o}, IsDb(cmd[p]), p \notin undone,
               ~DbUndoes(c, cmd[p]), Same(p)
        PROVE  /\ cmd[p].kind = "createdb" => Created(p)'
               /\ cmd[p].kind = "dropdb" => Dropped(p)'
    BY <2>1, <2>3 DEF DbInv, DbDone, SqlTypeOK, Created, Dropped, Same, DbUndoes,
                      IsCreate, IsDrop, sql
  <2>4. cmd'[o] = c /\ Own(o, "dropuser") /\ o \notin undone =>
          /\ c.kind = "createdb" => Created(o)'
          /\ c.kind = "dropdb" => Dropped(o)'
    BY <2>1 DEF DbInv, DbDone, SqlTypeOK, Created, Dropped, Own, IsDb, Nothing,
                IsCreate, IsDrop, sql
  <2> QED
    BY <1>1, <2>1, <2>2, <2>3, <2>4 DEF IsCreate, IsDrop
<1>7. CASE DropUser(o)
  <2>1. /\ IsDrop(c) /\ IsDb(c) /\ pc[o] = "dropuser" /\ Moves(o, "flush")
        /\ \/ /\ pass' = [pass EXCEPT ![c.user] = None]
              /\ grants' = {g \in grants : g[1] # c.user}
              /\ UNCHANGED dbs
           \/ UNCHANGED sql /\ cmd'[o] # c
    BY <1>7, <1>2 DEF DropUser, IsCreate, IsDrop, Try, Goto, Fail, Moves
  <2>2. SqlTypeOK'
    BY <2>1 DEF DbInv, SqlTypeOK, sql, IsCreate, IsDrop
  <2>3. ASSUME NEW p \in Ops \ {o}, IsDb(cmd[p]), p \notin undone,
               ~DbUndoes(c, cmd[p]), Same(p)
        PROVE  /\ cmd[p].kind = "createdb" => Created(p)'
               /\ cmd[p].kind = "dropdb" => Dropped(p)'
    <3>1. CASE IsCreate(cmd[p])
      <4>1. Created(p) /\ cmd[p].user # c.user /\ cmd[p].user \in DbUsers
            /\ cmd[p].kind = "createdb"
        BY <2>1, <2>3, <3>1 DEF DbInv, DbDone, IsCreate, IsDrop, DbUndoes
      <4>2. /\ dbs' = dbs /\ pass'[cmd[p].user] = pass[cmd[p].user]
            /\ <<cmd[p].user, cmd[p].db>> \in grants =>
                 <<cmd[p].user, cmd[p].db>> \in grants'
        BY <2>1, <4>1 DEF DbInv, SqlTypeOK, sql, IsDrop
      <4> QED
        BY <2>3, <4>1, <4>2 DEF Created, Same
    <3>2. CASE IsDrop(cmd[p])
      <4>1. Dropped(p) /\ cmd[p].user \in DbUsers /\ cmd[p].kind = "dropdb"
        BY <2>3, <3>2 DEF DbInv, DbDone, IsDrop
      <4>2. /\ dbs' = dbs /\ grants' \subseteq grants
            /\ pass'[cmd[p].user] \in {pass[cmd[p].user], None}
        BY <2>1, <4>1 DEF DbInv, SqlTypeOK, sql, IsDrop
      <4> QED
        BY <2>3, <4>1, <4>2 DEF Dropped, Same
    <3> QED
      BY <2>3, <3>1, <3>2 DEF DbInv, DbPcs
  <2>4. cmd'[o] = c /\ Own(o, "flush") /\ o \notin undone =>
          /\ c.kind = "createdb" => Created(o)'
          /\ c.kind = "dropdb" => Dropped(o)'
    BY <2>1 DEF DbInv, DbDone, SqlTypeOK, Created, Dropped, Own, IsDb, Nothing,
                IsCreate, IsDrop, sql
  <2> QED
    BY <1>1, <2>1, <2>2, <2>3, <2>4 DEF IsCreate, IsDrop
<1>8. CASE FlushPrivileges(o)
  <2>1. IsDb(c) /\ pc[o] = "flush" /\ Moves(o, "ok") /\ UNCHANGED sql
    BY <1>8, <1>2 DEF FlushPrivileges, Try, Goto, Moves, sql
  <2>2. SqlTypeOK'
    BY <2>1 DEF DbInv, SqlTypeOK, sql
  <2>3. ASSUME NEW p \in Ops \ {o}, IsDb(cmd[p]), p \notin undone, Same(p)
        PROVE  /\ cmd[p].kind = "createdb" => Created(p)'
               /\ cmd[p].kind = "dropdb" => Dropped(p)'
    BY <2>1, <2>3 DEF DbInv, DbDone, Created, Dropped, Same, sql
  <2>4. cmd'[o] = c /\ Own(o, "ok") /\ o \notin undone =>
          /\ c.kind = "createdb" => Created(o)'
          /\ c.kind = "dropdb" => Dropped(o)'
    BY <2>1 DEF DbInv, DbDone, Created, Dropped, Own, IsDb, Nothing, sql
  <2> QED
    BY <1>1, <1>2, <2>1, <2>2, <2>3, <2>4
<1> QED
  BY <1>3, <1>4, <1>5, <1>6, <1>7, <1>8 DEF DbStep

\* The parts of the invariant that matter to a reader.
LEMMA DbInvHolds == DbInv => OutcomeDatabase /\ OutcomeDropped
<1> SUFFICES ASSUME DbInv PROVE OutcomeDatabase /\ OutcomeDropped
  OBVIOUS
<1>1. \A o \in Ops : Stands(o) => o \notin undone
  BY DEF DbInv, DbPcs, Stands, Busy
<1>2. \A o \in Ops :
        Stands(o) /\ cmd[o].kind = "createdb" => Created(o) /\ pc[o] = "ok"
  BY <1>1 DEF DbInv, DbDone, IsDb, Stands
<1>3. \A o \in Ops :
        Stands(o) /\ cmd[o].kind = "dropdb" => Dropped(o) /\ pc[o] = "ok"
  BY <1>1 DEF DbInv, DbDone, IsDb, Stands
<1> QED
  BY <1>2, <1>3 DEF OutcomeDatabase, OutcomeDropped, Created, Dropped

-----------------------------------------------------------------------------
(* System accounts.                                                        *)

AddLabels == {"useradd", "setquota"}
AccLabels == AddLabels \cup {"userdel"}

\* A command as BeginAccount leaves it.
IsAdd(c) ==
  /\ c.kind = "useradd" /\ c.name \in Names /\ c.uid \in Uids \cup {0}
  /\ c.quota \in Quotas /\ c.dir \in Dirs
IsDel(c) == c.kind = "userdel" /\ c.name \in Names /\ c.purge \in BOOLEAN

AccTypes ==
  /\ AccountsTypeOK
  /\ limit = [u \in Uids |-> limit[u]]
  /\ \A n \in Names : users[n] # None => homedir[n] \in Dirs

\* The labels of this module are those of its commands.
AccPcs ==
  /\ pc = [o \in Ops |-> pc[o]]
  /\ undone \subseteq {o \in Ops : Busy(o)}
  /\ \A o \in Ops :
       /\ pc[o] \in AccLabels => IsAccount(cmd[o])
       /\ IsAccount(cmd[o]) =>
            \/ IsAdd(cmd[o]) /\ pc[o] \in AddLabels \cup {"ok"}
            \/ IsDel(cmd[o]) /\ pc[o] \in {"userdel", "ok"}

AccUndone ==
  \A o, q \in Ops :
    Busy(q) /\ IsAccount(cmd[o]) /\ AccountUndoes(cmd[q], cmd[o]) => o \in undone

\* A setquota that is to come and may spoil the limits of a create is one of a
\* command that overlapped it.
AccRaced ==
  \A o, q \in Ops :
    /\ AccountDisturbs(cmd[o], cmd[q])
    /\ Busy(q) /\ (Busy(o) \/ (pc[o] = "ok" /\ pc[q] = "setquota"))
    => o \in raced

\* No two users have one uid.
UidsUnique ==
  \A m, n \in Names : users[m] = users[n] /\ users[m] # None => m = n

\* What a create has done so far.
Added(o) ==
  LET c == cmd[o]
      n == c.name
  IN
  /\ pc[o] \in {"setquota", "ok"} =>
       /\ users[n] # None /\ c.uid \in {0, users[n]} /\ homedir[n] = c.dir
       /\ o \in homeless \/ owner[c.dir] = users[n]
  /\ pc[o] = "ok" /\ c.quota >= 1024 /\ o \notin warned \cup raced =>
       limit[users[n]] = BlockLimits(c.quota)

\* A deletion meets the home that it found when it arrived, or no user.
Deleted(o) ==
  LET c == cmd[o] IN
  /\ pc[o] = "userdel" => users[c.name] = None \/ homedir[c.name] = c.dir
  /\ pc[o] = "ok" =>
       /\ users[c.name] = None
       /\ c.purge => c.dir \in Dirs /\ owner[c.dir] = None

AccDone ==
  \A o \in Ops :
    IsAccount(cmd[o]) /\ o \notin undone =>
      /\ cmd[o].kind = "useradd" => Added(o)
      /\ cmd[o].kind = "userdel" => Deleted(o)

AccInv == AccTypes /\ AccPcs /\ AccUndone /\ AccRaced /\ UidsUnique /\ AccDone

\* It holds of a host that starts.
LEMMA AccInvInit == CommandsInit /\ AccountsInit => AccInv
<1> SUFFICES ASSUME CommandsInit, AccountsInit PROVE AccInv
  OBVIOUS
<1>1. \A o \in Ops : pc[o] = "idle" /\ ~IsAccount(cmd[o]) /\ ~Busy(o)
  BY DEF CommandsInit, IsAccount, Nothing, Busy
<1>2. AccTypes
  BY DEF AccountsInit, AccTypes, AccountsTypeOK, Unlimited
<1>3. AccPcs
  BY <1>1 DEF CommandsInit, AccPcs, AccLabels, AddLabels
<1>4. UidsUnique
  BY DEF AccountsInit, UidsUnique
<1> QED
  BY <1>1, <1>2, <1>3, <1>4 DEF AccInv, AccUndone, AccRaced, AccDone

\* Disturbing is mutual; no command undoes or disturbs itself.
LEMMA AccMutual ==
  ASSUME NEW c, NEW e
  PROVE  /\ AccountDisturbs(c, e) <=> AccountDisturbs(e, c)
         /\ ~AccountUndoes(c, c) /\ ~AccountDisturbs(c, c)
         /\ AccountUndoes(c, e) \/ AccountDisturbs(c, e) =>
              IsAccount(c) /\ IsAccount(e)
  BY DEF AccountUndoes, AccountDisturbs, IsAccount

-----------------------------------------------------------------------------
(* Commands of other kinds.                                                *)

\* A step that leaves account commands as they are, or ends them.
AccForeign(o) == pc'[o] \notin AccLabels /\ ~IsAccount(cmd'[o])

AccAside ==
  /\ UNCHANGED accounts
  /\ pc' = [o \in Ops |-> pc'[o]]
  /\ undone' \subseteq {o \in Ops : Busy(o)'}
  /\ \A o \in Ops : Stays(o) \/ AccForeign(o)

\* Commands of other kinds keep it.
LEMMA AccInvAside ==
  ASSUME AccInv, AccAside
  PROVE  AccInv'
<1> USE DEF AccInv, AccAside, Stays, AccForeign, Busy
<1>1. AccTypes' /\ UidsUnique'
  BY DEF AccTypes, AccountsTypeOK, UidsUnique, accounts
<1>2. AccPcs'
  BY DEF AccPcs, IsAdd, IsDel, IsAccount
<1>3. AccUndone'
  BY AccMutual DEF AccUndone
<1>4. AccRaced'
  BY AccMutual DEF AccRaced
<1>5. AccDone'
  BY DEF AccDone, Added, Deleted, accounts
<1> QED
  BY <1>1, <1>2, <1>3, <1>4, <1>5

-----------------------------------------------------------------------------
(* An account command arrives.                                             *)

\* Commands whose outcome the new one may undo are over.
LEMMA BeginAccountFrame ==
  ASSUME NEW o \in Ops, NEW c \in AccountCommand, BeginAccount(o, c), AccInv
  PROVE  /\ UNCHANGED accounts
         /\ pc[o] = "idle" /\ pc' = [p \in Ops |-> pc'[p]]
         /\ pc'[o] = c.kind /\ cmd'[o] = AsBegun(c)
         /\ \A p \in Ops \ {o} :
              \/ /\ pc[p] = "ok" /\ AccountUndoes(AsBegun(c), cmd[p])
                 /\ pc'[p] = "over" /\ cmd'[p] = Nothing
              \/ /\ ~(pc[p] = "ok" /\ AccountUndoes(AsBegun(c), cmd[p]))
                 /\ pc'[p] = pc[p] /\ cmd'[p] = cmd[p]
                 /\ p \in undone => p \in undone'
                 /\ p \in raced => p \in raced'
         /\ undone' = undone
                      \cup {p \in Ops : Busy(p) /\ AccountUndoes(AsBegun(c), cmd[p])}
                      \cup {p \in {o} : \E q \in Ops :
                              Busy(q) /\ AccountUndoes(cmd[q], AsBegun(c))}
         /\ \A p \in Ops :
              Busy(p) /\ AccountDisturbs(AsBegun(c), cmd[p]) => p \in raced'
         /\ \A q \in Ops :
              Busy(q) /\ AccountDisturbs(cmd[q], AsBegun(c)) => o \in raced'
<1>1. Arrive(o, AsBegun(c), c.kind, AccountUndoes, AccountDisturbs)
      /\ UNCHANGED accounts
  BY DEF BeginAccount, AsBegun, AccountCommand
<1> DEFINE old == {p \in Ops : pc[p] = "ok" /\ AccountUndoes(AsBegun(c), cmd[p])}
<1>2. /\ pc[o] = "idle"
      /\ pc' = [p \in Ops |-> IF p = o THEN c.kind ELSE IF p \in old THEN "over"
                                ELSE pc[p]]
      /\ cmd' = [p \in Ops |-> IF p = o THEN AsBegun(c)
                                 ELSE IF p \in old THEN Nothing ELSE cmd[p]]
      /\ undone' = undone
                   \cup {p \in Ops : Busy(p) /\ AccountUndoes(AsBegun(c), cmd[p])}
                   \cup {p \in {o} : \E q \in Ops :
                           Busy(q) /\ AccountUndoes(cmd[q], AsBegun(c))}
      /\ raced' = (raced \ old)
                  \cup {p \in Ops : Busy(p) /\ AccountDisturbs(AsBegun(c), cmd[p])}
                  \cup {p \in {o} : \E q \in Ops :
                          Busy(q) /\ AccountDisturbs(cmd[q], AsBegun(c))}
  BY <1>1, Zenon DEF Arrive
<1>3. pc' = [p \in Ops |-> pc'[p]]
  BY <1>2
<1> QED
  BY <1>1, <1>2, <1>3

\* A command that arrives keeps it.
LEMMA AccInvBegin ==
  ASSUME AccInv, NEW o \in Ops, NEW c \in AccountCommand, BeginAccount(o, c)
  PROVE  AccInv'
<1> DEFINE t == AsBegun(c)
<1>1. /\ UNCHANGED accounts
      /\ pc[o] = "idle" /\ pc' = [p \in Ops |-> pc'[p]]
      /\ pc'[o] = c.kind /\ cmd'[o] = t
      /\ \A p \in Ops \ {o} :
           \/ /\ pc[p] = "ok" /\ AccountUndoes(t, cmd[p])
              /\ pc'[p] = "over" /\ cmd'[p] = Nothing
           \/ /\ ~(pc[p] = "ok" /\ AccountUndoes(t, cmd[p]))
              /\ pc'[p] = pc[p] /\ cmd'[p] = cmd[p]
              /\ p \in undone => p \in undone'
              /\ p \in raced => p \in raced'
      /\ undone' = undone \cup {p \in Ops : Busy(p) /\ AccountUndoes(t, cmd[p])}
                   \cup {p \in {o} : \E q \in Ops :
                           Busy(q) /\ AccountUndoes(cmd[q], t)}
      /\ \A p \in Ops : Busy(p) /\ AccountDisturbs(t, cmd[p]) => p \in raced'
      /\ \A q \in Ops : Busy(q) /\ AccountDisturbs(cmd[q], t) => o \in raced'
  BY BeginAccountFrame
<1>2. IsAccount(t) /\ t.kind = c.kind
      /\ \/ IsAdd(t) /\ c.kind = "useradd"
         \/ IsDel(t) /\ c.kind = "userdel" /\ t.dir = homedir[t.name]
  <2>1. CASE c.kind = "useradd"
    BY <2>1, AccountsOK DEF AsBegun, AccountCommand, IsAdd, IsAccount
  <2>2. CASE c.kind # "useradd"
    BY <2>2 DEF AsBegun, AccountCommand, IsDel, IsAccount
  <2> QED
    BY <2>1, <2>2
<1> HIDE DEF t
<1>3. \A p \in Ops \ {o} :
        /\ Busy(p)' <=> Busy(p)
        /\ Busy(p) => cmd'[p] = cmd[p]
        /\ IsAccount(cmd'[p]) =>
             Stays(p) /\ ~(pc[p] = "ok" /\ AccountUndoes(t, cmd[p]))
  BY <1>1 DEF Busy, Stays, IsAccount, Nothing
<1>4. AccTypes' /\ UidsUnique'
  BY <1>1 DEF AccInv, AccTypes, AccountsTypeOK, UidsUnique, accounts
<1>5. AccPcs'
  <2>1. undone' \subseteq {p \in Ops : Busy(p)'}
    BY <1>1, <1>2, <1>3 DEF AccInv, AccPcs, Busy
  <2>2. \A p \in Ops \ {o} :
          /\ pc'[p] \in AccLabels => IsAccount(cmd'[p])
          /\ IsAccount(cmd'[p]) =>
               \/ IsAdd(cmd'[p]) /\ pc'[p] \in AddLabels \cup {"ok"}
               \/ IsDel(cmd'[p]) /\ pc'[p] \in {"userdel", "ok"}
    BY <1>1, <1>3 DEF AccInv, AccPcs, AccLabels, AddLabels, Stays
  <2> QED
    BY <1>1, <1>2, <2>1, <2>2 DEF AccPcs, AddLabels
<1>6. AccUndone'
  <2> SUFFICES ASSUME NEW p \in Ops, NEW q \in Ops, Busy(q)', IsAccount(cmd'[p]),
                      AccountUndoes(cmd'[q], cmd'[p])
               PROVE  p \in undone'
    BY DEF AccUndone
  <2>1. CASE p = o
    BY <2>1, <1>1, <1>3, AccMutual
  <2>2. CASE p # o /\ q = o
    BY <2>2, <1>1, <1>3 DEF Stays, AccInv, AccPcs, Busy, AddLabels
  <2>3. CASE p # o /\ q # o
    BY <2>3, <1>3 DEF Stays, AccInv, AccUndone
  <2> QED
    BY <2>1, <2>2, <2>3
<1>7. AccRaced'
  <2> SUFFICES ASSUME NEW p \in Ops, NEW q \in Ops,
                      AccountDisturbs(cmd'[p], cmd'[q]), Busy(q)',
                      Busy(p)' \/ (pc'[p] = "ok" /\ pc'[q] = "setquota")
               PROVE  p \in raced'
    BY DEF AccRaced
  <2>1. CASE p = o
    BY <2>1, <1>1, <1>3, AccMutual
  <2>2. CASE p # o /\ q = o
    BY <2>2, <1>1, <1>2, <1>3, AccMutual
  <2>3. CASE p # o /\ q # o
    BY <2>3, <1>3, AccMutual DEF Stays, AccInv, AccRaced
  <2> QED
    BY <2>1, <2>2, <2>3
<1>8. AccDone'
  <2> SUFFICES ASSUME NEW p \in Ops, IsAccount(cmd'[p]), p \notin undone'
               PROVE  /\ cmd'[p].kind = "useradd" => Added(p)'
                      /\ cmd'[p].kind = "userdel" => Deleted(p)'
    BY DEF AccDone
  <2>1. CASE p = o
    BY <2>1, <1>1, <1>2 DEF Added, Deleted, accounts, IsAdd, IsDel
  <2>2. CASE p # o
    BY <2>2, <1>1, <1>3 DEF Stays, Added, Deleted, accounts, AccInv, AccDone
  <2> QED
    BY <2>1, <2>2
<1> QED
  BY <1>4, <1>5, <1>6, <1>7, <1>8 DEF AccInv

-----------------------------------------------------------------------------
(* An account command takes a step.                                        *)

\* Control is kept, and the outcomes that the command may undo are withdrawn.
LEMMA AccControl ==
  ASSUME AccInv, NEW o \in Ops, pc[o] \in AccLabels, NEW l, Moves(o, l),
         \/ cmd[o].kind = "useradd" /\ l \in {"setquota", "ok"}
         \/ cmd[o].kind = "userdel" /\ l = "ok",
         pc[o] = "useradd" /\ cmd'[o] = cmd[o] => users[cmd[o].name] = None
  PROVE  /\ AccPcs' /\ AccUndone' /\ AccRaced'
         /\ Own(o, l) /\ \A p \in Ops \ {o} : Same(p)
         /\ \A p \in Ops \ {o} : IsAccount(cmd[p]) /\ p \notin undone =>
              ~AccountUndoes(cmd[o], cmd[p])
<1>1. /\ Own(o, l) /\ \A p \in Ops \ {o} : Same(p)
      /\ pc' = [p \in Ops |-> pc'[p]]
      /\ Over(o) => pc'[o] = "over" /\ cmd'[o] = Nothing /\ o \notin undone'
      /\ ~Over(o) => /\ pc'[o] = l /\ cmd'[o] = cmd[o]
                     /\ l # "ok" \/ o \notin undone'
  BY MovesFrame DEF AccInv, AccPcs
<1>2. IsAccount(cmd[o]) /\ Busy(o) /\ ~IsAccount(Nothing)
  BY DEF AccInv, AccPcs, IsAccount, Nothing, Busy, AccLabels, AddLabels
<1>3. \A p \in Ops \ {o} : Busy(p)' <=> Busy(p)
  BY <1>1 DEF Busy, Same
<1>4. AccPcs'
  <2>1. undone' \subseteq Ops
    BY DEF Moves, Over, Forget, AccInv, AccPcs
  <2>2. undone' \subseteq {p \in Ops : Busy(p)'}
    BY <1>1, <1>3, <2>1 DEF Same, AccInv, AccPcs, Busy
  <2>3. \A p \in Ops :
          /\ pc'[p] \in AccLabels => IsAccount(cmd'[p])
          /\ IsAccount(cmd'[p]) =>
               \/ IsAdd(cmd'[p]) /\ pc'[p] \in AddLabels \cup {"ok"}
               \/ IsDel(cmd'[p]) /\ pc'[p] \in {"userdel", "ok"}
    BY <1>1, <1>2 DEF Same, AccInv, AccPcs, AccLabels, AddLabels, IsAdd, IsDel
  <2> QED
    BY <1>1, <2>2, <2>3 DEF AccPcs
<1>5. AccUndone'
  <2> SUFFICES ASSUME NEW p \in Ops, NEW q \in Ops, Busy(q)', IsAccount(cmd'[p]),
                      AccountUndoes(cmd'[q], cmd'[p])
               PROVE  p \in undone'
    BY DEF AccUndone
  <2>1. Busy(q) /\ cmd'[q] = cmd[q] /\ cmd'[p] = cmd[p]
    BY <1>1, <1>2, <1>3, AccMutual DEF Same, Own
  <2> QED
    BY <2>1, <1>1, <1>2 DEF Same, Own, AccInv, AccUndone
<1>6. AccRaced'
  <2> SUFFICES ASSUME NEW p \in Ops, NEW q \in Ops,
                      AccountDisturbs(cmd'[p], cmd'[q]), Busy(q)',
                      Busy(p)' \/ (pc'[p] = "ok" /\ pc'[q] = "setquota")
               PROVE  p \in raced'
    BY DEF AccRaced
  <2>1. Busy(q) /\ cmd'[q] = cmd[q] /\ cmd'[p] = cmd[p] /\ p # q
    BY <1>1, <1>2, <1>3, AccMutual DEF Same, Own
  <2>2. p \in raced' <=> p \in raced
    BY <2>1, <1>1, <1>2, AccMutual DEF Same, Own
  <2>3. CASE Busy(p)
    BY <2>1, <2>2, <2>3 DEF AccInv, AccRaced
  <2>4. CASE ~Busy(p)
    <3>1. pc[p] = "ok" /\ pc'[p] = "ok" /\ p # o
      BY <2>4, <1>1, <1>2, <1>3 DEF Same
    <3>2. CASE q # o
      BY <3>1, <3>2, <2>1, <2>2, <1>1, <1>3 DEF Same, AccInv, AccRaced, Busy
    <3>3. CASE q = o
      <4>1. p \notin undone /\ cmd[p].kind = "useradd" /\ cmd[o].kind = "useradd"
            /\ cmd[p].name = cmd[o].name /\ IsAccount(cmd[p])
        BY <3>1, <3>3, <2>1, AccMutual DEF AccInv, AccPcs, AccountDisturbs, Busy
      <4>2. users[cmd[o].name] # None
        BY <3>1, <4>1 DEF AccInv, AccDone, Added
      <4>3. pc[o] = "setquota"
        BY <3>3, <4>1, <4>2, <2>1 DEF AccInv, AccPcs, AddLabels, AccLabels, IsDel
      <4> QED
        BY <3>1, <3>3, <4>3, <2>1, <2>2 DEF AccInv, AccRaced
    <3> QED
      BY <3>2, <3>3
  <2> QED
    BY <2>3, <2>4
<1> QED
  BY <1>1, <1>2, <1>4, <1>5, <1>6 DEF AccInv, AccUndone

\* The limits of a quota are numbers, and confine its user to it.
LEMMA LimitsConfine ==
  ASSUME NEW q \in Nat
  PROVE  /\ BlockLimits(q).soft \in Nat /\ BlockLimits(q).hard \in Nat
         /\ q >= 1024 => Confines(BlockLimits(q), q)
  BY DEF BlockLimits, Confines

\* Each program keeps what other commands have done, and adds its own part.
LEMMA AccInvStep ==
  ASSUME AccInv, NEW o \in Ops, AccountStep(o)
  PROVE  AccInv'
<1> DEFINE c == cmd[o]
           n == c.name
<1>1. ASSUME NEW l, Moves(o, l), pc[o] \in AccLabels,
             \/ c.kind = "useradd" /\ l \in {"setquota", "ok"}
             \/ c.kind = "userdel" /\ l = "ok",
             pc[o] = "useradd" /\ cmd'[o] = c => users[n] = None,
             AccTypes', UidsUnique',
             \A p \in Ops \ {o} :
               IsAccount(cmd[p]) /\ p \notin undone /\ ~AccountUndoes(c, cmd[p])
                 /\ Same(p) =>
                   /\ cmd[p].kind = "useradd" => Added(p)'
                   /\ cmd[p].kind = "userdel" => Deleted(p)',
             cmd'[o] = c /\ Own(o, l) /\ o \notin undone =>
               /\ c.kind = "useradd" => Added(o)'
               /\ c.kind = "userdel" => Deleted(o)'
      PROVE  AccInv'
  <2>1. /\ AccPcs' /\ AccUndone' /\ AccRaced'
        /\ Own(o, l) /\ \A p \in Ops \ {o} : Same(p)
        /\ \A p \in Ops \ {o} : IsAccount(cmd[p]) /\ p \notin undone =>
             ~AccountUndoes(cmd[o], cmd[p])
    BY <1>1, AccControl
  <2>2. ~IsAccount(Nothing)
    BY DEF IsAccount, Nothing
  <2>3. \A p \in Ops \ {o} : IsAccount(cmd'[p]) /\ p \notin undone' =>
          /\ cmd'[p].kind = "useradd" => Added(p)'
          /\ cmd'[p].kind = "userdel" => Deleted(p)'
    BY <1>1, <2>1 DEF Same
  <2>4. IsAccount(cmd'[o]) /\ o \notin undone' =>
          /\ cmd'[o].kind = "useradd" => Added(o)'
          /\ cmd'[o].kind = "userdel" => Deleted(o)'
    BY <1>1, <2>1, <2>2 DEF Own
  <2> QED
    BY <1>1, <2>1, <2>3, <2>4 DEF AccInv, AccDone
<1>2. pc[o] \in AccLabels =>
        /\ IsAccount(c) /\ (Over(o) => cmd'[o] # c)
        /\ \/ IsAdd(c) /\ pc[o] \in AddLabels
           \/ IsDel(c) /\ pc[o] = "userdel"
  BY DEF AccInv, AccPcs, IsAccount, Over, Forget, Nothing, IsAdd, IsDel, AccLabels,
         AddLabels
<1>3. \A p \in Ops : IsAccount(cmd[p]) =>
        \/ IsAdd(cmd[p]) /\ cmd[p].kind = "useradd" /\ cmd[p].name \in Names
        \/ IsDel(cmd[p]) /\ cmd[p].kind = "userdel" /\ cmd[p].name \in Names
  BY DEF AccInv, AccPcs, IsAdd, IsDel
<1> USE DEF AccLabels, AddLabels
<1>4. CASE UserAdd(o)
  <2>1. /\ IsAdd(c) /\ IsAccount(c) /\ pc[o] = "useradd" /\ UNCHANGED <<limit, warned>>
    BY <1>4, <1>2 DEF UserAdd, IsDel
  <2>2. CASE UNCHANGED <<users, homedir, owner, homeless>> /\ Over(o)
    <3>1. Moves(o, "ok") /\ cmd'[o] # c
      BY <1>2, <2>1, <2>2 DEF Moves
    <3>2. AccTypes' /\ UidsUnique'
      BY <2>1, <2>2 DEF AccInv, AccTypes, AccountsTypeOK, UidsUnique
    <3>3. ASSUME NEW p \in Ops \ {o}, IsAccount(cmd[p]), p \notin undone, Same(p)
          PROVE  /\ cmd[p].kind = "useradd" => Added(p)'
                 /\ cmd[p].kind = "userdel" => Deleted(p)'
      BY <2>1, <2>2, <3>3 DEF AccInv, AccDone, Added, Deleted, Same
    <3> QED
      BY <1>1, <2>1, <3>1, <3>2, <3>3 DEF IsAdd
  <2>3. ASSUME NEW u \in Free(c), users[n] = None,
               users' = [users EXCEPT ![n] = u],
               homedir' = [homedir EXCEPT ![n] = c.dir],
               \/ /\ MakeHome(o, c.dir, u)
                  /\ Goto(o, IF c.quota > 0 THEN "setquota" ELSE "ok")
               \/ /\ \E S \in SUBSET {e \in Around(c.dir) : owner[e] = None} :
                       owner' = [e \in Dirs |-> IF e \in S THEN 0 ELSE owner[e]]
                  /\ Over(o) /\ UNCHANGED homeless
        PROVE  AccInv'
    <3> DEFINE l == IF c.quota > 0 THEN "setquota" ELSE "ok"
               d == c.dir
    <3>1. Moves(o, l) /\ l \in {"setquota", "ok"} /\ (l = "ok" => ~(c.quota > 0))
      BY <2>3 DEF Moves, Goto
    <3>2. /\ u \in Uids /\ u # None /\ c.uid \in {0, u} /\ n \in Names
          /\ \A m \in Names : users[m] # u
          /\ c.quota \in Nat /\ d \in Dirs /\ Around(d) \subseteq Dirs
      BY <2>1, <2>3, AccountsOK DEF Free, IsAdd, Around
    <3>o. owner \in [Dirs -> Uids \cup {0, None}] /\ homeless \subseteq Ops
      BY DEF AccInv, AccTypes, AccountsTypeOK
    <3>h. /\ owner' \in [Dirs -> Uids \cup {0, None}]
          /\ \A e \in Dirs : owner[e] # None \/ e \notin {d} \cup Around(d) =>
               owner'[e] = owner[e]
          /\ homeless \subseteq homeless' /\ homeless' \subseteq Ops
          /\ cmd'[o] = c => o \in homeless' \/ owner'[d] = u
      <4>1. CASE MakeHome(o, d, u)
        BY <4>1, <3>o, <3>2 DEF MakeHome
      <4>2. CASE /\ \E S \in SUBSET {e \in Around(d) : owner[e] = None} :
                      owner' = [e \in Dirs |-> IF e \in S THEN 0 ELSE owner[e]]
                 /\ Over(o) /\ UNCHANGED homeless
        <5>1. cmd'[o] # c
          BY <1>2, <2>1, <4>2
        <5> QED
          BY <4>2, <5>1, <3>o, <3>2
      <4> QED
        BY <2>3, <4>1, <4>2
    <3>3. /\ \A m \in Names : users'[m] = IF m = n THEN u ELSE users[m]
          /\ \A m \in Names : homedir'[m] = IF m = n THEN d ELSE homedir[m]
      BY <2>3, <3>2 DEF AccInv, AccTypes, AccountsTypeOK
    <3>4. AccTypes'
      <4>1. /\ users' \in [Names -> Uids \cup {None}]
            /\ homedir' \in [Names -> Dirs \cup {None}]
        BY <2>3, <3>2 DEF AccInv, AccTypes, AccountsTypeOK
      <4>2. \A m \in Names : users'[m] # None => homedir'[m] \in Dirs
        BY <3>2, <3>3 DEF AccInv, AccTypes
      <4> QED
        BY <2>1, <4>1, <4>2, <3>h DEF AccInv, AccTypes, AccountsTypeOK
    <3>5. UidsUnique'
      BY <3>2, <3>3 DEF AccInv, UidsUnique
    <3>6. ASSUME NEW p \in Ops \ {o}, IsAccount(cmd[p]), p \notin undone,
                 ~AccountUndoes(c, cmd[p]), Same(p)
          PROVE  /\ cmd[p].kind = "useradd" => Added(p)'
                 /\ cmd[p].kind = "userdel" => Deleted(p)'
      <4>1. CASE IsAdd(cmd[p])
        <5>1. Added(p) /\ cmd[p].name \in Names /\ cmd[p].kind = "useradd"
              /\ cmd[p].dir \in Dirs
          BY <3>6, <4>1 DEF AccInv, AccDone, IsAdd
        <5>2. cmd[p].name = n => pc[p] \notin {"setquota", "ok"}
          BY <2>3, <5>1 DEF Added
        <5>3. owner[cmd[p].dir] # None => owner'[cmd[p].dir] = owner[cmd[p].dir]
          BY <5>1, <3>h
        <5> QED
          BY <2>1, <3>2, <3>3, <3>h, <3>6, <5>1, <5>2, <5>3 DEF Added, Same
      <4>2. CASE IsDel(cmd[p])
        <5>1. Deleted(p) /\ cmd[p].name \in Names /\ cmd[p].kind = "userdel"
              /\ cmd[p].name # n
          BY <2>1, <3>6, <4>2 DEF AccInv, AccDone, IsAdd, IsDel, AccountUndoes
        <5>2. cmd[p].dir \notin {d} \cup Around(d)
          BY <2>1, <3>6, <5>1 DEF AccountUndoes, IsAdd
        <5> QED
          BY <3>3, <3>h, <3>6, <5>1, <5>2 DEF Deleted, Same
      <4> QED
        BY <1>3, <3>6, <4>1, <4>2
    <3>7. cmd'[o] = c /\ Own(o, l) /\ o \notin undone =>
            /\ c.kind = "useradd" => Added(o)'
            /\ c.kind = "userdel" => Deleted(o)'
      <4> SUFFICES ASSUME cmd'[o] = c, Own(o, l), o \notin undone
                   PROVE  Added(o)'
        BY <2>1 DEF IsAdd
      <4>1. c # Nothing
        BY <2>1 DEF IsAccount, Nothing
      <4>3. pc'[o] = l
        BY <4>1 DEF Own
      <4> QED
        BY <3>1, <3>2, <3>3, <3>h, <4>3 DEF Added
    <3> HIDE DEF l
    <3> QED
      BY <1>1, <2>1, <2>3, <3>1, <3>4, <3>5, <3>6, <3>7 DEF IsAdd
  <2> QED
    BY <1>4, <2>2, <2>3 DEF UserAdd
<1>5. CASE SetQuota(o)
  <2> DEFINE u == users[n]
  <2>1. /\ IsAdd(c) /\ IsAccount(c) /\ pc[o] = "setquota"
        /\ UNCHANGED <<users, homedir, owner, homeless>> /\ Moves(o, "ok")
        /\ n \in Names /\ c.quota \in Nat
        /\ \/ /\ u # None /\ limit' = [limit EXCEPT ![u] = BlockLimits(c.quota)]
              /\ UNCHANGED warned
           \/ UNCHANGED limit /\ warned' = warned \cup {o}
    BY <1>5, <1>2, AccountsOK DEF SetQuota, IsAdd, IsDel, Goto, Moves
  <2>2. u \in Uids \cup {None}
    BY <2>1 DEF AccInv, AccTypes, AccountsTypeOK
  <2>3. /\ \A v \in Uids : limit'[v] = limit[v]
                           \/ (v = u /\ limit'[v] = BlockLimits(c.quota))
        /\ u # None => limit'[u] = BlockLimits(c.quota) \/ o \in warned'
        /\ warned \subseteq warned'
        /\ limit' = [v \in Uids |-> limit'[v]] /\ warned' \subseteq Ops
    BY <2>1, <2>2 DEF AccInv, AccTypes, AccountsTypeOK
  <2>4. AccTypes' /\ UidsUnique'
    BY <2>1, <2>3, LimitsConfine
    DEF AccInv, AccTypes, AccountsTypeOK, UidsUnique
  <2>5. ASSUME NEW p \in Ops \ {o}, IsAccount(cmd[p]), p \notin undone,
               ~AccountUndoes(c, cmd[p]), Same(p)
        PROVE  /\ cmd[p].kind = "useradd" => Added(p)'
               /\ cmd[p].kind = "userdel" => Deleted(p)'
    <3>1. CASE IsAdd(cmd[p])
      <4>1. Added(p) /\ cmd[p].name \in Names /\ cmd[p].kind = "useradd"
        BY <2>5, <3>1 DEF AccInv, AccDone, IsAdd
      <4>2. ASSUME pc[p] = "ok", cmd[p].quota >= 1024, p \notin warned \cup raced
            PROVE  limit'[users[cmd[p].name]] = BlockLimits(cmd[p].quota)
        <5> DEFINE v == users[cmd[p].name]
        <5>1. v \in Uids /\ limit[v] = BlockLimits(cmd[p].quota)
          BY <4>1, <4>2 DEF Added, AccInv, AccTypes, AccountsTypeOK
        <5>2. CASE v = u
          <6>1. cmd[p].name = n
            BY <2>1, <4>1, <4>2, <5>2 DEF AccInv, UidsUnique, Added
          <6>2. ~AccountDisturbs(cmd[p], c)
            BY <2>1, <4>2 DEF AccInv, AccRaced, Busy
          <6>3. cmd[p].quota = c.quota
            BY <2>1, <4>1, <6>1, <6>2 DEF AccountDisturbs, IsAdd
          <6> QED
            BY <5>1, <6>3, <2>3
        <5>3. CASE v # u
          BY <5>1, <5>3, <2>3
        <5> QED
          BY <5>2, <5>3
      <4> QED
        BY <2>1, <2>3, <2>5, <4>1, <4>2 DEF Added, Same
    <3>2. CASE IsDel(cmd[p])
      BY <2>1, <2>5, <3>2 DEF AccInv, AccDone, Deleted, Same, IsDel
    <3> QED
      BY <1>3, <2>5, <3>1, <3>2
  <2>6. cmd'[o] = c /\ Own(o, "ok") /\ o \notin undone =>
          /\ c.kind = "useradd" => Added(o)'
          /\ c.kind = "userdel" => Deleted(o)'
    <3> SUFFICES ASSUME cmd'[o] = c, Own(o, "ok"), o \notin undone
                 PROVE  Added(o)'
      BY <2>1 DEF IsAdd
    <3>1. Added(o) /\ c # Nothing
      BY <2>1 DEF AccInv, AccDone, IsAdd, IsAccount, Nothing
    <3> QED
      BY <2>1, <2>3, <3>1 DEF Added, Own
  <2> QED
    BY <1>1, <2>1, <2>4, <2>5, <2>6 DEF IsAdd
<1>6. CASE UserDel(o)
  <2>1. /\ IsDel(c) /\ IsAccount(c) /\ pc[o] = "userdel" /\ n \in Names
        /\ UNCHANGED <<limit, warned>> /\ Moves(o, "ok")
    BY <1>6, <1>2 DEF UserDel, IsAdd, IsDel, Goto, Moves
  <2> DEFINE d == homedir[n]
             removable == c.purge /\ owner[d] \in {None, users[n]}
             all == IF removable THEN Within(d) ELSE {}
  <2>2. CASE UNCHANGED <<users, homedir, owner, homeless>> /\ Over(o)
    <3>1. cmd'[o] # c
      BY <1>2, <2>1, <2>2
    <3>2. AccTypes' /\ UidsUnique'
      BY <2>1, <2>2 DEF AccInv, AccTypes, AccountsTypeOK, UidsUnique
    <3>3. ASSUME NEW p \in Ops \ {o}, IsAccount(cmd[p]), p \notin undone, Same(p)
          PROVE  /\ cmd[p].kind = "useradd" => Added(p)'
                 /\ cmd[p].kind = "userdel" => Deleted(p)'
      BY <2>1, <2>2, <3>3 DEF AccInv, AccDone, Added, Deleted, Same
    <3> QED
      BY <1>1, <2>1, <3>1, <3>2, <3>3 DEF IsDel
  <2>3. ASSUME NEW S \in SUBSET all, Purge(S), users[n] # None,
               users' = [users EXCEPT ![n] = None],
               homedir' = [homedir EXCEPT ![n] = None],
               cmd'[o] = c => S = all /\ (removable \/ ~c.purge)
        PROVE  AccInv'
    <3>1. all \subseteq Dirs /\ d \in Dirs /\ (removable => d \in all)
      BY <2>1, <2>3 DEF AccInv, AccTypes, Within
    <3> HIDE DEF all, removable
    <3>2. /\ \A m \in Names : users'[m] = IF m = n THEN None ELSE users[m]
          /\ \A m \in Names : homedir'[m] = IF m = n THEN None ELSE homedir[m]
          /\ \A e \in Dirs : owner'[e] = IF e \in S THEN None ELSE owner[e]
      BY <2>1, <2>3 DEF AccInv, AccTypes, AccountsTypeOK, Purge
    <3>3. /\ homeless \subseteq homeless' /\ homeless' \subseteq Ops
          /\ \A p \in Ops : cmd[p].kind = "useradd" /\ pc[p] \in {"setquota", "ok"}
                              /\ cmd[p].dir \in S => p \in homeless'
      BY <2>3 DEF Purge, AccInv, AccTypes, AccountsTypeOK
    <3>4. AccTypes'
      <4>1. /\ users' \in [Names -> Uids \cup {None}]
            /\ homedir' \in [Names -> Dirs \cup {None}]
        BY <2>1, <2>3 DEF AccInv, AccTypes, AccountsTypeOK
      <4>2. owner' \in [Dirs -> Uids \cup {0, None}]
        BY <2>3 DEF AccInv, AccTypes, AccountsTypeOK, Purge
      <4>3. \A m \in Names : users'[m] # None => homedir'[m] \in Dirs
        BY <3>2 DEF AccInv, AccTypes
      <4> QED
        BY <2>1, <3>3, <4>1, <4>2, <4>3 DEF AccInv, AccTypes, AccountsTypeOK
    <3>5. UidsUnique'
      BY <3>2 DEF AccInv, UidsUnique
    <3>6. ASSUME NEW p \in Ops \ {o}, IsAccount(cmd[p]), p \notin undone,
                 ~AccountUndoes(c, cmd[p]), Same(p)
          PROVE  /\ cmd[p].kind = "useradd" => Added(p)'
                 /\ cmd[p].kind = "userdel" => Deleted(p)'
      <4>1. CASE IsAdd(cmd[p])
        <5>1. Added(p) /\ cmd[p].name \in Names \ {n} /\ cmd[p].kind = "useradd"
              /\ cmd[p].dir \in Dirs
          BY <2>1, <3>6, <4>1 DEF AccInv, AccDone, IsAdd, IsDel, AccountUndoes
        <5>2. pc[p] \in {"setquota", "ok"} =>
                p \in homeless' \/ owner'[cmd[p].dir] = users'[cmd[p].name]
          BY <5>1, <3>2, <3>3 DEF Added
        <5> QED
          BY <2>1, <3>2, <3>6, <5>1, <5>2 DEF Added, Same
      <4>2. CASE IsDel(cmd[p])
        <5>1. Deleted(p) /\ cmd[p].name \in Names /\ cmd[p].kind = "userdel"
          BY <3>6, <4>2 DEF AccInv, AccDone, IsDel
        <5> QED
          BY <3>2, <3>6, <5>1 DEF Deleted, Same
      <4> QED
        BY <1>3, <3>6, <4>1, <4>2
    <3>7. cmd'[o] = c /\ Own(o, "ok") /\ o \notin undone =>
            /\ c.kind = "useradd" => Added(o)'
            /\ c.kind = "userdel" => Deleted(o)'
      <4> SUFFICES ASSUME cmd'[o] = c, Own(o, "ok"), o \notin undone
                   PROVE  Deleted(o)'
        BY <2>1 DEF IsDel
      <4>1. Deleted(o) /\ pc'[o] = "ok"
        BY <2>1 DEF AccInv, AccDone, IsDel, Own, IsAccount, Nothing
      <4>2. d = c.dir
        BY <2>1, <2>3, <4>1 DEF Deleted
      <4>3. c.purge => d \in S
        BY <2>3, <3>1
      <4> QED
        BY <2>1, <3>1, <3>2, <4>1, <4>2, <4>3 DEF Deleted
    <3> QED
      BY <1>1, <2>1, <3>4, <3>5, <3>6, <3>7 DEF IsDel
  <2>4. ASSUME ~(UNCHANGED <<users, homedir, owner, homeless>> /\ Over(o))
        PROVE  \E S \in SUBSET all :
                 /\ Purge(S) /\ users[n] # None
                 /\ users' = [users EXCEPT ![n] = None]
                 /\ homedir' = [homedir EXCEPT ![n] = None]
                 /\ cmd'[o] = c => S = all /\ (removable \/ ~c.purge)
    <3>1. /\ users[n] # None
          /\ users' = [users EXCEPT ![n] = None]
          /\ homedir' = [homedir EXCEPT ![n] = None]
          /\ \/ (removable \/ ~c.purge) /\ Purge(all) /\ Goto(o, "ok")
             \/ \E S \in {all} \cup SUBSET (all \ {d}) : Purge(S) /\ Over(o)
      BY <1>6, <2>4 DEF UserDel
    <3>2. Over(o) => cmd'[o] # c
      BY <1>2, <2>1
    <3> HIDE DEF all, removable
    <3>3. CASE (removable \/ ~c.purge) /\ Purge(all)
      BY <3>1, <3>3
    <3>4. CASE \E S \in {all} \cup SUBSET (all \ {d}) : Purge(S) /\ Over(o)
      <4>1. PICK S \in {all} \cup SUBSET (all \ {d}) : Purge(S) /\ Over(o)
        BY <3>4
      <4>2. S \in SUBSET all
        OBVIOUS
      <4>3. cmd'[o] # c
        BY <4>1, <3>2
      <4> QED
        BY <3>1, <4>1, <4>2, <4>3
    <3> QED
      BY <3>1, <3>3, <3>4
  <2> HIDE DEF all, removable
  <2> QED
    BY <2>2, <2>3, <2>4
<1> QED
  BY <1>4, <1>5, <1>6 DEF AccountStep

\* What the invariant says of the commands that stand.
LEMMA AccInvHolds == AccInv => OutcomeAccount /\ OutcomeNoAccount
<1> SUFFICES ASSUME AccInv PROVE OutcomeAccount /\ OutcomeNoAccount
  OBVIOUS
<1>1. \A o \in Ops : Stands(o) => o \notin undone /\ pc[o] = "ok"
  BY DEF AccInv, AccPcs, Stands, Busy
<1>2. \A o \in Ops : Stands(o) /\ cmd[o].kind = "useradd" =>
        Added(o) /\ cmd[o].quota \in Nat
  BY <1>1, AccountsOK DEF AccInv, AccDone, AccPcs, IsAccount, IsAdd, IsDel
<1>3. \A o \in Ops : Stands(o) /\ cmd[o].kind = "userdel" => Deleted(o)
  BY <1>1 DEF AccInv, AccDone, IsAccount
<1>4. OutcomeAccount
  BY <1>1, <1>2, LimitsConfine DEF OutcomeAccount, Added
<1>5. OutcomeNoAccount
  BY <1>1, <1>3 DEF OutcomeNoAccount, Deleted
<1> QED
  BY <1>4, <1>5

-----------------------------------------------------------------------------
(* DNS: names.                                                             *)

\* The RRset of what is meant by a record, without its spelling.
Meant(z, m) ==
  [zone |-> z,
   name |-> m.at,
   type |-> m.type,
   ttl  |-> IF m.ttl = 0 THEN 300 ELSE m.ttl,
   data |-> IF m.prio > 0 THEN <<m.prio, m.content>> ELSE <<m.content>>]

SetsOf(c) == {Meant(c.zone.labels, r.meant) : r \in c.recs}

\* Every spelling of a name is expanded to that name.
LEMMA SpellingsExpanded ==
  ASSUME NEW at, NEW labels, NEW dot \in BOOLEAN, at # <<"@">> \o labels,
         NEW n \in Spellings(at, labels)
  PROVE  fqdn(expandName(n, fqdn(Written(labels, dot)))).labels = at
<1> DEFINE z == fqdn(Written(labels, dot))
<1>1. z.labels = labels /\ fqdn(z).labels = labels
  BY DEF fqdn, Written
<1>2. \A l, d : /\ Written(l, d).labels = l
                /\ Written(l, d).dot = d
                /\ fqdn(Written(l, d)).labels = l
  BY DEF fqdn, Written
<1> HIDE DEF z
<1>3. CASE n = Written(at, TRUE)
  BY <1>2, <1>3 DEF expandName, z
<1>4. CASE \E p \in Prefixes(at) \ {<<>>} : p \o labels = at /\ n = Written(p, FALSE)
  <2>1. PICK p \in Prefixes(at) \ {<<>>} : p \o labels = at /\ n = Written(p, FALSE)
    BY <1>4
  <2>2. p \notin {<<>>, <<"@">>}
    BY <2>1
  <2>3. n.labels = p /\ n.dot = FALSE
    BY <1>2, <2>1
  <2>4. expandName(n, z) = Written(at, TRUE)
    BY <1>1, <2>1, <2>2, <2>3 DEF expandName
  <2> QED
    BY <1>2, <2>4 DEF z
<1>5. CASE at = labels /\ n \in {Written(<<"@">>, FALSE), Written(<<>>, FALSE)}
  <2>1. n.dot = FALSE /\ n.labels \in {<<>>, <<"@">>}
    <3>1. CASE n = Written(<<"@">>, FALSE)
      <4>1. n.labels = <<"@">> /\ n.dot = FALSE
        BY <3>1 DEF Written
      <4> QED
        BY <4>1
    <3>2. CASE n = Written(<<>>, FALSE)
      <4>1. n.labels = <<>> /\ n.dot = FALSE
        BY <3>2 DEF Written
      <4> QED
        BY <4>1
    <3> QED
      BY <1>5, <3>1, <3>2
  <2>2. expandName(n, z) = z
    BY <2>1 DEF expandName
  <2> QED
    BY <1>1, <1>5, <2>2 DEF z
<1> QED
  BY <1>3, <1>4, <1>5 DEF Spellings

\* upsertRecords sends what is meant.
LEMMA SentAsMeant ==
  ASSUME NEW c, DnsSent(c)
  PROVE  /\ {RRset(r, fqdn(c.zone)) : r \in c.recs} = SetsOf(c)
         /\ fqdn(c.zone).labels = c.zone.labels
<1>1. PICK dot \in BOOLEAN : c.zone = Written(c.zone.labels, dot)
  BY DEF DnsSent
<1>2. fqdn(c.zone).labels = c.zone.labels
  BY <1>1 DEF fqdn, Written
<1>3. ASSUME NEW r \in c.recs
      PROVE  RRset(r, fqdn(c.zone)) = Meant(c.zone.labels, r.meant)
  <2>1. fqdn(expandName(r.name, fqdn(c.zone))).labels = r.meant.at
    BY <1>1, SpellingsExpanded DEF DnsSent
  <2> QED
    BY <1>2, <2>1 DEF RRset, Meant
<1> QED
  BY <1>2, <1>3 DEF SetsOf

\* A zone that has it serves what is meant.
LEMMA MeantServes ==
  ASSUME NEW z, NEW m, m.ttl \in Nat, m.prio \in Nat, Meant(z, m) \in rrsets
  PROVE  Serves(z, m)
<1> DEFINE s == Meant(z, m)
<1>1. /\ s.zone = z /\ s.name = m.at /\ s.type = m.type
      /\ s.ttl > 0 /\ m.ttl \in {0, s.ttl}
      /\ s.data = IF m.prio = 0 THEN <<m.content>> ELSE <<m.prio, m.content>>
  BY DEF Meant
<1> HIDE DEF s
<1> QED
  BY <1>1 DEF Serves, s

\* Two commands that set one RRset of a zone agree on it or clash.
LEMMA SameOrClash ==
  ASSUME NEW c, NEW e, NEW s \in SetsOf(c), NEW t \in SetsOf(e), SameSet(s, t)
  PROVE  /\ c.zone.labels = e.zone.labels /\ s.zone = c.zone.labels
         /\ s = t \/ Clash(c, e)
         /\ c.kind = "delrecord" \/ e.kind = "delrecord" => Clash(c, e)
<1>1. PICK r \in c.recs : s = Meant(c.zone.labels, r.meant)
  BY DEF SetsOf
<1>2. PICK q \in e.recs : t = Meant(e.zone.labels, q.meant)
  BY DEF SetsOf
<1>3. /\ s.zone = c.zone.labels /\ t.zone = e.zone.labels
      /\ Key(r) = <<s.name, s.type>> /\ Key(q) = <<t.name, t.type>>
  BY <1>1, <1>2 DEF Meant, Key
<1>4. Key(r) = Key(q) /\ c.zone.labels = e.zone.labels
  BY <1>3 DEF SameSet
<1>5. r.meant = q.meant => s = t
  BY <1>1, <1>2, <1>4
<1> QED
  BY <1>3, <1>4, <1>5 DEF Clash

-----------------------------------------------------------------------------
(* DNS: zones and records.                                                 *)

DnsLabels == {"postzone", "upsert", "delrecord", "deletezone"}

\* Where a command of each kind may be.
DnsPlaced(c, l) ==
  /\ DnsSent(c)
  /\ c.kind = "createzone" =>
       l \in {"postzone", "ok"} \cup IF c.recs = {} THEN {} ELSE {"upsert"}
  /\ c.kind = "upsert" => l \in {"upsert", "ok"}
  /\ c.kind = "delrecord" => l \in {"delrecord", "ok"}
  /\ c.kind = "deletezone" => l \in {"deletezone", "ok"}

DnsPcs ==
  /\ pc = [o \in Ops |-> pc[o]]
  /\ undone \subseteq {o \in Ops : Busy(o)}
  /\ \A o \in Ops :
       /\ pc[o] \in DnsLabels => IsDns(cmd[o])
       /\ IsDns(cmd[o]) => DnsPlaced(cmd[o], pc[o])

\* While a command is in progress, the outcomes that it may undo are withdrawn.
DnsUndone ==
  \A o, q \in Ops :
    Busy(q) /\ q # o /\ IsDns(cmd[o]) /\ DnsUndoes(cmd[q], cmd[o]) => o \in undone

DnsRaced ==
  \A o, q \in Ops :
    Busy(o) /\ Busy(q) /\ q # o /\ DnsDisturbs(cmd[q], cmd[o]) => o \in raced

\* No creation of the zone that is under way will replace the records: it has
\* been refused, or will be.
Settled(c) == \A q \in Ops : ~(pc[q] = "upsert" /\ DnsDisturbs(cmd[q], c))

\* What a command that has succeeded has done.
Achieved(o) ==
  LET c == cmd[o] IN
  /\ Sets(c) /\ o \notin raced =>
       c.zone.labels \in zones /\ SetsOf(c) \subseteq rrsets /\ Settled(c)
  /\ c.kind = "delrecord" => \A s \in rrsets, t \in SetsOf(c) : ~SameSet(s, t)
  /\ c.kind = "deletezone" =>
       c.zone.labels \notin zones /\ \A s \in rrsets : s.zone # c.zone.labels

DnsDone == \A o \in Ops : IsDns(cmd[o]) /\ pc[o] = "ok" => Achieved(o)

DnsInv == DnsPcs /\ DnsUndone /\ DnsRaced /\ DnsDone

\* It holds of a host that starts.
LEMMA DnsInvInit == CommandsInit /\ DnsInit => DnsInv
<1> SUFFICES ASSUME CommandsInit, DnsInit PROVE DnsInv
  OBVIOUS
<1>1. \A o \in Ops : pc[o] = "idle" /\ ~IsDns(cmd[o]) /\ ~Busy(o)
  BY DEF CommandsInit, IsDns, Nothing, Busy
<1>2. DnsPcs
  BY <1>1 DEF CommandsInit, DnsPcs, DnsLabels
<1> QED
  BY <1>1, <1>2 DEF DnsInv, DnsUndone, DnsRaced, DnsDone

-----------------------------------------------------------------------------
(* Commands of other kinds, and a restart.                                 *)

DnsForeign(o) == pc'[o] \notin DnsLabels /\ ~IsDns(cmd'[o])

DnsAside ==
  /\ UNCHANGED dns
  /\ pc' = [o \in Ops |-> pc'[o]]
  /\ undone' \subseteq {o \in Ops : Busy(o)'}
  /\ \A o \in Ops : Stays(o) \/ DnsForeign(o)

\* They keep it.
LEMMA DnsInvAside ==
  ASSUME DnsInv, DnsAside
  PROVE  DnsInv'
<1> USE DEF DnsInv, DnsAside, Stays
<1>1. DnsPcs'
  BY DEF DnsPcs, DnsForeign
<1>2. DnsUndone'
  BY DEF DnsUndone, DnsForeign, Busy, DnsUndoes
<1>3. DnsRaced'
  BY DEF DnsRaced, DnsForeign, Busy, DnsDisturbs, IsDns, Sets
<1>4. DnsDone'
  <2> SUFFICES ASSUME NEW o \in Ops, IsDns(cmd'[o]), pc'[o] = "ok"
               PROVE  Achieved(o)'
    BY DEF DnsDone
  <2>1. /\ Achieved(o) /\ pc'[o] = pc[o] /\ cmd'[o] = cmd[o]
        /\ o \notin raced' => o \notin raced
    BY DEF DnsDone, DnsForeign
  <2>2. Settled(cmd[o]) => \A q \in Ops : ~(pc'[q] = "upsert" /\ DnsDisturbs(cmd'[q], cmd[o]))
    BY DEF Settled, DnsForeign, DnsLabels
  <2>3. UNCHANGED <<zones, rrsets>>
    BY DEF dns
  <2> QED
    BY <2>1, <2>2, <2>3 DEF Achieved, Settled
<1> QED
  BY <1>1, <1>2, <1>3, <1>4
-----------------------------------------------------------------------------
(* A DNS command arrives.                                                  *)

\* c arrives at step l; commands whose outcome it may undo are over.
DnsBegun(o, c, l) ==
  /\ UNCHANGED dns
  /\ pc[o] = "idle" /\ pc' = [p \in Ops |-> pc'[p]]
  /\ pc'[o] = l /\ cmd'[o] = c
  /\ \A p \in Ops \ {o} :
       \/ /\ pc[p] = "ok" /\ DnsUndoes(c, cmd[p])
          /\ pc'[p] = "over" /\ cmd'[p] = Nothing
       \/ /\ ~(pc[p] = "ok" /\ DnsUndoes(c, cmd[p]))
          /\ Stays(p)
  /\ undone' = undone \cup {p \in Ops : Busy(p) /\ DnsUndoes(c, cmd[p])}
               \cup {p \in {o} : \E q \in Ops : Busy(q) /\ DnsUndoes(cmd[q], c)}
  /\ \A p \in Ops : Busy(p) /\ DnsDisturbs(c, cmd[p]) => p \in raced'
  /\ \A q \in Ops : Busy(q) /\ DnsDisturbs(cmd[q], c) => o \in raced'

\* BeginDns is the arrival of the command at the first step of its kind.
LEMMA DnsBegins ==
  ASSUME NEW o \in Ops, NEW c, IsDns(c), BeginDns(o, c)
  PROVE  DnsBegun(o, c, IF c.kind = "createzone" THEN "postzone" ELSE c.kind)
<1> DEFINE old == {p \in Ops : pc[p] = "ok" /\ DnsUndoes(c, cmd[p])}
           l == IF c.kind = "createzone" THEN "postzone" ELSE c.kind
<1>1. /\ pc[o] = "idle" /\ UNCHANGED dns
      /\ pc' = [p \in Ops |-> IF p = o THEN l ELSE IF p \in old THEN "over"
                                ELSE pc[p]]
      /\ cmd' = [p \in Ops |-> IF p = o THEN c
                                 ELSE IF p \in old THEN Nothing ELSE cmd[p]]
      /\ undone' = undone
                   \cup {p \in Ops : Busy(p) /\ DnsUndoes(c, cmd[p])}
                   \cup {p \in {o} : \E q \in Ops :
                           Busy(q) /\ DnsUndoes(cmd[q], c)}
      /\ raced' = (raced \ old)
                  \cup {p \in Ops : Busy(p) /\ DnsDisturbs(c, cmd[p])}
                  \cup {p \in {o} : \E q \in Ops :
                          Busy(q) /\ DnsDisturbs(cmd[q], c)}
  BY Zenon DEF BeginDns, Arrive
<1>2. \A p : p \in old <=> p \in Ops /\ pc[p] = "ok" /\ DnsUndoes(c, cmd[p])
  OBVIOUS
<1> HIDE DEF l, old
<1>3. pc' = [p \in Ops |-> pc'[p]]
  BY <1>1
<1>4. /\ \A p \in Ops : Busy(p) /\ DnsDisturbs(c, cmd[p]) => p \in raced'
      /\ \A q \in Ops : Busy(q) /\ DnsDisturbs(cmd[q], c) => o \in raced'
  BY <1>1
<1>5. ASSUME NEW p \in Ops \ {o}
      PROVE  \/ /\ pc[p] = "ok" /\ DnsUndoes(c, cmd[p])
                /\ pc'[p] = "over" /\ cmd'[p] = Nothing
             \/ /\ ~(pc[p] = "ok" /\ DnsUndoes(c, cmd[p]))
                /\ Stays(p)
  <2>1. p \in undone => p \in undone'
    BY <1>1
  <2> QED
    BY <1>1, <1>2, <2>1 DEF Stays
<1>6. pc'[o] = l /\ cmd'[o] = c /\ pc[o] = "idle" /\ UNCHANGED dns
  BY <1>1
<1> QED
  BY <1>1, <1>3, <1>4, <1>5, <1>6, Zenon DEF DnsBegun, l

\* A command that arrives keeps the invariant.
LEMMA DnsInvBegin ==
  ASSUME DnsInv, NEW o \in Ops, NEW c, IsDns(c), DnsSent(c), BeginDns(o, c)
  PROVE  DnsInv'
<1> DEFINE l == IF c.kind = "createzone" THEN "postzone" ELSE c.kind
<1> USE DEF DnsInv
<1>1. DnsBegun(o, c, l)
  BY DnsBegins
<1>2. /\ l \in DnsLabels /\ DnsPlaced(c, l)
      /\ l = "upsert" => c.kind = "upsert"
  BY DEF DnsLabels, IsDns, DnsPlaced
<1> HIDE DEF l
<1>3. \A p \in Ops \ {o} :
        /\ Busy(p)' <=> Busy(p)
        /\ Busy(p) => cmd'[p] = cmd[p]
        /\ IsDns(cmd'[p]) => Stays(p) /\ ~(pc[p] = "ok" /\ DnsUndoes(c, cmd[p]))
        /\ pc'[p] \in DnsLabels => Stays(p)
  BY <1>1 DEF DnsBegun, Busy, Stays, IsDns, Nothing, DnsLabels
<1>4. pc'[o] = l /\ cmd'[o] = c /\ Busy(o)' /\ ~Busy(o)
  BY <1>1, <1>2 DEF DnsBegun, Busy, DnsLabels
<1>5. DnsPcs'
  <2>1. undone' \subseteq {p \in Ops : Busy(p)'}
    BY <1>1, <1>3, <1>4 DEF DnsPcs, DnsBegun
  <2>2. \A p \in Ops \ {o} :
          /\ pc'[p] \in DnsLabels => IsDns(cmd'[p])
          /\ IsDns(cmd'[p]) => DnsPlaced(cmd'[p], pc'[p])
    BY <1>3 DEF DnsPcs, Stays
  <2> QED
    BY <1>1, <1>2, <1>4, <2>1, <2>2 DEF DnsPcs, DnsBegun
<1>6. DnsUndone'
  <2> SUFFICES ASSUME NEW p \in Ops, NEW q \in Ops, Busy(q)', q # p,
                      IsDns(cmd'[p]), DnsUndoes(cmd'[q], cmd'[p])
               PROVE  p \in undone'
    BY DEF DnsUndone
  <2>1. CASE p = o
    BY <2>1, <1>1, <1>3, <1>4 DEF DnsBegun
  <2>2. CASE p # o /\ q = o
    <3>1. Busy(p)
      BY <2>2, <1>3, <1>4 DEF Stays, DnsPcs, Busy, DnsPlaced, IsDns
    <3> QED
      BY <2>2, <3>1, <1>1, <1>3, <1>4 DEF DnsBegun
  <2>3. CASE p # o /\ q # o
    BY <2>3, <1>3 DEF Stays, DnsUndone
  <2> QED
    BY <2>1, <2>2, <2>3
<1>7. DnsRaced'
  <2> SUFFICES ASSUME NEW p \in Ops, NEW q \in Ops, Busy(p)', Busy(q)', q # p,
                      DnsDisturbs(cmd'[q], cmd'[p])
               PROVE  p \in raced'
    BY DEF DnsRaced
  <2>1. CASE p = o
    BY <2>1, <1>1, <1>3, <1>4 DEF DnsBegun
  <2>2. CASE q = o
    BY <2>2, <1>1, <1>3, <1>4 DEF DnsBegun
  <2>3. CASE p # o /\ q # o
    <3>1. p \in raced => p \in raced'
      BY <2>3, <1>1, <1>3 DEF DnsBegun, Stays, Busy
    <3> QED
      BY <2>3, <3>1, <1>3 DEF DnsRaced
  <2> QED
    BY <2>1, <2>2, <2>3
<1>8. DnsDone'
  <2> SUFFICES ASSUME NEW p \in Ops, IsDns(cmd'[p]), pc'[p] = "ok"
               PROVE  Achieved(p)'
    BY DEF DnsDone
  <2>1. p # o
    BY <1>2, <1>4 DEF DnsLabels
  <2>2. /\ Achieved(p) /\ pc'[p] = pc[p] /\ cmd'[p] = cmd[p]
        /\ p \notin raced' => p \notin raced
    BY <2>1, <1>3 DEF DnsDone, Stays
  <2>3. Settled(cmd[p]) =>
          \A q \in Ops : ~(pc'[q] = "upsert" /\ DnsDisturbs(cmd'[q], cmd[p]))
    BY <1>2, <1>3, <1>4 DEF Settled, DnsLabels, DnsDisturbs, Stays
  <2>4. UNCHANGED <<zones, rrsets>>
    BY <1>1 DEF DnsBegun, dns
  <2> QED
    BY <2>2, <2>3, <2>4 DEF Achieved, Settled
<1> QED
  BY <1>5, <1>6, <1>7, <1>8

-----------------------------------------------------------------------------
(* A DNS command takes a step.                                             *)

\* What a step may do.
DnsEffect(o) ==
  LET c == cmd[o]
      z == c.zone.labels
  IN
  /\ zones \ zones' \subseteq {y \in {z} : c.kind = "deletezone"}
  /\ zones' \ zones \subseteq {y \in {z} : c.kind = "createzone"}
  /\ \A s \in rrsets : s \notin rrsets' =>
       \/ c.kind = "deletezone" /\ s.zone = z
       \/ /\ c.kind = "delrecord" \/ (pc[o] = "upsert" /\ s \notin SetsOf(c))
          /\ \E t \in SetsOf(c) : SameSet(s, t)
  /\ \A s \in rrsets' : s \notin rrsets =>
       pc[o] = "upsert" /\ s \in SetsOf(c) /\ s.zone \in zones
  /\ pc'[o] = "upsert" => z \notin zones

\* A step of o keeps what p has achieved and what o does not undo.
LEMMA AchievedKept ==
  ASSUME DnsInv, NEW o \in Ops, NEW p \in Ops, p # o, IsDns(cmd[o]),
         pc[o] \in DnsLabels, IsDns(cmd[p]), pc[p] = "ok",
         ~DnsUndoes(cmd[o], cmd[p]),
         \A q \in Ops \ {o} : Same(q), DnsEffect(o),
         cmd'[o] = Nothing \/ cmd'[o] = cmd[o]
  PROVE  Achieved(p)'
<1> DEFINE c == cmd[o]
           e == cmd[p]
           z == e.zone.labels
<1>1. /\ Achieved(p) /\ pc'[p] = "ok" /\ cmd'[p] = e
      /\ p \notin raced' => p \notin raced
      /\ DnsPlaced(c, pc[o])
  BY DEF DnsInv, DnsDone, DnsPcs, Same
<1>2. ASSUME Sets(e), p \notin raced'
      PROVE  z \in zones' /\ SetsOf(e) \subseteq rrsets' /\ Settled(e)'
  <2>1. z \in zones /\ SetsOf(e) \subseteq rrsets /\ Settled(e)
    BY <1>1, <1>2 DEF Achieved
  <2>2. ~(c.kind = "deletezone" /\ c.zone.labels = z)
    BY <1>2 DEF DnsUndoes
  <2>3. z \in zones'
    BY <2>1, <2>2 DEF DnsEffect
  <2>4. ASSUME NEW s \in SetsOf(e)
        PROVE  s \in rrsets'
    <3>1. s.zone = z
      BY <2>4 DEF SetsOf, Meant
    <3> SUFFICES ASSUME s \notin rrsets' PROVE FALSE
      OBVIOUS
    <3>2. /\ c.kind = "delrecord" \/ (pc[o] = "upsert" /\ s \notin SetsOf(c))
          /\ \E t \in SetsOf(c) : SameSet(s, t)
      BY <2>1, <2>2, <2>4, <3>1 DEF DnsEffect
    <3>3. PICK t \in SetsOf(c) : SameSet(t, s)
      BY <3>2 DEF SameSet
    <3>4. c.zone.labels = z /\ Clash(c, e)
      BY <3>2, <3>3, <2>4, SameOrClash
    <3>5. CASE c.kind \in {"delrecord", "upsert"}
      BY <1>2, <3>4, <3>5 DEF DnsUndoes, Sets
    <3>6. CASE c.kind = "createzone"
      BY <1>2, <2>1, <3>2, <3>4, <3>6 DEF Settled, DnsDisturbs
    <3> QED
      BY <3>2, <3>5, <3>6, <1>1 DEF DnsPlaced, IsDns
  <2>5. ASSUME NEW q \in Ops, pc'[q] = "upsert", DnsDisturbs(cmd'[q], e)
        PROVE  FALSE
    <3>1. CASE q # o
      BY <2>1, <2>5, <3>1 DEF Settled, Same
    <3>2. CASE q = o
      <4>1. c.zone.labels \notin zones
        BY <2>5, <3>2 DEF DnsEffect
      <4>2. cmd'[o] = c
        BY <2>5, <3>2 DEF DnsDisturbs, Nothing
      <4> QED
        BY <2>1, <2>5, <3>2, <4>1, <4>2 DEF DnsDisturbs
    <3> QED
      BY <3>1, <3>2
  <2> QED
    BY <1>1, <2>3, <2>4, <2>5 DEF Settled
<1>3. ASSUME e.kind = "delrecord", NEW s \in rrsets', NEW t \in SetsOf(e), SameSet(s, t)
      PROVE  FALSE
  <2>1. s \notin rrsets
    BY <1>1, <1>3 DEF Achieved
  <2>2. pc[o] = "upsert" /\ s \in SetsOf(c)
    BY <1>3, <2>1 DEF DnsEffect
  <2>3. c.zone.labels = z /\ Clash(c, e)
    BY <1>3, <2>2, SameOrClash
  <2> QED
    BY <1>1, <1>3, <2>2, <2>3 DEF DnsUndoes, DnsPlaced, IsDns
<1>4. ASSUME e.kind = "deletezone"
      PROVE  z \notin zones' /\ \A s \in rrsets' : s.zone # z
  <2>1. z \notin zones /\ \A s \in rrsets : s.zone # z
    BY <1>1, <1>4 DEF Achieved
  <2>2. ~(c.kind = "createzone" /\ c.zone.labels = z)
    BY <1>4 DEF DnsUndoes
  <2> QED
    BY <2>1, <2>2 DEF DnsEffect
<1> QED
  BY <1>1, <1>2, <1>3, <1>4 DEF Achieved, Settled

\* A step keeps the invariant when its effect is within these bounds and its
\* own command has achieved what it reports.
LEMMA DnsInvMoved ==
  ASSUME DnsInv, NEW o \in Ops, pc[o] \in DnsLabels,
         NEW l \in DnsLabels \cup {"ok"}, Moves(o, l), DnsPlaced(cmd[o], l),
         DnsEffect(o),
         /\ cmd'[o] = cmd[o] /\ pc'[o] = "ok" /\ (o \in raced' <=> o \in raced)
         /\ \A p \in Ops \ {o} : Same(p)
         => Achieved(o)'
  PROVE  DnsInv'
<1> DEFINE c == cmd[o]
<1> USE DEF DnsInv
<1>1. /\ Own(o, l) /\ \A p \in Ops \ {o} : Same(p)
      /\ pc' = [p \in Ops |-> pc'[p]]
      /\ Over(o) => pc'[o] = "over" /\ cmd'[o] = Nothing /\ o \notin undone'
      /\ ~Over(o) => /\ pc'[o] = l /\ cmd'[o] = cmd[o]
                     /\ l # "ok" \/ o \notin undone'
  BY MovesFrame DEF DnsPcs
<1>2. IsDns(c) /\ Busy(o) /\ ~IsDns(Nothing)
  BY DEF DnsPcs, IsDns, Nothing, Busy, DnsLabels
<1>3. \A p \in Ops \ {o} : Busy(p)' <=> Busy(p)
  BY <1>1 DEF Busy, Same
<1>4. DnsPcs'
  <2>1. undone' \subseteq Ops
    BY DEF Moves, Over, Forget, DnsPcs
  <2>2. undone' \subseteq {p \in Ops : Busy(p)'}
    BY <1>1, <1>3, <2>1 DEF Same, DnsPcs, Busy, DnsLabels
  <2>3. \A p \in Ops :
          /\ pc'[p] \in DnsLabels => IsDns(cmd'[p])
          /\ IsDns(cmd'[p]) => DnsPlaced(cmd'[p], pc'[p])
    BY <1>1, <1>2 DEF Same, DnsPcs, DnsLabels
  <2> QED
    BY <1>1, <2>2, <2>3 DEF DnsPcs
<1>5. DnsUndone'
  <2> SUFFICES ASSUME NEW p \in Ops, NEW q \in Ops, Busy(q)', q # p,
                      IsDns(cmd'[p]), DnsUndoes(cmd'[q], cmd'[p])
               PROVE  p \in undone'
    BY DEF DnsUndone
  <2>1. ~\E e : DnsUndoes(Nothing, e)
    BY <1>2 DEF DnsUndoes
  <2>2. Busy(q) /\ cmd'[q] = cmd[q] /\ cmd'[p] = cmd[p]
    BY <1>1, <1>2, <1>3, <2>1 DEF Same, Own
  <2> QED
    BY <2>2, <1>1, <1>2 DEF Same, Own, DnsUndone
<1>6. DnsRaced'
  <2> SUFFICES ASSUME NEW p \in Ops, NEW q \in Ops, Busy(p)', Busy(q)', q # p,
                      DnsDisturbs(cmd'[q], cmd'[p])
               PROVE  p \in raced'
    BY DEF DnsRaced
  <2>1. \A e : ~DnsDisturbs(Nothing, e) /\ ~DnsDisturbs(e, Nothing)
    BY DEF DnsDisturbs, Nothing, Sets
  <2>2. Busy(q) /\ cmd'[q] = cmd[q] /\ Busy(p) /\ cmd'[p] = cmd[p]
    BY <1>1, <1>2, <1>3, <2>1 DEF Same, Own
  <2> QED
    BY <2>2, <1>1, <1>2, <2>1 DEF Same, Own, DnsRaced
<1>7. DnsDone'
  <2> SUFFICES ASSUME NEW p \in Ops, IsDns(cmd'[p]), pc'[p] = "ok"
               PROVE  Achieved(p)'
    BY DEF DnsDone
  <2>1. CASE p = o
    BY <2>1, <1>1, <1>2 DEF Own
  <2>2. CASE p # o
    <3>1. pc[p] = "ok" /\ cmd'[p] = cmd[p]
      BY <2>2, <1>1 DEF Same
    <3>2. p \notin undone
      BY <3>1 DEF DnsPcs, Busy
    <3>3. ~DnsUndoes(c, cmd[p])
      BY <2>2, <3>1, <3>2, <1>2 DEF DnsUndone
    <3> QED
      BY <2>2, <3>1, <3>3, <1>1, <1>2, AchievedKept
  <2> QED
    BY <2>1, <2>2
<1> QED
  BY <1>4, <1>5, <1>6, <1>7

\* No command that disturbs one that was not raced is in progress.
LEMMA NotDisturbed ==
  ASSUME DnsInv, NEW o \in Ops, Busy(o), o \notin raced,
         pc'[o] = "ok", \A p \in Ops \ {o} : Same(p)
  PROVE  \A q \in Ops : ~(pc'[q] = "upsert" /\ DnsDisturbs(cmd'[q], cmd[o]))
  BY DEF DnsInv, DnsRaced, Same, Busy

\* The requests to PowerDNS keep the invariant.
LEMMA DnsInvStep ==
  ASSUME DnsInv, NEW o \in Ops, DnsStep(o)
  PROVE  DnsInv'
<1> DEFINE c == cmd[o]
           z == c.zone.labels
<1>1. pc[o] \in DnsLabels =>
        /\ IsDns(c) /\ DnsPlaced(c, pc[o]) /\ Busy(o)
        /\ {RRset(r, fqdn(c.zone)) : r \in c.recs} = SetsOf(c)
        /\ fqdn(c.zone).labels = z
  BY SentAsMeant DEF DnsInv, DnsPcs, DnsPlaced, Busy, DnsLabels
<1>2. \A s \in SetsOf(c) : s.zone = z
  BY DEF SetsOf, Meant
<1>3. UNCHANGED <<zones, rrsets>> /\ pc'[o] # "upsert" => DnsEffect(o)
  BY DEF DnsEffect
<1>4. Over(o) => pc'[o] = "over"
  BY DEF Over, DnsInv, DnsPcs
<1>5. CASE PostZone(o)
  <2> DEFINE l == IF c.recs = {} THEN "ok" ELSE "upsert"
  <2>1. /\ pc[o] = "postzone" /\ Moves(o, l)
        /\ \/ UNCHANGED <<zones, rrsets>> /\ Over(o)
           \/ z \notin zones /\ zones' = zones \cup {z} /\ UNCHANGED rrsets
    BY <1>5 DEF PostZone, Try, Fail, Goto, Moves, dns
  <2>2. c.kind = "createzone" /\ DnsPlaced(c, l) /\ Busy(o)
    BY <2>1, <1>1 DEF DnsPlaced, IsDns, DnsLabels
  <2>3. DnsEffect(o)
    BY <2>1, <2>2, <1>3, <1>4 DEF DnsEffect
  <2>4. /\ cmd'[o] = c /\ pc'[o] = "ok" /\ (o \in raced' <=> o \in raced)
        /\ \A p \in Ops \ {o} : Same(p)
        => Achieved(o)'
    <3> SUFFICES ASSUME cmd'[o] = c, pc'[o] = "ok", o \in raced' <=> o \in raced,
                        \A p \in Ops \ {o} : Same(p)
                 PROVE  Achieved(o)'
      OBVIOUS
    <3>1. l = "ok" /\ zones' = zones \cup {z}
      BY <2>1, <1>4 DEF Moves, DnsInv, DnsPcs
    <3>2. c.recs = {} /\ SetsOf(c) = {}
      BY <3>1 DEF SetsOf
    <3>3. \A q \in Ops : ~(pc'[q] = "upsert" /\ DnsDisturbs(cmd'[q], c))
      BY <3>2 DEF DnsDisturbs, Clash
    <3> HIDE DEF l
    <3> QED
      BY <2>2, <3>1, <3>2, <3>3 DEF Achieved, Settled
  <2>5. l \in DnsLabels \cup {"ok"}
    BY DEF DnsLabels
  <2> HIDE DEF l
  <2> QED
    BY <2>1, <2>2, <2>3, <2>4, <2>5, DnsInvMoved DEF DnsLabels
<1>6. CASE UpsertRecords(o)
  <2>1. pc[o] = "upsert" /\ Moves(o, "ok")
    BY <1>6 DEF UpsertRecords, Try, Fail, Goto, Moves
  <2>2. /\ c.kind \in {"createzone", "upsert"} /\ DnsPlaced(c, "ok") /\ Busy(o)
        /\ c.recs # {}
    BY <2>1, <1>1 DEF DnsPlaced, IsDns, DnsLabels, DnsSent
  <2>3. \/ UNCHANGED <<zones, rrsets>> /\ Over(o)
        \/ /\ Accepted(SetsOf(c)) /\ rrsets' = Others(SetsOf(c)) \cup SetsOf(c)
           /\ UNCHANGED zones
    BY <1>1, <1>6, <2>1 DEF UpsertRecords, Try, Fail, dns, DnsLabels
  <2>4. pc'[o] # "upsert"
    BY <2>1, <1>4 DEF Moves, DnsInv, DnsPcs
  <2>5. CASE UNCHANGED <<zones, rrsets>> /\ Over(o)
    BY <2>1, <2>2, <2>4, <2>5, <1>3, <1>4, DnsInvMoved DEF DnsLabels
  <2>6. CASE /\ Accepted(SetsOf(c)) /\ rrsets' = Others(SetsOf(c)) \cup SetsOf(c)
             /\ UNCHANGED zones
    <3>1. \A s \in SetsOf(c) : s.zone \in zones
      BY <2>6 DEF Accepted
    <3>2. z \in zones
      BY <2>2, <3>1, <1>2 DEF SetsOf
    <3>3. DnsEffect(o)
      BY <2>1, <2>4, <2>6, <3>1 DEF DnsEffect, Others
    <3>4. /\ cmd'[o] = c /\ pc'[o] = "ok" /\ (o \in raced' <=> o \in raced)
          /\ \A p \in Ops \ {o} : Same(p)
          => Achieved(o)'
      BY <2>2, <2>6, <3>2, NotDisturbed DEF Achieved, Settled
    <3> QED
      BY <2>1, <2>2, <3>3, <3>4, DnsInvMoved DEF DnsLabels
  <2> QED
    BY <2>3, <2>5, <2>6
<1>7. CASE DeleteRecord(o)
  <2>1. pc[o] = "delrecord" /\ Moves(o, "ok")
    BY <1>7 DEF DeleteRecord, Try, Fail, Goto, Moves
  <2>2. c.kind = "delrecord" /\ DnsPlaced(c, "ok") /\ Busy(o)
    BY <2>1, <1>1 DEF DnsPlaced, IsDns, DnsLabels, DnsSent
  <2>3. \/ UNCHANGED <<zones, rrsets>> /\ Over(o)
        \/ rrsets' = Others(SetsOf(c)) /\ UNCHANGED zones
    BY <1>1, <1>7, <2>1 DEF DeleteRecord, Try, Fail, dns, DnsLabels
  <2>4. pc'[o] # "upsert"
    BY <2>1, <1>4 DEF Moves, DnsInv, DnsPcs
  <2>5. DnsEffect(o)
    BY <2>2, <2>3, <2>4 DEF DnsEffect, Others
  <2>6. cmd'[o] = c /\ pc'[o] = "ok" => Achieved(o)'
    BY <2>2, <2>3, <1>4 DEF Achieved, Others, Sets
  <2> QED
    BY <2>1, <2>2, <2>5, <2>6, DnsInvMoved DEF DnsLabels
<1>8. CASE DeleteZone(o)
  <2>1. pc[o] = "deletezone" /\ Moves(o, "ok")
    BY <1>8 DEF DeleteZone, Try, Fail, Goto, Moves
  <2>2. c.kind = "deletezone" /\ DnsPlaced(c, "ok") /\ Busy(o)
    BY <2>1, <1>1 DEF DnsPlaced, IsDns, DnsLabels, DnsSent
  <2>3. \/ UNCHANGED <<zones, rrsets>> /\ Over(o)
        \/ zones' = zones \ {z} /\ rrsets' = {s \in rrsets : s.zone # z}
    BY <1>1, <1>8, <2>1 DEF DeleteZone, Try, Fail, dns, DnsLabels
  <2>4. pc'[o] # "upsert"
    BY <2>1, <1>4 DEF Moves, DnsInv, DnsPcs
  <2>5. DnsEffect(o)
    BY <2>2, <2>3, <2>4 DEF DnsEffect
  <2>6. cmd'[o] = c /\ pc'[o] = "ok" => Achieved(o)'
    BY <2>2, <2>3, <1>4 DEF Achieved, Sets
  <2> QED
    BY <2>1, <2>2, <2>5, <2>6, DnsInvMoved DEF DnsLabels
<1> QED
  BY <1>5, <1>6, <1>7, <1>8 DEF DnsStep

\* The invariant is what the runs check.
LEMMA DnsInvHolds == DnsInv => OutcomeServes /\ OutcomeUnserved
<1> SUFFICES ASSUME DnsInv, NEW o \in Ops, Stands(o)
             PROVE  /\ o \notin raced /\ Sets(cmd[o]) =>
                         LET z == cmd[o].zone.labels IN
                         z \in zones /\ \A r \in cmd[o].recs : Serves(z, r.meant)
                    /\ cmd[o].kind = "delrecord" =>
                         \A s \in rrsets, r \in cmd[o].recs :
                           s.zone = cmd[o].zone.labels => <<s.name, s.type>> # Key(r)
                    /\ cmd[o].kind = "deletezone" =>
                         cmd[o].zone.labels \notin zones \cup {s.zone : s \in rrsets}
  BY DEF OutcomeServes, OutcomeUnserved
<1> DEFINE c == cmd[o]
           z == c.zone.labels
<1>1. IsDns(c) => Achieved(o) /\ DnsSent(c)
  BY DEF DnsInv, DnsDone, DnsPcs, DnsPlaced, Stands
<1>2. ASSUME o \notin raced, Sets(c), NEW r \in c.recs
      PROVE  Serves(z, r.meant)
  <2>1. Meant(z, r.meant) \in rrsets
    BY <1>1, <1>2 DEF Achieved, SetsOf, Sets, IsDns
  <2>2. r.meant.ttl \in Nat /\ r.meant.prio \in Nat
    BY <1>1, <1>2 DEF DnsSent, Sets, IsDns
  <2> QED
    BY <2>1, <2>2, MeantServes
<1>3. ASSUME c.kind = "delrecord", NEW s \in rrsets, NEW r \in c.recs, s.zone = z,
             <<s.name, s.type>> = Key(r)
      PROVE  FALSE
  <2>1. Meant(z, r.meant) \in SetsOf(c) /\ SameSet(s, Meant(z, r.meant))
    BY <1>3 DEF SetsOf, Meant, SameSet, Key
  <2> QED
    BY <1>1, <1>3, <2>1 DEF Achieved, IsDns
<1> QED
  BY <1>1, <1>2, <1>3 DEF Achieved, Sets, IsDns
=============================================================================
