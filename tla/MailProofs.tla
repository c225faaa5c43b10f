----------------------------- MODULE MailProofs -----------------------------
(***************************************************************************)
(* The invariant behind OutcomeMailbox, OutcomeForwarded, OutcomeSigned    *)
(* and OutcomeRemoved, for any commands, domains and addresses.            *)
(* HostProofs uses it.                                                     *)
(***************************************************************************)
EXTENDS Dkim, CommandsProofs

MailLabels ==
  {"findbox", "insertbox", "maildir", "dropbox", "purgebox", "findalias",
   "insertalias", "dropalias", "insertdomain", "domaindir", "genkey", "addkey",
   "addsig", "rmkey", "readkey", "openkey", "writekey", "readsig", "opensig",
   "writesig", "deletedomain", "purgedomain"}

IsMail(c) == IsBox(c) \/ IsAlias(c) \/ IsDomain(c)

Undoing(c, e) == MailUndoes(c, e) \/ DomainUndoes(c, e)

\* Where a command of each kind may be.
Placed(c, l) ==
  /\ IsBox(c) \/ IsAlias(c) => c.at \in Addresses
  /\ IsDomain(c) => c.domain \in Domains
  /\ c.kind = "createbox" => l \in {"findbox", "insertbox", "maildir", "ok"}
  /\ c.kind = "deletebox" => l \in {"dropbox", "purgebox", "ok"}
  /\ c.kind = "createalias" => l \in {"findalias", "insertalias", "ok"}
  /\ c.kind = "deletealias" => l \in {"dropalias", "ok"}
  /\ c.kind = "createdomain" =>
       l \in {"insertdomain", "domaindir", "ok"}
               \cup IF c.dkim THEN {"genkey", "addkey", "addsig"} ELSE {}
  /\ c.kind = "deletedomain" =>
       l \in {"rmkey", "readkey", "openkey", "writekey", "readsig", "opensig",
              "writesig", "deletedomain", "purgedomain", "ok"}

MailPcs ==
  /\ pc = [o \in Ops |-> pc[o]]
  /\ undone \subseteq {o \in Ops : Busy(o)}
  /\ \A o \in Ops :
       /\ pc[o] \in MailLabels => IsMail(cmd[o])
       /\ IsMail(cmd[o]) => Placed(cmd[o], pc[o])

MailUndone ==
  \A o, q \in Ops :
    Busy(q) /\ q # o /\ IsMail(cmd[o]) /\ Undoing(cmd[q], cmd[o]) => o \in undone

MailRaced ==
  \A o, q \in Ops :
    Busy(o) /\ Busy(q) /\ DomainDisturbs(cmd[q], cmd[o]) => o \in raced

\* Two deletions overlap only when every creation has been told.
MailCrossed ==
  \A o, q, r \in Ops :
    /\ cmd[o].kind = "createdomain" /\ o \notin undone \cup raced \cup crossed
    /\ Deleting(q) /\ Deleting(r)
    => q = r

-----------------------------------------------------------------------------
(* The tables of mail.                                                     *)

\* Row numbers are never used again, and a row belongs to the domain of its
\* address.
RowTypes ==
  /\ nextid \in Nat \ {0}
  /\ id \in [Domains -> Nat]
  /\ \A d \in Domains : id[d] < nextid
  /\ \A d, e \in Domains : id[d] = id[e] /\ id[d] # 0 => d = e
  /\ \A b \in boxes : b.at \in Addresses /\ b.domain = id[b.at[2]] /\ b.domain # 0
  /\ \A a \in aliases :
       a.source \in Addresses /\ a.domain = id[a.source[2]] /\ a.domain # 0
  /\ dirs \subseteq Domains \cup Addresses

\* The number that a command has looked up is that of its own domain, or of no
\* domain at all any more.
FoundOwn ==
  /\ found \in [Ops -> Nat]
  /\ \A o \in Ops : pc[o] \in {"insertbox", "insertalias"} =>
       /\ found[o] # 0 /\ found[o] < nextid
       /\ \A d \in Domains : id[d] = found[o] => d = cmd[o].at[2]

\* A deletion has read a table and not written it back yet.
Holding(l) == l \in {"openkey", "writekey", "opensig", "writesig"}

\* What it will write back has no line of its own domain.
KeptOwn == \A o \in Ops : Holding(pc[o]) => cmd[o].domain \notin kept[o]

RowsOf(a) == {b \in boxes : b.at = a}

Row(c) ==
  [at |-> c.at, domain |-> id[c.at[2]], pw |-> c.pw, quota |-> c.quota]

-----------------------------------------------------------------------------
(* What a command has done so far.                                         *)

BoxMade(o) ==
  LET c == cmd[o] IN
  /\ pc[o] \in {"maildir", "ok"} => id[c.at[2]] # 0 /\ RowsOf(c.at) = {Row(c)}
  /\ pc[o] = "ok" => c.at \in dirs

BoxGone(o) ==
  LET c == cmd[o] IN
  /\ pc[o] \in {"purgebox", "ok"} => RowsOf(c.at) = {}
  /\ pc[o] = "ok" /\ c.purge => c.at \notin dirs

AliasMade(o) ==
  LET c == cmd[o] IN
  /\ pc[o] = "insertalias" => found[o] = id[c.at[2]]
  /\ pc[o] = "ok" =>
       /\ id[c.at[2]] # 0
       /\ [source |-> c.at, dest |-> c.dest, domain |-> id[c.at[2]]] \in aliases

AliasGone(o) ==
  pc[o] = "ok" => \A a \in aliases : a.source # cmd[o].at

\* No deletion in progress will write back a table that lacks the line.
Lined(d) == \A q \in Ops : Holding(pc[q]) => d \in kept[q]

\* A table has the line, or is being written back.
InTable(d, table, writing) == d \in table \/ \E q \in Ops : pc[q] = writing

DomainMade(o) ==
  LET c == cmd[o]
      d == c.domain
  IN
  /\ pc[o] # "insertdomain" => id[d] # 0
  /\ pc[o] \in {"genkey", "addkey", "addsig", "ok"} => d \in dirs
  /\ Extends = {} /\ c.dkim /\ ~torn /\ o \notin raced \cup crossed =>
       /\ pc[o] \in {"addkey", "addsig", "ok"} => key[d] # None
       /\ pc[o] \in {"addsig", "ok"} => InTable(d, keytab, "writekey")
       /\ pc[o] = "ok" => InTable(d, sigtab, "writesig") /\ Lined(d)

\* ... or has the line that was removed.
Unlined(d) == \A q \in Ops : Holding(pc[q]) => d \notin kept[q]

\* Commands for a mailbox of a domain that is gone come no further.
Closed(d) ==
  \A q \in Ops :
    Busy(q) /\ cmd[q].kind = "createbox" /\ cmd[q].at[2] = d => pc[q] = "findbox"

\* The steps after each table was emptied.
SigGone == {"writesig", "deletedomain", "purgedomain", "ok"}
KeyGone == {"writekey", "readsig", "opensig"} \cup SigGone

DomainGone(o) ==
  LET c == cmd[o]
      d == c.domain
  IN
  /\ pc[o] \in {"purgedomain", "ok"} => id[d] = 0
  /\ o \notin raced /\ o \notin skipped =>
       /\ pc[o] # "rmkey" => key[d] = None
       /\ pc[o] \in KeyGone => d \notin keytab
       /\ pc[o] \in SigGone => d \notin sigtab
       /\ pc[o] = "ok" => Unlined(d)
  /\ o \notin raced /\ pc[o] = "ok" =>
       /\ c.purge => dirs \cap ({d} \cup Locals \X {d}) = {}
       /\ Closed(d)

Done(o) ==
  /\ cmd[o].kind = "createbox"    => BoxMade(o)
  /\ cmd[o].kind = "deletebox"    => BoxGone(o)
  /\ cmd[o].kind = "createalias"  => AliasMade(o)
  /\ cmd[o].kind = "deletealias"  => AliasGone(o)
  /\ cmd[o].kind = "createdomain" => DomainMade(o)
  /\ cmd[o].kind = "deletedomain" => DomainGone(o)

MailDone == \A o \in Ops : IsMail(cmd[o]) /\ o \notin undone => Done(o)

MailInv ==
  /\ MailPcs /\ MailUndone /\ MailRaced /\ MailCrossed
  /\ RowTypes /\ FoundOwn /\ DkimTypeOK /\ KeptOwn /\ MailDone

\* It holds of a host that starts.
LEMMA MailInvInit == CommandsInit /\ MailInit /\ DkimInit => MailInv
<1> SUFFICES ASSUME CommandsInit, MailInit, DkimInit PROVE MailInv
  OBVIOUS
<1>1. \A o \in Ops : pc[o] = "idle" /\ ~IsMail(cmd[o]) /\ ~Busy(o)
  BY DEF CommandsInit, IsMail, IsBox, IsAlias, IsDomain, Nothing, Busy
<1>2. MailPcs
  BY <1>1 DEF CommandsInit, MailPcs, MailLabels
<1>3. RowTypes /\ FoundOwn
  BY <1>1 DEF MailInit, RowTypes, FoundOwn
<1>4. DkimTypeOK /\ KeptOwn
  BY <1>1 DEF DkimInit, DkimTypeOK, KeptOwn, Holding
<1> QED
  BY <1>1, <1>2, <1>3, <1>4
  DEF MailInv, MailUndone, MailRaced, MailCrossed, Deleting, MailDone

-----------------------------------------------------------------------------
(* Commands of other kinds, and a restart.                                 *)

MailForeign(o) == pc'[o] \notin MailLabels /\ ~IsMail(cmd'[o])

MailAside ==
  /\ UNCHANGED <<id, nextid, boxes, aliases, dirs, found>>
  /\ UNCHANGED <<key, tables, kept, skipped, crossed>>
  /\ torn' \in BOOLEAN /\ (torn => torn')
  /\ \A o \in Ops : Writing(o) => Stays(o) \/ torn'
  /\ pc' = [o \in Ops |-> pc'[o]]
  /\ undone' \subseteq {o \in Ops : Busy(o)'}
  /\ \A o \in Ops : Stays(o) \/ MailForeign(o)

\* They keep it.
LEMMA MailInvAside ==
  ASSUME MailInv, MailAside
  PROVE  MailInv'
<1> USE DEF MailInv, MailAside, Stays
<1>1. MailPcs'
  BY DEF MailPcs, MailForeign
<1>2. MailUndone'
  BY DEF MailUndone, MailForeign, Busy, Undoing, MailUndoes, DomainUndoes, IsMail,
         IsBox, IsAlias, IsDomain
<1>3. MailRaced'
  BY DEF MailRaced, MailForeign, Busy, DomainDisturbs, IsMail, IsBox, IsDomain
<1>4. RowTypes' /\ DkimTypeOK'
  BY DEF RowTypes, DkimTypeOK, tables
<1>5. FoundOwn'
  BY DEF FoundOwn, MailForeign, MailLabels
<1>6. KeptOwn'
  BY DEF KeptOwn, Holding, MailForeign, MailLabels
<1>8. MailCrossed'
  BY DEF MailCrossed, Deleting, Busy, MailForeign, IsMail, IsDomain
<1>7. MailDone'
  <2> SUFFICES ASSUME NEW o \in Ops, IsMail(cmd'[o]), o \notin undone'
               PROVE  Done(o)'
    BY DEF MailDone
  <2>1. /\ Done(o) /\ pc'[o] = pc[o] /\ cmd'[o] = cmd[o]
        /\ o \notin raced' => o \notin raced
    BY DEF MailDone, MailForeign
  <2>2. \A d : /\ Lined(d) => Lined(d)'
               /\ Unlined(d) => Unlined(d)'
    BY DEF Lined, Unlined, Holding, MailForeign, MailLabels
  <2>3. \A d : Closed(d) => Closed(d)'
    BY DEF Closed, MailForeign, IsMail, IsBox, Busy
  <2>4. UNCHANGED <<id, boxes, aliases, dirs, found, key, keytab, sigtab, skipped>>
    BY DEF tables
  <2>9. ASSUME ~torn'
        PROVE  \A d : /\ InTable(d, keytab, "writekey") =>
                            InTable(d, keytab, "writekey")'
                      /\ InTable(d, sigtab, "writesig") =>
                            InTable(d, sigtab, "writesig")'
    BY <2>4, <2>9 DEF InTable, Writing
  <2>5. (BoxMade(o) => BoxMade(o)') /\ (BoxGone(o) => BoxGone(o)')
    BY <2>1, <2>4 DEF BoxMade, BoxGone, RowsOf, Row
  <2>6. (AliasMade(o) => AliasMade(o)') /\ (AliasGone(o) => AliasGone(o)')
    BY <2>1, <2>4 DEF AliasMade, AliasGone
  <2>7. DomainMade(o) => DomainMade(o)'
    BY <2>1, <2>2, <2>4, <2>9 DEF DomainMade
  <2>8. DomainGone(o) => DomainGone(o)'
    BY <2>1, <2>2, <2>3, <2>4 DEF DomainGone
  <2> QED
    BY <2>1, <2>5, <2>6, <2>7, <2>8 DEF Done
<1> QED
  BY <1>1, <1>2, <1>3, <1>4, <1>5, <1>6, <1>7, <1>8

-----------------------------------------------------------------------------
(* A command of mail arrives.                                              *)

\* c arrives at step l; commands whose outcome it may undo are over.
Arrived(o, c, l) ==
  /\ UNCHANGED <<mail, lines>>
  /\ crossed' \subseteq crossed \cup Ops /\ crossed \subseteq crossed'
  /\ c.kind = "deletedomain" =>
       \A p, q \in Ops : cmd[p].kind = "createdomain" /\ Deleting(q) => p \in crossed'
  /\ pc[o] = "idle" /\ pc' = [p \in Ops |-> pc'[p]]
  /\ pc'[o] = l /\ cmd'[o] = c
  /\ \A p \in Ops \ {o} :
       \/ /\ pc[p] = "ok" /\ Undoing(c, cmd[p])
          /\ pc'[p] = "over" /\ cmd'[p] = Nothing
       \/ /\ ~(pc[p] = "ok" /\ Undoing(c, cmd[p]))
          /\ pc'[p] = pc[p] /\ cmd'[p] = cmd[p]
          /\ p \in undone => p \in undone'
          /\ p \in raced => p \in raced'
  /\ undone' = undone \cup {p \in Ops : Busy(p) /\ Undoing(c, cmd[p])}
               \cup {p \in {o} : \E q \in Ops : Busy(q) /\ Undoing(cmd[q], c)}
  /\ \A p \in Ops : Busy(p) /\ DomainDisturbs(c, cmd[p]) => p \in raced'
  /\ \A q \in Ops : Busy(q) /\ DomainDisturbs(cmd[q], c) => o \in raced'

\* A command on a mailbox or an alias undoes none on a domain.
LEMMA MailBegun ==
  ASSUME NEW o \in Ops, NEW c, IsBox(c) \/ IsAlias(c), BeginMail(o, c)
  PROVE  Arrived(o, c, MailEntry(c))
<1> DEFINE old == {p \in Ops : pc[p] = "ok" /\ MailUndoes(c, cmd[p])}
           l == MailEntry(c)
<1>1. /\ pc[o] = "idle" /\ UNCHANGED <<mail, dkim>>
      /\ pc' = [p \in Ops |-> IF p = o THEN l ELSE IF p \in old THEN "over"
                                ELSE pc[p]]
      /\ cmd' = [p \in Ops |-> IF p = o THEN c
                                 ELSE IF p \in old THEN Nothing ELSE cmd[p]]
      /\ undone' = undone
                   \cup {p \in Ops : Busy(p) /\ MailUndoes(c, cmd[p])}
                   \cup {p \in {o} : \E q \in Ops :
                           Busy(q) /\ MailUndoes(cmd[q], c)}
      /\ raced' = (raced \ old)
                  \cup {p \in Ops : Busy(p) /\ DomainDisturbs(c, cmd[p])}
                  \cup {p \in {o} : \E q \in Ops :
                          Busy(q) /\ DomainDisturbs(cmd[q], c)}
  BY Zenon DEF BeginMail, Arrive
<1>2. pc' = [p \in Ops |-> pc'[p]]
  BY <1>1
<1>3. \A e : /\ Undoing(c, e) <=> MailUndoes(c, e)
             /\ Undoing(e, c) <=> MailUndoes(e, c)
  BY DEF Undoing, DomainUndoes, IsDomain, IsBox, IsAlias
<1>4. /\ {p \in Ops : Busy(p) /\ MailUndoes(c, cmd[p])}
           = {p \in Ops : Busy(p) /\ Undoing(c, cmd[p])}
      /\ {p \in {o} : \E q \in Ops : Busy(q) /\ MailUndoes(cmd[q], c)}
           = {p \in {o} : \E q \in Ops : Busy(q) /\ Undoing(cmd[q], c)}
      /\ old = {p \in Ops : pc[p] = "ok" /\ Undoing(c, cmd[p])}
  BY <1>3
<1> HIDE DEF l, old
<1>5. undone' = undone \cup {p \in Ops : Busy(p) /\ Undoing(c, cmd[p])}
                \cup {p \in {o} : \E q \in Ops : Busy(q) /\ Undoing(cmd[q], c)}
  BY <1>1, <1>4, Zenon
<1>6. /\ \A p \in Ops : Busy(p) /\ DomainDisturbs(c, cmd[p]) => p \in raced'
      /\ \A q \in Ops : Busy(q) /\ DomainDisturbs(cmd[q], c) => o \in raced'
  BY <1>1
<1>7. ASSUME NEW p \in Ops \ {o}
      PROVE  \/ /\ pc[p] = "ok" /\ Undoing(c, cmd[p])
                /\ pc'[p] = "over" /\ cmd'[p] = Nothing
             \/ /\ ~(pc[p] = "ok" /\ Undoing(c, cmd[p]))
                /\ pc'[p] = pc[p] /\ cmd'[p] = cmd[p]
                /\ p \in undone => p \in undone'
                /\ p \in raced => p \in raced'
  <2>1. p \in old <=> pc[p] = "ok" /\ Undoing(c, cmd[p])
    BY <1>4
  <2>2. p \in undone => p \in undone'
    BY <1>5
  <2> QED
    BY <1>1, <2>1, <2>2
<1>8. /\ pc'[o] = l /\ cmd'[o] = c /\ pc[o] = "idle" /\ UNCHANGED <<mail, lines>>
      /\ crossed' \subseteq crossed \cup Ops /\ crossed \subseteq crossed'
      /\ c.kind = "deletedomain" =>
           \A p, q \in Ops :
             cmd[p].kind = "createdomain" /\ Deleting(q) => p \in crossed'
  BY <1>1 DEF dkim, IsBox, IsAlias
<1> QED
  BY <1>2, <1>5, <1>6, <1>7, <1>8, Zenon DEF Arrived, l

\* A command on a domain may undo those on its mailboxes and aliases too.
LEMMA DomainBegun ==
  ASSUME NEW o \in Ops, NEW c, IsDomain(c), BeginDomain(o, c)
  PROVE  Arrived(o, c, IF c.kind = "createdomain" THEN "insertdomain" ELSE "rmkey")
<1> DEFINE U(d, e) == MailUndoes(d, e) \/ DomainUndoes(d, e)
           old == {p \in Ops : pc[p] = "ok" /\ U(c, cmd[p])}
           l == IF c.kind = "createdomain" THEN "insertdomain" ELSE "rmkey"
<1>1. /\ pc[o] = "idle" /\ UNCHANGED <<mail, lines>>
      /\ crossed' = IF c.kind = "deletedomain" /\ \E q \in Ops : Deleting(q)
                      THEN crossed \cup {p \in Ops : cmd[p].kind = "createdomain"}
                      ELSE crossed
      /\ pc' = [p \in Ops |-> IF p = o THEN l ELSE IF p \in old THEN "over"
                                ELSE pc[p]]
      /\ cmd' = [p \in Ops |-> IF p = o THEN c
                                 ELSE IF p \in old THEN Nothing ELSE cmd[p]]
      /\ undone' = undone
                   \cup {p \in Ops : Busy(p) /\ U(c, cmd[p])}
                   \cup {p \in {o} : \E q \in Ops : Busy(q) /\ U(cmd[q], c)}
      /\ raced' = (raced \ old)
                  \cup {p \in Ops : Busy(p) /\ DomainDisturbs(c, cmd[p])}
                  \cup {p \in {o} : \E q \in Ops :
                          Busy(q) /\ DomainDisturbs(cmd[q], c)}
  BY Zenon DEF BeginDomain, Arrive
<1>2. pc' = [p \in Ops |-> pc'[p]]
  BY <1>1
<1>3. \A d, e : Undoing(d, e) <=> U(d, e)
  BY DEF Undoing
<1> HIDE DEF U
<1>4. /\ {p \in Ops : Busy(p) /\ U(c, cmd[p])}
           = {p \in Ops : Busy(p) /\ Undoing(c, cmd[p])}
      /\ {p \in {o} : \E q \in Ops : Busy(q) /\ U(cmd[q], c)}
           = {p \in {o} : \E q \in Ops : Busy(q) /\ Undoing(cmd[q], c)}
      /\ old = {p \in Ops : pc[p] = "ok" /\ Undoing(c, cmd[p])}
  BY <1>3
<1> HIDE DEF l, old
<1>5. undone' = undone \cup {p \in Ops : Busy(p) /\ Undoing(c, cmd[p])}
                \cup {p \in {o} : \E q \in Ops : Busy(q) /\ Undoing(cmd[q], c)}
  BY <1>1, <1>4, Zenon
<1>6. /\ \A p \in Ops : Busy(p) /\ DomainDisturbs(c, cmd[p]) => p \in raced'
      /\ \A q \in Ops : Busy(q) /\ DomainDisturbs(cmd[q], c) => o \in raced'
  BY <1>1
<1>7. ASSUME NEW p \in Ops \ {o}
      PROVE  \/ /\ pc[p] = "ok" /\ Undoing(c, cmd[p])
                /\ pc'[p] = "over" /\ cmd'[p] = Nothing
             \/ /\ ~(pc[p] = "ok" /\ Undoing(c, cmd[p]))
                /\ pc'[p] = pc[p] /\ cmd'[p] = cmd[p]
                /\ p \in undone => p \in undone'
                /\ p \in raced => p \in raced'
  <2>1. p \in old <=> pc[p] = "ok" /\ Undoing(c, cmd[p])
    BY <1>4
  <2>2. p \in undone => p \in undone'
    BY <1>5
  <2> QED
    BY <1>1, <2>1, <2>2
<1>8. /\ pc'[o] = l /\ cmd'[o] = c /\ pc[o] = "idle" /\ UNCHANGED <<mail, lines>>
      /\ crossed' \subseteq crossed \cup Ops /\ crossed \subseteq crossed'
      /\ c.kind = "deletedomain" =>
           \A p, q \in Ops :
             cmd[p].kind = "createdomain" /\ Deleting(q) => p \in crossed'
  BY <1>1
<1> QED
  BY <1>2, <1>5, <1>6, <1>7, <1>8, Zenon DEF Arrived, l

\* A command that arrives keeps the invariant.
LEMMA MailInvBegun ==
  ASSUME MailInv, NEW o \in Ops, NEW c, IsMail(c), NEW l \in MailLabels,
         Arrived(o, c, l), Placed(c, l),
         ~Holding(l),
         l \notin {"insertbox", "maildir", "insertalias", "purgebox", "writekey",
                   "writesig", "purgedomain"},
         IsDomain(c) => l \in {"insertdomain", "rmkey"}
  PROVE  MailInv'
<1> USE DEF MailInv
<1>1. \A p \in Ops \ {o} :
        /\ Busy(p)' <=> Busy(p)
        /\ Busy(p) => cmd'[p] = cmd[p]
        /\ IsMail(cmd'[p]) => Stays(p) /\ ~(pc[p] = "ok" /\ Undoing(c, cmd[p]))
  BY DEF Arrived, Busy, Stays, IsMail, IsBox, IsAlias, IsDomain, Nothing
<1>2. pc'[o] = l /\ cmd'[o] = c /\ Busy(o)'
  BY DEF Arrived, Busy, MailLabels
<1>3. MailPcs'
  <2>1. undone' \subseteq {p \in Ops : Busy(p)'}
    BY <1>1, <1>2 DEF MailPcs, Arrived, Busy
  <2>2. \A p \in Ops \ {o} :
          /\ pc'[p] \in MailLabels => IsMail(cmd'[p])
          /\ IsMail(cmd'[p]) => Placed(cmd'[p], pc'[p])
    BY <1>1 DEF MailPcs, MailLabels, Stays, Arrived
  <2> QED
    BY <1>2, <2>1, <2>2 DEF MailPcs, Arrived
<1>4. MailUndone'
  <2> SUFFICES ASSUME NEW p \in Ops, NEW q \in Ops, Busy(q)', q # p,
                      IsMail(cmd'[p]), Undoing(cmd'[q], cmd'[p])
               PROVE  p \in undone'
    BY DEF MailUndone
  <2>1. CASE p = o
    BY <2>1, <1>1, <1>2 DEF Arrived
  <2>2. CASE p # o /\ q = o
    BY <2>2, <1>1, <1>2 DEF Stays, MailPcs, Busy, Placed, Arrived, IsMail, IsBox,
                           IsAlias, IsDomain
  <2>3. CASE p # o /\ q # o
    BY <2>3, <1>1 DEF Stays, MailUndone
  <2> QED
    BY <2>1, <2>2, <2>3
<1>5. MailRaced'
  <2> SUFFICES ASSUME NEW p \in Ops, NEW q \in Ops, Busy(p)', Busy(q)',
                      DomainDisturbs(cmd'[q], cmd'[p])
               PROVE  p \in raced'
    BY DEF MailRaced
  <2>1. CASE p = o /\ q # o
    BY <2>1, <1>1, <1>2 DEF Arrived
  <2>2. CASE p # o /\ q = o
    BY <2>2, <1>1, <1>2 DEF Arrived
  <2>3. CASE p # o /\ q # o
    BY <2>3, <1>1 DEF MailRaced, Arrived, Busy
  <2>4. CASE p = o /\ q = o
    BY <2>4, <1>2 DEF DomainDisturbs
  <2> QED
    BY <2>1, <2>2, <2>3, <2>4
<1>6. RowTypes' /\ DkimTypeOK'
  BY DEF Arrived, RowTypes, DkimTypeOK, lines, tables, mail, rows
<1>7. FoundOwn'
  BY <1>1, <1>2 DEF Arrived, FoundOwn, mail, rows, Stays
<1>8. KeptOwn'
  <2>1. \A p \in Ops \ {o} : Holding(pc'[p]) => Stays(p)
    BY DEF Arrived, Holding, Stays
  <2> QED
    BY <1>2, <2>1 DEF Arrived, KeptOwn, lines, Stays
<1>10. MailCrossed'
  <2> SUFFICES ASSUME NEW p \in Ops, NEW q \in Ops, NEW r \in Ops,
                      cmd'[p].kind = "createdomain",
                      p \notin undone' \cup raced' \cup crossed',
                      Deleting(q)', Deleting(r)', q # r
               PROVE  FALSE
    BY DEF MailCrossed
  <2>1. CASE p = o
    <3>1. q # o /\ r # o
      BY <1>2, <2>1 DEF Deleting
    <3>2. Deleting(q) /\ Deleting(r)
      BY <1>1, <3>1 DEF Deleting
    <3> QED
      BY <1>2, <2>1, <3>1, <3>2
      DEF Arrived, Deleting, DomainDisturbs, Undoing, DomainUndoes, IsDomain
  <2>2. CASE p # o
    <3>1. Stays(p)
      BY <1>1, <2>2 DEF IsMail, IsDomain
    <3>2. /\ q # o => Deleting(q)
          /\ r # o => Deleting(r)
      BY <1>1 DEF Deleting
    <3>3. CASE q = o \/ r = o
      BY <1>2, <3>1, <3>2, <3>3 DEF Arrived, Stays, Deleting
    <3>4. CASE q # o /\ r # o
      BY <3>1, <3>2, <3>4 DEF MailCrossed, Arrived, Stays
    <3> QED
      BY <3>3, <3>4
  <2> QED
    BY <2>1, <2>2
<1>9. MailDone'
  <2> SUFFICES ASSUME NEW p \in Ops, IsMail(cmd'[p]), p \notin undone'
               PROVE  Done(p)'
    BY DEF MailDone
  <2>1. /\ UNCHANGED <<id, boxes, aliases, dirs, found, key, keytab, sigtab, torn,
                      skipped, kept>>
        /\ crossed \subseteq crossed'
    BY DEF lines, tables, mail, rows, Arrived
  <2>2. CASE p = o
    BY <2>2, <1>2 DEF Done, BoxMade, BoxGone, AliasMade, AliasGone, DomainMade,
                      DomainGone, KeyGone, SigGone, Placed, IsMail, IsBox, IsAlias,
                      IsDomain, MailLabels
  <2>3. CASE p # o
    <3>1. /\ Done(p) /\ pc'[p] = pc[p] /\ cmd'[p] = cmd[p]
          /\ p \notin raced' => p \notin raced
      BY <2>3, <1>1 DEF MailDone, Stays
    <3>2. \A d : /\ Lined(d) => Lined(d)'
                 /\ Unlined(d) => Unlined(d)'
      BY <1>1, <1>2, <2>1 DEF Lined, Unlined, Holding, Arrived
    <3>8. \A d : /\ InTable(d, keytab, "writekey") =>
                      InTable(d, keytab, "writekey")'
                 /\ InTable(d, sigtab, "writesig") =>
                      InTable(d, sigtab, "writesig")'
      BY <1>1, <1>2, <2>1 DEF InTable, Arrived
    <3>3. \A d : Closed(d) => Closed(d)'
      BY <1>1, <1>2 DEF Closed, Placed, Arrived, MailLabels, Busy
    <3>4. (BoxMade(p) => BoxMade(p)') /\ (BoxGone(p) => BoxGone(p)')
      BY <2>1, <3>1 DEF BoxMade, BoxGone, RowsOf, Row
    <3>5. (AliasMade(p) => AliasMade(p)') /\ (AliasGone(p) => AliasGone(p)')
      BY <2>1, <3>1 DEF AliasMade, AliasGone
    <3>6. DomainMade(p) => DomainMade(p)'
      BY <2>1, <3>1, <3>2, <3>8 DEF DomainMade
    <3>7. DomainGone(p) => DomainGone(p)'
      BY <2>1, <3>1, <3>2, <3>3 DEF DomainGone
    <3> QED
      BY <3>1, <3>4, <3>5, <3>6, <3>7 DEF Done
  <2> QED
    BY <2>2, <2>3
<1> QED
  BY <1>3, <1>4, <1>5, <1>6, <1>7, <1>8, <1>9, <1>10

\* ... as one does that a host accepts.
LEMMA MailInvBegin ==
  ASSUME MailInv, NEW o \in Ops, NEW c,
         IsBox(c) \/ IsAlias(c) => c.at \in Addresses,
         IsDomain(c) => c.domain \in Domains,
         \/ (IsBox(c) \/ IsAlias(c)) /\ BeginMail(o, c)
         \/ IsDomain(c) /\ BeginDomain(o, c)
  PROVE  MailInv'
<1> USE DEF IsMail, IsBox, IsAlias, IsDomain, Placed, MailLabels, Holding
<1>1. CASE (IsBox(c) \/ IsAlias(c)) /\ BeginMail(o, c)
  <2> DEFINE l == MailEntry(c)
  <2>1. Arrived(o, c, l)
    BY <1>1, MailBegun
  <2>2. /\ l \in {"findbox", "dropbox", "findalias", "dropalias"}
        /\ IsMail(c) /\ ~IsDomain(c) /\ Placed(c, l)
    BY <1>1 DEF MailEntry
  <2> HIDE DEF l
  <2> QED
    BY <2>1, <2>2, MailInvBegun
<1>2. CASE IsDomain(c) /\ BeginDomain(o, c)
  <2> DEFINE l == IF c.kind = "createdomain" THEN "insertdomain" ELSE "rmkey"
  <2>1. Arrived(o, c, l)
    BY <1>2, DomainBegun
  <2>2. l \in {"insertdomain", "rmkey"} /\ IsMail(c) /\ Placed(c, l)
    BY <1>2
  <2> HIDE DEF l
  <2> QED
    BY <2>1, <2>2, MailInvBegun
<1> QED
  BY <1>1, <1>2

-----------------------------------------------------------------------------
(* A command of mail takes a step.                                         *)

\* Control is kept, and the outcomes that the command may undo are withdrawn.
LEMMA MailControl ==
  ASSUME MailInv, NEW o \in Ops, pc[o] \in MailLabels, NEW l \in MailLabels \cup {"ok"},
         Moves(o, l), Placed(cmd[o], l)
  PROVE  /\ MailPcs' /\ MailUndone' /\ MailRaced'
         /\ UNCHANGED crossed => MailCrossed'
         /\ Own(o, l) /\ \A p \in Ops \ {o} : Same(p)
         /\ \A p \in Ops \ {o} : IsMail(cmd[p]) /\ p \notin undone =>
              ~Undoing(cmd[o], cmd[p])
         /\ \/ pc'[o] = "over" /\ cmd'[o] = Nothing
            \/ pc'[o] = l /\ cmd'[o] = cmd[o]
<1>1. /\ Own(o, l) /\ \A p \in Ops \ {o} : Same(p)
      /\ pc' = [p \in Ops |-> pc'[p]]
      /\ Over(o) => pc'[o] = "over" /\ cmd'[o] = Nothing /\ o \notin undone'
      /\ ~Over(o) => /\ pc'[o] = l /\ cmd'[o] = cmd[o]
                     /\ l # "ok" \/ o \notin undone'
  BY MovesFrame DEF MailInv, MailPcs
<1>2. IsMail(cmd[o]) /\ Busy(o) /\ ~IsMail(Nothing)
  BY DEF MailInv, MailPcs, IsMail, IsBox, IsAlias, IsDomain, Nothing, Busy, MailLabels
<1>3. \A p \in Ops \ {o} : Busy(p)' <=> Busy(p)
  BY <1>1 DEF Busy, Same
<1>4. MailPcs'
  <2>1. undone' \subseteq Ops
    BY DEF Moves, Over, Forget, MailInv, MailPcs
  <2>2. undone' \subseteq {p \in Ops : Busy(p)'}
    BY <1>1, <1>3, <2>1 DEF Same, MailInv, MailPcs, Busy, MailLabels
  <2>3. \A p \in Ops :
          /\ pc'[p] \in MailLabels => IsMail(cmd'[p])
          /\ IsMail(cmd'[p]) => Placed(cmd'[p], pc'[p])
    BY <1>1, <1>2 DEF Same, MailInv, MailPcs, MailLabels
  <2> QED
    BY <1>1, <2>2, <2>3 DEF MailPcs
<1>5. MailUndone'
  <2> SUFFICES ASSUME NEW p \in Ops, NEW q \in Ops, Busy(q)', q # p,
                      IsMail(cmd'[p]), Undoing(cmd'[q], cmd'[p])
               PROVE  p \in undone'
    BY DEF MailUndone
  <2>1. ~\E e : Undoing(Nothing, e)
    BY DEF Undoing, MailUndoes, DomainUndoes, Nothing, IsBox, IsAlias, IsDomain
  <2>2. Busy(q) /\ cmd'[q] = cmd[q] /\ cmd'[p] = cmd[p]
    BY <1>1, <1>2, <1>3, <2>1 DEF Same, Own
  <2> QED
    BY <2>2, <1>1, <1>2 DEF Same, Own, MailInv, MailUndone
<1>6. MailRaced'
  <2> SUFFICES ASSUME NEW p \in Ops, NEW q \in Ops, Busy(p)', Busy(q)',
                      DomainDisturbs(cmd'[q], cmd'[p])
               PROVE  p \in raced'
    BY DEF MailRaced
  <2>1. \A e : ~DomainDisturbs(Nothing, e) /\ ~DomainDisturbs(e, Nothing)
    BY DEF DomainDisturbs, Nothing, IsDomain
  <2>2. Busy(q) /\ cmd'[q] = cmd[q] /\ Busy(p) /\ cmd'[p] = cmd[p]
    BY <1>1, <1>2, <1>3, <2>1 DEF Same, Own
  <2> QED
    BY <2>2, <1>1, <1>2, <2>1 DEF Same, Own, MailInv, MailRaced
<1>7. UNCHANGED crossed => MailCrossed'
  <2> SUFFICES ASSUME UNCHANGED crossed,
                      NEW p \in Ops, NEW q \in Ops, NEW r \in Ops,
                      cmd'[p].kind = "createdomain",
                      p \notin undone' \cup raced' \cup crossed',
                      Deleting(q)', Deleting(r)', q # r
               PROVE  FALSE
    BY DEF MailCrossed
  <2>1. cmd[p] = cmd'[p] /\ p \notin undone \cup raced \cup crossed
    BY <1>1 DEF Own, Same, Nothing
  <2>2. Deleting(q) /\ Deleting(r)
    BY <1>1, <1>2, <1>3 DEF Deleting, Own, Same, Nothing
  <2> QED
    BY <2>1, <2>2 DEF MailInv, MailCrossed
<1> QED
  BY <1>1, <1>2, <1>4, <1>5, <1>6, <1>7 DEF MailInv, MailUndone

\* What a step may do to the rows of other commands, ...
RowEffect(o) ==
  LET c == cmd[o] IN
  /\ nextid' >= nextid
  /\ \A d \in Domains :
       \/ id'[d] = id[d]
       \/ id[d] = 0 /\ id'[d] = nextid /\ c.kind = "createdomain" /\ c.domain = d
       \/ id'[d] = 0 /\ c.kind = "deletedomain" /\ c.domain = d
  /\ \A a \in Addresses :
       \/ RowsOf(a)' = RowsOf(a)
       \/ c.kind = "createbox" /\ c.at = a /\ RowsOf(a)' = {Row(c)}
       \/ c.kind = "deletebox" /\ c.at = a /\ RowsOf(a)' = {}
       \/ c.kind = "deletedomain" /\ c.domain = a[2] /\ RowsOf(a)' = {}
  /\ \A a \in aliases : a \notin aliases' =>
       \/ c.kind = "deletealias" /\ a.source = c.at
       \/ c.kind = "deletedomain" /\ a.source[2] = c.domain
  /\ \A a \in aliases' : a \in aliases \/ (c.kind = "createalias" /\ a.source = c.at)

\* ... to the directories, ...
DirEffect(o) ==
  LET c == cmd[o] IN
  /\ \A x \in dirs : x \notin dirs' =>
       \/ c.kind = "deletebox" /\ x = c.at
       \/ c.kind = "deletedomain" /\ x \in {c.domain} \cup Locals \X {c.domain}
  /\ \A x \in dirs' : x \notin dirs =>
       \/ c.kind = "createbox" /\ pc[o] = "maildir" /\ x \in {c.at, c.at[2]}
       \/ c.kind = "createdomain" /\ x = c.domain

\* ... to keys and tables, ...
KeyEffect(o) ==
  LET c == cmd[o]
      adds(d) == c.kind = "createdomain" /\ c.dkim /\ c.domain = d
  IN
  /\ \A d \in Domains :
       \/ key'[d] = key[d]
       \/ adds(d)
       \/ c.kind = "deletedomain" /\ c.domain = d /\ key'[d] = None
  /\ UNCHANGED crossed
  /\ torn => torn'
  /\ \A p \in Ops \ {o} : p \in skipped' <=> p \in skipped
  /\ \A d \in Domains :
       /\ d \in keytab /\ d \notin keytab' /\ ~torn' =>
            \/ pc[o] = "writekey" /\ d \notin kept[o]
            \/ pc[o] = "openkey" /\ pc'[o] = "writekey"
       /\ d \in keytab' /\ d \notin keytab =>
            adds(d) \/ (pc[o] = "writekey" /\ d \in kept[o])
       /\ d \in sigtab /\ d \notin sigtab' /\ ~torn' =>
            \/ pc[o] = "writesig" /\ d \notin kept[o]
            \/ pc[o] = "opensig" /\ pc'[o] = "writesig"
       /\ d \in sigtab' /\ d \notin sigtab =>
            adds(d) \/ (pc[o] = "writesig" /\ d \in kept[o])
  /\ pc[o] = "writekey" /\ ~torn' => kept[o] \subseteq keytab'
  /\ pc[o] = "writesig" /\ ~torn' => kept[o] \subseteq sigtab'
  /\ \A p \in Ops \ {o} : kept'[p] = kept[p]
  /\ Holding(pc'[o]) =>
       \/ Holding(pc[o]) /\ kept'[o] = kept[o]
       \/ pc[o] = "readkey" /\ kept'[o] = Kept(keytab, c.domain)
       \/ pc[o] = "readsig" /\ kept'[o] = Kept(sigtab, c.domain)

\* ... and to what has been looked up.
FoundEffect(o) ==
  LET i == id[cmd[o].at[2]] IN
  /\ found' \in [Ops -> Nat]
  /\ \A p \in Ops \ {o} : found'[p] = found[p]
  /\ pc'[o] \in {"insertbox", "insertalias"} =>
       found'[o] = i /\ i # 0 /\ UNCHANGED id
  /\ /\ pc[o] \in {"findbox", "findalias"}
     /\ pc'[o] # "over"
     => cmd[o].at[2] \in Domains /\ i # 0

Effect(o) == RowEffect(o) /\ DirEffect(o) /\ KeyEffect(o) /\ FoundEffect(o)

\* A step of o keeps what p has done and what o does not undo.
LEMMA OthersKept ==
  ASSUME MailInv, NEW o \in Ops, NEW p \in Ops, p # o,
         IsMail(cmd[o]), Busy(o), pc'[o] # pc[o],
         IsMail(cmd[p]), p \notin undone, ~Undoing(cmd[o], cmd[p]),
         \A q \in Ops \ {o} : Same(q),
         Effect(o),
         (pc'[o] = "over" /\ cmd'[o] = Nothing) \/ cmd'[o] = cmd[o],
         ASSUME cmd'[o] = cmd[o] PROVE Placed(cmd[o], pc'[o])
  PROVE  Done(p)'
<1> DEFINE c == cmd[o]
           e == cmd[p]
<1> USE DEF MailInv
<1>1. /\ Done(p) /\ Placed(c, pc[o]) /\ Placed(e, pc[p])
      /\ pc'[p] = pc[p] /\ cmd'[p] = e
      /\ p \in raced' <=> p \in raced
      /\ Busy(p) /\ DomainDisturbs(c, e) => p \in raced
  BY DEF MailDone, MailPcs, MailRaced, Same
<1> USE DEF Addresses
<1>2. CASE e.kind = "createbox"
  <2> USE <1>2
  <2>1. e.at \in Addresses /\ e.at[2] \in Domains /\ BoxMade(p)
    BY <1>1 DEF Placed, IsBox, Done
  <2>2. id[e.at[2]] # 0 => id'[e.at[2]] = id[e.at[2]]
    BY <2>1 DEF Effect, RowEffect, Undoing, MailUndoes
  <2>3. id[e.at[2]] # 0 /\ RowsOf(e.at) = {Row(e)} =>
          {b \in boxes' : b.at = e.at} = {Row(e)}
    BY <2>1 DEF Effect, RowEffect, Undoing, MailUndoes, IsBox, RowsOf
  <2>4. id[e.at[2]] # 0 => Row(e)' = Row(e)
    BY <1>1, <2>2 DEF Row
  <2>5. e.at \in dirs => e.at \in dirs'
    <3>1. ~(c.kind = "deletebox" /\ e.at = c.at)
      BY DEF Undoing, MailUndoes, IsBox
    <3>2. c.kind = "deletedomain" => e.at[2] # c.domain /\ e.at # c.domain
      BY <1>1, <2>1, DirsOK DEF Undoing, MailUndoes, Placed, IsDomain
    <3> QED
      BY <2>1, <3>1, <3>2 DEF Effect, DirEffect
  <2> QED
    BY <1>1, <2>1, <2>2, <2>3, <2>4, <2>5 DEF BoxMade, Done, RowsOf
<1>3. CASE e.kind = "deletebox"
  <2> USE <1>3
  <2>1. e.at \in Addresses /\ e.at[2] \in Domains /\ BoxGone(p)
    BY <1>1 DEF Placed, IsBox, Done
  <2>2. RowsOf(e.at) = {} => {b \in boxes' : b.at = e.at} = {}
    BY <2>1 DEF Effect, RowEffect, Undoing, MailUndoes, IsBox, RowsOf
  <2>3. e.at \notin dirs => e.at \notin dirs'
    <3>1. ~(c.kind = "createbox" /\ e.at = c.at)
      BY DEF Undoing, MailUndoes, IsBox
    <3>2. c.kind = "createbox" => e.at # c.at[2]
      BY <1>1, <2>1, DirsOK DEF Placed, IsBox
    <3>3. c.kind = "createdomain" => e.at # c.domain
      BY <1>1, <2>1, DirsOK DEF Placed, IsDomain
    <3> QED
      BY <2>1, <3>1, <3>2, <3>3 DEF Effect, DirEffect
  <2> QED
    BY <1>1, <2>1, <2>2, <2>3 DEF BoxGone, Done, RowsOf
<1>4. CASE e.kind = "createalias"
  <2> USE <1>4
  <2>1. e.at \in Addresses /\ e.at[2] \in Domains /\ AliasMade(p)
    BY <1>1 DEF Placed, IsAlias, Done
  <2>2. id[e.at[2]] # 0 => id'[e.at[2]] = id[e.at[2]]
    BY <2>1 DEF Effect, RowEffect, Undoing, MailUndoes
  <2>3. found'[p] = found[p] /\ (pc[p] = "insertalias" => found[p] # 0)
    BY DEF Effect, FoundEffect, FoundOwn
  <2>4. ASSUME NEW a \in aliases, a.source = e.at
        PROVE  a \in aliases'
    BY <2>4 DEF Effect, RowEffect, Undoing, MailUndoes, IsAlias
  <2> QED
    BY <1>1, <2>1, <2>2, <2>3, <2>4 DEF AliasMade, Done
<1>5. CASE e.kind = "deletealias"
  <2> USE <1>5
  <2>1. AliasGone(p)
    BY <1>1 DEF Done
  <2>2. \A a \in aliases' : a \in aliases \/ a.source # e.at
    BY DEF Effect, RowEffect, Undoing, MailUndoes, IsAlias
  <2> QED
    BY <1>1, <2>1, <2>2 DEF AliasGone, Done
<1>6. CASE e.kind = "createdomain"
  <2> USE <1>6
  <2> DEFINE d == e.domain
  <2>1. d \in Domains /\ DomainMade(p)
    BY <1>1 DEF Placed, IsDomain, Done
  <2>2. c.kind = "deletedomain" => c.domain # d
    BY DEF Undoing, DomainUndoes, IsDomain
  <2>3. id[d] # 0 => id'[d] = id[d]
    BY <2>1, <2>2 DEF Effect, RowEffect
  <2>4. d \in dirs => d \in dirs'
    <3>1. c.kind = "deletebox" => c.at # d
      BY <1>1, <2>1, DirsOK DEF Placed, IsBox
    <3>2. d \notin Locals \X {c.domain} \/ c.kind # "deletedomain"
      BY <1>1, <2>1, DirsOK DEF Placed, IsDomain
    <3> QED
      BY <2>1, <2>2, <3>1, <3>2 DEF Effect, DirEffect
  <2>5. ASSUME Extends = {}, e.dkim, ~torn', p \notin raced' \cup crossed'
        PROVE  /\ pc[p] \in {"addkey", "addsig", "ok"} => key'[d] # None
               /\ pc[p] \in {"addsig", "ok"} => InTable(d, keytab, "writekey")'
               /\ pc[p] = "ok" => InTable(d, sigtab, "writesig")' /\ Lined(d)'
    <3>1. ~torn /\ p \notin raced \cup crossed
      BY <1>1, <2>5 DEF Effect, KeyEffect
    <3>2. /\ pc[p] \in {"addkey", "addsig", "ok"} => key[d] # None
          /\ pc[p] \in {"addsig", "ok"} => InTable(d, keytab, "writekey")
          /\ pc[p] = "ok" => InTable(d, sigtab, "writesig") /\ Lined(d)
      BY <2>1, <2>5, <3>1 DEF DomainMade
    <3>3. ~(c.kind = "createdomain" /\ c.dkim /\ c.domain = d)
      BY DEF Undoing, DomainUndoes, IsDomain
    <3>4. Holding(pc[o]) => pc[p] = "ok" /\ d \in kept[o]
      <4> SUFFICES ASSUME Holding(pc[o])
                   PROVE  pc[p] = "ok" /\ d \in kept[o]
        OBVIOUS
      <4>1. c.kind = "deletedomain"
        BY <1>1 DEF IsMail, IsBox, IsAlias, IsDomain, Placed, Holding
      <4>2. DomainDisturbs(c, e)
        BY <2>2, <4>1 DEF DomainDisturbs, IsDomain
      <4>3. pc[p] = "ok"
        BY <1>1, <3>1, <4>2 DEF Placed, Busy
      <4> QED
        BY <3>2, <4>3 DEF Lined
    <3>5. key[d] # None => key'[d] # None
      BY <2>1, <2>2, <2>5, <3>3 DEF Effect, KeyEffect
    <3>6. pc[p] \in {"addsig", "ok"} => InTable(d, keytab, "writekey")'
      <4> SUFFICES ASSUME pc[p] \in {"addsig", "ok"},
                          ~\E q \in Ops : pc'[q] = "writekey"
                   PROVE  d \in keytab'
        BY <1>1 DEF InTable
      <4>1. CASE pc[o] = "writekey"
        BY <2>1, <2>5, <3>4, <4>1 DEF Effect, KeyEffect, Holding
      <4>2. CASE pc[o] # "writekey"
        <5>1. d \in keytab
          BY <3>2, <4>2 DEF InTable, Same
        <5> QED
          BY <2>1, <2>5, <4>2, <5>1 DEF Effect, KeyEffect
      <4> QED
        BY <4>1, <4>2
    <3>7. pc[p] = "ok" => InTable(d, sigtab, "writesig")'
      <4> SUFFICES ASSUME pc[p] = "ok", ~\E q \in Ops : pc'[q] = "writesig"
                   PROVE  d \in sigtab'
        BY <1>1 DEF InTable
      <4>1. CASE pc[o] = "writesig"
        BY <2>1, <2>5, <3>4, <4>1 DEF Effect, KeyEffect, Holding
      <4>2. CASE pc[o] # "writesig"
        <5>1. d \in sigtab
          BY <3>2, <4>2 DEF InTable, Same
        <5> QED
          BY <2>1, <2>5, <4>2, <5>1 DEF Effect, KeyEffect
      <4> QED
        BY <4>1, <4>2
    <3>8. pc[p] = "ok" => \A q \in Ops : Holding(pc'[q]) => d \in kept'[q]
      <4> SUFFICES ASSUME pc[p] = "ok", NEW q \in Ops, Holding(pc'[q])
                   PROVE  d \in kept'[q]
        OBVIOUS
      <4>1. CASE q # o
        BY <3>2, <4>1 DEF Lined, Same, Effect, KeyEffect
      <4>2. CASE q = o /\ Holding(pc[o])
        BY <3>4, <4>2 DEF Effect, KeyEffect, Holding
      <4>3. CASE q = o /\ ~Holding(pc[o])
        <5>1. c.kind = "deletedomain"
          BY <4>3 DEF Holding, Nothing, IsMail, IsBox, IsAlias, IsDomain, Placed
        <5>2. \A r \in Ops : pc[r] \notin {"writekey", "writesig"}
          <6> SUFFICES ASSUME NEW r \in Ops, pc[r] \in {"writekey", "writesig"}
                       PROVE  FALSE
            OBVIOUS
          <6>1. IsMail(cmd[r]) /\ Placed(cmd[r], pc[r]) /\ Busy(r)
            BY DEF MailPcs, MailLabels, Busy
          <6>2. Deleting(r) /\ Deleting(o) /\ r # o
            BY <4>3, <5>1, <6>1
            DEF Deleting, Holding, IsMail, IsBox, IsAlias, IsDomain, Placed
          <6> QED
            BY <3>1, <6>2 DEF MailCrossed
        <5>3. d \in keytab /\ d \in sigtab
          BY <3>2, <5>2 DEF InTable
        <5>4. \E t \in {keytab, sigtab} : kept'[o] = Kept(t, c.domain)
          BY <4>3 DEF Effect, KeyEffect
        <5> QED
          BY <2>2, <2>5, <4>3, <5>1, <5>3, <5>4 DEF Kept
      <4> QED
        BY <4>1, <4>2, <4>3
    <3> QED
      BY <1>1, <3>2, <3>5, <3>6, <3>7, <3>8 DEF Lined
  <2> QED
    BY <1>1, <2>1, <2>3, <2>4, <2>5 DEF DomainMade, Done
<1>7. CASE e.kind = "deletedomain"
  <2> USE <1>7
  <2> DEFINE d == e.domain
  <2>1. d \in Domains /\ DomainGone(p)
    BY <1>1 DEF Placed, IsDomain, Done
  <2>2. c.kind = "createdomain" => c.domain # d
    BY DEF Undoing, DomainUndoes, IsDomain
  <2>3. id[d] = 0 => id'[d] = 0
    BY <2>1, <2>2 DEF Effect, RowEffect
  <2>4. ASSUME p \notin raced', p \notin skipped'
        PROVE  /\ pc[p] # "rmkey" => key'[d] = None
               /\ pc[p] \in KeyGone => d \notin keytab'
               /\ pc[p] \in SigGone => d \notin sigtab'
               /\ pc[p] = "ok" => Unlined(d)'
    <3>1. p \notin skipped /\ p \notin raced
      BY <1>1, <2>4 DEF Effect, KeyEffect
    <3>2. /\ pc[p] # "rmkey" => key[d] = None
          /\ pc[p] \in KeyGone => d \notin keytab
          /\ pc[p] \in SigGone => d \notin sigtab
          /\ pc[p] = "ok" => Unlined(d)
      BY <2>1, <3>1 DEF DomainGone
    <3>3. Holding(pc[o]) => d \notin kept[o]
      <4> SUFFICES ASSUME Holding(pc[o])
                   PROVE  d \notin kept[o]
        OBVIOUS
      <4>1. c.kind = "deletedomain"
        BY <1>1 DEF IsMail, IsBox, IsAlias, IsDomain, Placed, Holding
      <4>2. CASE c.domain = d
        BY <4>2 DEF KeptOwn
      <4>3. CASE c.domain # d
        <5>1. DomainDisturbs(c, e)
          BY <4>1, <4>3 DEF DomainDisturbs, IsDomain
        <5>2. pc[p] = "ok"
          BY <1>1, <3>1, <5>1 DEF Placed, Busy
        <5> QED
          BY <3>2, <5>2 DEF Unlined
      <4> QED
        BY <4>2, <4>3
    <3>4. /\ key[d] = None => key'[d] = None
          /\ d \notin keytab => d \notin keytab'
          /\ d \notin sigtab => d \notin sigtab'
      BY <2>1, <2>2, <3>3 DEF Effect, KeyEffect, Holding
    <3>5. pc[p] = "ok" => \A q \in Ops : Holding(pc'[q]) => d \notin kept'[q]
      <4> SUFFICES ASSUME pc[p] = "ok", NEW q \in Ops, Holding(pc'[q])
                   PROVE  d \notin kept'[q]
        OBVIOUS
      <4>1. CASE q # o
        BY <3>2, <4>1 DEF Unlined, Same, Effect, KeyEffect
      <4>2. CASE q = o
        BY <3>2, <3>3, <4>2 DEF Kept, Effect, KeyEffect, KeyGone, SigGone
      <4> QED
        BY <4>1, <4>2
    <3> QED
      BY <1>1, <3>2, <3>4, <3>5 DEF Unlined
  <2>5. ASSUME p \notin raced', pc[p] = "ok"
        PROVE  /\ e.purge => dirs' \cap ({d} \cup Locals \X {d}) = {}
               /\ Closed(d)'
    <3>1. (e.purge => dirs \cap ({d} \cup Locals \X {d}) = {}) /\ Closed(d)
          /\ id[d] = 0
      BY <1>1, <2>1, <2>5 DEF DomainGone
    <3>2. c.kind = "createbox" /\ pc[o] # "findbox" => c.at[2] # d
      BY <3>1 DEF Closed
    <3>3. ASSUME NEW x \in dirs', x \notin dirs
          PROVE  x \notin {d} \cup Locals \X {d}
      <4>1. CASE c.kind = "createbox" /\ pc[o] = "maildir" /\ x \in {c.at, c.at[2]}
        <5>1. c.at \in Locals \X Domains /\ c.at[2] # d /\ c.at[2] \in Domains
          BY <1>1, <3>2, <4>1 DEF Placed, IsBox
        <5> QED
          BY <2>1, <4>1, <5>1, DirsOK
      <4>2. CASE c.kind = "createdomain" /\ x = c.domain
        <5>1. c.domain # d /\ c.domain \in Domains
          BY <1>1, <2>2, <4>2 DEF Placed, IsDomain
        <5> QED
          BY <2>1, <4>2, <5>1, DirsOK
      <4> QED
        BY <3>3, <4>1, <4>2 DEF Effect, DirEffect
    <3>4. ASSUME NEW q \in Ops, Busy(q)', cmd'[q].kind = "createbox", cmd'[q].at[2] = d
          PROVE  pc'[q] = "findbox"
      <4>1. CASE q # o
        BY <3>1, <3>4, <4>1 DEF Closed, Same, Busy
      <4>2. CASE q = o
        <5>1. cmd'[o] = c /\ c.kind = "createbox" /\ c.at[2] = d /\ pc'[o] # "over"
          BY <3>4, <4>2 DEF Nothing, Busy
        <5>2. pc[o] = "findbox"
          BY <3>2, <5>1
        <5> QED
          BY <3>1, <5>1, <5>2 DEF Effect, FoundEffect
      <4> QED
        BY <4>1, <4>2
    <3> QED
      BY <1>1, <3>1, <3>3, <3>4 DEF Closed
  <2> QED
    BY <1>1, <2>1, <2>3, <2>4, <2>5 DEF DomainGone, Done
<1> QED
  BY <1>1, <1>2, <1>3, <1>4, <1>5, <1>6, <1>7 DEF IsMail, IsBox, IsAlias, IsDomain

\* A step keeps the invariant when its effect is within these bounds and its
\* own part is done.
LEMMA MailInvMoved ==
  ASSUME MailInv, NEW o \in Ops, pc[o] \in MailLabels,
         NEW l \in MailLabels \cup {"ok"}, l # pc[o], Moves(o, l), Placed(cmd[o], l),
         RowTypes', DkimTypeOK', Effect(o),
         /\ cmd'[o] = cmd[o] /\ pc'[o] = l
         /\ o \notin undone /\ (o \in raced' <=> o \in raced)
         /\ \A p \in Ops \ {o} : Same(p)
         => Done(o)'
  PROVE  MailInv'
<1>1. /\ MailPcs' /\ MailUndone' /\ MailRaced' /\ MailCrossed'
      /\ Own(o, l) /\ \A p \in Ops \ {o} : Same(p)
      /\ \A p \in Ops \ {o} : IsMail(cmd[p]) /\ p \notin undone =>
           ~Undoing(cmd[o], cmd[p])
      /\ \/ pc'[o] = "over" /\ cmd'[o] = Nothing
         \/ pc'[o] = l /\ cmd'[o] = cmd[o]
  BY MailControl DEF Effect, KeyEffect
<1>2. IsMail(cmd[o]) /\ Busy(o) /\ ~IsMail(Nothing)
  BY DEF MailInv, MailPcs, Busy, MailLabels, Nothing, IsMail, IsBox, IsAlias, IsDomain
<1>3. pc'[o] # pc[o]
  BY <1>1 DEF MailLabels
<1>4. FoundOwn'
  <2> SUFFICES ASSUME NEW q \in Ops, pc'[q] \in {"insertbox", "insertalias"}
               PROVE  /\ found'[q] # 0 /\ found'[q] < nextid'
                      /\ \A d \in Domains : id'[d] = found'[q] => d = cmd'[q].at[2]
    BY DEF FoundOwn, Effect, FoundEffect
  <2>1. CASE q # o
    <3>1. /\ found'[q] = found[q] /\ pc[q] = pc'[q] /\ cmd'[q] = cmd[q]
          /\ found[q] # 0 /\ found[q] < nextid /\ found[q] \in Nat
          /\ \A d \in Domains : id[d] = found[q] => d = cmd[q].at[2]
      BY <2>1, <1>1 DEF MailInv, FoundOwn, Same, Effect, FoundEffect
    <3>2. /\ nextid' >= nextid /\ nextid \in Nat /\ nextid' \in Nat
          /\ \A d \in Domains : id'[d] \in {id[d], nextid, 0}
      BY DEF Effect, RowEffect, MailInv, RowTypes
    <3> QED
      BY <3>1, <3>2
  <2>2. CASE q = o
    <3>1. /\ found'[o] = id[cmd[o].at[2]] /\ found'[o] # 0 /\ UNCHANGED id
          /\ cmd'[o] = cmd[o]
      BY <1>1, <2>2 DEF Effect, FoundEffect
    <3>2. cmd[o].at \in Addresses
      BY <1>1, <1>2, <2>2, <3>1
      DEF MailInv, MailPcs, Placed, IsMail, IsBox, IsAlias, IsDomain
    <3>3. nextid' >= nextid /\ nextid' \in Nat
      BY DEF Effect, RowEffect, RowTypes
    <3> QED
      BY <2>2, <3>1, <3>2, <3>3 DEF MailInv, RowTypes, Addresses
  <2> QED
    BY <2>1, <2>2
<1>5. KeptOwn'
  <2> SUFFICES ASSUME NEW q \in Ops, Holding(pc'[q])
               PROVE  cmd'[q].domain \notin kept'[q]
    BY DEF KeptOwn
  <2>1. CASE q # o
    BY <2>1, <1>1 DEF Same, MailInv, KeptOwn, Effect, KeyEffect
  <2>2. CASE q = o
    BY <2>2, <1>1 DEF Effect, KeyEffect, Kept, Holding, MailInv, KeptOwn
  <2> QED
    BY <2>1, <2>2
<1>6. MailDone'
  <2> SUFFICES ASSUME NEW p \in Ops, IsMail(cmd'[p]), p \notin undone'
               PROVE  Done(p)'
    BY DEF MailDone
  <2>1. CASE p # o
    <3>1. IsMail(cmd[p]) /\ p \notin undone /\ ~Undoing(cmd[o], cmd[p])
      BY <2>1, <1>1 DEF Same
    <3>2. cmd'[o] = cmd[o] => Placed(cmd[o], pc'[o])
      BY <1>1, <1>2
    <3> QED
      BY <2>1, <1>1, <1>2, <1>3, <3>1, <3>2, OthersKept
  <2>2. CASE p = o
    BY <2>2, <1>1, <1>2 DEF Own
  <2> QED
    BY <2>1, <2>2
<1> QED
  BY <1>1, <1>4, <1>5, <1>6 DEF MailInv

\* What is left alone.
LEMMA Untouched ==
  ASSUME NEW o \in Ops, MailInv
  PROVE  /\ UNCHANGED <<id, nextid, boxes, aliases>> => RowEffect(o)
         /\ UNCHANGED <<id, nextid, boxes, aliases, dirs>> => RowTypes'
         /\ UNCHANGED dirs => DirEffect(o)
         /\ UNCHANGED dkim => DkimTypeOK'
         /\ /\ UNCHANGED dkim /\ ~Holding(pc'[o])
            /\ pc[o] \notin {"writekey", "writesig"}
            => KeyEffect(o)
         /\ /\ UNCHANGED found \/ found' = [found EXCEPT ![o] = 0]
            /\ pc[o] \notin {"findbox", "findalias"}
            /\ pc'[o] \notin {"insertbox", "insertalias"}
            => FoundEffect(o)
<1> USE DEF MailInv
<1>1. UNCHANGED <<id, nextid, boxes, aliases>> => RowEffect(o)
  BY DEF RowEffect, RowsOf, RowTypes
<1>2. UNCHANGED <<id, nextid, boxes, aliases, dirs>> => RowTypes'
  BY DEF RowTypes
<1>3. UNCHANGED dirs => DirEffect(o)
  BY DEF DirEffect
<1>4. UNCHANGED dkim => DkimTypeOK'
  BY DEF DkimTypeOK, dkim, lines, tables
<1>5. /\ UNCHANGED dkim /\ ~Holding(pc'[o])
      /\ pc[o] \notin {"writekey", "writesig"}
      => KeyEffect(o)
  BY DEF KeyEffect, dkim, lines, tables
<1>6. /\ UNCHANGED found \/ found' = [found EXCEPT ![o] = 0]
      /\ pc[o] \notin {"findbox", "findalias"}
      /\ pc'[o] \notin {"insertbox", "insertalias"}
      => FoundEffect(o)
  BY DEF FoundEffect, FoundOwn
<1> QED
  BY <1>1, <1>2, <1>3, <1>4, <1>5, <1>6

\* While a creation is not raced, no deletion is about to write a table; while
\* a deletion is not, none will put its lines back, and no mailbox of its
\* domain is being created.
LEMMA Alone ==
  ASSUME MailInv, NEW o \in Ops, Busy(o), IsDomain(cmd[o]), o \notin raced,
         NEW q \in Ops \ {o}
  PROVE  /\ cmd[o].kind = "createdomain" /\ o \notin undone => ~Holding(pc[q])
         /\ cmd[o].kind = "deletedomain" =>
              /\ Holding(pc[q]) => cmd[o].domain \notin kept[q]
              /\ ~(Busy(q) /\ cmd[q].kind = "createbox"
                           /\ cmd[q].at[2] = cmd[o].domain)
<1> USE DEF MailInv
<1>1. Busy(q) /\ DomainDisturbs(cmd[q], cmd[o]) => FALSE
  BY DEF MailRaced
<1>2. Busy(q) /\ Undoing(cmd[q], cmd[o]) => o \in undone
  BY DEF MailUndone, IsMail
<1>3. Holding(pc[q]) =>
        /\ Busy(q) /\ cmd[q].kind = "deletedomain"
        /\ cmd[q].domain = cmd[o].domain /\ cmd[q].domain \notin kept[q]
  <2> SUFFICES ASSUME Holding(pc[q])
               PROVE  /\ Busy(q) /\ cmd[q].kind = "deletedomain"
                      /\ cmd[q].domain = cmd[o].domain /\ cmd[q].domain \notin kept[q]
    OBVIOUS
  <2>1. Busy(q) /\ IsMail(cmd[q]) /\ Placed(cmd[q], pc[q])
    BY DEF MailPcs, MailLabels, Busy, Holding
  <2>2. cmd[q].kind = "deletedomain"
    BY <2>1 DEF Placed, IsMail, IsBox, IsAlias, IsDomain, Holding
  <2> QED
    BY <1>1, <2>1, <2>2 DEF KeptOwn, DomainDisturbs
<1> QED
  BY <1>1, <1>2, <1>3 DEF Undoing, DomainUndoes, DomainDisturbs, IsDomain

\* Statements and directories of mail keep the invariant.
LEMMA MailInvStep ==
  ASSUME MailInv, NEW o \in Ops, MailStep(o), UNCHANGED dkim
  PROVE  MailInv'
<1> DEFINE c == cmd[o]
<1>1. ASSUME NEW l \in MailLabels \cup {"ok"}, l # pc[o], Moves(o, l),
             pc[o] \in MailLabels, Placed(c, l), ~Holding(l),
             pc[o] \notin {"writekey", "writesig"}, RowTypes',
             RowEffect(o), DirEffect(o), FoundEffect(o),
             /\ cmd'[o] = c /\ pc'[o] = l
             /\ o \notin undone /\ (o \in raced' <=> o \in raced)
             /\ \A p \in Ops \ {o} : Same(p)
             => Done(o)'
      PROVE  MailInv'
  <2>1. ~Holding(pc'[o])
    BY <1>1 DEF Moves, Over, MailInv, MailPcs, Holding
  <2>2. Effect(o) /\ DkimTypeOK'
    BY <1>1, <2>1, Untouched DEF Effect
  <2> QED
    BY <1>1, <2>2, MailInvMoved
<1>2. pc[o] \in MailLabels =>
        /\ IsMail(c) /\ Placed(c, pc[o])
        /\ Over(o) => cmd'[o] # c /\ pc'[o] = "over"
  BY DEF MailInv, MailPcs, IsMail, IsBox, IsAlias, IsDomain, Over, Forget, Nothing
<1>3. c.kind # "none" /\ o \notin undone /\ IsMail(c) => Done(o)
  BY DEF MailInv, MailDone
<1> USE DEF MailLabels, Holding
<1>4. CASE FindDomain(o)
  <2> DEFINE l == IF pc[o] = "findbox" THEN "insertbox" ELSE "insertalias"
  <2>1. /\ pc[o] \in {"findbox", "findalias"} /\ Moves(o, l)
        /\ UNCHANGED <<id, nextid, boxes, aliases, dirs>>
        /\ \/ /\ id[c.at[2]] # 0 /\ found' = [found EXCEPT ![o] = id[c.at[2]]]
           \/ UNCHANGED found /\ Over(o)
    BY <1>4 DEF FindDomain, Goto, Moves, rows
  <2>2. /\ c.at \in Addresses /\ Placed(c, l) /\ l \in {"insertbox", "insertalias"}
        /\ pc[o] = "findbox" => c.kind = "createbox"
        /\ pc[o] = "findalias" => c.kind = "createalias"
    BY <2>1, <1>2 DEF Placed, IsMail, IsBox, IsAlias, IsDomain
  <2>3. RowTypes' /\ RowEffect(o) /\ DirEffect(o)
    BY <2>1, Untouched
  <2>4. FoundEffect(o)
    BY <1>2, <2>1, <2>2 DEF FoundEffect, MailInv, FoundOwn, RowTypes, Addresses
  <2>5. cmd'[o] = c /\ pc'[o] = l => Done(o)'
    BY <1>2, <2>1, <2>2 DEF Done, BoxMade, AliasMade, MailInv, FoundOwn
  <2> HIDE DEF l
  <2> QED
    BY <1>1, <2>1, <2>2, <2>3, <2>4, <2>5
<1>5. CASE InsertBox(o)
  <2> DEFINE old == {b \in boxes : b.at = c.at}
  <2>1. /\ pc[o] = "insertbox" /\ Moves(o, "maildir") /\ UNCHANGED dirs
        /\ UNCHANGED found \/ found' = [found EXCEPT ![o] = 0]
        /\ \/ /\ old # {} \/ References(found[o])
              /\ boxes' = (boxes \ old) \cup BoxRow(o, found[o], old)
              /\ UNCHANGED <<id, nextid, aliases>>
           \/ UNCHANGED <<id, nextid, boxes, aliases>> /\ Over(o)
    BY <1>5 DEF InsertBox, Statement, Try, Goto, Fail, Moves, mail, rows
  <2>2. /\ c.kind = "createbox" /\ c.at \in Addresses /\ c.at[2] \in Domains
        /\ Placed(c, "maildir")
    BY <2>1, <1>2 DEF Placed, IsMail, IsBox, IsAlias, IsDomain, Addresses
  <2>3. CASE UNCHANGED <<id, nextid, boxes, aliases>> /\ Over(o)
    <3>1. RowTypes' /\ RowEffect(o) /\ DirEffect(o)
      BY <2>1, <2>3, Untouched
    <3>2. FoundEffect(o) /\ cmd'[o] # c
      BY <2>1, <2>3, <1>2, Untouched
    <3> QED
      BY <1>1, <2>1, <2>2, <3>1, <3>2
  <2>4. CASE /\ old # {} \/ References(found[o])
             /\ boxes' = (boxes \ old) \cup BoxRow(o, found[o], old)
             /\ UNCHANGED <<id, nextid, aliases>>
    <3>1. References(found[o]) => found[o] = id[c.at[2]] /\ found[o] # 0
      BY <2>1 DEF References, MailInv, FoundOwn
    <3>2. \A b \in old : b.domain = id[c.at[2]] /\ b.domain # 0
      BY DEF MailInv, RowTypes
    <3>3. BoxRow(o, found[o], old) = {Row(c)} /\ id[c.at[2]] # 0
      <4>1. CASE old = {}
        BY <2>4, <3>1, <4>1 DEF BoxRow, Row
      <4>2. CASE old # {}
        <5>1. {b.domain : b \in old} = {id[c.at[2]]}
          BY <3>2, <4>2
        <5> QED
          BY <3>2, <4>2, <5>1 DEF BoxRow, Row
      <4> QED
        BY <4>1, <4>2
    <3> HIDE DEF old
    <3>4. boxes' = (boxes \ old) \cup {Row(c)}
      BY <2>4, <3>3
    <3>5. Row(c).at = c.at /\ Row(c).domain = id[c.at[2]]
      BY DEF Row
    <3>6. RowTypes'
      BY <2>1, <2>2, <2>4, <3>3, <3>4, <3>5 DEF MailInv, RowTypes
    <3>7. {b \in boxes' : b.at = c.at} = {Row(c)}
      BY <3>4, <3>5 DEF old
    <3>8. \A a : a # c.at => {b \in boxes' : b.at = a} = RowsOf(a)
      BY <3>4, <3>5 DEF old, RowsOf
    <3>9. RowEffect(o)
      BY <2>2, <2>4, <3>7, <3>8 DEF RowEffect, RowsOf, MailInv, RowTypes
    <3>10. cmd'[o] = c /\ pc'[o] = "maildir" => Done(o)'
      BY <2>2, <2>4, <3>3, <3>7 DEF Done, BoxMade, RowsOf, Row
    <3>11. pc'[o] \notin {"insertbox", "insertalias"}
      BY <2>1 DEF Moves, Over, MailInv, MailPcs
    <3>12. FoundEffect(o) /\ DirEffect(o)
      BY <2>1, <3>11, Untouched
    <3> QED
      BY <1>1, <2>1, <2>2, <3>6, <3>9, <3>10, <3>12
  <2> QED
    BY <2>1, <2>3, <2>4
<1>6. CASE MakeMaildir(o)
  <2>1. /\ pc[o] = "maildir" /\ Moves(o, "ok")
        /\ UNCHANGED <<id, nextid, boxes, aliases, found>>
        /\ \/ dirs' = dirs \cup {c.at, c.at[2]}
           \/ UNCHANGED dirs /\ Over(o)
    BY <1>6 DEF MakeMaildir, Try, Goto, Moves, rows
  <2>2. /\ c.kind = "createbox" /\ c.at \in Addresses /\ c.at[2] \in Domains
        /\ Placed(c, "ok") /\ IsMail(c)
    BY <2>1, <1>2 DEF Placed, IsMail, IsBox, IsAlias, IsDomain, Addresses
  <2>3. RowTypes' /\ DirEffect(o)
    BY <2>1, <2>2 DEF MailInv, RowTypes, DirEffect
  <2>4. pc'[o] \notin {"insertbox", "insertalias"}
    BY <2>1 DEF Moves, Over, MailInv, MailPcs
  <2>5. RowEffect(o) /\ FoundEffect(o)
    BY <2>1, <2>4, Untouched
  <2>6. cmd'[o] = c /\ pc'[o] = "ok" /\ o \notin undone => Done(o)'
    <3> SUFFICES ASSUME cmd'[o] = c, pc'[o] = "ok", o \notin undone
                 PROVE  BoxMade(o)'
      BY <2>2 DEF Done
    <3>1. BoxMade(o)
      BY <1>3, <2>2 DEF Done
    <3> QED
      BY <1>2, <2>1, <3>1 DEF BoxMade, RowsOf, Row
  <2> QED
    BY <1>1, <2>1, <2>2, <2>3, <2>5, <2>6
<1>7. CASE DropBox(o)
  <2> DEFINE l == IF c.purge THEN "purgebox" ELSE "ok"
  <2>1. /\ pc[o] = "dropbox" /\ Moves(o, l) /\ UNCHANGED <<id, nextid, aliases, dirs>>
        /\ UNCHANGED found \/ found' = [found EXCEPT ![o] = 0]
        /\ \/ boxes' = {b \in boxes : b.at # c.at}
           \/ UNCHANGED boxes /\ Over(o)
    BY <1>7 DEF DropBox, Statement, Try, Goto, Fail, Moves, mail, rows
  <2>2. /\ c.kind = "deletebox" /\ c.at \in Addresses
        /\ Placed(c, l) /\ l \in {"purgebox", "ok"}
    BY <2>1, <1>2 DEF Placed, IsMail, IsBox, IsAlias, IsDomain
  <2>3. RowTypes'
    BY <2>1 DEF MailInv, RowTypes
  <2>4. RowEffect(o)
    BY <2>1, <2>2 DEF RowEffect, RowsOf, MailInv, RowTypes
  <2>5. cmd'[o] = c /\ pc'[o] = l => Done(o)'
    BY <1>2, <2>1, <2>2 DEF Done, BoxGone, RowsOf
  <2>6. pc'[o] \notin {"insertbox", "insertalias"}
    BY <2>1, <2>2 DEF Moves, Over, MailInv, MailPcs
  <2>7. DirEffect(o) /\ FoundEffect(o)
    BY <2>1, <2>6, Untouched
  <2> HIDE DEF l
  <2> QED
    BY <1>1, <2>1, <2>2, <2>3, <2>4, <2>5, <2>7
<1>8. CASE PurgeBox(o)
  <2>1. /\ pc[o] = "purgebox" /\ Moves(o, "ok")
        /\ UNCHANGED <<id, nextid, boxes, aliases, found>>
        /\ \/ dirs' = dirs \ {c.at}
           \/ UNCHANGED dirs /\ Over(o)
    BY <1>8 DEF PurgeBox, Try, Goto, Moves, rows
  <2>2. c.kind = "deletebox" /\ Placed(c, "ok") /\ IsMail(c)
    BY <2>1, <1>2 DEF Placed, IsMail, IsBox, IsAlias, IsDomain
  <2>3. RowTypes' /\ DirEffect(o)
    BY <2>1, <2>2 DEF MailInv, RowTypes, DirEffect
  <2>4. pc'[o] \notin {"insertbox", "insertalias"}
    BY <2>1 DEF Moves, Over, MailInv, MailPcs
  <2>5. RowEffect(o) /\ FoundEffect(o)
    BY <2>1, <2>4, Untouched
  <2>6. cmd'[o] = c /\ pc'[o] = "ok" /\ o \notin undone => Done(o)'
    <3> SUFFICES ASSUME cmd'[o] = c, pc'[o] = "ok", o \notin undone
                 PROVE  BoxGone(o)'
      BY <2>2 DEF Done
    <3>1. BoxGone(o)
      BY <1>3, <2>2 DEF Done
    <3> QED
      BY <1>2, <2>1, <3>1 DEF BoxGone, RowsOf
  <2> QED
    BY <1>1, <2>1, <2>2, <2>3, <2>5, <2>6
<1>9. CASE InsertAlias(o)
  <2> DEFINE new == [source |-> c.at, dest |-> c.dest, domain |-> found[o]]
  <2>1. /\ pc[o] = "insertalias" /\ Moves(o, "ok")
        /\ UNCHANGED <<id, nextid, boxes, dirs>>
        /\ UNCHANGED found \/ found' = [found EXCEPT ![o] = 0]
        /\ \/ aliases' = IF References(found[o]) THEN aliases \cup {new} ELSE aliases
           \/ UNCHANGED aliases /\ Over(o)
    BY <1>9 DEF InsertAlias, Statement, Try, Goto, Fail, Moves, mail, rows
  <2>2. /\ c.kind = "createalias" /\ c.at \in Addresses /\ c.at[2] \in Domains
        /\ Placed(c, "ok") /\ IsMail(c)
    BY <2>1, <1>2 DEF Placed, IsMail, IsBox, IsAlias, IsDomain, Addresses
  <2>3. References(found[o]) => found[o] = id[c.at[2]] /\ found[o] # 0
    BY <2>1 DEF References, MailInv, FoundOwn
  <2>4. /\ new.source = c.at
        /\ \A a \in aliases' : a \in aliases \/ (a = new /\ References(found[o]))
        /\ \A a \in aliases : a \in aliases'
    BY <2>1
  <2>5. RowTypes'
    <3>1. \A a \in aliases' :
            a.source \in Addresses /\ a.domain = id[a.source[2]] /\ a.domain # 0
      BY <2>2, <2>3, <2>4 DEF MailInv, RowTypes
    <3> QED
      BY <2>1, <3>1 DEF MailInv, RowTypes
  <2>6. RowEffect(o)
    BY <2>1, <2>2, <2>4 DEF RowEffect, RowsOf, MailInv, RowTypes
  <2>7. cmd'[o] = c /\ pc'[o] = "ok" /\ o \notin undone => Done(o)'
    <3> SUFFICES ASSUME cmd'[o] = c, pc'[o] = "ok", o \notin undone
                 PROVE  AliasMade(o)'
      BY <2>2 DEF Done
    <3>1. found[o] = id[c.at[2]] /\ found[o] # 0
      BY <1>3, <2>1, <2>2 DEF Done, AliasMade, MailInv, FoundOwn
    <3>2. References(found[o])
      BY <2>2, <3>1 DEF References
    <3> QED
      BY <1>2, <2>1, <3>1, <3>2 DEF AliasMade
  <2>8. pc'[o] \notin {"insertbox", "insertalias"}
    BY <2>1 DEF Moves, Over, MailInv, MailPcs
  <2>9. DirEffect(o) /\ FoundEffect(o)
    BY <2>1, <2>8, Untouched
  <2> QED
    BY <1>1, <2>1, <2>2, <2>5, <2>6, <2>7, <2>9
<1>10. CASE DropAlias(o)
  <2>1. /\ pc[o] = "dropalias" /\ Moves(o, "ok")
        /\ UNCHANGED <<id, nextid, boxes, dirs>>
        /\ UNCHANGED found \/ found' = [found EXCEPT ![o] = 0]
        /\ \/ aliases' = {a \in aliases : a.source # c.at}
           \/ UNCHANGED aliases /\ Over(o)
    BY <1>10 DEF DropAlias, Statement, Try, Goto, Fail, Moves, mail, rows
  <2>2. c.kind = "deletealias" /\ Placed(c, "ok")
    BY <2>1, <1>2 DEF Placed, IsMail, IsBox, IsAlias, IsDomain
  <2>3. RowTypes'
    BY <2>1 DEF MailInv, RowTypes
  <2>4. RowEffect(o)
    BY <2>1, <2>2 DEF RowEffect, RowsOf, MailInv, RowTypes
  <2>5. cmd'[o] = c /\ pc'[o] = "ok" => Done(o)'
    BY <1>2, <2>1, <2>2 DEF Done, AliasGone
  <2>6. pc'[o] \notin {"insertbox", "insertalias"}
    BY <2>1 DEF Moves, Over, MailInv, MailPcs
  <2>7. DirEffect(o) /\ FoundEffect(o)
    BY <2>1, <2>6, Untouched
  <2> QED
    BY <1>1, <2>1, <2>2, <2>3, <2>4, <2>5, <2>7
<1>11. ASSUME c.kind = "deletedomain", Busy(o), pc'[o] = "ok", UNCHANGED kept,
              o \notin raced, \A p \in Ops \ {o} : Same(p), cmd'[o] = c
       PROVE  Unlined(c.domain)' /\ Closed(c.domain)'
  <2>1. \A q \in Ops \ {o} :
          /\ Holding(pc[q]) => c.domain \notin kept[q]
          /\ ~(Busy(q) /\ cmd[q].kind = "createbox" /\ cmd[q].at[2] = c.domain)
    BY <1>11, Alone DEF IsDomain
  <2> QED
    BY <1>11, <2>1 DEF Unlined, Closed, Same, Busy
<1>12. CASE DeleteDomain(o)
  <2> DEFINE d == c.domain
             l == IF c.purge THEN "purgedomain" ELSE "ok"
  <2>1. /\ pc[o] = "deletedomain" /\ Moves(o, l) /\ UNCHANGED <<nextid, dirs>>
        /\ UNCHANGED found \/ found' = [found EXCEPT ![o] = 0]
        /\ \/ /\ id' = [id EXCEPT ![d] = 0]
              /\ boxes' = {b \in boxes : b.domain # id[d]}
              /\ aliases' = {a \in aliases : a.domain # id[d]}
           \/ UNCHANGED <<id, boxes, aliases>> /\ Over(o)
    BY <1>12 DEF DeleteDomain, Cascade, Statement, Try, Goto, Fail, Moves, mail, rows
  <2>2. /\ c.kind = "deletedomain" /\ d \in Domains
        /\ Placed(c, l) /\ l \in {"purgedomain", "ok"} /\ IsMail(c) /\ Busy(o)
    BY <2>1, <1>2 DEF Placed, IsMail, IsBox, IsAlias, IsDomain, Busy
  <2>3. pc'[o] \notin {"insertbox", "insertalias"}
    BY <2>1, <2>2 DEF Moves, Over, MailInv, MailPcs
  <2>4. DirEffect(o) /\ FoundEffect(o)
    BY <2>1, <2>3, Untouched
  <2>5. CASE UNCHANGED <<id, boxes, aliases>> /\ Over(o)
    <3>1. RowTypes' /\ RowEffect(o) /\ cmd'[o] # c
      BY <1>2, <2>1, <2>5, Untouched
    <3> HIDE DEF l
    <3> QED
      BY <1>1, <2>1, <2>2, <2>4, <3>1
  <2>6. CASE /\ id' = [id EXCEPT ![d] = 0]
             /\ boxes' = {b \in boxes : b.domain # id[d]}
             /\ aliases' = {a \in aliases : a.domain # id[d]}
    <3>1. /\ \A b \in boxes : b \in boxes' <=> b.at[2] # d
          /\ \A a \in aliases : a \in aliases' <=> a.source[2] # d
      BY <2>2, <2>6 DEF MailInv, RowTypes, Addresses
    <3>2. id' \in [Domains -> Nat] /\ id'[d] = 0
          /\ \A e \in Domains \ {d} : id'[e] = id[e]
      BY <2>2, <2>6 DEF MailInv, RowTypes
    <3>3. RowTypes'
      BY <2>1, <2>2, <2>6, <3>1, <3>2 DEF MailInv, RowTypes, Addresses
    <3>4. \A a \in Addresses :
            {b \in boxes' : b.at = a} = IF a[2] = d THEN {} ELSE RowsOf(a)
      BY <2>6, <3>1 DEF RowsOf
    <3>5. RowEffect(o)
      BY <2>1, <2>2, <2>6, <3>1, <3>2, <3>4 DEF RowEffect, RowsOf, MailInv, RowTypes
    <3>6. /\ cmd'[o] = c /\ pc'[o] = l
          /\ o \notin undone /\ (o \in raced' <=> o \in raced)
          /\ \A p \in Ops \ {o} : Same(p)
          => Done(o)'
      <4> SUFFICES ASSUME cmd'[o] = c, pc'[o] = l, o \notin undone,
                          o \in raced' <=> o \in raced, \A p \in Ops \ {o} : Same(p)
                   PROVE  DomainGone(o)'
        BY <2>2 DEF Done
      <4>1. DomainGone(o)
        BY <1>3, <2>2 DEF Done
      <4>2. UNCHANGED <<key, keytab, sigtab, skipped, kept>>
        BY DEF dkim, lines, tables
      <4>3. o \notin raced /\ l = "ok" => Unlined(d)' /\ Closed(d)'
        BY <1>11, <2>2, <4>2
      <4>4. l = "ok" => ~c.purge
        OBVIOUS
      <4> HIDE DEF l
      <4> QED
        BY <2>1, <2>2, <3>2, <4>1, <4>2, <4>3, <4>4 DEF DomainGone, KeyGone, SigGone
    <3> HIDE DEF l
    <3> QED
      BY <1>1, <2>1, <2>2, <2>4, <3>3, <3>5, <3>6
  <2> QED
    BY <2>1, <2>5, <2>6
<1>13. CASE PurgeDomain(o)
  <2> DEFINE d == c.domain
  <2>1. /\ pc[o] = "purgedomain" /\ Moves(o, "ok")
        /\ UNCHANGED <<id, nextid, boxes, aliases, found>>
        /\ \/ dirs' = dirs \ ({d} \cup Locals \X {d})
           \/ UNCHANGED dirs /\ Over(o)
    BY <1>13 DEF PurgeDomain, Try, Goto, Moves, rows
  <2>2. /\ c.kind = "deletedomain" /\ d \in Domains
        /\ Placed(c, "ok") /\ IsMail(c) /\ Busy(o)
    BY <2>1, <1>2 DEF Placed, IsMail, IsBox, IsAlias, IsDomain, Busy
  <2>3. RowTypes' /\ DirEffect(o)
    BY <2>1, <2>2 DEF MailInv, RowTypes, DirEffect
  <2>4. pc'[o] \notin {"insertbox", "insertalias"}
    BY <2>1 DEF Moves, Over, MailInv, MailPcs
  <2>5. RowEffect(o) /\ FoundEffect(o)
    BY <2>1, <2>4, Untouched
  <2>6. /\ cmd'[o] = c /\ pc'[o] = "ok"
        /\ o \notin undone /\ (o \in raced' <=> o \in raced)
        /\ \A p \in Ops \ {o} : Same(p)
        => Done(o)'
    <3> SUFFICES ASSUME cmd'[o] = c, pc'[o] = "ok", o \notin undone,
                        o \in raced' <=> o \in raced, \A p \in Ops \ {o} : Same(p)
                 PROVE  DomainGone(o)'
      BY <2>2 DEF Done
    <3>1. DomainGone(o)
      BY <1>3, <2>2 DEF Done
    <3>2. UNCHANGED <<key, keytab, sigtab, skipped, kept>>
      BY DEF dkim, lines, tables
    <3>3. o \notin raced => Unlined(d)' /\ Closed(d)'
      BY <1>11, <2>2, <3>2
    <3>4. dirs' \cap ({d} \cup Locals \X {d}) = {}
      BY <1>2, <2>1
    <3> QED
      BY <2>1, <2>2, <3>1, <3>2, <3>3, <3>4 DEF DomainGone, KeyGone, SigGone
  <2> QED
    BY <1>1, <2>1, <2>2, <2>3, <2>5, <2>6
<1> QED
  BY <1>4, <1>5, <1>6, <1>7, <1>8, <1>9, <1>10, <1>12, <1>13 DEF MailStep

\* The steps of creating and of deleting a domain keep it.
LEMMA DomainInvStep ==
  ASSUME MailInv, NEW o \in Ops, DomainStep(o)
  PROVE  MailInv'
<1> DEFINE c == cmd[o]
           d == c.domain
           L == {"domaindir", "genkey", "addkey", "addsig", "readkey", "openkey",
                 "writekey", "readsig", "opensig", "writesig", "deletedomain"}
<1>1. pc[o] \in L \cup {"insertdomain", "rmkey"} =>
        /\ IsMail(c) /\ IsDomain(c) /\ Placed(c, pc[o]) /\ d \in Domains /\ Busy(o)
        /\ pc[o] \in MailLabels
        /\ Over(o) => cmd'[o] # c /\ pc'[o] = "over"
        /\ o \notin undone => Done(o)
  <2> SUFFICES ASSUME pc[o] \in L \cup {"insertdomain", "rmkey"}
               PROVE  /\ IsMail(c) /\ IsDomain(c) /\ Placed(c, pc[o])
                      /\ d \in Domains /\ Busy(o) /\ pc[o] \in MailLabels
                      /\ Over(o) => cmd'[o] # c /\ pc'[o] = "over"
                      /\ o \notin undone => Done(o)
    OBVIOUS
  <2>1. pc[o] \in MailLabels /\ Busy(o)
    BY DEF MailLabels, Busy
  <2>2. IsMail(c) /\ Placed(c, pc[o])
    BY <2>1 DEF MailInv, MailPcs
  <2>3. IsDomain(c) /\ d \in Domains
    BY <2>2 DEF Placed, IsMail, IsBox, IsAlias, IsDomain
  <2>4. Over(o) => cmd'[o] # c /\ pc'[o] = "over"
    BY <2>3 DEF MailInv, MailPcs, Over, Forget, Nothing, IsDomain
  <2> QED
    BY <2>1, <2>2, <2>3, <2>4 DEF MailInv, MailDone
<1>2. ASSUME pc[o] \in L \cup {"insertdomain", "rmkey"},
             NEW l \in L \cup {"ok"}, l # pc[o], Moves(o, l), Placed(c, l),
             RowTypes', DkimTypeOK', RowEffect(o), DirEffect(o), KeyEffect(o),
             UNCHANGED found \/ found' = [found EXCEPT ![o] = 0],
             /\ cmd'[o] = c /\ pc'[o] = l
             /\ o \notin undone /\ (o \in raced' <=> o \in raced)
             /\ \A p \in Ops \ {o} : Same(p)
             => Done(o)'
      PROVE  MailInv'
  <2>1. pc'[o] \notin {"insertbox", "insertalias"}
    BY <1>2 DEF Moves, Over, MailInv, MailPcs
  <2>2. FoundEffect(o)
    BY <1>2, <2>1, Untouched
  <2>3. l \in MailLabels \cup {"ok"}
    BY DEF MailLabels
  <2> HIDE DEF L
  <2> QED
    BY <1>1, <1>2, <2>2, <2>3, MailInvMoved DEF Effect
<1>3. UNCHANGED mail => RowTypes' /\ RowEffect(o) /\ DirEffect(o) /\ UNCHANGED found
  <2>1. UNCHANGED mail => UNCHANGED <<id, nextid, boxes, aliases, dirs, found>>
    BY DEF mail, rows
  <2> QED
    BY <2>1, Untouched
<1> USE DEF IsDomain, Holding
<1>4. CASE InsertDomain(o, "domaindir") /\ UNCHANGED dkim
  <2>1. /\ pc[o] = "insertdomain" /\ Moves(o, "domaindir")
        /\ UNCHANGED <<boxes, aliases, dirs>>
        /\ UNCHANGED found \/ found' = [found EXCEPT ![o] = 0]
        /\ \/ /\ id' = [id EXCEPT ![d] = IF @ = 0 THEN nextid ELSE @]
              /\ nextid' = nextid + 1
           \/ UNCHANGED <<id, nextid>> /\ Over(o)
    BY <1>4 DEF InsertDomain, Statement, Try, Goto, Fail, Moves, mail, rows
  <2>2. c.kind = "createdomain" /\ d \in Domains /\ Placed(c, "domaindir")
    BY <2>1, <1>1 DEF Placed, IsBox, IsAlias
  <2>3. ~Holding(pc'[o])
    BY <2>1 DEF Moves, Over, MailInv, MailPcs
  <2>4. DirEffect(o) /\ KeyEffect(o) /\ DkimTypeOK'
    BY <1>4, <2>1, <2>3, Untouched
  <2>5. CASE UNCHANGED <<id, nextid>> /\ Over(o)
    <3>1. RowTypes' /\ RowEffect(o) /\ cmd'[o] # c
      BY <1>1, <2>1, <2>5, Untouched
    <3> QED
      BY <1>2, <2>1, <2>2, <2>4, <3>1
  <2>6. CASE /\ id' = [id EXCEPT ![d] = IF @ = 0 THEN nextid ELSE @]
             /\ nextid' = nextid + 1
    <3>1. /\ nextid \in Nat \ {0} /\ nextid' \in Nat \ {0} /\ nextid' > nextid
          /\ id' \in [Domains -> Nat]
          /\ id'[d] = IF id[d] = 0 THEN nextid ELSE id[d]
          /\ \A e \in Domains \ {d} : id'[e] = id[e]
          /\ \A e \in Domains : id[e] < nextid /\ id[e] \in Nat
      BY <2>2, <2>6 DEF MailInv, RowTypes
    <3>2. RowTypes'
      <4>1. \A e \in Domains : id'[e] < nextid'
        BY <3>1
      <4>2. \A e, f \in Domains : id'[e] = id'[f] /\ id'[e] # 0 => e = f
        BY <3>1 DEF MailInv, RowTypes
      <4>3. \A b \in boxes : b.at \in Addresses /\ b.domain = id'[b.at[2]] /\ b.domain # 0
        BY <3>1 DEF MailInv, RowTypes, Addresses
      <4>4. \A a \in aliases :
              a.source \in Addresses /\ a.domain = id'[a.source[2]] /\ a.domain # 0
        BY <3>1 DEF MailInv, RowTypes, Addresses
      <4> QED
        BY <2>1, <3>1, <4>1, <4>2, <4>3, <4>4 DEF MailInv, RowTypes
    <3>3. RowEffect(o)
      BY <2>1, <2>2, <3>1 DEF RowEffect, RowsOf
    <3>4. cmd'[o] = c /\ pc'[o] = "domaindir" => Done(o)'
      BY <2>2, <3>1 DEF Done, DomainMade
    <3> QED
      BY <1>2, <2>1, <2>2, <2>4, <3>2, <3>3, <3>4
  <2> QED
    BY <2>1, <2>5, <2>6
<1>5. CASE MakeDomainDir(o, IF c.dkim THEN "genkey" ELSE "ok") /\ UNCHANGED dkim
  <2> DEFINE l == IF c.dkim THEN "genkey" ELSE "ok"
  <2>1. /\ pc[o] = "domaindir" /\ Moves(o, l)
        /\ UNCHANGED <<id, nextid, boxes, aliases, found>>
        /\ \/ dirs' = dirs \cup {d}
           \/ UNCHANGED dirs /\ Over(o)
    BY <1>5 DEF MakeDomainDir, Try, Goto, Moves, rows
  <2>2. /\ c.kind = "createdomain" /\ d \in Domains
        /\ Placed(c, l) /\ l \in {"genkey", "ok"}
    BY <2>1, <1>1 DEF Placed, IsBox, IsAlias
  <2>3. ~Holding(pc'[o])
    BY <2>1, <2>2 DEF Moves, Over, MailInv, MailPcs
  <2>4. RowEffect(o) /\ KeyEffect(o) /\ DkimTypeOK'
    BY <1>5, <2>1, <2>3, Untouched
  <2>5. RowTypes' /\ DirEffect(o)
    BY <2>1, <2>2 DEF MailInv, RowTypes, DirEffect
  <2>6. cmd'[o] = c /\ pc'[o] = l /\ o \notin undone => Done(o)'
    <3> SUFFICES ASSUME cmd'[o] = c, pc'[o] = l, o \notin undone
                 PROVE  DomainMade(o)'
      BY <2>2 DEF Done
    <3>1. DomainMade(o)
      BY <1>1, <2>1, <2>2 DEF Done
    <3> QED
      BY <1>1, <2>1, <2>2, <3>1 DEF DomainMade
  <2> HIDE DEF l
  <2> QED
    BY <1>2, <2>1, <2>2, <2>4, <2>5, <2>6
<1>6. CASE GenerateKey(o)
  <2>1. /\ pc[o] = "genkey" /\ Moves(o, "addkey")
        /\ UNCHANGED <<mail, keytab, sigtab, kept, torn, skipped, crossed>>
        /\ \/ key' = [key EXCEPT ![d] = o]
           \/ /\ \E k \in {key[d], None, o} : key' = [key EXCEPT ![d] = k]
              /\ Over(o)
    BY <1>6 DEF GenerateKey, Goto, Moves, tables
  <2>2. /\ c.kind = "createdomain" /\ c.dkim /\ d \in Domains
        /\ Placed(c, "addkey")
    BY <2>1, <1>1 DEF Placed, IsBox, IsAlias
  <2>3. DkimTypeOK' /\ \A e \in Domains \ {d} : key'[e] = key[e]
    BY <2>1, <2>2 DEF MailInv, DkimTypeOK
  <2>4. ~Holding(pc'[o])
    BY <2>1 DEF Moves, Over, MailInv, MailPcs
  <2>5. KeyEffect(o)
    BY <2>1, <2>2, <2>3, <2>4 DEF KeyEffect
  <2>6. cmd'[o] = c /\ pc'[o] = "addkey" /\ o \notin undone => Done(o)'
    <3> SUFFICES ASSUME cmd'[o] = c, pc'[o] = "addkey", o \notin undone
                 PROVE  DomainMade(o)'
      BY <2>2 DEF Done
    <3>1. DomainMade(o)
      BY <1>1, <2>1, <2>2 DEF Done
    <3>2. key'[d] # None /\ UNCHANGED <<id, dirs>>
      BY <1>1, <2>1, <2>2, ExtendsOK DEF MailInv, DkimTypeOK, mail, rows
    <3> QED
      BY <2>1, <3>1, <3>2 DEF DomainMade
  <2> QED
    BY <1>2, <1>3, <2>1, <2>2, <2>3, <2>5, <2>6
<1>7. CASE AddEntry(o)
  <2> DEFINE l == IF pc[o] = "addkey" THEN "addsig" ELSE "ok"
  <2>1. /\ pc[o] \in {"addkey", "addsig"} /\ Moves(o, l)
        /\ UNCHANGED <<mail, key, kept, torn, skipped, crossed>>
        /\ pc[o] = "addkey" => keytab' = keytab \cup {d} /\ UNCHANGED sigtab
        /\ pc[o] = "addsig" => sigtab' = sigtab \cup {d} /\ UNCHANGED keytab
    BY <1>7 DEF AddEntry, Appended, Goto, Moves
  <2>2. /\ c.kind = "createdomain" /\ c.dkim /\ d \in Domains
        /\ Placed(c, l) /\ l \in {"addsig", "ok"} /\ l # pc[o]
    BY <2>1, <1>1 DEF Placed, IsBox, IsAlias
  <2>3. DkimTypeOK'
    BY <2>1, <2>2 DEF MailInv, DkimTypeOK
  <2>4. ~Holding(pc'[o])
    BY <2>1, <2>2 DEF Moves, Over, MailInv, MailPcs
  <2>5. KeyEffect(o)
    BY <2>1, <2>2, <2>4 DEF KeyEffect
  <2>6. /\ cmd'[o] = c /\ pc'[o] = l
        /\ o \notin undone /\ (o \in raced' <=> o \in raced)
        /\ \A p \in Ops \ {o} : Same(p)
        => Done(o)'
    <3> SUFFICES ASSUME cmd'[o] = c, pc'[o] = l, o \notin undone,
                        o \in raced' <=> o \in raced, \A p \in Ops \ {o} : Same(p)
                 PROVE  DomainMade(o)'
      BY <2>2 DEF Done
    <3>1. DomainMade(o)
      BY <1>1, <2>1, <2>2 DEF Done
    <3>2. UNCHANGED <<id, dirs>>
      BY <2>1 DEF mail, rows
    <3>3. o \notin raced => \A q \in Ops \ {o} : ~Holding(pc[q])
      BY <1>1, <2>1, <2>2, Alone
    <3>4. o \notin raced => Lined(d)'
      BY <2>4, <3>3 DEF Lined, Same
    <3> HIDE DEF l
    <3>5. /\ id'[d] # 0 /\ d \in dirs'
          /\ Extends = {} /\ c.dkim /\ ~torn' /\ o \notin raced' \cup crossed' =>
               /\ key'[d] # None /\ d \in keytab'
               /\ pc'[o] = "ok" => d \in sigtab' /\ Lined(d)'
      <4>1. o \notin raced /\ InTable(d, keytab, "writekey") => d \in keytab
        BY <2>1, <3>3 DEF InTable
      <4> QED
        BY <2>1, <2>2, <3>1, <3>2, <3>4, <4>1 DEF DomainMade, l
    <3> QED
      BY <3>5 DEF DomainMade, InTable
  <2> HIDE DEF l
  <2> QED
    BY <1>2, <1>3, <2>1, <2>2, <2>3, <2>5, <2>6
<1>8. CASE AddEntryFails(o)
  <2>1. /\ pc[o] \in {"addkey", "addsig"} /\ Moves(o, "ok") /\ Over(o)
        /\ UNCHANGED <<mail, key, keytab, sigtab, kept, skipped, crossed>>
        /\ torn' \in {torn, TRUE}
    BY <1>8 DEF AddEntryFails, Moves, tables
  <2>2. cmd'[o] # c /\ pc'[o] = "over"
    BY <1>1, <2>1
  <2>3. DkimTypeOK' /\ Placed(c, "ok")
    BY <1>1, <2>1 DEF MailInv, DkimTypeOK, Placed
  <2>4. torn => torn'
    BY <2>1, Zenon
  <2>5. KeyEffect(o)
    BY <2>1, <2>2, <2>4 DEF KeyEffect
  <2> QED
    BY <1>2, <1>3, <2>1, <2>2, <2>3, <2>5
<1>9. CASE RemoveKey(o)
  <2>1. /\ pc[o] = "rmkey" /\ Moves(o, "readkey")
        /\ UNCHANGED <<mail, keytab, sigtab, kept, torn, skipped, crossed>>
        /\ key' = [key EXCEPT ![d] = None]
    BY <1>9 DEF RemoveKey, Goto, Moves, tables
  <2>2. c.kind = "deletedomain" /\ d \in Domains /\ Placed(c, "readkey")
    BY <2>1, <1>1 DEF Placed, IsBox, IsAlias
  <2>3. /\ DkimTypeOK' /\ key'[d] = None
        /\ \A e \in Domains \ {d} : key'[e] = key[e]
    BY <2>1, <2>2 DEF MailInv, DkimTypeOK
  <2>4. ~Holding(pc'[o])
    BY <2>1 DEF Moves, Over, MailInv, MailPcs
  <2>5. KeyEffect(o)
    BY <2>1, <2>2, <2>3, <2>4 DEF KeyEffect
  <2>6. cmd'[o] = c /\ pc'[o] = "readkey" => Done(o)'
    BY <2>2, <2>3 DEF Done, DomainGone, KeyGone, SigGone
  <2> QED
    BY <1>2, <1>3, <2>1, <2>2, <2>3, <2>5, <2>6
<1>10. ASSUME c.kind = "deletedomain", pc[o] # "rmkey", o \notin undone,
              o \notin raced, o \notin skipped, Done(o)
       PROVE  /\ key[d] = None
              /\ pc[o] \in KeyGone => d \notin keytab
              /\ pc[o] \in SigGone => d \notin sigtab
  BY <1>10 DEF Done, DomainGone
<1>11. CASE ReadTable(o)
  <2> DEFINE l == IF pc[o] = "readkey" THEN "openkey" ELSE "opensig"
             t == IF pc[o] = "readkey" THEN keytab ELSE sigtab
  <2>1. /\ pc[o] \in {"readkey", "readsig"} /\ Moves(o, l)
        /\ UNCHANGED <<mail, key, keytab, sigtab, torn, skipped, crossed>>
        /\ kept' = [kept EXCEPT ![o] = Kept(t, d)]
    BY <1>11 DEF ReadTable, Goto, Moves, tables
  <2>2. /\ c.kind = "deletedomain" /\ d \in Domains
        /\ Placed(c, l) /\ l \in {"openkey", "opensig"} /\ l # pc[o]
        /\ pc[o] = "readkey" => l = "openkey" /\ t = keytab
        /\ pc[o] = "readsig" => l = "opensig" /\ t = sigtab
    BY <2>1, <1>1 DEF Placed, IsBox, IsAlias
  <2> HIDE DEF l, t
  <2>3. /\ DkimTypeOK'
        /\ kept'[o] = Kept(t, d)
        /\ \A p \in Ops \ {o} : kept'[p] = kept[p]
    BY <2>1, <2>2 DEF MailInv, DkimTypeOK, Kept
  <2>4. KeyEffect(o)
    BY <2>1, <2>2, <2>3 DEF KeyEffect
  <2>5. /\ cmd'[o] = c /\ pc'[o] = l
        /\ o \notin undone /\ (o \in raced' <=> o \in raced)
        => Done(o)'
    BY <1>1, <1>10, <2>1, <2>2 DEF Done, DomainGone, KeyGone, SigGone
  <2> QED
    BY <1>2, <1>3, <2>1, <2>2, <2>3, <2>4, <2>5
<1>15. CASE OpenTable(o)
  <2> DEFINE l == IF pc[o] = "openkey" THEN "writekey" ELSE "writesig"
  <2>1. /\ pc[o] \in {"openkey", "opensig"} /\ Moves(o, l)
        /\ UNCHANGED <<mail, key, kept, torn, skipped, crossed>>
        /\ pc[o] = "openkey" => keytab' = {} /\ UNCHANGED sigtab
        /\ pc[o] = "opensig" => sigtab' = {} /\ UNCHANGED keytab
    BY <1>15 DEF OpenTable, Goto, Moves
  <2>2. /\ c.kind = "deletedomain" /\ d \in Domains
        /\ Placed(c, l) /\ l \in {"writekey", "writesig"} /\ l # pc[o]
        /\ pc[o] = "openkey" => l = "writekey"
        /\ pc[o] = "opensig" => l = "writesig"
    BY <2>1, <1>1 DEF Placed, IsBox, IsAlias
  <2> HIDE DEF l
  <2>3. DkimTypeOK'
    BY <2>1 DEF MailInv, DkimTypeOK
  <2>4. pc'[o] = l
    BY <1>15, <2>1, <2>2 DEF OpenTable, Goto, MailInv, MailPcs, l
  <2>5. KeyEffect(o)
    BY <2>1, <2>2, <2>4 DEF KeyEffect
  <2>6. /\ cmd'[o] = c /\ pc'[o] = l
        /\ o \notin undone /\ (o \in raced' <=> o \in raced)
        => Done(o)'
    BY <1>1, <1>10, <2>1, <2>2 DEF Done, DomainGone, KeyGone, SigGone
  <2> QED
    BY <1>2, <1>3, <2>1, <2>2, <2>3, <2>5, <2>6
<1>12. CASE WriteTable(o)
  <2> DEFINE l == IF pc[o] = "writekey" THEN "readsig" ELSE "deletedomain"
  <2>1. /\ pc[o] \in {"writekey", "writesig"} /\ Moves(o, l)
        /\ UNCHANGED <<mail, key, skipped, crossed>>
        /\ torn' \in {torn, torn \/ keytab # {}, torn \/ sigtab # {}}
        /\ kept' = [kept EXCEPT ![o] = {}]
        /\ pc[o] = "writekey" =>
             keytab' \in Overwritten(keytab, kept[o]) /\ UNCHANGED sigtab
        /\ pc[o] = "writesig" =>
             sigtab' \in Overwritten(sigtab, kept[o]) /\ UNCHANGED keytab
    BY <1>12 DEF WriteTable, Goto, Moves
  <2>2. /\ c.kind = "deletedomain" /\ d \in Domains
        /\ Placed(c, l) /\ l \in {"readsig", "deletedomain"} /\ l # pc[o]
        /\ pc[o] = "writekey" => l = "readsig"
        /\ pc[o] = "writesig" => l = "deletedomain"
    BY <2>1, <1>1 DEF Placed, IsBox, IsAlias
  <2> HIDE DEF l
  <2>3. torn' \in BOOLEAN /\ (torn => torn')
    <3>1. torn \in BOOLEAN
      BY DEF MailInv, DkimTypeOK
    <3> QED
      BY <2>1, <3>1, Zenon
  <2>4. \A table, written, t :
          t \in Overwritten(table, written) =>
            written \subseteq t /\ t \subseteq table \cup written
    BY DEF Overwritten
  <2>5. /\ pc[o] = "writekey" => /\ kept[o] \subseteq keytab'
                                /\ keytab' \subseteq keytab \cup kept[o]
                                /\ UNCHANGED sigtab
        /\ pc[o] = "writesig" => /\ kept[o] \subseteq sigtab'
                                /\ sigtab' \subseteq sigtab \cup kept[o]
                                /\ UNCHANGED keytab
    BY <2>1, <2>4
  <2>6. /\ DkimTypeOK' /\ d \notin kept[o]
        /\ \A p \in Ops \ {o} : kept'[p] = kept[p]
    BY <2>1, <2>3, <2>5 DEF MailInv, DkimTypeOK, KeptOwn
  <2>7. ~Holding(pc'[o])
    BY <2>1, <2>2 DEF Moves, Over, MailInv, MailPcs
  <2>8. KeyEffect(o)
    BY <2>1, <2>2, <2>3, <2>5, <2>6, <2>7 DEF KeyEffect
  <2>9. /\ cmd'[o] = c /\ pc'[o] = l
        /\ o \notin undone /\ (o \in raced' <=> o \in raced)
        => Done(o)'
    BY <1>1, <1>10, <2>1, <2>2, <2>5, <2>6 DEF Done, DomainGone, KeyGone, SigGone
  <2> QED
    BY <1>2, <1>3, <2>1, <2>2, <2>6, <2>8, <2>9
<1>13. CASE RemovalSkipped(o)
  <2>1. /\ pc[o] \in {"rmkey", "readkey", "openkey", "readsig", "opensig"}
        /\ Moves(o, "deletedomain")
        /\ UNCHANGED <<mail, keytab, sigtab, kept, torn, crossed>>
        /\ UNCHANGED key \/ key' = [key EXCEPT ![d] = None]
        /\ skipped' = skipped \cup {o}
    BY <1>13 DEF RemovalSkipped, Goto, Moves, tables
  <2>2. c.kind = "deletedomain" /\ d \in Domains /\ Placed(c, "deletedomain")
    BY <2>1, <1>1 DEF Placed, IsBox, IsAlias
  <2>3. DkimTypeOK' /\ \A e \in Domains : key'[e] = key[e] \/ (e = d /\ key'[e] = None)
    BY <2>1, <2>2 DEF MailInv, DkimTypeOK
  <2>4. ~Holding(pc'[o])
    BY <2>1 DEF Moves, Over, MailInv, MailPcs
  <2>5. KeyEffect(o)
    BY <2>1, <2>2, <2>3, <2>4 DEF KeyEffect
  <2>6. cmd'[o] = c /\ pc'[o] = "deletedomain" => Done(o)'
    BY <2>1, <2>2 DEF Done, DomainGone
  <2> QED
    BY <1>2, <1>3, <2>1, <2>2, <2>3, <2>5, <2>6
<1>14. CASE RemovalTorn(o)
  <2>1. /\ pc[o] \in {"writekey", "writesig"} /\ Moves(o, "deletedomain")
        /\ UNCHANGED <<mail, key, kept, crossed>> /\ torn' = TRUE
        /\ skipped' = skipped \cup {o}
        /\ pc[o] = "writekey" =>
             keytab' \subseteq keytab \cup kept[o] /\ UNCHANGED sigtab
        /\ pc[o] = "writesig" =>
             sigtab' \subseteq sigtab \cup kept[o] /\ UNCHANGED keytab
    BY <1>14 DEF RemovalTorn, Goto, Moves
  <2>2. c.kind = "deletedomain" /\ d \in Domains /\ Placed(c, "deletedomain")
    BY <2>1, <1>1 DEF Placed, IsBox, IsAlias
  <2>3. DkimTypeOK'
    BY <2>1 DEF MailInv, DkimTypeOK
  <2>4. ~Holding(pc'[o])
    BY <2>1 DEF Moves, Over, MailInv, MailPcs
  <2>5. KeyEffect(o)
    BY <2>1, <2>2, <2>4 DEF KeyEffect
  <2>6. cmd'[o] = c /\ pc'[o] = "deletedomain" => Done(o)'
    BY <2>1, <2>2 DEF Done, DomainGone
  <2> QED
    BY <1>2, <1>3, <2>1, <2>2, <2>3, <2>5, <2>6
<1> QED
  BY <1>4, <1>5, <1>6, <1>7, <1>8, <1>9, <1>11, <1>12, <1>13, <1>14, <1>15
  DEF DomainStep, AddDomain

-----------------------------------------------------------------------------
\* The invariant is what the runs check: the outcomes of mail, ...
LEMMA MailInvHolds == MailInv => OutcomeMailbox /\ OutcomeForwarded /\ OutcomeRemoved
<1> SUFFICES ASSUME MailInv, NEW o \in Ops, Stands(o)
             PROVE  /\ cmd[o].kind = "createbox" =>
                         LET a == cmd[o].at IN
                         /\ a \in dirs /\ id[a[2]] # 0
                         /\ {b \in boxes : b.at = a} = {Row(cmd[o])}
                    /\ cmd[o].kind = "createalias" =>
                         /\ id[cmd[o].at[2]] # 0
                         /\ [source |-> cmd[o].at, dest |-> cmd[o].dest,
                             domain |-> id[cmd[o].at[2]]] \in aliases
                    /\ cmd[o].kind = "deletealias" =>
                         \A a \in aliases : a.source # cmd[o].at
                    /\ cmd[o].kind = "deletebox" =>
                         /\ \A b \in boxes : b.at # cmd[o].at
                         /\ cmd[o].purge => cmd[o].at \notin dirs
                    /\ cmd[o].kind = "deletedomain" =>
                         LET d == cmd[o].domain IN
                         /\ id[d] = 0
                         /\ \A b \in boxes : b.at[2] # d
                         /\ \A a \in aliases : a.source[2] # d
                         /\ o \notin raced =>
                              /\ o \notin skipped =>
                                   d \notin keytab \cup sigtab /\ key[d] = None
                              /\ cmd[o].purge =>
                                   dirs \cap ({d} \cup Locals \X {d}) = {}
  BY DEF OutcomeMailbox, OutcomeForwarded, OutcomeRemoved, Row
<1>1. pc[o] = "ok" /\ o \notin undone
  BY DEF Stands, MailInv, MailPcs, Busy
<1>2. IsMail(cmd[o]) => Done(o)
  BY <1>1 DEF MailInv, MailDone
<1>3. CASE cmd[o].kind = "createbox"
  BY <1>1, <1>2, <1>3 DEF IsMail, IsBox, Done, BoxMade, RowsOf
<1>4. CASE cmd[o].kind = "createalias"
  BY <1>1, <1>2, <1>4 DEF IsMail, IsAlias, Done, AliasMade
<1>5. CASE cmd[o].kind = "deletealias"
  BY <1>1, <1>2, <1>5 DEF IsMail, IsAlias, Done, AliasGone
<1>6. CASE cmd[o].kind = "deletebox"
  BY <1>1, <1>2, <1>6 DEF IsMail, IsBox, Done, BoxGone, RowsOf
<1>7. CASE cmd[o].kind = "deletedomain"
  <2>1. DomainGone(o)
    BY <1>2, <1>7 DEF IsMail, IsDomain, Done
  <2>2. /\ \A b \in boxes : b.at[2] # cmd[o].domain
        /\ \A a \in aliases : a.source[2] # cmd[o].domain
    BY <1>1, <2>1 DEF DomainGone, MailInv, RowTypes
  <2> QED
    BY <1>1, <1>7, <2>1, <2>2 DEF DomainGone, KeyGone, SigGone
<1> QED
  BY <1>3, <1>4, <1>5, <1>6, <1>7

\* ... and, when no domain's name begins another's, that of DKIM.
LEMMA SignedHolds == MailInv /\ Extends = {} => OutcomeSigned
<1> SUFFICES ASSUME MailInv, Extends = {}, NEW o \in Ops \ raced, Stands(o),
                    cmd[o].kind = "createdomain"
             PROVE  /\ Signed(o) /\ o \notin crossed => Signs(cmd[o].domain)
                    /\ id[cmd[o].domain] # 0 /\ cmd[o].domain \in dirs
  BY DEF OutcomeSigned, Signed
<1>1. pc[o] = "ok" /\ o \notin undone
  BY DEF Stands, MailInv, MailPcs, Busy
<1>2. DomainMade(o)
  BY <1>1 DEF MailInv, MailDone, IsMail, IsDomain, Done
<1> QED
  BY <1>1, <1>2 DEF DomainMade, InTable, Signed, Signs, Writing
=============================================================================
