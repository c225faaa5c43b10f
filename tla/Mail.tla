-------------------------------- MODULE Mail --------------------------------
(***************************************************************************)
(* agent/internal/email/manager.go: mail domains, mailboxes and aliases as *)
(* rows of the tables that Postfix and Dovecot read, and the directories   *)
(* of the mail.  MariaDB is external, with its AUTO_INCREMENT, foreign     *)
(* keys and cascades; a statement runs or fails.  The commands that create *)
(* and delete a domain go on with its DKIM keys: module Dkim.              *)
(***************************************************************************)
EXTENDS Commands, Naturals

CONSTANTS
  Domains,
  Locals,       \* an address is <<local part, domain>>
  Secrets, MailQuotas,
  MaxQuota      \* the largest BIGINT; a quota is a uint64

\* A directory of a domain is not one of a mailbox.
ASSUME DirsOK == Domains \cap (Locals \X Domains) = {}

VARIABLES
  schema,       \* how many of SetupSchema's statements have succeeded
  id,           \* the row of each domain in virtual_domains, 0 for none
  nextid,       \* AUTO_INCREMENT
  boxes,        \* virtual_users: address, domain_id, password, quota
  aliases,      \* virtual_aliases: source, destination, domain_id
  dirs,         \* directories under mailRoot: domains and addresses
  found         \* the domain ID that a command has looked up

rows == <<schema, id, nextid, boxes, aliases>>
mail == <<rows, dirs, found>>

Addresses == Locals \X Domains

\* SetupSchema creates the database and then the tables, in this order.
DomainsTable == 2
UsersTable   == 3
AliasesTable == 4
Complete     == 4

MailTypeOK ==
  /\ schema \in 0..Complete
  /\ id \in [Domains -> Nat]
  /\ nextid \in Nat
  /\ \A b \in boxes : b.at \in Addresses /\ b.domain < nextid
  /\ \A a \in aliases : a.source \in Addresses /\ a.domain < nextid
  /\ dirs \subseteq Domains \cup Addresses
  /\ found \in [Ops -> Nat]

MailInit ==
  /\ schema \in 0..Complete
  /\ id = [d \in Domains |-> 0]
  /\ nextid = 1
  /\ boxes = {}
  /\ aliases = {}
  /\ dirs = {}
  /\ found = [o \in Ops |-> 0]

IsBox(c)    == c.kind \in {"createbox", "deletebox"}
IsAlias(c)  == c.kind \in {"createalias", "deletealias"}
IsDomain(c) == c.kind \in {"createdomain", "deletedomain"}

\* Commands on one mailbox or one alias, and the deletion of their domain.
MailUndoes(c, e) ==
  \/ IsBox(c) /\ IsBox(e) /\ c.at = e.at /\ c # e
  \/ IsAlias(c) /\ IsAlias(e) /\ c.at = e.at /\ c.kind # e.kind
  \/ /\ c.kind = "deletedomain" /\ e.kind \in {"createbox", "createalias"}
     /\ c.domain = e.at[2]

MailEntry(c) ==
  CASE c.kind = "createbox"   -> "findbox"
    [] c.kind = "deletebox"   -> "dropbox"
    [] c.kind = "createalias" -> "findalias"
    [] c.kind = "deletealias" -> "dropalias"

-----------------------------------------------------------------------------
\* A statement on a table: it fails while the table is missing.  An ID that was
\* looked up is used once.
Statement(o, table, Effect, l) ==
  /\ found' = [found EXCEPT ![o] = 0]
  /\ UNCHANGED dirs
  /\ \/ schema >= table /\ Try(o, Effect, l, rows)
     \/ schema < table /\ Fail(o, rows)

\* Variant of FindDomain: that there is no row is not an error.
FindDomainAny(o) ==
  /\ pc[o] \in {"findbox", "findalias"}
  /\ found' = [found EXCEPT ![o] = id[cmd[o].at[2]]]
  /\ Goto(o, IF pc[o] = "findbox" THEN "insertbox" ELSE "insertalias")
  /\ UNCHANGED <<rows, dirs>>

\* domainID: the row of the domain, whose ID the command keeps.
FindDomain(o) ==
  LET d == cmd[o].at[2] IN
  /\ pc[o] \in {"findbox", "findalias"}
  /\ \/ /\ schema >= DomainsTable /\ id[d] # 0
        /\ found' = [found EXCEPT ![o] = id[d]]
        /\ Goto(o, IF pc[o] = "findbox" THEN "insertbox" ELSE "insertalias")
     \/ UNCHANGED found /\ Over(o)
  /\ UNCHANGED <<rows, dirs>>

\* REFERENCES mail.virtual_domains(id)
References(i) == \E d \in Domains : id[d] = i

\* Variant of BoxRow: a row that is there stays as it is.
BoxRowKept(o, i, old) ==
  IF old # {} THEN old
  ELSE {[at |-> cmd[o].at, domain |-> i, pw |-> cmd[o].pw,
         quota |-> cmd[o].quota]}

\* ON DUPLICATE KEY UPDATE: the new row of the address, or an old one with the
\* password and the quota of the command.  The domain of an old row stays.
BoxRow(o, i, old) ==
  {[at |-> cmd[o].at, domain |-> j, pw |-> cmd[o].pw,
    quota |-> cmd[o].quota] :
     j \in IF old = {} THEN {i} ELSE {b.domain : b \in old}}

\* CreateAccount: the password is hashed, and the row inserted.
InsertBox(o) ==
  LET c   == cmd[o]
      old == {b \in boxes : b.at = c.at}
  IN
  /\ pc[o] = "insertbox"
  /\ \/ /\ c.quota <= MaxQuota /\ (old # {} \/ References(found[o]))
        /\ Statement(o, UsersTable,
                     /\ boxes' = (boxes \ old) \cup BoxRow(o, found[o], old)
                     /\ UNCHANGED <<schema, id, nextid, aliases>>, "maildir")
     \/ Fail(o, mail)

\* MkdirAll makes the directory of the domain too.
MakeMaildir(o) ==
  LET a == cmd[o].at IN
  /\ pc[o] = "maildir"
  /\ Try(o, dirs' = dirs \cup {a, a[2]}, "ok", dirs)
  /\ UNCHANGED <<rows, found>>

DropBox(o) ==
  /\ pc[o] = "dropbox"
  /\ Statement(o, UsersTable,
               /\ boxes' = {b \in boxes : b.at # cmd[o].at}
               /\ UNCHANGED <<schema, id, nextid, aliases>>,
               IF cmd[o].purge THEN "purgebox" ELSE "ok")

PurgeBox(o) ==
  /\ pc[o] = "purgebox"
  /\ Try(o, dirs' = dirs \ {cmd[o].at}, "ok", dirs)
  /\ UNCHANGED <<rows, found>>

\* INSERT IGNORE: a domain ID that is gone is no error, and no row.
InsertAlias(o) ==
  LET new == [source |-> cmd[o].at, dest |-> cmd[o].dest, domain |-> found[o]]
  IN
  /\ pc[o] = "insertalias"
  /\ Statement(o, AliasesTable,
               /\ aliases' = IF References(found[o])
                               THEN aliases \cup {new} ELSE aliases
               /\ UNCHANGED <<schema, id, nextid, boxes>>, "ok")

DropAlias(o) ==
  /\ pc[o] = "dropalias"
  /\ Statement(o, AliasesTable,
               /\ aliases' = {a \in aliases : a.source # cmd[o].at}
               /\ UNCHANGED <<schema, id, nextid, boxes>>, "ok")

\* AddDomain: INSERT IGNORE, which uses up an ID even when the row exists.
InsertDomain(o, l) ==
  LET d == cmd[o].domain IN
  /\ pc[o] = "insertdomain"
  /\ Statement(o, DomainsTable,
               /\ id' = [id EXCEPT ![d] = IF @ = 0 THEN nextid ELSE @]
               /\ nextid' = nextid + 1
               /\ UNCHANGED <<schema, boxes, aliases>>, l)

\* ... and the directory of the domain.
MakeDomainDir(o, l) ==
  /\ pc[o] = "domaindir"
  /\ Try(o, dirs' = dirs \cup {cmd[o].domain}, l, dirs)
  /\ UNCHANGED <<rows, found>>

\* Variant of Cascade: there is no ON DELETE CASCADE for the aliases.
CascadeBoxes(i) ==
  /\ boxes' = {b \in boxes : b.domain # i}
  /\ UNCHANGED aliases

\* ON DELETE CASCADE
Cascade(i) ==
  /\ boxes' = {b \in boxes : b.domain # i}
  /\ aliases' = {a \in aliases : a.domain # i}

\* RemoveDomain: the row, and the rows that refer to it.
DeleteDomain(o) ==
  LET d == cmd[o].domain IN
  /\ pc[o] = "deletedomain"
  /\ Statement(o, DomainsTable,
               /\ id' = [id EXCEPT ![d] = 0]
               /\ Cascade(id[d])
               /\ UNCHANGED <<schema, nextid>>,
               IF cmd[o].purge THEN "purgedomain" ELSE "ok")

PurgeDomain(o) ==
  LET d == cmd[o].domain IN
  /\ pc[o] = "purgedomain"
  /\ Try(o, dirs' = dirs \ ({d} \cup Locals \X {d}), "ok", dirs)
  /\ UNCHANGED <<rows, found>>

MailStep(o) ==
  \/ FindDomain(o)
  \/ InsertBox(o)
  \/ MakeMaildir(o)
  \/ DropBox(o)
  \/ PurgeBox(o)
  \/ InsertAlias(o)
  \/ DropAlias(o)
  \/ DeleteDomain(o)
  \/ PurgeDomain(o)

-----------------------------------------------------------------------------
\* manager.go: "creates a virtual mailbox".  After success there is one row of
\* the address, with the password and quota of the command, under the row of
\* its domain as it is now, although the ID was looked up before; and the
\* mailbox has its directory.
OutcomeMailbox ==
  \A o \in Ops :
    Stands(o) /\ cmd[o].kind = "createbox" =>
      LET a == cmd[o].at IN
      /\ a \in dirs /\ id[a[2]] # 0
      /\ {b \in boxes : b.at = a} =
           {[at |-> a, domain |-> id[a[2]], pw |-> cmd[o].pw,
             quota |-> cmd[o].quota]}

\* manager.go: "adds a virtual alias", "removes a virtual alias", "removes a
\* virtual mailbox".  An alias that was reported created forwards, under the
\* row of its domain as it is now, although INSERT IGNORE reports no foreign
\* key that fails; one that was deleted does not, and a deleted mailbox has
\* no row and, with purge, no mail.
OutcomeForwarded ==
  \A o \in Ops :
    Stands(o) =>
      LET c == cmd[o] IN
      /\ c.kind = "createalias" =>
           /\ id[c.at[2]] # 0
           /\ [source |-> c.at, dest |-> c.dest, domain |-> id[c.at[2]]]
                \in aliases
      /\ c.kind = "deletealias" => \A a \in aliases : a.source # c.at
      /\ c.kind = "deletebox" =>
           /\ \A b \in boxes : b.at # c.at
           /\ c.purge => c.at \notin dirs
=============================================================================
