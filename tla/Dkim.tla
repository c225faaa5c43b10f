-------------------------------- MODULE Dkim --------------------------------
(***************************************************************************)
(* The commands that create and delete a mail domain                       *)
(* (agent/internal/rpc/dispatch.go): the row and the directory, as in      *)
(* Mail, with SetupDKIM and RemoveDKIM (agent/internal/email/dkim.go) over *)
(* the key directories and the two OpenDKIM files that all domains share.  *)
(*                                                                         *)
(* A table is the set of domains it has a line for.  Adding a line is one  *)
(* append to the file, and one step: between the check for the line and    *)
(* the append another command can only add the same line or remove it.     *)
(* Removing lines reads the whole file; os.WriteFile opens it, which       *)
(* empties it, and writes back what is kept: three steps.                  *)
(***************************************************************************)
EXTENDS Mail

CONSTANTS
  Extends       \* <<d, e>>: the name of e is that of d with more after it, as
                \* a.com and a.com.br

ASSUME ExtendsOK == Extends \subseteq Domains \X Domains /\ None \notin Ops

VARIABLES
  key,          \* the command that generated the private key of each domain
  keytab,       \* /etc/opendkim/KeyTable
  sigtab,       \* /etc/opendkim/SigningTable
  kept,         \* the lines that a deletion has read and will write back
  torn,         \* a table has been cut short
  skipped,      \* deletions that logged an error of RemoveDKIM and went on
  crossed       \* creations that were there when two deletions overlapped

tables == <<keytab, sigtab>>
lines  == <<key, tables, kept, torn, skipped>>
dkim   == <<lines, crossed>>

DkimTypeOK ==
  /\ key \in [Domains -> Ops \cup {None}]
  /\ keytab \subseteq Domains
  /\ sigtab \subseteq Domains
  /\ kept \in [Ops -> SUBSET Domains]
  /\ torn \in BOOLEAN
  /\ skipped \subseteq Ops
  /\ crossed \subseteq Ops

DkimInit ==
  /\ key = [d \in Domains |-> None]
  /\ keytab = {}
  /\ sigtab = {}
  /\ kept = [o \in Ops |-> {}]
  /\ torn = FALSE
  /\ skipped = {}
  /\ crossed = {}

\* A creation with DKIM replaces the key, and may fail to.
DomainUndoes(c, e) ==
  /\ IsDomain(c) /\ IsDomain(e)
  /\ c.domain = e.domain
  /\ c.kind # e.kind \/ (c.kind = "createdomain" /\ c.dkim)

\* A deletion writes back tables it read before, and purges once.
DomainDisturbs(c, e) ==
  \/ c.kind = "deletedomain" /\ IsDomain(e) /\ c.domain # e.domain
  \/ c.kind = "createbox" /\ e.kind = "deletedomain" /\ c.at[2] = e.domain

Deleting(o) == Busy(o) /\ cmd[o].kind = "deletedomain"

\* Of two deletions, one may read a table that the other has emptied.
BeginDomain(o, c) ==
  /\ Arrive(o, c, IF c.kind = "createdomain" THEN "insertdomain" ELSE "rmkey",
            LAMBDA d, e : MailUndoes(d, e) \/ DomainUndoes(d, e),
            DomainDisturbs)
  /\ crossed' = IF c.kind = "deletedomain" /\ \E q \in Ops : Deleting(q)
                  THEN crossed \cup {p \in Ops : cmd[p].kind = "createdomain"}
                  ELSE crossed
  /\ UNCHANGED <<mail, lines>>

BeginMail(o, c) ==
  /\ Arrive(o, c, MailEntry(c), MailUndoes, DomainDisturbs)
  /\ UNCHANGED <<mail, dkim>>

-----------------------------------------------------------------------------
(* handleCreateEmailDomain.                                                *)

\* AddDomain; then DKIM when the command asks for it.
AddDomain(o) ==
  /\ \/ InsertDomain(o, "domaindir")
     \/ MakeDomainDir(o, IF cmd[o].dkim THEN "genkey" ELSE "ok")
  /\ UNCHANGED dkim

\* openssl writes a new private key over an old one.  When it fails, or the
\* extraction of the public key does, the old key, no usable one or the new one
\* is left.
GenerateKey(o) ==
  LET d == cmd[o].domain IN
  /\ pc[o] = "genkey"
  /\ \/ key' = [key EXCEPT ![d] = o] /\ Goto(o, "addkey")
     \/ /\ \E k \in {key[d], None, o} : key' = [key EXCEPT ![d] = k]
        /\ Over(o)
  /\ UNCHANGED <<mail, tables, kept, torn, skipped, crossed>>

\* Variant of Appended: the file is opened without O_APPEND and truncated.
AppendedAlone(table, d) == {d}

\* appendUnique: the lines of a table after the entry of d was appended.
Appended(table, d) == table \cup {d}

AddEntry(o) ==
  LET d == cmd[o].domain IN
  /\ \/ /\ pc[o] = "addkey"
        /\ keytab' = Appended(keytab, d)
        /\ Goto(o, "addsig") /\ UNCHANGED sigtab
     \/ /\ pc[o] = "addsig"
        /\ sigtab' = Appended(sigtab, d)
        /\ Goto(o, "ok") /\ UNCHANGED keytab
  /\ UNCHANGED <<mail, key, kept, torn, skipped, crossed>>

\* A table cannot be opened, or not all of the line is written.  What is done
\* so far stays.
AddEntryFails(o) ==
  /\ pc[o] \in {"addkey", "addsig"}
  /\ torn' \in {torn, TRUE}
  /\ Over(o)
  /\ UNCHANGED <<mail, key, tables, kept, skipped, crossed>>

-----------------------------------------------------------------------------
(* handleDeleteEmailDomain.                                                *)

RemoveKey(o) ==
  /\ pc[o] = "rmkey"
  /\ key' = [key EXCEPT ![cmd[o].domain] = None]
  /\ Goto(o, "readkey")
  /\ UNCHANGED <<mail, tables, kept, torn, skipped, crossed>>

\* removeLines keeps the lines that do not contain "._domainkey.<domain>": the
\* lines of d and those of every domain whose name extends d.
Kept(table, d) == {e \in table : e # d /\ <<d, e>> \notin Extends}

ReadTable(o) ==
  LET d == cmd[o].domain IN
  /\ \/ /\ pc[o] = "readkey"
        /\ kept' = [kept EXCEPT ![o] = Kept(keytab, d)]
        /\ Goto(o, "openkey")
     \/ /\ pc[o] = "readsig"
        /\ kept' = [kept EXCEPT ![o] = Kept(sigtab, d)]
        /\ Goto(o, "opensig")
  /\ UNCHANGED <<mail, key, tables, torn, skipped, crossed>>

\* os.WriteFile opens the file, which truncates it, ...
OpenTable(o) ==
  /\ \/ /\ pc[o] = "openkey"
        /\ keytab' = {}
        /\ Goto(o, "writekey") /\ UNCHANGED sigtab
     \/ /\ pc[o] = "opensig"
        /\ sigtab' = {}
        /\ Goto(o, "writesig") /\ UNCHANGED keytab
  /\ UNCHANGED <<mail, key, kept, torn, skipped, crossed>>

\* What the file may be after kept was written from its start: of lines that
\* others wrote meanwhile some are left behind it, and one may be left in part.
Overwritten(table, written) == {written \cup S : S \in SUBSET table}

\* ... and writes what was kept when the file was read.
WriteTable(o) ==
  /\ \/ /\ pc[o] = "writekey"
        /\ keytab' \in Overwritten(keytab, kept[o])
        /\ torn' \in {torn, torn \/ keytab # {}}
        /\ Goto(o, "readsig") /\ UNCHANGED sigtab
     \/ /\ pc[o] = "writesig"
        /\ sigtab' \in Overwritten(sigtab, kept[o])
        /\ torn' \in {torn, torn \/ sigtab # {}}
        /\ Goto(o, "deletedomain") /\ UNCHANGED keytab
  /\ kept' = [kept EXCEPT ![o] = {}]
  /\ UNCHANGED <<mail, key, skipped, crossed>>

\* RemoveDKIM fails where it stands: the keys, or the table, may be untouched.
\* The rest of it is skipped, the error is logged and the deletion goes on.
RemovalSkipped(o) ==
  /\ pc[o] \in {"rmkey", "readkey", "openkey", "readsig", "opensig"}
  /\ \/ UNCHANGED key
     \/ pc[o] = "rmkey" /\ key' = [key EXCEPT ![cmd[o].domain] = None]
  /\ skipped' = skipped \cup {o}
  /\ Goto(o, "deletedomain")
  /\ UNCHANGED <<mail, tables, kept, torn, crossed>>

\* Writing a table back fails after the file was truncated.
RemovalTorn(o) ==
  /\ \/ /\ pc[o] = "writekey"
        /\ keytab' \in SUBSET (keytab \cup kept[o])
        /\ UNCHANGED sigtab
     \/ /\ pc[o] = "writesig"
        /\ sigtab' \in SUBSET (sigtab \cup kept[o])
        /\ UNCHANGED keytab
  /\ torn' = TRUE
  /\ skipped' = skipped \cup {o}
  /\ Goto(o, "deletedomain")
  /\ UNCHANGED <<mail, key, kept, crossed>>

\* A deletion has emptied a table and not written it back.
Writing(o) == pc[o] \in {"writekey", "writesig"}

\* The agent dies: a table that is being written back stays cut short.
WritesLost ==
  /\ torn' = (torn \/ \E o \in Ops : Writing(o))
  /\ UNCHANGED <<key, tables, kept, skipped, crossed>>

DomainStep(o) ==
  \/ AddDomain(o)
  \/ GenerateKey(o)
  \/ AddEntry(o)
  \/ AddEntryFails(o)
  \/ RemoveKey(o)
  \/ ReadTable(o)
  \/ OpenTable(o)
  \/ WriteTable(o)
  \/ RemovalSkipped(o)
  \/ RemovalTorn(o)

-----------------------------------------------------------------------------
Signs(d) == key[d] # None /\ d \in keytab /\ d \in sigtab

\* A creation with DKIM that reported success and that no later command for
\* the same domain may have undone; no table is cut short, or about to be
\* written back.
Signed(o) ==
  /\ Stands(o) /\ ~torn /\ \A q \in Ops : ~Writing(q)
  /\ cmd[o].kind = "createdomain" /\ cmd[o].dkim

\* dkim.go: SetupDKIM "writes the OpenDKIM key table / signing table entries".
\* The mail of a domain whose creation with DKIM succeeded is signed until the
\* next command for that domain, whatever is done to other domains, as long as
\* no table has been cut short.
SignedUnlessDeleted == \A o \in Ops : Signed(o) => Signs(cmd[o].domain)

\* The same, unless a deletion of another domain overlapped the creation or two
\* deletions have overlapped since: one deletion at a time never loses the line
\* of another domain, whatever is created, fails and restarts meanwhile.  And
\* the domain of any creation that no deletion overlapped has its row and its
\* directory.
OutcomeSigned ==
  \A o \in Ops \ raced :
    /\ Signed(o) /\ o \notin crossed => Signs(cmd[o].domain)
    /\ Stands(o) /\ cmd[o].kind = "createdomain" =>
         id[cmd[o].domain] # 0 /\ cmd[o].domain \in dirs

\* dkim.go: "removes DKIM config for a domain"; manager.go: "deletes a virtual
\* domain and cascades to users and aliases".  After a deletion that succeeded
\* nothing that belonged to the domain is left: no row, not of a command that
\* looked the domain up before; and, unless an error was logged or another
\* command interfered, no key, no line and no mail that was to be purged.
OutcomeRemoved ==
  \A o \in Ops :
    Stands(o) /\ cmd[o].kind = "deletedomain" =>
      LET d == cmd[o].domain IN
      /\ id[d] = 0
      /\ \A b \in boxes : b.at[2] # d
      /\ \A a \in aliases : a.source[2] # d
      /\ o \notin raced =>
           /\ o \notin skipped => d \notin keytab \cup sigtab /\ key[d] = None
           /\ cmd[o].purge => dirs \cap ({d} \cup Locals \X {d}) = {}
=============================================================================
