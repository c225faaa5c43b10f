------------------------------- MODULE MCHost -------------------------------
(***************************************************************************)
(* Instances of Host for TLC.                                              *)
(***************************************************************************)
EXTENDS Host, TLC

CONSTANTS d1, d2, n1, n2, h1, h2, inner

\* The homes of two users, and a directory in that of the first.
Homes    == (n1 :> h1) @@ (n2 :> h2)
OneInner == {<<inner, h1>>}

\* The second user may be given the home of the first, or the directory in it.
AccountMix ==
  {c \in AccountCommand :
     c.kind = "useradd" => c.uid < 1002 /\ (c.dir = "" \/ c.name = n2)}

\* A mix of DNS commands: two records of one zone, one of them with two
\* contents and one with a priority, spelled in every way.
Zone == <<"example", "com">>
Www  == <<"www">> \o Zone

Record(at, type, prio, content) ==
  [at |-> at, type |-> type, ttl |-> 0, prio |-> prio, content |-> content]

Spelled(m) == {[meant |-> m, name |-> n] : n \in Spellings(m.at, Zone)}

Mx    == Spelled(Record(Zone, "MX", 10, "mail"))
NoMx  == Spelled(Record(Zone, "MX", 0, "mail"))
Site1 == Spelled(Record(Www, "A", 0, "1.1.1.1"))
Site2 == Spelled([Record(Www, "A", 0, "2.2.2.2") EXCEPT !.ttl = 60])

DnsCommand(k, recs) ==
  {[kind |-> k, zone |-> Written(Zone, FALSE), recs |-> r] : r \in recs}

DnsMix ==
  DnsCommand("createzone", {{}} \cup {{CHOOSE r \in Mx : TRUE, s} : s \in Site1})
    \cup DnsCommand("upsert", {{r} : r \in Mx \cup NoMx \cup Site2})
    \cup DnsCommand("delrecord", {{r} : r \in Mx \cup Site1})
    \cup {[kind |-> "deletezone", zone |-> Written(Zone, b), recs |-> {}] :
            b \in BOOLEAN}

\* One user of a database is created with any password, the others with one.
DbMix ==
  LET u == CHOOSE x \in DbUsers : TRUE
      w == CHOOSE x \in Passwords : TRUE
  IN {c \in DbCommand : c.kind = "dropdb" \/ c.user = u \/ c.pw = w}

MailMix ==
  [kind : {"createbox"}, at : Addresses, pw : Secrets, quota : MailQuotas]
    \cup [kind : {"deletebox"}, at : Addresses, purge : {TRUE}]
    \cup [kind : {"createalias"}, at : Addresses, dest : {"you"}]
    \cup [kind : {"deletealias"}, at : Addresses]
    \cup [kind : {"createdomain"}, domain : {d1}, dkim : {FALSE}]
    \cup [kind : {"deletedomain"}, domain : {d1}, purge : {TRUE}]

DomainMix ==
  [kind : {"createdomain"}, domain : Domains, dkim : BOOLEAN]
    \cup [kind : {"deletedomain"}, domain : Domains, purge : {FALSE}]

AllMixes ==
  {[commands |-> DbMix, most |-> 3],
   [commands |-> DnsMix, most |-> 3],
   [commands |-> AccountMix, most |-> 3],
   [commands |-> MailMix, most |-> 4],
   [commands |-> DomainMix, most |-> 3]}

DomainsOnly == {[commands |-> DomainMix, most |-> 3]}

NoneExtends == {}

\* d2 is d1 with another label: a.com and a.com.br.
OneExtends == {<<d1, d2>>}

Symmetry == Permutations(Ops)
=============================================================================
