-------------------------------- MODULE Dns --------------------------------
(***************************************************************************)
(* agent/internal/dns/powerdns.go: zones and records, through the HTTP     *)
(* API of PowerDNS.  PowerDNS is external: a request takes effect as a     *)
(* whole or is refused; its answer may be lost, which is an error too.     *)
(*                                                                         *)
(* A name is its labels and whether it is written with a dot at the end.   *)
(* A record of a command is what is meant (the full name included) and the *)
(* spelling of its name that was sent.  Upper and lower case are the same. *)
(***************************************************************************)
EXTENDS Commands, Naturals, SequencesExt

VARIABLES
  zones,        \* the zones that exist, by their labels
  rrsets        \* the records served

dns == <<zones, rrsets>>

Written(labels, dot) == [labels |-> labels, dot |-> dot]

\* The ways to write the name at in a record of zone z: in full with the dot,
\* relative to the zone, "@" or nothing for the zone itself.
Spellings(at, z) ==
  {Written(at, TRUE)}
    \cup {Written(r, FALSE) : r \in {p \in Prefixes(at) \ {<<>>} : p \o z = at}}
    \cup IF at = z THEN {Written(<<"@">>, FALSE), Written(<<>>, FALSE)} ELSE {}

DnsInit == zones = {} /\ rrsets = {}

IsDns(c) == c.kind \in {"createzone", "deletezone", "upsert", "delrecord"}

\* A command that is sent: its zone is a name, its records are spelled as they
\* are meant, and "@" is the zone and nothing else.
DnsSent(c) ==
  /\ c.zone \in {Written(c.zone.labels, dot) : dot \in BOOLEAN}
  /\ c.kind \in {"upsert", "delrecord"} => c.recs # {}
  /\ \A r \in c.recs :
       /\ r.name \in Spellings(r.meant.at, c.zone.labels)
       /\ r.meant.at # <<"@">> \o c.zone.labels
       /\ r.meant.ttl \in Nat /\ r.meant.prio \in Nat

Sets(c)  == c.kind \in {"createzone", "upsert"}

Key(r) == <<r.meant.at, r.meant.type>>

\* c and e name an RRset that is the same, but not for the same content.
Clash(c, e) ==
  \E r \in c.recs, s \in e.recs :
    Key(r) = Key(s) /\ (r.meant # s.meant \/ c.kind = "delrecord"
                                          \/ e.kind = "delrecord")

DnsUndoes(c, e) ==
  /\ IsDns(c) /\ IsDns(e)
  /\ c.zone.labels = e.zone.labels
  /\ \/ c.kind = "deletezone" /\ Sets(e)
     \/ c.kind = "createzone" /\ e.kind = "deletezone"
     \/ c.kind = "upsert" /\ e.kind # "deletezone" /\ Clash(c, e)
     \/ c.kind = "delrecord" /\ Sets(e) /\ Clash(c, e)
     \/ c.kind = "createzone" /\ e.kind = "delrecord" /\ Clash(c, e)

\* Once a zone exists, creating it is refused; but the records of one that is
\* under way may replace those of another command.
DnsDisturbs(c, e) ==
  /\ c.kind = "createzone" /\ Sets(e)
  /\ c.zone.labels = e.zone.labels /\ Clash(c, e)

BeginDns(o, c) ==
  /\ Arrive(o, c, IF c.kind = "createzone" THEN "postzone" ELSE c.kind,
            DnsUndoes, DnsDisturbs)
  /\ UNCHANGED dns

-----------------------------------------------------------------------------
\* Names end with a dot for PowerDNS.
fqdn(name) == [name EXCEPT !.dot = TRUE]

\* Variant of expandName: names that end with a dot are expanded as well.
expandAll(name, z) ==
  IF ~name.dot /\ name.labels \in {<<>>, <<"@">>}
    THEN z ELSE Written(name.labels \o z.labels, TRUE)

\* "@" is the zone; a relative name has the zone appended.
expandName(name, z) ==
  IF ~name.dot /\ name.labels \in {<<>>, <<"@">>} THEN z
  ELSE IF name.dot THEN name
  ELSE Written(name.labels \o z.labels, TRUE)

\* The RRset that upsertRecords sends for a record of zone z: the TTL is 300
\* unless given, the content is led by the priority, if any.
RRset(r, z) ==
  [zone |-> z.labels,
   name |-> fqdn(expandName(r.name, z)).labels,
   type |-> r.meant.type,
   ttl  |-> IF r.meant.ttl = 0 THEN 300 ELSE r.meant.ttl,
   data |-> IF r.meant.prio > 0 THEN <<r.meant.prio, r.meant.content>>
                                ELSE <<r.meant.content>>]

SameSet(s, t) == s.zone = t.zone /\ s.name = t.name /\ s.type = t.type

\* What PowerDNS takes in one PATCH: RRsets of a zone that exists, of names
\* in it, each at most once, with content that its type allows.
Accepted(sets) ==
  /\ \A s \in sets : s.zone \in zones /\ IsSuffix(s.zone, s.name)
  /\ \A s, t \in sets : SameSet(s, t) => s = t
  /\ \A s \in sets : Len(s.data) = IF s.type \in {"MX", "SRV"} THEN 2 ELSE 1

Others(sets) == {s \in rrsets : \A t \in sets : ~SameSet(s, t)}

\* Variant of PostZone: the error of the POST is not returned.
PostZoneAnyway(o) ==
  LET z == cmd[o].zone.labels IN
  /\ pc[o] = "postzone"
  /\ zones' \in {zones, zones \cup {z}}
  /\ UNCHANGED rrsets
  /\ Goto(o, IF cmd[o].recs = {} THEN "ok" ELSE "upsert")

\* CreateZone posts the zone, which is refused when it exists, ...
PostZone(o) ==
  LET z == cmd[o].zone.labels IN
  /\ pc[o] = "postzone"
  /\ \/ /\ z \notin zones
        /\ Try(o, zones' = zones \cup {z} /\ UNCHANGED rrsets,
               IF cmd[o].recs = {} THEN "ok" ELSE "upsert", dns)
     \/ z \in zones /\ Fail(o, dns)

\* ... and patches its records in, as UpsertRecord does with one.
UpsertRecords(o) ==
  LET sets == {RRset(r, fqdn(cmd[o].zone)) : r \in cmd[o].recs} IN
  /\ pc[o] = "upsert"
  /\ \/ /\ Accepted(sets)
        /\ Try(o, rrsets' = Others(sets) \cup sets /\ UNCHANGED zones, "ok", dns)
     \/ ~Accepted(sets) /\ Fail(o, dns)

\* A DELETE of an RRset that does not exist is no error; of a zone, it is.
DeleteRecord(o) ==
  LET sets == {RRset(r, fqdn(cmd[o].zone)) : r \in cmd[o].recs} IN
  /\ pc[o] = "delrecord"
  /\ \/ /\ \A s \in sets : s.zone \in zones /\ IsSuffix(s.zone, s.name)
        /\ Try(o, rrsets' = Others(sets) /\ UNCHANGED zones, "ok", dns)
     \/ Fail(o, dns)

\* Variant of DeleteZone: the error of the DELETE is not returned.
DeleteZoneAnyway(o) ==
  LET z == cmd[o].zone.labels IN
  /\ pc[o] = "deletezone"
  /\ \/ zones' = zones \ {z} /\ rrsets' = {s \in rrsets : s.zone # z}
     \/ UNCHANGED <<zones, rrsets>>
  /\ Goto(o, "ok")

DeleteZone(o) ==
  LET z == fqdn(cmd[o].zone).labels IN
  /\ pc[o] = "deletezone"
  /\ \/ /\ z \in zones
        /\ Try(o, /\ zones' = zones \ {z}
                  /\ rrsets' = {s \in rrsets : s.zone # z}, "ok", dns)
     \/ z \notin zones /\ Fail(o, dns)

DnsStep(o) ==
  PostZone(o) \/ UpsertRecords(o) \/ DeleteRecord(o) \/ DeleteZone(o)

-----------------------------------------------------------------------------
Serves(z, m) ==
  \E s \in rrsets :
    /\ s.zone = z /\ s.name = m.at /\ s.type = m.type
    /\ s.ttl > 0 /\ m.ttl \in {0, s.ttl}
    /\ s.data = IF m.prio = 0 THEN <<m.content>> ELSE <<m.prio, m.content>>

\* powerdns.go: "creates a new authoritative zone", "creates or replaces a DNS
\* record in an existing zone".  After success the zone serves every record of
\* the command under the name that was meant, however it was spelled, with
\* the priority in front, until a command that says otherwise.
OutcomeServes ==
  \A o \in Ops :
    Stands(o) /\ o \notin raced /\ Sets(cmd[o]) =>
      LET z == cmd[o].zone.labels IN
      z \in zones /\ \A r \in cmd[o].recs : Serves(z, r.meant)

\* powerdns.go: "removes a DNS record from a zone", "removes a zone".  What was
\* deleted is no longer served, whichever way its name was written.
OutcomeUnserved ==
  \A o \in Ops :
    Stands(o) =>
      LET c == cmd[o] IN
      /\ c.kind = "delrecord" =>
           \A s \in rrsets, r \in c.recs :
             s.zone = c.zone.labels => <<s.name, s.type>> # Key(r)
      /\ c.kind = "deletezone" =>
           c.zone.labels \notin zones \cup {s.zone : s \in rrsets}
=============================================================================
