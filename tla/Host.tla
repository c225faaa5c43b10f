-------------------------------- MODULE Host --------------------------------
(***************************************************************************)
(* The commands of one host together: Dispatcher.Dispatch                  *)
(* (agent/internal/rpc/dispatch.go) over the managers that the start of    *)
(* the agent (agent/cmd/agent/main.go) could set up.  The managers outlive *)
(* nothing: a restart of the agent chooses them anew.                      *)
(***************************************************************************)
EXTENDS Databases, Dns, Accounts, Dkim, FiniteSets

CONSTANTS
  Mixes         \* [commands, most]: the commands that one behaviour may
                \* receive, and how many of them at most

ASSUME MixesOK ==
  \A m \in Mixes : \A c \in m.commands :
    /\ IsDb(c) => c \in DbCommand
    /\ IsDns(c) => DnsSent(c)
    /\ IsAccount(c) => c \in AccountCommand
    /\ IsBox(c) \/ IsAlias(c) => c.at \in Addresses
    /\ IsDomain(c) => c.domain \in Domains

VARIABLES
  managers,     \* the fields of Dispatcher that are not nil
  mix           \* the mix of this behaviour

stores == <<sql, dns, accounts, mail, dkim>>
vars   == <<goroutines, stores, managers, mix>>

Manager(c) ==
  CASE IsDb(c)                                -> "db"
    [] IsDns(c)                               -> "dns"
    [] IsBox(c) \/ IsAlias(c) \/ IsDomain(c)  -> "email"
    [] IsAccount(c)                           -> "none"

TypeOK ==
  /\ SqlTypeOK /\ AccountsTypeOK /\ MailTypeOK /\ DkimTypeOK
  /\ managers \subseteq {"db", "dns", "email"}
  /\ mix \in Mixes

\* What main makes of MariaDB when s statements of SetupSchema have succeeded
\* before: it cannot be reached; or all of them succeed; or one fails, those
\* before it have made what they create, and mail is off.
Started(s) ==
  {[managers |-> {}, schema |-> s],
   [managers |-> {"db", "email"}, schema |-> Complete]}
    \cup {[managers |-> {"db"}, schema |-> t] : t \in s..Complete}

\* The managers, and the tables, that the commands of a mix need; the others
\* make no difference.
Needed(m) == {Manager(c) : c \in m.commands}

Begun(s, m) ==
  {[managers |-> r.managers \cap Needed(m),
    schema   |-> IF "email" \in Needed(m) THEN r.schema ELSE s] :
     r \in Started(s)}

Init ==
  /\ CommandsInit /\ SqlInit /\ DnsInit /\ AccountsInit /\ MailInit /\ DkimInit
  /\ mix \in Mixes
  /\ \E r \in Begun(0, mix), d \in {{}, {"dns"} \cap Needed(mix)} :
       /\ managers = r.managers \cup d
       /\ schema = r.schema

\* The agent dies, or is restarted.  Its flags, and so PowerDNS, are the same.
AgentRestart ==
  /\ AllLost
  /\ \E r \in Begun(schema, mix) :
       /\ managers' = r.managers \cup (managers \cap {"dns"})
       /\ schema' = r.schema
  /\ WritesLost
  /\ UNCHANGED <<sql, dns, accounts, id, nextid, boxes, aliases, dirs, found,
                 mix>>

Begin(o, c) ==
  \/ IsDb(c) /\ BeginDb(o, c) /\ UNCHANGED <<dns, accounts, mail, dkim>>
  \/ IsDns(c) /\ BeginDns(o, c) /\ UNCHANGED <<sql, accounts, mail, dkim>>
  \/ IsAccount(c) /\ BeginAccount(o, c) /\ UNCHANGED <<sql, dns, mail, dkim>>
  \/ IsDomain(c) /\ BeginDomain(o, c) /\ UNCHANGED <<sql, dns, accounts>>
  \/ /\ IsBox(c) \/ IsAlias(c)
     /\ BeginMail(o, c) /\ UNCHANGED <<sql, dns, accounts>>

\* "Modules that require external services are nil when not configured."
Dispatch(o) ==
  /\ Cardinality({p \in Ops : pc[p] # "idle"}) < mix.most
  /\ \E c \in mix.commands :
       \/ Manager(c) \in managers \cup {"none"} /\ Begin(o, c)
       \/ /\ Manager(c) \notin managers \cup {"none"}
          /\ Refuse(o) /\ UNCHANGED stores
  /\ UNCHANGED <<managers, mix>>

Step(o) ==
  /\ \/ DbStep(o) /\ UNCHANGED <<dns, accounts, mail, dkim>>
     \/ DnsStep(o) /\ UNCHANGED <<sql, accounts, mail, dkim>>
     \/ AccountStep(o) /\ UNCHANGED <<sql, dns, mail, dkim>>
     \/ MailStep(o) /\ UNCHANGED <<sql, dns, accounts, dkim>>
     \/ DomainStep(o) /\ UNCHANGED <<sql, dns, accounts>>
  /\ UNCHANGED <<managers, mix>>

Next == (\E o \in Ops : Dispatch(o) \/ Step(o)) \/ AgentRestart

Spec == Init /\ [][Next]_vars

=============================================================================
