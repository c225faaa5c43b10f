------------------------------ MODULE Accounts ------------------------------
(***************************************************************************)
(* agent/internal/system/accounts.go: Linux users and their disk quota.    *)
(* useradd, userdel and setquota are external programs; each edits its     *)
(* files under a lock of its own, so a call of one of them is a step.      *)
(***************************************************************************)
EXTENDS Commands, Naturals

CONSTANTS
  Names, Uids,
  Quotas,       \* in bytes; 0 asks for none
  Dirs,         \* directories that may be homes
  DefaultHome,  \* the one that useradd gives each name
  Inside        \* <<d, e>>: the directory d lies in e, however deep

ASSUME AccountsOK ==
  /\ Uids \subseteq Nat \ {0} /\ Quotas \subseteq Nat /\ None \notin Uids
  /\ DefaultHome \in [Names -> Dirs] /\ None \notin Dirs /\ "" \notin Dirs
  /\ Inside \subseteq Dirs \X Dirs /\ \A d \in Dirs : <<d, d>> \notin Inside

VARIABLES
  users,        \* /etc/passwd: the uid of each name
  homedir,      \* and its home directory
  owner,        \* the uid that each directory belongs to; root's is 0
  limit,        \* the limits of each uid, in blocks
  warned,       \* commands that could not set the quota and went on
  homeless      \* commands of which the user has no home of its own: the
                \* directory was there before, or went with another's home

accounts == <<users, homedir, owner, limit, warned, homeless>>

\* uid 0 asks for any, and "" for the default home.
AccountCommand ==
  [kind : {"useradd"}, name : Names, uid : Uids \cup {0}, dir : Dirs \cup {""},
   quota : Quotas]
    \cup [kind : {"userdel"}, name : Names, purge : BOOLEAN]

Within(d) == {e \in Dirs : e = d \/ <<e, d>> \in Inside}
Around(d) == {e \in Dirs : <<d, e>> \in Inside}

Unlimited == [soft |-> 0, hard |-> 0]

AccountsTypeOK ==
  /\ users \in [Names -> Uids \cup {None}]
  /\ homedir \in [Names -> Dirs \cup {None}]
  /\ owner \in [Dirs -> Uids \cup {0, None}]
  /\ \A u \in Uids : limit[u].soft \in Nat /\ limit[u].hard \in Nat
  /\ warned \subseteq Ops /\ homeless \subseteq Ops

AccountsInit ==
  /\ users = [n \in Names |-> None]
  /\ homedir = [n \in Names |-> None]
  /\ owner = [d \in Dirs |-> None]
  /\ limit = [u \in Uids |-> Unlimited]
  /\ warned = {}
  /\ homeless = {}

IsAccount(c) == c.kind \in {"useradd", "userdel"}

\* Commands for one name; and a creation that makes the directory again that a
\* deletion has purged.
AccountUndoes(c, e) ==
  /\ IsAccount(c) /\ IsAccount(e)
  /\ \/ c.name = e.name /\ c.kind # e.kind
     \/ /\ c.kind = "useradd" /\ e.kind = "userdel"
        /\ e.dir \in {c.dir} \cup Around(c.dir)

\* setquota goes by the name: that of one create may meet the user of another.
AccountDisturbs(c, e) ==
  /\ c.kind = "useradd" /\ e.kind = "useradd"
  /\ c.name = e.name /\ c.quota # e.quota

\* A creation is without -d when the command names no directory; the home that
\* a deletion is to find is the one in /etc/passwd.
AsBegun(c) ==
  IF c.kind = "useradd"
    THEN [kind |-> "useradd", name |-> c.name, uid |-> c.uid, quota |-> c.quota,
          dir |-> IF c.dir = "" THEN DefaultHome[c.name] ELSE c.dir]
    ELSE [kind |-> "userdel", name |-> c.name, purge |-> c.purge,
          dir |-> homedir[c.name]]

BeginAccount(o, c) ==
  /\ Arrive(o, AsBegun(c), c.kind, AccountUndoes, AccountDisturbs)
  /\ UNCHANGED accounts

\* The uids that useradd can give.
Free(c) ==
  {u \in Uids : c.uid \in {0, u} /\ \A n \in Names : users[n] # u}

\* useradd makes the home d of o for u, and those around it for root -- or
\* leaves d as it is when it is there.
MakeHome(o, d, u) ==
  IF owner[d] = None
    THEN /\ owner' = [e \in Dirs |-> IF e = d THEN u
                         ELSE IF e \in Around(d) /\ owner[e] = None THEN 0
                         ELSE owner[e]]
         /\ UNCHANGED homeless
    ELSE homeless' = homeless \cup {o} /\ UNCHANGED owner

\* useradd -m: refused when the name or the uid is taken.  When the home cannot
\* be made, the user is there all the same, and so may be those around it.
UserAdd(o) ==
  LET n == cmd[o].name
      d == cmd[o].dir
  IN
  /\ pc[o] = "useradd"
  /\ \/ \E u \in Free(cmd[o]) :
          /\ users[n] = None
          /\ users' = [users EXCEPT ![n] = u]
          /\ homedir' = [homedir EXCEPT ![n] = d]
          /\ \/ /\ MakeHome(o, d, u)
                /\ Goto(o, IF cmd[o].quota > 0 THEN "setquota" ELSE "ok")
             \/ /\ \E S \in SUBSET {e \in Around(d) : owner[e] = None} :
                     owner' = [e \in Dirs |-> IF e \in S THEN 0 ELSE owner[e]]
                /\ Over(o) /\ UNCHANGED homeless
     \/ UNCHANGED <<users, homedir, owner, homeless>> /\ Over(o)
  /\ UNCHANGED <<limit, warned>>

\* Variant of BlockLimits: one block less, of a quota that may have none.
LimitsBelow(q) ==
  LET soft == q \div 1024 - 1 IN [soft |-> soft, hard |-> soft + soft \div 10]

\* Variant of BlockLimits: the hard limit is the grace alone.
GraceLimits(q) == [soft |-> q \div 1024, hard |-> (q \div 1024) \div 10]

\* The limits in blocks of 1 KiB, with 10% grace.
BlockLimits(q) ==
  LET soft == q \div 1024 IN [soft |-> soft, hard |-> soft + soft \div 10]

\* setquota finds the uid by the name, and fails when there is none.  A
\* failure is "non-fatal".
SetQuota(o) ==
  LET u == users[cmd[o].name] IN
  /\ pc[o] = "setquota"
  /\ \/ /\ u # None
        /\ limit' = [limit EXCEPT ![u] = BlockLimits(cmd[o].quota)]
        /\ UNCHANGED warned
     \/ UNCHANGED limit /\ warned' = warned \cup {o}
  /\ Goto(o, "ok")
  /\ UNCHANGED <<users, homedir, owner, homeless>>

\* The directories of S are gone; so are the homes that users had in them.
Purge(S) ==
  /\ owner' = [d \in Dirs |-> IF d \in S THEN None ELSE owner[d]]
  /\ homeless' = homeless \cup
       {p \in Ops : /\ cmd[p].kind = "useradd" /\ pc[p] \in {"setquota", "ok"}
                    /\ cmd[p].dir \in S}

\* Variant of UserDel: -r is not passed on.
UserDelKeep(o) ==
  LET n == cmd[o].name IN
  /\ pc[o] = "userdel" /\ users[n] # None
  /\ users' = [users EXCEPT ![n] = None]
  /\ homedir' = [homedir EXCEPT ![n] = None]
  /\ Goto(o, "ok")
  /\ UNCHANGED <<owner, limit, warned, homeless>>

\* userdel, with -r to purge: the user goes first, then its home and all that
\* lies inside.  A home that belongs to somebody else is not removed, and that
\* is an error; so may be that somebody else's lies inside.  One that cannot be
\* removed whole loses what was removed before.  The limits of the uid stay.
UserDel(o) ==
  LET n == cmd[o].name
      d == homedir[n]
      removable == cmd[o].purge /\ owner[d] \in {None, users[n]}
      all == IF removable THEN Within(d) ELSE {}
  IN
  /\ pc[o] = "userdel"
  /\ \/ /\ users[n] # None
        /\ users' = [users EXCEPT ![n] = None]
        /\ homedir' = [homedir EXCEPT ![n] = None]
        /\ \/ /\ removable \/ ~cmd[o].purge
              /\ Purge(all)
              /\ Goto(o, "ok")
           \/ \E S \in {all} \cup SUBSET (all \ {d}) : Purge(S) /\ Over(o)
     \/ UNCHANGED <<users, homedir, owner, homeless>> /\ Over(o)
  /\ UNCHANGED <<limit, warned>>

AccountStep(o) == UserAdd(o) \/ SetQuota(o) \/ UserDel(o)

-----------------------------------------------------------------------------
\* Limits that hold a user to q bytes, give or take a tenth.
Confines(l, q) ==
  /\ l.soft > 0 /\ l.soft * 1024 <= q /\ (l.soft + 1) * 1024 > q
  /\ l.hard >= l.soft /\ l.hard * 10 <= l.soft * 11

\* accounts.go: "creates a Linux system user for a hosting account".  After a
\* create that reported success the user is there with its uid and owns its
\* home, however homes are shared and nested, unless the directory was there
\* before or went with the home of a purged user; and a quota of at least one
\* block that was not warned about confines it, although setquota runs after
\* useradd and other accounts come, go and reuse uids meanwhile.  Below one
\* block a quota is rounded to no limit.
OutcomeAccount ==
  \A o \in Ops :
    Stands(o) /\ cmd[o].kind = "useradd" =>
      LET u == users[cmd[o].name] IN
      /\ u # None /\ cmd[o].uid \in {0, u}
      /\ homedir[cmd[o].name] = cmd[o].dir
      /\ o \in homeless \/ owner[cmd[o].dir] = u
      /\ cmd[o].quota >= 1024 /\ o \notin warned \cup raced
           => Confines(limit[u], cmd[o].quota)

\* accounts.go: "removes a Linux system user"; with purge, the home that it had
\* is gone too.
OutcomeNoAccount ==
  \A o \in Ops :
    Stands(o) /\ cmd[o].kind = "userdel" =>
      /\ users[cmd[o].name] = None
      /\ cmd[o].purge => owner[cmd[o].dir] = None
=============================================================================
