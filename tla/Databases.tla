----------------------------- MODULE Databases -----------------------------
(***************************************************************************)
(* agent/internal/database/mariadb.go: databases, their users and grants.  *)
(* CreateDatabase and DeleteDatabase are separate statements on the root   *)
(* connection; MariaDB is external, and runs each of them or fails.        *)
(***************************************************************************)
EXTENDS Commands

CONSTANTS DbNames, DbUsers, Passwords

ASSUME PasswordsOK == None \notin Passwords

VARIABLES
  dbs,          \* databases
  pass,         \* the password of each user that exists
  grants        \* <<user, database>>: mysql.db

sql == <<dbs, pass, grants>>

\* The handlers' arguments.  fresh, in a command that has begun: its user did
\* not exist when it did.
DbCommand ==
  [kind : {"createdb"}, db : DbNames, user : DbUsers, pw : Passwords]
    \cup [kind : {"dropdb"}, db : DbNames, user : DbUsers]

SqlTypeOK ==
  /\ dbs \subseteq DbNames
  /\ pass \in [DbUsers -> Passwords \cup {None}]
  /\ grants \subseteq DbUsers \X DbNames

SqlInit ==
  /\ dbs = {}
  /\ pass = [u \in DbUsers |-> None]
  /\ grants = {}

IsDb(c) == c.kind \in {"createdb", "dropdb"}

\* A create and a drop that share the database or the user.
DbUndoes(c, e) ==
  /\ IsDb(c) /\ IsDb(e)
  /\ c.kind # e.kind
  /\ c.db = e.db \/ c.user = e.user

\* Two creates of one user: the first statement decides the password.
DbDisturbs(c, e) ==
  /\ c.kind = "createdb" /\ e.kind = "createdb"
  /\ c.user = e.user /\ c.pw # e.pw

BeginDb(o, c) ==
  /\ IF c.kind = "createdb"
       THEN Arrive(o, [kind |-> "createdb", db |-> c.db, user |-> c.user,
                       pw |-> c.pw, fresh |-> pass[c.user] = None],
                   "createdb", DbUndoes, DbDisturbs)
       ELSE Arrive(o, c, "dropdb", DbUndoes, DbDisturbs)
  /\ UNCHANGED sql

\* CREATE DATABASE IF NOT EXISTS
CreateDatabase(o) ==
  /\ pc[o] = "createdb"
  /\ Try(o, dbs' = dbs \cup {cmd[o].db} /\ UNCHANGED <<pass, grants>>,
         "createuser", sql)

\* Variant of CreateUser: a user that exists is taken to have its grants.
CreateUserOnce(o) ==
  LET u == cmd[o].user IN
  /\ pc[o] = "createuser"
  /\ Try(o, /\ pass' = [pass EXCEPT ![u] = IF @ = None THEN cmd[o].pw ELSE @]
            /\ UNCHANGED <<dbs, grants>>,
         IF pass[u] = None THEN "grant" ELSE "flush", sql)

\* CREATE USER IF NOT EXISTS: a user that exists keeps its password.
CreateUser(o) ==
  LET u == cmd[o].user IN
  /\ pc[o] = "createuser"
  /\ Try(o, /\ pass' = [pass EXCEPT ![u] = IF @ = None THEN cmd[o].pw ELSE @]
            /\ UNCHANGED <<dbs, grants>>,
         "grant", sql)

\* GRANT is refused when the user does not exist.
Grant(o) ==
  /\ pc[o] = "grant"
  /\ \/ /\ pass[cmd[o].user] # None
        /\ Try(o, /\ grants' = grants \cup {<<cmd[o].user, cmd[o].db>>}
                  /\ UNCHANGED <<dbs, pass>>,
               "flush", sql)
     \/ pass[cmd[o].user] = None /\ Fail(o, sql)

\* DROP DATABASE IF EXISTS leaves the grants on the database.
DropDatabase(o) ==
  /\ pc[o] = "dropdb"
  /\ Try(o, dbs' = dbs \ {cmd[o].db} /\ UNCHANGED <<pass, grants>>,
         "dropuser", sql)

\* Variant of DropUser: the user is revoked, and stays.
RevokeUser(o) ==
  /\ pc[o] = "dropuser"
  /\ Try(o, /\ grants' = {g \in grants : g[1] # cmd[o].user}
            /\ UNCHANGED <<dbs, pass>>,
         "flush", sql)

\* DROP USER IF EXISTS takes the user's grants along.
DropUser(o) ==
  /\ pc[o] = "dropuser"
  /\ Try(o, /\ pass' = [pass EXCEPT ![cmd[o].user] = None]
            /\ grants' = {g \in grants : g[1] # cmd[o].user}
            /\ UNCHANGED dbs,
         "flush", sql)

\* FLUSH PRIVILEGES, the end of both.
FlushPrivileges(o) ==
  /\ pc[o] = "flush"
  /\ Try(o, UNCHANGED sql, "ok", sql)

DbStep(o) ==
  \/ CreateDatabase(o)
  \/ CreateUser(o)
  \/ Grant(o)
  \/ DropDatabase(o)
  \/ DropUser(o)
  \/ FlushPrivileges(o)

-----------------------------------------------------------------------------
\* mariadb.go: "creates a database, a user, and grants the user full access".
\* A create that reported success has done so, whatever other commands, with
\* other databases of the same user or other users of the same database, did
\* before, meanwhile or since; and unless the user was there already, the
\* password is the one that was asked for.
OutcomeDatabase ==
  \A o \in Ops :
    Stands(o) /\ cmd[o].kind = "createdb" =>
      /\ cmd[o].db \in dbs
      /\ <<cmd[o].user, cmd[o].db>> \in grants
      /\ pass[cmd[o].user] # None
      /\ cmd[o].fresh /\ o \notin raced => pass[cmd[o].user] = cmd[o].pw

\* mariadb.go: "drops the database and user".  A drop that reported success
\* has left nothing, not even a grant for a user of that name to come.
OutcomeDropped ==
  \A o \in Ops :
    Stands(o) /\ cmd[o].kind = "dropdb" =>
      /\ cmd[o].db \notin dbs
      /\ pass[cmd[o].user] = None
      /\ \A g \in grants : g[1] # cmd[o].user
=============================================================================
