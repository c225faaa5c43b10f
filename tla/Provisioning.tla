---------------------------- MODULE Provisioning ----------------------------
(***************************************************************************)
(* Provisioning (api/internal/store/store.go) and its callers: an          *)
(* operator creates tokens (handleCreateToken), agents register with them  *)
(* (authenticate: ValidateToken, then UpsertServer), in any number of      *)
(* streams at once.  Each SQL statement is a step of its own; there is no  *)
(* transaction around them.                                                *)
(*                                                                         *)
(* PostgreSQL is external: a statement takes effect as a whole or fails,   *)
(* and one that would leave a server_id without its row in servers is      *)
(* refused, as the schema of migrate says (server_id REFERENCES servers).  *)
(***************************************************************************)
EXTENDS Naturals

CONSTANTS
  Tokens,       \* plaintext tokens
  Ids,          \* server IDs that generateID can return; it never repeats one
  Regs,         \* registrations: one per stream that sends a RegisterRequest
  None

VARIABLES
  issued,       \* tokens with a row in provisioning_tokens
  bound,        \* provisioning_tokens.server_id of each row
  used,         \* the rows whose used_at is set
  servers,      \* the IDs with a row in servers
  given,        \* IDs that generateID has returned
  pc,           \* where each registration is, or how it ended
  tok,          \* the token it presents
  id,           \* the server ID it has got so far
  valid         \* whether the token had been issued when it was presented

rows == <<issued, bound, used, servers>>
regs == <<tok, valid>>
vars == <<rows, given, pc, regs, id>>

Init ==
  /\ issued = {}
  /\ bound = [t \in Tokens |-> None]
  /\ used = {}
  /\ servers = {}
  /\ given = {}
  /\ pc = [r \in Regs |-> "idle"]
  /\ tok = [r \in Regs |-> None]
  /\ id = [r \in Regs |-> None]
  /\ valid = [r \in Regs |-> FALSE]

Goto(r, l) == pc' = [pc EXCEPT ![r] = l]

\* The foreign key of provisioning_tokens.server_id.
ForeignKey(i) == i \in servers

\* POST /api/v1/admin/tokens: a row for a new token.
CreateToken(t) ==
  /\ t \notin issued
  /\ issued' = issued \cup {t}
  /\ UNCHANGED <<bound, used, servers, given, pc, regs, id>>

\* Connect has received a RegisterRequest; authenticate calls ValidateToken.
Present(r, t) ==
  /\ pc[r] = "idle"
  /\ tok' = [tok EXCEPT ![r] = t]
  /\ valid' = [valid EXCEPT ![r] = t \in issued]
  /\ Goto(r, "select")
  /\ UNCHANGED <<rows, given, id>>

\* SELECT ... WHERE token_hash: an unknown token and one that is used but not
\* bound are refused; a bound one gives its server ID; any other gets a new one.
SelectToken(r) ==
  LET t == tok[r] IN
  /\ pc[r] = "select"
  /\ \/ /\ t \notin issued \/ (t \in used /\ bound[t] = None)
        /\ Goto(r, "refused")
        /\ UNCHANGED <<given, id>>
     \/ /\ t \in issued /\ bound[t] # None
        /\ id' = [id EXCEPT ![r] = bound[t]]
        /\ Goto(r, "upsert")
        /\ UNCHANGED given
     \/ /\ t \in issued \ used /\ bound[t] = None
        /\ \E i \in Ids \ given :
             /\ given' = given \cup {i}
             /\ id' = [id EXCEPT ![r] = i]
        /\ Goto(r, "update")
  /\ UNCHANGED <<rows, regs>>

\* UPDATE provisioning_tokens SET used_at, server_id, by the row's primary key
\* and whatever the row holds by now.
UpdateToken(r) ==
  /\ pc[r] = "update"
  /\ IF ForeignKey(id[r])
       THEN /\ used' = used \cup {tok[r]}
            /\ bound' = [bound EXCEPT ![tok[r]] = id[r]]
            /\ Goto(r, "upsert")
       ELSE /\ Goto(r, "refused")
            /\ UNCHANGED <<used, bound>>
  /\ UNCHANGED <<issued, servers, given, regs, id>>

\* INSERT INTO servers ... ON CONFLICT DO UPDATE: an error is only logged.
UpsertServer(r) ==
  /\ pc[r] = "upsert"
  /\ servers' \in {servers, servers \cup {id[r]}}
  /\ Goto(r, "accepted")
  /\ UNCHANGED <<issued, bound, used, given, regs, id>>

\* A statement of ValidateToken fails for reasons of its own (connection lost,
\* context cancelled).
StatementFails(r) ==
  /\ pc[r] \in {"select", "update"}
  /\ Goto(r, "error")
  /\ UNCHANGED <<rows, given, regs, id>>

\* The API dies: registrations in progress are gone, rows stay.
ApiRestart ==
  /\ \E r \in Regs : pc[r] \in {"select", "update", "upsert"}
  /\ pc' = [r \in Regs |->
              IF pc[r] \in {"select", "update", "upsert"} THEN "lost" ELSE pc[r]]
  /\ UNCHANGED <<rows, given, regs, id>>

Next ==
  \/ \E t \in Tokens : CreateToken(t)
  \/ \E r \in Regs :
       \/ \E t \in Tokens : Present(r, t)
       \/ SelectToken(r)
       \/ UpdateToken(r)
       \/ UpsertServer(r)
       \/ StatementFails(r)
  \/ ApiRestart

Spec == Init /\ [][Next]_vars

-----------------------------------------------------------------------------
\* store.go, of ValidateToken: it "returns the server ID to assign (generating
\* one if this is a first-time registration)", and an error "if the token is
\* invalid or already used".  A registration with an issued token that nobody
\* has used is not refused.
FirstUseAccepted ==
  \A r \in Regs : valid[r] /\ tok[r] \notin used => pc[r] # "refused"

\* What follows for a database that starts empty: no registration is accepted,
\* whoever presents which token, and no token is ever used.
NobodyRegisters == used = {} /\ \A r \in Regs : pc[r] # "accepted"
=============================================================================
