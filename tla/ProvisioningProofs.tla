------------------------- MODULE ProvisioningProofs -------------------------
(***************************************************************************)
(* What the foreign key of provisioning_tokens makes of registrations: the *)
(* row of servers that it asks for is inserted only after the UPDATE,      *)
(* which it refuses.                                                       *)
(***************************************************************************)
EXTENDS Provisioning, TLAPS

\* No server has a row, and no registration gets past the UPDATE that needs one.
NoServers ==
  /\ servers = {} /\ used = {}
  /\ bound = [t \in Tokens |-> None]
  /\ tok \in [Regs -> Tokens \cup {None}]
  /\ pc \in [Regs -> {"idle", "select", "update", "refused", "error", "lost"}]
  /\ \A r \in Regs : pc[r] \in {"select", "update"} => tok[r] \in Tokens

\* Every step keeps it so.
LEMMA NoServersKept == NoServers /\ [Next]_vars => NoServers'
<1> SUFFICES ASSUME NoServers, [Next]_vars PROVE NoServers'
  OBVIOUS
<1> USE DEF NoServers, Goto, rows, regs
<1>1. ASSUME NEW t \in Tokens, CreateToken(t) PROVE NoServers'
  BY <1>1 DEF CreateToken
<1>2. ASSUME NEW r \in Regs, NEW t \in Tokens, Present(r, t)
      PROVE  NoServers'
  BY <1>2 DEF Present
<1>3. ASSUME NEW r \in Regs, SelectToken(r) PROVE NoServers'
  BY <1>3 DEF SelectToken
<1>4. ASSUME NEW r \in Regs, UpdateToken(r) PROVE NoServers'
  BY <1>4 DEF UpdateToken, ForeignKey
<1>5. ASSUME NEW r \in Regs, UpsertServer(r) PROVE NoServers'
  BY <1>5 DEF UpsertServer
<1>6. ASSUME NEW r \in Regs, StatementFails(r) PROVE NoServers'
  BY <1>6 DEF StatementFails
<1>7. CASE ApiRestart
  BY <1>7 DEF ApiRestart
<1>8. CASE UNCHANGED vars
  BY <1>8 DEF vars
<1> QED
  BY <1>1, <1>2, <1>3, <1>4, <1>5, <1>6, <1>7, <1>8 DEF Next

\* For any number of tokens and registrations, in any order: with a database
\* that starts empty, no agent is ever accepted, and every token stays unused.
THEOREM NobodyEverRegisters == Spec => []NobodyRegisters
<1>1. Init => NoServers
  BY DEF Init, NoServers
<1>2. NoServers => NobodyRegisters
  BY DEF NoServers, NobodyRegisters
<1> QED
  BY <1>1, <1>2, NoServersKept, PTL DEF Spec
=============================================================================
