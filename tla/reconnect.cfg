SPECIFICATION Spec
CONSTANTS
  a1 = a1
  a2 = a2
  a3 = a3
  s1 = s1
  s2 = s2
  None = None
  Agents = {a1}
  Servers = {s1}
  ServerOf <- OneServer
  Conns = {c1, c2, c3}
  Calls = {k1, k2}
  SendCap = 2
SYMMETRY Symmetry
INVARIANTS
  TypeOK
  ReplyIsOwn
  PendingOwned
  DeliverNeverBlocks
PROPERTIES
  ImplementsRpc
