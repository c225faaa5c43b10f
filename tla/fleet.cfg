SPECIFICATION FairSpec
CONSTANTS
  None = None
  Torn = Torn
  Pods = {p1, p2}
  Hosts = {h1}
  Conns = {c1, c2}
  Requests = {k1, k2}
  MaxBeats = 2
  Modulus = 3
  Budgets <- All
INVARIANTS
  TypeOK
  CPUShare
  ViewsAdvance
PROPERTIES
  ComesBack
  StaysBack
CHECK_DEADLOCK FALSE
