SPECIFICATION Spec
CONSTANTS
  None = None
  Torn = Torn
  Pods = {p1, p2}
  Hosts = {h1}
  Conns = {c1, c2}
  Requests = {k1}
  MaxBeats = 1
  Modulus = 3
  Budgets <- NoFault
PROPERTIES
  SessionFound
CHECK_DEADLOCK FALSE
