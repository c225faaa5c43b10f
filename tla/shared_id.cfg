SPECIFICATION HandlersGoOn
CONSTANTS
  a1 = a1
  a2 = a2
  a3 = a3
  s1 = s1
  s2 = s2
  None = None
  Agents = {a1, a2, a3}
  Servers = {s1, s2}
  ServerOf <- SharedServer
  Conns = {c1, c2}
  Calls = {k1}
  SendCap = 1
INVARIANTS
  RegistryLive
  RunsOnceOnTarget
PROPERTIES
  StaleEntryCleared
