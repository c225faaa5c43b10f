SPECIFICATION Spec
CONSTANTS
  None = None
  Domains = {d1, d2}
  Ops = {o1, o2, o3}
  Overlaps = {}
  Faults = {}
PROPERTIES
  RollbackRestores
CHECK_DEADLOCK FALSE
