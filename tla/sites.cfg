SPECIFICATION SitesSpec
CONSTANTS
  None = None
  Domains = {d1, d2}
  Ops = {o1, o2, o3}
  Overlaps = {"same", "other"}
  Faults = {"io", "crash"}
SYMMETRY Symmetry
VIEW Seen
INVARIANTS
  SitesTypeOK
  ValidUnlessTrying
  OutcomeServed
  StatusTrue
PROPERTIES
  ImplementsVhosts
CHECK_DEADLOCK FALSE
