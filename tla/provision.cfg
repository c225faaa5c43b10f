SPECIFICATION Spec
CONSTANTS
  None = None
  Tokens = {t1, t2}
  Ids = {i1, i2, i3}
  Regs = {r1, r2, r3}
INVARIANTS
  FirstUseAccepted
CHECK_DEADLOCK FALSE
