SPECIFICATION Spec
CONSTANTS
  None = None
  d1 = d1
  d2 = d2
  Ops = {o1, o2, o3}
  DbNames = {b1, b2}
  DbUsers = {u1, u2}
  Passwords = {w1, w2}
  Names = {n1, n2}
  Uids = {1001, 1002}
  n1 = n1
  n2 = n2
  h1 = h1
  h2 = h2
  inner = inner
  Dirs = {h1, h2, inner}
  DefaultHome <- Homes
  Inside <- OneInner
  Quotas = {1023, 30000}
  Domains = {d1, d2}
  Locals = {me}
  Secrets = {s1, s2}
  MailQuotas = {9}
  MaxQuota = 9
  Extends <- NoneExtends
  Mixes <- DomainsOnly
SYMMETRY Symmetry
INVARIANTS
  SignedUnlessDeleted
CHECK_DEADLOCK FALSE
