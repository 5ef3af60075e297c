SPECIFICATION Spec
CONSTANTS
  m1 = m1
  m2 = m2
  s1 = s1
  s2 = s2
  d1 = d1
  d2 = d2
  a1 = a1
  a2 = a2
  b1 = b1
  Machines = {m1}
  Services = {s1, s2}
  MachineOf <- MCTogether
  Digests = {d1, d2}
  DigestOf <- MCOwnDigest
  Chans = {a1, a2, b1}
  OwnerOf <- MCOwner
  Uuids = {u1, u2, u3}
  UpdateCap = 1
  MaxRestarts = 1
  MaxLosses = 1
  None = None
CHECK_DEADLOCK FALSE
INVARIANTS TypeOK BoundIdentity NoDeadEntry
PROPERTIES DigestStable IdentityKept
SYMMETRY MCSymmetry
