SPECIFICATION Spec
CONSTANTS
  alice = alice
  bob = bob
  a1 = a1
  c1 = c1
  c2 = c2
  Local = Local
  None = None
  Clients = {alice, bob}
  Calls = {c1, c2}
  Approvals = {a1}
  TTL = 1
  MaxLeases = 2
  MaxCrashes = 0
  MaxDecisions = 3
SYMMETRY MCSymmetry
INVARIANT Exclusive
CHECK_DEADLOCK FALSE
