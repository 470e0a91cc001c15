\* One session: statuses are assigned without the state machine.
CONSTANTS
  Officers = {o1}
  Admins = {a1}
  Sessions = {s1}
  Reviews = {r1, r2}
  Proofs = {p1, p2}
  None = None
  Ops <- AllOperations
  MaxProfiles = 1
  MaxRisks = 1
SPECIFICATION Spec
SYMMETRY Symmetry
PROPERTIES
  StateMachineGoverns
CHECK_DEADLOCK FALSE
