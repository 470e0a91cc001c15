\* Two sessions: a stale commit takes a case out of a terminal status.
CONSTANTS
  Officers = {o1}
  Admins = {a1}
  Sessions = {s1, s2}
  Reviews = {r1, r2}
  Proofs = {p1}
  None = None
  Ops <- OfficerOperations
  MaxProfiles = 1
  MaxRisks = 1
SPECIFICATION Spec
SYMMETRY Symmetry
PROPERTIES
  TerminalIsForever
CHECK_DEADLOCK FALSE
