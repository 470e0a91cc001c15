\* One session: a refreshed profile takes the cited assessment with it.
CONSTANTS
  Officers = {o1}
  Admins = {a1}
  Sessions = {s1}
  Reviews = {r1}
  Proofs = {p1}
  None = None
  Ops <- ReviewOperations
  MaxProfiles = 2
  MaxRisks = 1
SPECIFICATION Spec
SYMMETRY Symmetry
PROPERTIES
  SnapshotIsImmutable
CHECK_DEADLOCK FALSE
