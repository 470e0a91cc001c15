\* Two officers each accept one of the two open requests.
CONSTANTS
  Officers = {o1}
  Admins = {a1}
  Sessions = {s1, s2}
  Reviews = {r1}
  Proofs = {p1, p2}
  None = None
  Ops <- ProofOperations
  MaxProfiles = 0
  MaxRisks = 0
SPECIFICATION Spec
SYMMETRY Symmetry
INVARIANTS
  AcceptedProofsReleaseCase
CHECK_DEADLOCK FALSE
