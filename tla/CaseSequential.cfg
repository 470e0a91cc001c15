\* One session at a time: every operation.
CONSTANTS
  Officers = {o1, o2}
  Admins = {a1}
  Sessions = {s1}
  Reviews = {r1, r2}
  Proofs = {p1, p2}
  None = None
  Ops <- AllOperations
  MaxProfiles = 2
  MaxRisks = 2
SPECIFICATION Spec
SYMMETRY Symmetry
INVARIANTS
  TypeOK
  UnderReviewHasReview
  QueuedCaseWaitsForNoProof
PROPERTIES
  TerminalIsForever
  LastAnswerReleasesCase
  SettledProofStays
  DecisionRestsOnAssessment
CHECK_DEADLOCK FALSE
