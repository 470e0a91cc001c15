\* Two sessions at a time: the operations that touch the review and the final
\* decision.
CONSTANTS
  Officers = {o1}
  Admins = {a1}
  Sessions = {s1, s2}
  Reviews = {r1, r2}
  Proofs = {p1}
  None = None
  Ops <- ReviewOperations
  MaxProfiles = 2
  MaxRisks = 1
SPECIFICATION Spec
SYMMETRY Symmetry
INVARIANTS
  OneOpenReview
  TerminalStatusBacked
  DecidedByItsReviewer
  CitesLiveAssessment
PROPERTIES
  CompletedStaysCompleted
  ReviewLockHeld
  ImplementsDecisionRegister
CHECK_DEADLOCK FALSE
