-------------------------- MODULE MCCaseLifecycle --------------------------
(* CaseLifecycle on small instances. Sessions, reviewers, reviews and proof *)
(* requests are interchangeable.                                            *)
EXTENDS CaseLifecycle, TLC

Symmetry == Permutations(Officers) \cup Permutations(Sessions)
              \cup Permutations(Reviews) \cup Permutations(Proofs)

AllOperations == AllOps

\* Everything that touches the review and the final decision.
ReviewOperations == {"upload", "ocr", "start", "decide", "pipeline", "refresh"}

\* Proof requests alone.
ProofOperations == {"create", "accept", "cancel", "reject"}

\* What an officer does to a case, and its promotion by the worker.
OfficerOperations == {"ocr", "upload", "start", "decide", "create", "pipeline"}

=============================================================================
