-------------------------- MODULE MCAdministration --------------------------
(* An instance of Administration for TLC.                                  *)
EXTENDS Administration, TLC

CONSTANTS a1, a2, u1, area1, t1, t2, s1, s2

Everybody == {a1, a2, u1}
Admins == {a1, a2}
OneClient == {u1}
OneArea == {area1}
TwoTokens == {t1, t2}
TwoSessions == {s1, s2}

Symmetry == Permutations(Admins) \cup Permutations(TwoTokens)
              \cup Permutations(TwoSessions)
=============================================================================
