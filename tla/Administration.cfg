SPECIFICATION Spec
CONSTANTS
  a1 = a1
  a2 = a2
  u1 = u1
  area1 = area1
  t1 = t1
  t2 = t2
  s1 = s1
  s2 = s2
  None = None
  Users <- Everybody
  Founders <- Admins
  Clients <- OneClient
  Areas <- OneArea
  Tokens <- TwoTokens
  Sessions <- TwoSessions
  Creators <- TwoSessions
  MaxCases = 2
SYMMETRY Symmetry
INVARIANTS
  TypeOK
  LiveTokensJustified
  StaffJustified
  NumbersConsecutive
PROPERTIES
  RightsStayRevoked
\* Two super admins may deactivate each other and everybody else: nobody is
\* left who could do anything.
CHECK_DEADLOCK FALSE
