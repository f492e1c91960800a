CONSTANTS
  u1 = u1
  u2 = u2
  r1 = r1
  q1 = q1
  q2 = q2
  NoUser = NoUser
  Users <- TwoUsers
  Roles <- OneRole
  Requests <- TwoRequests

SPECIFICATION Spec
CHECK_DEADLOCK FALSE

PROPERTY FactorIsAsked
