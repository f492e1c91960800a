CONSTANTS
  u1 = u1
  u2 = u2
  r1 = r1
  q1 = q1
  q2 = q2
  NoUser = NoUser
  Users <- TwoUsers
  Roles <- OneRole
  Requests <- TwoRequests

SPECIFICATION Spec
SYMMETRY Symmetry
CONSTRAINT OneEnrolled
CHECK_DEADLOCK FALSE

INVARIANT TypeOK
PROPERTY RegisterRefusedOnlyIfRaced
PROPERTY DeletedStaysDeleted
PROPERTY SteadyFactorIsAsked
PROPERTY ReactivatedOnlyIfRaced
PROPERTY ClaimsWereHeld
