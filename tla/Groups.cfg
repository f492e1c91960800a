CONSTANTS
  q1 = q1
  q2 = q2
  Groups <- ThreeGroups
  Kinds <- TwoKinds
  Users <- OneUser
  Roles <- TwoRoles
  Requests <- TwoRequests
  PageSize = 2

SPECIFICATION Spec
SYMMETRY Symmetry
CONSTRAINT Apart
CHECK_DEADLOCK FALSE

INVARIANT TypeOK
PROPERTY DeletedGroupIsFrozen
PROPERTY OmittedIsActiveIsKept
PROPERTY AddedMemberIsListed
PROPERTY MissesAreDepartures
PROPERTY RepeatsAreArrivals
