CONSTANTS
  q1 = q1
  q2 = q2
  q3 = q3
  Forgots <- FirstAndSecond
  Resets <- SecondAndThird
  resetTokenExpiry = 1
  MaxLinks = 2
  MaxTime = 3

SPECIFICATION Spec
CHECK_DEADLOCK FALSE

INVARIANT TypeOK
PROPERTY LinkExpires
PROPERTY SupersededLinkIsDead
PROPERTY CompletedLinkIsDead
INVARIANT RefusedOnlyIfUsed
