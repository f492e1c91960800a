CONSTANTS
  q1 = q1
  q2 = q2
  q3 = q3
  Forgots <- First
  Resets <- SecondAndThird
  resetTokenExpiry = 1
  MaxLinks = 2
  MaxTime = 3

SPECIFICATION Spec
CHECK_DEADLOCK FALSE

PROPERTY SingleUse
