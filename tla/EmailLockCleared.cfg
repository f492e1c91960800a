CONSTANTS
  q1 = q1
  q2 = q2
  Issuers <- First
  Verifiers <- First
  Disablers <- First
  email2faOTPExpiry = 1
  maxFailedAttempts = 2
  lockoutDuration = 2
  MaxCodes = 2
  MaxGuesses <- ThreeIfCalm
  MaxTime = 2

SPECIFICATION Spec
CHECK_DEADLOCK FALSE

PROPERTY LockHolds
