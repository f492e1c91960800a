CONSTANTS
  r1 = r1
  r2 = r2
  s1 = s1
  s2 = s2
  NoSecret = NoSecret
  Requests <- TwoRequests
  Secrets <- OneSecret
  recoveryCodeCount = 2
  maxFailedAttempts = 2
  lockoutDuration = 2
  MaxTime = 3

SPECIFICATION Spec
CHECK_DEADLOCK FALSE

PROPERTY RecoveryCodeSingleUse
