CONSTANTS
  r1 = r1
  r2 = r2
  s1 = s1
  s2 = s2
  NoSecret = NoSecret
  Requests <- TwoRequests
  Secrets <- TwoSecrets
  recoveryCodeCount = 2
  maxFailedAttempts = 2
  lockoutDuration = 1
  MaxTime = 2

SPECIFICATION Spec
SYMMETRY Symmetry
CHECK_DEADLOCK FALSE

INVARIANT TypeOK
INVARIANT EnabledWasConfirmed
INVARIANT CodesBelongToSecret
INVARIANT NoCodeIsLost
INVARIANT LockMatchesCounter
PROPERTY LockHolds
PROPERTY ImplementsSecondFactor
