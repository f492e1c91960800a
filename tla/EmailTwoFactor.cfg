CONSTANTS
  q1 = q1
  q2 = q2
  Issuers <- Both
  Verifiers <- Both
  Disablers <- Both
  email2faOTPExpiry = 1
  maxFailedAttempts = 2
  lockoutDuration = 2
  MaxCodes = 2
  MaxGuesses <- ThreeIfCalm
  MaxTime = 2

SPECIFICATION Spec
SYMMETRY Interchanged
CHECK_DEADLOCK FALSE

INVARIANT TypeOK
PROPERTY CodeExpires
PROPERTY SupersededCodeIsDead
PROPERTY MailedCodeIsKept
PROPERTY CodeReusedOnlyBeforeDelete
INVARIANT GuessesAreBounded
PROPERTY LockHoldsUntilReissue
