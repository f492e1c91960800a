CONSTANTS
  j1 = j1
  j2 = j2
  e1 = e1
  e2 = e2
  t1 = t1
  t2 = t2
  None = None
  Journals <- TwoJournals
  Entries <- TwoEntries
  Requests <- TwoTransactions

SPECIFICATION Spec
SYMMETRY Symmetry
CHECK_DEADLOCK FALSE

INVARIANT TypeOK
INVARIANT LockedIsBalanced
PROPERTY LaterWritesAreRefused
