CONSTANTS
  j1 = j1
  j2 = j2
  e1 = e1
  e2 = e2
  t1 = t1
  t2 = t2
  None = None
  Journals <- TwoJournals
  Entries <- TwoEntries
  Requests <- OneTransaction

SPECIFICATION Spec
CHECK_DEADLOCK FALSE

PROPERTY LockedEntriesAreFrozen
