CONSTANTS
  c1 = c1
  c2 = c2
  c3 = c3
  q1 = q1
  q2 = q2
  q3 = q3
  NoContact = NoContact
  Contacts <- ThreeContacts
  Requests <- ThreeRequests
  allow_contact <- OneOptsOut
  Omitted = Omitted

SPECIFICATION MCSpec
CHECK_DEADLOCK FALSE

INVARIANT TypeOK
PROPERTY ImplementsContactBook
PROPERTY RefusedOnlyIfRaced
PROPERTY AuditMatchesCommit
PROPERTY OptOutIsKept
PROPERTY EveryRequestEnds
