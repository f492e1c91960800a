----------------------------- MODULE MCContacts -----------------------------
(* A small instance of Contacts.  Contacts are interchangeable and nothing *)
(* touches one that is deleted from the start, so it begins with the books *)
(* that list primary before plain before absent contacts.                  *)
EXTENDS Contacts, Naturals

CONSTANTS c1, c2, c3, q1, q2, q3

ThreeContacts == {c1, c2, c3}
ThreeRequests == {q1, q2, q3}

(* One of the requests says that the contact must not be used.             *)
OneOptsOut == [q \in ThreeRequests |-> IF q = q1 THEN FALSE ELSE Omitted]

Rank == [s \in Statuses |-> CASE s = "primary" -> 1
                              [] s = "plain"   -> 2
                              [] s = "absent"  -> 3
                              [] s = "deleted" -> 4]

MCInit ==
  /\ Init
  /\ \A c \in Contacts : status[c] # "deleted"
  /\ optedOut = {}
  /\ Rank[status[c1]] <= Rank[status[c2]] /\ Rank[status[c2]] <= Rank[status[c3]]

MCSpec == MCInit /\ [][Next]_vars /\ Fairness
=============================================================================
