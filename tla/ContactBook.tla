---------------------------- MODULE ContactBook -----------------------------
(***************************************************************************)
(* What the contact endpoints promise for one user and one contact type,   *)
(* without transactions: every successful request is one change of the     *)
(* book, a new primary contact takes the place of the old one in that same *)
(* change, and a deleted contact stays deleted.                            *)
(***************************************************************************)
CONSTANT Contacts

VARIABLE status

Statuses == {"absent", "plain", "primary", "deleted"}
Live     == {"plain", "primary"}

(* Any book earlier requests can have left.                                *)
Init ==
  /\ status \in [Contacts -> Statuses]
  /\ \A c, d \in Contacts : status[c] = "primary" /\ status[d] = "primary" => c = d

Create(c) ==
  /\ status[c] = "absent"
  /\ status' = [status EXCEPT ![c] = "plain"]

(* Create or update a contact as the primary one.                          *)
MakePrimary(c) ==
  /\ status[c] # "deleted"
  /\ status' = [d \in Contacts |-> IF d = c THEN "primary"
                                   ELSE IF status[d] = "primary" THEN "plain"
                                   ELSE status[d]]

Demote(c) ==
  /\ status[c] = "primary"
  /\ status' = [status EXCEPT ![c] = "plain"]

Delete(c) ==
  /\ status[c] \in Live
  /\ status' = [status EXCEPT ![c] = "deleted"]

Next == \E c \in Contacts : Create(c) \/ MakePrimary(c) \/ Demote(c) \/ Delete(c)

Spec == Init /\ [][Next]_status
=============================================================================
