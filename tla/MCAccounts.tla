----------------------------- MODULE MCAccounts -----------------------------
(* Small instances of Accounts.                                            *)
EXTENDS Accounts, TLC

CONSTANTS u1, u2, r1, q1, q2

TwoUsers    == {u1, u2}
OneRole     == {r1}
TwoRequests == {q1, q2}

(* Users and requests are interchangeable.                                 *)
Symmetry == Permutations(TwoUsers) \cup Permutations(TwoRequests)

(* At most one of the users has a second factor at the same time: requests *)
(* read the factors of their own user only.                                *)
OneEnrolled == \E u \in Users : factors[u] = {}
=============================================================================
