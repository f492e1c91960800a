------------------------------- MODULE MCTotp -------------------------------
(* Small instances of Totp: two enrolments, two recovery codes each, two   *)
(* failures to a lock that lasts two ticks.                                *)
EXTENDS Totp, TLC

CONSTANTS r1, r2, s1, s2

OneRequest  == {r1}
TwoRequests == {r1, r2}
TwoSecrets  == {s1, s2}
OneSecret   == {s1}

(* Requests are interchangeable, and so are secrets; used for invariants.  *)
Symmetry == Permutations(TwoRequests) \cup Permutations(TwoSecrets)
=============================================================================
