-------------------------- MODULE MCEmailTwoFactor --------------------------
(* Small instances of EmailTwoFactor.                                      *)
EXTENDS EmailTwoFactor, TLC

CONSTANTS q1, q2

First        == {q1}
Both         == {q1, q2}
Interchanged == Permutations(Both)

ThreeIfCalm == [calmly \in BOOLEAN |-> IF calmly THEN 3 ELSE 0]
=============================================================================
