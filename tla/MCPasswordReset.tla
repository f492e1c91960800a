-------------------------- MODULE MCPasswordReset ---------------------------
(* Small instances of PasswordReset.                                       *)
EXTENDS PasswordReset

CONSTANTS q1, q2, q3

First  == {q1}
FirstAndSecond == {q1, q2}
SecondAndThird == {q2, q3}
=============================================================================
