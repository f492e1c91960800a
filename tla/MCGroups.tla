------------------------------ MODULE MCGroups ------------------------------
(* Small instances of Groups.                                              *)
EXTENDS Groups, TLC

CONSTANTS q1, q2

ThreeGroups == {1, 2, 3}
TwoKinds    == {<<1, "team">>, <<2, "board">>}
OneUser     == {1}
TwoRoles    == {"leader", "member"}
TwoRequests == {q1, q2}

(* Requests are interchangeable.                                           *)
Symmetry == Permutations(TwoRequests)

(* What is explored together: two requests about rows, and two about       *)
(* members, with two groups each; a walk through three groups beside one   *)
(* request.  Requests about members read no name and no type, and a walk   *)
(* reads neither is_active nor members.                                    *)
MembersTouched ==
  \/ departed # {}
  \/ \E g \in Groups, u \in Users : role[g][u] # NoRole
  \/ \E q \in Requests : call[q].op \in {"add", "remove"}

Walking == filter # NoWalk \/ status[3] # "absent"

Apart ==
  /\ MembersTouched => ~Walking /\ \A g \in Groups : kind[g] \in {NoKind, <<1, "team">>}
  /\ Walking =>
       /\ \A g \in Groups : status[g] # "inactive"
       /\ \A q \in Requests : call[q].active = Keep
       /\ Cardinality({q \in Requests : pc[q] # "idle"}) <= 1
=============================================================================
