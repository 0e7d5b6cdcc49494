------------------------------- MODULE MCTeam -------------------------------
(* Instances of Team for TLC. *)
EXTENDS Team, TLC

CONSTANTS u1, u2, u3, e1, e2, e3

(* Everyone has an address of his own. *)
OwnAddress == [u \in Users |-> IF u = u1 THEN e1 ELSE IF u = u2 THEN e2 ELSE e3]
(* u3 is u2's address come back after a deletion. *)
SharedAddress == [u \in Users |-> IF u = u1 THEN e1 ELSE e2]

RequestSymmetry == Permutations(Requests)
=============================================================================
