---------------------------- MODULE MCRotation ----------------------------
(* Instances of Rotation for TLC.  A provider's name says its role or the   *)
(* revoke scheme of its adapter.                                            *)
EXTENDS Rotation, TLC

CONSTANTS k0, k1, k2, k3, k4, k5, k6

MCRoleOf ==
    [p \in Provider |->
        IF p \in {"none", "reminder", "unknown"} THEN p ELSE "auto"]

MCSchemeOf == [p \in Provider |-> IF p \in Scheme THEN p ELSE "keep"]

(* Every key belongs to one provider, or k3 is what a pasted or locally     *)
(* generated value is, or several providers share the keys out.             *)
BearerHome == [k \in Key |-> "bearer"]
PastedHome == [k \in Key |-> IF k = k3 THEN "none" ELSE "bearer"]
SerialHome == [k \in Key |-> IF k \in {k0, k1, k2, k3} THEN "careful" ELSE "b2"]
PairHome == [k \in Key |-> IF k \in {k0, k1, k2} THEN "b2"
                           ELSE IF k \in {k3, k4, k5} THEN "basic" ELSE "keep"]

KeySymmetry == Permutations(Key)
BearerSymmetry == Permutations(Key \ {k3})
SerialSymmetry == Permutations({k0, k1, k2, k3})
============================================================================
