---------------------------- MODULE Credential ----------------------------
(* What rotating a credential promises, whatever the mechanism: there is    *)
(* always exactly one credential in use, it always authenticates, it is     *)
(* only ever replaced by one that was never in use before, and a credential *)
(* stops authenticating only after it has been replaced.                    *)
CONSTANT Key

VARIABLES
    value,  \* the credential in use
    live,   \* credentials that authenticate
    used    \* credentials that are or were in use

vars == <<value, live, used>>

Init ==
    \E k \in Key :
        /\ value = k
        /\ live = {k}
        /\ used = {k}

(* A new credential is issued; it may be stored later, or never. *)
Issue(k) ==
    /\ k \notin used
    /\ live' = live \cup {k}
    /\ UNCHANGED <<value, used>>

(* A credential that was never in use takes over. *)
Adopt(k) ==
    /\ k \notin used
    /\ value' = k
    /\ live' = live \cup {k}
    /\ used' = used \cup {k}

(* A credential that was replaced is revoked. *)
Retire(k) ==
    /\ k \in used \ {value}
    /\ live' = live \ {k}
    /\ UNCHANGED <<value, used>>

Next == \E k \in Key : Issue(k) \/ Adopt(k) \/ Retire(k)

Spec == Init /\ [][Next]_vars
============================================================================
