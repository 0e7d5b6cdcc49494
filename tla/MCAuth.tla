------------------------------- MODULE MCAuth -------------------------------
(* Instances of Auth for TLC. *)
EXTENDS Auth, TLC

CONSTANTS c1, c2

OneBatch == {{c1, c2}}

(* The ways a password changes; what else ends a session or a key; the       *)
(* second factor; and the lockout of it while counts fail.                   *)
PasswordDoors == {"legacy", "change", "reset", "initial", "disable", "half_revoked"}
SessionDoors == {"disable", "half_revoked", "keys", "lapse", "logout"}
FactorDoors == {"totp", "policy", "unrecorded", "window"}
LockoutDoors == {"totp", "uncounted"}
AllScenarios == {PasswordDoors, SessionDoors, FactorDoors, LockoutDoors}

Symmetry == Permutations(Requests) \cup Permutations(Passwords)
            \cup Permutations(Sessions) \cup Permutations({c1, c2})
=============================================================================
