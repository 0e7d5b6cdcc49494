SPECIFICATION Spec
CONSTANTS
    k0 = k0  k1 = k1  k2 = k2  k3 = k3  k4 = k4  k5 = k5  k6 = k6
    Key = {k0, k1, k2, k3, k4, k5}
    NoKey = NoKey
    Unnameable = {}
    OddId = {}
    maxStrandedRevokes = 1
    Rotators = {w1}
    Manual = {}
    Retriers = {t1}
    Editors = {}
    Provider = {"careful", "b2"}
    RoleOf <- MCRoleOf
    SchemeOf <- MCSchemeOf
    HomeOf <- SerialHome
    Fault = {"mint", "no_id", "cas", "revoke", "write_back", "delivery"}
    rotationLogCASAttempts = 2
SYMMETRY SerialSymmetry
INVARIANT NeverForgotten
CHECK_DEADLOCK TRUE
