SPECIFICATION Spec
CONSTANTS
    k0 = k0  k1 = k1  k2 = k2  k3 = k3  k4 = k4  k5 = k5  k6 = k6
    Key = {k0, k1, k2, k3, k4, k5, k6}
    NoKey = NoKey
    Unnameable = {k1}
    OddId = {k4}
    maxStrandedRevokes = 1
    Rotators = {w1}
    Manual = {}
    Retriers = {t1}
    Editors = {}
    Provider = {"b2", "basic", "keep"}
    RoleOf <- MCRoleOf
    SchemeOf <- MCSchemeOf
    HomeOf <- PairHome
    Fault = {"mint", "no_id", "encrypt", "cas", "revoke", "write_back", "egress", "decrypt", "panic", "unreadable"}
    rotationLogCASAttempts = 2
INVARIANT MismatchedPairIsAlarmed
CHECK_DEADLOCK TRUE
