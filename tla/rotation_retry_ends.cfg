SPECIFICATION FairSpec
CONSTANTS
    k0 = k0  k1 = k1  k2 = k2  k3 = k3  k4 = k4  k5 = k5  k6 = k6
    Key = {k0, k1}
    NoKey = NoKey
    Unnameable = {}
    OddId = {}
    maxStrandedRevokes = 1
    Rotators = {w1}
    Manual = {}
    Retriers = {t1}
    Editors = {e1}
    Provider = {"bearer", "unknown"}
    RoleOf <- MCRoleOf
    SchemeOf <- MCSchemeOf
    HomeOf <- BearerHome
    Fault = {"revoke", "write_back", "record"}
    rotationLogCASAttempts = 2
INVARIANT TypeOK
PROPERTY RetryEnds
CHECK_DEADLOCK TRUE
