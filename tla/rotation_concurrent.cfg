SPECIFICATION Spec
CONSTANTS
    k0 = k0  k1 = k1  k2 = k2  k3 = k3  k4 = k4  k5 = k5  k6 = k6
    Key = {k0, k1, k2}
    NoKey = NoKey
    Unnameable = {}
    OddId = {}
    maxStrandedRevokes = 1
    Rotators = {w1, w2}
    Manual = {w1}
    Retriers = {t1}
    Editors = {}
    Provider = {"bearer"}
    RoleOf <- MCRoleOf
    SchemeOf <- MCSchemeOf
    HomeOf <- BearerHome
    Fault = {"no_id", "revoke", "crash"}
    rotationLogCASAttempts = 2
SYMMETRY KeySymmetry
INVARIANTS CredentialInUseIsLive QueueNamesOnlyDisplacedKeys
PROPERTY ImplementsCredential
CHECK_DEADLOCK TRUE
