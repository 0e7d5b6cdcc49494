SPECIFICATION Spec
CONSTANTS
    k0 = k0  k1 = k1  k2 = k2  k3 = k3  k4 = k4  k5 = k5  k6 = k6
    Key = {k0, k1, k2, k3}
    NoKey = NoKey
    Unnameable = {}
    OddId = {}
    maxStrandedRevokes = 1
    Rotators = {w1}
    Manual = {w1}
    Retriers = {}
    Editors = {e1}
    Provider = {"bearer", "none", "in_place", "unknown"}
    RoleOf <- MCRoleOf
    SchemeOf <- MCSchemeOf
    HomeOf <- PastedHome
    Fault = {"revoke", "stale_form"}
    rotationLogCASAttempts = 2
SYMMETRY BearerSymmetry
PROPERTIES AlarmSettlesOnlyItsKey QueueForgetsNothing
CHECK_DEADLOCK TRUE
