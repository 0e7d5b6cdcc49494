SPECIFICATION Spec
CONSTANTS
    u1 = u1  u2 = u2  u3 = u3
    e1 = e1  e2 = e2  e3 = e3
    Users = {u1, u2, u3}
    Emails = {e1, e2}
    EmailOf <- SharedAddress
    Founders = {}
    Collections = {c1}
    MemberRoles = {"manager"}
    Policies = {"standard"}
    Codes = {}
    Requests = {r1, r2}
    Doors = {"register", "create_user", "role", "disable", "delete_user",
             "create_collection", "policy", "delete_collection", "accept",
             "decline", "add_member", "rescind", "remove_member"}
    PrivateListener = FALSE
    SeatErrors = TRUE
SYMMETRY RequestSymmetry
INVARIANTS AdminRemains SetupOnce
PROPERTY Consent
