SPECIFICATION Spec
CONSTANTS
    u1 = u1  u2 = u2  u3 = u3
    e1 = e1  e2 = e2  e3 = e3
    Users = {u1, u2, u3}
    Emails = {e1, e2}
    EmailOf <- SharedAddress
    Founders = {u1}
    Collections = {c1}
    MemberRoles = {"manager", "viewer"}
    Policies = {"standard", "sensitive_private"}
    Codes = {k1, k2}
    Requests = {r1, r2}
    Doors = {"delete_user", "invite", "revoke_invite", "redeem", "create_collection", "policy",
             "delete_collection", "accept", "decline", "add_member", "rescind",
             "remove_member"}
    PrivateListener = TRUE
    SeatErrors = FALSE
SYMMETRY RequestSymmetry
INVARIANT TypeOK
INVARIANT PendingMatchesSeat
INVARIANT SeatIsRedeemable
INVARIANT OneAccountPerCode
PROPERTIES LastManagerStays ProtectedNeedsPrivate
