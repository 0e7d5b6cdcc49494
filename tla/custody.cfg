SPECIFICATION CapabilitySpec
CONSTANTS
    u1 = u1  u2 = u2  u3 = u3
    e1 = e1  e2 = e2
    h1 = h1  h2 = h2  p1 = p1
    Nobody = Nobody
    Users = {u1, u2, u3}
    Founders = {u1}
    Collections = {c1}
    Entries = {e1, e2}
    Hosts = {h1, h2}
    Providers = {p1}
    ApiHost <- OneApiHost
    Services = {"manual", "datadog"}
    Vendor <- SiteVendor
    Steerable = {"datadog"}
    Purges = {q1}
    Scenarios <- MCScenarios
    Tokens = {k1}
    Requests = {r1, r2}
    StallsPastMidnight = FALSE
    Unreadable = TRUE
SYMMETRY Symmetry
INVARIANTS DirectedOnlyByTheEntitled DiagnosisIsTotal IndexMatchesScope
INVARIANTS SingleUse TokenNeverBeatsGrant SentOnlyWhereDirected
PROPERTY ClaimNeverRearms
CHECK_DEADLOCK FALSE
