SPECIFICATION Spec
CONSTANTS
    c1 = c1  c2 = c2
    Passwords = {p1, p2}
    Unknown = Unknown
    Secrets = {a1}
    Batches <- OneBatch
    None = None
    Sessions = {s1, s2}
    ApiKeys = {k1}
    Requests = {r1, r2}
    Scenarios <- AllScenarios
    maxFailures = 1
    recoveryCASAttempts = 2
    MaxUncounted = 1
    MaxTime = 2
SYMMETRY Symmetry
INVARIANTS FactorSpentOnce LockoutBounded CutStaysDead EnrolledLoginPays
PROPERTIES FreshSessionWorks ChosenPasswordIsKept
CHECK_DEADLOCK FALSE
