SPECIFICATION Spec
CONSTANTS
    k1 = k1  k2 = k2  k3 = k3
    e1 = e1  e2 = e2  n1 = n1  n2 = n2
    Keys = {k1, k2, k3}
    FirstKey = k1
    NoKey = NoKey
    Entries = {e1, e2}
    ScopeOf <- OneScope
    Labels = {n1, n2}
    Stores <- MCStores
    Moves = {"rotate", "remove", "mistype", "override", "backfill_fails"}
    MaxWrites = 2
SYMMETRY NewKeys
INVARIANTS NothingOrphaned RemovalAdviceIsSafe
PROPERTIES UnreadableIsKept NamesStayDistinct
