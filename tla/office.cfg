\* Two sessions on three requests of one tenant's staff.
SPECIFICATION Spec
CONSTANTS
    Workers = {w1, w2}
    MaxRequests = 3
    t1 = t1
    t2 = t2
    d1 = d1
    d2 = d2
    e1 = e1
    e2 = e2
    p1 = p1
    k1 = k1
    v1 = v1
    v2 = v2
    Tenants = {t1, t2}
    Docs = {d1, d2}
    Emails = {e1, e2}
    Names = {n1, n2}
    RuleKeys = {k1}
    SettingKeys = {s1}
    Values = {v1, v2}
    Allowed <- MCAllowed
    NoValue = NoValue
    InitClients <- MCClients
    Roles = {"admin", "customer"}
    Proposals = {p1}
    ClientOf <- MCClientOf
    InitUsers <- MCUsers
    TicksPerSecond = 2
    MaxNow = 3
SYMMETRY SessionSymmetry
INVARIANTS TypeOK OneCustomerPerClient TrailTellsRows SignOutCuts
    TokensAreUsedOnce
CHECK_DEADLOCK FALSE
