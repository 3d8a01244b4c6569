SPECIFICATION MCSpec
CONSTANTS
    zero = zero
    epochlink = epochlink
    G = G
    A = A
    k1 = k1
    k2 = k2
    p1 = p1
    p2 = p2
    u1 = u1
    c1 = c1
    c2 = c2
    Connection = {k1, k2}
    Pull = {p1, p2}
    WalletAccount = {w1}
    Caller = {u1, u2}
    RetryLimit = 2
    IoThreads = 1
    RunsLimit = 2
    Nobody = nobody
    Scenarios = {"apart"}
CHECK_DEADLOCK FALSE
INVARIANT
    LazyFindsDependencies
