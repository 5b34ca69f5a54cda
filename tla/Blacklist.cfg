SPECIFICATION FairSpec
CONSTANTS
    a1 = a1
    a2 = a2
    a3 = a3
    c1 = c1
    c2 = c2
    Addrs <- MCAddrs
    Conns <- MCConns
    From <- MCFrom
    None = None
    FreeStrikes = 1
    InstantErrorThreshold = 1
    InitialBlock = 1
    Multiplier = 3
    MaxBlock = 3
    StrikeResetAfter = 1
    MaxTrackedAddrs = 2
    MaxStrikes = 3
INVARIANTS TypeOK
PROPERTIES LedgerSpec BlockKept RecentlyUsedKept StopIsFinal BlockedEventuallyFree DecayedEventuallyForgotten
CHECK_DEADLOCK FALSE
