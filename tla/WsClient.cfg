SPECIFICATION FairSpec
CONSTANTS
    MaxCalls = 2
    None = None
    MaxRetries = 2
    MaxEvolves = 3
    Expiring <- MCExpiring
INVARIANTS TypeOK OneAnswer AtMostOnce NoStreamLeak
PROPERTIES CallsReturn
CHECK_DEADLOCK FALSE
