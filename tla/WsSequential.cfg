SPECIFICATION FairSpec
CONSTANTS
    Reqs = {r1, r2, r3}
    Ids = {i1}
    Evolvers = {e1}
    None = None
    Reader = Reader
    SerialEvolve = TRUE
    Ops = {"open", "close", "query"}
    SequentialClient = TRUE
INVARIANTS NoOrphan
PROPERTIES OnlySupersededRemoved RequestsFinish EvolveReturns CloseReturnsIfRegistered SessionEnds
CHECK_DEADLOCK FALSE
