SPECIFICATION FairSpec
CONSTANTS
    Reqs = {r1}
    Ids = {i1}
    Evolvers = {}
    None = None
    Reader = Reader
    SerialEvolve = TRUE
    Ops = {"open", "query"}
    SequentialClient = TRUE
PROPERTIES CloseReturns
CHECK_DEADLOCK FALSE
