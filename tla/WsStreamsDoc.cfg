SPECIFICATION FairSpec
CONSTANTS
    Reqs = {r1}
    Ids = {i1}
    Evolvers = {}
    None = None
    Reader = Reader
    SerialEvolve = TRUE
    Ops = {"open"}
    SequentialClient = TRUE
PROPERTIES AllStreamsClosed
CHECK_DEADLOCK FALSE
