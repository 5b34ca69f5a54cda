SPECIFICATION Spec
CONSTANTS
    Reqs = {r1, r2}
    Ids = {i1}
    Evolvers = {}
    None = None
    Reader = Reader
    SerialEvolve = TRUE
    Ops = {"open", "query"}
    SequentialClient = FALSE
PROPERTIES OpenBeforeUse
CHECK_DEADLOCK FALSE
