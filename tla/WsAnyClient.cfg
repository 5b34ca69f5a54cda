SPECIFICATION Spec
CONSTANTS
    Reqs = {r1, r2, r3}
    Ids = {i1}
    Evolvers = {e1, e2}
    None = None
    Reader = Reader
    SerialEvolve = TRUE
    Ops = {"open", "assign", "close", "query", "peek", "openCursor", "closeCursor", "fetchCursor"}
    SequentialClient = FALSE
SYMMETRY Symmetry
INVARIANTS TypeOK ExclusiveQueries SupersededIsOlder NoQueryAfterCancel LockOrder
PROPERTIES CloseNeverCutsQuery
CHECK_DEADLOCK FALSE
