SPECIFICATION FairSpec
CONSTANTS
    Requests = {r1, r2}
    None = None
    TTL = 1
    MaxSteps = 2
    SerialClients = FALSE
    PromptRequests = FALSE
    MayShutdown = TRUE
INVARIANTS TypeOK NoOrphan ExclusiveQueries RotationRetiresOldBaton
PROPERTIES CloseNeverCutsQuery RequestsFinish StreamsEventuallyClosed ShutdownCompletes
CHECK_DEADLOCK FALSE
