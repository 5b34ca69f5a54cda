SPECIFICATION FairSpec
CONSTANTS
    Requests = {r1, r2}
    None = None
    TTL = 1
    MaxSteps = 1
    SerialClients = TRUE
    PromptRequests = FALSE
    MayShutdown = TRUE
PROPERTIES ShutdownReleasesStreams
CHECK_DEADLOCK FALSE
