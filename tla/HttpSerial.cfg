SPECIFICATION Spec
CONSTANTS
    Requests = {r1, r2, r3}
    None = None
    TTL = 1
    MaxSteps = 1
    SerialClients = TRUE
    PromptRequests = TRUE
    MayShutdown = FALSE
INVARIANTS OneBatonPerStream DeliveredBatonsWork
PROPERTIES LeaseSpec
CHECK_DEADLOCK FALSE
