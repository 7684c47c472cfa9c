SPECIFICATION Spec
CONSTANTS
    NumSteps = 1
    Keys = {k1}
    LongKeys = {}
    LongValues = {}
    StepResults = {"success"}
    JobResults = {"success"}
    MaxRows = 2
    MaxAttempts = 2
    MaxFaults = 2
    LossyServer = TRUE
    LateCalls = TRUE
INVARIANTS
    LogIntact
    NeverLost
    SentIsStored
    CloseDelivers
PROPERTIES
    StateForward
    ImplementsDelivery
