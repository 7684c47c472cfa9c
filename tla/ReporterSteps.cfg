SPECIFICATION Spec
CONSTANTS
    NumSteps = 2
    Keys = {}
    LongKeys = {}
    LongValues = {}
    StepResults = {"success", "failure"}
    JobResults = {"failure"}
    MaxRows = 5
    MaxAttempts = 1
    MaxFaults = 0
    LossyServer = FALSE
    LateCalls = FALSE
INVARIANTS
    TypeOK
    StepLogs
    CloseDelivers
PROPERTIES
    StateForward
