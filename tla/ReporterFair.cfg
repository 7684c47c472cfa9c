SPECIFICATION FairSpec
CONSTANTS
    NumSteps = 1
    Keys = {}
    LongKeys = {}
    LongValues = {}
    StepResults = {"success"}
    JobResults = {"success"}
    MaxRows = 3
    MaxAttempts = 2
    MaxFaults = 1
    LossyServer = FALSE
    LateCalls = FALSE
PROPERTIES
    Ends
    CancelObserved
