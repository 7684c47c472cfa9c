SPECIFICATION Spec
CONSTANTS
    NumSteps = 0
    Keys = {k1}
    LongKeys = {}
    LongValues = {k1}
    StepResults = {"success"}
    JobResults = {"success"}
    MaxRows = 2
    MaxAttempts = 2
    MaxFaults = 0
    LossyServer = FALSE
    LateCalls = FALSE
INVARIANTS
    LongValuesIgnored
