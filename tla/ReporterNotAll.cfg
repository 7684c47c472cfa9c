SPECIFICATION Spec
CONSTANTS
    NumSteps = 0
    Keys = {}
    LongKeys = {}
    LongValues = {}
    StepResults = {"success"}
    JobResults = {"success"}
    MaxRows = 2
    MaxAttempts = 2
    MaxFaults = 0
    LossyServer = FALSE
    LateCalls = FALSE
PROPERTIES
    NotAllMeansRowsLeft
