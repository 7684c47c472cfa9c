SPECIFICATION Spec
CONSTANTS
    Words <- MCWords
    Flags <- MCFlags
    LabelLists <- MCLabelLists
    DefaultLabels <- MCDefaultLabels
    DockerSetups <- MCDockerSetups
    MaxAttempts = 2
    MaxStarts = 0
    MaxFaults = 0
INVARIANTS
    AttemptsBounded
