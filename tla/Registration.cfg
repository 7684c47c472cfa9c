SPECIFICATION FairSpec
CONSTANTS
    Words <- MCWords
    Flags <- MCFlags
    LabelLists <- MCLabelLists
    DefaultLabels <- MCDefaultLabels
    DockerSetups <- MCDockerSetups
    MaxAttempts = 2
    MaxStarts = 2
    MaxFaults = 2
INVARIANTS
    TypeOK
    ReadyToRegister
    NoLeak
    IdentityKept
    LabelsAgree
    EphemeralKept
    PlatformsServed
    MountIsChecked
PROPERTIES
    Recovers
