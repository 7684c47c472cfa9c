SPECIFICATION Spec
CONSTANTS
    Words <- SmallWords
    Token <- NoToken
    RuntimeToken <- SmallToken
    SecretSets <- SmallSecrets
    Messages <- SmallMessages
    MaxLines = 4
INVARIANTS
    TypeOK
    ValuesHidden
    OthersShown
    SilentWhileStopped
    ResumesOnToken
CHECK_DEADLOCK FALSE
