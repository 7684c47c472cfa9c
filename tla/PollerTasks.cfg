SPECIFICATION FairSpec
CONSTANTS
    Workers = {w1, w2}
    Tasks = {t1, t2}
    MaxVersion = 3
INVARIANTS
    TypeOK
    NoHiddenTask
    NothingLeftRunning
    OneTask
PROPERTIES
    ImplementsService
    TasksTaken
    SignalEnds
    OnceEnds
