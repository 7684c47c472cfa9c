SPECIFICATION Spec
CONSTANTS
    Workers = {w1, w2, w3}
    Tasks = {t1, t2}
    IdTasks = {t2}
    MaxGiven = 4
SYMMETRY Symmetric
INVARIANTS
    TypeOK
    RunsOnceAtATime
    OwnTokenAlone
