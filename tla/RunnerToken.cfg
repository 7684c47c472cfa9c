SPECIFICATION Spec
CONSTANTS
    Workers = {w1, w2}
    Tasks = {t1, t2}
    IdTasks = {t2}
    MaxGiven = 2
INVARIANTS
    TaskToken
