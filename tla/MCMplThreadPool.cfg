SPECIFICATION FairSpec
CONSTANTS
    Workers = {w1, w2, w3}
    Tasks = {t1, t2}
    NoTask = NoTask
CHECK_DEADLOCK FALSE
INVARIANTS
    CountsExact
    AllWorkDone
PROPERTIES
    NoThreadLeftWaiting
