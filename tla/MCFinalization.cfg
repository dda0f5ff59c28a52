SPECIFICATION FairSpec
CONSTANTS
    Objs = {o1}
    Mutators = {m1, m2}
    NoOne = NoOne
INVARIANTS
    FinalizedOnce
    StopFinalizes
PROPERTIES
    RunFinalizationComplete
    FinalizationEnds
