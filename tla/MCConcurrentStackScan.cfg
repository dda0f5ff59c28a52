SPECIFICATION FairSpec
CONSTANTS
    Mutators = {m1, m2, m3}
    NoOne = NoOne
INVARIANTS
    NumIsExact
    ScannedBeforeRun
    StacksComplete
    NoUseAfterFree
PROPERTIES
    BarrierPasses
