SPECIFICATION FairSpec
CONSTANTS
    Mutators = {m1, m2}
    Collectors = {g1}
    Stoppers = {m1, g1}
    Runtime = Runtime
    NoOne = NoOne
    Width = 4
INVARIANTS
    NoLostWakeup
    StoppedWorldIsQuiet
    NeverFatal
    CountIsExact
    DetachNotInterrupted
PROPERTIES
    ListFrozen
    ImplementsWorldControl
    StopCompletes
    BlockedResume
