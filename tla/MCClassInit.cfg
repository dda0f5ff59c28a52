SPECIFICATION FairSpec
CONSTANTS
    Threads = {t1, t2}
    Classes = {"B", "C", "D", "E", "F", "P"}
    Interfaces = {"D", "P"}
    Defaults = {"D"}
    Supers <- MCSupers
    Missing = "Missing"
    HasClinit = {"B", "C", "D"}
    Uses <- MCUses
    Throwers = {"B", "D"}
    MaxUses = 2
    NoOne = NoOne
INVARIANTS
    ClinitOnce
    SupersReady
    FailureInFamily
PROPERTIES
    ReadyOnReturn
    RequestEnds
