SPECIFICATION FairSpec
CONSTANTS
    Mutators = {m1, m2}
    NoOne = NoOne
PROPERTIES
    GcThreadNotified
