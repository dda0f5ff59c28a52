SPECIFICATION FairSpec
CONSTANTS
    NumBlocks = 3
    MaxSucc = 2
INVARIANTS
    DominatorsExact
    FrontiersExact
PROPERTIES
    EdgesSplit
    AnalysisEnds
