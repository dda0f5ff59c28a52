SPECIFICATION FairSpec
CONSTANTS
    Refs = {r1, r2}
    Markers = {k1, k2}
    Null = Null
INVARIANTS
    NoReferenceLost
PROPERTIES
    ClearedIsEnqueued
    ImplementsReferenceLifecycle
