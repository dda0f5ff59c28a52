SPECIFICATION Spec
CONSTANTS
    Requesters = {r1, r2}
    Blocking = {0}
    LiteBlocking = {7}
    NonBlocking = {5}
    MaxIndex = 3
PROPERTIES
    BlocksUntilCollected
