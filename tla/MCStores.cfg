\* Both stores, every part of the ports, three calls.
SPECIFICATION Spec
CONSTANTS
    Parts = {"identity", "intake", "direction", "catalog", "planning", "review"}
    Words = {w, v}
    System = w
    Vocabulary = {v}
    Numbers = {0, 1}
    MaxId = 50
    MaxOps = 3
    None = none
INVARIANTS StoresInv  NothingIsHidden
PROPERTIES HypothesesAreKept
CHECK_DEADLOCK FALSE
