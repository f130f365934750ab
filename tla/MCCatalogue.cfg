\* The catalogue alone, as its doc comments describe it.
SPECIFICATION Spec
CONSTANTS
    Parts = {"catalog"}
    Words = {w, v}
    System = w
    Vocabulary = {v}
    Numbers = {0, 1}
    MaxId = 50
    MaxOps = 2
    None = none
PROPERTIES ShippedStayShipped
CHECK_DEADLOCK FALSE
