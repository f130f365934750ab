\* No repeated delivery and no job timeout, one status request at a time.
SPECIFICATION FairSpec
CONSTANTS
    MaxRows = 3
    MaxTries = 2
    Writer = {w1, w2}
    w1 = w1
    w2 = w2
    Mover = {m1}
    m1 = m1
    Faults = {"lost_enqueue", "raise"}
PROPERTIES KeepsPromise GenerationEnds
CHECK_DEADLOCK FALSE
