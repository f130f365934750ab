\* Requests one at a time, one polling client; the worker stops once, a run fails
\* when the catalogue is empty; no job timeout.
SPECIFICATION FairSpec
CONSTANTS
    MaxRuns = 2
    MaxTries = 2
    Dimension = {work}
    Base = {work}
    work = work
    Code = {s1}
    s1 = s1
    Api = {a1}
    a1 = a1
    Reader = {v1}
    v1 = v1
    Faults = {"crash"}
INVARIANTS  DirectionInv
PROPERTIES KeepsPromise QueuedRunEnds
