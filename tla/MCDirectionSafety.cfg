\* Two runs started by racing requests, every fault, one delivery repeated.
SPECIFICATION Spec
CONSTANTS
    MaxRuns = 2
    MaxTries = 2
    Dimension = {work, money}
    Base = {work}
    work = work
    money = money
    Code = {s1}
    s1 = s1
    Api = {a1, a2}
    a1 = a1
    a2 = a2
    Reader = {}
    Faults = {"crash", "timeout", "lost_enqueue", "raise", "raise_unhandled"}
SYMMETRY Interchangeable
INVARIANTS EvidenceIsSourced ReadyIsComplete
PROPERTIES MovesAlongTransitions EvidenceIsWrittenOnce
