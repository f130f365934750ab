\* Two requests appending, one moving plans, every fault, one delivery repeated.
SPECIFICATION Spec
CONSTANTS
    MaxRows = 2
    MaxTries = 2
    Writer = {w1, w2}
    w1 = w1
    w2 = w2
    Mover = {m1}
    m1 = m1
    Faults = {"crash", "timeout", "lost_enqueue", "raise", "raise_unhandled"}
SYMMETRY InterchangeableWriters
INVARIANTS VersionsAreTheChain ProposedIsWhole DoneIsOfOnePiece PlanInv
PROPERTY MovesAsAllowed
\* The bounded instance ends when every hypothesis has been written.
CHECK_DEADLOCK FALSE
