\* One export, one change and one removal; every fault, one delivery repeated.
SPECIFICATION FairSpec
CONSTANTS
    MaxTasks = 2
    Rest = {1}
    Touched = {2}
    MaxTries = 2
    MaxCopies = 2
    Requests = {r1}
    Unexports = {u1}
    Changes = {c1}
    r1 = r1
    u1 = u1
    c1 = c1
    Patient = TRUE
    Faults = {"crash", "timeout", "lost_enqueue", "raise", "raise_unhandled"}
INVARIANTS  CalendarInv RecordedCalendarIsWhole RemovedIsForgotten
PROPERTY PushedOrReported
\* The bounded instance ends when every call has been made.
CHECK_DEADLOCK FALSE
