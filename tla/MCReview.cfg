\* Two reviews of one hypothesis, one of them perhaps answered while the other is
\* computed; every fault, one delivery repeated.
SPECIFICATION FairSpec
CONSTANTS
    MaxReviews = 2
    MaxVersions = 2
    Reviewable = {1}
    MaxTries = 2
    Opener = {o1}
    Decider = {d1}
    o1 = o1
    d1 = d1
    Faults = {"crash", "timeout", "lost_enqueue", "raise", "raise_unhandled"}
INVARIANTS ReviewInv 
PROPERTIES AnswerStands QueuedReviewEnds
\* The bounded instance ends when every review has been answered.
CHECK_DEADLOCK FALSE
