\* The same inputs, one answer and one delivery.
SPECIFICATION QuarterSpec
CONSTANTS
    Answers <- MCAnswers
    Uploads <- MCUploads
    Quotas <- MCQuotas
    Today = 2
    default_start = "next_monday"
    max_attempts = 1
    MaxTries = 1
    DIMENSIONS = {"work", "social", "unclassified"}
    window_weeks = 3
INVARIANT InsideItsWindow
\* The instance ends when the plan is stored or given up.
CHECK_DEADLOCK FALSE
