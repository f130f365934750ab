\* Eight templates, uploads of up to two events, a quota or none; one more answer of the
\* model, one repeated delivery.
SPECIFICATION QuarterSpec
CONSTANTS
    Answers <- MCAnswers
    Uploads <- MCUploads
    Quotas <- MCQuotas
    Today = 2
    default_start = "next_monday"
    max_attempts = 2
    MaxTries = 2
    DIMENSIONS = {"work", "social", "unclassified"}
    window_weeks = 3
INVARIANTS PlacedWell QuotaInv DiffIsFaithful AvoidanceIsRetreat 
\* The instance ends when the plan is stored or given up.
CHECK_DEADLOCK FALSE
