CONSTANTS
    NumEvents = 2
    Events <- MCEvents
    RetryBatchSize = 1
    MaxRestarts = 1
SPECIFICATION FairSpec
INVARIANTS AcceptedNotLost BacklogCounted LossLatched
PROPERTIES BacklogDrains
CHECK_DEADLOCK FALSE
