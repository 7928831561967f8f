\* Results of up to five rows in batches of two: none, full, short and single batches.
SPECIFICATION FairSpec
CONSTANTS
    MaxRows = 5
    BatchSize = 2
CHECK_DEADLOCK FALSE
INVARIANTS
    OneAtATime
    OutcomeTrue
PROPERTIES
    ReleasedInTheEnd
