\* Five users, whole pages of 1, 2 and 3 and sizes that are no whole number.
SPECIFICATION FairListSpec
CONSTANTS
    Account = {1, 2, 3, 4, 5}
    Unit = 10
    PageSizes = {10, 14, 15, 20, 30}
INVARIANTS
    PagesFaithful
PROPERTIES
    WalkEnds
