\* Four rows, pages of one or two.
CONSTANTS
    Nil = Nil
    Rows <- MCRows
    Asked = {0, 3}
    DefaultLimit = 1
    MaxLimit = 2
    MaxTime = 2
    MaxChanges = 3
SPECIFICATION ListFairSpec
CHECK_DEADLOCK FALSE
INVARIANTS EveryRowOnce
PROPERTIES WalkEnds
