SPECIFICATION WalkSpec
CONSTANTS
    Times = {1, 2, 3, 4, 5}
    page_size = 2
    MaxChanges = 4
INVARIANTS SkipsExplained RepeatsExplained
CHECK_DEADLOCK FALSE
