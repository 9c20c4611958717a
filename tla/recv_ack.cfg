SPECIFICATION FairSpec
CONSTANTS
    Numbers = {1, 2, 3, 4}
    Limit = 2
    MaxRounds = 1
    Orders = {TRUE, FALSE}
    Modes = {"wait", "poll"}
    MaxCrashes = 2
INVARIANTS NoneLost AckedWasShown ShownOnce
PROPERTIES EventuallyAcked
CHECK_DEADLOCK FALSE
