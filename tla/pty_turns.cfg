SPECIFICATION FairSpec
CONSTANTS
    Last = 4
    Typable = {1, 2, 4}
    MaxQueue = 2
    MaxRestarts = 1
    MaxExits = 2
    MaxFails = 1
    None = None
INVARIANTS OneTurnAtATime TurnWatched
PROPERTIES EventuallyClosed
CHECK_DEADLOCK FALSE
