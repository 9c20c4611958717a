SPECIFICATION LoopFairSpec
CONSTANTS
    Kinds = {"runner", "ucode", "report", "bridge"}
    Total = 4
    Actionable = {1, 2, 4}
    MaxFaults = 2
INVARIANTS Explained
PROPERTIES ActedInOrder EventuallySettled
CHECK_DEADLOCK FALSE
