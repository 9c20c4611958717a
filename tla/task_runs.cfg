SPECIFICATION Spec
CONSTANTS
    n1 = n1
    n2 = n2
    Nodes = {n1, n2}
    DependsOn <- Chain
    Commands = {c1}
    NoCommand = NoCommand
    NoNode = NoNode
    StopOps = {"cancel_task"}
    MaxLeases = 2
    MaxRuns = 3
    MaxPlans = 2
    MaxLog = 2
INVARIANTS Accounted NodesExplained OneRunPerCommand DependenciesRan
