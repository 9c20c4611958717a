SPECIFICATION Spec
CONSTANTS
    a1 = a1 a2 = a2 a3 = a3 t1 = t1
    Agents = {a1, a2, a3}
    Tty <- OneTerminal
    NoTty = NoTty
    Headless = {a3}
    Resumable = {a1}
    Messages = {m1}
    MaxTime = 3
    MaxLaunches <- OneReturns
    MaxNick = 2
    Absent = Absent
INVARIANTS JoinedIsKnown NicknamesUnique TakeoverKeepsMessages
PROPERTIES ActivityNeverOlder
CHECK_DEADLOCK FALSE
