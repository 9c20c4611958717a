SPECIFICATION LeaseFairSpec
CONSTANTS
    w1 = w1 w2 = w2 r1 = r1 r2 = r2
    daemon = daemon p1 = p1 p2 = p2
    In <- InOf
    NoFile = NoFile
    Receivers = {w1, w2, r1, r2}
    Processes = {daemon, p1, p2}
    Mortal = {daemon, p1}
    Openings <- AnyWindows
INVARIANTS OneReceiver
PROPERTIES LeaseTakenOver
