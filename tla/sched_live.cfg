SPECIFICATION FairSpec
CONSTANTS
    s1 = s1 s2 = s2
    e1 = e1 e2 = e2 e3 = e3
    t1 = t1 t2 = t2 b1 = b1
    Subscribers = {s1, s2}
    Events = {e1, e2}
    To <- TwoAgents
    Injectable = {e1, e2}
    IdleGated = {e1, e2}
    Timers = {t1, t2}
    Triggers = {}
    Registrations = {"wrapper"}
    Hung = {s1}
    ForceAfter = 1
    BlockedGrace = 1
    RetryBase = 1
    RetryMax = 1
    AttemptCap = 1
    MaxRestarts = 0
    None = None
PROPERTIES EventuallyInjected
