SPECIFICATION Spec
CONSTANTS
    s1 = s1 s2 = s2
    e1 = e1 e2 = e2 e3 = e3
    t1 = t1 t2 = t2 b1 = b1
    Subscribers = {s1}
    Events = {e1, e2, e3}
    To <- OneAgent
    Injectable = {e1, e2}
    IdleGated = {e1}
    Timers = {t1}
    Triggers = {b1}
    Registrations = {"wrapper", "inactive"}
    Hung = {}
    ForceAfter = 1
    BlockedGrace = 1
    RetryBase = 1
    RetryMax = 1
    AttemptCap = 2
    MaxRestarts = 1
    None = None
INVARIANTS OneInjection NothingStranded
