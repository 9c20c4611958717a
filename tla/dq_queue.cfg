SPECIFICATION FairSpec
CONSTANTS
    e1 = e1
    e2 = e2
    u1 = u1
    Procs = {p1, p2}
    Mortal = {p1}
    Files = {f1, f2}
    Events = {e1, e2, u1}
    SeqOf <- MCSeqOf
    NoFile = NoFile
    Settings <- MCSettings
    MaxEffects = 4
INVARIANTS NoLoss EffectsExplained
PROPERTIES ClaimsInOrder ImplementsContract EventuallyFinished
CHECK_DEADLOCK FALSE
