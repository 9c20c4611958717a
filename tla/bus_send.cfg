SPECIFICATION FairSpec
CONSTANTS
    Senders = {s1, s2, s3}
    Mortal = {s1, s2}
    Settings <- MCSettings
    Free = Free
INVARIANTS SeqUnique QueuedOrConsumed NothingSkipped
PROPERTIES EverySendEnds
CHECK_DEADLOCK FALSE
