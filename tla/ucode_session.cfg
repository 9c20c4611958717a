SPECIFICATION SessionSpec
CONSTANTS
    Lines = 2
    Tasks = 1
    Window = 4
    MaxRounds = 2
    MaxCalls = 2
    MaxFaults = 1
    MaxCrashes = 1
    MaxCancels = 1
INVARIANTS
    HistoryPaired
    AnsweredOnce
    QuestionStaysOpen
PROPERTIES
    EventuallyIdle
CHECK_DEADLOCK FALSE
