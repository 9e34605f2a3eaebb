SPECIFICATION Spec
CONSTANTS
    Word = 16
    Interval = 3
    OverflowChecks = FALSE
    MaxLag = 2
    LoopsPerTick = 2
INVARIANTS TypeOK NeverStale
PROPERTIES CountsASecond
