SPECIFICATION Spec
CONSTANTS
    Decisions = {d1}
    Windows <- ThreeWindows
    Prices <- ThreePrices
    Plans <- EachPlan
    Limit = 1
    WindowLimit = 2
    Rate = 1
    MaxTime = 3
    MaxQuotes = 3
    MaxFaults = 1
    MaxRestarts = 1
    None = None
INVARIANTS
    TypeOK
    OneResultPerTask
    DoneHasResult
    LaterWindowAgrees
    ShortWindowIsSeen
PROPERTY
    DueIsReviewed
