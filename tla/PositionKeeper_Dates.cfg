SPECIFICATION Spec
CONSTANTS
    Trades <- LongAndShort
    Prices <- MCPrices
    Seed = 10
    WeekLength = 2
    PauseAfter = 2
    MaxPositions = 2
    LastDay = 0
    MaxFaults = 0
    TextAsDate = FALSE
    None = None
INVARIANT
    PausedAfterLosses
