SPECIFICATION Spec
CONSTANTS
    Decisions = {d1}
    Windows <- DayAndWeek
    Prices <- OnePrice
    Plans <- OnePlan
    Limit = 2
    WindowLimit = 3
    Rate = 1
    MaxTime = 7
    MaxQuotes = 7
    MaxFaults = 0
    MaxRestarts = 0
    None = None
INVARIANT
    WindowIsSeen
