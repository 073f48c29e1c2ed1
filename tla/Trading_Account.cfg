SPECIFICATION TradingSpec
CONSTANTS
    Trades <- EveryTrade
    Prices <- MCPrices
    Seed = 10
    WeekLength = 2
    PauseAfter = 1
    MaxPositions = 3
    LastDay = 2
    MaxFaults = 1
    TextAsDate = TRUE
    PlaceCalls = {c1, c2}
    RiskUsd = 1
    MaxTradeRiskPct = 12
    MaxDailyLossPct = 20
    MaxWeeklyLossPct = 50
    MaxOpenPositions = 1
    None = None
INVARIANTS
    TradingTypeOK
    AccountIsBalanced
    SnapshotAddsUp
    LossIsPlanned
    OpenIsBounded
PROPERTIES
    PauseHolds
    DueIsClosed
