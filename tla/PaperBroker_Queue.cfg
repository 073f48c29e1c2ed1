SPECIFICATION BrokerSpec
CONSTANTS
    Tradable = {d1, d2}
    Observing = {}
    ApprovalIds = {a1, a2}
    PermittedOperators = {alex}
    PlaceCalls = {c1, c2}
    OrderIds = {o1, o2}
    CustomKeys = {}
    MaxActiveAge = 1
    MaxOpenPositions = 1
    MaxDailyLossPct = 2
    MaxWeeklyLossPct = 5
    MaxConsecutiveLosses = 3
    AccountEquity = 100
    Snapshots <- AlwaysCalm
    MaxTime = 1
    None = None
    Limit = 2
    Timeouts = TRUE
    MaxRestarts = 1
PROPERTY
    ApprovedIsTried
