SPECIFICATION Spec
CONSTANTS
    Tradable = {d1, d2}
    Observing = {d2}
    ApprovalIds = {a1, a2}
    PermittedOperators = {alex}
    PlaceCalls = {c1, c2}
    OrderIds = {o1, o2}
    CustomKeys = {k1}
    MaxActiveAge = 1
    MaxOpenPositions = 1
    MaxDailyLossPct = 2
    MaxWeeklyLossPct = 5
    MaxConsecutiveLosses = 3
    AccountEquity = 100
    Snapshots <- CalmLossOrBroke
    MaxTime = 1
    None = None
SYMMETRY Symmetry
INVARIANTS
    TypeOK
    OneOrderPerDecision
    OrderWasApproved
PROPERTY
    OnceSpec
