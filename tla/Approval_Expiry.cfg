SPECIFICATION Spec
CONSTANTS
    Decisions = {d1}
    Tradable = {d1}
    ApprovalIds = {a1, a2}
    Codes = {k1, k2}
    Operators = {alex, mallory}
    Allowlist = {alex}
    ConfirmCalls = {c1, c2}
    ApprovalTtl = 2
    ReserveTtl = 3
    MaxTime = 4
    None = None
PROPERTY
    ExpiredIsRecorded
