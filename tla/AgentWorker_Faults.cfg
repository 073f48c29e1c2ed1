SPECIFICATION Spec
CONSTANTS
    Limit = 2
    LostCalls = TRUE
    MaxSignals = 3
    MaxFaults = 2
    MaxRestarts = 1
    None = None
INVARIANTS
    TypeOK
    AskedOnce
    SettledForAReason
    ToldStands
PROPERTY
    SignalIsHandled
