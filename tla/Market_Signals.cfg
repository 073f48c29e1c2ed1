SPECIFICATION MarketSpec
CONSTANTS
    MinAgentConfidence = 650
    MinRiskReward = 1500
    MaxTradeRiskPct = 5
    MaxSymbolPositionPct = 200
    MaxEntryDeviationPct = 3
    MaxLeverage = 2
    Whitelist <- BothSymbols
    SymbolOrder <- FlakyFirst
    Flaky <- FlakySymbol
    Quotes <- MCQuotes
    ShortWindow = 2
    LongWindow = 3
    Limit = 3
    Modes <- SomeModes
    Equity = 1000
    MaxMarkets = 1
    MaxSignals = 1
    MaxFaults = 1
    None = None
INVARIANTS
    MarketTypeOK
    NeverWhileBlocked
    SignalPasses
PROPERTIES
    OpensInPlay
    QuotesKeepComing
