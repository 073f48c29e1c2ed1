SPECIFICATION Spec
CONSTANTS
    Topics = {btc}
    Seeds <- OneSeed
    Dim = 2
    Lengths = {1, 2, 3}
    NotFinite = FALSE
    BackfillLimit = 1
    RecallLimit = 1
    MaxEntries = 2
    MaxExperiences = 1
    MaxDisruptions = 3
    None = None
INVARIANTS
    TypeOK
    
    OneSpace
    FilledBeforeRecall
PROPERTY
    EntryIsFilled
