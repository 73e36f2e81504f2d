CONSTANTS
    Entries = {1, 2}
    Mmr <- MCMmr
    CreatedAt <- MCCreatedAt
    NoMmr = NoMmr
    NoEntry = NoEntry
SPECIFICATION Spec
PROPERTY CompletedMatchesAreImmutable
CHECK_DEADLOCK FALSE
