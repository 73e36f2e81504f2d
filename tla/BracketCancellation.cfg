CONSTANTS
    Entries = {1, 2, 3, 4}
    Mmr <- MCMmr
    CreatedAt <- MCCreatedAt
    NoMmr = NoMmr
    NoEntry = NoEntry
SPECIFICATION Spec
INVARIANT CancellationSettlesMatches
CHECK_DEADLOCK FALSE
