CONSTANTS
    Entries = {1, 2, 3, 4, 5, 6, 7, 8}
    Mmr <- MCMmr
    CreatedAt <- MCCreatedAt
    NoMmr = NoMmr
    NoEntry = NoEntry
SPECIFICATION MCSpec
INVARIANT RowsMatchNodes
INVARIANT OneUnresolvedSeries
INVARIANT EliminatedTeamsStopPlaying
INVARIANT CompletedIsDecided
INVARIANT SeedingWorks
INVARIANT NeverStuck
PROPERTY SettledSeriesStay
PROPERTY ImplementsBracketResults
PROPERTY AdvancementRecovers
CHECK_DEADLOCK FALSE
