CONSTANTS
    Tags = {t1, t2}
    NoTag = NoTag
    Workers = {w1, w2}
SPECIFICATION FairSpec
INVARIANT PeriodIsEvidenced
PROPERTY DecisionsStand
PROPERTY RequestsSettle
CHECK_DEADLOCK FALSE
