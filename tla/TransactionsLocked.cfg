CONSTANTS
    Requests = {r1, r2, r3}
    Handlers = {"confirm", "managed", "award", "series"}
    Scan = TRUE
    BestOf = 3
SPECIFICATION Spec
INVARIANT EveryGameCountsOnce
PROPERTY OnlyOvertakenDecisionsRewrite
CHECK_DEADLOCK FALSE
