CONSTANTS
    Tags = {t1, t2}
    NoTag = NoTag
    Workers = {w1}
SPECIFICATION Spec
INVARIANT OldTagForgotten
CHECK_DEADLOCK FALSE
