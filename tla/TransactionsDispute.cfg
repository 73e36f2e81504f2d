CONSTANTS
    Requests = {r1}
    Handlers = {"confirm"}
    Scan = FALSE
    BestOf = 1
SPECIFICATION Spec
PROPERTY DisputesAreForStaff
CHECK_DEADLOCK FALSE
