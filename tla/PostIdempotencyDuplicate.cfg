SPECIFICATION Spec
CONSTANTS
    Requests = {r1, r2}
    NoRequest = NoRequest
    MaxFaults = 0
INVARIANT
    AtMostOnePost
CHECK_DEADLOCK FALSE
