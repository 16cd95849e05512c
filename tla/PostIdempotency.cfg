SPECIFICATION FairSpec
CONSTANTS
    Requests = {r1, r2, r3}
    NoRequest = NoRequest
    MaxFaults = 2
INVARIANTS
    TypeOK
    CreatorsBounded
PROPERTIES
    OnlyHolderReleases
    LockComesFree
CHECK_DEADLOCK FALSE
