SPECIFICATION Spec
CONSTANTS
    p1 = p1
    p2 = p2
    Requests = {r1, r2}
    Posts = {p1, p2}
    PostOf <- MCPostOf
    ViewerOf <- MCViewerOf
    Flushers = {f1, f2}
    NoFlusher = NoFlusher
    MaxFaults = 2
SYMMETRY Symmetry
INVARIANTS
    TypeOK
    NoViewLost
    NoViewTwice
    ShownNeverAhead
