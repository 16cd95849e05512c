SPECIFICATION FairSpec
CONSTANTS
    p1 = p1
    p2 = p2
    Requests = {r1}
    Posts = {p1, p2}
    PostOf <- MCPostOf
    ViewerOf <- MCViewerOf
    Flushers = {f1, f2}
    NoFlusher = NoFlusher
    MaxFaults = 1
PROPERTY
    BufferIsFlushed
