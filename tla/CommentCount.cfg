SPECIFICATION Spec
CONSTANTS
    Users = {"a", "b"}
    Gone = {"w"}
    TagLists <- MCTagLists
    TagName <- MCTagName
    Tx = {x1, x2}
    Threshold = 2
    Seed <- MCSeed
    Scenarios <- MCScenarios
    MaxRequests = 3
    MaxComments = 3
    NoRow = NoRow
    None = None
INVARIANT CommentCountIsDisplayed

