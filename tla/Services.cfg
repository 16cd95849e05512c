SPECIFICATION Spec
CONSTANTS
    NoRow = NoRow
    Nobody = Nobody
INVARIANTS
    TypeOK DisplayMatchesRows 
    RotationIsSingleUse BurstBounded
    ReachedOnce RegistryIsTrue
    RoomCacheIsSafe ResyncHasNoHoles
    WalkIsExact ListsAreExact OneRepresentative JobsRunProtected
PROPERTIES
    BlindedAtThreshold EditsAreExact
    SuspensionTakesEffect LogoutSticks
    ReadingIsOnesOwn
\* The bounds on requests, changes and time end a behaviour.
CHECK_DEADLOCK FALSE
