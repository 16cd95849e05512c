SPECIFICATION Spec
CONSTANTS
    NoOne = NoOne
INVARIANTS TypeOK FreshEnough DuplicatesAreExcused
PROPERTIES ReadersAnswer EventuallyDelivered ListenerReturns
\* The bounds on time, faults and requests end a behaviour.
CHECK_DEADLOCK FALSE
