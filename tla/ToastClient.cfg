SPECIFICATION ClientFairSpec
\* Once the limits are used up and everything is delivered nothing moves.
CHECK_DEADLOCK FALSE
CONSTANTS
    Listeners <- MCListeners
    Observers <- MCListeners
    Limits <- MCLimits
INVARIANTS
    RequestInvariant
    CursorIdentifiesToast
    DecisionsAreFinal
PROPERTY EventuallySettled
