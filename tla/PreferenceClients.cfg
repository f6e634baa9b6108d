SPECIFICATION FairSpec
\* Once the limits are used up and everything is delivered nothing moves.
CHECK_DEADLOCK FALSE
CONSTANTS
    Listeners <- MCListeners
    Observers <- MCObservers
    Limits <- MCLimits
INVARIANTS
    RequestInvariant
    ReadinessIsCurrent
    DecisionsAreFinal
    CopyIsStored
PROPERTIES
    EventuallyReflectsService
    EventuallySettled
