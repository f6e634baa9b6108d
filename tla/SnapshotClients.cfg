SPECIFICATION FairSpec
\* Once the limits are used up and everything is delivered nothing moves.
CHECK_DEADLOCK FALSE
CONSTANTS
    Listeners <- MCListeners
    Observers <- MCListeners
    Limits <- MCLimits
    KindsWith <- MCKindsWith
INVARIANTS
    CopyIsCurrent
    CopyCoversEvents
    ReadInvariant
PROPERTY EventuallyCurrent
