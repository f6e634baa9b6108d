SPECIFICATION FairSpec
CHECK_DEADLOCK FALSE
CONSTANTS
    Listeners <- MCListeners
    Observers <- MCObservers
    Limits <- MCAwayLimits
PROPERTY EventuallyAvailable
