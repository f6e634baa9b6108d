SPECIFICATION Spec
CHECK_DEADLOCK FALSE
CONSTANTS
    Listeners <- MCListeners
    Observers <- MCListeners
    Limits <- MCColdLimits
    KindsWith <- MCColdKindsWith
INVARIANT ReadyOnlyOnAnswer
