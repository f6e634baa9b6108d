SPECIFICATION Spec
CONSTANTS
    op1 = op1
    op2 = op2
    OpIds <- MCOpIds
    HardwareEventCounts <- MCHardwareEventCounts
    MaxRevision = 4
    MaxSequence = 6
SYMMETRY OpIdSymmetry
INVARIANTS
    TypeOK
    PreferenceLedgers
    OneAnswerPerOperation
    EventsAreNumberedInOrder
    EventsTrackRevisions
PROPERTIES
    HistoryIsPermanent
    ImplementsConsentRegister
    ImplementsToastRegister
