SPECIFICATION Spec
CONSTANTS
    r1 = r1
    Readers <- MCReaders
    MaxWord = 9
    Calls <- MCCalls
INVARIANTS
    TypeOK
    NoTornSample
    LatestSampleReadable
    OnlyExhaustionRefuses
PROPERTY SlotNeverGoesBack
\* An exhausted or dead producer and readers that find nothing do stop.
CHECK_DEADLOCK FALSE
