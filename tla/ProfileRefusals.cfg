SPECIFICATION Spec
CONSTANTS
    op1 = op1
    op2 = op2
    op3 = op3
    gpu = gpu
    game = game
    OpIds <- MCOpIds
    Subjects <- MCSubjects
    Keys <- MCKeys
    Values = {0, 1}
    Patches <- MCPatches
    MaxRevision = 2
    MaxSequence = 3
    MaxUnrecorded = 1
SYMMETRY MCSymmetry
INVARIANT RetriesReplay
