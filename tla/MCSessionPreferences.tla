------------------------ MODULE MCSessionPreferences ------------------------
(* Model values and bounds for SessionPreferences.                         *)
EXTENDS SessionPreferences, TLC
CONSTANTS op1, op2

MCOpIds == {op1, op2}
MCHardwareEventCounts == {2}
OpIdSymmetry == Permutations(MCOpIds)
=============================================================================
