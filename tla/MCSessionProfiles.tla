-------------------------- MODULE MCSessionProfiles --------------------------
(* Model values and bounds for SessionProfiles.                            *)
EXTENDS SessionProfiles, TLC
CONSTANTS op1, op2, op3, gpu, game

MCOpIds == {op1, op2, op3}
MCSubjects == {gpu, game}
MCKeys == {"a", "b"}
MCPatches == {NoSettings, "a" :> 0, "b" :> 1 @@ "a" :> 1}
MCSymmetry == Permutations(MCOpIds) \cup Permutations(MCSubjects)
=============================================================================
