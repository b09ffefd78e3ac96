---------------------------- MODULE MC_LogHeader ----------------------------
(* Two voters and terms up to MaxTerm: enough for a torn write of either   *)
(* block, with crashes, during setup and after it.                         *)
EXTENDS LogHeader

CONSTANTS v1, v2

MCVoter == {v1, v2}

MCSymmetry == Permutations(MCVoter)
====
