---------------------------- MODULE MCStateEpoch ----------------------------
(* Interchangeable requests for the runs of StateEpoch.                     *)
EXTENDS StateEpoch, TLC

CONSTANTS r1, r2, r3

MCThreeReqs == {r1, r2, r3}

ThreeSymmetry == Permutations(MCThreeReqs)
=============================================================================
