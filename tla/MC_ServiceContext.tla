------------------------- MODULE MC_ServiceContext -------------------------
(* Model-checking instance of ServiceContext: two services, three socket   *)
(* slots.                                                                   *)
EXTENDS ServiceContext, TLC

CONSTANTS s1, s2, k1, k2, k3

MC_Services == {s1, s2}
MC_Slots == {k1, k2, k3}

\* Socket slots are interchangeable (the liveness runs do not use it).
MC_Symmetry == Permutations(MC_Slots)
=============================================================================
