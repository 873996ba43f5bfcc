------------------------- MODULE MC_ServiceLifecycle -------------------------
(* Model-checking instance of ServiceLifecycle: one service, two sessions,  *)
(* two payloads, generations up to MaxGen.                                  *)
EXTENDS ServiceLifecycle, TLC

CONSTANTS c1, c2, p1, p2

MC_Clients == {c1, c2}
MC_Payloads == {p1, p2}

\* Sessions are interchangeable, and so are payload contents.
MC_Symmetry == Permutations(MC_Clients) \cup Permutations(MC_Payloads)
=============================================================================
