---------------------------- MODULE MC_YeetDeploy ----------------------------
(* Model-checking instance of YeetDeploy: one service, two users running    *)
(* yeet, two payloads.                                                      *)
EXTENDS YeetDeploy, TLC

CONSTANTS c1, c2, p1, p2

MC_Clients == {c1, c2}
MC_Payloads == {p1, p2}

\* Users are interchangeable, and so are payload contents.
MC_Symmetry == Permutations(MC_Clients) \cup Permutations(MC_Payloads)
=============================================================================
