---------------------------- MODULE MCAnalytics ----------------------------
(* The aggregate rules job in two processes.                               *)
EXTENDS Analytics, TLC
CONSTANTS e1, e2
Symmetry == Permutations({e1, e2})
=============================================================================
