----------------------------- MODULE MCInitConfig -----------------------------
(* Small instances of InitConfig for TLC.                                   *)
EXTENDS InitConfig, TLC

CONSTANTS p1, p2, c1, c2

TwoInits == {p1, p2}
TwoConfigs == {c1, c2}

\* Commands and contents are only compared for equality.
Symmetry == Permutations(TwoInits) \cup Permutations(TwoConfigs)
==============================================================================
