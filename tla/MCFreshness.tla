----------------------------- MODULE MCFreshness -----------------------------
(* Small instances of Freshness for TLC.                                    *)
EXTENDS Freshness, TLC

CONSTANTS fa, fb, b1, b2, r1, r2

TwoFiles == {fa, fb}
TwoBlobs == {b1, b2}
TwoRevs == {r1, r2}

\* Paths, contents and commits are only compared for equality.
Symmetry == Permutations(TwoFiles) \cup Permutations(TwoBlobs) \cup Permutations(TwoRevs)
==============================================================================
