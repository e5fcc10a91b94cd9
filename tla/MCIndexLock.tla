----------------------------- MODULE MCIndexLock -----------------------------
(* Small instances of IndexLock for TLC.                                    *)
EXTENDS IndexLock, TLC

CONSTANTS p1, p2, p3, n1, n2, n3, n4

TwoProcs == {p1, p2}
ThreeProcs == {p1, p2, p3}
ThreePids == {n1, n2, n3}
FourPids == {n1, n2, n3, n4}

\* Slots are interchangeable, and so are pids: no order is ever looked at.
Symmetry == Permutations(ThreeProcs) \cup Permutations(ThreePids)
==============================================================================
