---------------------------- MODULE MCOwnership ----------------------------
(* Small instances of Ownership for TLC.                                     *)
EXTENDS Ownership, TLC

CONSTANTS ca, cb, r1, r2, b1, b2, g1, g2

TwoRoots == {ca, cb}
TwoRevs == {r1, r2}
TwoBlobs == {b1, b2}
TwoSettings == {g1, g2}
Trees == [r \in TwoRevs |-> IF r = r1 THEN b1 ELSE b2]

\* Checkouts are interchangeable.
Symmetry == Permutations(TwoRoots)
============================================================================
