---------------------------- MODULE MCIndexStore ----------------------------
(* Small instances of IndexStore for TLC.                                   *)
EXTENDS IndexStore

CONSTANTS p1, p2, fa, fb

TwoProcs == {p1, p2}
TwoFiles == {fa, fb}

\* Three versions of each row, 0 being "no row".  The last snapshot shares a
\* row with the first, so that an update need not write every row.
Rows(a, b) == [f \in TwoFiles |-> IF f = fa THEN a ELSE b]
NoFiles == Rows(0, 0)
FewSnapshots == {NoFiles, Rows(1, 1), Rows(0, 2)}

\* Two snapshots that differ in every row: any mixture of them shows.
Pair == {NoFiles, Rows(1, 1)}
=============================================================================
