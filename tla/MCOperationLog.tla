---------------------------- MODULE MCOperationLog ----------------------------
(* Small instances of OperationLog for TLC.                                 *)
EXTENDS OperationLog

CONSTANTS p1, p2

TwoCommands == {p1, p2}

=============================================================================
