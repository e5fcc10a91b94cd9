----------------------------- MODULE IndexedText -----------------------------
(***************************************************************************)
(* What an index gets from the text of files: Queries, and with it Refs,    *)
(* FileRows and Decoding, beside the functions of Unicode and SourceLines   *)
(* that an indexed text goes through.                                      *)
(***************************************************************************)
EXTENDS Queries, Unicode, SourceLines

(* What gets into an index has been read as what it is: no byte order mark   *)
(* is taken for the shorter one it begins with, and no code point is lost or *)
(* changed, those next to the surrogates and to the bounds of the planes     *)
(* included.  Bytes that are no text of an encoding do not get in as one:    *)
(* half a unit, lone or swapped surrogates and values beyond the range are   *)
(* refused, and nothing is replaced.                                         *)
WideTextIsRead == db # NoTables => Misread = {} /\ MisreadBytes = {}

(* The metrics in an index are those that reading the text token by token    *)
(* gives, whatever ends its lines and wherever blocks begin and end: a block *)
(* that is not closed, or is closed too early, would change the count of all *)
(* the lines after it.  Two kinds of texts are left out: those where code or *)
(* a comment follows a comment in its line, and those where a comment for    *)
(* the rest of a line, after code, has what begins a block in it.            *)
TextIsCounted == db # NoTables => Miscounted = {}

(* The same without the second exception, of every text whose comments stand *)
(* alone or at the ends of their lines.  It is not so: after x // a/* all    *)
(* lines to the next */ are counted as comments (metrics.go:55-58).          *)
TidyTextIsCounted == db # NoTables => MiscountedTidy = {}
=============================================================================
