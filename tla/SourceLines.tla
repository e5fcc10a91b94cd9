----------------------------- MODULE SourceLines -----------------------------
(***************************************************************************)
(* The lines of a decoded text (splitLines in index.go) and what metrics   *)
(* says of them (metrics.go).                                              *)
(*                                                                         *)
(* A text is a sequence of tokens: "cr", "lf", "blank", "code", and the    *)
(* delimiters of comments in a language that has them: "open" and "close"  *)
(* of a block, and "line" for the rest of a line.                          *)
(***************************************************************************)
EXTENDS Integers, Sequences, SequencesExt

CONSTANTS
    Passages    \* texts to try

Tokens == {"cr", "lf", "blank", "code", "open", "close", "line"}

ASSUME PassagesOk == \A text \in Passages : text \in Seq(Tokens)

-----------------------------------------------------------------------------
(* splitLines.                                                              *)

\* "\r\n" and "\r" are replaced by "\n".
LineFeeds(text) ==
    LET upto[n \in 0..Len(text)] ==
            IF n = 0 THEN <<>>
            ELSE IF text[n] = "lf" /\ n > 1 /\ text[n - 1] = "cr" THEN upto[n - 1]
            ELSE Append(upto[n - 1], IF text[n] = "cr" THEN "lf" ELSE text[n])
    IN  upto[Len(text)]

\* strings.Split at line feeds.
Split(text) ==
    LET upto[n \in 0..Len(text)] ==
            IF n = 0 THEN << <<>> >>
            ELSE IF text[n] = "lf" THEN Append(upto[n - 1], <<>>)
            ELSE Append(Front(upto[n - 1]), Append(Last(upto[n - 1]), text[n]))
    IN  upto[Len(text)]

SplitLines(text) ==
    LET lines == Split(LineFeeds(text))
    IN  IF Last(lines) = <<>> THEN Front(lines) ELSE lines

-----------------------------------------------------------------------------
(* computeFileMetrics.                                                      *)

\* strings.TrimSpace.
Trimmed(line) ==
    LET some == {i \in DOMAIN line : line[i] # "blank"}
    IN  IF some = {} THEN <<>> ELSE SubSeq(line, Min(some), Max(some))

\* Where a block begins in a line, and whether it is still open at its end.
Opens(line) ==
    \E i \in DOMAIN line :
        /\ line[i] = "open" /\ \A j \in 1..(i - 1) : line[j] # "open"
        /\ \A j \in (i + 1)..Len(line) : line[j] # "close"

\* isCommentOnlyLine: is a trimmed line all comment?
IsCommentOnly(line, inBlock) == inBlock \/ Head(line) \in {"open", "line"}

\* Mutant of InBlockAfter: only a line that begins with a block can leave it
\* open.
InBlockAfterHead(line, inBlock) ==
    IF inBlock THEN "close" \notin ToSet(line)
    ELSE Head(line) = "open" /\ Opens(line)

\* blockEnd after isCommentOnlyLine.
InBlockAfter(line, inBlock) ==
    IF inBlock THEN "close" \notin ToSet(line)
    ELSE Head(line) # "line" /\ Opens(line)

NoMetrics == [lines |-> 0, blank |-> 0, comment |-> 0, code |-> 0]

\* One turn of the loop of computeFileMetrics.
CountLine(acc, trimmed) ==
    IF trimmed = <<>> THEN [acc EXCEPT !.metrics.blank = @ + 1]
    ELSE [metrics |-> IF IsCommentOnly(trimmed, acc.inBlock)
                      THEN [acc.metrics EXCEPT !.comment = @ + 1]
                      ELSE [acc.metrics EXCEPT !.code = @ + 1],
          inBlock |-> InBlockAfter(trimmed, acc.inBlock)]

ComputeFileMetrics(lines) ==
    LET upto[n \in 0..Len(lines)] ==
            IF n = 0 THEN [metrics |-> [NoMetrics EXCEPT !.lines = Len(lines)],
                           inBlock |-> FALSE]
            ELSE CountLine(upto[n - 1], Trimmed(lines[n]))
    IN  upto[Len(lines)].metrics

-----------------------------------------------------------------------------
(* What a text is, read token by token: the definition to compare with.     *)

\* "tidy": so far nothing follows a comment in its line.
\* "plain": so far no comment after code, for the rest of its line, has what
\* begins a block in it, as in x // a/*.  computeFileMetrics takes it for the
\* beginning of one, and counts the lines after it as comments.
Start == [counts |-> NoMetrics, mode |-> "code", seen |-> "blank", closed |-> FALSE,
          empty |-> TRUE, tidy |-> TRUE, plain |-> TRUE]

OneIf(test) == IF test THEN 1 ELSE 0

EndLine(s) ==
    [s EXCEPT !.counts = [lines |-> @.lines + 1,
                          blank |-> @.blank + OneIf(s.seen = "blank"),
                          comment |-> @.comment + OneIf(s.seen = "comment"),
                          code |-> @.code + OneIf(s.seen = "code")],
              !.mode = IF @ = "line" THEN "code" ELSE @,
              !.seen = "blank", !.closed = FALSE, !.empty = TRUE]

Token(s, t) ==
    LET on == [s EXCEPT !.empty = FALSE, !.tidy = @ /\ (t # "blank" => ~s.closed)]
        comment == [on EXCEPT !.seen = IF @ = "code" THEN @ ELSE "comment"]
    IN  IF t = "blank" THEN on
        ELSE IF s.mode = "line"
        THEN [comment EXCEPT !.plain = @ /\ ~(t = "open" /\ s.seen = "code")]
        ELSE IF s.mode = "block"
        THEN IF t = "close" THEN [comment EXCEPT !.mode = "code", !.closed = TRUE]
             ELSE comment
        ELSE IF t = "open" THEN [comment EXCEPT !.mode = "block"]
        ELSE IF t = "line" THEN [comment EXCEPT !.mode = "line"]
        ELSE [on EXCEPT !.seen = "code"]

\* A line ends in "cr", in "lf" or in both.
Reading(text) ==
    LET upto[n \in 0..Len(text)] ==
            IF n = 0 THEN Start
            ELSE IF text[n] = "lf" /\ n > 1 /\ text[n - 1] = "cr" THEN upto[n - 1]
            ELSE IF text[n] \in {"cr", "lf"} THEN EndLine(upto[n - 1])
            ELSE Token(upto[n - 1], text[n])
        last == upto[Len(text)]
    IN  IF last.empty THEN last ELSE EndLine(last)

IsOrdinary(s) == s.tidy /\ s.plain

\* Where the two do not agree: on any texts, on ordinary ones, and on tidy ones
\* though they are not plain.
Differing ==
    {text \in Passages : ComputeFileMetrics(SplitLines(text)) # Reading(text).counts}
Miscounted == {text \in Differing : IsOrdinary(Reading(text))}
MiscountedTidy == {text \in Differing : Reading(text).tidy}
==============================================================================
