------------------------------ MODULE MCQueries ------------------------------
(* Small instances of IndexedText, and with it of Queries, Refs, FileRows    *)
(* and Decoding, for TLC; and inputs for the functions of Unicode and        *)
(* SourceLines.                                                              *)
EXTENDS IndexedText, TLC

AllEncodings == {"utf8", "utf16", "utf16le", "eucjp", "cp932"}
InternalOnes == {"utf8", "utf16le"}
Utf16Names == [e \in AllEncodings |-> IF e = "utf16" THEN {"utf16le"} ELSE {}]

Source(bom, declared, nul, valid, lines) ==
    [bom |-> bom, declared |-> declared, nul |-> nul, valid |-> valid,
     lines |-> lines]

Uses == Source("none", "none", FALSE, {"utf8", "cp932"}, <<"use", "def">>)
\* Declared, and by accident valid UTF-8 too.
Declared ==
    Source("none", "eucjp", FALSE, {"utf8", "eucjp"}, <<"part", "use", "use">>)
\* Neither marked nor declared nor UTF-8: the second fallback fits, and so does
\* the third, which needs no iconv.
Foreign == Source("none", "none", FALSE, {"cp932", "utf16le"}, <<"use">>)
\* Marked, with a declaration that agrees.
Marked == Source("utf16le", "utf16", FALSE, {"utf16le"}, <<"def">>)
Binary == Source("none", "none", TRUE, {"cp932"}, <<"use">>)

FiveBlobs == {Uses, Declared, Foreign, Marked, Binary}
ThreeBlobs == {Uses, Foreign, Binary}
ThreeFallbacks == <<"eucjp", "cp932", "utf16le">>

\* Path 1 is b.go and path 2 is x/b.go.  The arguments are b.go, ./b.go (3) and
\* /b.go (4).
SomeRequests == {1, 3, 4}
WithoutSlash == [r \in SomeRequests |-> IF r = 4 THEN 1 ELSE r]
WithoutDot == [r \in SomeRequests |-> IF r = 3 THEN 1 ELSE r]
Containing == [r \in SomeRequests |-> CASE r = 1 -> {1, 2} [] r = 3 -> {} [] r = 4 -> {2}]
SecondPath == [r \in SomeRequests |-> IF r = 1 THEN {2} ELSE {}]
Lengths == <<4, 6>>

\* Path 1 is ab.go and path 2 is x/b.go; the argument, b.go, is no path.
OtherRequest == {3}
Same == [r \in OtherRequest |-> r]
BothInside == [r \in OtherRequest |-> {1, 2}]
SecondUnder == [r \in OtherRequest |-> {2}]
OtherLengths == <<5, 6>>

AllWide == {Utf16BE, Utf16LE, Utf32BE, Utf32LE}
\* NUL, beside the surrogates, at the ends of planes, the byte order mark
\* swapped.
SomeScalars ==
    {0, 65, 65024, 55295, 57344, 65279, 65534, 65535, 65536, 131071, 1114111}
ShortTexts == BoundedSeq(SomeScalars, 2)
\* Units and values with these are in, beside and out of every range.
SomeBytes == {0, 16, 17, 65, 215, 216, 219, 220, 223, 224, 255}
ShortBytes == BoundedSeq(SomeBytes, 4)

\* Texts of three lines, and of any line ends.
SomeLines ==
    BoundedSeq(Tokens \ {"cr", "lf", "blank"}, 2)
        \cup {<<"blank">>, <<"blank", "open">>, <<"code", "line", "open">>}
SomePassages ==
    {a \o <<"lf">> \o b \o <<"lf">> \o c : a, b, c \in SomeLines}
        \cup BoundedSeq({"cr", "lf", "blank", "code"}, 5)
=============================================================================
