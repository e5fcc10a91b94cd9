------------------------------- MODULE Unicode -------------------------------
(***************************************************************************)
(* The encodings that encoding.go decodes itself, down to the bytes: byte  *)
(* order marks, UTF-16 and UTF-32 in both orders.  Decoding knows of this  *)
(* module's result only whether the bytes are valid.  A text is a sequence *)
(* of code points; that of UTF-8 is left to Go.                            *)
(***************************************************************************)
EXTENDS Integers, Sequences

CONSTANTS
    Wide,       \* encodings: a record of "width", 2 or 4, and "big"
    Bytes,      \* sequences of bytes to try
    Texts       \* texts to try

Byte == 0..255
MaxRune == 1114111                  \* 0x10ffff
Plane == 65536
HighUnits == 55296..56319           \* 0xd800..0xdbff
LowUnits == 56320..57343            \* 0xdc00..0xdfff
Surrogates == HighUnits \cup LowUnits

IsText(t) == t \in Seq(0..MaxRune) /\ \A i \in DOMAIN t : t[i] \notin Surrogates

ASSUME UnicodeAssumption ==
    /\ Wide \subseteq [width : {2, 4}, big : BOOLEAN]
    /\ Bytes \subseteq Seq(Byte)
    /\ \A text \in Texts : IsText(text)

\* Decoding fails.
Invalid == <<-1>>

-----------------------------------------------------------------------------
(* decodeUTF16 and decodeUTF32.                                             *)

\* order.Uint16, of the bytes a and b.
Uint16(a, b, big) == IF big THEN 256 * a + b ELSE 256 * b + a

Units(data, big) ==
    [i \in 1..Len(data) \div 2 |-> Uint16(data[2 * i - 1], data[2 * i], big)]

\* Code point of a surrogate pair.
Combine(high, low) == Plane + (high - 55296) * 1024 + (low - 56320)

\* Mutant of Decode16: the loop does not step over the low surrogate, so it
\* finds it alone.
Decode16Stuck(data, big) ==
    LET units == Units(data, big)
    IN  IF Len(data) % 2 # 0 \/ \E i \in DOMAIN units : units[i] \in LowUnits
        THEN Invalid ELSE units

\* The text from each unit on: the loop of decodeUTF16 and that of
\* utf16.Decode, which see the same pairs.
RunesFrom(units) ==
    LET n == Len(units)
        from[i \in 1..n + 1] ==
            IF i = n + 1 THEN <<>>
            ELSE IF units[i] \in HighUnits
            THEN IF i < n /\ units[i + 1] \in LowUnits /\ from[i + 2] # Invalid
                 THEN <<Combine(units[i], units[i + 1])>> \o from[i + 2]
                 ELSE Invalid
            ELSE IF units[i] \notin LowUnits /\ from[i + 1] # Invalid
            THEN <<units[i]>> \o from[i + 1]
            ELSE Invalid
    IN  from

Decode16(data, big) ==
    IF Len(data) % 2 # 0 THEN Invalid ELSE RunesFrom(Units(data, big))[1]

\* order.Uint32 of four bytes as two units, since it takes more than 31 bits.
Uint32(data, k, big) ==
    LET first == Uint16(data[4 * k - 3], data[4 * k - 2], big)
        second == Uint16(data[4 * k - 1], data[4 * k], big)
    IN  IF big THEN <<first, second>> ELSE <<second, first>>

\* Mutant of IsRune: surrogates are not looked for.
IsAnyRune(v) == v[1] <= MaxRune \div Plane

\* Is the value in the range of code points, and no surrogate?
IsRune(v) == v[1] <= MaxRune \div Plane /\ ~(v[1] = 0 /\ v[2] \in Surrogates)

Decode32(data, big) ==
    IF Len(data) % 4 # 0 \/ \E k \in 1..Len(data) \div 4 : ~IsRune(Uint32(data, k, big))
    THEN Invalid
    ELSE [k \in 1..Len(data) \div 4 |->
             Uint32(data, k, big)[1] * Plane + Uint32(data, k, big)[2]]

DecodeWide(data, e) == IF e.width = 2 THEN Decode16(data, e.big) ELSE Decode32(data, e.big)

-----------------------------------------------------------------------------
(* unicodeBOM.                                                              *)

Utf16BE == [width |-> 2, big |-> TRUE]
Utf16LE == [width |-> 2, big |-> FALSE]
Utf32BE == [width |-> 4, big |-> TRUE]
Utf32LE == [width |-> 4, big |-> FALSE]
NotWide == [width |-> 1, big |-> FALSE]     \* UTF-8

MarkOf(e) == CASE e = Utf32BE -> <<0, 0, 254, 255>>
             [] e = Utf32LE -> <<255, 254, 0, 0>>
             [] e = NotWide -> <<239, 187, 191>>
             [] e = Utf16BE -> <<254, 255>>
             [] e = Utf16LE -> <<255, 254>>

HasMark(data, e) ==
    Len(MarkOf(e)) <= Len(data) /\ SubSeq(data, 1, Len(MarkOf(e))) = MarkOf(e)

\* Mutant of Candidates: the short marks first.
ShortFirst == <<NotWide, Utf16BE, Utf16LE, Utf32BE, Utf32LE>>

\* The order in which the marks are looked for.
Candidates == <<Utf32BE, Utf32LE, NotWide, Utf16BE, Utf16LE>>

\* The first mark that the bytes begin with, or 0.
FirstMark(data) ==
    LET fit == {i \in DOMAIN Candidates : HasMark(data, Candidates[i])}
    IN  IF fit = {} THEN 0 ELSE CHOOSE i \in fit : \A j \in fit : i <= j

\* decodeSource of bytes with the mark of a wide encoding.
DecodeMarkedBytes(data) ==
    LET e == Candidates[FirstMark(data)]
    IN  DecodeWide(SubSeq(data, Len(MarkOf(e)) + 1, Len(data)), e)

-----------------------------------------------------------------------------
(* What the encodings are: the definition that decoding is compared to.     *)

High(c) == 55296 + ((c - Plane) \div 1024)
Low(c) == 56320 + ((c - Plane) % 1024)

EncodeUnit(u, big) ==
    IF big THEN <<u \div 256, u % 256>> ELSE <<u % 256, u \div 256>>

EncodeRune(c, e) ==
    LET units == IF e.width = 2 THEN <<High(c), Low(c)>> ELSE <<c \div Plane, c % Plane>>
    IN  IF e.width = 2 /\ c < Plane THEN EncodeUnit(c, e.big)
        ELSE IF e.width = 2 \/ e.big
        THEN EncodeUnit(units[1], e.big) \o EncodeUnit(units[2], e.big)
        ELSE EncodeUnit(units[2], e.big) \o EncodeUnit(units[1], e.big)

\* The first n code points, for each n.
Encoded(text, e) ==
    LET upto[n \in 0..Len(text)] ==
            IF n = 0 THEN <<>> ELSE upto[n - 1] \o EncodeRune(text[n], e)
    IN  upto

EncodeWide(text, e) == Encoded(text, e)[Len(text)]

-----------------------------------------------------------------------------
(* Where the two do not agree.                                              *)

\* The bytes of a text with a mark are taken for what they are.
IsReadBack(text, e) ==
    LET data == MarkOf(e) \o EncodeWide(text, e)
    IN  /\ FirstMark(data) # 0 /\ Candidates[FirstMark(data)] = e
        /\ DecodeMarkedBytes(data) = text

\* Bytes that are decoded are those of what was decoded.
IsTextOf(data, e) ==
    DecodeWide(data, e) # Invalid => EncodeWide(DecodeWide(data, e), e) = data

\* The mark of UTF-16LE with NUL after it is that of UTF-32LE.
IsAmbiguous(text, e) == e = Utf16LE /\ text # <<>> /\ text[1] = 0

Misread ==
    {x \in Wide \X Texts : ~IsAmbiguous(x[2], x[1]) /\ ~IsReadBack(x[2], x[1])}

MisreadBytes == {x \in Wide \X Bytes : ~IsTextOf(x[2], x[1])}
=============================================================================
