------------------------------ MODULE Decoding ------------------------------
(* encoding.go: how the bytes of a file become text, or a reason why not.    *)
(*                                                                           *)
(* A file is a record of what decodeSource can tell about its bytes: the      *)
(* byte order mark, the encoding that a comment declares, whether it meets a  *)
(* NUL (in the text of a marked file, among the first bytes of another), and  *)
(* the encodings the bytes are valid in.  The text is not a matter of this    *)
(* module.                                                                    *)
EXTENDS SequencesExt

CONSTANTS
    Encodings,      \* names of encodings, normalized (normalizedEncoding)
    Internal,       \* those decoded without iconv: UTF-8, UTF-16, UTF-32
    Utf8,           \* UTF-8
    Covers,         \* internal encodings a declared name also stands for:
                    \* UTF-16 and UTF-32 without a byte order
    NoEncoding      \* no byte order mark, no declaration, none chosen

ASSUME EncodingAssumption ==
    /\ Internal \subseteq Encodings
    /\ Utf8 \in Internal
    /\ Covers \in [Encodings -> SUBSET Internal]
    /\ NoEncoding \notin Encodings

Sources == [bom : Internal \cup {NoEncoding},
            declared : Encodings \cup {NoEncoding},
            nul : BOOLEAN,
            valid : SUBSET Encodings]

\* What decoding yields: "indexed", "skipped" with a reason, or "notText".
Indexed(e, origin) ==
    [status |-> "indexed", encoding |-> e, origin |-> origin, reason |-> "none"]
Skipped(e, origin, reason) ==
    [status |-> "skipped", encoding |-> e, origin |-> origin, reason |-> reason]
NotText ==
    [status |-> "notText", encoding |-> NoEncoding, origin |-> "none",
     reason |-> "none"]

\* decodeNamed.  iconv says whether the command iconv is installed.
Convert(src, e, iconv) ==
    CASE e \notin Internal /\ ~iconv -> "unavailable"
      [] e \in src.valid /\ (e \in Internal \/ iconv) -> "text"
      [] OTHER -> "invalid"

\* equivalentEncoding does not hold of the declaration and the mark.
Conflicting(src) ==
    /\ src.declared \notin {NoEncoding, src.bom}
    /\ src.bom \notin Covers[src.declared]

DecodeMarked(src) ==
    CASE src.bom \notin src.valid ->
            Skipped(src.bom, "bom", "conversion_failed")
      [] src.bom \in src.valid /\ src.nul -> NotText
      [] src.bom \in src.valid /\ ~src.nul /\ Conflicting(src) ->
            Skipped(src.bom, "bom", "encoding_conflict")
      [] OTHER -> Indexed(src.bom, "bom")

DecodeDeclared(src, iconv) ==
    LET outcome == Convert(src, src.declared, iconv) IN
    CASE outcome = "unavailable" ->
            Skipped(src.declared, "declaration", "transcoder_unavailable")
      [] outcome = "invalid" ->
            Skipped(src.declared, "declaration", "conversion_failed")
      [] OTHER -> Indexed(src.declared, "declaration")

\* Mutant of DecodeFallback: one that cannot be tried is passed over.
DecodeAnyFallback(src, fallbacks, iconv) ==
    LET first == SelectInSeq(fallbacks,
                             LAMBDA e : Convert(src, e, iconv) = "text")
    IN  IF first # 0 THEN Indexed(fallbacks[first], "fallback")
        ELSE Skipped(NoEncoding, "fallback", "conversion_failed")

\* The loop over the fallbacks ends at the first one that is not invalid:
\* one that cannot be tried ends it too.
DecodeFallback(src, fallbacks, iconv) ==
    LET first == SelectInSeq(fallbacks,
                             LAMBDA e : Convert(src, e, iconv) # "invalid")
    IN  CASE fallbacks = <<>> ->
                Skipped(NoEncoding, "none", "encoding_unknown")
          [] fallbacks # <<>> /\ first = 0 ->
                Skipped(NoEncoding, "fallback", "conversion_failed")
          [] first # 0 /\ Convert(src, fallbacks[first], iconv) = "text" ->
                Indexed(fallbacks[first], "fallback")
          [] OTHER ->
                Skipped(fallbacks[first], "fallback", "transcoder_unavailable")

\* Mutant of Decode: valid UTF-8 is preferred to a declaration.
DecodeUtf8First(src, fallbacks, iconv) ==
    CASE src.bom # NoEncoding -> DecodeMarked(src)
      [] src.bom = NoEncoding /\ src.nul -> NotText
      [] src.bom = NoEncoding /\ ~src.nul /\ Utf8 \in src.valid ->
            Indexed(Utf8, "utf8")
      [] src.bom = NoEncoding /\ ~src.nul /\ Utf8 \notin src.valid
            /\ src.declared # NoEncoding -> DecodeDeclared(src, iconv)
      [] OTHER -> DecodeFallback(src, fallbacks, iconv)

Decode(src, fallbacks, iconv) ==
    CASE src.bom # NoEncoding -> DecodeMarked(src)
      [] src.bom = NoEncoding /\ src.nul -> NotText
      [] src.bom = NoEncoding /\ ~src.nul /\ src.declared # NoEncoding ->
            DecodeDeclared(src, iconv)
      [] src.bom = NoEncoding /\ ~src.nul /\ src.declared = NoEncoding
            /\ Utf8 \in src.valid -> Indexed(Utf8, "utf8")
      [] OTHER -> DecodeFallback(src, fallbacks, iconv)
=============================================================================
