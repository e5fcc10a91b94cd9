------------------------- MODULE IndexedTextProofs -------------------------
(***************************************************************************)
(* Proofs about what an index gets from texts.                             *)
(*                                                                         *)
(* Unicode: every text, in UTF-16 or UTF-32 of either order and behind a   *)
(* mark, is read back as it is, and bytes that are decoded are those of    *)
(* the text that comes of it.                                              *)
(*                                                                         *)
(* SourceLines: the metrics of the lines of any ordinary text are what     *)
(* reading it token by token gives.  Replacing line breaks, splitting and  *)
(* counting are three passes, one after the other; the reader makes one.   *)
(* InStep says where each of them is when the reader is at a token.        *)
(*                                                                         *)
(* What the recursive functions give is shown by counting: a set of numbers *)
(* with 0 and all successors is Nat.                                       *)
(***************************************************************************)
EXTENDS IndexedText, FiniteSetTheorems, SequenceTheorems, WellFoundedInduction, TLAPS

\* Induction over numbers.
LEMMA Counting ==
    ASSUME NEW S \in SUBSET Nat, 0 \in S, \A n \in S : n + 1 \in S
    PROVE  S = Nat
<1>. SUFFICES ASSUME NEW n \in Nat \ S PROVE FALSE
  OBVIOUS
<1>. DEFINE upto(k) == (0..k) \ S
            sets == {upto(k) : k \in Nat \ S}
<1>1. sets \subseteq FiniteSubsetsOf(Nat) /\ upto(n) \in sets
  <2>1. ASSUME NEW k \in Nat PROVE upto(k) \in FiniteSubsetsOf(Nat)
    <3>1. 0 \in Int /\ k \in Int
      OBVIOUS
    <3>2. IsFiniteSet(0..k)
      BY <3>1, FS_Interval
    <3>3. upto(k) \subseteq 0..k /\ upto(k) \subseteq Nat
      OBVIOUS
    <3>4. IsFiniteSet(upto(k))
      BY <3>2, <3>3, FS_Subset
    <3>. HIDE DEF upto
    <3>. QED  BY <3>3, <3>4 DEF FiniteSubsetsOf
  <2>. HIDE DEF upto
  <2>. QED  BY <2>1
<1>2. PICK A \in sets : \A B \in sets : <<B, A>> \notin StrictSubsetOrdering(Nat)
  <2>1. sets # {}
    BY <1>1
  <2>. HIDE DEF sets
  <2>. QED  BY <1>1, <2>1, FS_StrictSubsetOrderingWellFounded, WFMin
<1>3. PICK k \in Nat \ S : A = upto(k)
  <2>. HIDE DEF upto
  <2>. QED  OBVIOUS
<1>4. k - 1 \in Nat \ S
  <2>1. k # 0
    OBVIOUS
  <2>2. k - 1 \in Nat /\ (k - 1) + 1 = k
    BY <2>1
  <2>. QED  BY <2>2
<1>5. upto(k - 1) \subseteq upto(k) /\ k \in upto(k) /\ k \notin upto(k - 1)
  BY <1>4
<1>6. upto(k) \subseteq Nat /\ upto(k - 1) \in sets
  BY <1>4
<1>. HIDE DEF upto, sets
<1>7. <<upto(k - 1), A>> \in StrictSubsetOrdering(Nat)
  BY <1>3, <1>5, <1>6 DEF StrictSubsetOrdering
<1>. QED  BY <1>2, <1>6, <1>7

-----------------------------------------------------------------------------
(* Numbers.                                                                  *)

IsUnit(u) == u \in Int /\ 0 <= u /\ u < Plane

LEMMA ByteFacts == \A b \in Byte : b \in Int /\ 0 <= b /\ b < 256
BY SMT DEF Byte

LEMMA Bounds ==
    /\ Plane \in Int /\ MaxRune \in Int /\ 256 < Plane /\ Plane < MaxRune
    /\ MaxRune - Plane < 1024 * 1024 /\ Plane = 256 * 256 /\ 57343 < Plane
    /\ MaxRune = Plane + 1024 * 1023 + 1023
    /\ MaxRune \div Plane = 16 /\ MaxRune = 16 * Plane + 65535
BY SMT DEF Plane, MaxRune

\* Code points of texts.
Scalars == {c \in 0..MaxRune : c \notin Surrogates}

LEMMA ScalarFacts ==
    \A c \in Scalars : c \in Int /\ 0 <= c /\ c <= MaxRune /\ c \notin Surrogates
<1>. SUFFICES ASSUME NEW c \in Scalars
              PROVE  c \in Int /\ 0 <= c /\ c <= MaxRune /\ c \notin Surrogates
  OBVIOUS
<1>1. c \in 0..MaxRune /\ c \notin Surrogates
  BY DEF Scalars
<1>2. MaxRune \in Int
  BY SMT DEF MaxRune
<1>3. c \in Int /\ 0 <= c /\ c <= MaxRune
  BY <1>1, <1>2
<1>. QED  BY <1>1, <1>3

LEMMA ScalarsAre ==
    ASSUME NEW c \in Int, 0 <= c, c <= MaxRune, c \notin Surrogates
    PROVE  c \in Scalars
<1>1. MaxRune \in Int
  BY SMT DEF MaxRune
<1>2. c \in 0..MaxRune
  BY <1>1
<1>. QED  BY <1>2 DEF Scalars

LEMMA HighFacts == \A c : c \in HighUnits <=> c \in Int /\ 55296 <= c /\ c <= 56319
BY SMT DEF HighUnits

LEMMA LowFacts == \A c : c \in LowUnits <=> c \in Int /\ 56320 <= c /\ c <= 57343
BY SMT DEF LowUnits

LEMMA SurrogateFacts ==
    \A c : c \in Surrogates <=> c \in Int /\ 55296 <= c /\ c <= 57343
<1>1. \A c : c \in Surrogates <=> c \in HighUnits \/ c \in LowUnits
  BY DEF Surrogates
<1>. QED  BY <1>1, HighFacts, LowFacts, SMT

LEMMA Division ==
    ASSUME NEW m \in Int
    PROVE  /\ m = 256 * (m \div 256) + (m % 256)
           /\ m \div 256 \in Int /\ m % 256 \in Int /\ 0 <= m % 256 /\ m % 256 < 256
           /\ m = 1024 * (m \div 1024) + (m % 1024)
           /\ m \div 1024 \in Int /\ m % 1024 \in Int /\ 0 <= m % 1024 /\ m % 1024 < 1024
           /\ m = Plane * (m \div Plane) + (m % Plane)
           /\ m \div Plane \in Int /\ m % Plane \in Int
           /\ 0 <= m % Plane /\ m % Plane < Plane
BY SMT DEF Plane

\* A code point beyond the first plane is a pair of surrogates, and that pair
\* is this code point.
LEMMA PairOfUnit ==
    ASSUME NEW c \in Scalars, c >= Plane
    PROVE  High(c) \in HighUnits /\ Low(c) \in LowUnits /\ Combine(High(c), Low(c)) = c
<1>. DEFINE m == c - Plane
            q == m \div 1024
            r == m % 1024
<1>1. m \in Int /\ m >= 0 /\ m < 1024 * 1024 /\ c = m + Plane /\ Plane \in Int
  BY ScalarFacts, Bounds, SMT
<1>2. High(c) = 55296 + q /\ Low(c) = 56320 + r
  BY DEF High, Low
<1>3. m = 1024 * q + r /\ q \in Int /\ r \in Int /\ 0 <= r /\ r < 1024
  BY <1>1, Division, SMT
<1>. HIDE DEF q, r, m
<1>4. q \in Int /\ 0 <= q /\ q < 1024
  BY <1>1, <1>3, SMT
<1>5. High(c) \in HighUnits /\ Low(c) \in LowUnits
  BY <1>2, <1>3, <1>4, HighFacts, LowFacts, SMT
<1>6. Combine(High(c), Low(c)) = Plane + q * 1024 + r
  BY <1>1, <1>2, <1>3, <1>4, SMT DEF Combine
<1>. QED  BY <1>1, <1>3, <1>4, <1>5, <1>6, SMT

\* A pair of surrogates is a code point, and its pair is this one.
LEMMA UnitOfPair ==
    ASSUME NEW h \in HighUnits, NEW l \in LowUnits
    PROVE  /\ Combine(h, l) \in Scalars /\ Combine(h, l) >= Plane
           /\ High(Combine(h, l)) = h /\ Low(Combine(h, l)) = l
<1>. DEFINE q == h - 55296
            r == l - 56320
            c == Combine(h, l)
<1>1. /\ q \in Int /\ 0 <= q /\ q < 1024 /\ r \in Int /\ 0 <= r /\ r < 1024
      /\ h = 55296 + q /\ l = 56320 + r
  BY HighFacts, LowFacts, SMT
<1>2. c = Plane + q * 1024 + r
  BY DEF Combine
<1>. HIDE DEF q, r, c
<1>3. c - Plane = 1024 * q + r /\ c \in Int /\ c >= Plane /\ c <= MaxRune
  BY <1>1, <1>2, Bounds, SMT
<1>4. (c - Plane) \div 1024 = q /\ (c - Plane) % 1024 = r
  BY <1>1, <1>3, SMT
<1>5. c \in Scalars
  BY <1>3, Bounds, ScalarsAre, SurrogateFacts, SMT
<1>. QED  BY <1>1, <1>3, <1>4, <1>5, SMT DEF High, Low, c

\* A unit is two bytes, which are read as this unit.
LEMMA EncodedUnit ==
    ASSUME NEW u, IsUnit(u), NEW big \in BOOLEAN
    PROVE  \E a, b \in Byte : EncodeUnit(u, big) = <<a, b>> /\ Uint16(a, b, big) = u
<1>. DEFINE q == u \div 256
            r == u % 256
<1>1. u = 256 * q + r /\ q \in Int /\ r \in Int /\ 0 <= r /\ r < 256
  BY Division DEF IsUnit
<1>2. EncodeUnit(u, big) = IF big THEN <<q, r>> ELSE <<r, q>>
  BY DEF EncodeUnit
<1>. HIDE DEF q, r
<1>3. 0 <= q /\ q < 256
  <2>1. u \in Int /\ 0 <= u /\ u < 256 * 256
    BY Bounds, SMT DEF IsUnit
  <2>. QED  BY <1>1, <2>1, SMT
<1>4. q \in Byte /\ r \in Byte
  BY <1>1, <1>3, SMT DEF Byte
<1>5. CASE big
  BY <1>1, <1>2, <1>4, <1>5 DEF Uint16
<1>6. CASE ~big
  BY <1>1, <1>2, <1>4, <1>6 DEF Uint16
<1>. QED  BY <1>5, <1>6

\* Two bytes are a unit, which is written as these bytes.
LEMMA DecodedUnit ==
    ASSUME NEW a \in Byte, NEW b \in Byte, NEW big \in BOOLEAN
    PROVE  /\ IsUnit(Uint16(a, b, big))
           /\ EncodeUnit(Uint16(a, b, big), big) = <<a, b>>
<1>1. ASSUME NEW x \in Byte, NEW y \in Byte
      PROVE  /\ IsUnit(256 * x + y)
             /\ (256 * x + y) \div 256 = x /\ (256 * x + y) % 256 = y
  <2>1. x \in Int /\ 0 <= x /\ x < 256 /\ y \in Int /\ 0 <= y /\ y < 256
    BY ByteFacts
  <2>2. /\ 256 * x + y \in Int /\ 0 <= 256 * x + y /\ 256 * x + y < 256 * 256
        /\ (256 * x + y) \div 256 = x /\ (256 * x + y) % 256 = y
    BY <2>1, SMT
  <2>. QED  BY <2>2, Bounds, SMT DEF IsUnit
<1>2. CASE big
  BY <1>1, <1>2 DEF Uint16, EncodeUnit
<1>3. CASE ~big
  BY <1>1, <1>3 DEF Uint16, EncodeUnit
<1>. QED  BY <1>2, <1>3

-----------------------------------------------------------------------------
(* What is left of a sequence.                                               *)

Rest(s, k) == SubSeq(s, k, Len(s))

LEMMA RestTyped ==
    ASSUME NEW S, NEW s \in Seq(S), NEW k \in 1..(Len(s) + 1)
    PROVE  /\ Rest(s, k) \in Seq(S) /\ Len(Rest(s, k)) = Len(s) - k + 1
           /\ \A j \in 1..(Len(s) - k + 1) : Rest(s, k)[j] = s[k + j - 1]
<1>1. Len(s) \in Nat /\ \A i \in 1..Len(s) : s[i] \in S
  BY LenProperties, ElementOfSeq
<1>2. \A i \in k..Len(s) : s[i] \in S
  BY <1>1
<1>. QED  BY <1>1, <1>2, SubSeqProperties DEF Rest

LEMMA RestAll ==
    ASSUME NEW S, NEW s \in Seq(S)
    PROVE  Rest(s, 1) = s /\ Rest(s, Len(s) + 1) = <<>>
<1>1. Len(s) \in Nat
  BY LenProperties
<1>2. SubSeq(s, 1, Len(s)) = s
  BY SubSeqFull
<1>3. SubSeq(s, Len(s) + 1, Len(s)) = <<>>
  BY <1>1, SubSeqEmpty
<1>. QED  BY <1>2, <1>3 DEF Rest

\* t with two in front.
ConsTwo(a, b, t) == <<a, b>> \o t

\* x begins with a and goes on with t.
IsCons(x, a, t) ==
    /\ Len(x) = Len(t) + 1 /\ x[1] = a
    /\ \A i \in 1..Len(t) : x[i + 1] = t[i]

LEMMA ConsFacts ==
    ASSUME NEW S, NEW a \in S, NEW t \in Seq(S)
    PROVE  Cons(a, t) \in Seq(S) /\ IsCons(Cons(a, t), a, t)
<1>1. /\ Len(t) \in Nat /\ <<a>> \in Seq(S) /\ Len(<<a>>) = 1 /\ <<a>>[1] = a
  BY LenProperties
<1>. DEFINE one == <<a>>
<1>. HIDE DEF one
<1>2. one \in Seq(S) /\ Len(one) = 1 /\ one[1] = a
  BY <1>1 DEF one
<1>3. /\ one \o t \in Seq(S) /\ Len(one \o t) = Len(one) + Len(t)
      /\ \A i \in 1..(Len(one) + Len(t)) :
            (one \o t)[i] = IF i <= Len(one) THEN one[i] ELSE t[i - Len(one)]
  BY <1>2, ConcatProperties, Zenon
<1>4. Cons(a, t) = one \o t
  BY DEF Cons, one
<1>. QED  BY <1>1, <1>2, <1>3, <1>4 DEF IsCons

LEMMA ConsTwoIsCons ==
    ASSUME NEW S, NEW a \in S, NEW b \in S, NEW t \in Seq(S)
    PROVE  ConsTwo(a, b, t) = Cons(a, Cons(b, t)) /\ ConsTwo(a, b, t) \in Seq(S)
<1>. DEFINE ab == <<a, b>>
            one == <<a>>
            two == <<b>>
<1>1. /\ ab \in Seq(S) /\ Len(ab) = 2 /\ ab[1] = a /\ ab[2] = b
      /\ one \in Seq(S) /\ Len(one) = 1 /\ one[1] = a
      /\ two \in Seq(S) /\ Len(two) = 1 /\ two[1] = b
  OBVIOUS
<1>2. /\ ConsTwo(a, b, t) = ab \o t
      /\ Cons(a, Cons(b, t)) = one \o (two \o t)
  BY DEF ConsTwo, Cons
<1>. HIDE DEF ab, one, two
<1>3. /\ one \o two \in Seq(S) /\ Len(one \o two) = 2
      /\ \A i \in 1..2 : (one \o two)[i] = IF i <= 1 THEN one[i] ELSE two[i - 1]
  BY <1>1, ConcatProperties
<1>4. \A i \in 1..2 : (one \o two)[i] = ab[i]
  BY <1>1, <1>3
<1>5. ab = one \o two
  BY <1>1, <1>3, <1>4, SeqEqual
<1>6. (one \o two) \o t = one \o (two \o t)
  BY <1>1, ConcatAssociative
<1>7. ab \o t \in Seq(S)
  BY <1>1, ConcatProperties
<1>. QED  BY <1>2, <1>5, <1>6, <1>7, Zenon

LEMMA RestOne ==
    ASSUME NEW S, NEW s \in Seq(S), NEW k \in 1..Len(s)
    PROVE  s[k] \in S /\ Rest(s, k) = Cons(s[k], Rest(s, k + 1))
<1>1. Len(s) \in Nat /\ Len(s) \in k..Len(s)
  BY LenProperties
<1>. QED  BY <1>1, SubSeqRecursiveFirst, ElementOfSeq DEF Rest, Cons

LEMMA ConsEqual ==
    ASSUME NEW S, NEW a \in S, NEW b \in S, NEW t \in Seq(S), NEW u \in Seq(S),
           Cons(a, t) = Cons(b, u)
    PROVE  a = b /\ t = u
<1>. DEFINE x == Cons(a, t)
<1>1. IsCons(x, a, t)
  BY ConsFacts
<1>2. IsCons(x, b, u)
  BY ConsFacts
<1>. HIDE DEF x
<1>3. Len(t) = Len(u) /\ a = b
  <2>1. Len(t) \in Nat /\ Len(u) \in Nat
    BY LenProperties
  <2>. QED  BY <1>1, <1>2, <2>1 DEF IsCons
<1>4. \A i \in 1..Len(t) : t[i] = u[i]
  BY <1>1, <1>2, <1>3 DEF IsCons
<1>. QED  BY <1>3, <1>4, SeqEqual

LEMMA RestIs ==
    ASSUME NEW S, NEW s \in Seq(S), NEW k \in 1..(Len(s) + 1),
           NEW a \in S, NEW t \in Seq(S), Rest(s, k) = Cons(a, t)
    PROVE  k \in 1..Len(s) /\ s[k] = a /\ Rest(s, k + 1) = t
<1>1. Len(s) \in Nat /\ Len(t) \in Nat
  BY LenProperties
<1>2. Len(Cons(a, t)) = Len(t) + 1
  BY ConsFacts DEF IsCons
<1>3. k \in 1..Len(s)
  BY <1>1, <1>2, RestTyped
<1>4. s[k] \in S /\ Cons(s[k], Rest(s, k + 1)) = Cons(a, t)
  BY <1>3, RestOne
<1>5. k + 1 \in 1..(Len(s) + 1)
  BY <1>1, <1>3
<1>6. Rest(s, k + 1) \in Seq(S)
  BY <1>5, RestTyped
<1>. QED  BY <1>3, <1>4, <1>6, ConsEqual

LEMMA RestTwo ==
    ASSUME NEW S, NEW s \in Seq(S), NEW k \in 1..Len(s), k + 1 <= Len(s)
    PROVE  /\ s[k] \in S /\ s[k + 1] \in S
           /\ Rest(s, k) = ConsTwo(s[k], s[k + 1], Rest(s, k + 2))
<1>1. /\ Len(s) \in Nat /\ k + 1 \in 1..Len(s) /\ k + 2 \in 1..(Len(s) + 1)
      /\ (k + 1) + 1 = k + 2
  BY LenProperties
<1>2. s[k] \in S /\ Rest(s, k) = Cons(s[k], Rest(s, k + 1))
  BY RestOne
<1>3. s[k + 1] \in S /\ Rest(s, k + 1) = Cons(s[k + 1], Rest(s, (k + 1) + 1))
  BY <1>1, RestOne
<1>4. Rest(s, k + 2) \in Seq(S)
  BY <1>1, RestTyped
<1>. QED  BY <1>1, <1>2, <1>3, <1>4, ConsTwoIsCons

LEMMA RestIsTwo ==
    ASSUME NEW S, NEW s \in Seq(S), NEW k \in 1..(Len(s) + 1),
           NEW a \in S, NEW b \in S, NEW t \in Seq(S), Rest(s, k) = ConsTwo(a, b, t)
    PROVE  /\ k + 1 \in 1..Len(s) /\ s[k] = a /\ s[k + 1] = b
           /\ Rest(s, k + 2) = t
<1>1. ConsTwo(a, b, t) = Cons(a, Cons(b, t)) /\ Cons(b, t) \in Seq(S)
  BY ConsTwoIsCons, ConsFacts
<1>2. k \in 1..Len(s) /\ s[k] = a /\ Rest(s, k + 1) = Cons(b, t)
  BY <1>1, RestIs
<1>3. Len(s) \in Nat /\ k + 1 \in 1..(Len(s) + 1) /\ (k + 1) + 1 = k + 2
  BY <1>2, LenProperties
<1>4. k + 1 \in 1..Len(s) /\ s[k + 1] = b /\ Rest(s, (k + 1) + 1) = t
  BY <1>2, <1>3, RestIs
<1>. QED  BY <1>2, <1>3, <1>4

-----------------------------------------------------------------------------
(* The recursive functions are what their definitions say.                   *)

\* Encoded does what its definition says.
LEMMA EncodedIs ==
    ASSUME NEW text, Len(text) \in Nat, NEW e
    PROVE  /\ Encoded(text, e)[0] = <<>>
           /\ \A n \in 1..Len(text) :
                 Encoded(text, e)[n] = Encoded(text, e)[n - 1] \o EncodeRune(text[n], e)
<1>. DEFINE Upto(f, n) == IF n = 0 THEN <<>> ELSE f[n - 1] \o EncodeRune(text[n], e)
            Is(f, k) == f = [n \in 0..k |-> Upto(f, n)]
            S == {k \in Nat : \E f : Is(f, k)}
<1>1. 0 \in S
  <2>1. Is([n \in 0..0 |-> <<>>], 0)
    OBVIOUS
  <2>. QED  BY <2>1
<1>2. ASSUME NEW k \in S PROVE k + 1 \in S
  <2>1. PICK f : Is(f, k)
    OBVIOUS
  <2>. DEFINE g == [n \in 0..(k + 1) |-> Upto(f, n)]
  <2>2. \A n \in 0..k : g[n] = f[n]
    BY <2>1
  <2>3. \A n \in 0..(k + 1) : Upto(g, n) = Upto(f, n)
    <3>1. \A n \in 0..(k + 1) : n = 0 \/ n - 1 \in 0..k
      OBVIOUS
    <3>. HIDE DEF g
    <3>. QED  BY <2>2, <3>1
  <2>4. Is(g, k + 1)
    <3>. HIDE DEF Upto
    <3>. QED  BY <2>3
  <2>5. k + 1 \in Nat
    OBVIOUS
  <2>. QED  BY <2>4, <2>5
<1>3. \E f : Is(f, Len(text))
  <2>1. S \in SUBSET Nat
    OBVIOUS
  <2>. HIDE DEF S, Is
  <2>2. S = Nat
    BY <1>1, <1>2, <2>1, Counting
  <2>. QED  BY <2>2 DEF S
<1>. DEFINE f == Encoded(text, e)
<1>4. f = CHOOSE g : Is(g, Len(text))
  BY DEF Encoded
<1>5. Is(f, Len(text))
  <2>. HIDE DEF Is, f
  <2>. QED  BY <1>3, <1>4, Zenon
<1>6. \A n \in 0..Len(text) : f[n] = Upto(f, n)
  <2>. HIDE DEF f, Upto
  <2>. QED  BY <1>5
<1>. HIDE DEF f
<1>7. f[0] = <<>> /\ \A n \in 1..Len(text) : f[n] = f[n - 1] \o EncodeRune(text[n], e)
  <2>1. 0 \in 0..Len(text) /\ \A n \in 1..Len(text) : n \in 0..Len(text) /\ n # 0
    OBVIOUS
  <2>2. f[0] = Upto(f, 0) /\ \A n \in 1..Len(text) : f[n] = Upto(f, n) /\ n # 0
    <3>. HIDE DEF Upto
    <3>. QED  BY <1>6, <2>1
  <2>. QED  BY <2>2
<1>. QED  BY <1>7 DEF f

\* What the text from a unit on is, of the texts from later units on.
RunesAt(f, units, i) ==
    LET n == Len(units) IN
    IF i = n + 1 THEN <<>>
    ELSE IF units[i] \in HighUnits
    THEN IF i < n /\ units[i + 1] \in LowUnits /\ f[i + 2] # Invalid
         THEN <<Combine(units[i], units[i + 1])>> \o f[i + 2]
         ELSE Invalid
    ELSE IF units[i] \notin LowUnits /\ f[i + 1] # Invalid
    THEN <<units[i]>> \o f[i + 1]
    ELSE Invalid

\* And so does RunesFrom.
LEMMA RunesAre ==
    ASSUME NEW units, Len(units) \in Nat
    PROVE  \A i \in 1..(Len(units) + 1) :
              RunesFrom(units)[i] = RunesAt(RunesFrom(units), units, i)
<1>. DEFINE N == Len(units)
            Is(f, k) == f = [i \in k..(N + 1) |-> RunesAt(f, units, i)]
            S == {k \in Nat : k <= N => \E f : Is(f, N + 1 - k)}
<1>0. N \in Nat
  OBVIOUS
<1>. HIDE DEF N
<1>1. 0 \in S
  <2>. DEFINE g == [i \in (N + 1)..(N + 1) |-> <<>>]
  <2>1. \A i \in (N + 1)..(N + 1) : RunesAt(g, units, i) = <<>>
    BY <1>0 DEF RunesAt, N
  <2>2. Is(g, N + 1)
    BY <2>1
  <2>3. N + 1 - 0 = N + 1
    BY <1>0
  <2>. HIDE DEF Is, g
  <2>. QED  BY <2>2, <2>3
<1>2. ASSUME NEW k \in S PROVE k + 1 \in S
  <2>. SUFFICES ASSUME k + 1 <= N PROVE \E f : Is(f, N + 1 - (k + 1))
    OBVIOUS
  <2>1. PICK f : Is(f, N + 1 - k)
    BY <1>0
  <2>. DEFINE m == N + 1 - (k + 1)
              g == [i \in m..(N + 1) |-> RunesAt(f, units, i)]
  <2>2. m \in Nat /\ m >= 1 /\ N + 1 - k = m + 1 /\ m <= N
    BY <1>0
  <2>. HIDE DEF m
  <2>3. \A i \in (m + 1)..(N + 1) : g[i] = f[i]
    <3>. HIDE DEF RunesAt
    <3>. QED  BY <1>0, <2>1, <2>2
  <2>4. \A i \in m..(N + 1) : RunesAt(g, units, i) = RunesAt(f, units, i)
    <3>. SUFFICES ASSUME NEW i \in m..(N + 1)
                  PROVE  RunesAt(g, units, i) = RunesAt(f, units, i)
      OBVIOUS
    <3>. HIDE DEF g
    <3>1. i # N + 1 => g[i + 1] = f[i + 1]
      BY <1>0, <2>2, <2>3
    <3>2. i < N => g[i + 2] = f[i + 2]
      BY <1>0, <2>2, <2>3
    <3>. QED  BY <3>1, <3>2 DEF RunesAt, N
  <2>5. Is(g, m)
    <3>. HIDE DEF RunesAt
    <3>. QED  BY <2>4
  <2>. QED  BY <2>5 DEF m
<1>3. \E f : Is(f, 1)
  <2>1. S \in SUBSET Nat
    OBVIOUS
  <2>. HIDE DEF S, Is
  <2>2. S = Nat
    BY <1>1, <1>2, <2>1, Counting
  <2>3. N \in S /\ N <= N
    BY <1>0, <2>2
  <2>4. \E f : Is(f, N + 1 - N)
    BY <2>3 DEF S
  <2>5. N + 1 - N = 1
    BY <1>0
  <2>. QED  BY <2>4, <2>5
<1>. DEFINE f == RunesFrom(units)
<1>4. f = CHOOSE g : Is(g, 1)
  BY DEF RunesFrom, RunesAt, N
<1>5. Is(f, 1)
  <2>. HIDE DEF Is, f
  <2>. QED  BY <1>3, <1>4, Zenon
<1>. HIDE DEF f
<1>6. \A i \in 1..(N + 1) : f[i] = RunesAt(f, units, i)
  BY <1>5
<1>. QED  BY <1>6 DEF f, N

-----------------------------------------------------------------------------
(* What a text is encoded as.                                                *)

WideEncodings == [width : {2, 4}, big : BOOLEAN]

LEMMA ScalarUnits ==
    ASSUME NEW c \in Scalars
    PROVE  /\ c < Plane => IsUnit(c)
           /\ c >= Plane => IsUnit(High(c)) /\ IsUnit(Low(c))
           /\ IsUnit(c \div Plane) /\ IsUnit(c % Plane)
<1>1. c \in Int /\ 0 <= c /\ c <= MaxRune
  BY ScalarFacts
<1>2. c < Plane => IsUnit(c)
  BY <1>1, SMT DEF IsUnit
<1>3. c >= Plane => IsUnit(High(c)) /\ IsUnit(Low(c))
  BY PairOfUnit, HighFacts, LowFacts, Bounds, SMT DEF IsUnit
<1>4. IsUnit(c \div Plane) /\ IsUnit(c % Plane)
  <2>. DEFINE q == c \div Plane
              r == c % Plane
  <2>1. c = Plane * q + r /\ q \in Int /\ r \in Int /\ 0 <= r /\ r < Plane
    BY <1>1, Division, SMT
  <2>. HIDE DEF q, r
  <2>2. 0 <= q /\ q < Plane
    BY <1>1, <2>1, SMT DEF Plane, MaxRune
  <2>3. IsUnit(q) /\ IsUnit(r)
    BY <2>1, <2>2 DEF IsUnit
  <2>. QED  BY <2>3 DEF q, r
<1>. QED  BY <1>2, <1>3, <1>4

LEMMA UnitTyped ==
    ASSUME NEW u, IsUnit(u), NEW big \in BOOLEAN
    PROVE  EncodeUnit(u, big) \in Seq(Byte) /\ Len(EncodeUnit(u, big)) = 2
<1>1. PICK a \in Byte, b \in Byte : EncodeUnit(u, big) = <<a, b>>
  BY EncodedUnit
<1>2. <<a, b>> \in Seq(Byte) /\ Len(<<a, b>>) = 2
  OBVIOUS
<1>. QED  BY <1>1, <1>2

LEMMA RuneIs ==
    ASSUME NEW c \in Int, NEW e \in WideEncodings
    PROVE  /\ e.big \in BOOLEAN /\ e.width \in {2, 4}
           /\ e.width = 2 /\ c < Plane => EncodeRune(c, e) = EncodeUnit(c, e.big)
           /\ e.width = 2 /\ c >= Plane =>
                 EncodeRune(c, e) = EncodeUnit(High(c), e.big) \o EncodeUnit(Low(c), e.big)
           /\ e.width = 4 /\ e.big =>
                 EncodeRune(c, e) = EncodeUnit(c \div Plane, TRUE) \o EncodeUnit(c % Plane, TRUE)
           /\ e.width = 4 /\ ~e.big =>
                 EncodeRune(c, e) = EncodeUnit(c % Plane, FALSE) \o EncodeUnit(c \div Plane, FALSE)
<1>. DEFINE units == IF e.width = 2 THEN <<High(c), Low(c)>> ELSE <<c \div Plane, c % Plane>>
            a == EncodeUnit(c, e.big)
            f == EncodeUnit(units[1], e.big) \o EncodeUnit(units[2], e.big)
            g == EncodeUnit(units[2], e.big) \o EncodeUnit(units[1], e.big)
<1>1. e.big \in BOOLEAN /\ e.width \in {2, 4}
  BY DEF WideEncodings
<1>2. EncodeRune(c, e) = IF e.width = 2 /\ c < Plane THEN a
                         ELSE IF e.width = 2 \/ e.big THEN f ELSE g
  BY DEF EncodeRune
<1>3. /\ e.width = 2 => units[1] = High(c) /\ units[2] = Low(c)
      /\ e.width = 4 => units[1] = c \div Plane /\ units[2] = c % Plane
  OBVIOUS
<1>. HIDE DEF units
<1>4. /\ e.width = 2 => f = EncodeUnit(High(c), e.big) \o EncodeUnit(Low(c), e.big)
      /\ e.width = 4 /\ e.big =>
            f = EncodeUnit(c \div Plane, TRUE) \o EncodeUnit(c % Plane, TRUE)
      /\ e.width = 4 /\ ~e.big =>
            g = EncodeUnit(c % Plane, FALSE) \o EncodeUnit(c \div Plane, FALSE)
  <2>1. e.big \in BOOLEAN /\ (e.big => e.big = TRUE) /\ (~e.big => e.big = FALSE)
    BY <1>1
  <2>. QED  BY <1>3, <2>1, Zenon
<1>. HIDE DEF f, g
<1>5. /\ e.width = 2 /\ c < Plane => EncodeRune(c, e) = a
      /\ e.width = 2 /\ c >= Plane => EncodeRune(c, e) = f
      /\ e.width = 4 /\ e.big => EncodeRune(c, e) = f
      /\ e.width = 4 /\ ~e.big => EncodeRune(c, e) = g
  <2>1. e.width = 4 => e.width # 2
    BY <1>1
  <2>2. c >= Plane => ~(c < Plane)
    BY Bounds, SMT
  <2>. QED  BY <1>2, <2>1, <2>2, Zenon
<1>. QED  BY <1>1, <1>4, <1>5, Zenon

LEMMA RuneTyped ==
    ASSUME NEW c \in Scalars, NEW e \in WideEncodings
    PROVE  /\ EncodeRune(c, e) \in Seq(Byte)
           /\ e.width = 4 => Len(EncodeRune(c, e)) = 4
<1>1. c \in Int /\ e.big \in BOOLEAN /\ (e.width = 2 \/ e.width = 4)
  BY ScalarFacts, RuneIs
<1>2. ASSUME NEW u, IsUnit(u), NEW v, IsUnit(v), NEW big \in BOOLEAN
      PROVE  /\ EncodeUnit(u, big) \o EncodeUnit(v, big) \in Seq(Byte)
             /\ Len(EncodeUnit(u, big) \o EncodeUnit(v, big)) = 4
  <2>. DEFINE s == EncodeUnit(u, big)
              t == EncodeUnit(v, big)
  <2>1. s \in Seq(Byte) /\ Len(s) = 2 /\ t \in Seq(Byte) /\ Len(t) = 2
    BY <1>2, UnitTyped
  <2>. HIDE DEF s, t
  <2>2. s \o t \in Seq(Byte) /\ Len(s \o t) = Len(s) + Len(t)
    BY <2>1, ConcatProperties, Zenon
  <2>3. Len(s) + Len(t) = 4
    BY <2>1
  <2>4. s \o t \in Seq(Byte) /\ Len(s \o t) = 4
    BY <2>2, <2>3, Zenon
  <2>. QED  BY <2>4 DEF s, t
<1>3. CASE e.width = 2 /\ c < Plane
  <2>1. EncodeRune(c, e) = EncodeUnit(c, e.big)
    BY <1>1, <1>3, RuneIs
  <2>. QED  BY <1>1, <1>3, <2>1, ScalarUnits, UnitTyped
<1>4. CASE e.width = 2 /\ c >= Plane
  <2>1. EncodeRune(c, e) = EncodeUnit(High(c), e.big) \o EncodeUnit(Low(c), e.big)
    BY <1>1, <1>4, RuneIs
  <2>2. EncodeRune(c, e) \in Seq(Byte)
    BY <1>1, <1>2, <1>4, <2>1, ScalarUnits, Zenon
  <2>. QED  BY <1>4, <2>2
<1>5. CASE e.width = 4 /\ e.big
  <2>1. EncodeRune(c, e) = EncodeUnit(c \div Plane, TRUE) \o EncodeUnit(c % Plane, TRUE)
    BY <1>1, <1>5, RuneIs, Zenon
  <2>. QED  BY <2>1, <1>2, ScalarUnits, Zenon
<1>6. CASE e.width = 4 /\ ~e.big
  <2>1. EncodeRune(c, e) = EncodeUnit(c % Plane, FALSE) \o EncodeUnit(c \div Plane, FALSE)
    BY <1>1, <1>6, RuneIs, Zenon
  <2>. QED  BY <2>1, <1>2, ScalarUnits, Zenon
<1>7. c < Plane \/ c >= Plane
  BY <1>1, Bounds, SMT
<1>. QED  BY <1>1, <1>3, <1>4, <1>5, <1>6, <1>7

IsAssociative(r, p, q) == (r \o p) \o q = r \o (p \o q)

LEMMA Associative ==
    ASSUME NEW r \in Seq(Byte), NEW p \in Seq(Byte), NEW q \in Seq(Byte)
    PROVE  IsAssociative(r, p, q)
BY ConcatAssociative DEF IsAssociative

\* What is written are bytes, four for each code point in UTF-32.
LEMMA EncodedTyped ==
    ASSUME NEW text \in Seq(Scalars), NEW e \in WideEncodings
    PROVE  \A n \in 0..Len(text) :
              /\ Encoded(text, e)[n] \in Seq(Byte)
              /\ e.width = 4 => Len(Encoded(text, e)[n]) = 4 * n
<1>. DEFINE f == Encoded(text, e)
            P(n) == f[n] \in Seq(Byte) /\ (e.width = 4 => Len(f[n]) = 4 * n)
            S == {n \in Nat : n <= Len(text) => P(n)}
<1>0. Len(text) \in Nat
  BY LenProperties
<1>1. /\ f[0] = <<>>
      /\ \A n \in 1..Len(text) : f[n] = f[n - 1] \o EncodeRune(text[n], e)
  BY <1>0, EncodedIs
<1>. HIDE DEF f
<1>2. 0 \in S
  <2>1. <<>> \in Seq(Byte) /\ Len(<<>>) = 0 /\ 4 * 0 = 0
    OBVIOUS
  <2>2. P(0)
    BY <1>1, <2>1, Zenon
  <2>. QED  BY <2>2
<1>3. ASSUME NEW n \in S PROVE n + 1 \in S
  <2>. SUFFICES ASSUME n + 1 <= Len(text) PROVE P(n + 1)
    OBVIOUS
  <2>1. n + 1 \in 1..Len(text) /\ n <= Len(text) /\ (n + 1) - 1 = n /\ n \in Nat
    BY <1>0
  <2>2. P(n)
    BY <2>1
  <2>. DEFINE r == EncodeRune(text[n + 1], e)
  <2>3. f[n + 1] = f[n] \o r
    BY <1>1, <2>1
  <2>4. r \in Seq(Byte) /\ (e.width = 4 => Len(r) = 4)
    BY <2>1, ElementOfSeq, RuneTyped
  <2>. HIDE DEF r
  <2>. DEFINE p == f[n]
              q == f[n + 1]
  <2>5. p \in Seq(Byte) /\ (e.width = 4 => Len(p) = 4 * n)
    BY <2>2
  <2>. HIDE DEF p, q
  <2>6. q \in Seq(Byte) /\ Len(q) = Len(p) + Len(r)
    <3>1. p \o r \in Seq(Byte) /\ Len(p \o r) = Len(p) + Len(r)
      BY <2>4, <2>5, ConcatProperties, Zenon
    <3>2. q = p \o r
      BY <2>3 DEF p, q
    <3>. QED  BY <3>1, <3>2, Zenon
  <2>7. e.width = 4 => Len(q) = 4 * (n + 1)
    <3>. SUFFICES ASSUME e.width = 4 PROVE Len(q) = 4 * (n + 1)
      OBVIOUS
    <3>1. Len(p) = 4 * n /\ Len(r) = 4 /\ Len(q) = Len(p) + Len(r)
      BY <2>4, <2>5, <2>6, Zenon
    <3>2. 4 * (n + 1) = 4 * n + 4
      BY <2>1
    <3>. QED  BY <3>1, <3>2, Zenon
  <2>8. q \in Seq(Byte) /\ (e.width = 4 => Len(q) = 4 * (n + 1))
    BY <2>6, <2>7
  <2>. QED  BY <2>8 DEF q
<1>4. S = Nat
  <2>1. S \in SUBSET Nat
    OBVIOUS
  <2>. HIDE DEF S
  <2>. QED  BY <1>2, <1>3, <2>1, Counting
<1>5. \A n \in 0..Len(text) : P(n)
  <2>. HIDE DEF P
  <2>. QED  BY <1>0, <1>4
<1>. QED  BY <1>5 DEF f

LEMMA EncodeTyped ==
    ASSUME NEW text \in Seq(Scalars), NEW e \in WideEncodings
    PROVE  /\ EncodeWide(text, e) \in Seq(Byte)
           /\ e.width = 4 => Len(EncodeWide(text, e)) = 4 * Len(text)
<1>1. Len(text) \in 0..Len(text)
  BY LenProperties
<1>. QED  BY <1>1, EncodedTyped DEF EncodeWide

LEMMA EncodeNothing ==
    ASSUME NEW e
    PROVE  EncodeWide(<<>>, e) = <<>>
<1>1. Len(<<>>) = 0
  OBVIOUS
<1>. QED  BY <1>1, EncodedIs DEF EncodeWide

\* A text is encoded from its first code point on.
LEMMA EncodeCons ==
    ASSUME NEW c \in Scalars, NEW t \in Seq(Scalars), NEW e \in WideEncodings
    PROVE  EncodeWide(Cons(c, t), e) = EncodeRune(c, e) \o EncodeWide(t, e)
<1>. DEFINE x == Cons(c, t)
            f == Encoded(x, e)
            g == Encoded(t, e)
            r == EncodeRune(c, e)
            S == {n \in Nat : n <= Len(t) => f[n + 1] = r \o g[n]}
<1>0. /\ Len(t) \in Nat /\ x \in Seq(Scalars) /\ Len(x) = Len(t) + 1 /\ x[1] = c
      /\ \A i \in 1..Len(t) : x[i + 1] = t[i]
  <2>1. x \in Seq(Scalars) /\ IsCons(x, c, t) /\ Len(t) \in Nat
    BY LenProperties, ConsFacts
  <2>. HIDE DEF x
  <2>. QED  BY <2>1 DEF IsCons
<1>. HIDE DEF x
<1>1. /\ f[0] = <<>>
      /\ \A n \in 1..Len(x) : f[n] = f[n - 1] \o EncodeRune(x[n], e)
  <2>1. Len(x) \in Nat
    BY <1>0
  <2>. QED  BY <2>1, EncodedIs
<1>2. /\ g[0] = <<>>
      /\ \A n \in 1..Len(t) : g[n] = g[n - 1] \o EncodeRune(t[n], e)
  BY <1>0, EncodedIs
<1>3. r \in Seq(Byte) /\ \A n \in 0..Len(t) : g[n] \in Seq(Byte)
  BY RuneTyped, EncodedTyped
<1>. HIDE DEF f, g
<1>4. 0 \in S
  <2>1. 1 \in 1..Len(x) /\ 1 - 1 = 0 /\ 0 + 1 = 1
    BY <1>0
  <2>2. f[1] = <<>> \o r
    BY <1>0, <1>1, <2>1
  <2>3. <<>> \o r = r /\ r \o <<>> = r
    BY <1>3, ConcatEmptySeq
  <2>. HIDE DEF r
  <2>4. f[0 + 1] = r \o g[0]
    BY <1>2, <2>1, <2>2, <2>3
  <2>. QED  BY <2>4
<1>5. ASSUME NEW n \in S PROVE n + 1 \in S
  <2>. SUFFICES ASSUME n + 1 <= Len(t) PROVE f[(n + 1) + 1] = r \o g[n + 1]
    OBVIOUS
  <2>. DEFINE q == EncodeRune(t[n + 1], e)
  <2>1. /\ n \in Nat /\ n <= Len(t) /\ n + 1 \in 1..Len(t) /\ n + 2 \in 1..Len(x)
        /\ (n + 1) + 1 = n + 2 /\ (n + 2) - 1 = n + 1 /\ (n + 1) - 1 = n
        /\ n \in 0..Len(t)
    BY <1>0
  <2>2. f[n + 1] = r \o g[n]
    BY <2>1
  <2>3. x[n + 2] = t[n + 1]
    BY <1>0, <2>1
  <2>4. f[n + 2] = f[n + 1] \o q
    BY <1>1, <2>1, <2>3
  <2>5. g[n + 1] = g[n] \o q
    BY <1>2, <2>1
  <2>6. q \in Seq(Byte)
    BY <2>1, ElementOfSeq, RuneTyped
  <2>7. g[n] \in Seq(Byte)
    BY <1>3, <2>1
  <2>. HIDE DEF r, q
  <2>8. (r \o g[n]) \o q = r \o (g[n] \o q)
    <3>. DEFINE p == g[n]
    <3>1. r \in Seq(Byte) /\ p \in Seq(Byte) /\ q \in Seq(Byte)
      BY <1>3, <2>6, <2>7
    <3>. HIDE DEF p
    <3>2. IsAssociative(r, p, q)
      BY <3>1, Associative
    <3>. QED  BY <3>2, Zenon DEF p, IsAssociative
  <2>9. f[n + 2] = r \o g[n + 1]
    BY <2>2, <2>4, <2>5, <2>8, Zenon
  <2>. QED  BY <2>1, <2>9
<1>6. S = Nat
  <2>1. S \in SUBSET Nat
    OBVIOUS
  <2>. HIDE DEF S
  <2>. QED  BY <1>4, <1>5, <2>1, Counting
<1>7. f[Len(t) + 1] = r \o g[Len(t)]
  BY <1>0, <1>6
<1>. QED  BY <1>0, <1>7 DEF EncodeWide, f, g, x

-----------------------------------------------------------------------------
(* UTF-16.                                                                   *)

\* x is the unit u followed by y.
StartsWith(x, u, big, y) ==
    \E a, b \in Byte : x = ConsTwo(a, b, y) /\ Uint16(a, b, big) = u

LEMMA UnitFirst ==
    ASSUME NEW u, IsUnit(u), NEW big \in BOOLEAN, NEW y \in Seq(Byte)
    PROVE  /\ StartsWith(EncodeUnit(u, big) \o y, u, big, y)
           /\ EncodeUnit(u, big) \o y \in Seq(Byte)
<1>1. PICK a \in Byte, b \in Byte : EncodeUnit(u, big) = <<a, b>> /\ Uint16(a, b, big) = u
  BY EncodedUnit
<1>2. EncodeUnit(u, big) \o y = ConsTwo(a, b, y)
  BY <1>1 DEF ConsTwo
<1>3. ConsTwo(a, b, y) \in Seq(Byte)
  BY ConsTwoIsCons
<1>. QED  BY <1>1, <1>2, <1>3, Zenon DEF StartsWith

\* In UTF-16 a text begins with the unit, or the units, of its first code
\* point.
LEMMA EncodeSmall ==
    ASSUME NEW c \in Scalars, c < Plane, NEW t \in Seq(Scalars),
           NEW e \in WideEncodings, e.width = 2
    PROVE  StartsWith(EncodeWide(Cons(c, t), e), c, e.big, EncodeWide(t, e))
<1>1. EncodeRune(c, e) = EncodeUnit(c, e.big) /\ e.big \in BOOLEAN /\ IsUnit(c)
  BY ScalarFacts, RuneIs, ScalarUnits
<1>2. EncodeWide(t, e) \in Seq(Byte)
  BY EncodeTyped
<1>3. EncodeWide(Cons(c, t), e) = EncodeUnit(c, e.big) \o EncodeWide(t, e)
  BY <1>1, EncodeCons
<1>. QED  BY <1>1, <1>2, <1>3, UnitFirst, Zenon

LEMMA EncodeLarge ==
    ASSUME NEW c \in Scalars, c >= Plane, NEW t \in Seq(Scalars),
           NEW e \in WideEncodings, e.width = 2
    PROVE  \E y \in Seq(Byte) :
              /\ StartsWith(EncodeWide(Cons(c, t), e), High(c), e.big, y)
              /\ StartsWith(y, Low(c), e.big, EncodeWide(t, e))
<1>. DEFINE h == EncodeUnit(High(c), e.big)
            l == EncodeUnit(Low(c), e.big)
            z == EncodeWide(t, e)
            y == l \o z
<1>1. EncodeRune(c, e) = h \o l /\ e.big \in BOOLEAN
  BY ScalarFacts, RuneIs
<1>2. IsUnit(High(c)) /\ IsUnit(Low(c))
  BY ScalarUnits
<1>3. h \in Seq(Byte) /\ l \in Seq(Byte) /\ z \in Seq(Byte)
  BY <1>1, <1>2, EncodeTyped, UnitTyped
<1>4. EncodeWide(Cons(c, t), e) = (h \o l) \o z
  BY <1>1, EncodeCons
<1>5. (h \o l) \o z = h \o y
  <2>. HIDE DEF h, l, z
  <2>. QED  BY <1>3, ConcatAssociative
<1>6. StartsWith(y, Low(c), e.big, z) /\ y \in Seq(Byte)
  BY <1>1, <1>2, <1>3, UnitFirst, Zenon
<1>7. StartsWith(h \o y, High(c), e.big, y)
  <2>. HIDE DEF y
  <2>. QED  BY <1>1, <1>2, <1>6, UnitFirst, Zenon
<1>8. StartsWith(EncodeWide(Cons(c, t), e), High(c), e.big, y)
  <2>. HIDE DEF y, h, l, z
  <2>. QED  BY <1>4, <1>5, <1>7, Zenon
<1>. QED  BY <1>6, <1>8

\* The bytes from the unit i on.
From(data, i) == Rest(data, 2 * i - 1)

LEMMA UnitsAre ==
    ASSUME NEW data \in Seq(Byte), NEW n \in Nat, Len(data) = 2 * n, NEW big \in BOOLEAN
    PROVE  /\ Len(Units(data, big)) = n
           /\ \A i \in 1..n :
                 Units(data, big)[i] = Uint16(data[2 * i - 1], data[2 * i], big)
<1>1. Len(data) \div 2 = n
  BY SMT
<1>. QED  BY <1>1 DEF Units

\* The bytes from a unit on begin with this unit.
LEMMA UnitAt ==
    ASSUME NEW data \in Seq(Byte), NEW n \in Nat, Len(data) = 2 * n, NEW big \in BOOLEAN,
           NEW i \in 1..n
    PROVE  /\ StartsWith(From(data, i), Units(data, big)[i], big, From(data, i + 1))
           /\ IsUnit(Units(data, big)[i])
<1>. DEFINE k == 2 * i - 1
<1>1. k \in 1..Len(data) /\ k + 1 <= Len(data) /\ k + 1 = 2 * i /\ k + 2 = 2 * (i + 1) - 1
  BY SMT
<1>2. Units(data, big)[i] = Uint16(data[k], data[k + 1], big)
  BY <1>1, UnitsAre
<1>3. From(data, i) = Rest(data, k) /\ From(data, i + 1) = Rest(data, k + 2)
  BY <1>1 DEF From
<1>. HIDE DEF k
<1>4. /\ data[k] \in Byte /\ data[k + 1] \in Byte
      /\ Rest(data, k) = ConsTwo(data[k], data[k + 1], Rest(data, k + 2))
  BY <1>1, RestTwo
<1>. QED  BY <1>2, <1>3, <1>4, DecodedUnit DEF StartsWith

LEMMA UnitIs ==
    ASSUME NEW data \in Seq(Byte), NEW n \in Nat, Len(data) = 2 * n, NEW big \in BOOLEAN,
           NEW i \in 1..(n + 1), NEW u, NEW y \in Seq(Byte),
           StartsWith(From(data, i), u, big, y)
    PROVE  i \in 1..n /\ Units(data, big)[i] = u /\ From(data, i + 1) = y
<1>. DEFINE k == 2 * i - 1
<1>1. /\ k \in 1..(Len(data) + 1) /\ k + 1 = 2 * i /\ k + 2 = 2 * (i + 1) - 1
      /\ (k + 1 \in 1..Len(data) => i \in 1..n)
  BY SMT
<1>2. From(data, i) = Rest(data, k) /\ From(data, i + 1) = Rest(data, k + 2)
  BY <1>1 DEF From
<1>3. \A j \in 1..n : Units(data, big)[j] = Uint16(data[2 * j - 1], data[2 * j], big)
  BY UnitsAre
<1>4. i \in 1..n => Units(data, big)[i] = Uint16(data[k], data[k + 1], big)
  BY <1>1, <1>3
<1>. HIDE DEF k
<1>5. PICK a \in Byte, b \in Byte : Rest(data, k) = ConsTwo(a, b, y) /\ Uint16(a, b, big) = u
  BY <1>2 DEF StartsWith
<1>6. k + 1 \in 1..Len(data) /\ data[k] = a /\ data[k + 1] = b /\ Rest(data, k + 2) = y
  BY <1>1, <1>5, RestIsTwo
<1>. QED  BY <1>1, <1>2, <1>4, <1>5, <1>6

LEMMA FromEnds ==
    ASSUME NEW data \in Seq(Byte), NEW n \in Nat, Len(data) = 2 * n
    PROVE  /\ From(data, 1) = data /\ From(data, n + 1) = <<>>
           /\ \A i \in 1..(n + 1) : From(data, i) \in Seq(Byte)
<1>1. 2 * 1 - 1 = 1 /\ 2 * (n + 1) - 1 = Len(data) + 1
  BY SMT
<1>2. From(data, 1) = Rest(data, 1) /\ From(data, n + 1) = Rest(data, Len(data) + 1)
  BY <1>1 DEF From
<1>3. ASSUME NEW i \in 1..(n + 1) PROVE From(data, i) \in Seq(Byte)
  <2>. DEFINE k == 2 * i - 1
  <2>1. k \in 1..(Len(data) + 1)
    BY SMT
  <2>. HIDE DEF k
  <2>2. Rest(data, k) \in Seq(Byte)
    BY <2>1, RestTyped
  <2>. QED  BY <2>2 DEF From, k
<1>. QED  BY <1>2, <1>3, RestAll

LEMMA FromEmpty ==
    ASSUME NEW data \in Seq(Byte), NEW n \in Nat, Len(data) = 2 * n,
           NEW i \in 1..(n + 1), From(data, i) = <<>>
    PROVE  i = n + 1
<1>. DEFINE k == 2 * i - 1
<1>1. k \in 1..(Len(data) + 1)
  BY SMT
<1>2. Len(Rest(data, k)) = Len(data) - k + 1
  <2>. HIDE DEF k
  <2>. QED  BY <1>1, RestTyped
<1>3. Len(Rest(data, k)) = 0
  <2>1. Rest(data, k) = <<>>
    BY DEF From
  <2>. QED  BY <2>1
<1>4. Len(data) - (2 * i - 1) + 1 = 0
  BY <1>2, <1>3
<1>. QED  BY <1>4

LEMMA FirstAndRest ==
    ASSUME NEW S, NEW s \in Seq(S), s # <<>>
    PROVE  \E a \in S, t \in Seq(S) : s = Cons(a, t) /\ Len(s) = Len(t) + 1
<1>1. Len(s) \in Nat /\ Len(s) # 0
  BY LenProperties, EmptySeq
<1>2. 1 \in 1..Len(s) /\ 1 + 1 = 2 /\ 2 \in 1..(Len(s) + 1) /\ Len(s) - 2 + 1 = Len(s) - 1
  BY <1>1
<1>3. s[1] \in S /\ Rest(s, 1) = Cons(s[1], Rest(s, 1 + 1))
  BY <1>2, RestOne
<1>4. Rest(s, 2) \in Seq(S) /\ Len(Rest(s, 2)) = Len(s) - 2 + 1
  BY <1>2, RestTyped
<1>5. Rest(s, 1) = s
  BY RestAll
<1>. DEFINE t == Rest(s, 2)
<1>6. s = Cons(s[1], t)
  BY <1>2, <1>3, <1>5
<1>7. t \in Seq(S) /\ Len(t) = Len(s) - 2 + 1
  BY <1>4
<1>. HIDE DEF t
<1>8. Len(s) = Len(t) + 1
  BY <1>1, <1>7
<1>. QED  BY <1>3, <1>6, <1>7, <1>8

LEMMA TextsAreValid == \A t \in Seq(Scalars) : t # Invalid
<1>. SUFFICES ASSUME NEW t \in Seq(Scalars), t = Invalid PROVE FALSE
  OBVIOUS
<1>1. Len(t) = 1 /\ t[1] = -1
  BY DEF Invalid
<1>2. t[1] \in Scalars
  BY <1>1, ElementOfSeq
<1>. QED  BY <1>1, <1>2, ScalarFacts

LEMMA LongerByTwo ==
    ASSUME NEW y \in Seq(Byte), NEW x, NEW u, NEW big, StartsWith(x, u, big, y)
    PROVE  Len(x) = Len(y) + 2
<1>1. PICK a \in Byte, b \in Byte : x = ConsTwo(a, b, y)
  BY DEF StartsWith
<1>2. x = Cons(a, Cons(b, y)) /\ Cons(b, y) \in Seq(Byte)
  BY <1>1, ConsTwoIsCons, ConsFacts
<1>3. Len(Cons(b, y)) = Len(y) + 1 /\ Len(x) = Len(Cons(b, y)) + 1
  BY <1>2, ConsFacts DEF IsCons
<1>4. Len(y) \in Nat
  BY LenProperties
<1>. QED  BY <1>3, <1>4

LEMMA EncodedInUnits ==
    ASSUME NEW text \in Seq(Scalars), NEW e \in WideEncodings, e.width = 2
    PROVE  \E n \in Nat : Len(EncodeWide(text, e)) = 2 * n
<1>. DEFINE P(t) == \E n \in Nat : Len(EncodeWide(t, e)) = 2 * n
            S == {m \in Nat : \A t \in Seq(Scalars) : Len(t) = m => P(t)}
<1>1. 0 \in S
  <2>. SUFFICES ASSUME NEW t \in Seq(Scalars), Len(t) = 0 PROVE P(t)
    OBVIOUS
  <2>1. t = <<>>
    BY EmptySeq
  <2>2. Len(EncodeWide(t, e)) = 2 * 0
    BY <2>1, EncodeNothing
  <2>. QED  BY <2>2
<1>2. ASSUME NEW m \in S PROVE m + 1 \in S
  <2>. SUFFICES ASSUME NEW x \in Seq(Scalars), Len(x) = m + 1 PROVE P(x)
    OBVIOUS
  <2>1. m \in Nat /\ x # <<>>
    OBVIOUS
  <2>2. PICK c \in Scalars, t \in Seq(Scalars) : x = Cons(c, t) /\ Len(x) = Len(t) + 1
    BY <2>1, FirstAndRest
  <2>3. Len(t) = m
    BY <2>1, <2>2, LenProperties
  <2>4. PICK n \in Nat : Len(EncodeWide(t, e)) = 2 * n
    BY <2>3
  <2>5. EncodeWide(t, e) \in Seq(Byte)
    BY EncodeTyped
  <2>6. CASE c < Plane
    <3>1. StartsWith(EncodeWide(x, e), c, e.big, EncodeWide(t, e))
      BY <2>2, <2>6, EncodeSmall
    <3>2. Len(EncodeWide(x, e)) = 2 * (n + 1)
      BY <2>4, <2>5, <3>1, LongerByTwo
    <3>. QED  BY <3>2
  <2>7. CASE c >= Plane
    <3>1. PICK y \in Seq(Byte) : /\ StartsWith(EncodeWide(x, e), High(c), e.big, y)
                                 /\ StartsWith(y, Low(c), e.big, EncodeWide(t, e))
      BY <2>2, <2>7, EncodeLarge
    <3>2. Len(y) = 2 * (n + 1)
      BY <2>4, <2>5, <3>1, LongerByTwo
    <3>3. Len(EncodeWide(x, e)) = 2 * (n + 2)
      BY <3>1, <3>2, LongerByTwo
    <3>. QED  BY <3>3
  <2>8. c < Plane \/ c >= Plane
    BY ScalarFacts, Bounds, SMT
  <2>. QED  BY <2>6, <2>7, <2>8
<1>3. S = Nat
  <2>1. S \in SUBSET Nat
    OBVIOUS
  <2>. HIDE DEF S
  <2>. QED  BY <1>1, <1>2, <2>1, Counting
<1>4. Len(text) \in Nat
  BY LenProperties
<1>. QED  BY <1>3, <1>4

\* What is encoded is read.
LEMMA ReadBack16 ==
    ASSUME NEW text \in Seq(Scalars), NEW e \in WideEncodings, e.width = 2
    PROVE  Decode16(EncodeWide(text, e), e.big) = text
<1>. DEFINE data == EncodeWide(text, e)
            units == Units(data, e.big)
            runes == RunesFrom(units)
<1>1. data \in Seq(Byte) /\ e.big \in BOOLEAN
  BY EncodeTyped DEF WideEncodings
<1>2. PICK n \in Nat : Len(data) = 2 * n
  BY EncodedInUnits
<1>. HIDE DEF data
<1>3. Len(units) = n
  BY <1>1, <1>2, UnitsAre
<1>. HIDE DEF units
<1>4. \A i \in 1..(n + 1) : runes[i] = RunesAt(runes, units, i)
  BY <1>3, RunesAre
<1>. HIDE DEF runes
<1>. DEFINE P(t) == \A i \in 1..(n + 1) : From(data, i) = EncodeWide(t, e) => runes[i] = t
            S == {m \in Nat : \A t \in Seq(Scalars) : Len(t) = m => P(t)}
<1>5. 0 \in S
  <2>. SUFFICES ASSUME NEW t \in Seq(Scalars), Len(t) = 0, NEW i \in 1..(n + 1),
                       From(data, i) = EncodeWide(t, e)
                PROVE  runes[i] = t
    OBVIOUS
  <2>1. t = <<>>
    BY EmptySeq
  <2>2. From(data, i) = <<>>
    BY <2>1, EncodeNothing
  <2>3. i = n + 1
    BY <1>1, <1>2, <2>2, FromEmpty
  <2>. QED  BY <1>3, <1>4, <2>1, <2>3 DEF RunesAt
<1>6. ASSUME NEW m \in S PROVE m + 1 \in S
  <2>. SUFFICES ASSUME NEW x \in Seq(Scalars), Len(x) = m + 1, NEW i \in 1..(n + 1),
                       From(data, i) = EncodeWide(x, e)
                PROVE  runes[i] = x
    OBVIOUS
  <2>1. m \in Nat /\ x # <<>>
    OBVIOUS
  <2>2. PICK c \in Scalars, t \in Seq(Scalars) : x = Cons(c, t) /\ Len(x) = Len(t) + 1
    BY <2>1, FirstAndRest
  <2>3. Len(t) = m
    BY <2>1, <2>2, LenProperties
  <2>4. P(t) /\ t # Invalid /\ EncodeWide(t, e) \in Seq(Byte)
    BY <2>3, TextsAreValid, EncodeTyped
  <2>5. CASE c < Plane
    <3>1. StartsWith(From(data, i), c, e.big, EncodeWide(t, e))
      BY <2>2, <2>5, EncodeSmall
    <3>2. i \in 1..n /\ units[i] = c /\ From(data, i + 1) = EncodeWide(t, e)
      BY <1>1, <1>2, <2>4, <3>1, UnitIs DEF units
    <3>3. i + 1 \in 1..(n + 1) /\ i # n + 1
      BY <3>2
    <3>4. runes[i + 1] = t
      BY <2>4, <3>2, <3>3
    <3>5. c \notin HighUnits /\ c \notin LowUnits
      BY ScalarFacts DEF Surrogates
    <3>6. runes[i] = <<c>> \o t
      BY <1>3, <1>4, <2>4, <3>2, <3>3, <3>4, <3>5 DEF RunesAt
    <3>. QED  BY <2>2, <3>6 DEF Cons
  <2>6. CASE c >= Plane
    <3>1. PICK y \in Seq(Byte) : /\ StartsWith(From(data, i), High(c), e.big, y)
                                 /\ StartsWith(y, Low(c), e.big, EncodeWide(t, e))
      BY <2>2, <2>6, EncodeLarge
    <3>2. i \in 1..n /\ units[i] = High(c) /\ From(data, i + 1) = y
      BY <1>1, <1>2, <3>1, UnitIs DEF units
    <3>3. i + 1 \in 1..(n + 1) /\ i # n + 1 /\ (i + 1) + 1 = i + 2
      BY <3>2
    <3>4. /\ i + 1 \in 1..n /\ units[i + 1] = Low(c)
          /\ From(data, (i + 1) + 1) = EncodeWide(t, e)
      BY <1>1, <1>2, <2>4, <3>1, <3>2, <3>3, UnitIs DEF units
    <3>5. i + 2 \in 1..(n + 1) /\ i < n
      BY <3>4
    <3>6. runes[i + 2] = t
      BY <2>4, <3>3, <3>4, <3>5
    <3>7. /\ High(c) \in HighUnits /\ Low(c) \in LowUnits
          /\ Combine(High(c), Low(c)) = c
      BY <2>6, PairOfUnit
    <3>8. runes[i] = <<Combine(High(c), Low(c))>> \o t
      BY <1>3, <1>4, <2>4, <3>2, <3>3, <3>4, <3>5, <3>6, <3>7 DEF RunesAt
    <3>. QED  BY <2>2, <3>7, <3>8 DEF Cons
  <2>7. c < Plane \/ c >= Plane
    BY ScalarFacts, Bounds, SMT
  <2>. QED  BY <2>5, <2>6, <2>7
<1>7. S = Nat
  <2>1. S \in SUBSET Nat
    OBVIOUS
  <2>. HIDE DEF S
  <2>. QED  BY <1>5, <1>6, <2>1, Counting
<1>8. runes[1] = text
  <2>1. Len(text) \in Nat /\ 1 \in 1..(n + 1)
    BY LenProperties
  <2>2. From(data, 1) = EncodeWide(text, e)
    BY <1>1, <1>2, FromEnds DEF data
  <2>. QED  BY <1>7, <2>1, <2>2
<1>9. Len(data) % 2 = 0
  BY <1>2, SMT
<1>. QED  BY <1>8, <1>9 DEF Decode16, runes, units, data

LEMMA SameStart ==
    ASSUME NEW x, NEW z, NEW u, NEW big \in BOOLEAN, NEW y,
           StartsWith(x, u, big, y), StartsWith(z, u, big, y)
    PROVE  x = z
<1>1. ASSUME NEW v, StartsWith(v, u, big, y) PROVE v = EncodeUnit(u, big) \o y
  <2>1. PICK a \in Byte, b \in Byte : v = ConsTwo(a, b, y) /\ Uint16(a, b, big) = u
    BY <1>1 DEF StartsWith
  <2>2. EncodeUnit(u, big) = <<a, b>>
    BY <2>1, DecodedUnit
  <2>. QED  BY <2>1, <2>2, Zenon DEF ConsTwo
<1>. QED  BY <1>1, Zenon

\* What is read is what the bytes say.
LEMMA BytesBack16 ==
    ASSUME NEW data \in Seq(Byte), NEW e \in WideEncodings, e.width = 2,
           Decode16(data, e.big) # Invalid
    PROVE  EncodeWide(Decode16(data, e.big), e) = data
<1>. DEFINE units == Units(data, e.big)
            runes == RunesFrom(units)
<1>1. e.big \in BOOLEAN /\ Len(data) \in Nat
  BY LenProperties DEF WideEncodings
<1>2. Len(data) % 2 = 0 /\ Decode16(data, e.big) = runes[1] /\ runes[1] # Invalid
  BY Zenon DEF Decode16
<1>3. PICK n \in Nat : Len(data) = 2 * n
  <2>. DEFINE n == Len(data) \div 2
  <2>1. n \in Nat /\ Len(data) = 2 * n
    BY <1>1, <1>2, SMT
  <2>. QED  BY <2>1
<1>4. Len(units) = n
  BY <1>1, <1>3, UnitsAre
<1>5. /\ \A i \in 1..n : /\ IsUnit(units[i])
                        /\ StartsWith(From(data, i), units[i], e.big, From(data, i + 1))
      /\ From(data, 1) = data /\ From(data, n + 1) = <<>>
      /\ \A i \in 1..(n + 1) : From(data, i) \in Seq(Byte)
  BY <1>1, <1>3, UnitAt, FromEnds
<1>. HIDE DEF units
<1>6. \A i \in 1..(n + 1) : runes[i] = RunesAt(runes, units, i)
  BY <1>4, RunesAre
<1>. HIDE DEF runes
<1>. DEFINE P(i) == runes[i] # Invalid =>
                        /\ runes[i] \in Seq(Scalars)
                        /\ EncodeWide(runes[i], e) = From(data, i)
            S == {k \in Nat : \A i \in 1..(n + 1) : i >= n + 1 - k => P(i)}
<1>7. 0 \in S
  <2>1. P(n + 1)
    <3>1. n + 1 \in 1..(n + 1)
      OBVIOUS
    <3>2. runes[n + 1] = <<>>
      BY <1>4, <1>6, <3>1 DEF RunesAt
    <3>3. <<>> \in Seq(Scalars)
      OBVIOUS
    <3>. QED  BY <1>5, <3>2, <3>3, EncodeNothing
  <2>2. \A i \in 1..(n + 1) : i >= n + 1 - 0 => i = n + 1
    OBVIOUS
  <2>. HIDE DEF P
  <2>3. \A i \in 1..(n + 1) : i >= n + 1 - 0 => P(i)
    BY <2>1, <2>2
  <2>. QED  BY <2>3
<1>8. ASSUME NEW k \in S PROVE k + 1 \in S
  <2>. SUFFICES ASSUME NEW i \in 1..(n + 1), i >= n + 1 - (k + 1) PROVE P(i)
    OBVIOUS
  <2>1. k \in Nat /\ \A j \in 1..(n + 1) : j >= n + 1 - k => P(j)
    OBVIOUS
  <2>2. CASE i >= n + 1 - k
    BY <2>1, <2>2
  <2>. SUFFICES ASSUME i < n + 1 - k, runes[i] # Invalid
                PROVE  /\ runes[i] \in Seq(Scalars)
                       /\ EncodeWide(runes[i], e) = From(data, i)
    <3>. HIDE DEF P
    <3>1. i >= n + 1 - k \/ i < n + 1 - k
      BY <2>1
    <3>. QED  BY <2>2, <3>1 DEF P
  <2>3. /\ i \in 1..n /\ i # n + 1 /\ i + 1 \in 1..(n + 1)
        /\ i + 1 >= n + 1 - k /\ i + 2 >= n + 1 - k
        /\ (i < n => i + 1 \in 1..n /\ i + 2 \in 1..(n + 1)) /\ (i + 1) + 1 = i + 2
    BY <2>1
  <2>4. P(i + 1) /\ (i < n => P(i + 2))
    <3>. HIDE DEF P
    <3>. QED  BY <2>1, <2>3
  <2>5. runes[i] = RunesAt(runes, units, i)
    BY <1>6
  <2>6. CASE units[i] \in HighUnits
    <3>. DEFINE c == Combine(units[i], units[i + 1])
                t == runes[i + 2]
    <3>1. i < n /\ units[i + 1] \in LowUnits /\ t # Invalid /\ runes[i] = Cons(c, t)
      BY <1>4, <2>3, <2>5, <2>6, Zenon DEF RunesAt, Cons
    <3>2. t \in Seq(Scalars) /\ EncodeWide(t, e) = From(data, i + 2)
      BY <2>4, <3>1
    <3>3. c \in Scalars /\ c >= Plane /\ High(c) = units[i] /\ Low(c) = units[i + 1]
      BY <2>6, <3>1, UnitOfPair
    <3>4. /\ StartsWith(From(data, i), units[i], e.big, From(data, i + 1))
          /\ StartsWith(From(data, i + 1), units[i + 1], e.big, From(data, i + 2))
      BY <1>5, <2>3, <3>1
    <3>. HIDE DEF c, t
    <3>5. PICK y \in Seq(Byte) : /\ StartsWith(EncodeWide(Cons(c, t), e), High(c), e.big, y)
                                 /\ StartsWith(y, Low(c), e.big, EncodeWide(t, e))
      BY <3>2, <3>3, EncodeLarge
    <3>6. y = From(data, i + 1)
      BY <1>1, <3>2, <3>3, <3>4, <3>5, SameStart
    <3>7. EncodeWide(Cons(c, t), e) = From(data, i)
      BY <1>1, <3>3, <3>4, <3>5, <3>6, SameStart
    <3>8. Cons(c, t) \in Seq(Scalars)
      BY <3>2, <3>3, ConsFacts
    <3>. QED  BY <3>1, <3>7, <3>8
  <2>7. CASE units[i] \notin HighUnits
    <3>. DEFINE c == units[i]
                t == runes[i + 1]
    <3>1. c \notin LowUnits /\ t # Invalid /\ runes[i] = Cons(c, t)
      BY <1>4, <2>3, <2>5, <2>7, Zenon DEF RunesAt, Cons
    <3>2. t \in Seq(Scalars) /\ EncodeWide(t, e) = From(data, i + 1)
      BY <2>4, <3>1
    <3>3. c \in Scalars /\ c < Plane
      <4>1. IsUnit(c)
        BY <1>5, <2>3
      <4>2. c \notin Surrogates
        BY <2>7, <3>1 DEF Surrogates
      <4>3. c \in Int /\ 0 <= c /\ c < Plane /\ c <= MaxRune
        BY <4>1, Bounds, SMT DEF IsUnit
      <4>. QED  BY <4>2, <4>3, ScalarsAre
    <3>4. StartsWith(From(data, i), c, e.big, From(data, i + 1))
      BY <1>5, <2>3
    <3>. HIDE DEF c, t
    <3>5. StartsWith(EncodeWide(Cons(c, t), e), c, e.big, EncodeWide(t, e))
      BY <3>2, <3>3, EncodeSmall
    <3>6. EncodeWide(Cons(c, t), e) = From(data, i)
      BY <1>1, <3>2, <3>4, <3>5, SameStart
    <3>7. Cons(c, t) \in Seq(Scalars)
      BY <3>2, <3>3, ConsFacts
    <3>. QED  BY <3>1, <3>6, <3>7
  <2>. QED  BY <2>6, <2>7
<1>9. S = Nat
  <2>1. S \in SUBSET Nat
    OBVIOUS
  <2>. HIDE DEF S
  <2>. QED  BY <1>7, <1>8, <2>1, Counting
<1>10. P(1)
  <2>1. n \in S
    BY <1>9
  <2>2. 1 \in 1..(n + 1) /\ 1 >= n + 1 - n
    OBVIOUS
  <2>. HIDE DEF P
  <2>. QED  BY <2>1, <2>2
<1>. QED  BY <1>2, <1>5, <1>10

-----------------------------------------------------------------------------
(* UTF-32.                                                                   *)

\* In UTF-32 a code point passes for one, and so does nothing else.
LEMMA RuneOfScalar ==
    ASSUME NEW c \in Scalars
    PROVE  /\ IsRune(<<c \div Plane, c % Plane>>)
           /\ (c \div Plane) * Plane + (c % Plane) = c
<1>. DEFINE q == c \div Plane
            r == c % Plane
<1>1. /\ c \in Int /\ 0 <= c /\ c <= MaxRune /\ c \notin Surrogates
      /\ c = Plane * q + r /\ q \in Int /\ r \in Int /\ 0 <= r /\ r < Plane
  BY ScalarFacts, Division
<1>. HIDE DEF q, r
<1>2. q <= 16 /\ q * Plane + r = c
  BY <1>1, SMT DEF Plane, MaxRune
<1>3. q = 0 => r = c
  BY <1>1, <1>2, SMT DEF Plane
<1>4. IsRune(<<q, r>>)
  BY <1>1, <1>2, <1>3, Bounds DEF IsRune
<1>. QED  BY <1>2, <1>4 DEF q, r

LEMMA ScalarOfRune ==
    ASSUME NEW v, IsUnit(v[1]), IsUnit(v[2]), IsRune(v), NEW c, c = v[1] * Plane + v[2]
    PROVE  c \in Scalars /\ c \div Plane = v[1] /\ c % Plane = v[2]
<1>. DEFINE q == v[1]
            r == v[2]
<1>1. /\ q \in Int /\ 0 <= q /\ r \in Int /\ 0 <= r /\ r < Plane /\ c = q * Plane + r
      /\ q <= 16 /\ ~(q = 0 /\ r \in Surrogates)
  BY Bounds DEF IsUnit, IsRune
<1>. HIDE DEF q, r
<1>2. c \in Int /\ 0 <= c /\ c <= MaxRune /\ c \div Plane = q /\ c % Plane = r
  BY <1>1, SMT DEF Plane, MaxRune
<1>3. c \notin Surrogates
  <2>. SUFFICES ASSUME c \in Surrogates PROVE FALSE
    OBVIOUS
  <2>1. c < Plane
    BY SurrogateFacts, Bounds, SMT
  <2>2. q = 0 /\ r = c
    BY <1>1, <2>1, SMT DEF Plane
  <2>. QED  BY <1>1, <2>2
<1>. QED  BY <1>2, <1>3, ScalarsAre DEF q, r

\* Four bytes are the units u and v.
AreUnits(r, u, v, big) ==
    /\ Len(r) = 4 /\ \A j \in 1..4 : r[j] \in Byte
    /\ Uint16(r[1], r[2], big) = u /\ Uint16(r[3], r[4], big) = v

LEMMA UnitsJoined ==
    ASSUME NEW u, IsUnit(u), NEW v, IsUnit(v), NEW big \in BOOLEAN
    PROVE  AreUnits(EncodeUnit(u, big) \o EncodeUnit(v, big), u, v, big)
<1>1. PICK a \in Byte, b \in Byte : EncodeUnit(u, big) = <<a, b>> /\ Uint16(a, b, big) = u
  BY EncodedUnit
<1>2. PICK d \in Byte, f \in Byte : EncodeUnit(v, big) = <<d, f>> /\ Uint16(d, f, big) = v
  BY EncodedUnit
<1>. DEFINE s == <<a, b>>
            t == <<d, f>>
            r == s \o t
<1>3. /\ s \in Seq(Byte) /\ Len(s) = 2 /\ s[1] = a /\ s[2] = b
      /\ t \in Seq(Byte) /\ Len(t) = 2 /\ t[1] = d /\ t[2] = f
  OBVIOUS
<1>. HIDE DEF s, t
<1>4. /\ r \in Seq(Byte) /\ Len(r) = Len(s) + Len(t)
      /\ \A i \in 1..(Len(s) + Len(t)) : r[i] = IF i <= Len(s) THEN s[i] ELSE t[i - Len(s)]
  BY <1>3, ConcatProperties, Zenon
<1>. HIDE DEF r
<1>5. Len(r) = 4 /\ r[1] = a /\ r[2] = b /\ r[3] = d /\ r[4] = f
  BY <1>3, <1>4
<1>6. EncodeUnit(u, big) \o EncodeUnit(v, big) = r
  BY <1>1, <1>2, Zenon DEF r, s, t
<1>7. \A j \in 1..4 : r[j] \in Byte
  <2>1. \A j \in 1..4 : j = 1 \/ j = 2 \/ j = 3 \/ j = 4
    OBVIOUS
  <2>. QED  BY <1>5, <2>1
<1>8. Uint16(r[1], r[2], big) = u /\ Uint16(r[3], r[4], big) = v
  BY <1>1, <1>2, <1>5, Zenon
<1>9. AreUnits(r, u, v, big)
  BY <1>5, <1>7, <1>8, Zenon DEF AreUnits
<1>. QED  BY <1>6, <1>9, Zenon

\* The units of a code point in the order of their bytes.
HalfOne(c, big) == IF big THEN c \div Plane ELSE c % Plane
HalfTwo(c, big) == IF big THEN c % Plane ELSE c \div Plane

LEMMA RuneBytes ==
    ASSUME NEW c \in Scalars, NEW e \in WideEncodings, e.width = 4
    PROVE  AreUnits(EncodeRune(c, e), HalfOne(c, e.big), HalfTwo(c, e.big), e.big)
<1>1. c \in Int /\ e.big \in BOOLEAN /\ IsUnit(c \div Plane) /\ IsUnit(c % Plane)
  BY ScalarFacts, ScalarUnits, RuneIs
<1>2. CASE e.big
  <2>1. EncodeRune(c, e) = EncodeUnit(c \div Plane, TRUE) \o EncodeUnit(c % Plane, TRUE)
    BY <1>1, <1>2, RuneIs, Zenon
  <2>2. e.big = TRUE /\ HalfOne(c, e.big) = c \div Plane /\ HalfTwo(c, e.big) = c % Plane
    BY <1>1, <1>2 DEF HalfOne, HalfTwo
  <2>3. AreUnits(EncodeRune(c, e), c \div Plane, c % Plane, TRUE)
    BY <1>1, <2>1, UnitsJoined, Zenon
  <2>. QED  BY <2>2, <2>3, Zenon
<1>3. CASE ~e.big
  <2>1. EncodeRune(c, e) = EncodeUnit(c % Plane, FALSE) \o EncodeUnit(c \div Plane, FALSE)
    BY <1>1, <1>3, RuneIs, Zenon
  <2>2. e.big = FALSE /\ HalfOne(c, e.big) = c % Plane /\ HalfTwo(c, e.big) = c \div Plane
    BY <1>1, <1>3 DEF HalfOne, HalfTwo
  <2>3. AreUnits(EncodeRune(c, e), c % Plane, c \div Plane, FALSE)
    BY <1>1, <2>1, UnitsJoined, Zenon
  <2>. QED  BY <2>2, <2>3, Zenon
<1>. QED  BY <1>2, <1>3

\* Bytes of the same units are the same.
LEMMA SameUnits ==
    ASSUME NEW big \in BOOLEAN, NEW u, NEW v, NEW r, NEW s,
           AreUnits(r, u, v, big), AreUnits(s, u, v, big)
    PROVE  \A j \in 1..4 : r[j] = s[j]
<1>1. ASSUME NEW a \in Byte, NEW b \in Byte, NEW d \in Byte, NEW f \in Byte,
             Uint16(a, b, big) = Uint16(d, f, big)
      PROVE  a = d /\ b = f
  <2>1. <<a, b>> = <<d, f>>
    BY <1>1, DecodedUnit, Zenon
  <2>. QED  BY <2>1
<1>2. /\ r[1] \in Byte /\ r[2] \in Byte /\ r[3] \in Byte /\ r[4] \in Byte
      /\ s[1] \in Byte /\ s[2] \in Byte /\ s[3] \in Byte /\ s[4] \in Byte
      /\ Uint16(r[1], r[2], big) = Uint16(s[1], s[2], big)
      /\ Uint16(r[3], r[4], big) = Uint16(s[3], s[4], big)
  <2>1. 1 \in 1..4 /\ 2 \in 1..4 /\ 3 \in 1..4 /\ 4 \in 1..4
    OBVIOUS
  <2>. QED  BY <2>1, Zenon DEF AreUnits
<1>3. r[1] = s[1] /\ r[2] = s[2] /\ r[3] = s[3] /\ r[4] = s[4]
  BY <1>1, <1>2
<1>4. \A j \in 1..4 : j = 1 \/ j = 2 \/ j = 3 \/ j = 4
  OBVIOUS
<1>. QED  BY <1>3, <1>4, Zenon

\* Four bytes of data.
Four(data, k) == <<data[4 * k - 3], data[4 * k - 2], data[4 * k - 1], data[4 * k]>>

\* The bytes that Uint32 reads are those of its units.
LEMMA FourAre ==
    ASSUME NEW data \in Seq(Byte), NEW n \in Nat, Len(data) = 4 * n, NEW k \in 1..n,
           NEW big \in BOOLEAN
    PROVE  LET v == Uint32(data, k, big) IN
           /\ IsUnit(v[1]) /\ IsUnit(v[2])
           /\ AreUnits(Four(data, k), IF big THEN v[1] ELSE v[2],
                       IF big THEN v[2] ELSE v[1], big)
<1>. DEFINE a == data[4 * k - 3]
            b == data[4 * k - 2]
            d == data[4 * k - 1]
            f == data[4 * k]
            r == <<a, b, d, f>>
            v == Uint32(data, k, big)
<1>1. a \in Byte /\ b \in Byte /\ d \in Byte /\ f \in Byte
  <2>1. /\ 4 * k - 3 \in 1..Len(data) /\ 4 * k - 2 \in 1..Len(data)
        /\ 4 * k - 1 \in 1..Len(data) /\ 4 * k \in 1..Len(data)
    BY SMT
  <2>. QED  BY <2>1, ElementOfSeq
<1>2. v = IF big THEN <<Uint16(a, b, big), Uint16(d, f, big)>>
                 ELSE <<Uint16(d, f, big), Uint16(a, b, big)>>
  BY DEF Uint32
<1>3. Four(data, k) = r
  BY DEF Four
<1>. HIDE DEF a, b, d, f, v
<1>4. IsUnit(Uint16(a, b, big)) /\ IsUnit(Uint16(d, f, big))
  BY <1>1, DecodedUnit
<1>5. CASE big
  <2>1. v[1] = Uint16(a, b, big) /\ v[2] = Uint16(d, f, big)
    BY <1>2, <1>5
  <2>2. AreUnits(r, v[1], v[2], big)
    BY <1>1, <2>1 DEF AreUnits
  <2>. QED  BY <1>3, <1>4, <1>5, <2>1, <2>2 DEF v
<1>6. CASE ~big
  <2>1. v[2] = Uint16(a, b, big) /\ v[1] = Uint16(d, f, big)
    BY <1>2, <1>6
  <2>2. AreUnits(r, v[2], v[1], big)
    BY <1>1, <2>1 DEF AreUnits
  <2>. QED  BY <1>3, <1>4, <1>6, <2>1, <2>2 DEF v
<1>. QED  BY <1>5, <1>6

\* Each code point has its four bytes.
LEMMA EncodedAt32 ==
    ASSUME NEW text \in Seq(Scalars), NEW e \in WideEncodings, e.width = 4
    PROVE  \A k \in 1..Len(text), j \in 1..4 :
              EncodeWide(text, e)[4 * (k - 1) + j] = EncodeRune(text[k], e)[j]
<1>. DEFINE f == Encoded(text, e)
            Q(n) == \A k \in 1..n, j \in 1..4 :
                        f[n][4 * (k - 1) + j] = EncodeRune(text[k], e)[j]
            S == {n \in Nat : n <= Len(text) => Q(n)}
<1>0. Len(text) \in Nat
  BY LenProperties
<1>1. \A n \in 1..Len(text) : f[n] = f[n - 1] \o EncodeRune(text[n], e)
  BY <1>0, EncodedIs
<1>2. \A n \in 0..Len(text) : f[n] \in Seq(Byte) /\ Len(f[n]) = 4 * n
  BY EncodedTyped
<1>3. \A k \in 1..Len(text) : /\ EncodeRune(text[k], e) \in Seq(Byte)
                             /\ Len(EncodeRune(text[k], e)) = 4
  BY ElementOfSeq, RuneTyped
<1>. HIDE DEF f
<1>4. 0 \in S
  <2>1. \A k : k \notin 1..0
    BY SMT
  <2>. QED  BY <2>1
<1>5. ASSUME NEW n \in S PROVE n + 1 \in S
  <2>. SUFFICES ASSUME n + 1 <= Len(text) PROVE Q(n + 1)
    <3>. HIDE DEF Q
    <3>. QED  OBVIOUS
  <2>. SUFFICES ASSUME NEW k \in 1..(n + 1), NEW j \in 1..4
                PROVE  f[n + 1][4 * (k - 1) + j] = EncodeRune(text[k], e)[j]
    OBVIOUS
  <2>. DEFINE p == f[n]
              q == f[n + 1]
              r == EncodeRune(text[n + 1], e)
              i == 4 * (k - 1) + j
  <2>1. /\ n \in Nat /\ n <= Len(text) /\ n + 1 \in 1..Len(text) /\ (n + 1) - 1 = n
        /\ n \in 0..Len(text)
    BY <1>0
  <2>2. Q(n)
    BY <2>1
  <2>3. q = p \o r
    BY <1>1, <2>1
  <2>4. p \in Seq(Byte) /\ Len(p) = 4 * n /\ r \in Seq(Byte) /\ Len(r) = 4
    BY <1>2, <1>3, <2>1
  <2>5. CASE k = n + 1
    <3>1. i = 4 * n + j /\ i \in 1..(4 * n + 4) /\ ~(i <= 4 * n) /\ i - 4 * n = j
      BY <2>1, <2>5, SMT
    <3>. HIDE DEF p, q, r, i
    <3>2. \A m \in 1..(Len(p) + Len(r)) :
             (p \o r)[m] = IF m <= Len(p) THEN p[m] ELSE r[m - Len(p)]
      BY <2>4, ConcatProperties, Zenon
    <3>3. i \in 1..(Len(p) + Len(r)) /\ ~(i <= Len(p)) /\ i - Len(p) = j
      BY <2>1, <2>4, <3>1
    <3>4. (p \o r)[i] = r[j]
      BY <3>2, <3>3, Zenon
    <3>5. q[i] = r[j]
      BY <2>3, <3>4, Zenon
    <3>. QED  BY <2>5, <3>5 DEF q, r, i
  <2>6. CASE k # n + 1
    <3>1. k \in 1..n /\ i \in 1..(4 * n + 4) /\ i <= 4 * n
      BY <2>1, <2>6, SMT
    <3>2. p[i] = EncodeRune(text[k], e)[j]
      BY <2>2, <3>1
    <3>. HIDE DEF p, q, r, i
    <3>3. \A m \in 1..(Len(p) + Len(r)) :
             (p \o r)[m] = IF m <= Len(p) THEN p[m] ELSE r[m - Len(p)]
      BY <2>4, ConcatProperties, Zenon
    <3>4. q[i] = p[i]
      BY <2>3, <2>4, <3>1, <3>3
    <3>. QED  BY <3>2, <3>4 DEF q, i
  <2>. QED  BY <2>5, <2>6
<1>6. S = Nat
  <2>1. S \in SUBSET Nat
    OBVIOUS
  <2>. HIDE DEF S
  <2>. QED  BY <1>4, <1>5, <2>1, Counting
<1>7. Q(Len(text))
  <2>. HIDE DEF Q
  <2>. QED  BY <1>0, <1>6
<1>. QED  BY <1>7 DEF EncodeWide, f

\* What is written is read.
LEMMA ReadBack32 ==
    ASSUME NEW text \in Seq(Scalars), NEW e \in WideEncodings, e.width = 4
    PROVE  Decode32(EncodeWide(text, e), e.big) = text
<1>. DEFINE data == EncodeWide(text, e)
            n == Len(text)
<1>1. /\ n \in Nat /\ data \in Seq(Byte) /\ Len(data) = 4 * n /\ e.big \in BOOLEAN
      /\ \A k \in 1..n, j \in 1..4 : data[4 * (k - 1) + j] = EncodeRune(text[k], e)[j]
  BY LenProperties, EncodeTyped, EncodedAt32 DEF WideEncodings
<1>. HIDE DEF data
<1>2. Len(data) % 4 = 0 /\ Len(data) \div 4 = n
  BY <1>1, SMT
<1>3. ASSUME NEW k \in 1..n
      PROVE  /\ IsRune(Uint32(data, k, e.big))
             /\ Uint32(data, k, e.big)[1] * Plane + Uint32(data, k, e.big)[2] = text[k]
  <2>. DEFINE c == text[k]
              r == EncodeRune(c, e)
  <2>1. c \in Scalars
    BY ElementOfSeq
  <2>2. /\ data[4 * k - 3] = r[1] /\ data[4 * k - 2] = r[2]
        /\ data[4 * k - 1] = r[3] /\ data[4 * k] = r[4]
    <3>1. /\ 4 * (k - 1) + 1 = 4 * k - 3 /\ 4 * (k - 1) + 2 = 4 * k - 2
          /\ 4 * (k - 1) + 3 = 4 * k - 1 /\ 4 * (k - 1) + 4 = 4 * k
          /\ 1 \in 1..4 /\ 2 \in 1..4 /\ 3 \in 1..4 /\ 4 \in 1..4
      BY SMT
    <3>2. \A j \in 1..4 : data[4 * (k - 1) + j] = r[j]
      BY <1>1
    <3>. HIDE DEF r
    <3>. QED  BY <3>1, <3>2
  <2>. HIDE DEF c
  <2>3. AreUnits(r, HalfOne(c, e.big), HalfTwo(c, e.big), e.big)
    BY <2>1, RuneBytes
  <2>. HIDE DEF r
  <2>4. /\ Uint16(data[4 * k - 3], data[4 * k - 2], e.big) = HalfOne(c, e.big)
        /\ Uint16(data[4 * k - 1], data[4 * k], e.big) = HalfTwo(c, e.big)
    BY <2>2, <2>3, Zenon DEF AreUnits
  <2>5. Uint32(data, k, e.big) = IF e.big THEN <<HalfOne(c, e.big), HalfTwo(c, e.big)>>
                                          ELSE <<HalfTwo(c, e.big), HalfOne(c, e.big)>>
    BY <2>4, Zenon DEF Uint32
  <2>6. Uint32(data, k, e.big) = <<c \div Plane, c % Plane>>
    <3>1. CASE e.big
      BY <2>5, <3>1, Zenon DEF HalfOne, HalfTwo
    <3>2. CASE ~e.big
      BY <2>5, <3>2, Zenon DEF HalfOne, HalfTwo
    <3>. QED  BY <3>1, <3>2
  <2>7. IsRune(<<c \div Plane, c % Plane>>) /\ (c \div Plane) * Plane + (c % Plane) = c
    BY <2>1, RuneOfScalar
  <2>. DEFINE q == c \div Plane
              m == c % Plane
              u == Uint32(data, k, e.big)
  <2>8. u = <<q, m>> /\ IsRune(u) /\ q * Plane + m = c
    BY <2>6, <2>7, Zenon
  <2>. HIDE DEF q, m, u
  <2>9. u[1] = q /\ u[2] = m
    BY <2>8
  <2>10. IsRune(u) /\ u[1] * Plane + u[2] = c
    BY <2>8, <2>9, Zenon
  <2>. QED  BY <2>10, Zenon DEF u, c
<1>4. Decode32(data, e.big) = [k \in 1..n |-> text[k]]
  <2>1. Decode32(data, e.big) =
           [k \in 1..n |-> Uint32(data, k, e.big)[1] * Plane + Uint32(data, k, e.big)[2]]
    BY <1>2, <1>3, Zenon DEF Decode32
  <2>. DEFINE V(k) == Uint32(data, k, e.big)[1] * Plane + Uint32(data, k, e.big)[2]
  <2>2. \A k \in 1..n : V(k) = text[k]
    BY <1>3
  <2>. HIDE DEF V
  <2>3. [k \in 1..n |-> V(k)] = [k \in 1..n |-> text[k]]
    BY <2>2
  <2>. QED  BY <2>1, <2>3, Zenon DEF V
<1>5. [k \in 1..n |-> text[k]] = text
  OBVIOUS
<1>. QED  BY <1>4, <1>5 DEF data

\* What is read is what the bytes say.
LEMMA BytesBack32 ==
    ASSUME NEW data \in Seq(Byte), NEW e \in WideEncodings, e.width = 4,
           Decode32(data, e.big) # Invalid
    PROVE  EncodeWide(Decode32(data, e.big), e) = data
<1>. DEFINE n == Len(data) \div 4
            text == Decode32(data, e.big)
            U(k) == Uint32(data, k, e.big)
            V(k) == U(k)[1] * Plane + U(k)[2]
<1>1. Len(data) \in Nat /\ e.big \in BOOLEAN
  BY LenProperties DEF WideEncodings
<1>2. /\ Len(data) % 4 = 0 /\ \A k \in 1..n : IsRune(U(k))
      /\ text = [k \in 1..n |-> V(k)]
  BY Zenon DEF Decode32
<1>3. n \in Nat /\ Len(data) = 4 * n
  BY <1>1, <1>2, SMT
<1>. HIDE DEF n, text
<1>4. ASSUME NEW k \in 1..n
      PROVE  /\ V(k) \in Scalars /\ text[k] = V(k)
             /\ \A j \in 1..4 : EncodeRune(V(k), e)[j] = Four(data, k)[j]
  <2>. DEFINE u == U(k)
              c == V(k)
  <2>1. /\ IsUnit(u[1]) /\ IsUnit(u[2])
        /\ AreUnits(Four(data, k), IF e.big THEN u[1] ELSE u[2],
                    IF e.big THEN u[2] ELSE u[1], e.big)
    BY <1>1, <1>3, FourAre
  <2>2. IsRune(u) /\ c = u[1] * Plane + u[2] /\ text[k] = c
    <3>. HIDE DEF U
    <3>. QED  BY <1>2
  <2>. HIDE DEF u, c
  <2>3. c \in Scalars /\ c \div Plane = u[1] /\ c % Plane = u[2]
    BY <2>1, <2>2, ScalarOfRune
  <2>4. /\ HalfOne(c, e.big) = (IF e.big THEN u[1] ELSE u[2])
        /\ HalfTwo(c, e.big) = (IF e.big THEN u[2] ELSE u[1])
    BY <2>3, Zenon DEF HalfOne, HalfTwo
  <2>5. AreUnits(EncodeRune(c, e), HalfOne(c, e.big), HalfTwo(c, e.big), e.big)
    BY <2>3, RuneBytes
  <2>6. AreUnits(Four(data, k), HalfOne(c, e.big), HalfTwo(c, e.big), e.big)
    BY <2>1, <2>4, Zenon
  <2>7. \A j \in 1..4 : EncodeRune(c, e)[j] = Four(data, k)[j]
    <3>. DEFINE x == EncodeRune(c, e)
                z == Four(data, k)
    <3>. HIDE DEF x, z
    <3>1. \A j \in 1..4 : x[j] = z[j]
      BY <1>1, <2>5, <2>6, SameUnits DEF x, z
    <3>. QED  BY <3>1 DEF x, z
  <2>. QED  BY <2>2, <2>3, <2>7 DEF c
<1>. HIDE DEF V
<1>5. text \in Seq(Scalars) /\ Len(text) = n
  BY <1>2, <1>3, <1>4
<1>. DEFINE out == EncodeWide(text, e)
<1>6. /\ out \in Seq(Byte) /\ Len(out) = 4 * n
      /\ \A k \in 1..n, j \in 1..4 : out[4 * (k - 1) + j] = EncodeRune(text[k], e)[j]
  BY <1>5, EncodeTyped, EncodedAt32
<1>. HIDE DEF out
<1>7. ASSUME NEW i \in 1..Len(data) PROVE out[i] = data[i]
  <2>1. PICK k \in 1..n, j \in 1..4 : i = 4 * (k - 1) + j
    <3>. DEFINE k == (i - 1) \div 4 + 1
                j == ((i - 1) % 4) + 1
    <3>1. k \in 1..n /\ j \in 1..4 /\ i = 4 * (k - 1) + j
      BY <1>3, SMT
    <3>. HIDE DEF k, j
    <3>. QED  BY <3>1
  <2>2. out[i] = EncodeRune(text[k], e)[j]
    BY <1>6, <2>1
  <2>3. EncodeRune(text[k], e)[j] = Four(data, k)[j]
    BY <1>4
  <2>4. Four(data, k)[j] = data[i]
    <3>1. \/ j = 1 /\ i = 4 * k - 3
          \/ j = 2 /\ i = 4 * k - 2
          \/ j = 3 /\ i = 4 * k - 1
          \/ j = 4 /\ i = 4 * k
      BY <2>1, SMT
    <3>2. /\ Four(data, k)[1] = data[4 * k - 3] /\ Four(data, k)[2] = data[4 * k - 2]
          /\ Four(data, k)[3] = data[4 * k - 1] /\ Four(data, k)[4] = data[4 * k]
      BY DEF Four
    <3>. QED  BY <3>1, <3>2, Zenon
  <2>. QED  BY <2>2, <2>3, <2>4
<1>8. out = data
  BY <1>3, <1>6, <1>7, SeqEqual
<1>. QED  BY <1>8 DEF out, text

\* Both widths together.
LEMMA ReadBack ==
    ASSUME NEW text \in Seq(Scalars), NEW e \in WideEncodings
    PROVE  DecodeWide(EncodeWide(text, e), e) = text
<1>1. e.width = 2 \/ e.width = 4
  BY RuneIs DEF WideEncodings
<1>. QED  BY <1>1, ReadBack16, ReadBack32 DEF DecodeWide

LEMMA BytesBack ==
    ASSUME NEW data \in Seq(Byte), NEW e \in WideEncodings
    PROVE  IsTextOf(data, e)
<1>. SUFFICES ASSUME DecodeWide(data, e) # Invalid
              PROVE  EncodeWide(DecodeWide(data, e), e) = data
  BY DEF IsTextOf
<1>1. e.width = 2 \/ e.width = 4
  BY DEF WideEncodings
<1>. QED  BY <1>1, BytesBack16, BytesBack32 DEF DecodeWide

-----------------------------------------------------------------------------
(* Byte order marks.                                                         *)

LEMMA FourEncodings ==
    /\ \A e \in WideEncodings : e = Utf16BE \/ e = Utf16LE \/ e = Utf32BE \/ e = Utf32LE
    /\ {Utf16BE, Utf16LE, Utf32BE, Utf32LE} \subseteq WideEncodings
BY DEF WideEncodings, Utf16BE, Utf16LE, Utf32BE, Utf32LE

LEMMA MarksAre ==
    /\ MarkOf(Utf32BE) = <<0, 0, 254, 255>> /\ MarkOf(Utf32LE) = <<255, 254, 0, 0>>
    /\ MarkOf(NotWide) = <<239, 187, 191>>
    /\ MarkOf(Utf16BE) = <<254, 255>> /\ MarkOf(Utf16LE) = <<255, 254>>
<1>1. /\ Utf32BE # Utf32LE /\ Utf32BE # NotWide /\ Utf32BE # Utf16BE /\ Utf32BE # Utf16LE
      /\ Utf32LE # NotWide /\ Utf32LE # Utf16BE /\ Utf32LE # Utf16LE
      /\ NotWide # Utf16BE /\ NotWide # Utf16LE /\ Utf16BE # Utf16LE
  BY DEF Utf16BE, Utf16LE, Utf32BE, Utf32LE, NotWide
<1>2. MarkOf(Utf32BE) = <<0, 0, 254, 255>>
  BY <1>1, Zenon DEF MarkOf
<1>3. MarkOf(Utf32LE) = <<255, 254, 0, 0>>
  BY <1>1, Zenon DEF MarkOf
<1>4. MarkOf(NotWide) = <<239, 187, 191>>
  BY <1>1, Zenon DEF MarkOf
<1>5. MarkOf(Utf16BE) = <<254, 255>>
  BY <1>1, Zenon DEF MarkOf
<1>6. MarkOf(Utf16LE) = <<255, 254>>
  BY <1>1, Zenon DEF MarkOf
<1>. QED  BY <1>2, <1>3, <1>4, <1>5, <1>6

LEMMA CandidatesAre ==
    /\ DOMAIN Candidates = 1..5
    /\ Candidates[1] = Utf32BE /\ Candidates[2] = Utf32LE /\ Candidates[3] = NotWide
    /\ Candidates[4] = Utf16BE /\ Candidates[5] = Utf16LE
BY DEF Candidates

\* A mark is before what follows it.
LEMMA MarkedWith ==
    ASSUME NEW m \in Seq(Byte), NEW x \in Seq(Byte)
    PROVE  /\ m \o x \in Seq(Byte) /\ Len(m) <= Len(m \o x) /\ Len(m \o x) = Len(m) + Len(x)
           /\ SubSeq(m \o x, 1, Len(m)) = m
           /\ SubSeq(m \o x, Len(m) + 1, Len(m \o x)) = x
           /\ \A i \in 1..Len(m) : (m \o x)[i] = m[i]
           /\ \A i \in 1..Len(x) : (m \o x)[Len(m) + i] = x[i]
<1>. DEFINE d == m \o x
<1>1. Len(m) \in Nat /\ Len(x) \in Nat
  BY LenProperties
<1>2. /\ d \in Seq(Byte) /\ Len(d) = Len(m) + Len(x)
      /\ \A i \in 1..(Len(m) + Len(x)) : d[i] = IF i <= Len(m) THEN m[i] ELSE x[i - Len(m)]
  BY ConcatProperties, Zenon
<1>. HIDE DEF d
<1>3. \A i \in 1..Len(m) : d[i] = m[i]
  BY <1>1, <1>2
<1>4. \A i \in 1..Len(x) : d[Len(m) + i] = x[i]
  <2>. SUFFICES ASSUME NEW i \in 1..Len(x) PROVE d[Len(m) + i] = x[i]
    OBVIOUS
  <2>1. /\ Len(m) + i \in 1..(Len(m) + Len(x)) /\ ~(Len(m) + i <= Len(m))
        /\ (Len(m) + i) - Len(m) = i
    BY <1>1
  <2>. QED  BY <1>2, <2>1, Zenon
<1>5. SubSeq(d, 1, Len(m)) = m
  <2>. DEFINE s == SubSeq(d, 1, Len(m))
  <2>1. \A i \in 1..Len(m) : d[i] \in Byte
    BY <1>3, ElementOfSeq
  <2>2. /\ s \in Seq(Byte) /\ Len(s) = (IF 1 <= Len(m) THEN Len(m) - 1 + 1 ELSE 0)
        /\ \A i \in 1..(Len(m) - 1 + 1) : s[i] = d[1 + i - 1]
    BY <1>1, <1>2, <2>1, SubSeqProperties
  <2>. HIDE DEF s
  <2>3. Len(s) = Len(m) /\ \A i \in 1..Len(m) : s[i] = m[i]
    BY <1>1, <1>3, <2>2
  <2>4. s = m
    BY <2>2, <2>3, SeqEqual
  <2>. QED  BY <2>4 DEF s
<1>6. SubSeq(d, Len(m) + 1, Len(d)) = x
  <2>. DEFINE s == Rest(d, Len(m) + 1)
  <2>1. Len(m) + 1 \in 1..(Len(d) + 1)
    BY <1>1, <1>2
  <2>2. /\ s \in Seq(Byte) /\ Len(s) = Len(d) - (Len(m) + 1) + 1
        /\ \A i \in 1..(Len(d) - (Len(m) + 1) + 1) : s[i] = d[(Len(m) + 1) + i - 1]
    BY <1>2, <2>1, RestTyped
  <2>. HIDE DEF s
  <2>3. Len(s) = Len(x) /\ \A i \in 1..Len(x) : s[i] = x[i]
    <3>1. Len(d) - (Len(m) + 1) + 1 = Len(x)
      BY <1>1, <1>2
    <3>2. ASSUME NEW i \in 1..Len(x) PROVE s[i] = x[i]
      <4>1. (Len(m) + 1) + i - 1 = Len(m) + i
        BY <1>1
      <4>2. s[i] = d[(Len(m) + 1) + i - 1]
        BY <2>2, <3>1, Zenon
      <4>. QED  BY <1>4, <4>1, <4>2, Zenon
    <3>. QED  BY <2>2, <3>1, <3>2, Zenon
  <2>4. s = x
    BY <2>2, <2>3, SeqEqual
  <2>. QED  BY <2>4 DEF s, Rest
<1>. QED  BY <1>1, <1>2, <1>3, <1>4, <1>5, <1>6 DEF d

\* A mark that is seen is there.
LEMMA MarkSeen ==
    ASSUME NEW data, NEW e, NEW m, MarkOf(e) = m, HasMark(data, e), Len(m) \in Nat
    PROVE  Len(m) <= Len(data) /\ \A i \in 1..Len(m) : data[i] = m[i]
<1>1. Len(m) <= Len(data) /\ SubSeq(data, 1, Len(m)) = m
  BY DEF HasMark
<1>2. \A i \in 1..Len(m) : SubSeq(data, 1, Len(m))[i] = data[i]
  BY SMT
<1>. QED  BY <1>1, <1>2

\* The first candidate that fits is taken.
LEMMA FirstMarkIs ==
    ASSUME NEW data, NEW i \in 1..5, HasMark(data, Candidates[i]),
           \A j \in 1..5 : j < i => ~HasMark(data, Candidates[j])
    PROVE  FirstMark(data) = i
<1>. DEFINE fit == {j \in DOMAIN Candidates : HasMark(data, Candidates[j])}
<1>1. fit = {j \in 1..5 : HasMark(data, Candidates[j])}
  BY CandidatesAre
<1>2. i \in fit /\ fit \subseteq 1..5 /\ \A j \in fit : ~(j < i)
  BY <1>1
<1>3. FirstMark(data) = CHOOSE k \in fit : \A j \in fit : k <= j
  BY <1>2, Zenon DEF FirstMark
<1>. HIDE DEF fit
<1>4. \A j \in fit : i <= j
  BY <1>2
<1>5. \A k \in fit : (\A j \in fit : k <= j) => k = i
  BY <1>2, <1>4
<1>. QED  BY <1>2, <1>3, <1>4, <1>5, Zenon

\* Behind its mark an encoding is found, and the bytes after the mark with it.
LEMMA MarkFound ==
    ASSUME NEW e \in WideEncodings, NEW x \in Seq(Byte),
           ~(e = Utf16LE /\ Len(x) >= 2 /\ x[1] = 0 /\ x[2] = 0)
    PROVE  LET data == MarkOf(e) \o x IN
           /\ FirstMark(data) # 0 /\ Candidates[FirstMark(data)] = e
           /\ SubSeq(data, Len(MarkOf(e)) + 1, Len(data)) = x
<1>. DEFINE m == MarkOf(e)
            d == m \o x
<1>0. 0 \in Byte /\ 254 \in Byte /\ 255 \in Byte
  BY DEF Byte
<1>1. /\ m \in Seq(Byte) /\ Len(m) \in Nat /\ Len(m) >= 2
      /\ e = Utf32BE => Len(m) = 4 /\ m[1] = 0
      /\ e = Utf32LE => Len(m) = 4 /\ m[1] = 255
      /\ e = Utf16BE => Len(m) = 2 /\ m[1] = 254
      /\ e = Utf16LE => Len(m) = 2 /\ m[1] = 255 /\ m[2] = 254
  <2>1. CASE e = Utf32BE
    <3>1. m = <<0, 0, 254, 255>> /\ e # Utf32LE /\ e # Utf16BE /\ e # Utf16LE
      BY <2>1, MarksAre DEF Utf16BE, Utf16LE, Utf32BE, Utf32LE
    <3>. QED  BY <1>0, <3>1
  <2>2. CASE e = Utf32LE
    <3>1. m = <<255, 254, 0, 0>> /\ e # Utf32BE /\ e # Utf16BE /\ e # Utf16LE
      BY <2>2, MarksAre DEF Utf16BE, Utf16LE, Utf32BE, Utf32LE
    <3>. QED  BY <1>0, <3>1
  <2>3. CASE e = Utf16BE
    <3>1. m = <<254, 255>> /\ e # Utf32BE /\ e # Utf32LE /\ e # Utf16LE
      BY <2>3, MarksAre DEF Utf16BE, Utf16LE, Utf32BE, Utf32LE
    <3>. QED  BY <1>0, <3>1
  <2>4. CASE e = Utf16LE
    <3>1. m = <<255, 254>> /\ e # Utf32BE /\ e # Utf32LE /\ e # Utf16BE
      BY <2>4, MarksAre DEF Utf16BE, Utf16LE, Utf32BE, Utf32LE
    <3>. QED  BY <1>0, <3>1
  <2>. QED  BY <2>1, <2>2, <2>3, <2>4, FourEncodings
<1>2. /\ Len(d) = Len(m) + Len(x) /\ Len(m) <= Len(d) /\ SubSeq(d, 1, Len(m)) = m
      /\ SubSeq(d, Len(m) + 1, Len(d)) = x /\ Len(x) \in Nat
      /\ \A i \in 1..Len(m) : d[i] = m[i]
      /\ \A i \in 1..Len(x) : d[Len(m) + i] = x[i]
  <2>. HIDE DEF m
  <2>. QED  BY <1>1, MarkedWith, LenProperties
<1>. HIDE DEF d
<1>3. HasMark(d, e)
  BY <1>2 DEF HasMark
<1>. HIDE DEF m
<1>4. d[1] = m[1] /\ d[2] = m[2]
  <2>1. 1 \in 1..Len(m) /\ 2 \in 1..Len(m)
    BY <1>1
  <2>. QED  BY <1>2, <2>1
<1>5. HasMark(d, Utf32BE) => d[1] = 0
  <2>. DEFINE l == <<0, 0, 254, 255>>
  <2>1. Len(l) \in Nat /\ 1 \in 1..Len(l) /\ l[1] = 0
    OBVIOUS
  <2>2. MarkOf(Utf32BE) = l
    BY MarksAre
  <2>. HIDE DEF l
  <2>. QED  BY <2>1, <2>2, MarkSeen
<1>6. HasMark(d, Utf32LE) =>
         4 <= Len(d) /\ d[1] = 255 /\ d[2] = 254 /\ d[3] = 0 /\ d[4] = 0
  <2>. DEFINE l == <<255, 254, 0, 0>>
  <2>1. Len(l) = 4 /\ l[1] = 255 /\ l[2] = 254 /\ l[3] = 0 /\ l[4] = 0
    OBVIOUS
  <2>2. MarkOf(Utf32LE) = l
    BY MarksAre
  <2>. HIDE DEF l
  <2>3. Len(l) \in Nat /\ 1 \in 1..4 /\ 2 \in 1..4 /\ 3 \in 1..4 /\ 4 \in 1..4
    BY <2>1
  <2>4. HasMark(d, Utf32LE) => Len(l) <= Len(d) /\ \A i \in 1..Len(l) : d[i] = l[i]
    BY <2>2, <2>3, MarkSeen
  <2>. QED  BY <2>1, <2>3, <2>4
<1>7. HasMark(d, NotWide) => d[1] = 239
  <2>. DEFINE l == <<239, 187, 191>>
  <2>1. Len(l) \in Nat /\ 1 \in 1..Len(l) /\ l[1] = 239
    OBVIOUS
  <2>2. MarkOf(NotWide) = l
    BY MarksAre
  <2>. HIDE DEF l
  <2>. QED  BY <2>1, <2>2, MarkSeen
<1>8. \E i \in 1..5 : FirstMark(d) = i /\ Candidates[i] = e
  <2>1. CASE e = Utf32BE
    <3>1. \A j \in 1..5 : ~(j < 1)
      OBVIOUS
    <3>2. FirstMark(d) = 1
      BY <1>3, <2>1, <3>1, CandidatesAre, FirstMarkIs
    <3>. QED  BY <2>1, <3>2, CandidatesAre
  <2>2. CASE e = Utf32LE
    <3>1. \A j \in 1..5 : j < 2 => j = 1
      OBVIOUS
    <3>2. ~HasMark(d, Candidates[1])
      BY <1>1, <1>4, <1>5, <2>2, CandidatesAre
    <3>3. FirstMark(d) = 2
      BY <1>3, <2>2, <3>1, <3>2, CandidatesAre, FirstMarkIs
    <3>. QED  BY <2>2, <3>3, CandidatesAre
  <2>3. CASE e = Utf16BE
    <3>1. \A j \in 1..5 : j < 4 => j = 1 \/ j = 2 \/ j = 3
      OBVIOUS
    <3>2. d[1] = 254
      BY <1>1, <1>4, <2>3
    <3>3. /\ ~HasMark(d, Candidates[1]) /\ ~HasMark(d, Candidates[2])
          /\ ~HasMark(d, Candidates[3])
      BY <1>5, <1>6, <1>7, <3>2, CandidatesAre
    <3>4. FirstMark(d) = 4
      BY <1>3, <2>3, <3>1, <3>3, CandidatesAre, FirstMarkIs
    <3>. QED  BY <2>3, <3>4, CandidatesAre
  <2>4. CASE e = Utf16LE
    <3>1. \A j \in 1..5 : j < 5 => j = 1 \/ j = 2 \/ j = 3 \/ j = 4
      OBVIOUS
    <3>2. d[1] = 255 /\ Len(m) = 2
      BY <1>1, <1>4, <2>4
    <3>3. ~HasMark(d, Utf32LE)
      <4>. SUFFICES ASSUME HasMark(d, Utf32LE) PROVE FALSE
        OBVIOUS
      <4>1. 4 <= Len(d) /\ d[3] = 0 /\ d[4] = 0
        BY <1>6
      <4>2. Len(x) >= 2 /\ 1 \in 1..Len(x) /\ 2 \in 1..Len(x)
        BY <1>2, <3>2, <4>1
      <4>3. x[1] = 0 /\ x[2] = 0
        <5>1. 2 + 1 = 3 /\ 2 + 2 = 4
          OBVIOUS
        <5>. QED  BY <1>2, <3>2, <4>1, <4>2, <5>1
      <4>. QED  BY <2>4, <4>2, <4>3
    <3>4. /\ ~HasMark(d, Candidates[1]) /\ ~HasMark(d, Candidates[2])
          /\ ~HasMark(d, Candidates[3])
      BY <1>5, <1>7, <3>2, <3>3, CandidatesAre
    <3>5. ~HasMark(d, Utf16BE)
      <4>1. HasMark(d, Utf16BE) => d[1] = 254
        BY MarksAre, MarkSeen
      <4>. QED  BY <3>2, <4>1
    <3>6. FirstMark(d) = 5
      BY <1>3, <2>4, <3>1, <3>4, <3>5, CandidatesAre, FirstMarkIs
    <3>. QED  BY <2>4, <3>6, CandidatesAre
  <2>. QED  BY <2>1, <2>2, <2>3, <2>4, FourEncodings
<1>9. FirstMark(d) # 0 /\ Candidates[FirstMark(d)] = e
  BY <1>8
<1>. QED  BY <1>2, <1>9 DEF d, m

\* A text that does not begin with NUL does not begin with two bytes of 0.
LEMMA NoNulFirst ==
    ASSUME NEW text \in Seq(Scalars), text # <<>> => text[1] # 0,
           NEW e \in WideEncodings, e.width = 2
    PROVE  LET x == EncodeWide(text, e) IN ~(Len(x) >= 2 /\ x[1] = 0 /\ x[2] = 0)
<1>. DEFINE x == EncodeWide(text, e)
<1>1. CASE text = <<>>
  <2>1. x = <<>> /\ Len(<<>>) = 0
    BY <1>1, EncodeNothing
  <2>. QED  BY <2>1
<1>2. CASE text # <<>>
  <2>1. PICK c \in Scalars, t \in Seq(Scalars) : text = Cons(c, t)
    BY <1>2, FirstAndRest
  <2>2. c # 0 /\ c \in Int /\ e.big \in BOOLEAN
    <3>1. Cons(c, t)[1] = c
      BY ConsFacts DEF IsCons
    <3>. QED  BY <1>2, <2>1, <3>1, ScalarFacts DEF WideEncodings
  <2>3. \E u : \E y \in Seq(Byte) : u # 0 /\ StartsWith(x, u, e.big, y)
    <3>1. CASE c < Plane
      <4>1. StartsWith(x, c, e.big, EncodeWide(t, e)) /\ EncodeWide(t, e) \in Seq(Byte)
        BY <2>1, <3>1, EncodeSmall, EncodeTyped
      <4>. QED  BY <2>2, <4>1
    <3>2. CASE c >= Plane
      <4>1. High(c) # 0
        BY <3>2, PairOfUnit, HighFacts, SMT
      <4>. QED  BY <2>1, <3>2, <4>1, EncodeLarge
    <3>3. c < Plane \/ c >= Plane
      BY <2>2, Bounds, SMT
    <3>. HIDE DEF x
    <3>. QED  BY <3>1, <3>2, <3>3
  <2>. HIDE DEF x
  <2>9. PICK u : \E y \in Seq(Byte) : u # 0 /\ StartsWith(x, u, e.big, y)
    BY <2>3, Zenon
  <2>4. PICK y \in Seq(Byte) : u # 0 /\ StartsWith(x, u, e.big, y)
    BY <2>9, Zenon
  <2>5. PICK a \in Byte, b \in Byte : x = ConsTwo(a, b, y) /\ Uint16(a, b, e.big) = u
    BY <2>4 DEF StartsWith
  <2>. HIDE DEF x
  <2>6. x[1] = a /\ x[2] = b
    <3>1. /\ ConsTwo(a, b, y) = Cons(a, Cons(b, y)) /\ Cons(b, y) \in Seq(Byte)
          /\ Len(Cons(b, y)) = Len(y) + 1 /\ Cons(b, y)[1] = b /\ Len(y) \in Nat
      BY ConsTwoIsCons, ConsFacts, LenProperties DEF IsCons
    <3>2. IsCons(x, a, Cons(b, y))
      BY <2>5, <3>1, ConsFacts
    <3>3. 1 \in 1..Len(Cons(b, y)) /\ 1 + 1 = 2
      BY <3>1
    <3>. QED  BY <3>1, <3>2, <3>3 DEF IsCons
  <2>7. ~(a = 0 /\ b = 0)
    <3>. SUFFICES ASSUME a = 0, b = 0 PROVE u = 0
      BY <2>4
    <3>1. 256 * 0 + 0 = 0
      OBVIOUS
    <3>. QED  BY <2>5, <3>1, Zenon DEF Uint16
  <2>8. ~(Len(x) >= 2 /\ x[1] = 0 /\ x[2] = 0)
    BY <2>6, <2>7
  <2>. QED  BY <2>8 DEF x
<1>. QED  BY <1>1, <1>2

LEMMA TextIsRead ==
    ASSUME NEW text \in Seq(Scalars), NEW e \in WideEncodings, ~IsAmbiguous(text, e)
    PROVE  IsReadBack(text, e)
<1>. DEFINE x == EncodeWide(text, e)
            data == MarkOf(e) \o x
<1>1. x \in Seq(Byte)
  BY EncodeTyped
<1>2. ~(e = Utf16LE /\ Len(x) >= 2 /\ x[1] = 0 /\ x[2] = 0)
  <2>1. e = Utf16LE => e.width = 2
    BY DEF Utf16LE
  <2>2. e = Utf16LE /\ text # <<>> => text[1] # 0
    BY DEF IsAmbiguous
  <2>3. e = Utf16LE => ~(Len(x) >= 2 /\ x[1] = 0 /\ x[2] = 0)
    BY <2>1, <2>2, NoNulFirst
  <2>. QED  BY <2>3
<1>3. DecodeWide(x, e) = text
  BY ReadBack
<1>. HIDE DEF x
<1>4. /\ FirstMark(data) # 0 /\ Candidates[FirstMark(data)] = e
      /\ SubSeq(data, Len(MarkOf(e)) + 1, Len(data)) = x
  BY <1>1, <1>2, MarkFound
<1>. HIDE DEF data
<1>5. DecodeMarkedBytes(data) = text
  BY <1>3, <1>4, Zenon DEF DecodeMarkedBytes
<1>6. FirstMark(data) # 0 /\ Candidates[FirstMark(data)] = e /\ DecodeMarkedBytes(data) = text
  BY <1>4, <1>5
<1>. QED  BY <1>6, Zenon DEF IsReadBack, data, x

LEMMA TextIsScalars ==
    ASSUME NEW t, IsText(t)
    PROVE  t \in Seq(Scalars)
<1>. DEFINE all == 0..MaxRune
<1>1. t \in Seq(all) /\ \A i \in DOMAIN t : t[i] \notin Surrogates
  BY DEF IsText
<1>2. \A c : c \in Scalars <=> c \in all /\ c \notin Surrogates
  BY DEF Scalars
<1>. HIDE DEF all
<1>3. DOMAIN t = 1..Len(t) /\ Len(t) \in Nat /\ \A i \in 1..Len(t) : t[i] \in all
  BY <1>1, LenProperties, ElementOfSeq
<1>4. \A i \in 1..Len(t) : t[i] \in Scalars
  BY <1>1, <1>2, <1>3
<1>5. t = [i \in 1..Len(t) |-> t[i]]
  BY <1>1
<1>. QED  BY <1>3, <1>4, <1>5

-----------------------------------------------------------------------------
(* The theorems.                                                             *)

(* The functions of encoding.go and the encodings agree on any texts and any *)
(* bytes, of any length.                                                     *)
THEOREM EncodingsAgree == Misread = {} /\ MisreadBytes = {}
<1>1. /\ Wide \subseteq WideEncodings /\ Bytes \subseteq Seq(Byte)
      /\ \A text \in Texts : IsText(text)
  BY UnicodeAssumption DEF UnicodeAssumption, WideEncodings
<1>2. \A y \in Wide \X Texts : IsAmbiguous(y[2], y[1]) \/ IsReadBack(y[2], y[1])
  <2>. TAKE y \in Wide \X Texts
  <2>. DEFINE e == y[1]
              t == y[2]
  <2>1. e \in WideEncodings /\ IsText(t)
    BY <1>1
  <2>. HIDE DEF e, t
  <2>2. IsAmbiguous(t, e) \/ IsReadBack(t, e)
    BY <2>1, TextIsScalars, TextIsRead
  <2>. QED  BY <2>2 DEF e, t
<1>3. \A y \in Wide \X Bytes : IsTextOf(y[2], y[1])
  <2>. TAKE y \in Wide \X Bytes
  <2>1. y[1] \in WideEncodings /\ y[2] \in Seq(Byte)
    BY <1>1
  <2>. QED  BY <2>1, BytesBack
<1>. QED  BY <1>2, <1>3, Zenon DEF Misread, MisreadBytes

(* Whatever gets into an index as a text of UTF-16 or UTF-32 is that text.   *)
THEOREM WideTextsAreRead == Spec => []WideTextIsRead
<1>1. WideTextIsRead
  BY EncodingsAgree DEF WideTextIsRead
<1>. QED  BY <1>1, PTL

-----------------------------------------------------------------------------
(* Recursion, and the ends of a set of numbers.                              *)

Recurs(f, N, X, first, step) ==
    f \in [0..N -> X] /\ f[0] = first /\ \A n \in 1..N : f[n] = step[<<n, f[n - 1]>>]

\* A value for 0 and one for each number from that before it: a function.
LEMMA Recursion ==
    ASSUME NEW X, NEW first \in X, NEW N \in Nat, NEW step \in [(1..N) \X X -> X]
    PROVE  \E f : Recurs(f, N, X, first, step)
<1>. DEFINE Fits(f, k) == /\ f \in [0..k -> X] /\ f[0] = first
                          /\ \A n \in 1..k : f[n] = step[<<n, f[n - 1]>>]
            S == {k \in Nat : k <= N => \E f : Fits(f, k)}
<1>1. 0 \in S
  <2>. DEFINE f == [n \in 0..0 |-> first]
  <2>1. f \in [0..0 -> X] /\ f[0] = first /\ \A n : n \notin 1..0
    OBVIOUS
  <2>. HIDE DEF f
  <2>2. Fits(f, 0)
    BY <2>1
  <2>. QED  BY <2>2
<1>2. ASSUME NEW k \in S PROVE k + 1 \in S
  <2>. SUFFICES ASSUME k + 1 <= N PROVE \E f : Fits(f, k + 1)
    OBVIOUS
  <2>0. k \in Nat /\ k <= N /\ k + 1 \in 1..N
    OBVIOUS
  <2>1. PICK f : Fits(f, k)
    BY <2>0
  <2>. DEFINE next == step[<<k + 1, f[k]>>]
              g == [n \in 0..(k + 1) |-> IF n = k + 1 THEN next ELSE f[n]]
  <2>2. next \in X
    <3>1. f[k] \in X
      BY <2>0, <2>1
    <3>. QED  BY <2>0, <3>1
  <2>3. \A n \in 0..k : f[n] \in X /\ n # k + 1
    BY <2>0, <2>1
  <2>4. g \in [0..(k + 1) -> X] /\ g[k + 1] = next /\ \A n \in 0..k : g[n] = f[n]
    <3>. HIDE DEF next
    <3>1. \A n \in 0..(k + 1) : n = k + 1 \/ n \in 0..k
      BY <2>0
    <3>2. k + 1 \in 0..(k + 1) /\ 0..k \subseteq 0..(k + 1)
      BY <2>0
    <3>. QED  BY <2>2, <2>3, <3>1, <3>2
  <2>. HIDE DEF g
  <2>5. \A n \in 1..(k + 1) : g[n] = step[<<n, g[n - 1]>>]
    <3>. TAKE n \in 1..(k + 1)
    <3>1. CASE n = k + 1
      <4>1. n - 1 = k /\ k \in 0..k
        BY <2>0, <3>1
      <4>. QED  BY <2>4, <3>1, <4>1
    <3>2. CASE n # k + 1
      <4>1. n \in 1..k /\ n \in 0..k /\ n - 1 \in 0..k
        BY <2>0, <3>2
      <4>. QED  BY <2>1, <2>4, <4>1
    <3>. QED  BY <3>1, <3>2
  <2>6. g[0] = first
    BY <2>0, <2>1, <2>4
  <2>7. Fits(g, k + 1)
    BY <2>4, <2>5, <2>6
  <2>. QED  BY <2>7
<1>3. N \in S
  <2>1. S \in SUBSET Nat
    OBVIOUS
  <2>. HIDE DEF S
  <2>. QED  BY <1>1, <1>2, <2>1, Counting
<1>. QED  BY <1>3 DEF Recurs

\* A set of numbers has a least one.
LEMMA Least ==
    ASSUME NEW A \in SUBSET Nat, A # {}
    PROVE  \E a \in A : \A b \in A : a <= b
<1>. SUFFICES ASSUME \A a \in A : \E b \in A : b < a PROVE FALSE
  <2>1. \A a, b \in A : ~(b < a) => a <= b
    OBVIOUS
  <2>. QED  BY <2>1, Zenon
<1>. DEFINE T == {k \in Nat : \A a \in A : a >= k}
<1>1. 0 \in T
  OBVIOUS
<1>2. ASSUME NEW k \in T PROVE k + 1 \in T
  <2>1. k \notin A
    OBVIOUS
  <2>. QED  BY <2>1
<1>3. T = Nat
  <2>1. T \in SUBSET Nat
    OBVIOUS
  <2>. HIDE DEF T
  <2>. QED  BY <1>1, <1>2, <2>1, Counting
<1>4. PICK a \in A : TRUE
  OBVIOUS
<1>5. a + 1 \in T
  BY <1>3
<1>. QED  BY <1>4, <1>5

\* What Min and Max of SequencesExt give.
LEMMA EndsOfSet ==
    ASSUME NEW n \in Nat, NEW A \in SUBSET (1..n), A # {}
    PROVE  /\ Min(A) \in A /\ \A a \in A : Min(A) <= a
           /\ Max(A) \in A /\ \A a \in A : a <= Max(A)
<1>1. \E a \in A : \A b \in A : a <= b
  <2>1. A \subseteq Nat
    OBVIOUS
  <2>. QED  BY <2>1, Least
<1>2. \E a \in A : \A b \in A : a >= b
  <2>. DEFINE B == {n - a : a \in A}
  <2>1. B \subseteq Nat /\ B # {}
    <3>1. \A a \in A : n - a \in Nat
      OBVIOUS
    <3>. QED  BY <3>1
  <2>2. PICK c \in B : \A b \in B : c <= b
    <3>. HIDE DEF B
    <3>. QED  BY <2>1, Least
  <2>3. PICK a \in A : c = n - a
    <3>1. c \in B
      BY <2>2
    <3>. QED  BY <3>1, Zenon
  <2>4. \A b \in A : n - b \in B
    OBVIOUS
  <2>5. \A b \in A : n - a <= n - b
    <3>. HIDE DEF B
    <3>. QED  BY <2>2, <2>3, <2>4
  <2>6. \A b \in A : b \in Int
    OBVIOUS
  <2>7. \A b \in A : a >= b
    BY <2>5, <2>6
  <2>. QED  BY <2>7
<1>3. Min(A) \in A /\ \A a \in A : Min(A) <= a
  BY <1>1 DEF Min
<1>4. Max(A) \in A /\ \A a \in A : Max(A) >= a
  BY <1>2 DEF Max
<1>. QED  BY <1>3, <1>4

-----------------------------------------------------------------------------
(* Lines.                                                                    *)

Has(line, t) == \E i \in DOMAIN line : line[i] = t
IsBlank(line) == \A i \in DOMAIN line : line[i] = "blank"

\* t is the first token that is not blank.
Begins(line, t) ==
    /\ t # "blank"
    /\ \E i \in DOMAIN line : line[i] = t /\ \A j \in 1..(i - 1) : line[j] = "blank"

\* A sequence with one element more.
LEMMA Appended ==
    ASSUME NEW S, NEW s \in Seq(S), NEW t \in S
    PROVE  /\ Append(s, t) \in Seq(S) /\ Len(Append(s, t)) = Len(s) + 1
           /\ DOMAIN Append(s, t) = 1..(Len(s) + 1) /\ Append(s, t)[Len(s) + 1] = t
           /\ \A i \in 1..Len(s) : Append(s, t)[i] = s[i]
           /\ DOMAIN s = 1..Len(s) /\ Len(s) \in Nat
<1>1. DOMAIN s = 1..Len(s) /\ Len(s) \in Nat
  BY LenProperties
<1>2. /\ Append(s, t) \in Seq(S) /\ Len(Append(s, t)) = Len(s) + 1
      /\ \A i \in 1..Len(s) : Append(s, t)[i] = s[i]
      /\ Append(s, t)[Len(s) + 1] = t
  BY AppendProperties
<1>3. DOMAIN Append(s, t) = 1..Len(Append(s, t))
  BY <1>2, LenProperties
<1>. QED  BY <1>1, <1>2, <1>3

\* What one token more changes of a line.
LEMMA LineGrows ==
    ASSUME NEW line \in Seq(Tokens), NEW t \in Tokens
    PROVE  LET new == Append(line, t) IN
           /\ \A k : Has(new, k) <=> Has(line, k) \/ t = k
           /\ IsBlank(new) <=> IsBlank(line) /\ t = "blank"
           /\ \A k : Begins(new, k) <=>
                         Begins(line, k) \/ (IsBlank(line) /\ t = k /\ k # "blank")
           /\ Opens(new) <=> \/ Opens(line) /\ t # "close"
                             \/ ~Has(line, "open") /\ t = "open"
<1>. DEFINE new == Append(line, t)
            n == Len(line)
<1>1. /\ DOMAIN new = 1..(n + 1) /\ new[n + 1] = t /\ DOMAIN line = 1..n
      /\ \A i \in 1..n : new[i] = line[i]
      /\ n \in Nat /\ Len(new) = n + 1
  BY Appended
<1>2. /\ \A i \in 1..(n + 1) : i \in 1..n \/ i = n + 1
      /\ n + 1 \in 1..(n + 1) /\ 1..n \subseteq 1..(n + 1) /\ (n + 1) - 1 = n
      /\ \A i \in 1..n : 1..(i - 1) \subseteq 1..n /\ i \in Int
      /\ \A i \in 1..n : (i + 1)..(n + 1) = ((i + 1)..n) \cup {n + 1}
      /\ (n + 2)..(n + 1) = {} /\ (n + 1) + 1 = n + 2
      /\ \A i \in 1..n : (i + 1)..n \subseteq 1..n
  BY <1>1
<1>. HIDE DEF new, n
<1>3. \A k : Has(new, k) <=> Has(line, k) \/ t = k
  BY <1>1, <1>2, Zenon DEF Has
<1>4. IsBlank(new) <=> IsBlank(line) /\ t = "blank"
  BY <1>1, <1>2, Zenon DEF IsBlank
<1>5. \A k : Begins(new, k) <=> Begins(line, k) \/ (IsBlank(line) /\ t = k /\ k # "blank")
  <2>. TAKE k
  <2>1. ASSUME Begins(new, k) PROVE Begins(line, k) \/ (IsBlank(line) /\ t = k /\ k # "blank")
    <3>1. PICK i \in 1..(n + 1) :
               k # "blank" /\ new[i] = k /\ \A j \in 1..(i - 1) : new[j] = "blank"
      BY <1>1, <2>1 DEF Begins
    <3>2. CASE i = n + 1
      <4>1. \A j \in 1..n : line[j] = "blank"
        BY <1>1, <1>2, <3>1, <3>2
      <4>. QED  BY <1>1, <3>1, <3>2, <4>1 DEF IsBlank
    <3>3. CASE i \in 1..n
      <4>1. line[i] = k /\ \A j \in 1..(i - 1) : line[j] = "blank"
        BY <1>1, <1>2, <3>1, <3>3
      <4>. QED  BY <1>1, <3>1, <3>3, <4>1 DEF Begins
    <3>. QED  BY <1>2, <3>2, <3>3
  <2>2. ASSUME Begins(line, k) PROVE Begins(new, k)
    <3>1. PICK i \in 1..n :
               k # "blank" /\ line[i] = k /\ \A j \in 1..(i - 1) : line[j] = "blank"
      BY <1>1, <2>2 DEF Begins
    <3>2. new[i] = k /\ (\A j \in 1..(i - 1) : new[j] = "blank") /\ i \in 1..(n + 1)
      BY <1>1, <1>2, <3>1
    <3>. QED  BY <1>1, <3>1, <3>2 DEF Begins
  <2>3. ASSUME IsBlank(line), t = k, k # "blank" PROVE Begins(new, k)
    <3>1. new[n + 1] = k /\ \A j \in 1..((n + 1) - 1) : new[j] = "blank"
      BY <1>1, <1>2, <2>3 DEF IsBlank
    <3>. QED  BY <1>1, <1>2, <2>3, <3>1 DEF Begins
  <2>. QED  BY <2>1, <2>2, <2>3
<1>6. Opens(new) <=> \/ Opens(line) /\ t # "close"
                     \/ ~Has(line, "open") /\ t = "open"
  <2>1. ASSUME Opens(new)
        PROVE  (Opens(line) /\ t # "close") \/ (~Has(line, "open") /\ t = "open")
    <3>1. PICK i \in 1..(n + 1) : /\ new[i] = "open" /\ \A j \in 1..(i - 1) : new[j] # "open"
                                  /\ \A j \in (i + 1)..(n + 1) : new[j] # "close"
      BY <1>1, <2>1 DEF Opens
    <3>2. CASE i = n + 1
      <4>1. t = "open" /\ \A j \in 1..n : line[j] # "open"
        BY <1>1, <1>2, <3>1, <3>2
      <4>. QED  BY <1>1, <4>1 DEF Has
    <3>3. CASE i \in 1..n
      <4>1. /\ line[i] = "open" /\ t # "close"
            /\ \A j \in 1..(i - 1) : line[j] # "open"
            /\ \A j \in (i + 1)..n : line[j] # "close"
        BY <1>1, <1>2, <3>1, <3>3
      <4>. QED  BY <1>1, <3>3, <4>1 DEF Opens, n
    <3>. QED  BY <1>2, <3>2, <3>3
  <2>2. ASSUME Opens(line), t # "close" PROVE Opens(new)
    <3>1. PICK i \in 1..n : /\ line[i] = "open" /\ \A j \in 1..(i - 1) : line[j] # "open"
                            /\ \A j \in (i + 1)..n : line[j] # "close"
      BY <1>1, <2>2 DEF Opens, n
    <3>2. /\ new[i] = "open" /\ \A j \in 1..(i - 1) : new[j] # "open"
          /\ \A j \in (i + 1)..(n + 1) : new[j] # "close"
      BY <1>1, <1>2, <2>2, <3>1
    <3>. QED  BY <1>1, <1>2, <3>2 DEF Opens
  <2>3. ASSUME ~Has(line, "open"), t = "open" PROVE Opens(new)
    <3>1. /\ new[n + 1] = "open" /\ \A j \in 1..((n + 1) - 1) : new[j] # "open"
          /\ \A j \in ((n + 1) + 1)..(n + 1) : new[j] # "close"
      BY <1>1, <1>2, <2>3 DEF Has
    <3>. QED  BY <1>1, <1>2, <3>1 DEF Opens
  <2>. QED  BY <2>1, <2>2, <2>3
<1>. QED  BY <1>3, <1>4, <1>5, <1>6 DEF new

\* A line has one first token that is not blank.
LEMMA OneBeginning ==
    ASSUME NEW line \in Seq(Tokens), NEW a, NEW b, Begins(line, a), Begins(line, b)
    PROVE  a = b
<1>. DEFINE n == Len(line)
<1>1. DOMAIN line = 1..n /\ n \in Nat
  BY LenProperties
<1>2. PICK i \in 1..n : a # "blank" /\ line[i] = a /\ \A j \in 1..(i - 1) : line[j] = "blank"
  BY <1>1 DEF Begins
<1>3. PICK k \in 1..n : b # "blank" /\ line[k] = b /\ \A j \in 1..(k - 1) : line[j] = "blank"
  BY <1>1 DEF Begins
<1>4. ~(i < k) /\ ~(k < i)
  <2>1. i < k => i \in 1..(k - 1)
    BY <1>1
  <2>2. k < i => k \in 1..(i - 1)
    BY <1>1
  <2>. QED  BY <1>2, <1>3, <2>1, <2>2
<1>5. i = k
  BY <1>1, <1>4
<1>. QED  BY <1>2, <1>3, <1>5

\* What is left of a line when the blanks at its ends are gone.
LEMMA TrimmedIs ==
    ASSUME NEW line \in Seq(Tokens)
    PROVE  LET trimmed == Trimmed(line) IN
           /\ trimmed = <<>> <=> IsBlank(line)
           /\ ~IsBlank(line) => /\ Begins(line, Head(trimmed))
                                /\ Opens(trimmed) <=> Opens(line)
                                /\ "close" \in ToSet(trimmed) <=> Has(line, "close")
<1>. DEFINE n == Len(line)
            some == {i \in DOMAIN line : line[i] # "blank"}
            a == Min(some)
            z == Max(some)
            new == Trimmed(line)
<1>1. DOMAIN line = 1..n /\ n \in Nat /\ some \subseteq 1..n /\ (some = {} <=> IsBlank(line))
  BY LenProperties DEF IsBlank
<1>2. new = IF some = {} THEN <<>> ELSE SubSeq(line, a, z)
  BY DEF Trimmed
<1>. SUFFICES ASSUME some # {}
              PROVE  /\ new # <<>> /\ Begins(line, Head(new))
                     /\ Opens(new) <=> Opens(line)
                     /\ "close" \in ToSet(new) <=> Has(line, "close")
  <2>. HIDE DEF some, a, z, new
  <2>. QED  BY <1>1, <1>2 DEF new
<1>3. /\ a \in some /\ z \in some /\ \A i \in some : a <= i /\ i <= z
  <2>. HIDE DEF some
  <2>. QED  BY <1>1, EndsOfSet
<1>4. /\ a \in 1..n /\ z \in 1..n /\ a <= z /\ line[a] # "blank"
      /\ \A i \in 1..n : line[i] # "blank" => i \in a..z
  <2>. HIDE DEF a, z
  <2>. QED  BY <1>1, <1>3
<1>. HIDE DEF a, z, some
<1>. DEFINE m == z - a + 1
<1>5. /\ m \in Nat /\ 1 \in 1..m /\ a..z \subseteq 1..n /\ a + 1 - 1 = a
      /\ \A i \in 1..m : a + i - 1 \in a..z /\ a + i - 1 \in 1..n /\ a + i - 1 \in Int
      /\ \A i \in a..z : i - a + 1 \in 1..m /\ a + (i - a + 1) - 1 = i
  BY <1>1, <1>4
<1>6. new \in Seq(Tokens) /\ Len(new) = m /\ \A i \in 1..m : new[i] = line[a + i - 1]
  <2>1. \A i \in a..z : line[i] \in Tokens
    BY <1>1, <1>5, ElementOfSeq
  <2>2. new = SubSeq(line, a, z)
    BY <1>2
  <2>3. a \in Int /\ z \in Int
    BY <1>1, <1>4
  <2>. HIDE DEF new, n
  <2>. QED  BY <1>4, <2>1, <2>2, <2>3, SubSeqProperties
<1>. HIDE DEF new
<1>7. DOMAIN new = 1..m
  BY <1>6, LenProperties
<1>. HIDE DEF m
<1>8. new # <<>> /\ Head(new) = line[a]
  <2>1. new # <<>>
    <3>1. Len(new) # 0
      BY <1>5, <1>6
    <3>. QED  BY <3>1
  <2>2. Head(new) = new[1]
    BY <1>6, <2>1, HeadTailProperties
  <2>. QED  BY <1>5, <1>6, <2>1, <2>2
<1>9. Begins(line, line[a])
  <2>1. \A j \in 1..(a - 1) : j \in 1..n /\ j \notin a..z
    BY <1>1, <1>4
  <2>2. \A j \in 1..(a - 1) : line[j] = "blank"
    BY <1>4, <2>1
  <2>. QED  BY <1>1, <1>4, <2>2 DEF Begins
<1>10. "close" \in ToSet(new) <=> Has(line, "close")
  <2>1. ToSet(new) = {new[i] : i \in 1..m}
    BY <1>7 DEF ToSet
  <2>2. ASSUME NEW i \in 1..m, new[i] = "close" PROVE Has(line, "close")
    BY <1>1, <1>5, <1>6, <2>2 DEF Has
  <2>3. ASSUME NEW i \in 1..n, line[i] = "close" PROVE \E k \in 1..m : new[k] = "close"
    <3>1. i \in a..z
      BY <1>4, <2>3
    <3>. QED  BY <1>5, <1>6, <2>3, <3>1
  <2>. QED  BY <1>1, <2>1, <2>2, <2>3 DEF Has
<1>11. Opens(new) <=> Opens(line)
  <2>1. ASSUME Opens(new) PROVE Opens(line)
    <3>1. PICK i \in 1..m : /\ new[i] = "open" /\ \A j \in 1..(i - 1) : new[j] # "open"
                            /\ \A j \in (i + 1)..m : new[j] # "close"
      BY <1>6, <1>7, <2>1 DEF Opens
    <3>. DEFINE k == a + i - 1
    <3>2. line[k] = "open" /\ k \in 1..n
      BY <1>5, <1>6, <3>1
    <3>3. ASSUME NEW j \in 1..(k - 1) PROVE line[j] # "open"
      <4>. SUFFICES ASSUME line[j] = "open" PROVE FALSE
        OBVIOUS
      <4>1. j \in 1..n
        BY <1>1, <3>2
      <4>2. j \in a..z
        BY <1>4, <4>1
      <4>3. j - a + 1 \in 1..(i - 1)
        BY <1>1, <1>4, <1>5, <4>2
      <4>4. new[j - a + 1] = line[j]
        BY <1>5, <1>6, <4>2
      <4>. QED  BY <3>1, <4>3, <4>4
    <3>4. ASSUME NEW j \in (k + 1)..n PROVE line[j] # "close"
      <4>. SUFFICES ASSUME line[j] = "close" PROVE FALSE
        OBVIOUS
      <4>1. j \in 1..n
        BY <1>1, <3>2
      <4>2. j \in a..z
        BY <1>4, <4>1
      <4>3. j - a + 1 \in (i + 1)..m
        BY <1>1, <1>4, <1>5, <4>2
      <4>4. new[j - a + 1] = line[j]
        BY <1>5, <1>6, <4>2
      <4>. QED  BY <3>1, <4>3, <4>4
    <3>. HIDE DEF k
    <3>. QED  BY <1>1, <3>2, <3>3, <3>4 DEF Opens, n
  <2>2. ASSUME Opens(line) PROVE Opens(new)
    <3>1. PICK k \in 1..n : /\ line[k] = "open" /\ \A j \in 1..(k - 1) : line[j] # "open"
                            /\ \A j \in (k + 1)..n : line[j] # "close"
      BY <1>1, <2>2 DEF Opens, n
    <3>. DEFINE i == k - a + 1
    <3>2. k \in a..z
      BY <1>4, <3>1
    <3>3. i \in 1..m /\ new[i] = "open"
      BY <1>5, <1>6, <3>1, <3>2
    <3>4. ASSUME NEW j \in 1..(i - 1) PROVE new[j] # "open"
      <4>1. j \in 1..m /\ a + j - 1 \in 1..(k - 1)
        BY <1>1, <1>4, <1>5, <3>2, <3>3
      <4>. QED  BY <1>6, <3>1, <4>1
    <3>5. ASSUME NEW j \in (i + 1)..m PROVE new[j] # "close"
      <4>1. j \in 1..m /\ a + j - 1 \in (k + 1)..n
        BY <1>1, <1>4, <1>5, <3>2, <3>3
      <4>. QED  BY <1>6, <3>1, <4>1
    <3>. HIDE DEF i
    <3>. QED  BY <1>6, <1>7, <3>3, <3>4, <3>5 DEF Opens
  <2>. QED  BY <2>1, <2>2
<1>. QED  BY <1>8, <1>9, <1>10, <1>11

\* Two functions with the same first value and the same steps are the same.
Alike(f, g, N) == f[0] = g[0] /\ \A n \in 1..N : f[n - 1] = g[n - 1] => f[n] = g[n]

LEMMA Same ==
    ASSUME NEW N \in Nat, NEW f, NEW g, Alike(f, g, N)
    PROVE  \A n \in 0..N : f[n] = g[n]
<1>. DEFINE S == {k \in Nat : k <= N => f[k] = g[k]}
<1>1. 0 \in S
  BY DEF Alike
<1>2. ASSUME NEW k \in S PROVE k + 1 \in S
  <2>. SUFFICES ASSUME k + 1 <= N PROVE f[k + 1] = g[k + 1]
    OBVIOUS
  <2>1. k + 1 \in 1..N /\ (k + 1) - 1 = k /\ f[k] = g[k]
    OBVIOUS
  <2>. QED  BY <2>1 DEF Alike
<1>3. S = Nat
  <2>1. S \in SUBSET Nat
    OBVIOUS
  <2>. HIDE DEF S
  <2>. QED  BY <1>1, <1>2, <2>1, Counting
<1>. QED  BY <1>3

-----------------------------------------------------------------------------
(* What the functions of SourceLines are up to a token, or up to a line.     *)

Fed(text, n, before) ==
    IF text[n] = "lf" /\ n > 1 /\ text[n - 1] = "cr" THEN before
    ELSE Append(before, IF text[n] = "cr" THEN "lf" ELSE text[n])

\* The function behind LineFeeds.
LEMMA FeedsAre ==
    ASSUME NEW text \in Seq(Tokens)
    PROVE  \E f \in [0..Len(text) -> Seq(Tokens)] :
               /\ LineFeeds(text) = f[Len(text)] /\ f[0] = <<>>
               /\ \A n \in 1..Len(text) : f[n] = Fed(text, n, f[n - 1])
<1>. DEFINE N == Len(text)
            Is(f) == f = [n \in 0..N |-> IF n = 0 THEN <<>> ELSE Fed(text, n, f[n - 1])]
            step == [p \in (1..N) \X Seq(Tokens) |-> Fed(text, p[1], p[2])]
            f == CHOOSE h : Is(h)
<1>0. N \in Nat /\ <<>> \in Seq(Tokens) /\ \A n \in 1..N : text[n] \in Tokens
  BY ElementOfSeq, LenProperties
<1>1. \A n \in 1..N, x \in Seq(Tokens) : Fed(text, n, x) \in Seq(Tokens)
  <2>1. \A t \in Tokens, x \in Seq(Tokens) : Append(x, t) \in Seq(Tokens)
    BY AppendProperties
  <2>2. "lf" \in Tokens
    BY DEF Tokens
  <2>. HIDE DEF N
  <2>. QED  BY <1>0, <2>1, <2>2 DEF Fed
<1>2. /\ step \in [(1..N) \X Seq(Tokens) -> Seq(Tokens)]
      /\ \A n \in 1..N, x \in Seq(Tokens) : step[<<n, x>>] = Fed(text, n, x)
  <2>. HIDE DEF N
  <2>. QED  BY <1>1
<1>. HIDE DEF step
<1>3. PICK g : Recurs(g, N, Seq(Tokens), <<>>, step)
  <2>. HIDE DEF N
  <2>. QED  BY <1>0, <1>2, Recursion, Zenon
<1>4. Is(f)
  <2>1. Is(g)
    <3>. HIDE DEF N
    <3>1. \A n \in 0..N : n = 0 \/ (n \in 1..N /\ n - 1 \in 0..N)
      BY <1>0
    <3>2. g = [n \in 0..N |-> g[n]]
      BY <1>3 DEF Recurs
    <3>3. \A n \in 0..N : g[n] = IF n = 0 THEN <<>> ELSE Fed(text, n, g[n - 1])
      BY <1>2, <1>3, <3>1, Zenon DEF Recurs
    <3>. QED  BY <3>2, <3>3, Zenon
  <2>. HIDE DEF Is
  <2>. QED  BY <2>1, Zenon
<1>5. LineFeeds(text) = f[N]
  BY Zenon DEF LineFeeds, Fed, N
<1>. HIDE DEF f, N
<1>6. f[0] = <<>> /\ \A n \in 1..N : f[n] = Fed(text, n, f[n - 1])
  BY <1>0, <1>4
<1>7. f \in [0..N -> Seq(Tokens)]
  <2>1. \A n \in 1..N : n - 1 \in 0..N /\ n \in 0..N
    BY <1>0
  <2>2. Alike(f, g, N)
    BY <1>2, <1>3, <1>6, <2>1, Zenon DEF Alike, Recurs
  <2>3. \A n \in 0..N : f[n] = g[n]
    <3>. HIDE DEF Is
    <3>. QED  BY <1>0, <2>2, Same, Zenon
  <2>. QED  BY <1>3, <1>4, <2>3 DEF Recurs
<1>. QED  BY <1>5, <1>6, <1>7 DEF N

SplitAt(token, before) ==
    IF token = "lf" THEN Append(before, <<>>)
    ELSE Append(Front(before), Append(Last(before), token))

Lines == Seq(Seq(Tokens)) \ {<<>>}

\* The last line, the one that grows, and those before it.
LEMMA LastLine ==
    ASSUME NEW lines \in Lines
    PROVE  /\ Len(lines) \in Nat \ {0} /\ DOMAIN lines = 1..Len(lines)
           /\ \A i \in 1..Len(lines) : lines[i] \in Seq(Tokens)
           /\ Last(lines) = lines[Len(lines)] /\ Last(lines) \in Seq(Tokens)
           /\ Front(lines) \in Seq(Seq(Tokens)) /\ Len(Front(lines)) = Len(lines) - 1
           /\ \A i \in 1..(Len(lines) - 1) : Front(lines)[i] = lines[i]
<1>. DEFINE S == Seq(Tokens)
<1>. HIDE DEF S
<1>1. lines \in Seq(S) /\ lines # <<>>
  BY DEF Lines, S
<1>2. Len(lines) \in Nat \ {0} /\ DOMAIN lines = 1..Len(lines)
  BY <1>1, LenProperties, EmptySeq
<1>3. \A i \in 1..Len(lines) : lines[i] \in S
  BY <1>1, <1>2, ElementOfSeq
<1>4. Last(lines) = lines[Len(lines)]
  BY DEF Last
<1>5. /\ Front(lines) \in Seq(S) /\ Len(Front(lines)) = Len(lines) - 1
      /\ \A i \in 1..(Len(lines) - 1) : Front(lines)[i] = lines[i]
  <2>1. Front(lines) = SubSeq(lines, 1, Len(lines) - 1)
    BY DEF Front
  <2>2. \A i \in 1..(Len(lines) - 1) : lines[i] \in S /\ i \in 1..Len(lines)
    BY <1>2, <1>3
  <2>3. 1 <= Len(lines) - 1 + 1 /\ Len(lines) - 1 \in Int /\ 1 \in Int
    BY <1>2
  <2>. QED  BY <1>1, <1>2, <2>1, <2>2, <2>3, SubSeqProperties
<1>6. Len(lines) \in 1..Len(lines)
  BY <1>2
<1>. QED  BY <1>2, <1>3, <1>4, <1>5, <1>6 DEF S

\* A token more of a text that is split: a line more, or a token more in the last.
LEMMA SplitGrows ==
    ASSUME NEW before \in Lines, NEW t \in Tokens
    PROVE  LET after == SplitAt(t, before)
               n == Len(before)
           IN  /\ after \in Lines /\ \A i \in 1..(n - 1) : after[i] = before[i]
               /\ t = "lf" => /\ Len(after) = n + 1 /\ after[n] = before[n]
                               /\ after[n + 1] = <<>>
               /\ t # "lf" => Len(after) = n /\ after[n] = Append(before[n], t)
<1>. DEFINE S == Seq(Tokens)
            after == SplitAt(t, before)
            n == Len(before)
<1>1. <<>> \in S /\ before \in Seq(S) /\ before[n] \in S /\ Append(before[n], t) \in S
  BY LastLine, AppendProperties DEF Lines
<1>2. n \in Nat \ {0} /\ Last(before) = before[n]
  BY LastLine
<1>3. /\ Front(before) \in Seq(S) /\ Len(Front(before)) = n - 1
      /\ \A i \in 1..(n - 1) : Front(before)[i] = before[i]
  BY LastLine
<1>. HIDE DEF S, n
<1>4. CASE t = "lf"
  <2>1. after = Append(before, <<>>)
    BY <1>4 DEF SplitAt
  <2>2. /\ after \in Seq(S) /\ Len(after) = n + 1 /\ after[n + 1] = <<>>
        /\ \A i \in 1..n : after[i] = before[i]
    BY <1>1, <2>1, AppendProperties DEF n
  <2>. HIDE DEF after
  <2>3. after # <<>>
    BY <1>2, <2>2
  <2>4. after \in Lines
    BY <2>2, <2>3 DEF Lines, S
  <2>5. n \in 1..n /\ \A i \in 1..(n - 1) : i \in 1..n
    BY <1>2
  <2>. QED  BY <1>4, <2>2, <2>4, <2>5 DEF after, n
<1>5. CASE t # "lf"
  <2>. DEFINE front == Front(before)
              line == Append(before[n], t)
  <2>1. after = Append(front, line)
    BY <1>2, <1>5 DEF SplitAt
  <2>. HIDE DEF front, line
  <2>2. front \in Seq(S) /\ line \in S /\ Len(front) = n - 1
    BY <1>1, <1>3 DEF front, line
  <2>3. /\ after \in Seq(S) /\ Len(after) = (n - 1) + 1 /\ after[(n - 1) + 1] = line
        /\ \A i \in 1..(n - 1) : after[i] = front[i]
    BY <2>1, <2>2, AppendProperties
  <2>4. after # <<>> /\ (n - 1) + 1 = n
    BY <1>2, <2>3
  <2>. QED  BY <1>3, <1>5, <2>3, <2>4 DEF Lines, S, n, front, line
<1>. QED  BY <1>4, <1>5

\* The function behind Split.
LEMMA SplitIs ==
    ASSUME NEW text \in Seq(Tokens)
    PROVE  \E f \in [0..Len(text) -> Lines] :
               /\ Split(text) = f[Len(text)] /\ f[0] = << <<>> >>
               /\ \A n \in 1..Len(text) : f[n] = SplitAt(text[n], f[n - 1])
<1>. DEFINE N == Len(text)
            Is(f) == f = [n \in 0..N |-> IF n = 0 THEN << <<>> >> ELSE SplitAt(text[n], f[n - 1])]
            step == [p \in (1..N) \X Lines |-> SplitAt(text[p[1]], p[2])]
            f == CHOOSE h : Is(h)
<1>0. N \in Nat /\ << <<>> >> \in Lines /\ \A n \in 1..N : text[n] \in Tokens
  <2>1. N \in Nat /\ \A n \in 1..N : text[n] \in Tokens
    BY ElementOfSeq, LenProperties
  <2>2. << <<>> >> \in Lines
    BY DEF Lines
  <2>. QED  BY <2>1, <2>2
<1>1. \A n \in 1..N, x \in Lines : SplitAt(text[n], x) \in Lines
  <2>. HIDE DEF N
  <2>. QED  BY <1>0, SplitGrows
<1>2. /\ step \in [(1..N) \X Lines -> Lines]
      /\ \A n \in 1..N, x \in Lines : step[<<n, x>>] = SplitAt(text[n], x)
  <2>. HIDE DEF N
  <2>. QED  BY <1>1
<1>. HIDE DEF step
<1>3. PICK g : Recurs(g, N, Lines, << <<>> >>, step)
  <2>. HIDE DEF N
  <2>. QED  BY <1>0, <1>2, Recursion, Zenon
<1>4. Is(f)
  <2>1. Is(g)
    <3>. HIDE DEF N
    <3>1. \A n \in 0..N : n = 0 \/ (n \in 1..N /\ n - 1 \in 0..N)
      BY <1>0
    <3>2. g = [n \in 0..N |-> g[n]]
      BY <1>3 DEF Recurs
    <3>3. \A n \in 0..N : g[n] = IF n = 0 THEN << <<>> >> ELSE SplitAt(text[n], g[n - 1])
      BY <1>2, <1>3, <3>1, Zenon DEF Recurs
    <3>. QED  BY <3>2, <3>3, Zenon
  <2>. HIDE DEF Is
  <2>. QED  BY <2>1, Zenon
<1>5. Split(text) = f[N]
  BY Zenon DEF Split, SplitAt, N
<1>. HIDE DEF f, N
<1>6. f[0] = << <<>> >> /\ \A n \in 1..N : f[n] = SplitAt(text[n], f[n - 1])
  <2>1. 0 \in 0..N /\ \A n \in 1..N : n \in 0..N /\ n # 0
    BY <1>0
  <2>2. \A n \in 0..N : f[n] = IF n = 0 THEN << <<>> >> ELSE SplitAt(text[n], f[n - 1])
    BY <1>4, Zenon
  <2>. QED  BY <2>1, <2>2, Zenon
<1>7. f \in [0..N -> Lines]
  <2>1. \A n \in 1..N : n - 1 \in 0..N /\ n \in 0..N
    BY <1>0
  <2>2. Alike(f, g, N)
    BY <1>2, <1>3, <1>6, <2>1, Zenon DEF Alike, Recurs
  <2>3. \A n \in 0..N : f[n] = g[n]
    <3>. HIDE DEF Is
    <3>. QED  BY <1>0, <2>2, Same, Zenon
  <2>. QED  BY <1>3, <1>4, <2>3 DEF Recurs
<1>. QED  BY <1>5, <1>6, <1>7 DEF N

-----------------------------------------------------------------------------
(* The counts of lines, and the reader.                                      *)

Counts == [lines : Nat, blank : Nat, comment : Nat, code : Nat]
Counted == [metrics : Counts, inBlock : BOOLEAN]
States == [counts : Counts, mode : {"code", "block", "line"},
           seen : {"blank", "comment", "code"},
           closed : BOOLEAN, empty : BOOLEAN, tidy : BOOLEAN, plain : BOOLEAN]

\* One line more, of a kind.
OneMore(counts, kind) ==
    [lines |-> counts.lines,
     blank |-> counts.blank + OneIf(kind = "blank"),
     comment |-> counts.comment + OneIf(kind = "comment"),
     code |-> counts.code + OneIf(kind = "code")]

\* What computeFileMetrics counts a line as.
KindOf(trimmed, inBlock) ==
    IF trimmed = <<>> THEN "blank"
    ELSE IF IsCommentOnly(trimmed, inBlock) THEN "comment" ELSE "code"

LEMMA OneOrNone == \A test \in BOOLEAN : OneIf(test) \in Nat
BY DEF OneIf

\* A line more: its kind is counted, and whether a block is open at its end.
LEMMA CountLineIs ==
    ASSUME NEW acc \in Counted, NEW trimmed
    PROVE  LET next == CountLine(acc, trimmed) IN
           /\ next \in Counted
           /\ next.metrics = OneMore(acc.metrics, KindOf(trimmed, acc.inBlock))
           /\ next.inBlock <=> IF trimmed = <<>> THEN acc.inBlock
                               ELSE InBlockAfter(trimmed, acc.inBlock)
<1>. DEFINE next == CountLine(acc, trimmed)
            m == acc.metrics
<1>1. m \in Counts /\ acc.inBlock \in BOOLEAN
  BY DEF Counted, Counts
<1>2. CASE trimmed = <<>>
  <2>1. next = [acc EXCEPT !.metrics.blank = @ + 1]
    BY <1>2 DEF CountLine
  <2>2. next.metrics = [m EXCEPT !.blank = @ + 1] /\ next.inBlock = acc.inBlock
    BY <2>1 DEF Counted
  <2>3. next \in Counted
    BY <1>1, <2>1, <2>2 DEF Counted, Counts
  <2>4. KindOf(trimmed, acc.inBlock) = "blank"
    BY <1>2 DEF KindOf
  <2>5. next.metrics = OneMore(m, "blank")
    BY <1>1, <2>2 DEF OneMore, OneIf, Counts
  <2>. QED  BY <1>2, <2>2, <2>3, <2>4, <2>5
<1>3. CASE trimmed # <<>>
  <2>. DEFINE b == InBlockAfter(trimmed, acc.inBlock)
  <2>1. b \in BOOLEAN
    BY <1>1, Zenon DEF InBlockAfter
  <2>2. next = [metrics |-> IF IsCommentOnly(trimmed, acc.inBlock)
                            THEN [m EXCEPT !.comment = @ + 1]
                            ELSE [m EXCEPT !.code = @ + 1],
                inBlock |-> b]
    BY <1>3, Zenon DEF CountLine
  <2>. HIDE DEF b, m, next
  <2>3. /\ next.metrics = IF IsCommentOnly(trimmed, acc.inBlock)
                          THEN [m EXCEPT !.comment = @ + 1] ELSE [m EXCEPT !.code = @ + 1]
        /\ next.inBlock = b
    BY <2>2, Zenon
  <2>4. next.metrics = OneMore(m, KindOf(trimmed, acc.inBlock))
    BY <1>1, <1>3, <2>3 DEF OneMore, OneIf, KindOf, Counts
  <2>5. next.metrics \in Counts
    BY <1>1, <2>3 DEF Counts
  <2>6. next \in Counted
    BY <2>1, <2>2, <2>3, <2>5, Zenon DEF Counted
  <2>. QED  BY <1>3, <2>3, <2>4, <2>6 DEF next, m, b
<1>. QED  BY <1>2, <1>3

\* The same of the reader, where a line ends.
LEMMA EndLineIs ==
    ASSUME NEW s \in States
    PROVE  LET next == EndLine(s) IN
           /\ next \in States
           /\ next.counts = [OneMore(s.counts, s.seen) EXCEPT !.lines = s.counts.lines + 1]
           /\ next.mode = IF s.mode = "line" THEN "code" ELSE s.mode
           /\ next.seen = "blank" /\ next.closed = FALSE /\ next.empty = TRUE
           /\ next.tidy = s.tidy /\ next.plain = s.plain
<1>. DEFINE c == [lines |-> s.counts.lines + 1,
                  blank |-> s.counts.blank + OneIf(s.seen = "blank"),
                  comment |-> s.counts.comment + OneIf(s.seen = "comment"),
                  code |-> s.counts.code + OneIf(s.seen = "code")]
            d == IF s.mode = "line" THEN "code" ELSE s.mode
            next == [s EXCEPT !.counts = c, !.mode = d, !.seen = "blank",
                              !.closed = FALSE, !.empty = TRUE]
<1>1. EndLine(s) = next
  BY Zenon DEF EndLine
<1>2. c \in Counts /\ c = [OneMore(s.counts, s.seen) EXCEPT !.lines = s.counts.lines + 1]
  <2>1. s.counts \in Counts
    BY DEF States
  <2>2. \A test \in BOOLEAN : OneIf(test) \in Nat
    BY OneOrNone
  <2>3. \A kind : (s.seen = kind) \in BOOLEAN
    OBVIOUS
  <2>4. c \in Counts
    BY <2>1, SMT DEF Counts, OneIf
  <2>. QED  BY <2>1, <2>4 DEF OneMore, Counts
<1>3. d \in {"code", "block", "line"}
  BY DEF States
<1>. HIDE DEF c, d
<1>4. /\ next.counts = c /\ next.mode = d /\ next.seen = "blank"
      /\ next.closed = FALSE /\ next.empty = TRUE
      /\ next.tidy = s.tidy /\ next.plain = s.plain
  BY Zenon DEF States
<1>5. next \in States
  BY <1>2, <1>3, Zenon DEF States
<1>. QED  BY <1>1, <1>2, <1>4, <1>5, Zenon DEF d

\* What a token does to the fields of a state.
ModeAfter(s, t) ==
    IF t = "blank" \/ s.mode = "line" THEN s.mode
    ELSE IF s.mode = "block" THEN IF t = "close" THEN "code" ELSE "block"
    ELSE IF t = "open" THEN "block" ELSE IF t = "line" THEN "line" ELSE "code"

SeenAfter(s, t) ==
    IF t = "blank" THEN s.seen
    ELSE IF s.mode = "code" /\ t # "open" /\ t # "line" THEN "code"
    ELSE IF s.seen = "code" THEN "code" ELSE "comment"

ClosedAfter(s, t) == IF t = "close" /\ s.mode = "block" THEN TRUE ELSE s.closed

\* A token more in the line of the reader.
LEMMA TokenIs ==
    ASSUME NEW s \in States, NEW t
    PROVE  LET next == Token(s, t) IN
           /\ next \in States /\ next.counts = s.counts /\ next.empty = FALSE
           /\ next.mode = ModeAfter(s, t) /\ next.seen = SeenAfter(s, t)
           /\ next.closed = ClosedAfter(s, t)
           /\ IsOrdinary(next) => IsOrdinary(s)
           /\ IsOrdinary(next) /\ t # "blank" =>
                ~s.closed /\ (s.mode = "line" => t # "open" \/ s.seen # "code")
<1>. DEFINE b == s.tidy /\ (t # "blank" => ~s.closed)
            k == IF s.seen = "code" THEN "code" ELSE "comment"
            c == s.plain /\ ~(t = "open" /\ s.seen = "code")
            on == [s EXCEPT !.empty = FALSE, !.tidy = b]
            comment == [on EXCEPT !.seen = k]
            next == Token(s, t)
<1>1. /\ b \in BOOLEAN /\ c \in BOOLEAN /\ k \in {"blank", "comment", "code"}
      /\ (b => s.tidy) /\ (c => s.plain) /\ (t # "blank" /\ b => ~s.closed)
      /\ c => t # "open" \/ s.seen # "code"
  BY Zenon DEF States
<1>2. /\ on \in States /\ on.counts = s.counts /\ on.mode = s.mode /\ on.seen = s.seen
      /\ on.closed = s.closed /\ on.empty = FALSE /\ on.tidy = b
      /\ on.plain = s.plain
  <2>. HIDE DEF b
  <2>. QED  BY <1>1, Zenon DEF States
<1>3. /\ comment \in States /\ comment.counts = s.counts /\ comment.mode = s.mode
      /\ comment.seen = k /\ comment.closed = s.closed /\ comment.empty = FALSE
      /\ comment.tidy = b /\ comment.plain = s.plain
  <2>. HIDE DEF on, k
  <2>. QED  BY <1>1, <1>2, Zenon DEF States
<1>4. next = IF t = "blank" THEN on
             ELSE IF s.mode = "line" THEN [comment EXCEPT !.plain = c]
             ELSE IF s.mode = "block"
             THEN IF t = "close" THEN [comment EXCEPT !.mode = "code", !.closed = TRUE]
                  ELSE comment
             ELSE IF t = "open" THEN [comment EXCEPT !.mode = "block"]
             ELSE IF t = "line" THEN [comment EXCEPT !.mode = "line"]
             ELSE [on EXCEPT !.seen = "code"]
  <2>. DEFINE same == [on EXCEPT !.seen = IF @ = "code" THEN @ ELSE "comment"]
              line == [same EXCEPT !.plain = @ /\ ~(t = "open" /\ s.seen = "code")]
  <2>1. next = IF t = "blank" THEN on
               ELSE IF s.mode = "line" THEN line
               ELSE IF s.mode = "block"
               THEN IF t = "close" THEN [same EXCEPT !.mode = "code", !.closed = TRUE]
                    ELSE same
               ELSE IF t = "open" THEN [same EXCEPT !.mode = "block"]
               ELSE IF t = "line" THEN [same EXCEPT !.mode = "line"]
               ELSE [on EXCEPT !.seen = "code"]
    BY Zenon DEF Token
  <2>2. same = comment
    BY <1>2, Zenon
  <2>3. line = [comment EXCEPT !.plain = c]
    <3>1. line = [comment EXCEPT !.plain = @ /\ ~(t = "open" /\ s.seen = "code")]
      <4>. HIDE DEF same, comment
      <4>. QED  BY <2>2
    <3>. HIDE DEF comment
    <3>. QED  BY <1>3, <3>1, Zenon
  <2>. HIDE DEF next, same, comment, on, c, line
  <2>. QED  BY <2>1, <2>2, <2>3, Zenon
<1>. HIDE DEF next, comment, on, c, b
<1>5. CASE t = "blank"
  <2>1. next = on
    BY <1>4, <1>5, Zenon
  <2>. QED  BY <1>1, <1>2, <1>5, <2>1, Zenon DEF next, ModeAfter, SeenAfter, ClosedAfter, IsOrdinary
<1>6. CASE t # "blank" /\ s.mode = "line"
  <2>1. next = [comment EXCEPT !.plain = c]
    BY <1>4, <1>6, Zenon
  <2>2. /\ next \in States /\ next.counts = s.counts /\ next.mode = s.mode
        /\ next.seen = k /\ next.closed = s.closed /\ next.empty = FALSE
        /\ next.tidy = b /\ next.plain = c
    BY <1>1, <1>3, <2>1, Zenon DEF States
  <2>. QED  BY <1>1, <1>6, <2>2, Zenon DEF next, ModeAfter, SeenAfter, ClosedAfter, IsOrdinary
<1>7. CASE t # "blank" /\ s.mode = "block" /\ t = "close"
  <2>1. next = [comment EXCEPT !.mode = "code", !.closed = TRUE]
    BY <1>4, <1>7, Zenon
  <2>2. /\ next \in States /\ next.counts = s.counts /\ next.mode = "code"
        /\ next.seen = k /\ next.closed = TRUE /\ next.empty = FALSE
        /\ next.tidy = b /\ next.plain = s.plain
    BY <1>1, <1>3, <2>1, Zenon DEF States
  <2>. QED  BY <1>1, <1>7, <2>2, Zenon DEF next, ModeAfter, SeenAfter, ClosedAfter, IsOrdinary
<1>8. CASE t # "blank" /\ s.mode = "block" /\ t # "close"
  <2>1. next = comment
    BY <1>4, <1>8, Zenon
  <2>. QED  BY <1>1, <1>3, <1>8, <2>1, Zenon DEF next, ModeAfter, SeenAfter, ClosedAfter, IsOrdinary
<1>9. CASE t # "blank" /\ s.mode = "code" /\ t \in {"open", "line"}
  <2>1. next = [comment EXCEPT !.mode = IF t = "open" THEN "block" ELSE "line"]
    BY <1>4, <1>9, Zenon
  <2>2. /\ next \in States /\ next.counts = s.counts
        /\ next.mode = IF t = "open" THEN "block" ELSE "line"
        /\ next.seen = k /\ next.closed = s.closed /\ next.empty = FALSE
        /\ next.tidy = b /\ next.plain = s.plain
    BY <1>1, <1>3, <2>1, Zenon DEF States
  <2>. QED  BY <1>1, <1>9, <2>2, Zenon DEF next, ModeAfter, SeenAfter, ClosedAfter, IsOrdinary
<1>10. CASE t # "blank" /\ s.mode = "code" /\ t \notin {"open", "line"}
  <2>1. next = [on EXCEPT !.seen = "code"]
    BY <1>4, <1>10, Zenon
  <2>2. /\ next \in States /\ next.counts = s.counts /\ next.mode = "code"
        /\ next.seen = "code" /\ next.closed = s.closed /\ next.empty = FALSE
        /\ next.tidy = b /\ next.plain = s.plain
    BY <1>1, <1>2, <1>10, <2>1, Zenon DEF States
  <2>. QED  BY <1>1, <1>10, <2>2, Zenon DEF next, ModeAfter, SeenAfter, ClosedAfter, IsOrdinary
<1>11. s.mode \in {"code", "block", "line"}
  BY DEF States
<1>. QED  BY <1>5, <1>6, <1>7, <1>8, <1>9, <1>10, <1>11

Uncounted(n) == [metrics |-> [NoMetrics EXCEPT !.lines = n], inBlock |-> FALSE]

\* The function behind ComputeFileMetrics.
LEMMA MetricsAre ==
    ASSUME NEW lines \in Seq(Seq(Tokens))
    PROVE  \E f \in [0..Len(lines) -> Counted] :
               /\ ComputeFileMetrics(lines) = f[Len(lines)].metrics
               /\ f[0] = Uncounted(Len(lines))
               /\ \A n \in 1..Len(lines) : f[n] = CountLine(f[n - 1], Trimmed(lines[n]))
<1>. DEFINE N == Len(lines)
            Is(f) == f = [n \in 0..N |-> IF n = 0 THEN Uncounted(Len(lines))
                                          ELSE CountLine(f[n - 1], Trimmed(lines[n]))]
            step == [p \in (1..N) \X Counted |-> CountLine(p[2], Trimmed(lines[p[1]]))]
            f == CHOOSE h : Is(h)
<1>0. N \in Nat /\ Uncounted(Len(lines)) \in Counted
  <2>1. Len(lines) \in Nat
    BY LenProperties
  <2>. QED  BY <2>1 DEF Uncounted, NoMetrics, Counted, Counts
<1>1. \A n \in 1..N, x \in Counted : CountLine(x, Trimmed(lines[n])) \in Counted
  BY CountLineIs, Zenon
<1>2. /\ step \in [(1..N) \X Counted -> Counted]
      /\ \A n \in 1..N, x \in Counted : step[<<n, x>>] = CountLine(x, Trimmed(lines[n]))
  <2>. HIDE DEF N
  <2>. QED  BY <1>1
<1>. HIDE DEF step
<1>3. PICK g : Recurs(g, N, Counted, Uncounted(Len(lines)), step)
  <2>. HIDE DEF N
  <2>. QED  BY <1>0, <1>2, Recursion, Zenon
<1>4. Is(f)
  <2>1. Is(g)
    <3>. HIDE DEF N
    <3>1. \A n \in 0..N : n = 0 \/ (n \in 1..N /\ n - 1 \in 0..N)
      BY <1>0
    <3>2. g = [n \in 0..N |-> g[n]]
      BY <1>3 DEF Recurs
    <3>3. \A n \in 0..N : g[n] = IF n = 0 THEN Uncounted(Len(lines))
                                 ELSE CountLine(g[n - 1], Trimmed(lines[n]))
      BY <1>2, <1>3, <3>1, Zenon DEF Recurs
    <3>. QED  BY <3>2, <3>3, Zenon
  <2>. HIDE DEF Is
  <2>. QED  BY <2>1, Zenon
<1>5. ComputeFileMetrics(lines) = f[N].metrics
  BY Zenon DEF ComputeFileMetrics, Uncounted, N
<1>. HIDE DEF f, N
<1>6. /\ f[0] = Uncounted(Len(lines))
      /\ \A n \in 1..N : f[n] = CountLine(f[n - 1], Trimmed(lines[n]))
  BY <1>0, <1>4
<1>7. f \in [0..N -> Counted]
  <2>1. \A n \in 1..N : n - 1 \in 0..N /\ n \in 0..N
    BY <1>0
  <2>2. Alike(f, g, N)
    BY <1>2, <1>3, <1>6, <2>1, Zenon DEF Alike, Recurs
  <2>3. \A n \in 0..N : f[n] = g[n]
    <3>. HIDE DEF Is
    <3>. QED  BY <1>0, <2>2, Same, Zenon
  <2>. QED  BY <1>3, <1>4, <2>3 DEF Recurs
<1>. QED  BY <1>5, <1>6, <1>7 DEF N

ReadAt(text, n, before) ==
    IF text[n] = "lf" /\ n > 1 /\ text[n - 1] = "cr" THEN before
    ELSE IF text[n] \in {"cr", "lf"} THEN EndLine(before)
    ELSE Token(before, text[n])

\* The function behind Reading.
LEMMA ReadingIs ==
    ASSUME NEW text \in Seq(Tokens)
    PROVE  \E f \in [0..Len(text) -> States] :
               /\ Reading(text) = (IF f[Len(text)].empty THEN f[Len(text)]
                                   ELSE EndLine(f[Len(text)]))
               /\ f[0] = Start
               /\ \A n \in 1..Len(text) : f[n] = ReadAt(text, n, f[n - 1])
<1>. DEFINE N == Len(text)
            Is(f) == f = [n \in 0..N |-> IF n = 0 THEN Start ELSE ReadAt(text, n, f[n - 1])]
            step == [p \in (1..N) \X States |-> ReadAt(text, p[1], p[2])]
            f == CHOOSE h : Is(h)
<1>0. N \in Nat /\ Start \in States
  BY LenProperties DEF Start, NoMetrics, States, Counts
<1>1. \A n \in 1..N, x \in States : ReadAt(text, n, x) \in States
  BY EndLineIs, TokenIs, Zenon DEF ReadAt
<1>2. /\ step \in [(1..N) \X States -> States]
      /\ \A n \in 1..N, x \in States : step[<<n, x>>] = ReadAt(text, n, x)
  <2>. HIDE DEF N
  <2>. QED  BY <1>1
<1>. HIDE DEF step
<1>3. PICK g : Recurs(g, N, States, Start, step)
  <2>. HIDE DEF N
  <2>. QED  BY <1>0, <1>2, Recursion, Zenon
<1>4. Is(f)
  <2>1. Is(g)
    <3>. HIDE DEF N
    <3>1. \A n \in 0..N : n = 0 \/ (n \in 1..N /\ n - 1 \in 0..N)
      BY <1>0
    <3>2. g = [n \in 0..N |-> g[n]]
      BY <1>3 DEF Recurs
    <3>3. \A n \in 0..N : g[n] = IF n = 0 THEN Start ELSE ReadAt(text, n, g[n - 1])
      BY <1>2, <1>3, <3>1, Zenon DEF Recurs
    <3>. QED  BY <3>2, <3>3, Zenon
  <2>. HIDE DEF Is
  <2>. QED  BY <2>1, Zenon
<1>5. Reading(text) = (IF f[N].empty THEN f[N] ELSE EndLine(f[N]))
  BY Zenon DEF Reading, ReadAt, N
<1>. HIDE DEF f, N
<1>6. f[0] = Start /\ \A n \in 1..N : f[n] = ReadAt(text, n, f[n - 1])
  BY <1>0, <1>4
<1>7. f \in [0..N -> States]
  <2>1. \A n \in 1..N : n - 1 \in 0..N /\ n \in 0..N
    BY <1>0
  <2>2. Alike(f, g, N)
    BY <1>2, <1>3, <1>6, <2>1, Zenon DEF Alike, Recurs
  <2>3. \A n \in 0..N : f[n] = g[n]
    <3>. HIDE DEF Is
    <3>. QED  BY <1>0, <2>2, Same, Zenon
  <2>. QED  BY <1>3, <1>4, <2>3 DEF Recurs
<1>. QED  BY <1>5, <1>6, <1>7 DEF N

\* What the state of the reader says of the line it is in, if all is ordinary so far, when the
\* line began in a block or not.
ReadInBlock(s, line) ==
    /\ s.seen # "code"
    /\ s.closed <=> Has(line, "close")
    /\ s.mode = IF s.closed THEN "code" ELSE "block"

ReadInCode(s, line) ==
    /\ s.mode = "code" /\ ~s.closed => ~Has(line, "open") /\ s.seen # "comment"
    /\ s.mode = "block" => ~s.closed /\ Opens(line) /\ Has(line, "open") /\ s.seen # "blank"
    /\ s.mode = "line" => /\ ~s.closed /\ s.seen # "blank"
                          /\ s.seen = "comment" => Begins(line, "line")
                          /\ s.seen = "code" => ~Has(line, "open")
    /\ s.closed => s.mode = "code" /\ Has(line, "open") /\ ~Opens(line)
    /\ s.seen = "comment" /\ s.mode # "line" => Begins(line, "open")
    /\ s.seen = "code" => \E k : Begins(line, k) /\ k # "open" /\ k # "line"

ReadLine(s, inBlock, line) ==
    /\ s.empty <=> line = <<>>
    /\ s.seen = "blank" <=> IsBlank(line)
    /\ inBlock => ReadInBlock(s, line)
    /\ ~inBlock => ReadInCode(s, line)

\* A token more, and the state still says what it does of the line.
LEMMA TokenRead ==
    ASSUME NEW s \in States, NEW line \in Seq(Tokens), NEW inBlock \in BOOLEAN,
           NEW t \in Tokens, IsOrdinary(Token(s, t)), ReadLine(s, inBlock, line)
    PROVE  ReadLine(Token(s, t), inBlock, Append(line, t))
<1>. DEFINE next == Token(s, t)
            new == Append(line, t)
<1>1. /\ next.empty = FALSE
      /\ next.mode = ModeAfter(s, t) /\ next.seen = SeenAfter(s, t)
      /\ next.closed = ClosedAfter(s, t)
      /\ t # "blank" => ~s.closed /\ (s.mode = "line" => t # "open" \/ s.seen # "code")
  BY TokenIs, Zenon
<1>2. /\ \A k : Has(new, k) <=> Has(line, k) \/ t = k
      /\ IsBlank(new) <=> IsBlank(line) /\ t = "blank"
      /\ \A k : Begins(new, k) <=> Begins(line, k) \/ (IsBlank(line) /\ t = k /\ k # "blank")
      /\ Opens(new) <=> \/ Opens(line) /\ t # "close"
                        \/ ~Has(line, "open") /\ t = "open"
  BY LineGrows, Zenon
<1>3. new # <<>>
  <2>1. Len(new) # 0
    BY Appended, LenProperties
  <2>. QED  BY <2>1
<1>4. /\ s.mode \in {"code", "block", "line"} /\ s.seen \in {"blank", "comment", "code"}
      /\ s.closed \in BOOLEAN
  BY DEF States
<1>. HIDE DEF next, new
<1>5. next.empty <=> new = <<>>
  BY <1>1, <1>3, Zenon
<1>6. next.seen = "blank" <=> IsBlank(new)
  <2>1. s.seen = "blank" <=> IsBlank(line)
    BY Zenon DEF ReadLine
  <2>. QED  BY <1>1, <1>2, <2>1 DEF ModeAfter, SeenAfter, ClosedAfter
<1>7. ASSUME inBlock PROVE ReadInBlock(next, new)
  <2>1. ReadInBlock(s, line)
    BY <1>7, Zenon DEF ReadLine
  <2>2. CASE t = "blank"
    <3>1. Has(new, "close") <=> Has(line, "close")
      BY <1>2, <2>2
    <3>. QED  BY <1>1, <2>1, <2>2, <3>1, Zenon DEF ReadInBlock, ModeAfter, SeenAfter, ClosedAfter
  <2>3. CASE t # "blank"
    <3>1. ~s.closed /\ s.mode = "block" /\ ~Has(line, "close") /\ s.seen # "code"
      BY <1>1, <2>1, <2>3, Zenon DEF ReadInBlock, ModeAfter, SeenAfter, ClosedAfter
    <3>2. Has(new, "close") <=> t = "close"
      BY <1>2, <3>1
    <3>3. CASE t = "close"
      <4>1. next.mode = "code" /\ next.closed = TRUE /\ next.seen # "code"
        BY <1>1, <2>3, <3>1, <3>3 DEF ModeAfter, SeenAfter, ClosedAfter
      <4>. QED  BY <3>2, <3>3, <4>1, Zenon DEF ReadInBlock
    <3>4. CASE t # "close"
      <4>1. next.mode = "block" /\ next.closed = s.closed /\ next.seen # "code"
        BY <1>1, <2>3, <3>1, <3>4 DEF ModeAfter, SeenAfter, ClosedAfter
      <4>. QED  BY <3>1, <3>2, <3>4, <4>1, Zenon DEF ReadInBlock
    <3>. QED  BY <3>3, <3>4
  <2>. QED  BY <2>2, <2>3
<1>8. ASSUME ~inBlock PROVE ReadInCode(next, new)
  <2>1. ReadInCode(s, line) /\ (s.seen = "blank" <=> IsBlank(line))
    BY <1>8, Zenon DEF ReadLine
  <2>2. CASE t = "blank"
    <3>1. /\ Has(new, "open") <=> Has(line, "open")
          /\ \A k : Begins(new, k) <=> Begins(line, k)
          /\ Opens(new) <=> Opens(line)
      BY <1>2, <2>2
    <3>. QED  BY <1>1, <2>1, <2>2, <3>1, Zenon DEF ReadInCode, ModeAfter, SeenAfter, ClosedAfter
  <2>3. CASE t # "blank" /\ s.mode = "line"
    <3>1. /\ next.mode = "line" /\ next.closed = s.closed /\ ~s.closed
          /\ next.seen = s.seen
      BY <1>1, <1>4, <2>1, <2>3 DEF ReadInCode, ModeAfter, SeenAfter, ClosedAfter
    <3>2. s.seen = "code" => ~Has(new, "open")
      BY <1>1, <1>2, <2>1, <2>3 DEF ReadInCode, ModeAfter, SeenAfter, ClosedAfter
    <3>3. \A k : Begins(line, k) => Begins(new, k)
      BY <1>2
    <3>. QED  BY <2>1, <2>3, <3>1, <3>2, <3>3, Zenon DEF ReadInCode
  <2>4. CASE t # "blank" /\ s.mode = "block"
    <3>1. ~s.closed /\ Opens(line) /\ Has(line, "open") /\ s.seen # "blank"
      BY <2>1, <2>4, Zenon DEF ReadInCode
    <3>2. Has(new, "open") /\ (Opens(new) <=> t # "close")
      BY <1>2, <3>1
    <3>3. \A k : Begins(line, k) => Begins(new, k)
      BY <1>2
    <3>4. next.seen = s.seen
      BY <1>1, <1>4, <2>4, <3>1 DEF ModeAfter, SeenAfter, ClosedAfter
    <3>5. CASE t = "close"
      <4>1. next.mode = "code" /\ next.closed = TRUE
        BY <1>1, <2>4, <3>5 DEF ModeAfter, SeenAfter, ClosedAfter
      <4>. QED  BY <2>1, <2>4, <3>1, <3>2, <3>3, <3>4, <3>5, <4>1, Zenon DEF ReadInCode
    <3>6. CASE t # "close"
      <4>1. next.mode = "block" /\ next.closed = s.closed
        BY <1>1, <2>4, <3>6 DEF ModeAfter, SeenAfter, ClosedAfter
      <4>. QED  BY <2>1, <2>4, <3>1, <3>2, <3>3, <3>4, <3>6, <4>1, Zenon DEF ReadInCode
    <3>. QED  BY <3>5, <3>6
  <2>5. CASE t # "blank" /\ s.mode = "code"
    <3>1. ~s.closed /\ ~Has(line, "open") /\ s.seen # "comment" /\ next.closed = s.closed
      BY <1>1, <2>1, <2>5 DEF ReadInCode, ModeAfter, SeenAfter, ClosedAfter
    <3>2. \A k : Begins(line, k) => Begins(new, k)
      BY <1>2
    <3>3. s.seen = "blank" => Begins(new, t)
      BY <1>2, <2>1, <2>5
    <3>4. CASE t = "open"
      <4>1. next.mode = "block" /\ next.seen = IF s.seen = "code" THEN "code" ELSE "comment"
        BY <1>1, <2>5, <3>4 DEF ModeAfter, SeenAfter, ClosedAfter
      <4>2. Opens(new) /\ Has(new, "open")
        BY <1>2, <3>1, <3>4
      <4>3. next.seen = "comment" => s.seen = "blank"
        BY <1>4, <3>1, <4>1
      <4>4. next.seen = "code" => s.seen = "code"
        BY <4>1
      <4>5. next.seen # "blank"
        BY <4>1
      <4>. QED  BY <2>1, <3>1, <3>2, <3>3, <3>4, <4>1, <4>2, <4>3, <4>4, <4>5, Zenon DEF ReadInCode
    <3>5. CASE t = "line"
      <4>1. next.mode = "line" /\ next.seen = IF s.seen = "code" THEN "code" ELSE "comment"
        BY <1>1, <2>5, <3>5 DEF ModeAfter, SeenAfter, ClosedAfter
      <4>2. ~Has(new, "open")
        BY <1>2, <3>1, <3>5
      <4>3. next.seen = "comment" => s.seen = "blank"
        BY <1>4, <3>1, <4>1
      <4>4. next.seen = "code" => s.seen = "code"
        BY <4>1
      <4>5. next.seen # "blank"
        BY <4>1
      <4>. QED  BY <2>1, <3>1, <3>2, <3>3, <3>5, <4>1, <4>2, <4>3, <4>4, <4>5, Zenon DEF ReadInCode
    <3>6. CASE t # "open" /\ t # "line"
      <4>1. next.mode = "code" /\ next.seen = "code"
        BY <1>1, <2>5, <3>6 DEF ModeAfter, SeenAfter, ClosedAfter
      <4>2. ~Has(new, "open")
        BY <1>2, <3>1, <3>6
      <4>3. \E k : Begins(new, k) /\ k # "open" /\ k # "line"
        <5>1. CASE s.seen = "blank"
          BY <3>3, <3>6, <5>1
        <5>2. CASE s.seen = "code"
          BY <2>1, <3>2, <5>2, Zenon DEF ReadInCode
        <5>. QED  BY <1>4, <3>1, <5>1, <5>2
      <4>. QED  BY <3>1, <4>1, <4>2, <4>3, Zenon DEF ReadInCode
    <3>. QED  BY <3>4, <3>5, <3>6
  <2>. QED  BY <1>4, <2>2, <2>3, <2>4, <2>5
<1>. QED  BY <1>5, <1>6, <1>7, <1>8, Zenon DEF ReadLine, next, new

\* At the end of a line both see the same kind of line, and agree on the block.
LEMMA LineEnds ==
    ASSUME NEW s \in States, NEW acc \in Counted, NEW line \in Seq(Tokens),
           ReadLine(s, acc.inBlock, line)
    PROVE  /\ KindOf(Trimmed(line), acc.inBlock) = s.seen
           /\ ReadLine(EndLine(s), CountLine(acc, Trimmed(line)).inBlock, <<>>)
<1>. DEFINE trimmed == Trimmed(line)
            head == Head(trimmed)
            in == acc.inBlock
            next == CountLine(acc, trimmed).inBlock
            end == EndLine(s)
<1>1. /\ trimmed = <<>> <=> IsBlank(line)
      /\ ~IsBlank(line) => /\ Begins(line, head)
                           /\ Opens(trimmed) <=> Opens(line)
                           /\ "close" \in ToSet(trimmed) <=> Has(line, "close")
  BY TrimmedIs, Zenon
<1>2. /\ next <=> IF trimmed = <<>> THEN in ELSE InBlockAfter(trimmed, in)
      /\ in \in BOOLEAN /\ next \in BOOLEAN
  <2>1. next <=> IF trimmed = <<>> THEN in ELSE InBlockAfter(trimmed, in)
    BY CountLineIs, Zenon
  <2>2. CountLine(acc, trimmed) \in Counted
    BY CountLineIs, Zenon
  <2>. HIDE DEF trimmed
  <2>. QED  BY <2>1, <2>2 DEF Counted
<1>3. /\ end.mode = IF s.mode = "line" THEN "code" ELSE s.mode
      /\ end.seen = "blank" /\ end.closed = FALSE /\ end.empty = TRUE
  BY EndLineIs, Zenon
<1>4. /\ s.mode \in {"code", "block", "line"} /\ s.seen \in {"blank", "comment", "code"}
      /\ s.closed \in BOOLEAN
  BY DEF States
<1>5. /\ s.seen = "blank" <=> IsBlank(line)
      /\ in => ReadInBlock(s, line)
      /\ ~in => ReadInCode(s, line)
  BY Zenon DEF ReadLine
<1>6. KindOf(trimmed, in) = IF trimmed = <<>> THEN "blank"
                            ELSE IF in \/ head \in {"open", "line"} THEN "comment" ELSE "code"
  BY Zenon DEF KindOf, IsCommentOnly
<1>7. InBlockAfter(trimmed, in) <=> IF in THEN ~("close" \in ToSet(trimmed))
                                    ELSE head # "line" /\ Opens(trimmed)
  BY <1>2, Zenon DEF InBlockAfter
<1>8. \A a, b : Begins(line, a) /\ Begins(line, b) => a = b
  BY OneBeginning, Zenon
<1>. HIDE DEF trimmed, head, in, next, end
<1>9. KindOf(trimmed, in) = s.seen /\ (next <=> s.mode = "block" )
  <2>1. CASE IsBlank(line)
    <3>1. s.seen = "blank" /\ trimmed = <<>> /\ KindOf(trimmed, in) = "blank" /\ (next <=> in)
      BY <1>1, <1>2, <1>5, <1>6, <2>1
    <3>2. \A k : k # "blank" => ~Has(line, k)
      BY <2>1 DEF IsBlank, Has
    <3>3. CASE in
      <4>1. ~s.closed
        BY <1>5, <3>2, <3>3, Zenon DEF ReadInBlock
      <4>. QED  BY <1>5, <3>1, <3>3, <4>1, Zenon DEF ReadInBlock
    <3>4. CASE ~in
      <4>1. s.mode # "block"
        BY <1>5, <3>1, <3>4, Zenon DEF ReadInCode
      <4>. QED  BY <1>2, <3>1, <3>4, <4>1
    <3>. QED  BY <1>2, <3>3, <3>4
  <2>2. CASE ~IsBlank(line)
    <3>1. /\ trimmed # <<>> /\ Begins(line, head) /\ (Opens(trimmed) <=> Opens(line))
          /\ ("close" \in ToSet(trimmed) <=> Has(line, "close")) /\ s.seen # "blank"
      BY <1>1, <1>5, <2>2
    <3>2. next <=> InBlockAfter(trimmed, in)
      BY <1>2, <3>1
    <3>3. CASE in
      <4>1. KindOf(trimmed, in) = "comment"
        BY <1>6, <3>1, <3>3
      <4>2. s.seen = "comment" /\ (s.closed <=> Has(line, "close"))
            /\ s.mode = IF s.closed THEN "code" ELSE "block"
        BY <1>4, <1>5, <3>1, <3>3 DEF ReadInBlock
      <4>3. next <=> ~Has(line, "close")
        BY <1>7, <3>1, <3>2, <3>3
      <4>. QED  BY <4>1, <4>2, <4>3
    <3>4. CASE ~in
      <4>1. ReadInCode(s, line) /\ (next <=> head # "line" /\ Opens(line))
        BY <1>5, <1>7, <3>1, <3>2, <3>4
      <4>2. Opens(line) => Has(line, "open")
        BY DEF Opens, Has
      <4>3. CASE s.seen = "comment"
        <5>1. (s.mode = "line" => head = "line") /\ (s.mode # "line" => head = "open")
          BY <1>8, <3>1, <4>1, <4>3 DEF ReadInCode
        <5>2. KindOf(trimmed, in) = "comment"
          BY <1>6, <3>1, <3>4, <5>1
        <5>3. s.mode = "block" => Opens(line)
          BY <4>1 DEF ReadInCode
        <5>4. s.mode = "code" => ~Opens(line)
          BY <1>4, <4>1, <4>2, <4>3 DEF ReadInCode
        <5>5. next <=> s.mode = "block"
          BY <1>4, <4>1, <5>1, <5>3, <5>4
        <5>. QED  BY <4>3, <5>2, <5>5
      <4>4. CASE s.seen = "code"
        <5>1. head # "line" /\ head # "open"
          BY <1>8, <3>1, <4>1, <4>4 DEF ReadInCode
        <5>2. KindOf(trimmed, in) = "code"
          BY <1>6, <3>1, <3>4, <5>1
        <5>3. s.mode = "block" => Opens(line)
          BY <4>1 DEF ReadInCode
        <5>4. s.mode = "code" => ~Opens(line)
          BY <1>4, <4>1, <4>2, <4>4 DEF ReadInCode
        <5>5. s.mode = "line" => ~Opens(line)
          BY <4>1, <4>2, <4>4 DEF ReadInCode
        <5>6. next <=> s.mode = "block"
          BY <1>4, <4>1, <5>1, <5>3, <5>4, <5>5
        <5>. QED  BY <4>4, <5>2, <5>6
      <4>. QED  BY <1>4, <3>1, <4>3, <4>4
    <3>. QED  BY <1>2, <3>3, <3>4
  <2>. QED  BY <2>1, <2>2
<1>10. ReadLine(end, next, <<>>)
  <2>1. IsBlank(<<>>) /\ \A k : ~Has(<<>>, k)
    BY DEF IsBlank, Has
  <2>2. end.mode = IF next THEN "block" ELSE "code"
    BY <1>3, <1>4, <1>9
  <2>3. next => ReadInBlock(end, <<>>)
    BY <1>3, <2>1, <2>2 DEF ReadInBlock
  <2>4. ~next => ReadInCode(end, <<>>)
    BY <1>3, <2>1, <2>2 DEF ReadInCode
  <2>. QED  BY <1>3, <2>1, <2>3, <2>4, Zenon DEF ReadLine
<1>. QED  BY <1>9, <1>10 DEF trimmed, in, next, end

-----------------------------------------------------------------------------
(* Sequences that grow at their end, all but their last d elements fixed.    *)

Grows(s, t, d) == Len(s) <= Len(t) /\ \A i \in 1..(Len(s) - d) : t[i] = s[i]

Growing(f, N, d) ==
    (\A n \in 0..N : Len(f[n]) \in Nat) /\ \A n \in 1..N : Grows(f[n - 1], f[n], d)

\* What is fixed at one step is as it is at the end.
LEMMA Kept ==
    ASSUME NEW N \in Nat, NEW d \in Nat, NEW f, Growing(f, N, d)
    PROVE  \A n \in 0..N : Grows(f[n], f[N], d)
<1>. DEFINE S == {k \in Nat : k <= N => Grows(f[N - k], f[N], d)}
<1>1. 0 \in S
  <2>1. N - 0 = N /\ Len(f[N]) \in Nat
    BY DEF Growing
  <2>. QED  BY <2>1 DEF Grows
<1>2. ASSUME NEW k \in S PROVE k + 1 \in S
  <2>. SUFFICES ASSUME k + 1 <= N PROVE Grows(f[N - (k + 1)], f[N], d)
    OBVIOUS
  <2>. DEFINE m == N - (k + 1)
              a == f[m]
              b == f[m + 1]
              c == f[N]
  <2>1. m \in 0..N /\ m + 1 \in 0..N /\ m + 1 \in 1..N /\ (m + 1) - 1 = m /\ m + 1 = N - k
    OBVIOUS
  <2>2. Grows(a, b, d)
    BY <2>1 DEF Growing
  <2>3. Grows(b, c, d)
    BY <2>1
  <2>4. Len(a) \in Nat /\ Len(b) \in Nat /\ Len(c) \in Nat
    BY <2>1 DEF Growing
  <2>. HIDE DEF a, b, c
  <2>5. \A i \in 1..(Len(a) - d) : i \in 1..(Len(b) - d)
    BY <2>2, <2>4 DEF Grows
  <2>6. Grows(a, c, d)
    BY <2>2, <2>3, <2>4, <2>5 DEF Grows
  <2>. QED  BY <2>6 DEF a, c
<1>3. S = Nat
  <2>1. S \in SUBSET Nat
    OBVIOUS
  <2>. HIDE DEF S
  <2>. QED  BY <1>1, <1>2, <2>1, Counting
<1>. SUFFICES ASSUME NEW n \in 0..N PROVE Grows(f[n], f[N], d)
  OBVIOUS
<1>4. N - n \in S /\ N - (N - n) = n /\ N - n <= N
  <2>1. N - n \in Nat /\ N - (N - n) = n /\ N - n <= N
    OBVIOUS
  <2>. HIDE DEF S
  <2>. QED  BY <1>3, <2>1
<1>. QED  BY <1>4

Adds(after, before, t) ==
    /\ after \in Seq(Tokens) /\ Len(after) = Len(before) + 1 /\ after[Len(before) + 1] = t
    /\ \A i \in 1..Len(before) : after[i] = before[i]

\* A token of the text: more of its line break, a line break, or of its line.
LEMMA FedIs ==
    ASSUME NEW text \in Seq(Tokens), NEW n \in 1..Len(text), NEW before \in Seq(Tokens),
           NEW s
    PROVE  LET after == Fed(text, n, before)
           IN  \/ after = before /\ ReadAt(text, n, s) = s
               \/ Adds(after, before, "lf") /\ ReadAt(text, n, s) = EndLine(s)
               \/ /\ text[n] \in Tokens \ {"lf"} /\ Adds(after, before, text[n])
                  /\ ReadAt(text, n, s) = Token(s, text[n])
<1>1. text[n] \in Tokens /\ "lf" \in Tokens
  BY ElementOfSeq, LenProperties DEF Tokens
<1>2. \A t \in Tokens : Adds(Append(before, t), before, t)
  BY AppendProperties DEF Adds
<1>3. CASE text[n] = "lf" /\ n > 1 /\ text[n - 1] = "cr"
  BY <1>3, Zenon DEF Fed, ReadAt
<1>4. CASE ~(text[n] = "lf" /\ n > 1 /\ text[n - 1] = "cr") /\ text[n] \in {"cr", "lf"}
  <2>1. Fed(text, n, before) = Append(before, "lf")
    BY <1>4 DEF Fed
  <2>2. ReadAt(text, n, s) = EndLine(s)
    BY <1>4, Zenon DEF ReadAt
  <2>. QED  BY <1>1, <1>2, <2>1, <2>2, Zenon
<1>5. CASE text[n] \notin {"cr", "lf"}
  <2>1. Fed(text, n, before) = Append(before, text[n])
    BY <1>5 DEF Fed
  <2>2. ReadAt(text, n, s) = Token(s, text[n])
    BY <1>5, Zenon DEF ReadAt
  <2>3. text[n] \in Tokens \ {"lf"}
    BY <1>1, <1>5
  <2>. QED  BY <1>2, <2>1, <2>2, <2>3, Zenon
<1>. QED  BY <1>3, <1>4, <1>5

\* The reader and the two passes over the lines, where the reader is at a
\* token, the first pass has come to m and the second to the line of it.
InStep(s, split, acc) ==
    LET n == Len(split)
    IN  IsOrdinary(s) => /\ ReadLine(s, acc.inBlock, split[n])
                         /\ s.counts = [acc.metrics EXCEPT !.lines = n - 1]

\* They stay in step at a line break ...
LEMMA BreakInStep ==
    ASSUME NEW s \in States, NEW split \in Lines, NEW acc \in Counted, InStep(s, split, acc)
    PROVE  InStep(EndLine(s), SplitAt("lf", split), CountLine(acc, Trimmed(split[Len(split)])))
<1>. DEFINE n == Len(split)
            line == split[n]
            after == SplitAt("lf", split)
            next == CountLine(acc, Trimmed(line))
            end == EndLine(s)
<1>1. n \in Nat \ {0} /\ line \in Seq(Tokens)
  BY LastLine
<1>2. Len(after) = n + 1 /\ after[n + 1] = <<>>
  BY SplitGrows DEF Tokens
<1>3. /\ IsOrdinary(end) <=> IsOrdinary(s)
      /\ end.counts = [OneMore(s.counts, s.seen) EXCEPT !.lines = s.counts.lines + 1]
  BY EndLineIs, Zenon DEF IsOrdinary
<1>. SUFFICES ASSUME IsOrdinary(end)
              PROVE  /\ ReadLine(end, next.inBlock, <<>>)
                     /\ end.counts = [next.metrics EXCEPT !.lines = n]
  <2>1. Len(after) - 1 = n
    BY <1>1, <1>2
  <2>. HIDE DEF n, after, next, end
  <2>2. InStep(end, after, next)
    BY <1>2, <2>1 DEF InStep
  <2>. QED  BY <2>2 DEF n, after, next, end
<1>4. ReadLine(s, acc.inBlock, line) /\ s.counts = [acc.metrics EXCEPT !.lines = n - 1]
  <2>1. IsOrdinary(s)
    BY <1>3, Zenon
  <2>. QED  BY <2>1, Zenon DEF InStep
<1>5. KindOf(Trimmed(line), acc.inBlock) = s.seen /\ ReadLine(end, next.inBlock, <<>>)
  BY <1>1, <1>4, LineEnds, Zenon
<1>6. next.metrics = OneMore(acc.metrics, KindOf(Trimmed(line), acc.inBlock))
  BY CountLineIs, Zenon
<1>7. end.counts = [next.metrics EXCEPT !.lines = n]
  <2>. DEFINE k == s.seen
              m == acc.metrics
  <2>1. m \in Counts
    BY DEF Counted
  <2>. HIDE DEF k, m, n, end, next
  <2>2. /\ end.counts = [OneMore([m EXCEPT !.lines = n - 1], k) EXCEPT !.lines = (n - 1) + 1]
        /\ next.metrics = OneMore(m, k)
    <3>1. s.counts = [m EXCEPT !.lines = n - 1] /\ s.counts.lines = n - 1
      BY <1>4, <2>1 DEF m, Counts
    <3>. QED  BY <1>3, <1>5, <1>6, <3>1 DEF k, m
  <2>3. (n - 1) + 1 = n
    BY <1>1
  <2>. QED  BY <2>1, <2>2, <2>3 DEF OneMore, Counts
<1>. QED  BY <1>5, <1>7

\* ... and at a token of a line.
LEMMA TokenInStep ==
    ASSUME NEW s \in States, NEW split \in Lines, NEW acc \in Counted, InStep(s, split, acc),
           NEW t \in Tokens \ {"lf"}
    PROVE  InStep(Token(s, t), SplitAt(t, split), acc)
<1>. DEFINE n == Len(split)
            line == split[n]
            after == SplitAt(t, split)
            next == Token(s, t)
<1>1. n \in Nat \ {0} /\ line \in Seq(Tokens)
  BY LastLine
<1>2. Len(after) = n /\ after[n] = Append(line, t)
  BY SplitGrows
<1>3. next.counts = s.counts /\ (IsOrdinary(next) => IsOrdinary(s))
  BY TokenIs, Zenon
<1>. SUFFICES ASSUME IsOrdinary(next)
              PROVE  /\ ReadLine(next, acc.inBlock, Append(line, t))
                     /\ next.counts = [acc.metrics EXCEPT !.lines = n - 1]
  <2>. HIDE DEF n, after, next, line
  <2>1. InStep(next, after, acc)
    BY <1>2 DEF InStep
  <2>. QED  BY <2>1 DEF after, next
<1>4. ReadLine(s, acc.inBlock, line) /\ s.counts = [acc.metrics EXCEPT !.lines = n - 1]
  BY <1>3, Zenon DEF InStep
<1>5. acc.inBlock \in BOOLEAN /\ t \in Tokens
  BY DEF Counted
<1>6. ReadLine(next, acc.inBlock, Append(line, t))
  BY <1>1, <1>4, <1>5, TokenRead, Zenon
<1>. QED  BY <1>3, <1>4, <1>6

\* The counts of the passes are those of the reader, of any ordinary text.
LEMMA CountsAgree ==
    ASSUME NEW text \in Seq(Tokens), IsOrdinary(Reading(text))
    PROVE  ComputeFileMetrics(SplitLines(text)) = Reading(text).counts
<1>. DEFINE N == Len(text)
            feeds == LineFeeds(text)
            M == Len(feeds)
            split == Split(feeds)
            lines == SplitLines(text)
            L == Len(lines)
<1>1. N \in Nat
  BY LenProperties
<1>2. PICK f1 \in [0..N -> Seq(Tokens)] :
           /\ feeds = f1[N] /\ f1[0] = <<>>
           /\ \A n \in 1..N : f1[n] = Fed(text, n, f1[n - 1])
  BY FeedsAre
<1>3. feeds \in Seq(Tokens) /\ M \in Nat
  <2>1. feeds \in Seq(Tokens)
    <3>. HIDE DEF feeds
    <3>. QED  BY <1>1, <1>2
  <2>. HIDE DEF feeds
  <2>. QED  BY <2>1, LenProperties
<1>4. PICK f2 \in [0..M -> Lines] :
           /\ split = f2[M] /\ f2[0] = << <<>> >>
           /\ \A m \in 1..M : f2[m] = SplitAt(feeds[m], f2[m - 1])
  <2>. HIDE DEF feeds
  <2>. QED  BY <1>3, SplitIs
<1>5. lines = IF Last(split) = <<>> THEN Front(split) ELSE split
  BY Zenon DEF SplitLines
<1>. HIDE DEF feeds, split, lines, N, M
<1>6. /\ split \in Lines /\ lines \in Seq(Seq(Tokens)) /\ L \in Nat
      /\ Len(split) \in Nat \ {0} /\ Last(split) = split[Len(split)]
      /\ L = IF Last(split) = <<>> THEN Len(split) - 1 ELSE Len(split)
      /\ \A i \in 1..(Len(split) - 1) : lines[i] = split[i]
      /\ Last(split) # <<>> => lines = split
  <2>1. split \in Lines
    BY <1>3, <1>4
  <2>2. /\ Len(split) \in Nat \ {0} /\ Front(split) \in Seq(Seq(Tokens))
        /\ Len(Front(split)) = Len(split) - 1
        /\ \A i \in 1..(Len(split) - 1) : Front(split)[i] = split[i]
        /\ Last(split) = split[Len(split)] /\ split \in Seq(Seq(Tokens))
    BY <2>1, LastLine DEF Lines
  <2>. QED  BY <1>5, <2>1, <2>2, Zenon, LenProperties
<1>7. PICK f3 \in [0..L -> Counted] :
           /\ ComputeFileMetrics(lines) = f3[L].metrics /\ f3[0] = Uncounted(L)
           /\ \A n \in 1..L : f3[n] = CountLine(f3[n - 1], Trimmed(lines[n]))
  BY <1>6, MetricsAre
<1>8. PICK f4 \in [0..N -> States] :
           /\ Reading(text) = (IF f4[N].empty THEN f4[N] ELSE EndLine(f4[N]))
           /\ f4[0] = Start /\ \A n \in 1..N : f4[n] = ReadAt(text, n, f4[n - 1])
  BY ReadingIs DEF N
<1>. HIDE DEF L
<1>. DEFINE m(n) == Len(f1[n])
            k(n) == Len(f2[m(n)])
\* Where a token takes the passes.
<1>9. ASSUME NEW n \in 1..N
      PROVE  /\ n - 1 \in 0..N /\ n \in 0..N
             /\ f1[n - 1] \in Seq(Tokens) /\ f4[n - 1] \in States
             /\ \/ f1[n] = f1[n - 1] /\ f4[n] = f4[n - 1]
                \/ Adds(f1[n], f1[n - 1], "lf") /\ f4[n] = EndLine(f4[n - 1])
                \/ /\ text[n] \in Tokens \ {"lf"} /\ Adds(f1[n], f1[n - 1], text[n])
                   /\ f4[n] = Token(f4[n - 1], text[n])
  <2>1. n - 1 \in 0..N /\ n \in 0..N
    BY <1>1
  <2>2. f1[n - 1] \in Seq(Tokens) /\ f4[n - 1] \in States
    BY <1>2, <1>8, <2>1
  <2>3. f1[n] = Fed(text, n, f1[n - 1]) /\ f4[n] = ReadAt(text, n, f4[n - 1])
    BY <1>2, <1>8
  <2>4. n \in 1..Len(text)
    BY DEF N
  <2>. DEFINE a == f1[n - 1]
              s == f4[n - 1]
              b == Fed(text, n, a)
              r == ReadAt(text, n, s)
              t == text[n]
  <2>5. \/ b = a /\ r = s
        \/ Adds(b, a, "lf") /\ r = EndLine(s)
        \/ t \in Tokens \ {"lf"} /\ Adds(b, a, t) /\ r = Token(s, t)
    <3>. HIDE DEF a, s
    <3>. QED  BY <2>2, <2>4, FedIs, Zenon DEF a
  <2>. HIDE DEF b, r, t
  <2>. QED  BY <2>1, <2>2, <2>3, <2>5, Zenon DEF b, r, t
<1>10. \A n \in 0..N : Grows(f1[n], feeds, 0) /\ m(n) \in 0..M
  <2>1. \A n \in 0..N : Len(f1[n]) \in Nat
    BY <1>2, LenProperties
  <2>2. ASSUME NEW n \in 1..N PROVE Grows(f1[n - 1], f1[n], 0)
    <3>. DEFINE a == f1[n - 1]
                b == f1[n]
    <3>1. Len(a) \in Nat /\ (b = a \/ Adds(b, a, "lf") \/ Adds(b, a, text[n]))
      BY <1>9, <2>1
    <3>. HIDE DEF a, b
    <3>2. Grows(a, b, 0)
      BY <3>1 DEF Adds, Grows
    <3>. QED  BY <3>2 DEF a, b
  <2>3. Growing(f1, N, 0)
    BY <2>1, <2>2 DEF Growing
  <2>4. \A n \in 0..N : Grows(f1[n], f1[N], 0)
    BY <1>1, <2>3, Kept, Zenon
  <2>. QED  BY <1>2, <1>3, <2>1, <2>4 DEF Grows, M
<1>11. \A i \in 0..M :
          Grows(f2[i], split, 1) /\ f2[i] \in Lines /\ Len(f2[i]) \in 1..Len(split)
  <2>1. \A i \in 0..M : f2[i] \in Lines /\ Len(f2[i]) \in Nat \ {0}
    BY <1>4, LastLine
  <2>2. ASSUME NEW i \in 1..M PROVE Grows(f2[i - 1], f2[i], 1)
    <3>1. i - 1 \in 0..M /\ feeds[i] \in Tokens
      BY <1>3, ElementOfSeq DEF M
    <3>2. f2[i - 1] \in Lines /\ f2[i] = SplitAt(feeds[i], f2[i - 1]) /\ Len(f2[i - 1]) \in Nat
      BY <1>4, <2>1, <3>1
    <3>. DEFINE a == f2[i - 1]
                b == f2[i]
                t == feeds[i]
    <3>3. b = SplitAt(t, a) /\ t \in Tokens /\ a \in Lines /\ Len(a) \in Nat
      BY <3>1, <3>2
    <3>. HIDE DEF a, b, t
    <3>4. /\ \A j \in 1..(Len(a) - 1) : b[j] = a[j]
          /\ Len(b) = Len(a) \/ Len(b) = Len(a) + 1
      BY <3>3, SplitGrows
    <3>5. Len(a) <= Len(b) /\ Len(b) \in Nat
      BY <3>3, <3>4
    <3>6. Grows(a, b, 1)
      BY <3>3, <3>4, <3>5 DEF Grows
    <3>. QED  BY <3>6 DEF a, b
  <2>3. Growing(f2, M, 1)
    BY <2>1, <2>2 DEF Growing
  <2>4. \A i \in 0..M : Grows(f2[i], f2[M], 1)
    BY <1>3, <2>3, Kept, Zenon
  <2>. QED  BY <1>4, <1>6, <2>1, <2>4 DEF Grows
\* In step all the way.
<1>. DEFINE Inv(n) == InStep(f4[n], f2[m(n)], f3[k(n) - 1])
<1>12. ASSUME NEW n \in 0..N
       PROVE  /\ m(n) \in 0..M /\ f2[m(n)] \in Lines /\ k(n) \in 1..Len(split)
              /\ k(n) - 1 \in 0..L /\ f3[k(n) - 1] \in Counted /\ f4[n] \in States
  <2>1. m(n) \in 0..M
    BY <1>10
  <2>. HIDE DEF m
  <2>2. f2[m(n)] \in Lines /\ k(n) \in 1..Len(split)
    BY <1>11, <2>1
  <2>. HIDE DEF k
  <2>3. k(n) - 1 \in 0..L
    BY <1>6, <2>2
  <2>. QED  BY <1>7, <1>8, <2>1, <2>2, <2>3
<1>13. Inv(0)
  <2>1. m(0) = 0 /\ k(0) = 1
    BY <1>2, <1>4
  <2>2. f2[m(0)][1] = <<>>
    BY <1>4, <2>1
  <2>3. k(0) - 1 = 0
    BY <2>1
  <2>4. /\ f3[0].inBlock = FALSE
        /\ Start.counts = [f3[0].metrics EXCEPT !.lines = 0]
    <3>. DEFINE b == f3[0]
    <3>1. b = Uncounted(L)
      BY <1>7
    <3>. HIDE DEF b
    <3>2. b.inBlock = FALSE /\ b.metrics = [NoMetrics EXCEPT !.lines = L]
      BY <3>1 DEF Uncounted
    <3>3. Start.counts = NoMetrics
      BY DEF Start
    <3>4. NoMetrics = [[NoMetrics EXCEPT !.lines = L] EXCEPT !.lines = 0]
      <4>1. NoMetrics \in Counts /\ NoMetrics.lines = 0
        BY DEF NoMetrics, Counts
      <4>. QED  BY <4>1 DEF Counts
    <3>. QED  BY <3>2, <3>3, <3>4 DEF b
  <2>5. ReadLine(Start, FALSE, <<>>)
    BY DEF ReadLine, ReadInCode, Start, IsBlank, Has
  <2>6. InStep(Start, f2[m(0)], f3[0])
    <3>. DEFINE a == f2[m(0)]
                b == f3[0]
    <3>1. a[Len(a)] = <<>> /\ Len(a) - 1 = 0
      BY <2>1, <2>2
    <3>. HIDE DEF a, b
    <3>2. ReadLine(Start, b.inBlock, a[Len(a)])
      BY <2>4, <2>5, <3>1, Zenon DEF b
    <3>3. Start.counts = [b.metrics EXCEPT !.lines = Len(a) - 1]
      BY <2>4, <3>1, Zenon DEF b
    <3>. QED  BY <3>2, <3>3, Zenon DEF InStep, a, b
  <2>. QED  BY <1>8, <2>3, <2>6
<1>14. ASSUME NEW n \in 1..N, Inv(n - 1) PROVE Inv(n)
  <2>1. n - 1 \in 0..N /\ n \in 0..N
    BY <1>9
  <2>. DEFINE s == f4[n - 1]
              old == f2[m(n - 1)]
              acc == f3[k(n - 1) - 1]
  <2>2. s \in States /\ old \in Lines /\ acc \in Counted
    BY <1>12, <2>1
  <2>3. InStep(s, old, acc)
    BY <1>14
  <2>4. CASE f1[n] = f1[n - 1] /\ f4[n] = f4[n - 1]
    <3>1. f2[m(n)] = f2[m(n - 1)] /\ k(n) = k(n - 1)
      BY <2>4
    <3>. HIDE DEF m, k
    <3>. QED  BY <2>3, <2>4, <3>1
\* What the second pass makes of a token more.
  <2>5. ASSUME NEW t \in Tokens, Adds(f1[n], f1[n - 1], t)
        PROVE  f2[m(n)] = SplitAt(t, old)
    <3>. DEFINE i == m(n)
    <3>1. i = m(n - 1) + 1 /\ f1[n][i] = t
      BY <2>5 DEF Adds
    <3>2. i \in 1..M /\ i - 1 = m(n - 1)
      BY <1>3, <1>10, <2>1, <3>1
    <3>3. feeds[i] = f1[n][i]
      <4>1. Grows(f1[n], feeds, 0)
        BY <1>10, <2>1
      <4>2. i \in 1..(Len(f1[n]) - 0)
        BY <3>2
      <4>. QED  BY <4>1, <4>2 DEF Grows
    <3>4. f2[i] = SplitAt(feeds[i], f2[i - 1])
      BY <1>4, <3>2
    <3>. HIDE DEF m
    <3>. QED  BY <3>1, <3>2, <3>3, <3>4
  <2>6. CASE Adds(f1[n], f1[n - 1], "lf") /\ f4[n] = EndLine(f4[n - 1])
    <3>1. "lf" \in Tokens
      BY DEF Tokens
    <3>2. f2[m(n)] = SplitAt("lf", old)
      BY <2>5, <2>6, <3>1
    <3>. HIDE DEF m
    <3>3. Len(old) = k(n - 1) /\ k(n) = Len(old) + 1 /\ f2[m(n)][Len(old)] = old[Len(old)]
      BY <2>2, <3>1, <3>2, SplitGrows
    <3>4. k(n) \in 1..Len(split) /\ k(n - 1) \in 1..Len(split) /\ m(n) \in 0..M
      BY <1>12, <2>1
    <3>5. split[k(n - 1)] = old[Len(old)]
      <4>1. Grows(f2[m(n)], split, 1)
        BY <1>11, <3>4
      <4>2. k(n - 1) \in 1..(Len(f2[m(n)]) - 1)
        <5>1. Len(f2[m(n)]) - 1 = k(n - 1)
          BY <3>3, <3>4
        <5>. QED  BY <3>4, <5>1
      <4>. HIDE DEF k
      <4>3. split[k(n - 1)] = f2[m(n)][k(n - 1)]
        BY <4>1, <4>2 DEF Grows
      <4>. QED  BY <3>3, <4>3
    <3>. HIDE DEF k
    <3>6. k(n) - 1 = k(n - 1) /\ k(n - 1) \in 1..L /\ k(n - 1) \in 1..(Len(split) - 1)
      BY <1>6, <3>3, <3>4
    <3>7. lines[k(n - 1)] = old[Len(old)]
      BY <1>6, <3>5, <3>6
    <3>8. f3[k(n) - 1] = CountLine(acc, Trimmed(old[Len(old)]))
      BY <1>7, <3>6, <3>7
    <3>. HIDE DEF s, old, acc
    <3>9. InStep(EndLine(s), SplitAt("lf", old), CountLine(acc, Trimmed(old[Len(old)])))
      BY <2>2, <2>3, BreakInStep
    <3>10. f4[n] = EndLine(s)
      BY <2>6 DEF s
    <3>. QED  BY <3>2, <3>8, <3>9, <3>10
  <2>7. CASE /\ text[n] \in Tokens \ {"lf"} /\ Adds(f1[n], f1[n - 1], text[n])
             /\ f4[n] = Token(f4[n - 1], text[n])
    <3>. DEFINE t == text[n]
    <3>1. t \in Tokens /\ t # "lf" /\ t \in Tokens \ {"lf"} /\ f4[n] = Token(s, t)
      BY <2>7
    <3>2. f2[m(n)] = SplitAt(t, old)
      BY <2>5, <2>7
    <3>. HIDE DEF m, t
    <3>3. Len(old) = k(n - 1) /\ k(n) = Len(old)
      BY <2>2, <3>1, <3>2, SplitGrows
    <3>. HIDE DEF k, old
    <3>4. acc = f3[k(n) - 1]
      BY <3>3
    <3>. HIDE DEF s, acc
    <3>5. InStep(Token(s, t), SplitAt(t, old), acc)
      BY <2>2, <2>3, <3>1, TokenInStep
    <3>. QED  BY <3>1, <3>2, <3>4, <3>5
  <2>. QED  BY <1>9, <2>4, <2>6, <2>7
<1>15. Inv(N)
  <2>. HIDE DEF Inv
  <2>. DEFINE S == {n \in Nat : n <= N => Inv(n)}
  <2>1. 0 \in S
    BY <1>13
  <2>2. ASSUME NEW n \in S PROVE n + 1 \in S
    <3>. SUFFICES ASSUME n + 1 <= N PROVE Inv(n + 1)
      OBVIOUS
    <3>1. n + 1 \in 1..N /\ (n + 1) - 1 = n /\ Inv(n)
      BY <1>1
    <3>. QED  BY <1>14, <3>1
  <2>3. S = Nat
    <3>1. S \in SUBSET Nat
      OBVIOUS
    <3>. HIDE DEF S
    <3>. QED  BY <2>1, <2>2, <3>1, Counting
  <2>4. N \in S
    <3>. HIDE DEF S
    <3>. QED  BY <1>1, <2>3
  <2>. QED  BY <1>1, <2>4
\* What follows the last line break.
<1>. DEFINE s == f4[N]
            acc == f3[Len(split) - 1]
            last == split[Len(split)]
<1>16. /\ s \in States /\ acc \in Counted /\ InStep(s, split, acc)
       /\ Len(split) - 1 \in 0..L /\ last \in Seq(Tokens)
  <2>1. m(N) = M /\ f2[m(N)] = split /\ k(N) = Len(split)
    BY <1>2, <1>4 DEF M
  <2>2. InStep(f4[N], f2[m(N)], f3[k(N) - 1])
    BY <1>15
  <2>3. N \in 0..N
    BY <1>1
  <2>4. f3[k(N) - 1] \in Counted /\ f4[N] \in States /\ k(N) - 1 \in 0..L
    BY <1>12, <2>3
  <2>5. last \in Seq(Tokens)
    BY <1>6, LastLine
  <2>. HIDE DEF m, k
  <2>. QED  BY <2>1, <2>2, <2>4, <2>5
<1>17. IsOrdinary(s)
  <2>1. IsOrdinary(EndLine(s)) <=> IsOrdinary(s)
    BY <1>16, EndLineIs, Zenon DEF IsOrdinary
  <2>2. IsOrdinary(Reading(text))
    OBVIOUS
  <2>. HIDE DEF s
  <2>. QED  BY <1>8, <2>1, <2>2, Zenon DEF s
<1>18. /\ ReadLine(s, acc.inBlock, last)
       /\ s.counts = [acc.metrics EXCEPT !.lines = Len(split) - 1]
  <2>. HIDE DEF s, acc
  <2>. QED  BY <1>16, <1>17 DEF InStep
<1>19. \A n \in 0..L : f3[n].metrics \in Counts /\ f3[n].metrics.lines = L
  <2>. DEFINE Is(n) == f3[n].metrics.lines = L
              S == {n \in Nat : n <= L => Is(n)}
  <2>0. L \in Nat
    BY <1>6
  <2>1. 0 \in S
    BY <1>7 DEF Uncounted, NoMetrics
  <2>2. ASSUME NEW n \in S PROVE n + 1 \in S
    <3>. SUFFICES ASSUME n + 1 <= L PROVE Is(n + 1)
      OBVIOUS
    <3>1. n + 1 \in 1..L /\ (n + 1) - 1 = n /\ Is(n) /\ n \in 0..L
      <4>. HIDE DEF Is
      <4>. QED  BY <2>0
    <3>2. f3[n + 1] = CountLine(f3[n], Trimmed(lines[n + 1])) /\ f3[n] \in Counted
      BY <1>7, <3>1
    <3>. DEFINE a == f3[n]
                b == f3[n + 1]
                t == Trimmed(lines[n + 1])
    <3>3. b = CountLine(a, t) /\ a \in Counted /\ a.metrics.lines = L
      BY <3>1, <3>2
    <3>. HIDE DEF a, b, t
    <3>4. b.metrics = OneMore(a.metrics, KindOf(t, a.inBlock))
      BY <3>3, CountLineIs
    <3>5. b.metrics.lines = L
      BY <3>3, <3>4 DEF OneMore
    <3>. QED  BY <3>5 DEF b
  <2>3. S = Nat
    <3>1. S \in SUBSET Nat
      OBVIOUS
    <3>. HIDE DEF S
    <3>. QED  BY <2>1, <2>2, <3>1, Counting
  <2>4. \A n \in 0..L : f3[n].metrics \in Counts
    BY <1>7 DEF Counted
  <2>5. \A n \in 0..L : Is(n)
    <3>. HIDE DEF Is
    <3>. QED  BY <2>0, <2>3
  <2>. QED  BY <2>4, <2>5
<1>20. CASE last = <<>>
  <2>1. s.empty /\ L = Len(split) - 1
    BY <1>6, <1>18, <1>20, Zenon DEF ReadLine
  <2>2. Reading(text) = s
    BY <1>8, <2>1, Zenon
  <2>3. /\ ComputeFileMetrics(lines) = acc.metrics
        /\ acc.metrics \in Counts /\ acc.metrics.lines = L
    BY <1>7, <1>16, <1>19, <2>1
  <2>4. s.counts = acc.metrics
    <3>. HIDE DEF s, acc
    <3>. QED  BY <1>18, <2>1, <2>3 DEF Counts
  <2>. QED  BY <2>2, <2>3, <2>4 DEF lines
<1>21. CASE last # <<>>
  <2>1. ~s.empty /\ L = Len(split) /\ lines[L] = last
    BY <1>6, <1>18, <1>21, Zenon DEF ReadLine
  <2>2. Reading(text) = EndLine(s)
    BY <1>8, <2>1, Zenon
  <2>. DEFINE next == CountLine(acc, Trimmed(last))
  <2>3. f3[L] = next /\ L \in 1..L /\ L \in 0..L
    <3>1. L \in 1..L /\ L \in 0..L
      BY <1>6, <2>1
    <3>2. f3[L] = CountLine(f3[L - 1], Trimmed(lines[L]))
      BY <1>7, <3>1
    <3>. HIDE DEF L, last, lines, acc
    <3>3. acc = f3[L - 1]
      BY <2>1 DEF acc
    <3>. QED  BY <2>1, <3>1, <3>2, <3>3
  <2>4. next.metrics = OneMore(acc.metrics, s.seen)
    <3>1. KindOf(Trimmed(last), acc.inBlock) = s.seen
      BY <1>16, <1>18, LineEnds, Zenon
    <3>2. next.metrics = OneMore(acc.metrics, KindOf(Trimmed(last), acc.inBlock))
      <4>1. acc \in Counted
        BY <1>16
      <4>. HIDE DEF acc, last
      <4>. QED  BY <4>1, CountLineIs, Zenon
    <3>. QED  BY <3>1, <3>2
  <2>5. next.metrics.lines = L /\ acc.metrics \in Counts /\ acc.metrics.lines = L
    BY <1>16, <1>19, <2>3
  <2>6. EndLine(s).counts = [OneMore(s.counts, s.seen) EXCEPT !.lines = s.counts.lines + 1]
    BY <1>16, EndLineIs, Zenon
  <2>7. s.counts = [acc.metrics EXCEPT !.lines = L - 1]
    BY <1>18, <2>1
  <2>8. EndLine(s).counts = next.metrics
    <3>. DEFINE c == acc.metrics
                kind == s.seen
                d == s.counts
    <3>1. c \in Counts /\ c.lines = L /\ d = [c EXCEPT !.lines = L - 1] /\ L \in Nat
      BY <1>6, <2>5, <2>7
    <3>. HIDE DEF c, kind, d
    <3>2. [OneMore(d, kind) EXCEPT !.lines = d.lines + 1] = OneMore(c, kind)
      BY <3>1 DEF OneMore, Counts
    <3>. QED  BY <2>4, <2>6, <3>2 DEF c, kind, d
  <2>. QED  BY <1>7, <2>2, <2>3, <2>8 DEF lines
<1>. QED  BY <1>20, <1>21

(* computeFileMetrics over splitLines and the reader agree on any texts, of  *)
(* any length, in which nothing follows a comment in its line and no comment *)
(* after code, for the rest of its line, has what begins a block in it.      *)
THEOREM LinesAreCounted ==
    \A text \in Seq(Tokens) :
        IsOrdinary(Reading(text)) =>
            ComputeFileMetrics(SplitLines(text)) = Reading(text).counts
BY CountsAgree, Zenon

(* Whatever gets into an index, its metrics are those of its text, with the  *)
(* same two exceptions.                                                      *)
THEOREM TextsAreCounted == Spec => []TextIsCounted
<1>1. TextIsCounted
  BY LinesAreCounted, PassagesOk, Zenon DEF TextIsCounted, Miscounted, Differing
<1>. QED  BY <1>1, PTL
=============================================================================
