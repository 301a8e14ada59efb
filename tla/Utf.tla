--------------------------------- MODULE Utf ---------------------------------
(***************************************************************************)
(* The conversions of Utf.inl that paths go through: a string of bytes in  *)
(* UTF-8, of 16-bit units (wchar_t on Windows) or of code points (String), *)
(* each a sequence of numbers.                                             *)
(*                                                                         *)
(* A code point is a Uint32.  The only operation that can wrap around is   *)
(* the subtraction in Decode8: a negative number stands for itself plus    *)
(* 2^32.                                                                   *)
(***************************************************************************)
EXTENDS Integers, SequencesExt

MaxCodePoint == \h10FFFF
Replacement == \hFFFD
Surrogate(c) == c \in \hD800..\hDFFF
HighSurrogate(c) == c \in \hD800..\hDBFF
LowSurrogate(c) == c \in \hDC00..\hDFFF
Scalar(c) == c \in 0..MaxCodePoint /\ ~Surrogate(c)

-----------------------------------------------------------------------------
(* One character.  A decoder returns the character and the index of the    *)
(* next one; an encoder returns units.                                     *)

\* The bytes that follow a first byte, which has that many leading ones
\* but one; \h80..\hBF count as complete characters.
trailing(byte) ==
    CASE byte < \hC0 -> 0 [] byte < \hE0 -> 1 [] byte < \hF0 -> 2
      [] byte < \hF8 -> 3 [] byte < \hFC -> 4 [] OTHER -> 5
FirstByte == <<0, \hC0, \hE0, \hF0, \hF8, \hFC>>

\* The table of offsets takes the marks of all the bytes away at once.
Decode8(s, i) ==
    LET n == trailing(s[i])
        bits[k \in 0..n] == IF k = 0 THEN s[i] - FirstByte[n + 1]
                            ELSE bits[k - 1] * 64 + s[i + k] - \h80
    IN IF i + n <= Len(s) THEN [c |-> bits[n], next |-> i + n + 1]
       ELSE [c |-> 0, next |-> Len(s) + 1]

Encode8(c) ==
    LET Trail(k) == \h80 + ((c \div 64^k) % 64)
    IN CASE c \notin 0..MaxCodePoint \/ HighSurrogate(c) -> <<>>
         [] c < \h80 -> <<c>>
         [] c \in \h80..\h7FF -> <<\hC0 + c \div 64, Trail(0)>>
         [] c \in \h800..\hFFFF -> <<\hE0 + c \div 64^2, Trail(1), Trail(0)>>
         [] OTHER -> <<\hF0 + c \div 64^3, Trail(2), Trail(1), Trail(0)>>

Pair(high, low) == (high - \hD800) * \h400 + (low - \hDC00) + \h10000
Units(c) ==
    <<((c - \h10000) \div \h400 + \hD800) % \h10000, ((c - \h10000) % \h400) + \hDC00>>
\* Mutant: a character is a unit.
unitWide(s, i) == [c |-> IF Surrogate(s[i]) THEN Replacement ELSE s[i], next |-> i + 1]
\* DecodeWide and EncodeWide, for a wchar_t of 16 bits.
DecodeWide(s, i) ==
    IF HighSurrogate(s[i]) /\ i < Len(s) /\ LowSurrogate(s[i + 1])
    THEN [c |-> Pair(s[i], s[i + 1]), next |-> i + 2]
    ELSE [c |-> IF Surrogate(s[i]) THEN Replacement ELSE s[i], next |-> i + 1]
EncodeWide(c) == IF ~Scalar(c) THEN <<>> ELSE IF c <= \hFFFF THEN <<c>> ELSE Units(c)

-----------------------------------------------------------------------------
(* Strings.                                                                *)

\* The characters of a string, whose decoder gives character[i] at index i.
Decoded(character) ==
    LET from[i \in Nat] ==
            IF i > Len(character) THEN <<>>
            ELSE <<character[i].c>> \o from[character[i].next]
    IN from[1]

fromUtf8(s) == Decoded([i \in 1..Len(s) |-> Decode8(s, i)])
toUtf8(s) == FlattenSeq([i \in 1..Len(s) |-> Encode8(s[i])])
fromWide(s) == Decoded([i \in 1..Len(s) |-> DecodeWide(s, i)])
toWideString(s) == FlattenSeq([i \in 1..Len(s) |-> EncodeWide(s[i])])

\* What FindFirstFileW names, and what is opened later.
filesInfoFromPath(name) == toUtf8(fromWide(name))
getWidePath(path) == toWideString(fromUtf8(path))
=============================================================================
