-------------------------------- MODULE Utf8 --------------------------------
(***************************************************************************)
(* Bytes and codepoints (utf8.cpp, utils.cpp).  A text is a sequence of    *)
(* bytes; "rest" is always the part that has not been read yet.            *)
(***************************************************************************)
EXTENDS Integers, SequencesExt

Byte == 0..255

\* The bytes from i on.
From(text, i) == SubSeq(text, i, Len(text))

MaxCodepoint == 1114111    \* 0x10FFFF
Surrogate == 55296..57343  \* 0xD800..0xDFFF

\* 10xxxxxx, a byte that goes on with a sequence
Continuation == 128..191

\* U+FFFD, the mark left for what cannot be decoded
Replacement == <<239, 191, 189>>

OneByte(cp) == <<cp>>
TwoBytes(cp) == <<192 + (cp \div 64), 128 + (cp % 64)>>
ThreeBytes(cp) == <<224 + (cp \div 4096), 128 + ((cp \div 64) % 64), 128 + (cp % 64)>>
FourBytes(cp) ==
    <<240 + (cp \div 262144), 128 + ((cp \div 4096) % 64),
      128 + ((cp \div 64) % 64), 128 + (cp % 64)>>

CodepointToBytes(cp) ==
    CASE cp <= 127 -> OneByte(cp)
      [] cp > 127 /\ cp <= 2047 -> TwoBytes(cp)
      [] cp > 2047 /\ cp <= 65535 -> ThreeBytes(cp)
      [] cp > 65535 /\ cp <= MaxCodepoint -> FourBytes(cp)
      [] cp > MaxCodepoint -> <<>>

\* Mutant: the mark is written without looking at the room left.
WriteCodepoint_NoRoom(cp, lengthLeft) ==
    IF cp = 0 \/ cp \in Surrogate \/ cp > MaxCodepoint THEN Replacement ELSE CodepointToBytes(cp)

\* What cannot be written is replaced, when there is room for the mark.
WriteCodepoint(cp, lengthLeft) ==
    IF cp = 0 \/ cp \in Surrogate \/ cp > MaxCodepoint
    THEN IF lengthLeft > 2 THEN Replacement ELSE <<>>
    ELSE CodepointToBytes(cp)

\* Length that the first byte of a sequence announces.
Announced(b) ==
    CASE b < 128 -> 1
      [] b \in 192..223 -> 2
      [] b \in 224..239 -> 3
      [] b \in 240..247 -> 4
      [] OTHER -> -1

FindNextGlyphLength(rest) ==
    IF rest = <<>> THEN 0
    ELSE LET expected == Announced(rest[1]) IN
         IF /\ expected <= Len(rest)
            /\ \A i \in 2..expected : rest[i] \in Continuation
         THEN expected
         ELSE -1

Eof == -2      \* UTF8_EOF
Invalid == -1  \* UTF8_INVALID

\* The next codepoint and the number of bytes it takes.  Overlong sequences
\* and surrogates are accepted.
FetchNextCodepoint(rest) ==
    LET n == FindNextGlyphLength(rest)
        header == CASE n = 2 -> rest[1] % 32 [] n = 3 -> rest[1] % 16 [] n = 4 -> rest[1] % 8
    IN CASE n = 0 -> [cp |-> Eof, n |-> 0]
         [] n = -1 -> [cp |-> Invalid, n |-> 1]
         [] n = 1 -> [cp |-> rest[1], n |-> 1]
         [] OTHER -> [cp |-> FoldLeft(LAMBDA v, b : 64 * v + (b % 64), header, SubSeq(rest, 2, n)),
                      n |-> n]

\* find_string_cutoff: where to cut a text that is longer than max, so that
\* no sequence is cut in two.
FindStringCutoff(text, max) ==
    IF Len(text) <= max THEN Len(text)
    ELSE Max({0} \cup {p \in 1..max : text[p + 1] \notin Continuation})
=============================================================================
