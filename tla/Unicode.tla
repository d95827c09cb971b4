------------------------------ MODULE Unicode ------------------------------
(***************************************************************************)
(* unicode_normalize: a text is decomposed, codepoint by codepoint, into a *)
(* scratchpad of chunks, of which the normalized text is made at the end   *)
(* (normalize_string).  What a codepoint decomposes to, once its case has  *)
(* been given back, is a table of the library utf8proc.                    *)
(***************************************************************************)
EXTENDS Utf8

CONSTANTS
    Decomposition,  \* the table: a function from codepoints to codepoints
    MinChunk,       \* the length of a chunk at least, 1024 in the code
    Inflight        \* INFLIGHT_BUFFER_SIZE, 24 in the code

VARIABLES
    input,     \* the text to normalize
    position,  \* where the next codepoint begins
    inflight,  \* the codepoints to be written
    chunks,    \* the scratchpad, a sequence of [length, bytes]
    output     \* << >>, or <<the normalized text>>

vars == <<input, position, inflight, chunks, output>>

Joiner == 8205  \* 0x200D, left alone for emojis

TypeOK ==
    /\ position \in Nat
    /\ inflight \in Seq(Nat)
    /\ chunks \in Seq([length : Nat, bytes : Seq(Byte)])
    /\ output \in Seq(Seq(Byte)) /\ Len(output) <= 1

NormalizeCodepoint(cp) ==
    CASE cp >= MaxCodepoint -> <<>>
      [] cp = Joiner -> <<cp>>
      [] OTHER -> IF cp \in DOMAIN Decomposition THEN Decomposition[cp] ELSE <<cp>>

NewChunk(length) == [length |-> length, bytes |-> <<>>]

\* Before any normalization.
Init == position = 0 /\ inflight = <<>> /\ output = <<>> /\ chunks = <<>>

Begin(text) ==
    /\ input' = text
    /\ position' = 0 /\ inflight' = <<>> /\ output' = <<>>
    /\ chunks' = <<NewChunk(IF Len(text) > MinChunk THEN Len(text) ELSE MinChunk)>>

\* An invalid glyph is skipped, and a codepoint that decomposes to too many.
Fetch ==
    /\ inflight = <<>> /\ output = <<>>
    /\ LET next == FetchNextCodepoint(From(input, position + 1))
           decomposed == NormalizeCodepoint(next.cp)
       IN /\ next.cp # Eof
          /\ position' = position + next.n
          /\ inflight' = IF next.cp = Invalid \/ Len(decomposed) > Inflight THEN <<>> ELSE decomposed
    /\ UNCHANGED <<input, chunks, output>>

\* Mutant: the bytes are compared with the room before they are counted.
Write_TooLate ==
    /\ inflight # <<>>
    /\ LET bytes == WriteCodepoint(Head(inflight), 4)
           last == chunks[Len(chunks)]
           room == IF Len(last.bytes) >= last.length
                   THEN Append(chunks, NewChunk(last.length)) ELSE chunks
       IN chunks' = [room EXCEPT ![Len(room)].bytes = @ \o bytes]
    /\ inflight' = Tail(inflight)
    /\ UNCHANGED <<input, position, output>>

\* Mutant: a new chunk takes the place of the full one.
Write_Replaces ==
    /\ inflight # <<>>
    /\ LET bytes == WriteCodepoint(Head(inflight), 4)
           last == chunks[Len(chunks)]
           room == IF Len(last.bytes) + Len(bytes) >= last.length
                   THEN <<NewChunk(last.length)>> ELSE chunks
       IN chunks' = [room EXCEPT ![Len(room)].bytes = @ \o bytes]
    /\ inflight' = Tail(inflight)
    /\ UNCHANGED <<input, position, output>>

\* A codepoint that would fill the last chunk begins another one.
Write ==
    /\ inflight # <<>>
    /\ LET bytes == WriteCodepoint(Head(inflight), 4)
           last == chunks[Len(chunks)]
           room == IF Len(last.bytes) + Len(bytes) >= last.length
                   THEN Append(chunks, NewChunk(last.length)) ELSE chunks
       IN chunks' = [room EXCEPT ![Len(room)].bytes = @ \o bytes]
    /\ inflight' = Tail(inflight)
    /\ UNCHANGED <<input, position, output>>

\* The chunks are put together, or the only one is the text.
Finish ==
    /\ inflight = <<>> /\ output = <<>>
    /\ FetchNextCodepoint(From(input, position + 1)).cp = Eof
    /\ output' = <<FlattenSeq([c \in DOMAIN chunks |-> chunks[c].bytes])>>
    /\ UNCHANGED <<input, position, inflight, chunks>>

Next == Fetch \/ Write \/ Finish

\* The read-only pass: a valid codepoint that would change.
Valid(text) ==
    LET from[i \in 1..Len(text) + 1] ==
            LET next == FetchNextCodepoint(From(text, i))
            IN IF next.cp = Eof THEN <<>>
               ELSE (IF next.cp = Invalid THEN <<>> ELSE <<next.cp>>) \o from[i + next.n]
    IN from[1]
Need(text) == \E i \in DOMAIN Valid(text) : NormalizeCodepoint(Valid(text)[i]) # <<Valid(text)[i]>>

-----------------------------------------------------------------------------

\* No chunk holds more than was allocated for it (the memcpy of
\* normalize_string has no other guard).
ChunksFit == \A c \in DOMAIN chunks : Len(chunks[c].bytes) <= chunks[c].length

\* The chunks of the scratchpad make no difference: the normalized text is the
\* decomposition of every valid codepoint, one after the other.
Written(cp) ==
    LET decomposed == NormalizeCodepoint(cp)
    IN IF Len(decomposed) > Inflight THEN <<>>
       ELSE FlattenSeq([i \in DOMAIN decomposed |-> WriteCodepoint(decomposed[i], 4)])
IsTheDecomposition ==
    output # <<>> =>
        output[1] = FlattenSeq([i \in DOMAIN Valid(input) |-> Written(Valid(input)[i])])
=============================================================================
