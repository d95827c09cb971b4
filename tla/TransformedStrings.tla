------------------------- MODULE TransformedStrings -------------------------
(***************************************************************************)
(* The chain of transformers with the one that is a component of its own:  *)
(* unicode_normalize runs over the copy, and gives another text instead.   *)
(***************************************************************************)
EXTENDS TransformProperties

CONSTANTS Decomposition, MinChunk, Inflight  \* see Unicode

\* A chunk has room for a codepoint, which takes up to four bytes.
ASSUME ChunkAssumption ==
    /\ \A cp \in DOMAIN Decomposition : Decomposition[cp] \in Seq(Nat)
    /\ MinChunk \in Nat /\ MinChunk >= 4
    /\ Inflight \in Nat

VARIABLES position, inflight, chunks, output  \* see Unicode

scratch == <<position, inflight, chunks, output>>
allVars == <<vars, scratch>>

\* What it normalizes is the text on which it began.
Normalizer == INSTANCE Unicode WITH input <- before

CheckUnicode ==
    /\ phase = "check" /\ k <= Len(chain) /\ chain[k] = "unicode_normalize"
    /\ Answer(Normalizer!Need(object))
    /\ UNCHANGED <<chain, input, object, text, number, before, heads, result, scratch>>

StartNormalize ==
    /\ phase = "apply" /\ number = <<>> /\ chain[k] = "unicode_normalize" /\ text # <<>>
    /\ phase' = "normalize"
    /\ Normalizer!Begin(text)
    /\ UNCHANGED <<chain, input, object, k, answers, text, number, heads, result>>

Normalize == phase = "normalize" /\ Normalizer!Next /\ UNCHANGED vars

EndNormalize ==
    /\ phase = "normalize" /\ output # <<>>
    /\ Proceed(output[1], <<>>)
    /\ UNCHANGED <<chain, input, object, answers, before, heads, scratch>>

StringInit == Init /\ Normalizer!Init
StringNext ==
    \/ Next /\ UNCHANGED scratch
    \/ CheckUnicode \/ StartNormalize \/ Normalize \/ EndNormalize

\* The call runs to its end in one thread.
Spec == StringInit /\ [][StringNext]_allVars /\ WF_allVars(StringNext)

-----------------------------------------------------------------------------

StringTypeOK == TypeOK /\ Normalizer!TypeOK

\* No chunk of the scratchpad holds more than was allocated for it (the memcpy
\* of normalize_string has no other guard), and the chunks make no difference:
\* the normalized text is the decomposition of every valid codepoint.
ChunksFit == Normalizer!ChunksFit
IsTheDecomposition == phase = "normalize" => Normalizer!IsTheDecomposition

\* A text that the read-only pass leaves alone is not changed when another
\* transformer has it normalized (transformUnicodeNormalize).
NormalizedWhenNeeded ==
    [][(phase = "normalize" /\ phase' # "normalize" /\ AnsweredNo(k) /\ before = input)
       => text' = before]_vars
=============================================================================
