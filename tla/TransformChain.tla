--------------------------- MODULE TransformChain ---------------------------
(***************************************************************************)
(* A condition that gives a string to its processor after its transformers *)
(* (condition::match_object).  The read-only pass of every transformer is  *)
(* run on the caller's string until one says that the string must change.  *)
(* If one does, a copy is cut to the maximum length and goes through all   *)
(* the transformers, in place; if none does, or if one fails, the caller's *)
(* string is used, cut.                                                    *)
(*                                                                         *)
(* A step is a read-only pass, the whole work of a transformer that is not *)
(* a loop over the text, or one turn of its loop.  The one transformer     *)
(* that does not edit in place, unicode_normalize, is added by             *)
(* TransformedStrings.                                                     *)
(***************************************************************************)
EXTENDS Transformers

CONSTANTS
    Cases,     \* pairs of a chain of transformers and the caller's string
    MaxString  \* limits_.max_string_length

VARIABLES
    chain,    \* transformers_
    input,    \* history: the caller's string before the call
    object,   \* the caller's string
    phase,
    k,        \* the transformer at work
    answers,  \* history: what the read-only passes said of the caller's string
    text,     \* the text of the copy
    number,   \* its value, once a transformer has made it a number
    before,   \* history: the text on which the current loop began
    read, write,
    result    \* what the processor gets

heads == <<read, write>>
vars == <<chain, input, object, phase, k, answers, text, number, before, heads, result>>

Result == [text : Seq(Byte), number : Seq(Int)]
Transformer ==
    {"lowercase", "removeNulls", "compressWhiteSpace", "length", "normalizePath",
     "normalizePathWin", "urlDecode", "urlDecodeUni", "cssDecode", "jsDecode",
     "htmlEntityDecode", "base64Decode", "base64DecodeExt", "base64Encode", "cmdLine",
     "_sqr_basename", "_sqr_filename", "_sqr_querystring", "removeComments", "numerize",
     "unicode_normalize"}

ASSUME CasesAssumption ==
    /\ \A c \in Cases : c[1] \in Seq(Transformer) /\ c[2] \in Seq(Byte)
    /\ MaxString \in Nat

TypeOK ==
    /\ chain \in Seq(Transformer)
    /\ input \in Seq(Byte) /\ object \in Seq(Byte) /\ text \in Seq(Byte) /\ before \in Seq(Byte)
    /\ phase \in {"check", "sweep", "copy", "apply", "edit", "normalize", "done"}
    /\ k \in Nat /\ answers \in Seq(BOOLEAN) /\ number \in Seq(Int)
    /\ read \in Nat /\ write \in Nat
    /\ result \in Result

Init ==
    /\ \E c \in Cases : chain = c[1] /\ input = c[2]
    /\ object = input
    /\ phase = "check" /\ k = 1 /\ answers = <<>>
    /\ text = <<>> /\ number = <<>> /\ before = <<>>
    /\ read = 0 /\ write = 0
    /\ result = [text |-> <<>>, number |-> <<>>]

Cut(s) == SubSeq(s, 1, FindStringCutoff(s, MaxString))

\* One turn of the editing loop of a transformer, over a buffer.
Turn(transformer, buffer) ==
    LET rest == From(buffer, read + 1)
        slack == read - write
    IN CASE transformer = "lowercase" -> LowerCaseTurn(rest)
         [] transformer = "removeNulls" -> NoNullTurn(rest)
         [] transformer = "compressWhiteSpace" -> CompressTurn(buffer[read], rest)
         [] transformer \in {"normalizePath", "normalizePathWin"} ->
               NormalizeTurn(buffer, read + 1, SubSeq(buffer, 1, write))
         [] transformer = "urlDecode" -> DecodeUrlTurn(rest, FALSE, slack)
         [] transformer = "urlDecodeUni" -> DecodeUrlTurn(rest, TRUE, slack)
         [] transformer = "cssDecode" -> DecodeCssTurn(rest, slack)
         [] transformer = "jsDecode" -> DecodeJsTurn(rest, slack)
         [] transformer = "htmlEntityDecode" -> DecodeHtmlTurn(rest, slack)
         [] transformer \in {"base64Decode", "base64DecodeExt"} -> DecodeBase64Turn(rest)
         [] transformer = "cmdLine" -> CmdLineTurn(rest)
         [] transformer = "removeComments" -> RemoveCommentsTurn(rest)

\* The buffer after a turn.
Written(buffer, turn) ==
    LET start == write - turn.back
    IN [i \in DOMAIN buffer |->
            IF i \in start + 1..start + Len(turn.out) THEN turn.out[i - start] ELSE buffer[i]]
MoveHeads(turn) ==
    /\ read' = read + turn.n
    /\ write' = write - turn.back + Len(turn.out)

-----------------------------------------------------------------------------
(* doesNeedTransform *)

Answer(yes) ==
    /\ answers' = Append(answers, yes)
    /\ IF yes THEN phase' = "copy" /\ UNCHANGED k ELSE phase' = "check" /\ k' = k + 1

Check ==
    /\ phase = "check" /\ k <= Len(chain)
    /\ chain[k] \notin {"htmlEntityDecode", "unicode_normalize"}
    /\ Answer(Need(chain[k], object))
    /\ UNCHANGED <<chain, input, object, text, number, before, heads, result>>

\* The read-only pass over HTML references: a sweep for codepoints, then the
\* editing loop itself, up to the first named reference.
CheckHtml ==
    /\ phase = "check" /\ k <= Len(chain)
    /\ chain[k] = "htmlEntityDecode"
    /\ Len(object) < 3 \/ HtmlSweep(object)
    /\ Answer(Len(object) >= 3)
    /\ UNCHANGED <<chain, input, object, text, number, before, heads, result>>

StartSweep ==
    /\ phase = "check" /\ k <= Len(chain)
    /\ chain[k] = "htmlEntityDecode"
    /\ Len(object) >= 3 /\ ~HtmlSweep(object)
    /\ phase' = "sweep"
    /\ before' = object
    /\ read' = FirstTrigger("htmlEntityDecode", object)
    /\ write' = read'
    /\ UNCHANGED <<chain, input, object, k, answers, text, number, result>>

Sweep ==
    /\ phase = "sweep" /\ read < Len(object)
    /\ NamedAt(From(object, read + 1)) = {}
    /\ LET turn == Turn("htmlEntityDecode", object)
       IN object' = Written(object, turn) /\ MoveHeads(turn)
    /\ UNCHANGED <<chain, input, phase, k, answers, text, number, before, result>>

\* Mutant: the byte that a named reference was decoded to is left there.
EndSweep_NoRestore ==
    /\ phase = "sweep"
    /\ \/ /\ read < Len(object) /\ NamedAt(From(object, read + 1)) # {}
          /\ Answer(TRUE)
          /\ object' = Written(object, Turn("htmlEntityDecode", object))
       \/ read >= Len(object) /\ Answer(FALSE) /\ UNCHANGED object
    /\ UNCHANGED <<chain, input, text, number, before, heads, result>>

EndSweep ==
    /\ phase = "sweep"
    /\ \/ read < Len(object) /\ NamedAt(From(object, read + 1)) # {} /\ Answer(TRUE)
       \/ read >= Len(object) /\ Answer(FALSE)
    /\ UNCHANGED <<chain, input, object, text, number, before, heads, result>>

-----------------------------------------------------------------------------
(* match_object *)

Pass(t, n) == phase' = "done" /\ result' = [text |-> t, number |-> n]

PassOriginal ==
    /\ phase = "check" /\ k > Len(chain)
    /\ Pass(Cut(object), <<>>)
    /\ UNCHANGED <<chain, input, object, k, answers, text, number, before, heads>>

Copy ==
    /\ phase = "copy"
    /\ phase' = "apply" /\ k' = 1
    /\ text' = Cut(object)
    /\ UNCHANGED <<chain, input, object, answers, number, before, heads, result>>

\* Goes on to the next transformer, unless nothing is left of the text.
Proceed(t, n) ==
    /\ text' = t /\ number' = n
    /\ k' = k + 1
    /\ IF k = Len(chain) \/ (n = <<>> /\ t = <<>>) THEN Pass(t, n)
       ELSE phase' = "apply" /\ UNCHANGED result

\* A transformer fails: the caller's string is used instead.
Fail ==
    /\ phase = "apply"
    /\ \/ number # <<>>
       \/ chain[k] = "numerize" /\ ~IsNumber(text)
       \/ chain[k] \in {"base64Encode", "htmlEntityDecode", "unicode_normalize"} /\ text = <<>>
    /\ Pass(Cut(object), <<>>)
    /\ UNCHANGED <<chain, input, object, k, answers, text, number, before, heads>>

\* The transformers that are not a loop over the text.
Convert ==
    /\ phase = "apply" /\ number = <<>>
    /\ \/ chain[k] = "length" /\ Proceed(<<>>, <<Len(text)>>)
       \/ chain[k] = "numerize" /\ IsNumber(text) /\ Proceed(<<>>, <<Number(text)>>)
       \/ chain[k] = "base64Encode" /\ text # <<>> /\ Proceed(EncodeBase64(text), <<>>)
       \/ chain[k] = "_sqr_basename" /\ Proceed(Basename(text), <<>>)
       \/ chain[k] = "_sqr_filename" /\ Proceed(SubSeq(text, 1, EndOfPath(text)), <<>>)
       \/ chain[k] = "_sqr_querystring" /\ Proceed(QueryString(text), <<>>)
       \/ chain[k] = "htmlEntityDecode" /\ Len(text) \in 1..2 /\ Proceed(text, <<>>)
    /\ UNCHANGED <<chain, input, object, answers, before, heads>>

\* Where the editing loop begins.  A Windows path has its backslashes turned
\* into slashes before the loop.
Slashed(s) == [i \in DOMAIN s |-> IF s[i] = Backslash THEN Slash ELSE s[i]]
Edited(transformer, s) == IF transformer = "normalizePathWin" THEN Slashed(s) ELSE s

\* Mutant: a command line is edited from its beginning.
Start_CmdLine(transformer, s) ==
    IF transformer \in {"normalizePathWin", "normalizePath", "removeComments",
                        "base64Decode", "base64DecodeExt", "cmdLine"}
    THEN 0 ELSE FirstTrigger(transformer, s)

Start(transformer, s) ==
    IF transformer \in {"normalizePathWin", "normalizePath", "removeComments",
                        "base64Decode", "base64DecodeExt"}
    THEN 0 ELSE FirstTrigger(transformer, s)

StartEdit ==
    /\ phase = "apply" /\ number = <<>>
    /\ chain[k] \notin {"length", "numerize", "base64Encode", "_sqr_basename", "_sqr_filename",
                        "_sqr_querystring", "unicode_normalize"}
    /\ chain[k] = "htmlEntityDecode" => Len(text) > 2
    /\ phase' = "edit"
    /\ text' = Edited(chain[k], text) /\ before' = text'
    /\ read' = Start(chain[k], text) /\ write' = read'
    /\ UNCHANGED <<chain, input, object, k, answers, number, result>>

Edit ==
    /\ phase = "edit" /\ read < Len(text)
    /\ LET turn == Turn(chain[k], text)
       IN text' = Written(text, turn) /\ MoveHeads(turn)
    /\ UNCHANGED <<chain, input, object, phase, k, answers, number, before, result>>

\* The end of the loop.  The IIS decoding begins again until nothing is left
\* to decode.
EndEdit ==
    /\ phase = "edit" /\ read >= Len(text)
    /\ LET edited == SubSeq(text, 1, Min({write, Len(text)}))
       IN IF chain[k] = "urlDecodeUni" /\ Need("urlDecodeUni", edited)
          THEN /\ text' = edited /\ before' = edited
               /\ read' = FirstTrigger("urlDecodeUni", edited) /\ write' = read'
               /\ UNCHANGED <<phase, k, number, result>>
          ELSE Proceed(edited, <<>>) /\ UNCHANGED <<before, heads>>
    /\ UNCHANGED <<chain, input, object, answers>>

Next ==
    \/ Check \/ CheckHtml \/ StartSweep \/ Sweep \/ EndSweep
    \/ PassOriginal \/ Copy \/ Fail \/ Convert \/ StartEdit \/ Edit \/ EndEdit
=============================================================================
