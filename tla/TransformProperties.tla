------------------------ MODULE TransformProperties ------------------------
(* What the transformers promise to the conditions that use them.           *)
EXTENDS TransformChain

\* The loops that edit a text in place never write over a byte they have not
\* read yet: the write head stays behind the read head, and the unread part
\* of the buffer is what it was when the loop began (PWTransformer.cpp, every
\* loop over "read" and "write").
Buffer == IF phase = "sweep" THEN object ELSE text
NeverOvertakes ==
    phase \in {"sweep", "edit"} =>
        /\ write <= read
        /\ Len(Buffer) = Len(before)
        /\ \A i \in read + 1..Len(Buffer) : Buffer[i] = before[i]

\* The read-only pass leaves the caller's string alone: it is const in
\* condition::match_object, and other rules will look at it.  Numeric references
\* of HTML are the exception, see HtmlUntouched.
HasReference == \E i \in 1..Len(input) - 1 : input[i] = Amp /\ input[i + 1] = Hash
OriginalUntouched ==
    object # input => HasReference /\ \E i \in DOMAIN chain : chain[i] = "htmlEntityDecode"

\* A transformer that said that a text needs no change does not change it when
\* another one makes the chain run (doesNeedTransform stops at the first yes).
\* The base64 decoders do change what they refuse, see OnlyValidDecoded.
AnsweredNo(i) == i \in DOMAIN answers /\ ~answers[i]
NoMeansNoChange ==
    [][(/\ phase = "edit" /\ phase' # "edit"
        /\ AnsweredNo(k) /\ before = input
        /\ chain[k] \notin {"base64Decode", "base64DecodeExt"}) => text' = before]_vars

\* A transformer has nothing left to do on its own output.  Only those that
\* are meant to reach a fixed point are concerned: one decoding may well leave
\* something to decode for the next.
Settles == {"lowercase", "removeNulls", "compressWhiteSpace", "normalizePath", "normalizePathWin",
            "urlDecodeUni"}
NothingLeft ==
    [][phase = "edit" /\ phase' # "edit" /\ chain[k] \in Settles => ~Need(chain[k], text')]_vars

\* Every call of match_object ends: the IIS decoding is repeated, but each
\* time on a text with less to decode.
Terminates == <>(phase = "done")

-----------------------------------------------------------------------------
(* What each transformer is for *)

\* The segments of an absolute path, resolved as by a file system: "." stays
\* in place, ".." goes back, and a path that ends with either is a directory.
Segments(path) ==
    LET slashes == {i \in DOMAIN path : path[i] = Slash}
        End(i) == Min({j \in slashes : j > i} \cup {Len(path) + 1})
        starts == SetToSortSeq(slashes, <)
    IN [n \in DOMAIN starts |-> SubSeq(path, starts[n] + 1, End(starts[n]) - 1)]
Self == <<Dot>>
Parent == <<Dot, Dot>>
Resolve(segments) ==
    LET Enter(done, s) ==
            CASE s = Self -> done
              [] s = Parent -> IF done = <<>> THEN done ELSE SubSeq(done, 1, Len(done) - 1)
              [] OTHER -> Append(done, s)
        resolved == FoldLeft(Enter, <<>>, segments)
    IN IF segments[Len(segments)] \in {Self, Parent} THEN Append(resolved, <<>>) ELSE resolved
Join(segments) == FlattenSeq([n \in DOMAIN segments |-> <<Slash>> \o segments[n]])

\* A condition with normalizePath gets every absolute path resolved, whether
\* it was copied or not (transformNormalize).
PathResolved ==
    (phase = "done" /\ chain = <<"normalizePath">> /\ input # <<>> /\ input[1] = Slash) =>
        result.text = Join(Resolve(Segments(input)))

-----------------------------------------------------------------------------
(* What does not hold, see the README *)

\* "We're not supposed to modify anything in the readOnly loop"
\* (transformDecodeHTML), whatever the references in the text.
HtmlUntouched == object = input

\* What the comment of transformCmdLine lists, on the text the processor gets:
\* no quote, backslash, caret, comma or semicolon, spaces that are spaces, one
\* at a time and never before a slash or a parenthesis, no upper case letter.
CommandLineCleaned ==
    (phase = "done" /\ chain = <<"cmdLine">>) =>
        \A i \in DOMAIN result.text :
            LET b == result.text[i] IN
            /\ b \notin Removed \cup {Comma, Semicolon} \cup Upper \cup (Space \ {32})
            /\ (b = 32 /\ i < Len(result.text)) => result.text[i + 1] \notin {32, Slash, Paren}

\* A text without any of "<!--", "--", "#" and "/*" has no comment, and is
\* given as it is (transformRemoveComments).
Commented(s) ==
    \E i \in DOMAIN s : \E opening \in {HtmlComment, <<Dash, Dash>>, <<Hash>>, CComment} :
        StartsWith(From(s, i), opening)
OnlyCommentsRemoved ==
    (phase = "done" /\ chain = <<"removeComments">> /\ ~Commented(input)) => result.text = input

\* The number a text is given as is the one it spells (transformNumerize).
Spelt(s) ==
    LET magnitude == FoldLeft(LAMBDA v, b : 10 * v + b - 48, 0, Digits(s))
    IN IF s[1] = Dash THEN -magnitude ELSE magnitude
NumberKept ==
    (phase = "done" /\ chain = <<"numerize">> /\ result.number # <<>>) =>
        result.number = <<Spelt(input)>>

\* No half of a surrogate pair is written: it is replaced by U+FFFD
\* (transformDecodeJS).
NoHalfSurrogate ==
    (phase = "done" /\ chain = <<"jsDecode">>) =>
        \A i \in 1..Len(result.text) - 1 :
            ~(result.text[i] = 237 /\ result.text[i + 1] \in 160..191)

\* What base64Encode writes is valid for base64Decode.
EncodedIsValid ==
    (phase = "done" /\ chain = <<"base64Encode">>) => ValidBase64(result.text)

\* Only a valid sequence is ever decoded: the read-only pass keeps the others
\* away from decodeBase64.
OnlyValidDecoded ==
    (phase = "edit" /\ chain[k] = "base64Decode") => ValidBase64(before)
=============================================================================
