---------------------------- MODULE Transformers ----------------------------
(***************************************************************************)
(* The string transformers (PWTransformer.cpp).  A transformer has two     *)
(* passes: a read-only one that tells whether the text needs to change,    *)
(* and one that edits the text in place, with a read head and a write      *)
(* head.  This module says what each pass does: Need is the answer of the  *)
(* read-only pass, FirstTrigger is where the editing pass starts, and Turn *)
(* is one turn of its loop.  Editing runs them over a buffer.              *)
(***************************************************************************)
EXTENDS Utf8

CONSTANT Wrap  \* unsigned integers are kept modulo Wrap, 2^64 in the code
ASSUME WrapAssumption == Wrap \in Nat /\ Wrap >= 20

Digit == 48..57
Upper == 65..90
Alnum == Digit \cup Upper \cup (97..122)
HexDigit == Digit \cup (65..70) \cup (97..102)
Space == {9, 10, 11, 12, 13, 32}
Quote == 34      Hash == 35       Percent == 37    Amp == 38       Apostrophe == 39
Paren == 40      Star == 42       Plus == 43       Comma == 44     Dash == 45
Dot == 46        Slash == 47      Semicolon == 59  Equal == 61     Question == 63
Backslash == 92  Caret == 94

\* fromHex, and the value of a run of hexadecimal digits
FromHex(b) == IF b \in Digit THEN b - 48 ELSE (b % 32) + 9
HexValue(digits) == FoldLeft(LAMBDA v, b : 16 * v + FromHex(b), 0, digits)
AllHex(text) == \A i \in DOMAIN text : text[i] \in HexDigit

\* c | 0x20
Folded(b) == IF (b \div 32) % 2 = 0 THEN b + 32 ELSE b

\* How many of the first bytes are in S.
Span(text, S) == Min({i \in DOMAIN text : text[i] \notin S} \cup {Len(text) + 1}) - 1

\* Whether rest begins with these bytes, and where they are found first.
StartsWith(rest, bytes) == Len(rest) >= Len(bytes) /\ SubSeq(rest, 1, Len(bytes)) = bytes
Find(rest, from, bytes) ==
    Min({i \in from..Len(rest) : StartsWith(From(rest, i), bytes)} \cup {Len(rest) + 1})

-----------------------------------------------------------------------------
(* A turn of an editing loop reads n bytes, moves the write head back over *)
(* "back" bytes it had written and writes "out".                           *)

Reads(n, out) == [n |-> n, back |-> 0, out |-> out]
Copies(rest) == Reads(1, <<rest[1]>>)

LowerCaseTurn(rest) == Reads(1, <<IF rest[1] \in Upper THEN rest[1] + 32 ELSE rest[1]>>)

NoNullTurn(rest) == IF rest[1] = 0 THEN Reads(1, <<>>) ELSE Copies(rest)

\* Mutant: a single space is skipped.
CompressTurn_Once(previous, rest) ==
    IF previous = 32 /\ rest[1] = 32 /\ Len(rest) > 1 THEN Reads(2, <<rest[2]>>) ELSE Copies(rest)

\* After a first space, the ones that follow are skipped along with the turn
\* of the byte that comes next.
CompressTurn(previous, rest) ==
    LET skipped == IF previous = 32 THEN Span(rest, {32}) ELSE 0
    IN IF skipped = Len(rest) THEN Reads(skipped, <<>>)
       ELSE Reads(skipped + 1, <<rest[skipped + 1]>>)

UrlEscape(rest) == Len(rest) > 2 /\ rest[1] = Percent /\ AllHex(SubSeq(rest, 2, 3))
IisEscape(rest) ==
    Len(rest) > 5 /\ rest[1] = Percent /\ Folded(rest[2]) = 117 /\ AllHex(SubSeq(rest, 3, 6))

\* Mutant: a plus is not decoded.
DecodeUrlTurn_Plus(rest, iis, slack) ==
    IF UrlEscape(rest) THEN Reads(3, <<HexValue(SubSeq(rest, 2, 3))>>) ELSE Copies(rest)

DecodeUrlTurn(rest, iis, slack) ==
    CASE rest[1] = Plus -> Reads(1, <<32>>)
      [] UrlEscape(rest) -> Reads(3, <<HexValue(SubSeq(rest, 2, 3))>>)
      [] iis /\ IisEscape(rest) ->
            LET codepoint == HexValue(SubSeq(rest, 3, 6))
            IN Reads(6, IF codepoint <= 127 THEN <<codepoint>>
                        ELSE WriteCodepoint(codepoint, slack + 6))
      [] OTHER -> Copies(rest)

\* A backslash and up to six digits are a codepoint, with a space that closes
\* it; a backslash escapes any other byte, and an escaped newline is nothing.
DecodeCssTurn(rest, slack) ==
    LET n == Span(SubSeq(rest, 2, Min({7, Len(rest)})), HexDigit)
    IN CASE rest[1] # Backslash -> Copies(rest)
         [] rest[1] = Backslash /\ n > 0 ->
               Reads(n + 1 + (IF Len(rest) > n + 1 /\ rest[n + 2] \in Space THEN 1 ELSE 0),
                     WriteCodepoint(HexValue(SubSeq(rest, 2, n + 1)), slack + n + 1))
         [] rest[1] = Backslash /\ n = 0 /\ Len(rest) > 1 ->
               Reads(2, IF rest[2] = 10 THEN <<>> ELSE <<rest[2]>>)
         [] OTHER -> Reads(1, <<>>)

\* \a \b \f \n \r \t \v; the other escaped bytes stand for themselves
Unescape(b) ==
    CASE b = 97 -> 7 [] b = 98 -> 8 [] b = 102 -> 12 [] b = 110 -> 10
      [] b = 114 -> 13 [] b = 116 -> 9 [] b = 118 -> 11 [] OTHER -> b

JsUnit(rest) == Len(rest) > 5 /\ StartsWith(rest, <<Backslash, 117>>) /\ AllHex(SubSeq(rest, 3, 6))
JsUnitValue(rest) == HexValue(SubSeq(rest, 3, 6))

HighSurrogate == 55296..56319
LowSurrogate == 56320..57343
Paired(high, low) == 65536 + 1024 * (high - 55296) + low - 56320

\* A UTF-16 unit, or two when the first is a high surrogate.  A high surrogate
\* that a unit other than a low surrogate follows is dropped.
JsUnitTurn(rest, slack) ==
    LET word == JsUnitValue(rest)
        next == From(rest, 7)
        low == JsUnitValue(next)
    IN CASE word \notin HighSurrogate -> Reads(6, CodepointToBytes(word))
         [] word \in HighSurrogate /\ JsUnit(next) ->
               IF low \in LowSurrogate
               THEN Reads(12, CodepointToBytes(Paired(word, low))) ELSE Reads(6, <<>>)
         [] OTHER -> Reads(6, WriteCodepoint(word, slack + 6))

DecodeJsTurn(rest, slack) ==
    CASE rest[1] # Backslash \/ Len(rest) = 1 -> Copies(rest)
      [] StartsWith(rest, <<Backslash, 120>>) ->
            IF Len(rest) > 3 /\ AllHex(SubSeq(rest, 3, 4))
            THEN Reads(4, <<HexValue(SubSeq(rest, 3, 4))>>)
            ELSE Reads(2, <<>>)
      [] StartsWith(rest, <<Backslash, 117>>) ->
            IF JsUnit(rest) THEN JsUnitTurn(rest, slack) ELSE Reads(2, <<>>)
      [] OTHER -> Reads(2, <<Unescape(rest[2])>>)

\* &#DDD and &#xHHH, with or without a semicolon.  The value stops growing
\* once it is out of range.
HexReference(rest) ==
    /\ Len(rest) > 3 /\ rest[1] = Amp /\ rest[2] = Hash
    /\ Folded(rest[3]) = 120 /\ rest[4] \in HexDigit
DecReference(rest) == Len(rest) > 2 /\ rest[1] = Amp /\ rest[2] = Hash /\ rest[3] \in Digit

Saturating(digits, base) ==
    FoldLeft(LAMBDA v, b : IF v > MaxCodepoint THEN v ELSE base * v + FromHex(b), 0, digits)

ReferenceTurn(rest, start, digits, base, slack) ==
    LET n == start - 1 + Span(From(rest, start), digits)
    IN Reads(n + (IF Len(rest) > n /\ rest[n + 1] = Semicolon THEN 1 ELSE 0),
             WriteCodepoint(Saturating(SubSeq(rest, start, n), base), slack + n))

\* "lt;", "gt;", "amp;", "quot;", "nbsp;" and the byte they stand for
Named == {[name |-> <<108, 116, 59>>, byte |-> 60], [name |-> <<103, 116, 59>>, byte |-> 62],
          [name |-> <<97, 109, 112, 59>>, byte |-> 38],
          [name |-> <<113, 117, 111, 116, 59>>, byte |-> 34],
          [name |-> <<110, 98, 115, 112, 59>>, byte |-> 160]}
NamedAt(rest) ==
    {e \in Named : /\ rest[1] = Amp
                   /\ Len(rest) > Len(e.name)
                   /\ \A i \in DOMAIN e.name : Folded(rest[i + 1]) = e.name[i]}

DecodeHtmlTurn(rest, slack) ==
    CASE rest[1] # Amp \/ Len(rest) = 1 -> Copies(rest)
      [] HexReference(rest) -> ReferenceTurn(rest, 4, HexDigit, 16, slack)
      [] DecReference(rest) -> ReferenceTurn(rest, 3, Digit, 10, slack)
      [] NamedAt(rest) # {} ->
            LET e == CHOOSE e \in NamedAt(rest) : TRUE IN Reads(Len(e.name) + 1, <<e.byte>>)
      [] ~HexReference(rest) /\ ~DecReference(rest) /\ StartsWith(rest, <<Amp, Hash>>) ->
            Reads(2, <<Amp, Hash>>)
      [] OTHER -> Copies(rest)

\* Quotes, backslashes and carets go; a separator is a space, unless another
\* separator, a slash or a parenthesis follows; letters are lowered.
Removed == {Quote, Apostrophe, Backslash, Caret}
Separator == Space \cup {Comma, Semicolon}
SpaceEater == Separator \cup {Slash, Paren}

CmdLineTurn(rest) ==
    CASE rest[1] \in Removed -> Reads(1, <<>>)
      [] rest[1] \in Separator ->
            Reads(1, IF Len(rest) > 1 /\ rest[2] \in SpaceEater THEN <<>> ELSE <<32>>)
      [] OTHER -> LowerCaseTurn(rest)

\* Where a comment begins.  The test for the second dash of "--" looks at the
\* first one again.
HtmlComment == <<60, 33, 45, 45>>
CComment == <<Slash, Star>>
CommentAt(rest) ==
    \/ StartsWith(rest, HtmlComment)
    \/ rest[1] = Dash /\ Len(rest) > 1
    \/ rest[1] = Hash
    \/ StartsWith(rest, CComment)

\* The comment is skipped along with its terminator, or with all the rest.
RemoveCommentsTurn(rest) ==
    LET Skip(opening, closing) ==
            Min({Len(rest), Find(rest, Len(opening) + 1, closing) + Len(closing) - 1})
    IN CASE ~CommentAt(rest) -> Copies(rest)
         [] StartsWith(rest, HtmlComment) -> Reads(Skip(HtmlComment, <<45, 45, 62>>), <<>>)
         [] StartsWith(rest, CComment) -> Reads(Skip(CComment, <<Star, Slash>>), <<>>)
         [] OTHER -> Reads(Len(rest), <<>>)

\* Mutant: the last segment is not looked at.
SegmentDot_NotLast(text, i) == text[i] = Dot /\ i < Len(text) /\ text[i + 1] = Slash

\* A dot that ends a segment, with what is before it in the text read so far.
SegmentDot(text, i) == text[i] = Dot /\ (i = Len(text) \/ text[i + 1] = Slash)
SelfDot(text, i) == SegmentDot(text, i) /\ (i = 1 \/ text[i - 1] = Slash)
ParentDot(text, i) == SegmentDot(text, i) /\ i > 2 /\ text[i - 1] = Dot /\ text[i - 2] = Slash

\* "./" is skipped; at the end of "/.." the write head, which has written
\* "/.", goes back over it and over a segment, to the slash before them or to
\* the beginning of the text, where it writes a slash.
NormalizeTurn(text, i, written) ==
    LET before == Max({Len(written) - 3, 0})
        slash == Max({0} \cup {k \in 1..before : written[k + 1] = Slash})
    IN CASE SelfDot(text, i) -> Reads(2, <<>>)
         [] ParentDot(text, i) -> [n |-> 2, back |-> Len(written) - slash, out |-> <<Slash>>]
         [] OTHER -> Copies(From(text, i))

\* b64Reverse, and the bytes of up to four values of six bits.  What is left
\* of a byte that is not complete is written unless it is null.
Base64Byte == Alnum \cup {Plus, Slash}

Base64Value(b) ==
    CASE b \in Upper -> b - 65
      [] b \in 97..122 -> b - 71
      [] b \in Digit -> b + 4
      [] b = Plus -> 62
      [] b = Slash -> 63

DecodeBase64Turn(rest) ==
    LET valid == {i \in DOMAIN rest : rest[i] \in Base64Byte}
        \* the position of the k-th valid byte
        Place(k) == {i \in valid : Cardinality({j \in valid : j <= i}) = k}
        n == Min(Place(4) \cup {Len(rest)})
        pos == Min({4, Cardinality(valid)})
        Bits(k) == IF k <= pos THEN Base64Value(rest[Min(Place(k))]) ELSE 0
        bytes == <<4 * Bits(1) + (Bits(2) \div 16), (16 * Bits(2) + (Bits(3) \div 4)) % 256,
                   (64 * Bits(3) + Bits(4)) % 256>>
    IN Reads(n,
        CASE pos = 4 -> bytes
          [] pos = 0 -> <<>>
          [] OTHER -> <<bytes[1]>>
                \o (IF pos > 1 /\ (bytes[2] # 0 \/ bytes[3] # 0) THEN <<bytes[2]>> ELSE <<>>)
                \o (IF pos > 2 /\ bytes[3] # 0 THEN <<bytes[3]>> ELSE <<>>))

-----------------------------------------------------------------------------
(* The transformers that do not edit in place *)

\* b64Encoding: unlike b64Reverse, its last two bytes are + and -.
Base64Digit(v) ==
    CASE v < 26 -> v + 65 [] v \in 26..51 -> v + 71 [] v \in 52..61 -> v - 4
      [] v = 62 -> Plus [] v = 63 -> Dash

EncodeBase64(text) ==
    LET Byte3(i) == [k \in 1..3 |-> IF i + k <= Len(text) THEN text[i + k] ELSE 0]
        Four(b) == <<Base64Digit(b[1] \div 4), Base64Digit(16 * (b[1] % 4) + (b[2] \div 16)),
                     Base64Digit(4 * (b[2] % 16) + (b[3] \div 64)), Base64Digit(b[3] % 64)>>
        \* digits of the group that begins after i bytes, padded
        Group(i) ==
            LET left == Len(text) - i
            IN CASE left >= 3 -> Four(Byte3(i))
                 [] left = 2 -> SubSeq(Four(Byte3(i)), 1, 3) \o <<Equal>>
                 [] left = 1 -> SubSeq(Four(Byte3(i)), 1, 2) \o <<Equal, Equal>>
    IN FlattenSeq([g \in 1..(Len(text) + 2) \div 3 |-> Group(3 * (g - 1))])

\* numerize: the value is kept modulo Wrap; what a negative 64-bit number
\* cannot hold is refused.
Digits(text) == IF text # <<>> /\ text[1] = Dash THEN Tail(text) ELSE text
Magnitude(text) == FoldLeft(LAMBDA v, b : (10 * v + b - 48) % Wrap, 0, Digits(text))
IsNumber(text) ==
    /\ text # <<>>
    /\ \A i \in DOMAIN Digits(text) : Digits(text)[i] \in Digit
    /\ text[1] = Dash => Magnitude(text) < Wrap \div 2 /\ Len(text) > 1
Number(text) == IF text[1] = Dash THEN -Magnitude(text) ELSE Magnitude(text)

\* The parts of a URL: the end of its path, its last segment, its query.
EndOfPath(text) == Span(text, Byte \ {Question, Hash})
Basename(text) ==
    LET path == SubSeq(text, 1, EndOfPath(text))
        slash == Max({0} \cup {i \in DOMAIN path : path[i] = Slash})
    IN From(path, slash + 1)
QueryString(text) ==
    LET rest == From(text, EndOfPath(text) + 1)
        query == IF rest # <<>> /\ rest[1] = Question THEN Tail(rest) ELSE rest
    IN SubSeq(query, 1, Span(query, Byte \ {Hash}))

-----------------------------------------------------------------------------
(* The read-only pass *)

\* The places where the loop of the read-only pass stops, which is where the
\* editing pass begins.
LowerCaseTrigger(text, i) == text[i] \in Upper
NoNullTrigger(text, i) == text[i] = 0
CompressTrigger(text, i) == i > 1 /\ text[i] = 32 /\ text[i - 1] = 32
DecodeUrlTrigger(text, i, iis) ==
    LET rest == From(text, i)
    IN text[i] = Plus \/ UrlEscape(rest) \/ (iis /\ IisEscape(rest))
DecodeCssTrigger(text, i) == text[i] = Backslash
DecodeJsTrigger(text, i) == text[i] = Backslash
DecodeHtmlTrigger(text, i) == text[i] = Amp
CmdLineTrigger(text, i) ==
    \/ i < Len(text) /\ text[i] \in {Comma, Semicolon}
    \/ i < Len(text) /\ text[i] \in Space /\ text[i + 1] \in SpaceEater
    \/ text[i] \in Removed \cup Upper
NormalizeTrigger(text, i) == SelfDot(text, i) \/ ParentDot(text, i)

Trigger(transformer, text, i) ==
    CASE transformer = "lowercase" -> LowerCaseTrigger(text, i)
      [] transformer = "removeNulls" -> NoNullTrigger(text, i)
      [] transformer = "compressWhiteSpace" -> CompressTrigger(text, i)
      [] transformer = "urlDecode" -> DecodeUrlTrigger(text, i, FALSE)
      [] transformer = "urlDecodeUni" -> DecodeUrlTrigger(text, i, TRUE)
      [] transformer = "cssDecode" -> DecodeCssTrigger(text, i)
      [] transformer = "jsDecode" -> DecodeJsTrigger(text, i)
      [] transformer = "htmlEntityDecode" -> DecodeHtmlTrigger(text, i)
      [] transformer = "cmdLine" -> CmdLineTrigger(text, i)
      [] transformer = "normalizePath" -> NormalizeTrigger(text, i)
      [] transformer = "removeComments" -> CommentAt(From(text, i))

Triggers(transformer, text) == {i \in DOMAIN text : Trigger(transformer, text, i)}
FirstTrigger(transformer, text) == Min(Triggers(transformer, text) \cup {Len(text) + 1}) - 1

\* The trailing run of = signs.
Padding(text) == Len(text) - Max({0} \cup {i \in DOMAIN text : text[i] # Equal})

ValidBase64(text) ==
    LET pos == Len(text) - Padding(text)
    IN /\ \A i \in 1..pos : text[i] \in Base64Byte
       /\ Padding(text) <= Min({3, 4 - (pos % 4)})

PaddedBase64(text) ==
    LET valid == Cardinality({i \in DOMAIN text : text[i] \in Base64Byte})
        missing == 4 - (valid % 4)
        padded == IF missing = 4 \/ missing <= Padding(text) THEN valid + Padding(text) ELSE valid
    IN padded # 0 /\ padded % 4 = 0

\* The sweep over the codepoints of a text with HTML references: after "&#" it
\* moves by three bytes, or by four when an x follows, and may jump over a "&".
HtmlSweep(text) ==
    LET found[i \in 1..Len(text) + 4] ==
            IF i > Len(text) - 2 THEN FALSE
            ELSE LET rest == From(text, i)
                 IN CASE HexReference(rest) \/ DecReference(rest) -> TRUE
                      [] ~HexReference(rest) /\ ~DecReference(rest) /\ StartsWith(rest, <<Amp, Hash>>) ->
                            found[i + (IF Folded(rest[3]) = 120 THEN 4 ELSE 3)]
                      [] OTHER -> found[i + 1]
    IN found[1]

\* The answer of the read-only pass, where it is not a loop that writes.
Need(transformer, text) ==
    CASE transformer \in {"lowercase", "removeNulls", "compressWhiteSpace", "urlDecode",
                          "urlDecodeUni", "cssDecode", "cmdLine", "normalizePath",
                          "removeComments"} -> Triggers(transformer, text) # {}
      [] transformer = "jsDecode" -> FirstTrigger(transformer, text) + 1 < Len(text)
      [] transformer = "normalizePathWin" ->
            Backslash \in Range(text) \/ Triggers("normalizePath", text) # {}
      [] transformer = "base64Decode" -> ValidBase64(text)
      [] transformer = "base64DecodeExt" -> PaddedBase64(text)
      [] transformer = "base64Encode" -> text # <<>>
      [] transformer = "numerize" -> IsNumber(text)
      [] transformer \in {"length", "_sqr_basename", "_sqr_filename", "_sqr_querystring"} -> TRUE

=============================================================================
