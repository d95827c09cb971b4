---------------------------- MODULE MCTransform ----------------------------
(* Chains of one transformer, or of one and of "length", which always asks   *)
(* for a copy, over every string of a small alphabet that has the bytes the  *)
(* transformer looks for.                                                    *)
EXTENDS TransformedStrings

CONSTANTS MaxLen, MaxPath, MaxGlyphs

\* a, A, 4, 1, u, x
La == 97  Ua == 65  D4 == 52  D1 == 49  Lu == 117  Lx == 120
On(transformers, alphabet, n) ==
    {<<<<t>> \o rest, s>> : t \in transformers, rest \in {<<>>, <<"length">>},
                            s \in BoundedSeq(alphabet, n)}

\* Every token of the decoders is a byte, or one of these.
Joined(transformers, tokens, n) ==
    {<<<<t>> \o rest, FlattenSeq(s)>> : t \in transformers, rest \in {<<>>, <<"length">>},
                                        s \in BoundedSeq(tokens, n)}
UrlTokens == {<<Percent>>, <<Plus>>, <<D4>>, <<D1>>, <<Lu>>, <<D1, D1>>, <<50, 53>>, <<50, 66>>,
              <<Percent, 48>>, <<48, 48, 101, 57>>}
CssTokens == {<<Backslash>>, <<48>>, <<La>>, <<32>>, <<10>>, <<122>>, <<100, 56, 48, 48>>, <<49, 49, 48, 48, 48, 48>>}
Unit == <<Backslash, Lu>>
JsTokens == {<<Backslash>>, <<Lx>>, <<Lu>>, <<D4, D1>>, <<110>>, Unit \o <<100, 56, 48, 49>>,
             Unit \o <<100, 99, 48, 48>>, Unit \o <<48, 48, 101, 57>>}
HtmlTokens == {<<Amp>>, <<Amp, Hash>>, <<Lx>>, <<D4>>, <<Semicolon>>, <<Amp, 108, 116>>, <<76, 84>>,
               <<57, 57, 57, 57, 57, 57, 57>>}
NamedTokens == {<<Amp>>, <<108, 116>>, <<71, 84>>, <<Semicolon>>, <<Ua>>, <<113, 117, 111, 116, 59>>}
CommentTokens == {HtmlComment, <<45, 45, 62>>, CComment, <<Star>>, <<Slash>>, <<Dash>>, <<Hash>>, <<La>>}

Simple ==
    On({"lowercase", "removeNulls"}, {0, La, Ua}, MaxLen)
    \cup On({"compressWhiteSpace"}, {32, La}, MaxLen)
    \cup On({"cmdLine"}, {Quote, Comma, 9, 32, Slash, La, Ua}, MaxLen)
    \cup On({"normalizePathWin"}, {Dot, Slash, Backslash, La}, MaxLen)
    \cup On({"normalizePath"}, {Dot, Slash, La}, MaxPath)
    \cup On({"_sqr_basename", "_sqr_filename", "_sqr_querystring"}, {Slash, Question, Hash, La}, 3)
Base64Cases == On({"base64Decode", "base64DecodeExt"}, {Ua, D4, Slash, Equal, Dash}, MaxLen)
EncodeCases == On({"base64Encode"}, {0, La, 255}, 4)
NumberCases == On({"numerize"}, {Dash, 48, 49, 57}, 3)
UrlCases == Joined({"urlDecode", "urlDecodeUni"}, UrlTokens, MaxLen)
CssCases == Joined({"cssDecode"}, CssTokens, MaxLen)
JsCases == Joined({"jsDecode"}, JsTokens, MaxLen)
HtmlCases == Joined({"htmlEntityDecode"}, HtmlTokens, MaxLen)
CommentCases == Joined({"removeComments"}, CommentTokens, MaxLen)
NamedCases == Joined({"htmlEntityDecode"}, NamedTokens, MaxLen)

\* Texts of a few glyphs: a letter, a ligature of three letters of two bytes, an
\* accented letter, an accent that is dropped, a half, the joiner, a sequence
\* cut short.  U+FDF2, U+00E9, U+0301, U+00BD, U+1F600 and one that would be
\* too long.
Table == 65010 :> <<1575, 1604, 1607>> @@ 233 :> <<101>> @@ 769 :> <<>> @@ 189 :> <<49, 47, 50>>
         @@ 65018 :> <<1, 2, 3, 4>>
Glyphs == {<<97>>, CodepointToBytes(65010), CodepointToBytes(233), CodepointToBytes(769), CodepointToBytes(189),
           CodepointToBytes(8205), CodepointToBytes(128512), CodepointToBytes(65018), <<226, 130>>}
Texts(glyphs, n) == {FlattenSeq(g) : g \in BoundedSeq(glyphs, n)}
UnicodeCases ==
    {<<<<"unicode_normalize", "length">>, s>> : s \in Texts(Glyphs, MaxGlyphs)}
    \cup {<<c, s>> : c \in {<<"unicode_normalize">>, <<"lowercase", "unicode_normalize">>}, s \in Texts(Glyphs, 2)}
\* with a null and an invalid byte
RawCases == {<<<<"unicode_normalize", "length">>, s>> : s \in Texts({<<97>>, <<0>>, <<255>>}, MaxGlyphs)}

MCStrings ==
    Simple \cup Base64Cases \cup EncodeCases \cup NumberCases \cup UrlCases \cup CssCases
    \cup JsCases \cup HtmlCases \cup CommentCases \cup NamedCases \cup UnicodeCases

\* A chain that decodes what another transformer has changed.
ChainCases == {<<<<"lowercase", "base64Decode">>, s>> : s \in BoundedSeq({Ua, La, Dash}, 2)}

Disagreements == Simple \cup EncodeCases \cup NumberCases \cup JsCases \cup HtmlCases
                 \cup CommentCases \cup RawCases \cup ChainCases
=============================================================================
