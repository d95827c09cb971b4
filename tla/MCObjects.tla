----------------------------- MODULE MCObjects -----------------------------
(* Objects of up to four levels, with repeated, missing and empty keys, with *)
(* values that are not scalars, and containers longer than the limit.        *)
EXTENDS FilteredObjects

Leaf(key) == [key |-> key, kind |-> "scalar", children |-> <<>>]
Other(key) == [key |-> key, kind |-> "other", children |-> <<>>]
Map(key, children) == [key |-> key, kind |-> "map", children |-> children]
Array(key, children) == [key |-> key, kind |-> "array", children |-> children]

On(roots, sets, kinds, keyPaths) ==
    [root : roots, paths : sets, keys : kinds, path : keyPaths]

-----------------------------------------------------------------------------
(* Every set of up to two short paths, inserted in every order. *)

Leaves == {Leaf("a"), Leaf("b"), Leaf(NoKey)}
Inner == Leaves \cup {Map(k, <<x, y>>) : k \in {"a", "b"}, x \in Leaves, y \in {Leaf("a"), Map("b", <<Leaf("a")>>)}}
         \cup {Array("a", <<Leaf(NoKey)>>), Array(NoKey, <<Leaf("a")>>)}
Roots == {Leaf("a")} \cup {Map(NoKey, <<x, y>>) : x \in Inner, y \in {Leaf("a"), Map("a", <<Leaf("b"), Leaf("a")>>)}}
         \cup {Map(NoKey, <<x, y, z>>) : x \in Inner, y, z \in {Leaf("a"), Leaf("b")}}
         \cup {Array(NoKey, <<x>>) : x \in Inner}

Paths == BoundedSeq({"a", "b", Glob}, 2) \ {<<>>}
PathSets == {s \in SUBSET Paths : s # {} /\ Cardinality(s) <= 2}
            \cup {{<<"a">>, <<"a", "b">>, <<"a", "b", "a">>}, {<<"a", Glob, "a">>, <<Glob, "b">>, <<"a">>}}

-----------------------------------------------------------------------------
(* Every kind of object and of iteration, from key paths. *)

Kinds == {Leaf("a"), Leaf("b"), Other("a"), Leaf(NoKey)}
Deep(key) == Map(key, <<Map("a", <<Map("b", <<Leaf("b"), Leaf("a")>>), Leaf("a")>>), Leaf("b")>>)
Several == Kinds \cup {Map(k, <<x, y>>) : k \in {"a", NoKey}, x \in Kinds, y \in {Array("b", <<Leaf(NoKey)>>)}}
           \cup {Array("b", <<Leaf(NoKey), Map(NoKey, <<x>>), Leaf(NoKey)>>) : x \in Kinds}
           \cup {Map("b", <<>>)}
Shallow == {Leaf(NoKey), Other(NoKey)} \cup {Map(NoKey, <<x, y>>) : x \in Several, y \in {Leaf("a"), Map("a", <<Leaf("b")>>)}}
           \cup {Array(NoKey, <<Leaf(NoKey), Map(NoKey, <<x>>)>>) : x \in Several}
           \cup {Map(NoKey, <<x, Leaf("a"), Leaf("b")>>) : x \in Several}
Deeper == {Map(NoKey, <<Deep(x), y>>) : x \in {"a", "b"}, y \in Kinds}

KeyPaths == {<<>>, <<"a">>, <<"b">>, <<"a", "b">>, <<"a", "a">>}
FewPathSets == {{}, {<<>>}, {<<"a">>}, {<<"a", "b">>, <<"b">>}, {<<Glob, "a">>}}
DeepPathSets == FewPathSets \cup {{<<"a", "a", "b">>}, {<<"a", "a", Glob, "b">>}}

-----------------------------------------------------------------------------
(* Empty keys, which are keys for an iterator and none for a filter. *)

Blank == {Map(NoKey, <<x, y>>) : x \in {Leaf(""), Map("", <<Leaf("a"), Leaf("")>>), Map("a", <<Leaf("")>>)},
                                 y \in {Leaf(""), Leaf("a")}}
BlankPathSets == {{<<"">>}, {<<Glob>>}, {<<"", "a">>, <<"a">>}, {<<"">>, <<Glob, "a">>}, {<<"a", "">>, <<Glob, Glob>>}}

-----------------------------------------------------------------------------

\* From a key path, only objects within the depth.
MCCases == On(Roots, PathSets, {FALSE}, {<<>>})
           \cup On(Shallow, FewPathSets, BOOLEAN, KeyPaths)
           \cup On(Deeper, DeepPathSets, BOOLEAN, {<<>>})
           \cup On(Blank, BlankPathSets, BOOLEAN, {<<>>, <<"">>})
DeepCases == On(Deeper, {{}}, BOOLEAN, KeyPaths)
EmptyPathCases == On(Roots, {{<<>>}, {<<>>, <<"a">>}}, {FALSE}, {<<>>})
Disagreements == DeepCases \cup EmptyPathCases
=============================================================================
