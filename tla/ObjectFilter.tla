---------------------------- MODULE ObjectFilter ----------------------------
(***************************************************************************)
(* The object filter of an input filter, for one target: key paths are     *)
(* inserted in a trie in the order of the document, and the objects at     *)
(* these paths are looked for in the target's object (object_filter.hpp,   *)
(* object_filter.cpp).  A trie is the set of the paths of its nodes.       *)
(***************************************************************************)
EXTENDS Objects

CONSTANT Glob  \* "*", a component that stands for any key

VARIABLES
    root,      \* the target's object
    paths,     \* the key paths of the filter
    todo,      \* those that are still to be inserted
    trie,      \* {} before the first insertion
    walk,      \* "insert", "visit" or "done"
    pathStack, \* path_stack: a sequence of [place, index, nodes]
    excluded   \* objects_to_exclude, as places

vars == <<root, paths, todo, trie, walk, pathStack, excluded>>

Frame == [place : Seq(Nat), index : Nat, nodes : SUBSET trie]
TypeOK ==
    /\ todo \subseteq paths /\ paths \subseteq Seq(STRING)
    /\ \A node \in trie : node # <<>> => Front(node) \in trie
    /\ walk \in {"insert", "visit", "done"}
    /\ pathStack \in Seq(Frame) /\ Len(pathStack) <= MaxDepth + 1
    /\ excluded \subseteq Seq(Nat)

\* For any object and paths.
Init ==
    /\ todo = paths /\ trie = {}
    /\ walk = "insert" /\ pathStack = <<>> /\ excluded = {}

-----------------------------------------------------------------------------
(* The trie *)

PrefixesOf(path) == {SubSeq(path, 1, n) : n \in 0..Len(path)}
IsTerminal(node) == \A other \in trie : ~IsStrictPrefix(node, other)

\* Mutant: a path goes on below a shorter one that is already there.
WithPath_Extends(path) ==
    IF path # <<>> /\ path \in trie
    THEN {node \in trie : ~IsStrictPrefix(path, node)}
    ELSE trie \cup PrefixesOf(path)

\* A path with a shorter one in the trie adds nothing; a path that is already
\* there, with longer ones, replaces them.  The empty path replaces nothing.
WithPath(path) ==
    CASE \E node \in (PrefixesOf(path) \ {<<>>}) \cap trie : IsTerminal(node) -> trie
      [] path # <<>> /\ path \in trie /\ ~IsTerminal(path) ->
            {node \in trie : ~IsStrictPrefix(path, node)}
      [] OTHER -> trie \cup PrefixesOf(path)

Insert ==
    /\ walk = "insert"
    /\ \E path \in todo :
          /\ trie' = WithPath(path)
          /\ todo' = todo \ {path}
    /\ UNCHANGED <<root, paths, walk, pathStack, excluded>>

\* The traverser: the nodes that a path of keys leads to.
NotFound(nodes) == nodes = {}
Found(nodes) == \E node \in nodes : nodes = {node} /\ IsTerminal(node)

\* A terminal node stands for everything below it.
Step(nodes, components) ==
    LET next == {Append(node, c) : node \in nodes, c \in components} \cap trie
        terminal == {node \in next : IsTerminal(node)}
    IN CASE Found(nodes) -> nodes
         [] ~Found(nodes) /\ terminal # {} -> {CHOOSE node \in terminal : TRUE}
         [] OTHER -> next

-----------------------------------------------------------------------------
(* iterate_object *)

Start ==
    /\ walk = "insert" /\ todo = {}
    /\ LET nodes == {<<>>} \cap trie
       IN IF NotFound(nodes) \/ Found(nodes) \/ ~IsContainer(root)
          THEN /\ walk' = "done"
               /\ excluded' = IF Found(nodes) THEN {<<>>} ELSE {}
               /\ UNCHANGED pathStack
          ELSE /\ walk' = "visit"
               /\ pathStack' = <<[place |-> <<>>, index |-> 1, nodes |-> nodes]>>
               /\ UNCHANGED excluded
    /\ UNCHANGED <<root, paths, todo, trie>>

\* The components that stand for the key of an object.  No component but the
\* wildcard stands for a missing key or an empty one.
Components(object) ==
    IF object.key \in {NoKey, ""} THEN {Glob} ELSE {object.key, Glob}

\* The next child of the container on the top of the pathStack.
Visit ==
    /\ walk = "visit" /\ pathStack # <<>>
    /\ LET top == Last(pathStack)
           place == Append(top.place, top.index)
           child == At(root, place)
           nodes == Step(top.nodes, Components(child))
           moved == [pathStack EXCEPT ![Len(pathStack)].index = @ + 1]
           enter == /\ ~Found(nodes) /\ ~NotFound(nodes)
                    /\ IsContainer(child) /\ Len(pathStack) < MaxDepth
       IN /\ top.index <= Size(At(root, top.place))
          /\ excluded' = IF Found(nodes) THEN excluded \cup {place} ELSE excluded
          /\ pathStack' = IF enter THEN Append(moved, [place |-> place, index |-> 1, nodes |-> nodes])
                      ELSE moved
    /\ UNCHANGED <<root, paths, todo, trie, walk>>

Leave ==
    /\ walk = "visit" /\ pathStack # <<>>
    /\ Last(pathStack).index > Size(At(root, Last(pathStack).place))
    /\ pathStack' = Front(pathStack)
    /\ walk' = IF Len(pathStack) = 1 THEN "done" ELSE walk
    /\ UNCHANGED <<root, paths, todo, trie, excluded>>

Next == Insert \/ Start \/ Visit \/ Leave

-----------------------------------------------------------------------------

\* A path leads to a place if its components are the keys on the way, or the
\* wildcard; a key that is empty is none.
LeadsTo(path, place) ==
    /\ Len(path) = Len(place)
    /\ \A i \in DOMAIN path :
          \/ path[i] = Glob
          \/ path[i] = At(root, SubSeq(place, 1, i)).key /\ path[i] # ""
ShorterThan(place) == {SubSeq(place, 1, n) : n \in 0..Len(place) - 1}
Named(place) == \E path \in paths : LeadsTo(path, place)

\* The objects excluded are those that a path of the filter leads to, within
\* the limits, without those inside another one that is excluded - whatever
\* the order in which the paths were inserted (path_trie::insert).
FilterMeansItsPaths ==
    walk = "done" =>
        excluded = {place \in Below(root, <<>>) :
                        /\ Named(place)
                        /\ Len(place) <= MaxDepth
                        /\ \A shorter \in ShorterThan(place) : ~Named(shorter)}

\* A filter with an empty path excludes the whole object, whatever other paths
\* it has: "if the path is empty, we should clear all the children"
\* (object_filter.hpp).
EmptyPathMeansAll == (walk = "done" /\ <<>> \in paths) => <<>> \in excluded
=============================================================================
