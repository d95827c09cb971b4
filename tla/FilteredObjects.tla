--------------------------- MODULE FilteredObjects ---------------------------
(***************************************************************************)
(* An object of the caller, as a condition of a rule with an input filter  *)
(* gets to see it: the object filter finds the objects to exclude, and the *)
(* iterator of the condition goes through what is left of the same object  *)
(* (input_filter.cpp, condition.cpp).  The filter is a component of its    *)
(* own, and so is the iterator; they share the object and the set of the   *)
(* excluded ones.                                                          *)
(***************************************************************************)
EXTENDS Objects

CONSTANTS
    Glob,
    Cases  \* records [root, paths, keys, path]: the object, the paths of the
           \* filter, and the iterator's kind and key path

\* Limits of 0 are ignored (interface.cpp).
ASSUME LimitsAssumption == MaxSize \in Nat \ {0} /\ MaxDepth \in Nat \ {0}

VARIABLES
    root, paths, todo, trie, walk, pathStack,  \* see ObjectFilter
    excluded,                                  \* what the filter gives to the iterator
    keys, path, phase, stack, prefix, current, previous, seen  \* see Iterator

Filter == INSTANCE ObjectFilter
Cursor == INSTANCE Iterator

\* A path has no component for a missing key, and a container has children.
ASSUME CasesAssumption ==
    \A c \in Cases :
        /\ c.paths \in SUBSET Seq(STRING \ {NoKey})
        /\ c.path \in Seq(STRING \ {NoKey})
        /\ \A place \in Filter!Below(c.root, <<>>) :
              LET object == Filter!At(c.root, place)
              IN IsContainer(object) => Len(object.children) \in Nat

vars == <<Filter!vars, Cursor!vars>>

TypeOK == Filter!TypeOK /\ Cursor!TypeOK

Init ==
    /\ \E c \in Cases : root = c.root /\ paths = c.paths /\ keys = c.keys /\ path = c.path
    /\ Filter!Init /\ Cursor!Init

\* The filter has been through the object before the rule is evaluated.
FilterStep ==
    /\ walk # "done" /\ Filter!Next
    /\ UNCHANGED <<keys, path, phase, stack, prefix, current, previous, seen>>

CursorStep ==
    /\ walk = "done" /\ Cursor!Next
    /\ UNCHANGED <<paths, todo, trie, walk, pathStack>>

Next == FilterStep \/ CursorStep

\* The call that does it runs to its end in one thread.
Spec == Init /\ [][Next]_vars /\ WF_vars(Next)

-----------------------------------------------------------------------------

\* The objects excluded are exactly those that the paths of the filter lead to,
\* whatever the order they were inserted in (path_trie::insert, iterate_object).
FilterMeansItsPaths == Filter!FilterMeansItsPaths

\* Once the filter has been through, the iterator gives every value or key
\* within the limits once, in the order of the document, and none that is in
\* an object the paths of the filter lead to (set_cursor_to_next_object).
FilteredUnseen ==
    \A n \in DOMAIN seen : \A shorter \in {SubSeq(seen[n], 1, l) : l \in 0..Len(seen[n])} :
        ~Filter!Named(shorter)
EveryOneOnce == Cursor!EveryOneOnce /\ FilteredUnseen

\* The path reported with a match is the one that leads to the object
\* (get_current_path).
PathIsTrue == Cursor!PathIsTrue

\* The walk of the filter ends, and so does the iteration after it, with and
\* without limits that cut them (iterate_object, set_cursor_to_next_object).
IterationEnds == <>(phase = "end")

-----------------------------------------------------------------------------
(* What does not hold, see the README. *)

\* A filter with an empty path excludes the whole object, whatever other paths
\* it has: "if the path is empty, we should clear all the children"
\* (object_filter.hpp).
EmptyPathMeansAll == Filter!EmptyPathMeansAll

\* Nothing is deeper than max_container_depth (ddwaf.h).
WithinDepth == Cursor!WithinDepth
=============================================================================
