------------------------------ MODULE Iterator ------------------------------
(***************************************************************************)
(* The iterators over the values or the keys of a target's object, from    *)
(* the end of a key path, without the excluded objects and within the      *)
(* limits (iterator.cpp).  A step is one key of the path, or one turn of   *)
(* the loop that looks for the next object.                                *)
(***************************************************************************)
EXTENDS Objects

VARIABLES
    root,      \* the target's object
    excluded,  \* the places not to look at
    keys,      \* whether this is a key_iterator or a value_iterator
    path,      \* the key path
    phase,     \* "begin", "follow", "seek", "hold" or "end"
    stack,     \* stack_: a sequence of [place, index]
    prefix,    \* path_
    current,   \* current_: << >>, or <<a place>>
    previous,  \* what current_ was when the loop began
    seen       \* history: the places that have been current

arguments == <<root, excluded, keys, path>>
vars == <<arguments, phase, stack, prefix, current, previous, seen>>

Object(place) == At(root, place)
ShouldExclude(place) == place \in excluded
Top == Last(stack)
Frame(place) == [place |-> place, index |-> 1]
Moved == [stack EXCEPT ![Len(stack)].index = @ + 1]

TypeOK ==
    /\ path \in Seq(STRING) /\ excluded \subseteq Seq(Nat)
    /\ phase \in {"begin", "follow", "seek", "hold", "end"}
    /\ \A n \in DOMAIN stack :
          /\ IsContainer(Object(stack[n].place))
          /\ stack[n].index \in 1..Len(Object(stack[n].place).children) + 1
          /\ n > 1 => stack[n].place = Append(stack[n - 1].place, stack[n - 1].index - 1)
    /\ prefix \in {<<>>, path}
    /\ phase = "hold" => current # <<>> /\ seen # <<>>

\* For any arguments.
Init ==
    /\ phase = "begin"
    /\ stack = <<>> /\ prefix = <<>> /\ current = <<>> /\ previous = <<>> /\ seen = <<>>

Hold(place) == phase' = "hold" /\ current' = <<place>> /\ seen' = Append(seen, place)

-----------------------------------------------------------------------------
(* initialise_cursor *)

PathFits == IF keys THEN Len(path) < MaxDepth ELSE Len(path) <= MaxDepth

BeginNowhere ==
    /\ phase = "begin"
    /\ \/ ShouldExclude(<<>>)
       \/ ~IsContainer(root) /\ (keys \/ path # <<>> \/ ~IsScalar(root))
       \/ IsContainer(root) /\ (IF path = <<>> THEN MaxDepth = 0 ELSE ~PathFits)
    /\ phase' = "end"
    /\ UNCHANGED <<arguments, stack, prefix, current, previous, seen>>

BeginAtScalar ==
    /\ phase = "begin" /\ ~keys /\ ~ShouldExclude(<<>>)
    /\ path = <<>> /\ IsScalar(root)
    /\ Hold(<<>>)
    /\ UNCHANGED <<arguments, stack, prefix, previous>>

BeginAtContainer ==
    /\ phase = "begin" /\ ~ShouldExclude(<<>>) /\ IsContainer(root)
    /\ IF path = <<>> THEN MaxDepth > 0 /\ phase' = "seek" ELSE PathFits /\ phase' = "follow"
    /\ stack' = <<Frame(<<>>)>>
    /\ UNCHANGED <<arguments, prefix, current, previous, seen>>

\* The children of an object that have a key and are not excluded: the first
\* of them is taken.
FirstNamed(place, key) ==
    LET object == Object(place)
        named == {j \in 1..Size(object) : object.children[j].key = key
                                          /\ ~ShouldExclude(Append(place, j))}
    IN IF IsMap(object) /\ named # {} THEN {Append(place, Min(named))} ELSE {}

\* The next key of the path, which is one more than the depth of the top.
Depth == Len(Top.place) + 1
Child == FirstNamed(Top.place, path[Depth])

FollowToScalar ==
    /\ phase = "follow" /\ ~keys /\ Depth = Len(path)
    /\ \E place \in Child : IsScalar(Object(place)) /\ Hold(place)
    /\ stack' = <<>> /\ prefix' = path
    /\ UNCHANGED <<arguments, previous>>

\* The path goes on, or ends at this container.
FollowToContainer ==
    /\ phase = "follow"
    /\ keys \/ Depth # MaxDepth
    /\ \E place \in Child : IsContainer(Object(place)) /\ stack' = <<Frame(place)>>
    /\ phase' = IF Depth < Len(path) THEN "follow" ELSE "seek"
    /\ UNCHANGED <<arguments, prefix, current, previous, seen>>

FollowNowhere ==
    /\ phase = "follow"
    /\ \A place \in Child :
          IF keys THEN ~IsContainer(Object(place))
          ELSE IF IsContainer(Object(place)) THEN Depth = MaxDepth
          ELSE ~IsScalar(Object(place)) \/ Depth < Len(path)
    /\ phase' = "end"
    /\ UNCHANGED <<arguments, stack, prefix, current, previous, seen>>

-----------------------------------------------------------------------------
(* set_cursor_to_next_object *)

AtEnd == Top.index > Len(Object(Top.place).children) \/ Top.index > MaxSize
Next1 == Append(Top.place, Top.index)
Nameless(place) == Object(place).key = NoKey

Pop ==
    /\ phase = "seek" /\ stack # <<>> /\ AtEnd
    /\ stack' = Front(stack)
    /\ UNCHANGED <<arguments, phase, prefix, current, previous, seen>>

\* The key of a container comes before what is in it, without moving.
HoldContainer ==
    /\ phase = "seek" /\ stack # <<>> /\ ~AtEnd /\ ~ShouldExclude(Next1)
    /\ keys /\ IsContainer(Object(Next1))
    /\ ~Nameless(Next1) /\ previous # <<Next1>>
    /\ Hold(Next1) /\ prefix' = path
    /\ UNCHANGED <<arguments, stack, previous>>

\* The depth counts from the end of the key path in the first search, when
\* path_ is still empty, and from the root afterwards.
CanEnter == Len(stack) + Len(prefix) < MaxDepth
Entered ==
    /\ ~AtEnd /\ ~ShouldExclude(Next1) /\ IsContainer(Object(Next1))
    /\ keys => Nameless(Next1) \/ previous = <<Next1>>

Push ==
    /\ phase = "seek" /\ stack # <<>> /\ Entered /\ CanEnter
    /\ stack' = Append(Moved, Frame(Next1))
    /\ UNCHANGED <<arguments, phase, prefix, current, previous, seen>>

Wanted1 == IF keys THEN ~Nameless(Next1) ELSE IsScalar(Object(Next1))

HoldChild ==
    /\ phase = "seek" /\ stack # <<>> /\ ~AtEnd /\ ~ShouldExclude(Next1)
    /\ ~IsContainer(Object(Next1)) /\ Wanted1
    /\ stack' = Moved
    /\ Hold(Next1) /\ prefix' = path
    /\ UNCHANGED <<arguments, previous>>

\* Mutant: an excluded container is still entered.
Skip_Enters ==
    /\ phase = "seek" /\ stack # <<>> /\ ~AtEnd
    /\ \/ ShouldExclude(Next1) \/ (Entered /\ ~CanEnter)
       \/ ~IsContainer(Object(Next1)) /\ ~Wanted1
    /\ stack' = IF IsContainer(Object(Next1)) /\ CanEnter THEN Append(Moved, Frame(Next1)) ELSE Moved
    /\ UNCHANGED <<arguments, phase, prefix, current, previous, seen>>

\* Mutant: the index is not moved past what is skipped.
Skip_Stays ==
    /\ phase = "seek" /\ stack # <<>> /\ ~AtEnd
    /\ \/ ShouldExclude(Next1) \/ (Entered /\ ~CanEnter)
       \/ ~IsContainer(Object(Next1)) /\ ~Wanted1
    /\ UNCHANGED <<arguments, phase, stack, prefix, current, previous, seen>>

Skip ==
    /\ phase = "seek" /\ stack # <<>> /\ ~AtEnd
    /\ \/ ShouldExclude(Next1) \/ (Entered /\ ~CanEnter)
       \/ ~IsContainer(Object(Next1)) /\ ~Wanted1
    /\ stack' = Moved
    /\ UNCHANGED <<arguments, phase, prefix, current, previous, seen>>

End ==
    /\ phase = "seek" /\ stack = <<>>
    /\ phase' = "end"
    /\ UNCHANGED <<arguments, stack, prefix, current, previous, seen>>

\* operator++
Advance ==
    /\ phase = "hold"
    /\ phase' = "seek" /\ previous' = current /\ current' = <<>>
    /\ UNCHANGED <<arguments, stack, prefix, seen>>

Next ==
    \/ BeginNowhere \/ BeginAtScalar \/ BeginAtContainer
    \/ FollowToScalar \/ FollowToContainer \/ FollowNowhere
    \/ Pop \/ HoldContainer \/ Push \/ HoldChild \/ Skip \/ End \/ Advance

\* Mutant: the index is that of the next child.
Mark_Next(parent, index, place) ==
    IF IsMap(Object(parent))
    THEN IF Nameless(place) THEN <<>> ELSE <<Object(place).key>>
    ELSE <<ToString(index - 1)>>

\* get_current_path: the keys of the stack after the key path.  The index of
\* a container has moved past the child that was taken.
Mark(parent, index, place) ==
    IF IsMap(Object(parent))
    THEN IF Nameless(place) THEN <<>> ELSE <<Object(place).key>>
    ELSE <<ToString(index - 2)>>
CurrentPath ==
    IF stack = <<>> THEN prefix
    ELSE prefix
         \o FlattenSeq([n \in 1..Len(stack) - 1 |->
                Mark(stack[n].place, stack[n].index, stack[n + 1].place)])
         \o Mark(Top.place, Top.index, current[1])

-----------------------------------------------------------------------------

\* Where the key path leads.
Origin ==
    {place \in Below(root, <<>>) :
        /\ Len(place) = Len(path)
        /\ \A n \in 1..Len(path) :
              SubSeq(place, 1, n) \in FirstNamed(SubSeq(place, 1, n - 1), path[n])}
HasExcluded(place) == \E n \in 0..Len(place) : ShouldExclude(SubSeq(place, 1, n))
Wanted ==
    {place \in Below(root, <<>>) :
        /\ \E p \in Origin : IsPrefix(p, place)
        /\ ~HasExcluded(place) /\ Len(place) <= MaxDepth
        /\ IF keys THEN place \notin Origin /\ ~Nameless(place)
           ELSE IsScalar(Object(place))}

\* Every value (or key) from the end of the key path on is given once, in the
\* order of the document, none of them in an excluded object or beyond the
\* limits, and none is left out (set_cursor_to_next_object).
EveryOneOnce ==
    phase = "end" =>
        /\ ToSet(seen) = Wanted
        /\ \A m, n \in DOMAIN seen : m < n => InOrder(seen[m], seen[n])

\* Nothing is deeper than max_container_depth, wherever the iteration began.
WithinDepth == \A n \in DOMAIN seen : Len(seen[n]) <= MaxDepth

\* The path reported with a match is the one that leads from the root of the
\* target to the object (get_current_path).
Step(place, n) ==
    LET parent == Object(SubSeq(place, 1, n - 1))
        child == Object(SubSeq(place, 1, n))
    IN CASE IsMap(parent) /\ child.key # NoKey -> <<child.key>>
         [] IsMap(parent) /\ child.key = NoKey -> <<>>
         [] OTHER -> <<ToString(place[n] - 1)>>
TruePath(place) == FlattenSeq([n \in DOMAIN place |-> Step(place, n)])
PathIsTrue == phase = "hold" => CurrentPath = TruePath(current[1])
=============================================================================
