------------------------------ MODULE Objects ------------------------------
(***************************************************************************)
(* The objects given to the library, as trees (ddwaf_object).  An object   *)
(* has a key or none, is a map, an array, a scalar or something else (a    *)
(* boolean, an invalid object, a container without an array), and has      *)
(* children.  An object inside another is named by its place, the sequence *)
(* of the indices that lead to it.                                         *)
(***************************************************************************)
EXTENDS Integers, SequencesExt

CONSTANTS
    NoKey,    \* the key of an object without a name
    MaxSize,  \* limits_.max_container_size
    MaxDepth  \* limits_.max_container_depth

IsMap(object) == object.kind = "map"
IsContainer(object) == object.kind \in {"map", "array"}
IsScalar(object) == object.kind = "scalar"

At(root, place) == FoldLeft(LAMBDA o, i : o.children[i], root, place)

\* How many children are looked at.
Size(object) == IF Len(object.children) > MaxSize THEN MaxSize ELSE Len(object.children)

\* The places below a place that the size of the containers lets reach.
Below(root, place) ==
    LET level[n \in 0..MaxDepth + Len(place) + 1] ==
            IF n = 0 THEN {place}
            ELSE UNION {{Append(p, i) : i \in 1..Size(At(root, p))} :
                        p \in {q \in level[n - 1] : IsContainer(At(root, q))}}
    IN UNION {level[n] : n \in DOMAIN level}

\* Whether a place comes before another one in the order of the document.
InOrder(p, q) ==
    \/ IsStrictPrefix(p, q)
    \/ \E i \in DOMAIN p \cap DOMAIN q : p[i] < q[i] /\ \A j \in 1..i - 1 : p[j] = q[j]
=============================================================================
