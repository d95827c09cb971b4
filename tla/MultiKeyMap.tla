---------------------------- MODULE MultiKeyMap ----------------------------
(***************************************************************************)
(* The rules by tag (mkmap.hpp), which overrides and filters find their    *)
(* rules with.  A tag is a pair of a key and a value.  data_ is a map of   *)
(* maps, where a tag that was never inserted and one without rules are     *)
(* alike; an empty map is what clear leaves.                               *)
(***************************************************************************)
EXTENDS FiniteSets, Sequences, SequencesExt, FiniteSetsExt

CONSTANTS TagKey, TagValue

\* A rule has finitely many tags.
ASSUME TagAssumption == IsFiniteSet(TagKey)

Tag == TagKey \X TagValue

(* The tags of a rule, and those a scope asks for: one value for each key. *)
Tags == UNION {[keys -> TagValue] : keys \in SUBSET TagKey}
Pairs(tags) == {<<k, tags[k]>> : k \in DOMAIN tags}

Cleared == [t \in Tag |-> {}]
Insert(rule, tags, data) ==
    [t \in Tag |-> IF t \in Pairs(tags) THEN data[t] \cup {rule} ELSE data[t]]

-----------------------------------------------------------------------------
(* find, find2 and multifind.  keys are in the order an unordered map       *)
(* happens to give them.                                                    *)

Find(data, tag) == data[tag]

Find2(data, tag0, tag1) == data[tag0] \cap data[tag1]

\* Mutant: what is left in current after the swap is not cleared.
Turn_NotCleared(data, sets, tag) ==
    IF sets.stopped \/ data[tag] = {} THEN [sets EXCEPT !.latest = {}, !.stopped = TRUE]
    ELSE [sets EXCEPT !.latest = sets.current \cup (sets.latest \cap data[tag]),
                      !.current = sets.latest]

(* A turn of the loop: the intersection is inserted in current, which is     *)
(* swapped with latest and then cleared.                                     *)
Turn(data, sets, tag) ==
    IF sets.stopped \/ data[tag] = {} THEN [sets EXCEPT !.latest = {}, !.stopped = TRUE]
    ELSE [sets EXCEPT !.latest = sets.current \cup (sets.latest \cap data[tag]), !.current = {}]

MultiFind(data, keys) ==
    IF Len(keys) = 1 THEN Find(data, keys[1])
    ELSE IF Len(keys) = 2 THEN Find2(data, keys[1], keys[2])
    ELSE FoldLeft(LAMBDA sets, tag : Turn(data, sets, tag),
                  [latest |-> Find(data, keys[1]), current |-> {}, stopped |-> FALSE], keys).latest
=============================================================================
