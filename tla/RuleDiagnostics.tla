-------------------------- MODULE RuleDiagnostics --------------------------
(***************************************************************************)
(* What ddwaf_ruleset_info tells of the rules of a document: how many were *)
(* loaded or failed, and the ids of the rules that failed by error         *)
(* (ruleset_info.cpp, ruleset_info.hpp, the containers of object.cpp, and  *)
(* the loops over rules of parser_v1.cpp and parser_v2.cpp).  Allocations  *)
(* do not fail.                                                            *)
(***************************************************************************)
EXTENDS Integers, Sequences, FiniteSets, SequencesExt

CONSTANTS
    Id,         \* the ids of rules, with "" among them
    Error,      \* what parsing a rule may throw
    Entry,      \* what "rules" (or "events") may hold: [map, id, error], where
                \* id is << >> when there is none, and error is when all is well
    Chunk,      \* objects that a container is made longer by: 8
    Counters,   \* numbers of 16 bits: 2^16
    MaxEntries  \* bound on the entries of a document

Duplicate == "duplicate rule"

ASSUME EntryAssumption ==
    /\ Entry \subseteq [map : BOOLEAN, id : {<<i>> : i \in Id} \cup {<< >>},
                        error : {<<e>> : e \in Error} \cup {<< >>}]
    /\ Duplicate \notin Error /\ "" \in Id

ASSUME SizeAssumption ==
    Chunk \in Nat \ {0} /\ Counters \in Nat \ {0} /\ MaxEntries \in Nat

VARIABLES
    schema,   \* the major version of the document: 1 or 2
    wanted,   \* whether info is not null
    phase,    \* "parsing", "returned" or "thrown"
    rules,    \* the ids of the rules loaded
    loaded,   \* info->loaded
    failed,   \* info->failed
    errors,   \* info->errors: a map, as a container of [key, ids]
    cache,    \* error_obj_cache: for each error, its place in errors
    read,     \* history: how many entries were read
    raised    \* history: the rules that failed, [id, error]

vars == <<schema, wanted, phase, rules, loaded, failed, errors, cache, read, raised>>

-----------------------------------------------------------------------------
(* ddwaf_object_insert: a container has room for some objects. *)

Empty == [items |-> << >>, room |-> 0]

\* Mutant: a container that is full is not made longer.
Room_Once(container) == IF container.items = << >> THEN Chunk ELSE container.room

Room(container) ==
    IF Len(container.items) % Chunk = 0 THEN Len(container.items) + Chunk ELSE container.room

Inserted(container, object) ==
    [items |-> Append(container.items, object), room |-> Room(container)]

Fits(container) == Len(container.items) <= container.room

-----------------------------------------------------------------------------
AddFailed == failed' = IF wanted THEN (failed + 1) % Counters ELSE failed
AddLoaded == loaded' = IF wanted THEN (loaded + 1) % Counters ELSE loaded

\* Mutant: the last error added is taken for one that is already known.
PlaceOf_Latest(error) ==
    IF error \in DOMAIN cache THEN Len(errors.items) - 1 ELSE Len(errors.items)

\* nbEntries - 1, once the error has been added (from 0).
PlaceOf(error) == IF error \in DOMAIN cache THEN cache[error] ELSE Len(errors.items)

InsertError(id, error) ==
    /\ raised' = Append(raised, [id |-> id, error |-> error])
    /\ AddFailed
    /\ IF wanted
       THEN LET place == PlaceOf(error)
                map == IF error \in DOMAIN cache THEN errors
                       ELSE Inserted(errors, [key |-> error, ids |-> Empty])
            IN /\ errors' = [map EXCEPT !.items[place + 1].ids = Inserted(@, id)]
               /\ cache' = [e \in DOMAIN cache \cup {error} |->
                               IF e = error THEN place ELSE cache[e]]
       ELSE UNCHANGED <<errors, cache>>

-----------------------------------------------------------------------------
(* One turn of the loop of v1::parse or v2::parse_rules, for an entry of    *)
(* the array of rules.                                                      *)

Init ==
    /\ schema \in {1, 2} /\ wanted \in BOOLEAN
    /\ phase = "parsing" /\ rules = {}
    /\ loaded = 0 /\ failed = 0 /\ errors = Empty /\ cache = [e \in {} |-> 0]
    /\ read = 0 /\ raised = << >>

Read == phase = "parsing" /\ read < MaxEntries /\ read' = read + 1

(* Schema 1 counts what is no map; schema 2 gives the document up. *)
NotAMap(entry) ==
    /\ ~entry.map
    /\ IF schema = 1 THEN Read /\ AddFailed /\ UNCHANGED phase
       ELSE phase = "parsing" /\ phase' = "thrown" /\ UNCHANGED <<read, failed>>
    /\ UNCHANGED <<rules, loaded, errors, cache, raised>>

\* An id that schema 2 takes for none when the rule fails.
Nameless(id) == schema = 2 /\ id = ""

\* Mutant: a rule without an id is not counted.
FailsUnnamed_Uncounted(entry) ==
    /\ Read
    /\ entry.map
    /\ \/ entry.id = << >>
       \/ entry.id # << >> /\ entry.error # << >> /\ Nameless(entry.id[1]) /\ entry.id[1] \notin rules
    /\ UNCHANGED <<phase, rules, loaded, failed, errors, cache, raised>>

FailsUnnamed(entry) ==
    /\ Read /\ AddFailed
    /\ entry.map
    /\ \/ entry.id = << >>
       \/ entry.id # << >> /\ entry.error # << >> /\ Nameless(entry.id[1]) /\ entry.id[1] \notin rules
    /\ UNCHANGED <<phase, rules, loaded, errors, cache, raised>>

Repeats(entry) ==
    /\ Read
    /\ entry.map /\ entry.id # << >> /\ entry.id[1] \in rules
    /\ InsertError(entry.id[1], Duplicate)
    /\ UNCHANGED <<phase, rules, loaded>>

Fails(entry) ==
    /\ Read
    /\ entry.map /\ entry.id # << >> /\ entry.error # << >>
    /\ entry.id[1] \notin rules /\ ~Nameless(entry.id[1])
    /\ InsertError(entry.id[1], entry.error[1])
    /\ UNCHANGED <<phase, rules, loaded>>

Loads(entry) ==
    /\ Read /\ AddLoaded
    /\ entry.map /\ entry.id # << >> /\ entry.error = << >>
    /\ entry.id[1] \notin rules
    /\ rules' = rules \cup {entry.id[1]}
    /\ UNCHANGED <<phase, failed, errors, cache, raised>>

EndOfRules ==
    /\ phase = "parsing"
    /\ phase' = IF rules = {} THEN "thrown" ELSE "returned"
    /\ UNCHANGED <<rules, loaded, failed, errors, cache, read, raised>>

Next ==
    /\ \/ \E entry \in Entry :
             NotAMap(entry) \/ FailsUnnamed(entry) \/ Repeats(entry) \/ Fails(entry) \/ Loads(entry)
       \/ EndOfRules
    /\ UNCHANGED <<schema, wanted>>

Spec == Init /\ [][Next]_vars

-----------------------------------------------------------------------------
TypeOK ==
    /\ schema \in {1, 2} /\ wanted \in BOOLEAN /\ phase \in {"parsing", "returned", "thrown"}
    /\ rules \subseteq Id
    /\ loaded \in 0..Counters-1 /\ failed \in 0..Counters-1
    /\ \A n \in DOMAIN errors.items :
          errors.items[n].key \in Error \cup {Duplicate} /\ errors.items[n].ids.items \in Seq(Id)
    /\ DOMAIN cache \subseteq Error \cup {Duplicate}
    /\ read \in 0..MaxEntries

(* No object is written beyond what was allocated for its container: whether *)
(* it is made longer is told from its length only, and the arrays of ids are *)
(* themselves moved when the map of errors is made longer; the places that   *)
(* error_obj_cache remembers stay in the map (ddwaf_object_insert).          *)
RoomForAll ==
    /\ Fits(errors)
    /\ \A n \in DOMAIN errors.items : Fits(errors.items[n].ids)
    /\ \A e \in DOMAIN cache : cache[e] < Len(errors.items)

(* Every entry that was read is counted once, as loaded or as failed, up to  *)
(* the width of the counters, and the rules counted as loaded are those of   *)
(* the ruleset; nothing is counted without info (parseRule, parse_rules).    *)
EveryEntryCounted ==
    IF wanted THEN /\ (loaded + failed) % Counters = read % Counters
                   /\ loaded = Cardinality(rules) % Counters
    ELSE loaded = 0 /\ failed = 0

\* The first n rules that failed, but for those with another error.
RaisedFor(error, n) == {m \in 1..n : raised[m].error = error}

(* The errors are a map from an error to the ids of all the rules for which  *)
(* it was raised, in the order of the document: no error comes twice, and no *)
(* id is filed under another error (ddwaf.h:181, ruleset_info::insert_error).*)
ErrorsTellAll ==
    LET keys == [k \in DOMAIN errors.items |-> errors.items[k].key]
    IN IF wanted THEN /\ IsInjective(keys)
                      /\ Range(keys) = {raised[n].error : n \in DOMAIN raised}
                      /\ \A k \in DOMAIN keys :
                            LET ids == errors.items[k].ids.items IN
                            /\ Len(ids) = Cardinality(RaisedFor(keys[k], Len(raised)))
                            /\ \A n \in RaisedFor(keys[k], Len(raised)) :
                                  ids[Cardinality(RaisedFor(keys[k], n))] = raised[n].id
       ELSE errors = Empty

(* ddwaf.h:179 says of failed: "Number of rules which failed to parse".      *)
FailedIsExact == wanted /\ phase = "returned" => failed = read - Cardinality(rules)
=============================================================================
