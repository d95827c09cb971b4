---------------------------- MODULE ObjectStore ----------------------------
(***************************************************************************)
(* The object store of a context (object_store.hpp, object_store.cpp): the *)
(* parameters received by every call of ddwaf_run, addressed by the        *)
(* targets of the ruleset's manifest, and their ownership.                 *)
(*                                                                         *)
(* A parameter is identified by the call that supplied it, its target and  *)
(* its value, which stands for the pointer the code keeps: two calls never *)
(* supply the same object.  The manifest of a published ruleset does not   *)
(* change, so a target is named by its address.                            *)
(***************************************************************************)
EXTENDS Naturals, Sequences

CONSTANTS
    Target,        \* addresses known to the manifest
    Value,         \* values a parameter may hold
    NoObject,      \* the null pointer
    Params,        \* the maps a caller may pass, see ParamsAssumption
    FreesObjects,  \* whether ddwaf_config carries a free function
    MaxRuns        \* bound: calls of ddwaf_run in a behaviour

\* A valid parameter map: some addresses, each with a value.  An address that
\* the manifest does not know is allowed (and ignored); when a key is repeated
\* the last entry wins, so a map from addresses to values is all that matters.
ASSUME ParamsAssumption ==
    /\ NoObject \notin [run : 1..MaxRuns, target : Target, value : Value]
    /\ \A p \in Params : \A t \in DOMAIN p \cap Target : p[t] \in Value

ASSUME StoreAssumption == MaxRuns \in Nat /\ FreesObjects \in BOOLEAN

Object == [run : 1..MaxRuns, target : Target, value : Value]

VARIABLES
    objects,      \* objects_: the current object of each target
    latestBatch,  \* latest_batch_: the targets supplied by the last call
    owned,        \* objects_to_free_: the calls whose map the store must free
    freed,        \* the calls whose map was given to the free function, in order
    runs          \* calls so far; identifies the map of each call

storeVars == <<objects, latestBatch, owned, freed, runs>>

StoreTypeOK ==
    /\ objects \in [Target -> Object \cup {NoObject}]
    /\ latestBatch \in SUBSET Target
    /\ owned \in Seq(1..MaxRuns)
    /\ freed \in Seq(1..MaxRuns)
    /\ runs \in 0..MaxRuns

StoreInit ==
    /\ objects = [t \in Target |-> NoObject]
    /\ latestBatch = {}
    /\ owned = <<>>
    /\ freed = <<>>
    /\ runs = 0

\* Ownership is taken before the map is examined.
Own == owned' = IF FreesObjects THEN Append(owned, runs + 1) ELSE owned

\* object_store::insert of a valid map: every entry with a known address
\* becomes the current object of its target and belongs to the latest batch.
Insert(p) ==
    /\ runs < MaxRuns
    /\ runs' = runs + 1
    /\ Own
    /\ latestBatch' = DOMAIN p \cap Target
    /\ objects' = [t \in Target |->
                     IF t \in DOMAIN p
                     THEN [run |-> runs + 1, target |-> t, value |-> p[t]]
                     ELSE objects[t]]
    /\ UNCHANGED freed

\* Mutant: ownership is only taken of valid maps.
InsertInvalid_NotOwned ==
    runs < MaxRuns /\ runs' = runs + 1 /\ latestBatch' = {} /\ UNCHANGED <<objects, owned, freed>>

\* object_store::insert of anything but a map, or of a map without an array:
\* the store owns it all the same, and forgets the previous batch.
InsertInvalid ==
    /\ runs < MaxRuns
    /\ runs' = runs + 1
    /\ Own
    /\ latestBatch' = {}
    /\ UNCHANGED <<objects, freed>>

\* object_store::~object_store
FreeAll ==
    /\ freed' = freed \o owned
    /\ owned' = <<>>
    /\ UNCHANGED <<objects, latestBatch, runs>>
=============================================================================
