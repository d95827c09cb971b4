------------------------- MODULE BuilderProperties -------------------------
(***************************************************************************)
(* What the ruleset builder must guarantee: about every ruleset it has     *)
(* published, which contexts may still be using, and about the last one,   *)
(* compared with the documents it comes from.                              *)
(***************************************************************************)
EXTENDS RulesetBuilder

Targets1 == Address \X (Nat \ {0})
Spec1 == [targets : SUBSET Targets1, tags : Tags, data : DataId \cup {NoData}, op : Op]
IsMap(f, D, R(_)) == DOMAIN f \subseteq D /\ \A d \in DOMAIN f : R(f[d])

TypeOK ==
    /\ manifest \in [Address -> 0..MaxUpdates] /\ inserted \in [Address -> 0..MaxUpdates]
    /\ \A a \in Address : manifest[a] \in {0, inserted[a]}
    /\ IsMap(ruleDataIds, DataId, LAMBDA op : op \in Op)
    /\ IsMap(processors, DataId, LAMBDA op : op \in Op)
    /\ IsMap(baseRules, Id, LAMBDA r : r \in Spec1)
    /\ IsMap(overrides, Nat \ {0}, LAMBDA n : n \in OverrideNode)
    /\ \A g \in DOMAIN heap : IsMap(heap[g], Id, LAMBDA r :
         /\ r.spec \in Spec1 /\ r.settings \in [Setting -> Nat])
    /\ \A f \in filters : f.rules \subseteq ((DOMAIN heap) \X Id)
    /\ \A i \in DOMAIN published : published[i].generation \in DOMAIN heap
    /\ result \in {"none", "error", "unchanged", "published"}
    /\ updates \in 0..MaxUpdates

Rules(p) == heap[p.generation]
Used(p) ==
    (UNION {Rules(p)[r].spec.targets : r \in DOMAIN Rules(p)}) \cup UsedByFilters(p.filters)
Known(p) == {a \in Address : p.manifest[a] # 0}
Names(T) == {t[1] : t \in T}

-----------------------------------------------------------------------------
(* Rulesets in use *)

\* "We want to ensure that there are no side-effects on running contexts"
\* (ruleset_builder.cpp): an update, failed or not, changes no ruleset that
\* was published before, nor the rules it shares with it.
NoSideEffects ==
    [][\A i \in DOMAIN published :
         published'[i] = published[i] /\ heap'[published[i].generation] = Rules(published[i])]_vars

\* The filters of a ruleset hold raw pointers to rules: these are rules of
\* that ruleset, neither of an earlier generation nor of a later one.
FiltersPointToOwnRules ==
    \A i \in DOMAIN published : \A f \in published[i].filters :
        f.rules \subseteq {<<published[i].generation, r>> : r \in DOMAIN Rules(published[i])}

\* A scope of tags is about the rules of the last generation that have all of
\* them, however many and in whatever order they come (multi_key_map::multifind).
AskedFor ==
    (UNION {overrides[i].scope.tags : i \in DOMAIN overrides})
      \cup (UNION {f.scope.tags : f \in exclusions})
ScopeMeansAllItsTags ==
    heap # <<>> =>
        LET rules == [r \in DOMAIN Latest(heap) |-> Latest(heap)[r].spec]
        IN  \A tags \in AskedFor : \A keys \in SetToSeqs(Pairs(tags)) :
                MultiFind(RulesByTags(rules), keys)
                  = {r \in DOMAIN rules : Pairs(tags) \subseteq Pairs(rules[r].tags)}

-----------------------------------------------------------------------------
(* As long as no update fails, nor lists exclusions none of which is valid *)

\* The targets of the rules and filters of a ruleset are those its manifest
\* gives to the addresses: the object store finds what the rules look for.
\* "Remove unnecessary targets using all the targets contained within rule
\* conditions, filter conditions and object filters" (ruleset_builder.cpp).
TargetsAlwaysKnown ==
    \A i \in DOMAIN published :
        Used(published[i]) \subseteq Targets(Known(published[i]), published[i].manifest)
TargetsAreKnown == ~failed => TargetsAlwaysKnown

\* No ruleset requires an address that nothing in it uses: "we need to ensure
\* that unused targets are regularly cleaned up" (ruleset_builder.hpp).
AddressesAreUsed ==
    ~failed => \A i \in DOMAIN published : Known(published[i]) \subseteq Names(Used(published[i]))

\* The last ruleset against what a new builder would make of the last value
\* kept of each key, given in a single document.
All1 == [a \in Address |-> 1]
KeptNodes(k) == IF Has(accepted[k]) THEN accepted[k].nodes ELSE <<>>
OnceRules == ParsedRules(KeptNodes("rules"), All1)
OnceOverrides == ValidOverrides(KeptNodes("overrides"))
OnceFilters == ParsedFilters(KeptNodes("exclusions"), All1, RuleAddresses(accepted.rules))

LastPublished == published[Len(published)]
ViewOfRule(spec, settings) == <<Names(spec.targets), spec.tags, spec.data, spec.op, settings>>

\* However the document was cut into updates, the rules, their overrides and
\* what the filters apply to are the same.
AsIfLoadedAtOnce ==
    result = "published" /\ ~failed =>
        LET once == Generation(OnceRules, OnceOverrides)
            now == Rules(LastPublished)
            view(h) == [r \in DOMAIN h |-> ViewOfRule(h[r].spec, h[r].settings)]
        IN  /\ view(now) = view(once)
            /\ {<<f.kind, Names(f.conditions), {p[2] : p \in f.rules}>> : f \in LastPublished.filters}
                 = {<<f.kind, Names(f.conditions), InScope(f.scope, OnceRules)>> : f \in OnceFilters}

-----------------------------------------------------------------------------
(* What depends on how the document was cut into updates *)

\* "This address isn't used by any rule so we skip it" (parser_v2.cpp): the
\* inputs that the filters leave out are those no rule uses.
InputsAreCovered ==
    result = "published" =>
        UNION {Names(f.inputs) : f \in LastPublished.filters}
          = UNION {Names(f.inputs) : f \in OnceFilters}

\* dynamic_processors_ "depends on base_rules_" (ruleset_builder.hpp): the
\* data is held by the operator the rules ask for.
ProcessorsFitRules ==
    result = "published" =>
        \A r \in DOMAIN Rules(LastPublished) :
            LET spec == Rules(LastPublished)[r].spec
                d == spec.data
            IN  d \in DOMAIN LastPublished.processors
                  /\ (\A q \in DOMAIN OnceRules : OnceRules[q].data = d => OnceRules[q].op = spec.op)
                => LastPublished.processors[d] = spec.op
=============================================================================
