--------------------------- MODULE RulesetBuilder ---------------------------
(***************************************************************************)
(* The ruleset builder (ruleset_builder.hpp, ruleset_builder.cpp), with    *)
(* the manifest (manifest.cpp) and the parsers it calls (parser_v2.cpp):   *)
(* ddwaf_init and ddwaf_update give it documents, of which it keeps the    *)
(* valid parts, and it publishes a ruleset for each document that changed  *)
(* something.  Updates are never concurrent (UPGRADING.md, notes on        *)
(* thread-safety), so a document is loaded in one step.  What matters are  *)
(* the documents that fail half-way, and the rulesets published before,    *)
(* which contexts go on using.                                             *)
(*                                                                         *)
(* A key of a document is an array of nodes.  A node that does not parse   *)
(* is skipped, but the addresses it named before the error stay in the     *)
(* manifest.  A key that is no array, or (in any key but rules_data) an    *)
(* array in which something is no map, is broken: the update is abandoned  *)
(* with an exception once the nodes before have been parsed.               *)
(***************************************************************************)
EXTENDS Naturals, FiniteSets, MultiKeyMap

CONSTANTS
    Address, Id, DataId,
    NoData,        \* data id of a condition whose operator carries its data
    Absent,        \* the value of a key the document does not have
    Corpora,       \* the values the keys of the documents of a behaviour may
                   \* take, see CorpusAssumption
    MaxUpdates     \* bound: documents loaded in a behaviour

Op == {"ip_match", "exact_match"}

\* Which rules an override or a filter is about: each target is an id, or tags
\* that a rule must all have.
Scope == [ids : SUBSET Id, tags : SUBSET (Tags \ {<<>>})]

\* Something of a rule that an override may replace: its flag "enabled", its
\* list of actions.
Setting == {"enabled", "actions"}

RuleNode == [id : Id, valid : BOOLEAN, targets : SUBSET Address, tags : Tags,
             data : DataId \cup {NoData}, op : Op]
DataNode == [id : DataId, type : {"ip_with_expiration", "data_with_expiration", "other"}]
OverrideNode == [valid : BOOLEAN, by : {"ids", "tags"}, scope : Scope, sets : SUBSET Setting]
FilterNode == [id : Id, valid : BOOLEAN, kind : {"rule", "input"}, scope : Scope,
               conditions : SUBSET Address, inputs : SUBSET Address]

Key(Node) == [nodes : Seq(Node), broken : BOOLEAN]

ASSUME CorpusAssumption ==
    /\ \A c \in Corpora :
          /\ c.rules \ {Absent} \subseteq Key(RuleNode)
          /\ c.data \ {Absent} \subseteq Key(DataNode)
          /\ c.overrides \ {Absent} \subseteq Key(OverrideNode)
          /\ c.exclusions \ {Absent} \subseteq Key(FilterNode)
    /\ NoData \notin DataId
    /\ MaxUpdates \in Nat

Document(c) == [rules : c.rules, data : c.data, overrides : c.overrides, exclusions : c.exclusions]

VARIABLES
    manifest,     \* target_manifest_: the target of each address, 0 if none
    inserted,     \* how many targets each address has been given (index_)
    ruleDataIds,  \* rule_data_ids_: the operator of each data id the rules use
    baseRules,    \* base_rules_: the specification of each rule
    processors,   \* dynamic_processors_: the operator built for each data id
    overrides,    \* overrides_: those of the last array kept, by their place in it
    exclusions,   \* exclusions_
    heap,         \* the rule objects, by generation; final_rules_ is the last
    filters,      \* rule_filters_ and input_filters_
    published,    \* the rulesets published so far
    result,       \* outcome of the last update
    updates,      \* documents loaded so far
    corpus,       \* the documents of this behaviour
    accepted,     \* history: the last value kept of each key
    failed        \* history: an update failed, or listed exclusions none of
                  \* which is valid

builtVars == <<heap, filters, published>>
vars == <<manifest, inserted, ruleDataIds, baseRules, processors, overrides, exclusions,
          builtVars, result, updates, corpus, accepted, failed>>

Nothing == [i \in {} |-> i]

Init ==
    /\ manifest = [a \in Address |-> 0]
    /\ inserted = [a \in Address |-> 0]
    /\ ruleDataIds = Nothing /\ baseRules = Nothing /\ processors = Nothing
    /\ overrides = Nothing /\ exclusions = {}
    /\ heap = <<>> /\ filters = {} /\ published = <<>>
    /\ result = "none" /\ updates = 0
    /\ corpus \in Corpora /\ failed = FALSE
    /\ accepted = [rules |-> Absent, data |-> Absent, overrides |-> Absent,
                   exclusions |-> Absent]

-----------------------------------------------------------------------------
(* Parsing *)

Has(key) == key # Absent
Breaks(key) == Has(key) /\ key.broken

\* Nodes of rules or exclusions: one whose id has been parsed before is a
\* duplicate and is not even tried.
Tried(nodes) ==
    {i \in DOMAIN nodes : \A j \in 1..(i - 1) : nodes[j].valid => nodes[j].id # nodes[i].id}
Parsed(nodes) == {i \in Tried(nodes) : nodes[i].valid}

\* The addresses that parsing inserts in the manifest.
RuleAddresses(key) ==
    IF Has(key) THEN UNION {key.nodes[i].targets : i \in Tried(key.nodes)} ELSE {}
FilterAddresses(key) ==
    IF Has(key) THEN UNION {key.nodes[i].conditions : i \in Tried(key.nodes)} ELSE {}

\* manifest::insert of the addresses A.  A target is the address and how many
\* times it was given one, as good as a number that is never used twice.
New(A) == {a \in A : manifest[a] = 0}
Extended(A) == [a \in Address |-> IF a \in New(A) THEN inserted[a] + 1 ELSE manifest[a]]
Count(A) == inserted' = [a \in Address |-> IF a \in New(A) THEN inserted[a] + 1 ELSE inserted[a]]
Targets(A, m) == {<<a, m[a]>> : a \in A}

\* parse_rules; the operator of a data id is that of the first rule to use it.
ParsedRules(nodes, m) ==
    [r \in {nodes[i].id : i \in Parsed(nodes)} |->
        LET n == nodes[Min({i \in Parsed(nodes) : nodes[i].id = r})]
        IN  [targets |-> Targets(n.targets, m), tags |-> n.tags, data |-> n.data, op |-> n.op]]

ParsedDataIds(nodes) ==
    LET uses(d) == {i \in Tried(nodes) : nodes[i].data = d}
    IN  [d \in {e \in DataId : uses(e) # {}} |-> nodes[Min(uses(d))].op]

\* parse_rule_data: the operator is that of the rules, or inferred from the
\* type of the data; a repeated id is ignored.
ParsedData(nodes, ids) ==
    LET usable(d) == {i \in DOMAIN nodes : nodes[i].id = d
                        /\ (d \in DOMAIN ids \/ nodes[i].type # "other")}
        inferred(type) == IF type = "ip_with_expiration" THEN "ip_match" ELSE "exact_match"
    IN  [d \in {e \in DataId : usable(e) # {}} |->
            IF d \in DOMAIN ids THEN ids[d] ELSE inferred(nodes[Min(usable(d))].type)]

\* parse_filters.  The conditions of a filter insert their addresses; its
\* inputs are only kept when their address is already known.
ParsedFilters(nodes, m, known) ==
    {LET n == nodes[i]
         seen == known \cup (UNION {nodes[j].conditions : j \in {k \in Tried(nodes) : k <= i}})
     IN  [kind |-> n.kind, scope |-> n.scope, conditions |-> Targets(n.conditions, m),
          inputs |-> IF n.kind = "input" THEN Targets(n.inputs \cap seen, m) ELSE {}]
     : i \in Parsed(nodes)}

-----------------------------------------------------------------------------
(* ruleset_builder::load.  A key is kept as soon as it is parsed, before    *)
(* the next one is looked at.                                               *)

SomeValid(nodes) == nodes = <<>> \/ \E i \in DOMAIN nodes : nodes[i].valid

RulesFail(u) ==
    IF Has(u.rules) THEN u.rules.broken \/ Parsed(u.rules.nodes) = {} ELSE baseRules = Nothing

KeepRules(u) ==
    IF Has(u.rules)
    THEN /\ baseRules' = ParsedRules(u.rules.nodes, Extended(RuleAddresses(u.rules)))
         /\ ruleDataIds' = ParsedDataIds(u.rules.nodes)
    ELSE UNCHANGED <<baseRules, ruleDataIds>>

KeepData(u) ==
    IF Has(u.data) THEN processors' = ParsedData(u.data.nodes, ruleDataIds')
                   ELSE UNCHANGED processors

\* parse_overrides: the valid ones, in their order, told apart by their place.
ValidOverrides(nodes) == Restrict(nodes, {i \in DOMAIN nodes : nodes[i].valid})

\* An empty array reverts the feature; one without a valid node is ignored.
ChangesOverrides(u) == Has(u.overrides) /\ SomeValid(u.overrides.nodes)
KeepOverrides(u) ==
    overrides' = IF ChangesOverrides(u) THEN ValidOverrides(u.overrides.nodes) ELSE overrides

ChangesFilters(u) == Has(u.exclusions) /\ SomeValid(u.exclusions.nodes)
KeepFilters(u) ==
    LET named == RuleAddresses(u.rules)
        m == Extended(named \cup FilterAddresses(u.exclusions))
        known == named \cup {a \in Address : manifest[a] # 0}
    IN  exclusions' = IF ChangesFilters(u)
                      THEN ParsedFilters(u.exclusions.nodes, m, known) ELSE exclusions

Accept(u, keys) ==
    accepted' = [k \in DOMAIN accepted |->
        IF /\ k \in keys /\ Has(u[k])
           /\ k \in {"overrides", "exclusions"} => SomeValid(u[k].nodes)
        THEN u[k] ELSE accepted[k]]

-----------------------------------------------------------------------------
(* ruleset_builder::build *)

\* target_to_rules: the rules of a generation that a scope is about.  Only the
\* scope of a filter may be empty, and then it is about all of them.
RulesByTags(rules) ==
    FoldSet(LAMBDA r, data : Insert(r, rules[r].tags, data), Cleared, DOMAIN rules)
InScope(scope, rules) ==
    IF scope.ids = {} /\ scope.tags = {} THEN DOMAIN rules
    ELSE (scope.ids \cap DOMAIN rules)
         \cup UNION {MultiFind(RulesByTags(rules), SetToSeq(Pairs(tags))) : tags \in scope.tags}

\* The override that decides setting s of rule r (0 if none does): the last
\* one by id, else the last one by tag.
Decides(s, r, rules, ovrds) ==
    LET by(how) == {i \in DOMAIN ovrds : /\ ovrds[i].by = how
                                         /\ s \in ovrds[i].sets
                                         /\ r \in InScope(ovrds[i].scope, rules)}
    IN  IF by("ids") # {} THEN Max(by("ids"))
        ELSE IF by("tags") # {} THEN Max(by("tags")) ELSE 0

\* New rule objects, from the base rules and the overrides.
Generation(base, ovrds) ==
    [r \in DOMAIN base |->
        [spec |-> base[r], settings |-> [s \in Setting |-> Decides(s, r, base, ovrds)]]]

\* Mutant: the overrides are applied to the rules in use.
Regenerate_InPlace(u) ==
    IF Has(u.rules) THEN heap' = Append(heap, Generation(baseRules', overrides'))
    ELSE heap' = [heap EXCEPT ![Len(heap)] = Generation(baseRules', overrides')]

\* Mutant: new rules are not overridden by the overrides received before.
Regenerate_Forgets(u) ==
    IF Has(u.rules) \/ ChangesOverrides(u)
    THEN heap' = Append(heap, Generation(baseRules', IF ChangesOverrides(u) THEN overrides' ELSE Nothing))
    ELSE UNCHANGED heap

Regenerate(u) ==
    IF Has(u.rules) \/ ChangesOverrides(u)
    THEN heap' = Append(heap, Generation(baseRules', overrides'))
    ELSE UNCHANGED heap

\* The filters hold pointers to the rules of the last generation.
Latest(h) == h[Len(h)]
Built(f, h) ==
    [kind |-> f.kind, conditions |-> f.conditions, inputs |-> f.inputs,
     rules |-> {<<Len(h), r>> : r \in InScope(f.scope, [r \in DOMAIN Latest(h) |-> Latest(h)[r].spec])}]

\* Mutant: the filters are only built when they change.
RebuildFilters_OnChange(u) ==
    IF ChangesFilters(u) THEN filters' = {Built(f, heap') : f \in exclusions'} ELSE UNCHANGED filters

RebuildFilters(u) ==
    IF Has(u.rules) \/ ChangesOverrides(u) \/ ChangesFilters(u)
    THEN filters' = {Built(f, heap') : f \in exclusions'}
    ELSE UNCHANGED filters

\* targets_from_rules_ and targets_from_filters_
UsedByRules(h) == UNION {Latest(h)[r].spec.targets : r \in DOMAIN Latest(h)}
UsedByFilters(F) == UNION {f.conditions \cup f.inputs : f \in F}

\* manifest::remove_unused
Pruned(m, used) == [a \in Address |-> IF <<a, m[a]>> \in used THEN m[a] ELSE 0]

\* Mutant: the targets of the filters are not needed.
CleanManifest_ByRules(u, m) ==
    manifest' = IF Has(u.rules) \/ ChangesFilters(u) THEN Pruned(m, UsedByRules(heap')) ELSE m

\* Mutant: only new rules make addresses unnecessary.
CleanManifest_OnRules(u, m) ==
    manifest' = IF Has(u.rules)
                THEN Pruned(m, UsedByRules(heap') \cup UsedByFilters(filters')) ELSE m

CleanManifest(u, m) ==
    manifest' = IF Has(u.rules) \/ ChangesFilters(u)
                THEN Pruned(m, UsedByRules(heap') \cup UsedByFilters(filters')) ELSE m

Changes(u) == Has(u.rules) \/ Has(u.data) \/ ChangesOverrides(u) \/ ChangesFilters(u)

-----------------------------------------------------------------------------
(* ddwaf_init (while nothing is published) and ddwaf_update *)

Load == updates < MaxUpdates /\ updates' = updates + 1 /\ UNCHANGED corpus

InvalidFilters(u) == Has(u.exclusions) /\ ~SomeValid(u.exclusions.nodes)

\* The update is abandoned with an exception: what was kept before remains.
Abandon(A) ==
    /\ Load /\ published # <<>>
    /\ manifest' = Extended(A) /\ Count(A)
    /\ result' = "error" /\ failed' = TRUE
    /\ UNCHANGED builtVars

FailInRules(u) ==
    /\ RulesFail(u)
    /\ Abandon(RuleAddresses(u.rules))
    /\ UNCHANGED <<baseRules, ruleDataIds, processors, overrides, exclusions, accepted>>

FailInData(u) ==
    /\ ~RulesFail(u) /\ Breaks(u.data)
    /\ Abandon(RuleAddresses(u.rules))
    /\ KeepRules(u) /\ Accept(u, {"rules"})
    /\ UNCHANGED <<processors, overrides, exclusions>>

FailInOverrides(u) ==
    /\ ~RulesFail(u) /\ ~Breaks(u.data) /\ Breaks(u.overrides)
    /\ Abandon(RuleAddresses(u.rules))
    /\ KeepRules(u) /\ KeepData(u) /\ Accept(u, {"rules", "data"})
    /\ UNCHANGED <<overrides, exclusions>>

FailInExclusions(u) ==
    /\ ~RulesFail(u) /\ ~Breaks(u.data) /\ ~Breaks(u.overrides) /\ Breaks(u.exclusions)
    /\ Abandon(RuleAddresses(u.rules) \cup FilterAddresses(u.exclusions))
    /\ KeepRules(u) /\ KeepData(u) /\ KeepOverrides(u)
    /\ Accept(u, {"rules", "data", "overrides"})
    /\ UNCHANGED exclusions

Fails(u) == RulesFail(u) \/ Breaks(u.data) \/ Breaks(u.overrides) \/ Breaks(u.exclusions)

\* ddwaf_init fails: there is no handle, and its builder is gone.
NoHandle(u) ==
    /\ Load /\ published = <<>> /\ Fails(u)
    /\ result' = "error"
    /\ UNCHANGED <<manifest, inserted, ruleDataIds, baseRules, processors, overrides,
                   exclusions, builtVars, accepted, failed>>

\* Nothing changed, and nothing is published.
Ignore(u) ==
    /\ Load /\ ~Fails(u) /\ ~Changes(u)
    /\ LET A == FilterAddresses(u.exclusions)
       IN  manifest' = Extended(A) /\ Count(A)
    /\ result' = "unchanged" /\ failed' = (failed \/ InvalidFilters(u))
    /\ UNCHANGED <<ruleDataIds, baseRules, processors, overrides, exclusions, builtVars, accepted>>

Publish(u) ==
    /\ Load /\ ~Fails(u) /\ Changes(u)
    /\ KeepRules(u) /\ KeepData(u) /\ KeepOverrides(u) /\ KeepFilters(u)
    /\ Accept(u, DOMAIN accepted)
    /\ Regenerate(u) /\ RebuildFilters(u)
    /\ LET A == RuleAddresses(u.rules) \cup FilterAddresses(u.exclusions)
       IN  CleanManifest(u, Extended(A)) /\ Count(A)
    /\ published' = Append(published,
         [manifest |-> manifest', generation |-> Len(heap'), processors |-> processors',
          filters |-> filters'])
    /\ result' = "published" /\ failed' = (failed \/ InvalidFilters(u))

Next ==
    \E u \in Document(corpus) :
        \/ FailInRules(u) \/ FailInData(u) \/ FailInOverrides(u) \/ FailInExclusions(u)
        \/ NoHandle(u) \/ Ignore(u) \/ Publish(u)

Spec == Init /\ [][Next]_vars
=============================================================================
