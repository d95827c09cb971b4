------------------------------ MODULE Context ------------------------------
(***************************************************************************)
(* A context (context.hpp, context.cpp) and what ddwaf_run does with it:   *)
(* the call stores the new parameters, evaluates the rule filters, then    *)
(* the input filters, then the priority collections and the regular ones,  *)
(* and returns the events found.  What a call learns is kept in caches     *)
(* (rule.cpp, rule_filter.cpp, input_filter.cpp, object_filter.cpp,        *)
(* collection.cpp), so that the next call only looks at new parameters.    *)
(* A deadline may expire wherever the code reads it: the call is then      *)
(* unwound by an exception, the caches keep what they had learnt, and the  *)
(* events that were found are dropped.                                     *)
(*                                                                         *)
(* One behaviour is one context, used as the API requires: one call at a   *)
(* time, destroyed once.  A step is the evaluation of one condition, or    *)
(* the code between two of them.  The containers the code iterates over    *)
(* (filters, collections, rules of a collection, targets of an object      *)
(* filter) are filled from unordered maps: the order is left open.         *)
(***************************************************************************)
EXTENDS ObjectStore, FiniteSets

CONSTANTS
    Rule, RuleFilter, InputFilter, Action, Type,
    None,          \* no owner, or no collection, under evaluation
    Conditions,    \* the conditions of every rule and filter
    RuleType,      \* tag "type" of a rule
    RuleActions,   \* on_match actions of a rule
    Enabled,       \* the rules that are enabled
    FilterRules,   \* the rules an exclusion filter applies to
    FilterTargets, \* the addresses an input filter excludes
    Budgets        \* time budgets a caller may give, see BudgetsAssumption

Filter == RuleFilter \cup InputFilter
Owner == Filter \cup Rule

\* A condition looks at its targets in turn and is met by the first object
\* whose value its processor accepts.  It has no processor when its data id
\* has no data.
Condition == [targets : Seq(Target), accepts : SUBSET Value, processor : BOOLEAN]

ASSUME RulesetAssumption ==
    /\ RuleFilter \cap InputFilter = {} /\ Filter \cap Rule = {}
    /\ None \notin Owner /\ None \notin Type
    /\ Conditions \in [Owner -> Seq(Condition)]
    /\ RuleType \in [Rule -> Type]
    /\ RuleActions \in [Rule -> SUBSET Action]
    /\ Enabled \subseteq Rule
    /\ FilterRules \in [Filter -> SUBSET Rule]
    /\ FilterTargets \in [InputFilter -> SUBSET Target]

\* Every condition of every rule and filter.
Cell == UNION {{<<o, i>> : i \in DOMAIN Conditions[o]} : o \in Owner}

\* "ample" is never exhausted, "short" may be at any point where the code
\* looks at the deadline, "zero" is a timeout argument of 0.
ASSUME BudgetsAssumption == Budgets \subseteq {"zero", "short", "ample"}

VARIABLES
    phase,            \* what the call is doing; "idle" between calls
    todo,             \* filters, or types of collection, not evaluated yet
    coll,             \* type of the collection under evaluation
    rulesTodo,        \* its rules not evaluated yet
    cur,              \* the rule or filter under evaluation
    idx,              \* its next condition
    events,           \* events found by this call
    condCache,        \* cache.conditions of every rule and filter
    cacheResult,      \* cache.result of every rule and filter
    matches,          \* cache.event.matches of every rule
    objCache,         \* cache.object_filter_cache of every input filter
    rulesToExclude,   \* rules_to_exclude_
    objectsToExclude, \* objects_to_exclude_
    collCached,       \* keys of collection_cache_
    collResult,       \* result of a collection_cache
    remaining,        \* remaining_actions of a collection_cache
    seenActions,      \* seen_actions_
    out,              \* what the last call returned
    delivered         \* history: the rules of all the events returned so far

control == <<phase, todo, coll, rulesTodo, cur, idx, events>>
filterVars == <<objCache, rulesToExclude, objectsToExclude>>
ownerVars == <<condCache, cacheResult, matches>>
collVars == <<collCached, collResult, remaining, seenActions>>
outVars == <<out, delivered>>
vars == <<storeVars, control, filterVars, ownerVars, collVars, outVars>>

Event == [rule : Rule, matches : Seq(Object)]
Output == [code : {"ok", "match", "err_invalid_object"}, timeout : BOOLEAN,
           events : Seq(Event), actions : SUBSET Action]
Phase == {"idle", "rule_filters", "input_filters", "priority", "regular", "destroyed"}

TypeOK ==
    /\ StoreTypeOK
    /\ phase \in Phase
    /\ todo \in SUBSET (Filter \cup Type)
    /\ coll \in Type \cup {None}
    /\ rulesTodo \in SUBSET Rule
    /\ cur \in Owner \cup {None}
    /\ idx \in Nat
    /\ events \in Seq(Event)
    /\ condCache \in [Cell -> {"absent", "false", "true"}]
    /\ cacheResult \in [Owner -> BOOLEAN]
    /\ matches \in [Rule -> Seq(Object)]
    /\ objCache \in [InputFilter -> SUBSET Target]
    /\ rulesToExclude \in SUBSET Rule
    /\ objectsToExclude \in [Rule -> SUBSET Object]
    /\ collCached \in SUBSET Type
    /\ collResult \in [Type -> BOOLEAN]
    /\ remaining \in [Type -> SUBSET Action]
    /\ seenActions \in SUBSET Action
    /\ out \in Output
    /\ delivered \in SUBSET Rule

Init ==
    /\ StoreInit
    /\ phase = "idle"
    /\ todo = {} /\ coll = None /\ rulesTodo = {} /\ cur = None /\ idx = 1
    /\ events = <<>>
    /\ condCache = [c \in Cell |-> "absent"]
    /\ cacheResult = [o \in Owner |-> FALSE]
    /\ matches = [r \in Rule |-> <<>>]
    /\ objCache = [f \in InputFilter |-> {}]
    /\ rulesToExclude = {}
    /\ objectsToExclude = [r \in Rule |-> {}]
    /\ collCached = {}
    /\ collResult = [t \in Type |-> FALSE]
    /\ remaining = [t \in Type |-> {}]
    /\ seenActions = {}
    /\ out = [code |-> "ok", timeout |-> FALSE, events |-> <<>>, actions |-> {}]
    /\ delivered = {}

-----------------------------------------------------------------------------
(* Collections: ruleset::insert_rules puts the rules with actions in the   *)
(* priority collection of their type and the others in the regular one.    *)

PriorityRules(t) == {r \in Rule : RuleType[r] = t /\ RuleActions[r] # {}}
RegularRules(t) == {r \in Rule : RuleType[r] = t /\ RuleActions[r] = {}}
PriorityTypes == {RuleType[r] : r \in {q \in Rule : RuleActions[q] # {}}}
RegularTypes == {RuleType[r] : r \in {q \in Rule : RuleActions[q] = {}}}

\* priority_collection::actions_
TypeActions(t) == UNION {RuleActions[r] : r \in PriorityRules(t)}

-----------------------------------------------------------------------------
(* The beginning and the end of a call *)

FirstRun == collCached = {}

\* The output of a call.  Actions are only reported along with events, and
\* are then all the actions seen by the context.
Outcome(timeout, evs) ==
    [code |-> IF evs = <<>> THEN "ok" ELSE "match",
     timeout |-> timeout,
     events |-> evs,
     actions |-> IF evs = <<>> THEN {} ELSE seenActions]

\* A call that does not get to the ruleset.
NoEvaluation == UNCHANGED <<control, filterVars, ownerVars, collVars, delivered>>

RunInvalid ==
    /\ phase = "idle"
    /\ InsertInvalid
    /\ out' = [Outcome(FALSE, <<>>) EXCEPT !.code = "err_invalid_object"]
    /\ NoEvaluation

RunNoBudget(p) ==
    /\ phase = "idle" /\ "zero" \in Budgets
    /\ Insert(p)
    /\ out' = Outcome(TRUE, <<>>)
    /\ NoEvaluation

RunNothingNew(p) ==
    /\ phase = "idle" /\ Budgets # {"zero"}
    /\ Insert(p)
    /\ ~FirstRun /\ latestBatch' = {}
    /\ out' = Outcome(FALSE, <<>>)
    /\ NoEvaluation

RunStart(p) ==
    /\ phase = "idle" /\ Budgets # {"zero"}
    /\ Insert(p)
    /\ FirstRun \/ latestBatch' # {}
    /\ phase' = "rule_filters"
    /\ todo' = RuleFilter
    /\ UNCHANGED <<coll, rulesTodo, cur, idx, events>>
    /\ UNCHANGED <<filterVars, ownerVars, collVars, outVars>>

\* The call returns evs, and with them forgets where it was.
Finish(timeout, evs) ==
    /\ phase' = "idle"
    /\ todo' = {} /\ coll' = None /\ rulesTodo' = {} /\ cur' = None /\ idx' = 1
    /\ events' = <<>>
    /\ out' = Outcome(timeout, evs)
    /\ delivered' = delivered \cup {evs[i].rule : i \in DOMAIN evs}

\* A timeout_exception unwinds the call; the events of match are lost.
Expire == "short" \in Budgets /\ Finish(TRUE, <<>>)

\* Nothing is under evaluation: the code is between two filters, rules or
\* collections.
Between == cur = None

NextPhase ==
    /\ Between /\ coll = None /\ todo = {}
    /\ \/ phase = "rule_filters" /\ phase' = "input_filters" /\ todo' = InputFilter
       \/ phase = "input_filters" /\ phase' = "priority" /\ todo' = PriorityTypes
       \/ phase = "priority" /\ phase' = "regular" /\ todo' = RegularTypes
    /\ UNCHANGED <<coll, rulesTodo, cur, idx, events>>
    /\ UNCHANGED <<storeVars, filterVars, ownerVars, collVars, outVars>>

Return ==
    /\ phase = "regular" /\ Between /\ coll = None /\ todo = {}
    /\ Finish(FALSE, events)
    /\ UNCHANGED <<storeVars, filterVars, ownerVars, collVars>>

\* The deadline is read before every filter and every rule.
ExpireBetween ==
    /\ Between
    /\ \/ phase \in {"rule_filters", "input_filters"} /\ todo # {}
       \/ coll # None /\ rulesTodo # {}
    /\ Expire
    /\ UNCHANGED <<storeVars, filterVars, ownerVars, collVars>>

-----------------------------------------------------------------------------
(* The loop over the conditions, the same in rule::match,                  *)
(* rule_filter::match and input_filter::match.                             *)

CurCondition == Conditions[cur][idx]
InConditions == cur # None /\ idx \in DOMAIN Conditions[cur]

\* Mutant: off by one, the last condition is not evaluated.
AfterConditions_Early == cur # None /\ idx >= Len(Conditions[cur])

AfterConditions == cur # None /\ idx \notin DOMAIN Conditions[cur]

\* Mutant: the objects excluded by input filters are not.
ExcludedFor_None(o) == {}

ExcludedFor(o) == IF o \in Rule THEN objectsToExclude[o] ELSE {}

\* Mutant: after the first call, only new parameters are looked at.
RunOnNew_Always(o, i) == ~FirstRun

\* A condition evaluated before without success only looks at the latest
\* batch.
RunOnNew(o, i) == condCache[<<o, i>>] = "false"

\* The current object of target t meets condition i of o.
Accepts(o, i, t) ==
    /\ objects[t] # NoObject
    /\ objects[t] \notin ExcludedFor(o)
    /\ objects[t].value \in Conditions[o][i].accepts

\* The targets of condition i of o, by their place in it, whose object the
\* evaluation of the condition would stop at.
Meeting(o, i) ==
    LET targets == Conditions[o][i].targets
    IN  {k \in DOMAIN targets :
            /\ RunOnNew(o, i) => targets[k] \in latestBatch
            /\ Accepts(o, i, targets[k])}

SkipCached ==
    /\ InConditions /\ condCache[<<cur, idx>>] = "true"
    /\ idx' = idx + 1
    /\ UNCHANGED <<phase, todo, coll, rulesTodo, cur, events>>
    /\ UNCHANGED <<storeVars, filterVars, ownerVars, collVars, outVars>>

ConditionMatches ==
    /\ InConditions /\ condCache[<<cur, idx>>] # "true"
    /\ CurCondition.processor
    /\ \E k \in Meeting(cur, idx) :
         /\ \A j \in Meeting(cur, idx) : k <= j
         /\ matches' = IF cur \in Rule
                       THEN [matches EXCEPT ![cur] = Append(@, objects[CurCondition.targets[k]])]
                       ELSE matches
    /\ condCache' = [condCache EXCEPT ![<<cur, idx>>] = "true"]
    /\ idx' = idx + 1
    /\ UNCHANGED <<phase, todo, coll, rulesTodo, cur, events, cacheResult>>
    /\ UNCHANGED <<storeVars, filterVars, collVars, outVars>>

\* Mutant: a failed condition does not end the evaluation.
LeaveOwner_GoOn == UNCHANGED cur /\ idx' = idx + 1

\* Mutant: a failed condition is evaluated again.
LeaveOwner_Retry == UNCHANGED cur /\ idx' = 1

\* The owner under evaluation is left for the next one.
LeaveOwner == cur' = None /\ idx' = 1

ConditionFails ==
    /\ InConditions /\ condCache[<<cur, idx>>] # "true"
    /\ CurCondition.processor => Meeting(cur, idx) = {}
    /\ condCache' = [condCache EXCEPT ![<<cur, idx>>] = "false"]
    /\ LeaveOwner
    /\ UNCHANGED <<phase, todo, coll, rulesTodo, events, cacheResult, matches>>
    /\ UNCHANGED <<storeVars, filterVars, collVars, outVars>>

\* The deadline is read before every target, and before every value inside
\* it; by then the condition is in the cache as false.
ExpireInCondition ==
    /\ InConditions /\ condCache[<<cur, idx>>] # "true"
    /\ CurCondition.processor /\ CurCondition.targets # <<>>
    /\ condCache' = [condCache EXCEPT ![<<cur, idx>>] = "false"]
    /\ Expire
    /\ UNCHANGED <<cacheResult, matches, storeVars, filterVars, collVars>>

-----------------------------------------------------------------------------
(* context::filter_rules *)

StartRuleFilter(f) ==
    /\ phase = "rule_filters" /\ Between /\ f \in todo
    /\ todo' = todo \ {f}
    /\ cur' = IF cacheResult[f] THEN None ELSE f
    /\ UNCHANGED <<phase, coll, rulesTodo, idx, events>>
    /\ UNCHANGED <<storeVars, filterVars, ownerVars, collVars, outVars>>

RuleFilterMatches ==
    /\ cur \in RuleFilter /\ AfterConditions
    /\ cacheResult' = [cacheResult EXCEPT ![cur] = TRUE]
    /\ rulesToExclude' = rulesToExclude \cup FilterRules[cur]
    /\ LeaveOwner
    /\ UNCHANGED <<phase, todo, coll, rulesTodo, events, objCache, objectsToExclude>>
    /\ UNCHANGED <<storeVars, condCache, matches, collVars, outVars>>

-----------------------------------------------------------------------------
(* context::filter_inputs *)

\* A filter whose conditions were met by an earlier call goes straight to its
\* objects.
StartInputFilter(f) ==
    /\ phase = "input_filters" /\ Between /\ f \in todo
    /\ todo' = todo \ {f}
    /\ cur' = f
    /\ idx' = IF cacheResult[f] THEN Len(Conditions[f]) + 1 ELSE 1
    /\ UNCHANGED <<phase, coll, rulesTodo, events>>
    /\ UNCHANGED <<storeVars, filterVars, ownerVars, collVars, outVars>>

\* The targets of object_filter::match that have an object and were not
\* filtered by an earlier call.
Fresh(f) == {t \in FilterTargets[f] : t \notin objCache[f] /\ objects[t] # NoObject}

InputFilterMatches ==
    /\ cur \in InputFilter /\ AfterConditions
    /\ cacheResult' = [cacheResult EXCEPT ![cur] = TRUE]
    /\ objCache' = [objCache EXCEPT ![cur] = @ \cup Fresh(cur)]
    /\ objectsToExclude' = [r \in Rule |->
         IF r \in FilterRules[cur] \ rulesToExclude
         THEN objectsToExclude[r] \cup {objects[t] : t \in Fresh(cur)}
         ELSE objectsToExclude[r]]
    /\ LeaveOwner
    /\ UNCHANGED <<phase, todo, coll, rulesTodo, events, rulesToExclude>>
    /\ UNCHANGED <<storeVars, condCache, matches, collVars, outVars>>

\* The deadline is read before every target: those filtered so far stay in
\* the cache of the object filter, but their objects are not excluded.
ExpireInObjectFilter ==
    /\ cur \in InputFilter /\ AfterConditions
    /\ cacheResult' = [cacheResult EXCEPT ![cur] = TRUE]
    /\ \E done \in SUBSET FilterTargets[cur] :
         /\ done # FilterTargets[cur]
         /\ objCache' = [objCache EXCEPT ![cur] = @ \cup (done \cap Fresh(cur))]
    /\ Expire
    /\ UNCHANGED <<rulesToExclude, objectsToExclude>>
    /\ UNCHANGED <<storeVars, condCache, matches, collVars>>

-----------------------------------------------------------------------------
(* context::match, collection::match and priority_collection::match *)

\* Evaluation of the collection of type t, of which left is what remains of
\* the actions.  In the priority phase a collection with actions left is
\* evaluated whatever it found before; any other stops at the first event of
\* its type, found by this call or an earlier one.
Enter(t, left, rules) ==
    /\ Between /\ coll = None /\ t \in todo
    /\ todo' = todo \ {t}
    /\ collCached' = collCached \cup {t}
    /\ remaining' = [remaining EXCEPT ![t] = left]
    /\ IF collResult[t] /\ ~(phase = "priority" /\ left # {})
       THEN UNCHANGED <<coll, rulesTodo>>
       ELSE coll' = t /\ rulesTodo' = rules
    /\ UNCHANGED <<phase, cur, idx, events, collResult, seenActions>>
    /\ UNCHANGED <<storeVars, filterVars, ownerVars, outVars>>

\* Mutant: a priority collection creates the cache of a regular one.
EnterPriority_NoActions(t) ==
    phase = "priority"
      /\ Enter(t, (IF t \in collCached THEN remaining[t] ELSE {}) \ seenActions, PriorityRules(t))

\* The actions seen through other collections are no longer remaining.
EnterPriority(t) ==
    /\ phase = "priority"
    /\ Enter(t, (IF t \in collCached THEN remaining[t] ELSE TypeActions(t)) \ seenActions,
             PriorityRules(t))

\* The cache of a regular collection is created without remaining actions,
\* or shared with the priority collection of the same type.
EnterRegular(t) ==
    /\ phase = "regular"
    /\ Enter(t, IF t \in collCached THEN remaining[t] ELSE {}, RegularRules(t))

\* Mutant: the result of a rule is not looked at.
Evaluable_Again(r) == r \in Enabled \ rulesToExclude

\* Mutant: the rules excluded by rule filters are not.
Evaluable_Excluded(r) == r \in Enabled /\ ~cacheResult[r]

\* match_rule: a rule that is disabled, excluded or has already produced its
\* event is not evaluated.
Evaluable(r) == r \in Enabled \ rulesToExclude /\ ~cacheResult[r]

StartRule(r) ==
    /\ Between /\ coll # None /\ r \in rulesTodo
    /\ rulesTodo' = rulesTodo \ {r}
    /\ cur' = IF Evaluable(r) THEN r ELSE None
    /\ UNCHANGED <<phase, todo, coll, idx, events>>
    /\ UNCHANGED <<storeVars, filterVars, ownerVars, collVars, outVars>>

\* Mutant: every collection starts from no events.
LeaveCollection_DropEvents ==
    /\ Between /\ coll # None /\ rulesTodo = {} /\ coll' = None /\ events' = <<>>
    /\ UNCHANGED <<phase, todo, rulesTodo, cur, idx>>
    /\ UNCHANGED <<storeVars, filterVars, ownerVars, collVars, outVars>>

\* The rules of the collection are exhausted.
LeaveCollection ==
    /\ Between /\ coll # None /\ rulesTodo = {}
    /\ coll' = None
    /\ UNCHANGED <<phase, todo, rulesTodo, cur, idx, events>>
    /\ UNCHANGED <<storeVars, filterVars, ownerVars, collVars, outVars>>

PriorityMode == phase = "priority" /\ remaining[coll] # {}

\* All the conditions of a rule are met: its event, which takes the matches
\* out of the cache, is added to those of the call.
RuleMatches ==
    /\ cur \in Rule /\ AfterConditions
    /\ cacheResult' = [cacheResult EXCEPT ![cur] = TRUE]
    /\ events' = Append(events, [rule |-> cur, matches |-> matches[cur]])
    /\ matches' = [matches EXCEPT ![cur] = <<>>]
    /\ collResult' = [collResult EXCEPT ![coll] = TRUE]
    /\ LET found == RuleActions[cur] \cap remaining[coll]
           left == remaining[coll] \ found
       IN  IF PriorityMode
           THEN /\ remaining' = [remaining EXCEPT ![coll] = left]
                /\ seenActions' = seenActions \cup found
                /\ IF left = {}
                   THEN coll' = None /\ rulesTodo' = {}
                   ELSE UNCHANGED <<coll, rulesTodo>>
           ELSE /\ coll' = None /\ rulesTodo' = {}
                /\ UNCHANGED <<remaining, seenActions>>
    /\ LeaveOwner
    /\ UNCHANGED <<phase, todo, condCache, collCached>>
    /\ UNCHANGED <<storeVars, filterVars, outVars>>

-----------------------------------------------------------------------------

\* ddwaf_context_destroy, between two calls.
Destroy ==
    /\ phase = "idle"
    /\ FreeAll
    /\ phase' = "destroyed"
    /\ UNCHANGED <<todo, coll, rulesTodo, cur, idx, events>>
    /\ UNCHANGED <<filterVars, ownerVars, collVars, outVars>>

Run ==
    \/ RunInvalid
    \/ \E p \in Params : RunNoBudget(p) \/ RunNothingNew(p) \/ RunStart(p)

\* The steps of a call in progress.
Step ==
    \/ NextPhase \/ Return
    \/ SkipCached \/ ConditionMatches \/ ConditionFails
    \/ \E f \in RuleFilter : StartRuleFilter(f)
    \/ RuleFilterMatches
    \/ \E f \in InputFilter : StartInputFilter(f)
    \/ InputFilterMatches
    \/ \E t \in Type : EnterPriority(t) \/ EnterRegular(t)
    \/ \E r \in Rule : StartRule(r)
    \/ RuleMatches \/ LeaveCollection
    \/ ExpireBetween \/ ExpireInCondition \/ ExpireInObjectFilter

Next == Run \/ Step \/ Destroy

Spec == Init /\ [][Next]_vars

\* A call runs on the caller's thread, without waiting for anything: as long
\* as it is not over it takes a step.  Nothing makes a caller call.
FairSpec == Spec /\ WF_vars(Step)
=============================================================================
