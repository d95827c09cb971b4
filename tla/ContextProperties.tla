------------------------- MODULE ContextProperties -------------------------
(***************************************************************************)
(* What a context must guarantee.  The first group holds whatever the time *)
(* budgets, the second as long as no call runs out of time, and the third  *)
(* is what the interface documents and the code does not do.               *)
(***************************************************************************)
EXTENDS Context

Idle == phase = "idle"

-----------------------------------------------------------------------------
(* Whatever the budgets *)

\* Conditions are resolved in order: the cache of an owner holds true up to
\* some condition, possibly false for the next one, and nothing after; there
\* is a match for each condition that is true, until the event takes them.
CacheOf(o) == [i \in DOMAIN Conditions[o] |-> condCache[<<o, i>>]]
Resolved(o) == {i \in DOMAIN Conditions[o] : condCache[<<o, i>>] = "true"}

CachesAreOrdered ==
    \A o \in Owner :
        /\ \A i, j \in DOMAIN Conditions[o] :
             i < j /\ CacheOf(o)[i] # "true" => CacheOf(o)[j] = "absent"
        /\ cacheResult[o] => Resolved(o) = DOMAIN Conditions[o]
        /\ o \in Rule =>
             Len(matches[o]) = IF cacheResult[o] THEN 0 ELSE Cardinality(Resolved(o))

\* An event carries one match per condition of its rule, in the order of the
\* conditions, each found by this call or an earlier one in an object that
\* really meets the condition, although calls in between may have replaced
\* the object or have run out of time half-way.
MatchesRule(e) ==
    /\ Len(e.matches) = Len(Conditions[e.rule])
    /\ \A i \in DOMAIN e.matches :
         /\ \E k \in DOMAIN Conditions[e.rule][i].targets :
              e.matches[i].target = Conditions[e.rule][i].targets[k]
         /\ e.matches[i].value \in Conditions[e.rule][i].accepts

EventsAreComplete ==
    /\ \A i \in DOMAIN events : MatchesRule(events[i])
    /\ \A i \in DOMAIN out.events : MatchesRule(out.events[i])

\* The actions a context has seen are exactly those of the rules that have
\* matched, although a collection only adds those it had remaining, types
\* share actions, and a collection with nothing remaining adds none.
Matched == {r \in Rule : cacheResult[r]}
ActionsAreExact == seenActions = UNION {RuleActions[r] : r \in Matched}

\* The reports of a context are those the collections promise.
Reported == INSTANCE EventReport
    WITH report <- [i \in DOMAIN out.events |-> out.events[i].rule]
ReportPromise == Reported!Spec

\* Every map handed to ddwaf_run is freed exactly once, when the context is
\* destroyed, also those the store refused or never evaluated.
OwnedMapsAreFreed ==
    phase = "destroyed" => freed = IF FreesObjects THEN [n \in 1..runs |-> n] ELSE <<>>

\* A call that has begun returns.
RunReturns == (phase \notin {"idle", "destroyed"}) ~> Idle

-----------------------------------------------------------------------------
(* As long as no call runs out of time *)

\* The collection of rule r will produce no event any more.
Stopped(r) ==
    /\ collResult[RuleType[r]]
    /\ RuleActions[r] = {} \/ TypeActions(RuleType[r]) \subseteq seenActions

\* Rules and filters still waiting for a condition.
Waiting ==
    {f \in Filter : ~cacheResult[f]}
      \cup {r \in Enabled \ rulesToExclude : ~cacheResult[r] /\ ~Stopped(r)}

\* The targets of condition i of o whose object, of whatever call, meets it.
Accepted(o, i) ==
    {k \in DOMAIN Conditions[o][i].targets :
        Conditions[o][i].processor /\ Accepts(o, i, Conditions[o][i].targets[k])}

\* "It will also ensure that parameters are taken into account across runs"
\* (ddwaf.h, ddwaf_run): when a call has returned without a timeout, no object
\* of the store meets the condition that a rule or a filter is waiting for,
\* although the call only looked at the latest batch, or at nothing.
ParametersTakenIntoAccount ==
    Idle /\ ~FirstRun /\ ~out.timeout =>
        \A o \in Waiting : \E i \in DOMAIN Conditions[o] :
            /\ condCache[<<o, i>>] # "true"
            /\ \A j \in 1..(i - 1) : condCache[<<o, j>>] = "true"
            /\ Accepted(o, i) = {}

\* "An event was already produced, so we skip the rule" (rule.cpp): a rule
\* that has matched, and so will not be evaluated again, was reported.
NoMatchLost == Idle => Matched \subseteq delivered

\* The objects of the store meet all the conditions of a filter.
Satisfied(f) == \A i \in DOMAIN Conditions[f] : Accepted(f, i) # {}

\* A rule is never reported while the parameters meet a rule filter that
\* applies to it, although the filter is evaluated once per call, on new
\* parameters only, and its result kept apart from the rule's.
ExclusionHonoured ==
    [][\A r \in delivered' \ delivered, f \in RuleFilter :
         r \in FilterRules[f] => ~Satisfied(f)]_vars

\* A rule never matches an object that an input filter applying to it covers
\* while the parameters meet the filter, unless the filter has already
\* excluded an earlier object of that target: it filters a target only once.
InputFilterProtects ==
    [][\A r \in Rule, f \in InputFilter, t \in Target :
         /\ r \in FilterRules[f] /\ t \in FilterTargets[f]
         /\ Satisfied(f)
         /\ matches'[r] = Append(matches[r], objects[t])
         => \E o \in objectsToExclude[r] : o.target = t /\ o # objects[t]]_vars

-----------------------------------------------------------------------------
(* Documented, and not so *)

\* DDWAF_ERR_INVALID_OBJECT: "the data will be freed by this function"
\* (ddwaf.h, ddwaf_run).
InvalidIsFreed ==
    Idle /\ FreesObjects /\ out.code = "err_invalid_object" =>
        \E n \in DOMAIN freed : freed[n] = runs
=============================================================================
