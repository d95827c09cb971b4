# libddwaf in TLA+

This directory holds TLA+ models of libddwaf, the TLC configurations that
check them on small instances, and theorems about them whose proofs TLAPS
checks. Paths such as `src/context.cpp` are relative to the root of the
repository; `PROJECT.json` lists, for every definition, the lines it models.

- [The system](#the-system): components, state, interactions, what is hard
- [Modules](#modules): which module models what, and how
- [Runs](#runs): what TLC checks, the bounds, the fairness
- [Findings](#findings) and [disagreements](#other-disagreements): where the code
  and what is said of it disagree
- [Proofs](#proofs): what holds for every value of the constants
- [Not modelled](#not-modelled) and [plan](#plan)

## The system

libddwaf evaluates security rules over parameters. A caller creates a *handle*
from a JSON-like document (`ddwaf_init`), replaces parts of it
(`ddwaf_update`, which returns a new handle and leaves the old one usable),
creates a *context* per request from a handle, gives it parameters in one or
several calls (`ddwaf_run`, each with a time budget) and destroys it.

| Component | State it keeps | Operations | Talks to |
| --- | --- | --- | --- |
| Object store (`src/object_store.cpp`) | current object per target, latest batch, maps to free | insert, destroy | filled by the context, read by conditions and filters |
| Context (`src/context.cpp`) | caches of rules, filters and collections, excluded rules and objects, seen actions | run, destroy | all of the evaluation; holds its ruleset by a shared pointer |
| Rules and conditions (`src/rule.cpp`, `src/condition.cpp`) | none (a cache per rule is in the context) | match | store, iterators, rule processors, timer |
| Exclusion filters (`src/exclusion/`) | none (caches are in the context) | match | store, timer; give rules and objects to exclude |
| Collections (`src/collection.cpp`) | none (a cache per type is in the context) | match | rules; regular and priority collections of a type share the cache |
| Event serializer (`src/event.cpp`) | obfuscator | serialize | events, actions seen |
| Ruleset builder (`src/ruleset_builder.cpp`) | rules, data, overrides, filters, manifest, last generation of each | build (load, then rebuild what changed) | parsers, manifest; publishes rulesets |
| Manifest (`src/manifest.cpp`) | target of each address, next index, cached array of addresses | insert, find, remove_unused | parsers insert, builder prunes, store and C interface read |
| Parser, schema 2 (`src/parser/parser_v2.cpp`) | none | parse_rules, parse_rule_data, parse_overrides, parse_filters | inserts in the manifest, fills data ids |
| Parser, schema 1 (`src/parser/parser_v1.cpp`) | none | parse | builds a ruleset once |
| Handle and C interface (`src/interface.cpp`, `src/waf.hpp`) | builder, current ruleset | init, update, destroy, context_init, run | builder, contexts |
| Clock and timer (`src/clock.cpp`) | start, deadline, count of skipped samples | expired | read everywhere in the evaluation |
| Iterators (`src/iterator.cpp`) | a stack of containers and positions | ++, *, depth | condition, with the excluded objects |
| Rule processors (`src/rule_processor/`) | compiled data | match | condition |
| IP addresses (`src/ip_utils.cpp`) | none | parse_ip, parse_cidr | ip_match |
| Transformers (`src/PWTransformer.cpp`) | none | transform | condition |
| UTF-8 and cuts (`src/utf8.cpp`, `src/utils.cpp`) | none | fetch, find_string_cutoff | events, object schemas |
| Multi-key map (`src/mkmap.hpp`) | rules by tag | insert, multifind | builder |
| Obfuscator (`src/obfuscator.cpp`) | two regular expressions | is_sensitive | serializer |
| Ruleset info (`src/ruleset_info.cpp`) | counts, ids, errors by message | insert_error, to_object | parsers |
| Parameters (`src/parameter.cpp`, `src/object.cpp`) | none | conversions, constructors | everything |

What is hard here is seldom concurrency: a context is used by one thread at a
time, and updates of a handle are not concurrent (`UPGRADING.md`, notes on
thread-safety); what several threads share is the lifetime of handles, rulesets
and builders, and the addresses of a ruleset. It is mostly *memory across
calls*. Four caches remember what earlier calls learnt so that a call looks at
new parameters only; a deadline may expire wherever it is read and unwinds the
call through all of them; and the same rule, filter or collection is met again
by the next call. In the builder it is *memory across updates*: each document
rebuilds only the parts its keys concern, parts refer to each other by index or
raw pointer, a malformed document throws half-way, and contexts go on using
what was published before. Below them are *algorithms in place*: transformers
that edit a text with two heads, a trie whose meaning must not depend on the
order of insertion, iterators that cut objects at three limits, a radix tree
with nodes that stand for nothing, a clock that is read once in sixteen
questions. `PROJECT.json` lists each hazard at its line, with the properties
that cover it.

What makes the components correct:

- store: every map is freed once; an object is found under its own target;
- context: parameters are taken into account across calls, no match is lost,
  exclusions hold whatever the order of calls, events are complete, a call ends;
- collections: what is reported, and how often, whatever was evaluated before;
- builder: published rulesets do not change, their parts fit together, and the
  result does not depend on how the document was cut into updates;
- manifest: exactly the targets in use are known; what a caller was given of
  them stays what it was;
- handles: what is shared is freed with its last owner, and not before;
- timer: never early, noticed in time, and a report that agrees with it;
- transformers: the string of the caller is left alone, the read-only pass and
  the edit agree, no byte is overwritten before it is read, and the edit ends;
- object filter and iterators: exactly the objects at the paths are excluded,
  all the others are given once, in order, each with its own path;
- ip_match: the smallest network that holds an address decides;
- ruleset info: every rule is counted, and each failure filed under its error.

## Modules

```
ObjectStore <- Context <- ContextProperties <- MCContext
                               |      \- INSTANCE EventReport
                               \- ContextProofs
MultiKeyMap <- RulesetBuilder <- BuilderProperties <- BuilderProofs, MCBuilder
Handle <- HandleProofs, MCHandle
Timer <- TimerProofs, MCTimer
Utf8 <- Transformers <- TransformChain <- TransformProperties <- TransformedStrings <- TransformProofs, MCTransform
   \- Unicode <- INSTANCE by TransformedStrings
Objects <- ObjectFilter, Iterator <- INSTANCE by FilteredObjects <- ObjectProofs, MCObjects
IpMatch <- IpMatchProofs, MCIpMatch      (PrefixMap <- INSTANCE by IpMatch)
RuleDiagnostics <- DiagnosticsProofs, MCRuleDiagnostics
```

**ObjectStore** is `object_store`. `objects` is `objects_`, `latestBatch` is
`latest_batch_`, `owned` is `objects_to_free_`; `freed` records the calls of the
free function and `runs` numbers the calls, which gives each map and each
object an identity (the code's pointers). A map with a repeated key behaves as
one with the last entry only, so maps are functions from addresses to values.

**Context** is `context::run` and everything it calls, composed with the store:
`rule::match`, `rule_filter::match`, `input_filter::match`,
`object_filter::match`, `collection::match`, `priority_collection::match`. A
step is the evaluation of one condition or the code between two of them.
`phase`, `todo`, `coll`, `rulesTodo`, `cur` and `idx` say where the call is (the
loops of `filter_rules`, `filter_inputs`, `match`, of a collection and of a rule
or filter); the other variables are the caches, with their names in the source
in the comments. The loop over conditions is the same code three times in the
source and is written once, for an *owner*: a rule or a filter.

| Code | Actions |
| --- | --- |
| `ddwaf_run`, beginning of `context::run` | `RunInvalid`, `RunNoBudget`, `RunNothingNew`, `RunStart` |
| loops of `filter_rules`, `filter_inputs`, `match` | `StartRuleFilter`, `StartInputFilter`, `EnterPriority`, `EnterRegular`, `NextPhase`, `Return` |
| loop over conditions, `condition::match` | `SkipCached`, `ConditionMatches`, `ConditionFails` |
| what follows the loop | `RuleFilterMatches`, `InputFilterMatches`, `RuleMatches` |
| loop of a collection | `StartRule`, `LeaveCollection` |
| `timeout_exception` | `ExpireBetween`, `ExpireInCondition`, `ExpireInObjectFilter` |
| `ddwaf_context_destroy` | `Destroy` |

Abstractions, all of which allow more behaviours than the code or as many:

- a deadline with a "short" budget may expire at any reading of it. The timer
  samples the clock, so that in the code only some readings can be the first;
- filters, collections, rules of a collection and targets of an object filter
  are in unordered maps and sets: their order is left open, in every call anew;
- what a processor accepts is a set of values; transformers, key paths and the
  traversal of an object are inside it;
- an input filter excludes the whole object at an address, not a key path in it.

**EventReport** is the abstract specification of what a context promises about
its reports, from the comments on collections in `src/collection.hpp`: no rule
twice; after something of a type was reported, only its rules with actions, and
only while an action of the type was not. `ContextProperties!ReportPromise`
states that Context implements it, with `report` the rules of the last output;
ContextProofs proves it.

**ContextProperties** states what a context must guarantee, in three groups:
whatever the budgets; as long as no call runs out of time; documented and not so.

**RulesetBuilder** is `ruleset_builder::build` with the parsers and the manifest
it calls. Updates are not concurrent, so a document is one step; a document
that fails is a step of its own for each key it may fail at (`FailInRules`,
`FailInData`, `FailInOverrides`, `FailInExclusions`, and `NoHandle` when
`ddwaf_init` fails), one that changes nothing is `Ignore`, any other is
`Publish`. `heap` holds the rule objects by generation, as contexts of earlier
rulesets go on holding theirs, and a filter's pointer to a rule is the
generation and the id. A target of the manifest is an address with how many
times it was given a number: equal exactly when the code's never reused indices
are. `accepted` is a history variable, the last value kept of each key, and `failed`
says whether any document of the behaviour did. `corpus` is the set of documents the
caller chooses from. A node
of a document is valid or not; what an invalid one leaves behind (addresses in
the manifest, data ids) is modelled.

**BuilderProperties** states the builder's guarantees: about every ruleset ever
published, and about the last one compared with a new builder's.

**MultiKeyMap** is the container in which the builder finds rules by their
tags, as operators on a function from tags to sets of rules. `MultiFind` is its
loop, with the two sets that it swaps from turn to turn, and the builder uses it
for the scope of every override and filter.

**Handle** is `waf`, `ddwaf_context` and the functions of `interface.cpp` that
make and destroy them, used by several threads. A handle has a ruleset and a
builder, a context has a ruleset; `rulesetRefs` and `builderRefs` are the use
counts of the shared pointers, and a step that takes the last one away frees
what it pointed to. `ddwaf_update` is two steps of one thread, as it reads its
document before it builds; `ddwaf_required_addresses` fills `addresses` one by
one, and `grown` says when the array has moved. What the documents contain is left to
RulesetBuilder: a ruleset has some set of targets. The caller never destroys what another
call is using.

**Timer** is `ddwaf::timer` and the clock. Times are signed integers of limited
width, and every sum and product wraps as in the code (for a signed one this is
what the compilers used produce). A reading may fail and is then 0. `late`
counts the questions answered "no" after the deadline. Context abstracts from it: any
reading of its deadline may be the first that finds it expired.

**Transformers** says, for every transformer of `PWTransformer.cpp`, what its
read-only pass answers (`Need`) and what one turn of its editing loop does: the
bytes it reads, those it writes, and how far it goes back. **TransformChain** is
`condition::match_object`: it asks the transformers of a condition in turn, copies and cuts the
text when one says yes, and runs each loop turn by turn over the one buffer, with
its read and write heads. The read-only pass of `htmlEntityDecode`, which runs
the editing loop over the string of the caller, is in steps as well.
**Utf8** is the decoding and encoding of codepoints, with the values that mean
that a glyph is invalid or the text has ended. **Unicode** is `normalize_string`
with its scratchpad of chunks; **TransformedStrings** composes it with the
chain, as the one transformer that does not edit in place.
**TransformProperties** states what they promise. Bytes are numbers; the
transformers whose whole effect is a function of the text (`base64Encode`,
`numerize`, `length`, the three that cut a URL) are operators.

**Objects** is what a `ddwaf_object` is here: a key, a kind and children. A
place in an object is the sequence of indices that leads there. **ObjectFilter**
is `path_trie` and `object_filter`: paths are inserted in any order, then an
object is walked with an explicit stack and the nodes of the trie it may be at. An
object with an empty key is one without a key for the walk (`src/exclusion/object_filter.cpp:58`),
so that no component but the wildcard leads to it, while the empty component of a rule's
key path does (`src/iterator.cpp:130`); `Components` and `FirstNamed` follow each.
**Iterator** is both iterators; a step is one key of the key path or one turn of
the loop of `set_cursor_to_next_object`. **FilteredObjects** composes the two by
INSTANCE: they share the object, and the iterator leaves out what the filter has
found, as a condition of a rule does.

**IpMatch** is `ip_match` with the tree of radixlib: `parse_ip`, `parse_cidr` and
the mapping of IPv4 addresses give a prefix, and the actions `PutFirst`,
`PutFound`, `PutBelow`, `PutAbove` and `PutBeside` are the ways in which
`radix_put_if_absent` ends. A node is named by the bits it stands for. **PrefixMap** is the abstract
specification: a map from prefixes to their last expiration. radixlib is third-party code, but
it is in the repository and holds the state of the component.

**RuleDiagnostics** is `ruleset_info` and the loops of both parsers over the
rules of a document, with `ddwaf_object_insert`, whose containers have no field
for their capacity.

The **MC** modules give the constants small values.

## Runs

All contexts are checked on one ruleset, in which what may interfere does: two
addresses, two values; a type `t1` with two rules with actions (one of them with
two conditions, each on an address of its own, so that two calls may meet it)
and two without, one of which has no data; a type `t2` with a rule on both
addresses that shares an action with `t1`, one with two conditions and a disabled
one; a rule filter on one address excluding a rule met at the other; and an input
filter met at one address that excludes the other from rules of both types and
kinds. A call gives any combination of the addresses, or an unknown address, or no map.

| Run | Checks | Distinct states |
| --- | --- | --- |
| `context_clean` | four calls, no timeouts: `ParametersTakenIntoAccount`, `NoMatchLost`, `ExclusionHonoured`, `InputFilterProtects`, `RunReturns` (liveness) | 130,810 |
| `context_timeouts` | three calls with a budget of zero, short or ample: `CachesAreOrdered`, `EventsAreComplete`, `ActionsAreExact`, `OwnedMapsAreFreed`, `ReportPromise` (refinement) | 569,355 |
| `builder_updates` | three documents from one of three sets of them: `FiltersPointToOwnRules`, `NoSideEffects`, `ScopeMeansAllItsTags`, `TargetsAreKnown`, `AddressesAreUsed`, `AsIfLoadedAtOnce` | 40,229 |
| `handle_lifetimes` | two threads, three handles, two contexts: `FreedWithLastOwner`, `AddressesInSync`, `GivenStaysValid` | 1,425,169 |
| `timer_budget` | any order of questions and ticks, two failed readings: `NeverEarly`, `NoticedInTime`, `ReportsAgree` | 1,142,149 |
| `transform_strings` | chains of one or two transformers on short texts: `NeverOvertakes`, `OriginalUntouched`, `NoMeansNoChange`, `NothingLeft`, `PathResolved`, `ChunksFit`, `IsTheDecomposition`, `Terminates` (liveness) | 155,266 |
| `objects_filtered` | objects of up to four levels through a filter and an iterator: `FilterMeansItsPaths`, `EveryOneOnce`, `PathIsTrue`, `IterationEnds` (liveness) | 202,706 |
| `ip_networks` | lists of networks in any order: `TreeShape`, `SmallestNetworkDecides`, `IsAPrefixMap` (refinement) | 54,683 |
| `rule_errors` | documents of five entries of both schemas: `RoomForAll`, `EveryEntryCounted`, `ErrorsTellAll` | 74,882 |

What they show:

- *ParametersTakenIntoAccount*: a call looks at new parameters only, or at none,
  and yet when it returns nothing in the store meets a condition something is
  waiting for. It is the correctness of the caches as an optimisation: without
  timeouts, incremental evaluation misses nothing that a fresh one would find.
- *NoMatchLost*: a rule that will not be evaluated again has been reported.
- *ExclusionHonoured*: a rule is not reported while the store meets a filter that
  excludes it. It needs that filters are evaluated before collections, and that
  they are resolved on partial batches just as rules are.
- *InputFilterProtects*: a rule does not match an object a filter covers, but for
  an object that replaces one already filtered (the filter's cache looks at a
  target once; the property states that exception, which the code has).
- *CachesAreOrdered*, *EventsAreComplete*: after any timeouts, the cache of a
  rule is a prefix of conditions that are met, with one match each, and an event
  pieced together over several calls has the right match at each condition.
- *ActionsAreExact*: the actions seen are those of the rules that matched, though
  a collection only adds what it had remaining and a regular collection may have
  created the cache.
- *ReportPromise*: the concrete caches implement the promise of `EventReport`.
- *OwnedMapsAreFreed*: once each, and only at destruction.
- *RunReturns*: every call ends, whatever the order of the loops.
- *TargetsAreKnown*, *AddressesAreUsed*: the manifest of a published ruleset is
  neither too small nor too large. They are stated as long as no document has
  failed, for exclusions that are empty or contain a valid filter; exclusions
  without one leave the addresses they name in the manifest until the next
  clean-up, and for failures see the findings.
- *AsIfLoadedAtOnce*: as long as no document has failed, rules, overrides and the
  scopes of filters are those a new builder would make of the last value kept of
  each key.
- *ScopeMeansAllItsTags*: the rules found for a scope are those that have all its
  tags, although the intersection is computed in two sets used in turn.
- *NoSideEffects*, *FiltersPointToOwnRules*: old rulesets do not change, and no
  filter points into another generation, whatever fails.
- *FreedWithLastOwner*: a ruleset lives as long as its handle or a context of it,
  a builder as long as a handle made from it, in any order of destruction.
- *AddressesInSync*, *GivenStaysValid*: what a caller was given of the addresses
  are all the targets of the ruleset and stay where they are, although updates
  change the manifest of the builder. Threads ask one at a time here
  (`OneAsks`); when they do not it fails, see `HandleTwoAsk.cfg` below.
- *NeverEarly*, *NoticedInTime*, *ReportsAgree*: a budget that fits the clock is
  never cut short, the deadline is found within one period of questions (one
  more for each reading that fails), and a result with a timeout says a run time
  of at least the budget, although the two come from different readings.
- *NeverOvertakes*: the write head stays behind the read head and the unread part
  of the buffer is intact, even where an escape turns into more bytes than its
  codepoint needs to be spelt, or the write head goes back.
- *OriginalUntouched*: the read-only pass leaves the string of the caller as it
  was; texts with a numeric HTML reference are left out, see below.
- *NoMeansNoChange*: a transformer that said no does not change the text when
  another one makes the whole chain run. `base64Decode` is left out, see below.
- *NothingLeft*: those transformers that reach a fixed point do.
- *PathResolved*: an absolute path is resolved as a file system would, by
  comparison with a reference definition on segments.
- *ChunksFit*, *IsTheDecomposition*: nothing is copied beyond the end of a chunk,
  and the chunks put together are the decomposition of the valid codepoints.
- *FilterMeansItsPaths*: the objects excluded are those a path leads to, in any
  order of insertion, by comparison with a definition that has no trie.
- *EveryOneOnce*, *PathIsTrue*: the iterators give every value or key within the
  limits that is not in an excluded object, once and in order, and the path they
  report leads there.
- *Terminates*, *IterationEnds*: transformations, walks and iterations end.
- *TreeShape*: pointers go both ways, children continue the bits of their node on
  their side, and a descent always ends at a node with a prefix, which the code
  reads without a test.
- *SmallestNetworkDecides*: by its last expiration, in any order of the list.
- *IsAPrefixMap*: the tree implements PrefixMap, whatever nodes it makes to branch.
- *RoomForAll*: no object is written beyond what was allocated for a container.
- *EveryEntryCounted*, *ErrorsTellAll*: counters are right up to their width; each
  id is under its error, each error once, in the order of the document.

**Bounds.** `MaxRuns` bounds the calls and `MaxUpdates` the documents; both are
in guards. An owner has at most two conditions, so that a call that fills the
first, one that times out and one that fills the second already combine in three
calls; a fourth gives a replaced object after a filter. An update either
rebuilds a part or keeps it, so the third document is the first one to see a part
kept over an update that rebuilt another. The documents come from three sets:
sound ones; ones that may fail at each of their keys; and ones with up to three
tags per rule and per scope, so that the intersection takes three turns.

Three handles are the first one, an update of it and an update of that or of
the first; two contexts share a ruleset or have different ones; two targets make the
array of addresses move twice. Widths are scaled: the clock has 6 bits and a sign, a
microsecond 3 nanoseconds, the period is 3 questions. Budgets are below, at and
above the largest that fits. `MaxNow` and `MaxFailures` are in guards.

Texts have up to three of the tokens that a transformer treats specially (bytes,
or runs of them such as a whole escape), for paths up to seven bytes, so that
"/a/../" fits with one byte more. `MaxString` is 8, which cuts the longest
ones. `Wrap` is 128 for 2^64, so that three digits can wrap. Chunks are of 5 bytes, so that
three glyphs need two. Objects have up to four levels with a depth limit of 3,
and three children with a size limit of 2; filters have up to three paths of up
to three components with wildcards, and keys may be repeated, missing or empty. Addresses have 3 bits, the last one being an
IPv4 address: the tree may have all its shapes with up to five nodes
(`MaxNodes`). Containers grow by 2 objects and counters have 2 bits, so that five
entries (`MaxEntries`) make both a container grow and a counter wrap.

Deadlock is checked for the timer. It is not for the others, which really stop:
a context is destroyed, the documents or handles come to their bound, a text is
transformed, a list is read.

**Fairness.** `FairSpec` of the contexts adds `WF_vars(Step)`: a call runs on its
caller's thread and waits for nothing, so that while it is not over the thread
takes its next step. Nothing makes a caller call or destroy; `Run` and `Destroy`
have no fairness. `TransformedStrings` and `FilteredObjects` are one call each, from
its first step to its last, so that they have `WF` of their next-state relation for
the same reason. No other specification states fairness.

## Findings

Each is a run that checks one property and finds it violated.

| Run | Property | What happens |
| --- | --- | --- |
| `context_skips_after_timeout` | `ParametersTakenIntoAccount` | The cache entry of a condition is written before its evaluation. When the deadline expires inside, the next call takes the condition as evaluated and looks at its own parameters only: those of the first call are never looked at. |
| `context_loses_match` | `NoMatchLost` | The deadline expires after a rule has matched: its event is destroyed with the exception, the caches say it was reported. |
| `builder_failed_update` | `TargetsAlwaysKnown` | An update keeps its rules and then fails on its data. A later clean-up prunes the targets of these rules, and a later update of overrides publishes them. |

The first two are about conditions with a processor; a rule excluded or already
stopped is not waiting for anything and does not count.

### Other disagreements

These configurations check properties that the code does not have. They are not
among the runs above; `tlc -config <file> <module>` shows each, and with
`-continue` those that have several properties show them all.

`ContextSkipsAfterZeroBudget.cfg` (MCContext), `ParametersTakenIntoAccount`:
parameters of a call with a budget of 0 are stored on purpose (`src/context.cpp:31`),
but the next call clears the latest batch, and conditions evaluated before look
only there.

`ContextKeepsInvalid.cfg` (MCContext), `InvalidIsFreed`: `ddwaf.h:300` and a comment
in `tests/TestAdditive.cpp:80` say that an invalid map is freed by the call; it
is kept and freed with the context.

`BuilderDisagreements.cfg` (MCBuilder):

- `InputsAreCovered`: an input filter drops addresses no rule uses at the time it
  is parsed (`src/parser/parser_v2.cpp:346`); later rules that use them are not
  covered until the exclusions are sent again.
- `ProcessorsFitRules`: rule data keeps the operator of the rules at the time it was
  parsed; later rules with another operator get the old one.

`HandleTwoAsk.cfg` (MCHandle), `GivenStaysValid`: `ddwaf_required_addresses`, which
takes a const handle, fills `root_addresses_` on its first call without a lock
(`src/manifest.hpp:39`). A second thread finds it not empty and is given an array
that is incomplete and that the first may still move. `include/ddwaf.h:261` says
"NULL if empty, otherwise a pointer to an array with size elements", and
`UPGRADING.md:63` counts operations on the ruleset as safe.

`TimerOverflow.cfg` (MCTimer), `BudgetRespected`: `src/clock.hpp:39` multiplies the
budget by 1000 in signed 64 bits, and `src/context.cpp:42` makes a signed count of an
unsigned one: a budget over 2^63 ns wraps, and the call times out before it is
spent, usually at once.

`RuleCountWraps.cfg` (MCRuleDiagnostics), `FailedIsExact`: the counter of failures
has 16 bits (`src/ruleset_info.hpp:32`); with 65536 rules that fail and one that
loads, none is reported to have failed. `include/ddwaf.h:179` says "Number of
rules which failed to parse".

`ObjectsDisagreements.cfg` (MCObjects):

- `WithinDepth`: iteration from a key path goes deeper than
  `max_container_depth`, as the depth begins with an empty stack where the path ends
  and `path_` is only set after the first object was found (`src/iterator.cpp:178`).
- `EmptyPathMeansAll`: `src/exclusion/object_filter.hpp:178` says that "if the
  path is empty, we should clear all the children"; an empty path only leaves
  the root of the trie as it is, and the root object is not compared with it.

`TransformDisagreements.cfg` (MCTransform), all in `src/PWTransformer.cpp`:

- `HtmlUntouched`: the read-only pass of `htmlEntityDecode` jumps three bytes after
  "&#" and may miss a reference; the loop that follows then decodes it into the
  string of the caller (line 670) and answers no. Line 693 says "We're not
  supposed to modify anything in the readOnly loop", and only the named
  references are put back.
- `CommandLineCleaned`: a comma, a semicolon or a tab at the end of a text, and a
  single tab anywhere, do not make the text change (line 911), against lines 898
  and 899, "replacing all commas [,] and semicolon [;] into a space" and
  "replacing all multiple spaces (including tab, newline, etc.) into one space".
- `OnlyCommentsRemoved`: line 1020 compares the same byte with a dash twice, so that
  a single dash removes the rest of the text; line 998 says "SQL-style comments
  starting in --".
- `NumberKept`: the value of the digits wraps at 2^64 before it is looked at (line
  1110); line 1114 says "Check if the value can be represented as a negative 64bit".
- `NoHalfSurrogate`: only a high surrogate is treated as one, a low one is written
  (line 487); line 516 says "Tried to make us write a half surrogate, write the
  error bytes".
- `EncodedIsValid`: the encoding table ends with + and - (line 827) where the
  decoders accept + and / only.
- `OnlyValidDecoded`: `doesNeedTransform` stops at the first yes (line 1420) and all
  transformers are then run: `base64Decode` gets texts it has refused. Line 1460
  says "`doesNeedTransform` will prevent decoding invalid base64 sequences".
- `NormalizedWhenNeeded`: the read-only pass of `unicode_normalize` skips invalid bytes
  and takes a null as it is (line 1151), the normalization drops the ones and
  writes U+FFFD for the other; `tests/transform_test.cpp:44` asserts for every
  transformer that a text that needs no change keeps its bytes.

## Proofs

`tlapm` checks the theorems with SMT (Z3), Zenon and LS4. Those about contexts
hold for every ruleset, every set of addresses, values and maps, and any number
of calls; those about timers for every width, scale, period and budget; those
about handles for any threads, targets and finite set of contexts, and any
number of handles; those about the builder for any documents, scopes of any
number of tags, and any number of updates; those about diagnostics for any
chunk, width of the counters and number of entries; those about networks for
addresses of any width, any list, and any number of nodes; those about transformers
for any chain of them, strings of any bytes and length, any table of decompositions
and size of chunks; that about object filters for any objects, sets of paths and
limits. They assume only what the
modules that declare the constants assume: `ParamsAssumption` and
`StoreAssumption` (maps give values to addresses), `RulesetAssumption`
(conditions, types, actions and filters have their types; rules, rule filters
and input filters are different things), `BudgetsAssumption`; the assumptions
at the head of Timer; `BoundsAssumption` of Handle; `TagAssumption` of
MultiKeyMap (the keys of tags are finitely many), `CorpusAssumption` of
RulesetBuilder; `EntryAssumption` and `SizeAssumption` of RuleDiagnostics (a
chunk and a width are at least 1); `WidthAssumption` of IpMatch (the bits before a
mapped address and those of an IPv4 address make a whole one) and
`EntriesAssumption` (an address of a list has the bits of its family);
`WrapAssumption` of Transformers (numbers wrap at 20 at
least, at 2^64 in the code), `CasesAssumption` of TransformChain (chains of transformers, strings of
bytes) and `ChunkAssumption` of TransformedStrings (a codepoint decomposes to
codepoints, and the smallest chunk, 1024 bytes in the code, has room for one of
four bytes); `LimitsAssumption` of FilteredObjects (the limits are at least 1, as
`interface.cpp` ignores one of 0) and its `CasesAssumption` (no component of a path
is that of a missing key, and a container has a number of children).

Five hypotheses are those of runs. `AmpleTime` (no budget is "zero" or "short")
stands in the last four theorems of ContextProofs, as `context_clean` has it: with
a timeout the first two properties are false, see the findings. `OneAsks` stands
in `AddressesCorrect` and `GivenCorrect`, as in `handle_lifetimes`: with two
threads asking at a time they are false, see `HandleTwoAsk.cfg`. `EmptyPathAlone` (a filter with the empty path
has no other) stands in `FilterCorrect` and `EveryOneGivenOnce`, as in `objects_filtered`: without it they
are false, see `EmptyPathMeansAll` above (`ObjectsDisagreements.cfg`). `ShallowFromPaths`
(with a key path, an object is no deeper than the limit) stands in
`EveryOneGivenOnce`, as in `objects_filtered`: without it the theorem is false, the
depth being counted from the end of the path, see `WithinDepth` above (the same file). `Trees` stands
in `PathCorrect`: a container has a number of children at any depth, a key path
being as long as it likes, and where keys are asked for, the elements of an array
have none. Nothing in `ddwaf_object_array_add` takes a name away that an element
was given before, and then the theorem is false: a key iterator holds a named
container before it moves past it, so that an array gives it the index before its
own (`src/iterator.cpp:64`), which for the first is no index at all.

| Theorem | Module | Says |
| --- | --- | --- |
| `TypeCorrect` | ContextProofs | `Spec => []TypeOK` |
| `OwnershipCorrect` | ContextProofs | `Spec => []OwnedMapsAreFreed` |
| `ActionsCorrect` | ContextProofs | `Spec => []ActionsAreExact` |
| `ReportCorrect` | ContextProofs | `Spec => ReportPromise`: Context implements EventReport |
| `OrderCorrect` | ContextProofs | `Spec => []CachesAreOrdered` |
| `EventsCorrect` | ContextProofs | `Spec => []EventsAreComplete` |
| `ParametersCorrect` | ContextProofs | `AmpleTime`: `Spec => []ParametersTakenIntoAccount` |
| `MatchesCorrect` | ContextProofs | `AmpleTime`: `Spec => []NoMatchLost` |
| `ExclusionCorrect` | ContextProofs | `AmpleTime`: `Spec => ExclusionHonoured`, an action property |
| `ProtectionCorrect` | ContextProofs | `AmpleTime`: `Spec => InputFilterProtects`, an action property |
| `RulesetsUndisturbed` | BuilderProofs | `Spec => NoSideEffects`, an action property |
| `PointersCorrect` | BuilderProofs | `Spec => []FiltersPointToOwnRules` |
| `ScopesCorrect` | BuilderProofs | `Spec => []ScopeMeansAllItsTags` |
| `TargetsCorrect` | BuilderProofs | `Spec => []TargetsAreKnown` |
| `AddressesNeeded` | BuilderProofs | `Spec => []AddressesAreUsed` |
| `UpdatesAddUp` | BuilderProofs | `Spec => []AsIfLoadedAtOnce` |
| `HandleTypeCorrect` | HandleProofs | `Spec => []TypeOK` |
| `OwnershipIsShared` | HandleProofs | `Spec => []FreedWithLastOwner` |
| `AddressesCorrect` | HandleProofs | `OneAsks`: `Spec => []AddressesInSync` |
| `GivenCorrect` | HandleProofs | `OneAsks`: `Spec => []GivenStaysValid` |
| `TimerTypeCorrect` | TimerProofs | `Spec => []TypeOK` |
| `NeverEarlyCorrect` | TimerProofs | `Spec => []NeverEarly` |
| `NoticedInTimeCorrect` | TimerProofs | `Spec => []NoticedInTime` |
| `ReportsAgreeCorrect` | TimerProofs | `Spec => []ReportsAgree` |
| `Typed` | DiagnosticsProofs | `Spec => []TypeOK` |
| `RoomSuffices` | DiagnosticsProofs | `Spec => []RoomForAll` |
| `EntriesCounted` | DiagnosticsProofs | `Spec => []EveryEntryCounted` |
| `ErrorsAreComplete` | DiagnosticsProofs | `Spec => []ErrorsTellAll` |
| `ShapeKept` | IpMatchProofs | `Spec => []TreeShape` |
| `TreeIsAMap` | IpMatchProofs | `Spec => IsAPrefixMap`: IpMatch implements PrefixMap |
| `SmallestDecides` | IpMatchProofs | `Spec => []SmallestNetworkDecides` |
| `StringsTypeCorrect` | TransformProofs | `Spec => []StringTypeOK` |
| `LoopsNeverOvertake` | TransformProofs | `Spec => []NeverOvertakes` |
| `CallersStringUntouched` | TransformProofs | `Spec => []OriginalUntouched` |
| `NormalizedChunksFit` | TransformProofs | `Spec => []ChunksFit` |
| `NormalizedIsTheDecomposition` | TransformProofs | `Spec => []IsTheDecomposition` |
| `FilterCorrect` | ObjectProofs | `EmptyPathAlone`: `Spec => []FilterMeansItsPaths` |
| `PathCorrect` | ObjectProofs | `Trees`: `Spec => []PathIsTrue` |
| `EveryOneGivenOnce` | ObjectProofs | `EmptyPathAlone`, `ShallowFromPaths`: `Spec => []EveryOneOnce` |

`TypeOK` of Context is inductive. None of the others is:

*Contexts, whatever the budgets*

- `ControlInv` says where a call may be: nothing is under evaluation between
  calls; a collection only in its phase, with a cache, and only its own rules;
  and all priority collections have a cache when the regular ones are evaluated.
- `OwnershipInv` adds that a living context owns the maps of all its calls in
  order and has freed none: destruction then frees all of them once.
- `ActionsInv` adds `NoActionMissed`: an action of a type that is neither seen nor
  remaining does not exist. That is where the order of phases matters: if a
  regular collection could create the cache of a type with actions, they would
  not be in `remaining`, and a rule that matched would not add them.
- `SharedInv` and `PromiseInv` carry the refinement of EventReport. `SharedInv`
  says what the cache of a type knows: a rule that matched has set its result; a
  collection whose result is set is only under evaluation in the priority phase,
  with actions remaining; those are actions of the type, and none of them was
  seen; and the rule under evaluation has not matched. `PromiseInv` says that all
  that was reported has matched, and that every event of the call in progress
  may be reported after those before it. When a rule matches, either its type has
  no result, and then nothing of it was reported, or an action remains: by
  `ActionsInv` no rule that matched has it, so that it was not reported. Events
  lost in a timeout are why the invariant is about rules that matched and not
  about rules that were reported.
- `CachesInv` adds the invariant of the loop over conditions, `LoopInv`: all
  conditions before the one under evaluation are met. Without it, a condition
  could be met after one that is not. A timeout leaves the loop with the
  condition marked as not met, which keeps the order.
- `EventsInv` adds that objects are under their own target and that the n-th match
  of a rule fits its n-th condition. With the count of matches from `CachesInv`,
  a rule that comes to the end of its conditions has exactly one match for each.

*Contexts, as long as no call runs out of time*

- `LookedInv` is why looking at the latest batch only is enough. What is waiting is
  either still ahead of the call or behind it. Behind it, a condition that is
  marked as not met is met by no object of the store; ahead, by none but those of
  the latest batch. A new batch finds nothing ahead of the call before it, which
  is where a timeout breaks it; and what starts to wait again does not exist,
  since rules only ever stop waiting (`Waiting` shrinks: results, stopped
  collections and excluded rules stay).
- `AccountedInv`: a rule that matched has its event in the call in progress or was
  reported. `NoMatchLost` only speaks of a context between two calls.
- `ExclusionInv`: what a matched rule filter applies to is excluded, and no
  excluded rule is evaluated or has an event. With `LookedInv` a filter that is
  satisfied while collections are evaluated has matched.
- `ProtectionInv`: a matched input filter has an object of each of its targets
  excluded from each of its rules that is evaluated at all.

*Builder*

- `ListsInv` is the part of the type the others need: generations and rulesets in
  sequences, finite sets of rules, scopes that are scopes.
- `PointersInv` adds that the filters kept from one update to the next, and not
  only those published, point to the last generation. A step that makes a
  generation makes all filters anew: this is the condition in `build` on which
  part is to be rebuilt.
- `BuiltInv`: the last generation and filters are what the builder would make of
  what it keeps. `ManifestInv`: as long as no document has failed, the manifest
  has the targets of all that is kept, and after a publication no other. An
  update that fails may leave targets to be pruned later, see the findings.
- `HeldInv`: what is kept is what the last value kept of each key says, up to the
  numbers that the addresses were given. `LastInv`: the last ruleset is made of
  what is in use.
- The builder's loops are folds over sets and sequences. What a fold computes
  would need an induction, which the provers cannot do with a fact given as an
  operator. The lemmas argue by a smallest counterexample: a set of numbers that
  is not empty has a least element (`LeastNumber`, from the well-foundedness of
  the numbers), and so has a set of finite sets, by their cardinality
  (`SmallestSet`). `MapOfRules`, `RulesOfAllKeys` (the intersection in two sets used
  in turn, whatever the order of the tags) and `Added` are proved that way.

*Handles and timers*

- `HandleInv` adds `CountsInv`: the use count of a ruleset is the number of its
  owners, its handle and its contexts, and that of a builder the number of the
  handles that have it; `CallsInv` and `UpdatesInv`: a call in progress has a
  live handle and its builder; `MadeInv`: what was not made is referred to by
  nothing; `OwnedInv`: what is alive is what has owners.
- `SyncInv` says, for each handle, that its array of addresses is empty, or being
  filled by the one thread that asks, with exactly the missing targets still to
  come, or complete; each target is in it once; and what was given of it is all
  of it, at its present place, and was given when nobody filled it.
- `TimerInv` adds to the type, which is not inductive by itself (`calls_` only stays
  a natural number because it is read before it is 0), `Counts`: the questions
  answered "no" since the deadline and those left until the clock is read are
  together at most one period for each reading; and `Deadlines`: the deadline is
  computed from the start, and the start is the time of construction unless a
  reading failed. A lemma says that a sum that fits the width does not wrap.

*Diagnostics*

- `PlacesInv`: the places that are remembered and the places of the errors are the
  inverse of each other, so that no error comes twice.
- `RoomInv` adds to `RoomForAll` that the room of every container is a multiple of
  the chunk. Without it the test of the code, which looks at the length only, would
  let an object be written at the end of a container whose room is no multiple.
- `PlacedInv`: the array of ids of an error has as many entries as rules with it
  have failed, each in its place.
- `EveryEntryCounted` is inductive with the type, from the lemma that counting with
  a width is counting, up to the width.

*Networks*

- `TreeInv` says that the nodes are a tree of bit strings: the head has no parent
  and every other node is the child of its parent; a child continues the bits of
  its node on the side of its next bit; a node without a prefix has both
  children. From it, `Branching`: where the bits of two nodes part there is a node
  with exactly the bits they share.
- `KeyPlace` is why an insertion is right. The descent compares nothing: it takes
  the side of the next bit and stops at some node with a prefix. The bit at
  which that one differs from the key is the right one all the same, as every
  node passed on the way has the bits of the node landed at; the climb then stops
  at the place where the key belongs, below a node that is a prefix of it and
  above all those that have the bits of the first of the rest. `InsertBelow` and
  `InsertAbove` show that a node put there keeps `TreeInv`, and `BesidePut` is both,
  one after the other, with the node made to branch.
- `ListedInv`: what was listed is what the nodes with a prefix stand for, with
  their expirations. Of two networks that hold an address one holds the other, by
  the number of bits (`CovSubset`), and the deepest node on the way whose bits
  agree is the smallest (`WayIs`, `FoundIs`).
- The descents are recursive functions. `Recursion` and `TailRecursion` show that
  a function that calls itself on a node strictly below (or above) is defined
  everywhere, from the number of bits left, by a smallest counterexample again.

*Transformers*

- `StringsInv` has a part for the chain and one for the scratchpad. `TextInv` is the
  type, `ChainInv` (a transformer that edits is a loop of the chain), and
  `NeverOvertakes`, which is what makes it inductive: a loop reads from its buffer
  at `read`, so that the bytes it reads are those of the text it began with only
  because no turn before has written there. A turn is right when it `Fits`: it
  writes at most as many bytes as it reads and the turns before have left, the
  `slack`; one that goes back does not go before the beginning (`Steady`). There is one lemma per transformer; the hard ones
  write a codepoint, of up to four bytes, for an escape that may be shorter than
  that, and pass the slack to `write_codepoint`.
- `SweepInv`: while `htmlEntityDecode` goes through the string of the caller and
  there is no numeric reference in it, `write = read`, and every byte is written
  back in its place; the named references are put back by each turn. With it
  `OriginalUntouched` is inductive.
- `ScratchInv` adds to `ChunksFit` that a chunk has room for a codepoint and that a
  text being normalized has a chunk. Without the first, a new chunk could be too
  short for the codepoint that did not fit in the last one.
- `DecompInv`: what is in the chunks, then what is in flight, then what the rest of the
  text comes to, put together, is what the whole text comes to (`Agrees`). Each step
  moves a piece from one of the three to the one before: a glyph is taken from the
  rest (`RestIs`), a codepoint from those in flight (`WriteAgrees`), and whether its
  bytes go to the last chunk or to a new one makes no difference, as a new chunk adds
  nothing (`TextOfNewChunk`) and the text grows at its end (`TextGrows`). The codepoints
  of a text are a recursive function that goes on at the next glyph; `ScanExists` and
  `CodesAre` show that it is defined, and what it is, from the end of the text on.
- Values of digits are folds over a sequence, whose type is proved from the set of
  the positions reached (`Counting`), by a smallest counterexample. Unicode has the
  definitions of Utf8 for itself, being an instance; they are shown to be the same.

*Object filters*

- `TrieOf` says what the trie is of the paths inserted so far, in whatever order they
  came: every prefix of a node is a node, a terminal node is one of the paths, and each
  path begins with a terminal node. It says less than the set of the nodes does, which
  depends on the order: a path may be there or not below one that came before it. Each
  of the three outcomes of an insertion keeps it (`BegunKeeps`, `CutKeeps`,
  `JoinKeeps`), as two prefixes of one path extend one another.
- From it, `NamedIsFinal`: where nothing above is named, a place is named by a path
  exactly when a terminal node leads to it; and `NamedIsBelow`: under a place that no
  node leads to nothing is named. `StepLeads`: a step of the traverser goes from all
  the nodes that lead to a container to all those that lead to its child, by the key or
  by the wildcard.
- `WalkInv`: a frame of the stack has the nodes that lead to its container, which is
  not named and in nothing named; and what is excluded is what is to be and lies
  `Behind` the indices of the stack. A child that is neither found nor entered has
  nothing to be excluded in it (`NothingBelow`), for each of the reasons not to enter.
- The places in an object are levels of a recursive function, and what is at one is a
  fold; both are shown to go child by child, by a smallest counterexample.

*Iterators*

- `CursorInv`: the stack is a `Chain`, in which each container is the child that the
  index of the one before has moved past. While the key path is followed, the only
  frame is where its first keys lead (`Followed`); from then on the first frame is
  where all of it leads (`Reached`), and stays so, though `path_` is empty until the
  first object is found. What is held is the child that the last index has moved
  past, or a named container of a map that it has not (`HeldAt`); both have the same
  path, as the index counts only in arrays (`HeldTrue`). `PathIsTrue` alone says
  nothing of the states between two objects.
- `get_current_path` and the definition of the true path put sequences one after
  the other, each by a recursive function (`FlatMore`: one more at the end).
  `StackPath` relates the two along the stack, `ChildFollows` along the key path:
  the child taken has the key that comes next, wherever its twins are excluded.
- `OrderInv`: what was given is exactly what is wanted and comes `Before` the child
  that the top of the stack looks at next (`ChildOf`), with one exception, a container
  held for its key and not entered yet (`GivenAt`). `Track` adds to the stack that
  each container on it is below the end of the key path, which is one place only
  (`LedOne`), and in nothing excluded. `BeforeChild` and `BeforeNextChild` say what comes before when the stack
  goes in, moves on and comes out; nothing is wanted when the path
  cannot be followed or leads to something excluded (`NoWay`, `NoBeginning`).
- `OnceInv`: an iteration begins when the filter is through, so that what it skips is
  what the paths of the filter lead to (`FilterCorrect`), and each name that is left
  out is the name of nothing that is wanted (`WantedUnnamed`).

Each invariant was checked with TLC, under the constants of the run its property
is in (`HandleLifetimes.cfg` with two handles), before it was proved.

Only model-checked: `PathResolved`, `NothingLeft` and `NoMeansNoChange` of
transformers, which compare a loop with a definition of its whole result or with
the answer it gives without writing; and liveness. Liveness is
out of the prover's reach, which does not reason about fairness and `ENABLED`.
No run checks a `TypeOK`: those of Context, Handle, Timer and RuleDiagnostics are
theorems, those of the other modules state the types of the variables for the reader.

## Not modelled

- *Regex, phrase, exact match, SQL injection and XSS processors*: thin calls of
  vendored libraries or of a hash map, without state of their own; their answer
  is the set of accepted values of a condition.
- *JSON and YAML*, *`inet_pton`*, *the tables of utf8proc*, *CLOCK_MONOTONIC*:
  outside the program. A decomposition is a constant, a list of addresses has
  the bits they stand for, the clock ticks by itself.
- *Schema 1*: the loop over its rules is in RuleDiagnostics. That it inserts the
  addresses of its rules in a manifest which is never pruned, and builds a ruleset
  once, leaves nothing to go wrong across steps.
- *The fields of a rule*: a node of a document is valid or not, and what an
  invalid one leaves behind is modelled.
- *The JSON text of events and its redaction*, *the obfuscator*: layout, and two
  regular expressions compiled by a vendored library.
- *Logging, conversions of parameters, constructors of scalars, the
  configuration, `ddwaf_get_version`*: plain conversions, without effect on the
  results of a call. Allocations do not fail in any module.
- *The sampling of the timer inside Context*: Context allows every reading of the
  deadline to be the first that finds it expired, which is more than Timer does.

## Plan

Done: every component that keeps state, and the pure algorithms with a control
of their own, with the compositions that matter (store and context, filter and
iterator, map and builder, chain and normalization); contexts, builder, handles,
timers, diagnostics and networks have theorems for all the safety properties of
their runs, transformers for those that keep memory in order and for the text that the
normalization gives, object filters and iterators for all those of their run.

Proofs left: of the transformers, what a resolved path is (`PathResolved`), that they
reach a fixed point (`NothingLeft`) and that their answer without writing is right
(`NoMeansNoChange`), each an invariant per transformer over what it has read.

Models left: the redaction in the serializer, once there is a property worth
stating about it.
