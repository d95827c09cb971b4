------------------------------- MODULE Handle -------------------------------
(***************************************************************************)
(* Handles, contexts and what they share, used by several threads          *)
(* (interface.cpp, waf.hpp, context.hpp, manifest.hpp).  A handle has a    *)
(* ruleset, built for it, and a builder, shared with the handles it was    *)
(* updated from; a context has the ruleset of the handle it was made from. *)
(* How a ruleset is built is left to RulesetBuilder.  The caller never     *)
(* destroys what a call of another thread is using, and updates one at a   *)
(* time (UPGRADING.md:64).                                                 *)
(***************************************************************************)
EXTENDS Integers, Sequences, FiniteSets, SequencesExt

CONSTANTS
    Thread, Target,
    MaxHandles,     \* bound on the handles made, each with a ruleset
    ContextId,      \* contexts alive at a time
    OneAsks         \* whether threads ask for the addresses one at a time

ASSUME BoundsAssumption == MaxHandles \in Nat \ {0} /\ 0 \notin ContextId /\ IsFiniteSet(ContextId)

HandleId == 1..MaxHandles

VARIABLES
    handle,      \* [HandleId -> {"none", "live", "destroyed"}]
    builder,     \* builder_ of a handle: that of the first handle, or 0
    context,     \* ruleset_ of a context, or 0 when there is no context
    rulesetRefs, \* use counts of the shared pointers
    builderRefs,
    known,       \* target_manifest_ of a builder
    targets,     \* manifest.targets_ of a ruleset
    addresses,   \* manifest.root_addresses_ of a ruleset
    grown,       \* how often the array of addresses has moved
    call,        \* what each thread is doing
    given        \* history: the arrays given to callers

vars == <<handle, builder, context, rulesetRefs, builderRefs, known, targets, addresses, grown,
          call, given>>
owners == <<handle, builder, context, rulesetRefs, builderRefs>>
arrays == <<addresses, grown, given>>

Idle == [op |-> "none", handle |-> 0, left |-> {}]

TypeOK ==
    /\ handle \in [HandleId -> {"none", "live", "destroyed"}]
    /\ builder \in [HandleId -> 0..MaxHandles]
    /\ context \in [ContextId -> 0..MaxHandles]
    /\ rulesetRefs \in [HandleId -> Nat] /\ builderRefs \in [HandleId -> Nat]
    /\ known \in [HandleId -> SUBSET Target] /\ targets \in [HandleId -> SUBSET Target]
    /\ addresses \in [HandleId -> Seq(Target)] /\ grown \in [HandleId -> Nat]
    /\ call \in [Thread -> [op : {"none", "update", "fill"}, handle : 0..MaxHandles,
                            left : SUBSET Target]]
    /\ given \subseteq [ruleset : HandleId, size : Nat, moved : Nat]

Init ==
    /\ handle = [h \in HandleId |-> "none"]
    /\ builder = [h \in HandleId |-> 0]
    /\ context = [c \in ContextId |-> 0]
    /\ rulesetRefs = [h \in HandleId |-> 0] /\ builderRefs = [h \in HandleId |-> 0]
    /\ known = [h \in HandleId |-> {}] /\ targets = [h \in HandleId |-> {}]
    /\ addresses = [h \in HandleId |-> <<>>] /\ grown = [h \in HandleId |-> 0]
    /\ call = [t \in Thread |-> Idle]
    /\ given = {}

IsIdle(t) == call[t] = Idle
InUse(h) == \E t \in Thread : call[t].handle = h
Updating == \E t \in Thread : call[t].op = "update"
New(h) == handle[h] = "none" /\ \A g \in HandleId : g < h => handle[g] # "none"

-----------------------------------------------------------------------------
(* ddwaf_init and ddwaf_update.  A call that fails before the ruleset is    *)
(* built leaves no trace but what the builder has learned.                  *)

(* A missing or malformed version is taken for 2. *)
Version(stated) == IF stated \in {"none", "malformed"} THEN "2" ELSE stated

Create(t, stated) ==
    /\ IsIdle(t) /\ Version(stated) \in {"1", "2"}
    /\ \E h \in HandleId, found \in (SUBSET Target) \ {{}} :
          /\ New(h)
          /\ handle' = [handle EXCEPT ![h] = "live"]
          /\ rulesetRefs' = [rulesetRefs EXCEPT ![h] = 1]
          /\ targets' = [targets EXCEPT ![h] = found]
          /\ IF Version(stated) = "1"
             THEN UNCHANGED <<builder, builderRefs, known>>
             ELSE /\ builder' = [builder EXCEPT ![h] = h]
                  /\ builderRefs' = [builderRefs EXCEPT ![h] = 1]
                  /\ known' = [known EXCEPT ![h] = found]
    /\ UNCHANGED <<context, arrays, call>>

BeginUpdate(t, h) ==
    /\ IsIdle(t) /\ handle[h] = "live" /\ ~Updating
    /\ builder[h] # 0
    /\ call' = [call EXCEPT ![t] = [op |-> "update", handle |-> h, left |-> {}]]
    /\ UNCHANGED <<owners, known, targets, arrays>>

(* The parser enters the targets it meets, also when it fails later. *)
UpdateParses(t) ==
    /\ call[t].op = "update"
    /\ \E found \in SUBSET Target :
          known' = [known EXCEPT ![builder[call[t].handle]] = @ \cup found]
    /\ UNCHANGED <<owners, targets, arrays, call>>

UpdateFails(t) ==
    /\ call[t].op = "update"
    /\ call' = [call EXCEPT ![t] = Idle]
    /\ UNCHANGED <<owners, known, targets, arrays>>

\* Mutant: the rulesets of a builder share its manifest.
UpdateBuilds_Shared(t) ==
    /\ call[t].op = "update"
    /\ \E h \in HandleId, used \in (SUBSET known[builder[call[t].handle]]) \ {{}} :
          LET b == builder[call[t].handle] IN
          /\ New(h)
          /\ known' = [known EXCEPT ![b] = used]
          /\ targets' = [g \in HandleId |-> IF g = h \/ builder[g] = b THEN used ELSE targets[g]]
          /\ handle' = [handle EXCEPT ![h] = "live"]
          /\ builder' = [builder EXCEPT ![h] = b]
          /\ rulesetRefs' = [rulesetRefs EXCEPT ![h] = 1]
          /\ builderRefs' = [builderRefs EXCEPT ![b] = @ + 1]
    /\ call' = [call EXCEPT ![t] = Idle]
    /\ UNCHANGED <<context, arrays>>

(* The manifest is cleaned, the ruleset gets a copy, and a handle is made. *)
UpdateBuilds(t) ==
    /\ call[t].op = "update"
    /\ \E h \in HandleId, used \in (SUBSET known[builder[call[t].handle]]) \ {{}} :
          LET b == builder[call[t].handle] IN
          /\ New(h)
          /\ known' = [known EXCEPT ![b] = used]
          /\ targets' = [targets EXCEPT ![h] = used]
          /\ handle' = [handle EXCEPT ![h] = "live"]
          /\ builder' = [builder EXCEPT ![h] = b]
          /\ rulesetRefs' = [rulesetRefs EXCEPT ![h] = 1]
          /\ builderRefs' = [builderRefs EXCEPT ![b] = @ + 1]
    /\ call' = [call EXCEPT ![t] = Idle]
    /\ UNCHANGED <<context, arrays>>

-----------------------------------------------------------------------------
(* Contexts, and the ends of handles and contexts. *)

(* The last owner of a ruleset or of a builder frees what is in it. *)
DropRuleset(h) ==
    /\ rulesetRefs' = [rulesetRefs EXCEPT ![h] = @ - 1]
    /\ IF rulesetRefs[h] > 1
       THEN UNCHANGED <<targets, arrays>>
       ELSE /\ targets' = [targets EXCEPT ![h] = {}]
            /\ addresses' = [addresses EXCEPT ![h] = <<>>]
            /\ grown' = [grown EXCEPT ![h] = 0]
            /\ given' = {array \in given : array.ruleset # h}

DropBuilder(b) ==
    IF b = 0
    THEN UNCHANGED <<builderRefs, known>>
    ELSE /\ builderRefs' = [builderRefs EXCEPT ![b] = @ - 1]
         /\ known' = IF builderRefs[b] > 1 THEN known ELSE [known EXCEPT ![b] = {}]

\* Mutant: the context keeps a plain pointer.
ContextInit_Borrows(t, h) ==
    /\ IsIdle(t) /\ handle[h] = "live"
    /\ \E c \in ContextId :
          /\ context[c] = 0
          /\ context' = [context EXCEPT ![c] = h]
    /\ UNCHANGED <<handle, builder, builderRefs, rulesetRefs, known, targets, arrays, call>>

ContextInit(t, h) ==
    /\ IsIdle(t) /\ handle[h] = "live"
    /\ \E c \in ContextId :
          /\ context[c] = 0
          /\ context' = [context EXCEPT ![c] = h]
    /\ rulesetRefs' = [rulesetRefs EXCEPT ![h] = @ + 1]
    /\ UNCHANGED <<handle, builder, builderRefs, known, targets, arrays, call>>

ContextDestroy(t, c) ==
    /\ IsIdle(t) /\ context[c] # 0
    /\ context' = [context EXCEPT ![c] = 0]
    /\ DropRuleset(context[c])
    /\ UNCHANGED <<handle, builder, builderRefs, known, call>>

Destroy(t, h) ==
    /\ IsIdle(t) /\ handle[h] = "live" /\ ~InUse(h)
    /\ handle' = [handle EXCEPT ![h] = "destroyed"]
    /\ builder' = [builder EXCEPT ![h] = 0]
    /\ DropRuleset(h)
    /\ DropBuilder(builder[h])
    /\ UNCHANGED <<context, call>>

-----------------------------------------------------------------------------
(* ddwaf_required_addresses: the array is made the first time.  It doubles  *)
(* its capacity, and moves, when it is full.                                *)

Give(h) == given' = given \cup {[ruleset |-> h, size |-> Len(addresses[h]), moved |-> grown[h]]}

AddressesKnown(t, h) ==
    /\ IsIdle(t) /\ handle[h] = "live"
    /\ OneAsks => ~\E u \in Thread : call[u].op = "fill" /\ call[u].handle = h
    /\ addresses[h] # <<>>
    /\ Give(h)
    /\ UNCHANGED <<owners, known, targets, addresses, grown, call>>

\* Mutant: the array is filled by every call.
AddressesMissing_Never(t, h) ==
    /\ IsIdle(t) /\ handle[h] = "live"
    /\ OneAsks => ~\E u \in Thread : call[u].op = "fill" /\ call[u].handle = h
    /\ call' = [call EXCEPT ![t] = [op |-> "fill", handle |-> h, left |-> targets[h]]]
    /\ UNCHANGED <<owners, known, targets, arrays>>

AddressesMissing(t, h) ==
    /\ IsIdle(t) /\ handle[h] = "live"
    /\ OneAsks => ~\E u \in Thread : call[u].op = "fill" /\ call[u].handle = h
    /\ addresses[h] = <<>>
    /\ call' = [call EXCEPT ![t] = [op |-> "fill", handle |-> h, left |-> targets[h]]]
    /\ UNCHANGED <<owners, known, targets, arrays>>

Capacity(h) == IF grown[h] = 0 THEN 0 ELSE 2 ^ (grown[h] - 1)

AddAddress(t) ==
    /\ call[t].op = "fill"
    /\ \E target \in call[t].left :
          /\ call' = [call EXCEPT ![t].left = @ \ {target}]
          /\ addresses' = [addresses EXCEPT ![call[t].handle] = Append(@, target)]
    /\ grown' = [grown EXCEPT ![call[t].handle] =
                    IF Len(addresses[call[t].handle]) = Capacity(call[t].handle) THEN @ + 1 ELSE @]
    /\ UNCHANGED <<owners, known, targets, given>>

AddressesFilled(t) ==
    /\ call[t].op = "fill" /\ call[t].left = {}
    /\ Give(call[t].handle)
    /\ call' = [call EXCEPT ![t] = Idle]
    /\ UNCHANGED <<owners, known, targets, addresses, grown>>

-----------------------------------------------------------------------------
Next ==
    \E t \in Thread :
       \/ \E stated \in {"none", "malformed", "1", "2", "3"} : Create(t, stated)
       \/ \E h \in HandleId : BeginUpdate(t, h)
       \/ UpdateParses(t) \/ UpdateFails(t) \/ UpdateBuilds(t)
       \/ \E h \in HandleId : ContextInit(t, h) \/ Destroy(t, h)
       \/ \E c \in ContextId : ContextDestroy(t, c)
       \/ \E h \in HandleId : AddressesKnown(t, h) \/ AddressesMissing(t, h)
       \/ AddAddress(t) \/ AddressesFilled(t)

Spec == Init /\ [][Next]_vars

-----------------------------------------------------------------------------
(* A ruleset lives exactly as long as its handle or a context of it does,   *)
(* and a builder as long as a handle that has it: a handle may be destroyed *)
(* before its contexts, and nothing is left after the last one (tests       *)
(* HandleLifetime, HandleLifetimeMultipleContexts; UPGRADING.md:43-52).     *)
FreedWithLastOwner ==
    \A h \in HandleId :
       /\ targets[h] # {} <=> handle[h] = "live" \/ \E c \in ContextId : context[c] = h
       /\ known[h] # {} <=> \E g \in HandleId : handle[g] = "live" /\ builder[g] = h

(* The addresses of a ruleset, once made, are its targets, each of them     *)
(* once, although updates change the manifest of the builder (the TODO at   *)
(* manifest.hpp:31).                                                        *)
AddressesInSync ==
    \A h \in HandleId :
       addresses[h] # <<>> /\ ~(\E t \in Thread : call[t].op = "fill" /\ call[t].handle = h)
          => ToSet(addresses[h]) = targets[h] /\ Len(addresses[h]) = Cardinality(targets[h])

(* What ddwaf_required_addresses has given is "a pointer to an array with   *)
(* size elements", all the targets, for as long as the ruleset lives        *)
(* (include/ddwaf.h:261).                                                   *)
GivenStaysValid ==
    \A array \in given :
       /\ array.moved = grown[array.ruleset]
       /\ array.size = Cardinality(targets[array.ruleset])
=============================================================================
