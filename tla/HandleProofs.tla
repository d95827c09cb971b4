---------------------------- MODULE HandleProofs ----------------------------
(***************************************************************************)
(* What handles and contexts share lives exactly as long as its owners,    *)
(* for any threads, targets, handles and contexts.                         *)
(***************************************************************************)
EXTENDS Handle, FiniteSetTheorems, TLAPS

USE BoundsAssumption

RulesetOwners(h) == {c \in ContextId : context[c] = h} \cup (IF handle[h] = "live" THEN {0} ELSE {})
BuilderOwners(b) == {g \in HandleId : handle[g] = "live" /\ builder[g] = b}

(* TypeOK in parts. *)
OwnerType ==
    /\ handle \in [HandleId -> {"none", "live", "destroyed"}]
    /\ builder \in [HandleId -> 0..MaxHandles]
    /\ context \in [ContextId -> 0..MaxHandles]
    /\ rulesetRefs \in [HandleId -> Nat] /\ builderRefs \in [HandleId -> Nat]

TargetType ==
    known \in [HandleId -> SUBSET Target] /\ targets \in [HandleId -> SUBSET Target]

ArrayType ==
    /\ addresses \in [HandleId -> Seq(Target)] /\ grown \in [HandleId -> Nat]
    /\ given \subseteq [ruleset : HandleId, size : Nat, moved : Nat]

Calls == [op : {"none", "update", "fill"}, handle : 0..MaxHandles, left : SUBSET Target]
CallType == call \in [Thread -> Calls]

CallsInv ==
    \A t \in Thread : call[t].op # "none" =>
       call[t].handle \in HandleId /\ handle[call[t].handle] = "live"

UpdatesInv == \A t \in Thread : call[t].op = "update" => builder[call[t].handle] # 0

MadeInv ==
    /\ \A h \in HandleId : handle[h] # "live" => builder[h] = 0
    /\ \A g, h \in HandleId : handle[h] = "none" => builder[g] # h
    /\ \A h \in HandleId, c \in ContextId : handle[h] = "none" => context[c] # h

CountsInv ==
    \A h \in HandleId :
       /\ rulesetRefs[h] = Cardinality(RulesetOwners(h))
       /\ builderRefs[h] = Cardinality(BuilderOwners(h))

OwnedInv ==
    \A h \in HandleId :
       /\ targets[h] # {} <=> RulesetOwners(h) # {}
       /\ known[h] # {} <=> BuilderOwners(h) # {}

HandleInv == TypeOK /\ CallsInv /\ UpdatesInv /\ MadeInv /\ CountsInv /\ OwnedInv

-----------------------------------------------------------------------------
LEMMA TypeParts == TypeOK <=> OwnerType /\ TargetType /\ ArrayType /\ CallType
BY DEF TypeOK, OwnerType, TargetType, ArrayType, CallType, Calls

LEMMA NextTypeParts == OwnerType' /\ TargetType' /\ ArrayType' /\ CallType' => TypeOK'
BY DEF TypeOK, OwnerType, TargetType, ArrayType, CallType, Calls

LEMMA IdleCall == Idle \in Calls
BY DEF Idle, Calls

LEMMA OwnersAreFinite ==
    ASSUME NEW h \in HandleId
    PROVE  /\ IsFiniteSet(RulesetOwners(h)) /\ IsFiniteSet(BuilderOwners(h))
           /\ Cardinality(RulesetOwners(h)) \in Nat /\ Cardinality(BuilderOwners(h)) \in Nat
           /\ RulesetOwners(h) = {} <=> Cardinality(RulesetOwners(h)) = 0
           /\ BuilderOwners(h) = {} <=> Cardinality(BuilderOwners(h)) = 0
<1>1. IsFiniteSet({c \in ContextId : context[c] = h})
  BY FS_Subset
<1>2. IsFiniteSet(IF handle[h] = "live" THEN {0} ELSE {})
  BY FS_EmptySet, FS_Singleton
<1>3. IsFiniteSet(RulesetOwners(h))
  BY <1>1, <1>2, FS_Union DEF RulesetOwners
<1>4. IsFiniteSet(HandleId)
  BY FS_Interval DEF HandleId
<1>5. IsFiniteSet(BuilderOwners(h))
  BY <1>4, FS_Subset DEF BuilderOwners
<1> QED
  BY <1>3, <1>5, FS_CardinalityType, FS_EmptySet

\* Counting one owner more, or one less.
LEMMA OneMore ==
    ASSUME NEW S, NEW x, IsFiniteSet(S), x \notin S
    PROVE  Cardinality(S \cup {x}) = Cardinality(S) + 1 /\ S \cup {x} # {}
BY FS_AddElement

LEMMA OneLess ==
    ASSUME NEW S, NEW x \in S, IsFiniteSet(S)
    PROVE  /\ Cardinality(S \ {x}) = Cardinality(S) - 1
           /\ S \ {x} = {} <=> Cardinality(S) = 1
<1>1. Cardinality(S \ {x}) = Cardinality(S) - 1 /\ IsFiniteSet(S \ {x})
  BY FS_RemoveElement
<1>2. Cardinality(S) \in Nat /\ (S \ {x} = {} <=> Cardinality(S \ {x}) = 0)
  BY <1>1, FS_CardinalityType, FS_EmptySet
<1> QED
  BY <1>1, <1>2

-----------------------------------------------------------------------------
(* Where the owners, and what they own, are left alone. *)

Kept(h) ==
    /\ rulesetRefs'[h] = rulesetRefs[h] /\ (targets'[h] = {} <=> targets[h] = {})
    /\ RulesetOwners(h)' = RulesetOwners(h)

BuilderKept(h) ==
    /\ builderRefs'[h] = builderRefs[h] /\ (known'[h] = {} <=> known[h] = {})
    /\ BuilderOwners(h)' = BuilderOwners(h)

RulesetCounted(h) ==
    /\ rulesetRefs[h] = Cardinality(RulesetOwners(h))
    /\ targets[h] # {} <=> RulesetOwners(h) # {}

BuilderCounted(h) ==
    /\ builderRefs[h] = Cardinality(BuilderOwners(h))
    /\ known[h] # {} <=> BuilderOwners(h) # {}

Counted == \A h \in HandleId : RulesetCounted(h) /\ BuilderCounted(h)

LEMMA CountedIsOwned == HandleInv => Counted
BY DEF HandleInv, CountsInv, OwnedInv, Counted, RulesetCounted, BuilderCounted

LEMMA OwnedIsCounted == Counted' => CountsInv' /\ OwnedInv'
BY DEF CountsInv, OwnedInv, Counted, RulesetCounted, BuilderCounted

LEMMA RulesetKept ==
    ASSUME NEW h \in HandleId, RulesetCounted(h), Kept(h) PROVE RulesetCounted(h)'
BY DEF RulesetCounted, Kept

LEMMA BuilderStays ==
    ASSUME NEW h \in HandleId, BuilderCounted(h), BuilderKept(h) PROVE BuilderCounted(h)'
BY DEF BuilderCounted, BuilderKept

\* The calls that touch no owner: those that ask for addresses, and updates
\* up to the point where they build.
LEMMA NoOwnerChanges ==
    ASSUME HandleInv, UNCHANGED <<owners, targets>>,
           \A h \in HandleId : known'[h] = {} <=> known[h] = {}
    PROVE  Counted' /\ MadeInv'
<1>1. Counted
  BY CountedIsOwned
<1>2. ASSUME NEW h \in HandleId PROVE Kept(h) /\ BuilderKept(h)
  BY DEF owners, Kept, BuilderKept, RulesetOwners, BuilderOwners
<1> QED
  BY <1>1, <1>2, RulesetKept, BuilderStays DEF Counted, HandleInv, MadeInv, owners

-----------------------------------------------------------------------------
(* One lemma per call. *)

LEMMA CreateInv ==
    ASSUME HandleInv, NEW t \in Thread, NEW stated \in {"none", "malformed", "1", "2", "3"},
           Create(t, stated)
    PROVE  HandleInv'
<1>1. PICK h \in HandleId, found \in (SUBSET Target) \ {{}} :
         /\ New(h)
         /\ handle' = [handle EXCEPT ![h] = "live"]
         /\ rulesetRefs' = [rulesetRefs EXCEPT ![h] = 1]
         /\ targets' = [targets EXCEPT ![h] = found]
         /\ IF Version(stated) = "1"
            THEN UNCHANGED <<builder, builderRefs, known>>
            ELSE /\ builder' = [builder EXCEPT ![h] = h]
                 /\ builderRefs' = [builderRefs EXCEPT ![h] = 1]
                 /\ known' = [known EXCEPT ![h] = found]
  BY DEF Create
<1>2. /\ UNCHANGED <<context, arrays, call>> /\ handle[h] = "none"
      /\ h # 0 /\ h \in 0..MaxHandles
  BY <1>1 DEF Create, New, HandleId
<1>3. /\ OwnerType /\ TargetType /\ ArrayType /\ CallType
      /\ CallsInv /\ UpdatesInv /\ MadeInv /\ Counted
  BY TypeParts, CountedIsOwned DEF HandleInv
<1>4. /\ builder' \in [HandleId -> 0..MaxHandles] /\ builderRefs' \in [HandleId -> Nat]
      /\ known' \in [HandleId -> SUBSET Target]
      /\ \A g \in HandleId : g # h => builder'[g] = builder[g] /\ builderRefs'[g] = builderRefs[g]
                                      /\ known'[g] = known[g]
  BY <1>1, <1>2, <1>3 DEF OwnerType, TargetType
<1>5. TypeOK'
  <2>1. OwnerType' /\ TargetType'
    BY <1>1, <1>2, <1>3, <1>4 DEF OwnerType, TargetType
  <2>2. ArrayType' /\ CallType'
    BY <1>2, <1>3 DEF ArrayType, CallType, arrays
  <2> QED
    BY <2>1, <2>2, NextTypeParts
<1>6. CallsInv' /\ UpdatesInv'
  <2> SUFFICES ASSUME NEW u \in Thread, call[u].op # "none"
               PROVE  /\ call[u].handle \in HandleId /\ handle'[call[u].handle] = "live"
                      /\ call[u].op = "update" => builder'[call[u].handle] # 0
    BY <1>2 DEF CallsInv, UpdatesInv
  <2>1. call[u].handle \in HandleId /\ handle[call[u].handle] = "live"
    BY <1>3 DEF CallsInv
  <2>2. call[u].handle # h
    BY <1>2, <2>1
  <2> QED
    BY <1>1, <1>3, <1>4, <2>1, <2>2 DEF UpdatesInv, OwnerType
<1>7. MadeInv'
  <2>1. \A g \in HandleId : handle'[g] # "live" => g # h /\ handle[g] = handle'[g]
    BY <1>1, <1>3 DEF OwnerType
  <2>2. \A g \in HandleId : builder'[g] \in {builder[g], h}
    BY <1>1, <1>3 DEF OwnerType
  <2> QED
    BY <1>2, <1>3, <1>4, <2>1, <2>2 DEF MadeInv
<1>8. \A g \in HandleId : RulesetCounted(g)'
  <2>1. ASSUME NEW g \in HandleId, g # h PROVE Kept(g)
    BY <1>1, <1>2, <1>3, <2>1 DEF Kept, RulesetOwners, OwnerType, TargetType
  <2>2. RulesetOwners(h)' = {0}
    BY <1>1, <1>2, <1>3 DEF RulesetOwners, MadeInv, OwnerType
  <2>3. rulesetRefs'[h] = 1 /\ targets'[h] # {}
    BY <1>1, <1>3 DEF OwnerType, TargetType
  <2>4. RulesetCounted(h)'
    BY <2>2, <2>3, FS_Singleton DEF RulesetCounted
  <2> QED
    BY <1>3, <2>1, <2>4, RulesetKept DEF Counted
<1>9. \A g \in HandleId : BuilderCounted(g)'
  <2>1. ASSUME NEW g \in HandleId, g # h \/ Version(stated) = "1" PROVE BuilderKept(g)
    <3>1. builder'[h] # g /\ builder[h] # g
      <4>1. builder[h] = 0 /\ g # 0
        BY <1>2, <1>3 DEF MadeInv, HandleId
      <4>2. builder'[h] = IF Version(stated) = "1" THEN 0 ELSE h
        BY <1>1, <1>3, <4>1 DEF OwnerType
      <4> QED
        BY <2>1, <4>1, <4>2
    <3>2. \A k \in HandleId : k # h => handle'[k] = handle[k] /\ builder'[k] = builder[k]
      BY <1>1, <1>3, <1>4 DEF OwnerType
    <3>3. BuilderOwners(g)' = BuilderOwners(g)
      BY <3>1, <3>2 DEF BuilderOwners
    <3>4. builderRefs'[g] = builderRefs[g] /\ known'[g] = known[g]
      BY <1>1, <1>4, <2>1
    <3> QED
      BY <3>3, <3>4 DEF BuilderKept
  <2>2. CASE Version(stated) # "1"
    <3>1. /\ builder'[h] = h /\ builderRefs'[h] = 1 /\ known'[h] = found /\ handle'[h] = "live"
      BY <1>1, <1>3, <2>2 DEF OwnerType, TargetType
    <3>2. \A k \in HandleId : builder'[k] = h => k = h
      BY <1>2, <1>3, <1>4 DEF MadeInv
    <3>3. BuilderOwners(h)' = {h}
      BY <3>1, <3>2 DEF BuilderOwners
    <3>4. BuilderCounted(h)'
      BY <1>1, <3>1, <3>3, FS_Singleton DEF BuilderCounted
    <3> QED
      BY <1>3, <2>1, <3>4, BuilderStays DEF Counted
  <2>3. CASE Version(stated) = "1"
    BY <1>3, <2>1, <2>3, BuilderStays DEF Counted
  <2> QED
    BY <2>2, <2>3
<1> QED
  BY <1>5, <1>6, <1>7, <1>8, <1>9, OwnedIsCounted DEF HandleInv, Counted

\* The builder of the handle that a thread updates.
LEMMA UpdatedBuilder ==
    ASSUME OwnerType, CallsInv, UpdatesInv, NEW t \in Thread, call[t].op = "update"
    PROVE  /\ call[t].handle \in HandleId /\ handle[call[t].handle] = "live"
           /\ builder[call[t].handle] \in HandleId
<1>1. call[t].handle \in HandleId /\ handle[call[t].handle] = "live"
  BY DEF CallsInv
<1>2. builder[call[t].handle] # 0
  BY DEF UpdatesInv
<1>3. builder[call[t].handle] \in 0..MaxHandles
  BY <1>1 DEF OwnerType
<1> QED
  BY <1>1, <1>2, <1>3 DEF HandleId

LEMMA UpdateBuildsInv ==
    ASSUME HandleInv, NEW t \in Thread, UpdateBuilds(t) PROVE HandleInv'
<1>1. /\ OwnerType /\ TargetType /\ ArrayType /\ CallType
      /\ CallsInv /\ UpdatesInv /\ MadeInv /\ Counted
  BY TypeParts, CountedIsOwned DEF HandleInv
<1>2. PICK b \in HandleId :
         b = builder[call[t].handle] /\ handle[call[t].handle] = "live"
                                     /\ call[t].handle \in HandleId
  <2>1. call[t].op = "update"
    BY DEF UpdateBuilds
  <2> QED
    BY <1>1, <2>1, UpdatedBuilder
<1>3. PICK h \in HandleId, used \in (SUBSET known[b]) \ {{}} :
         /\ New(h)
         /\ known' = [known EXCEPT ![b] = used]
         /\ targets' = [targets EXCEPT ![h] = used]
         /\ handle' = [handle EXCEPT ![h] = "live"]
         /\ builder' = [builder EXCEPT ![h] = b]
         /\ rulesetRefs' = [rulesetRefs EXCEPT ![h] = 1]
         /\ builderRefs' = [builderRefs EXCEPT ![b] = @ + 1]
  BY <1>2 DEF UpdateBuilds
<1>4. /\ UNCHANGED <<context, arrays>> /\ call' = [call EXCEPT ![t] = Idle]
      /\ handle[h] = "none" /\ b # h /\ h # 0 /\ b # 0
  BY <1>1, <1>2, <1>3 DEF UpdateBuilds, New, MadeInv, HandleId
<1>5. TypeOK'
  <2>1. OwnerType'
    <3>1. b \in 0..MaxHandles /\ builderRefs[b] + 1 \in Nat /\ 1 \in Nat
      BY <1>1 DEF OwnerType, HandleId
    <3> QED
      BY <1>1, <1>3, <1>4, <3>1 DEF OwnerType
  <2>2. TargetType'
    <3>1. used \in SUBSET Target
      BY <1>1, <1>3 DEF TargetType
    <3> QED
      BY <1>1, <1>3, <3>1 DEF TargetType
  <2>3. ArrayType' /\ CallType'
    BY <1>1, <1>4, IdleCall DEF ArrayType, CallType, arrays
  <2> QED
    BY <2>1, <2>2, <2>3, NextTypeParts
<1>6. /\ \A g \in HandleId : g # h => handle'[g] = handle[g] /\ builder'[g] = builder[g]
                                      /\ targets'[g] = targets[g] /\ rulesetRefs'[g] = rulesetRefs[g]
      /\ \A g \in HandleId : g # b => known'[g] = known[g] /\ builderRefs'[g] = builderRefs[g]
      /\ handle'[h] = "live" /\ builder'[h] = b /\ rulesetRefs'[h] = 1
      /\ targets'[h] # {} /\ known'[b] # {} /\ builderRefs'[b] = builderRefs[b] + 1
  BY <1>1, <1>3 DEF OwnerType, TargetType
<1>7. CallsInv' /\ UpdatesInv'
  <2> SUFFICES ASSUME NEW u \in Thread, call'[u].op # "none"
               PROVE  /\ call'[u].handle \in HandleId /\ handle'[call'[u].handle] = "live"
                      /\ call'[u].op = "update" => builder'[call'[u].handle] # 0
    BY DEF CallsInv, UpdatesInv
  <2>1. call'[u] = call[u]
    BY <1>1, <1>4 DEF CallType, Idle
  <2>2. call[u].handle \in HandleId /\ handle[call[u].handle] = "live"
    BY <1>1, <2>1 DEF CallsInv
  <2>3. call[u].handle # h
    BY <1>4, <2>2
  <2> QED
    BY <1>1, <1>6, <2>1, <2>2, <2>3 DEF UpdatesInv
<1>8. MadeInv'
  <2>1. \A g \in HandleId : handle'[g] # "live" => g # h /\ handle[g] = handle'[g]
    BY <1>6
  <2>2. handle[b] # "none"
    BY <1>1, <1>2 DEF MadeInv
  <2>3. \A g \in HandleId : builder'[g] \in {builder[g], b}
    BY <1>6
  <2> QED
    BY <1>1, <1>4, <1>6, <2>1, <2>2, <2>3 DEF MadeInv
<1>9. \A g \in HandleId : RulesetCounted(g)'
  <2>1. ASSUME NEW g \in HandleId, g # h PROVE Kept(g)
    BY <1>4, <1>6, <2>1 DEF Kept, RulesetOwners
  <2>2. RulesetOwners(h)' = {0}
    BY <1>1, <1>4, <1>6 DEF RulesetOwners, MadeInv
  <2>3. RulesetCounted(h)'
    BY <1>6, <2>2, FS_Singleton DEF RulesetCounted
  <2> QED
    BY <1>1, <2>1, <2>3, RulesetKept DEF Counted
<1>10. \A g \in HandleId : BuilderCounted(g)'
  <2>1. ASSUME NEW g \in HandleId, g # b PROVE BuilderKept(g)
    <3>1. builder[h] = 0 /\ g # 0
      BY <1>1, <1>4 DEF MadeInv, HandleId
    <3>2. BuilderOwners(g)' = BuilderOwners(g)
      BY <1>6, <2>1, <3>1 DEF BuilderOwners
    <3> QED
      BY <1>6, <2>1, <3>2 DEF BuilderKept
  <2>2. BuilderOwners(b)' = BuilderOwners(b) \cup {h} /\ h \notin BuilderOwners(b)
    BY <1>4, <1>6 DEF BuilderOwners
  <2>3. BuilderCounted(b)'
    BY <1>1, <1>6, <2>2, OwnersAreFinite, OneMore DEF BuilderCounted, Counted
  <2> QED
    BY <1>1, <2>1, <2>3, BuilderStays DEF Counted
<1> QED
  BY <1>5, <1>7, <1>8, <1>9, <1>10, OwnedIsCounted DEF HandleInv, Counted

LEMMA ContextInitInv ==
    ASSUME HandleInv, NEW t \in Thread, NEW h \in HandleId, ContextInit(t, h) PROVE HandleInv'
<1>1. /\ OwnerType /\ TargetType /\ ArrayType /\ CallType
      /\ CallsInv /\ UpdatesInv /\ MadeInv /\ Counted
  BY TypeParts, CountedIsOwned DEF HandleInv
<1>2. PICK c \in ContextId : context[c] = 0 /\ context' = [context EXCEPT ![c] = h]
  BY DEF ContextInit
<1>3. /\ UNCHANGED <<handle, builder, builderRefs, known, targets, arrays, call>>
      /\ rulesetRefs' = [rulesetRefs EXCEPT ![h] = @ + 1]
      /\ handle[h] = "live" /\ h # 0 /\ h \in 0..MaxHandles /\ c # 0
  BY DEF ContextInit, HandleId
<1>4. TypeOK'
  <2>1. OwnerType'
    BY <1>1, <1>2, <1>3 DEF OwnerType
  <2>2. TargetType' /\ ArrayType' /\ CallType'
    BY <1>1, <1>3 DEF TargetType, ArrayType, CallType, arrays
  <2> QED
    BY <2>1, <2>2, NextTypeParts
<1>5. CallsInv' /\ UpdatesInv'
  BY <1>1, <1>3 DEF CallsInv, UpdatesInv
<1>6. /\ \A d \in ContextId : d # c => context'[d] = context[d]
      /\ context'[c] = h /\ rulesetRefs'[h] = rulesetRefs[h] + 1
      /\ \A g \in HandleId : g # h => rulesetRefs'[g] = rulesetRefs[g]
  BY <1>1, <1>2, <1>3 DEF OwnerType
<1>7. MadeInv'
  BY <1>1, <1>3, <1>6 DEF MadeInv
<1>8. \A g \in HandleId : RulesetCounted(g)'
  <2>1. ASSUME NEW g \in HandleId, g # h PROVE Kept(g)
    <3>1. g # 0
      BY DEF HandleId
    <3> QED
      BY <1>2, <1>3, <1>6, <2>1, <3>1 DEF Kept, RulesetOwners
  <2>2. RulesetOwners(h)' = RulesetOwners(h) \cup {c} /\ c \notin RulesetOwners(h)
    BY <1>2, <1>3, <1>6 DEF RulesetOwners
  <2>3. 0 \in RulesetOwners(h)
    BY <1>3 DEF RulesetOwners
  <2>4. RulesetCounted(h)'
    BY <1>1, <1>3, <1>6, <2>2, <2>3, OwnersAreFinite, OneMore DEF RulesetCounted, Counted
  <2> QED
    BY <1>1, <2>1, <2>4, RulesetKept DEF Counted
<1>9. \A g \in HandleId : BuilderCounted(g)'
  <2>1. ASSUME NEW g \in HandleId PROVE BuilderKept(g)
    BY <1>3 DEF BuilderKept, BuilderOwners
  <2> QED
    BY <1>1, <2>1, BuilderStays DEF Counted
<1> QED
  BY <1>4, <1>5, <1>7, <1>8, <1>9, OwnedIsCounted DEF HandleInv, Counted

\* An owner of a ruleset less: it is freed with the last one.
LEMMA DropRulesetCounts ==
    ASSUME OwnerType, TargetType, ArrayType, NEW h \in HandleId, NEW owner \in RulesetOwners(h),
           RulesetCounted(h), DropRuleset(h), RulesetOwners(h)' = RulesetOwners(h) \ {owner}
    PROVE  /\ rulesetRefs' \in [HandleId -> Nat] /\ targets' \in [HandleId -> SUBSET Target]
           /\ ArrayType'
           /\ RulesetCounted(h)'
           /\ \A g \in HandleId : g # h => rulesetRefs'[g] = rulesetRefs[g] /\ targets'[g] = targets[g]
<1>1. /\ rulesetRefs[h] = Cardinality(RulesetOwners(h)) /\ rulesetRefs[h] \in Nat
      /\ targets[h] # {}
  BY DEF RulesetCounted, OwnerType
<1>2. /\ Cardinality(RulesetOwners(h) \ {owner}) = rulesetRefs[h] - 1
      /\ RulesetOwners(h) \ {owner} = {} <=> rulesetRefs[h] = 1
  BY <1>1, OwnersAreFinite, OneLess
<1>3. rulesetRefs[h] # 0
  BY <1>1, OwnersAreFinite
<1>4. rulesetRefs' = [rulesetRefs EXCEPT ![h] = rulesetRefs[h] - 1] /\ rulesetRefs[h] - 1 \in Nat
  BY <1>1, <1>3 DEF DropRuleset
<1>5. /\ rulesetRefs' \in [HandleId -> Nat] /\ rulesetRefs'[h] = rulesetRefs[h] - 1
      /\ \A g \in HandleId : g # h => rulesetRefs'[g] = rulesetRefs[g]
  BY <1>4 DEF OwnerType
<1>6. CASE rulesetRefs[h] > 1
  <2>1. UNCHANGED <<targets, arrays>>
    BY <1>6 DEF DropRuleset
  <2> QED
    BY <1>1, <1>2, <1>5, <1>6, <2>1 DEF RulesetCounted, TargetType, ArrayType, arrays
<1>7. CASE ~(rulesetRefs[h] > 1)
  <2>1. rulesetRefs[h] = 1
    BY <1>1, <1>3, <1>7
  <2>2. /\ targets' = [targets EXCEPT ![h] = {}]
        /\ addresses' = [addresses EXCEPT ![h] = <<>>]
        /\ grown' = [grown EXCEPT ![h] = 0]
        /\ given' \subseteq given
    BY <1>7 DEF DropRuleset
  <2>3. ArrayType'
    <3>1. << >> \in Seq(Target)
      OBVIOUS
    <3> QED
      BY <2>2, <3>1 DEF ArrayType
  <2>4. /\ targets' \in [HandleId -> SUBSET Target] /\ targets'[h] = {}
        /\ \A g \in HandleId : g # h => targets'[g] = targets[g]
    BY <2>2 DEF TargetType
  <2> QED
    BY <1>2, <1>5, <2>1, <2>3, <2>4 DEF RulesetCounted
<1> QED
  BY <1>6, <1>7

\* The same of a builder.
LEMMA DropBuilderCounts ==
    ASSUME OwnerType, TargetType, NEW b \in HandleId, NEW owner \in BuilderOwners(b),
           BuilderCounted(b), DropBuilder(b), BuilderOwners(b)' = BuilderOwners(b) \ {owner}
    PROVE  /\ builderRefs' \in [HandleId -> Nat] /\ known' \in [HandleId -> SUBSET Target]
           /\ BuilderCounted(b)'
           /\ \A g \in HandleId : g # b => builderRefs'[g] = builderRefs[g] /\ known'[g] = known[g]
<1>1. /\ builderRefs[b] = Cardinality(BuilderOwners(b)) /\ builderRefs[b] \in Nat
      /\ known[b] # {} /\ b # 0
  BY DEF BuilderCounted, OwnerType, HandleId
<1>2. /\ Cardinality(BuilderOwners(b) \ {owner}) = builderRefs[b] - 1
      /\ BuilderOwners(b) \ {owner} = {} <=> builderRefs[b] = 1
  BY <1>1, OwnersAreFinite, OneLess
<1>3. builderRefs[b] # 0
  BY <1>1, OwnersAreFinite
<1>4. /\ builderRefs' = [builderRefs EXCEPT ![b] = builderRefs[b] - 1] /\ builderRefs[b] - 1 \in Nat
      /\ known' = IF builderRefs[b] > 1 THEN known ELSE [known EXCEPT ![b] = {}]
  BY <1>1, <1>3 DEF DropBuilder
<1>5. /\ builderRefs' \in [HandleId -> Nat] /\ builderRefs'[b] = builderRefs[b] - 1
      /\ \A g \in HandleId : g # b => builderRefs'[g] = builderRefs[g]
  BY <1>4 DEF OwnerType
<1>6. /\ known' \in [HandleId -> SUBSET Target]
      /\ known'[b] = IF builderRefs[b] > 1 THEN known[b] ELSE {}
      /\ \A g \in HandleId : g # b => known'[g] = known[g]
  BY <1>4 DEF TargetType
<1> QED
  BY <1>1, <1>2, <1>3, <1>5, <1>6 DEF BuilderCounted

LEMMA ContextDestroyInv ==
    ASSUME HandleInv, NEW t \in Thread, NEW c \in ContextId, ContextDestroy(t, c) PROVE HandleInv'
<1>1. /\ OwnerType /\ TargetType /\ ArrayType /\ CallType
      /\ CallsInv /\ UpdatesInv /\ MadeInv /\ Counted
  BY TypeParts, CountedIsOwned DEF HandleInv
<1>2. PICK h \in HandleId : context[c] = h
  BY <1>1 DEF ContextDestroy, OwnerType, HandleId
<1>3. /\ UNCHANGED <<handle, builder, builderRefs, known, call>>
      /\ context' = [context EXCEPT ![c] = 0]
      /\ DropRuleset(h) /\ h # 0 /\ c # 0
  BY <1>2 DEF ContextDestroy, HandleId
<1>4. context'[c] = 0 /\ \A d \in ContextId : d # c => context'[d] = context[d]
  BY <1>1, <1>3 DEF OwnerType
<1>5. c \in RulesetOwners(h) /\ RulesetOwners(h)' = RulesetOwners(h) \ {c}
  BY <1>2, <1>3, <1>4 DEF RulesetOwners
<1>6. /\ rulesetRefs' \in [HandleId -> Nat] /\ targets' \in [HandleId -> SUBSET Target]
      /\ ArrayType' /\ RulesetCounted(h)'
      /\ \A g \in HandleId : g # h => rulesetRefs'[g] = rulesetRefs[g] /\ targets'[g] = targets[g]
  BY <1>1, <1>3, <1>5, DropRulesetCounts DEF Counted
<1>7. TypeOK'
  <2>1. OwnerType'
    BY <1>1, <1>3, <1>6 DEF OwnerType
  <2>2. TargetType' /\ CallType'
    BY <1>1, <1>3, <1>6 DEF TargetType, CallType
  <2> QED
    BY <1>6, <2>1, <2>2, NextTypeParts
<1>8. CallsInv' /\ UpdatesInv' /\ MadeInv'
  <2>1. \A h1 \in HandleId : h1 # 0
    BY DEF HandleId
  <2> QED
    BY <1>1, <1>3, <1>4, <2>1 DEF CallsInv, UpdatesInv, MadeInv
<1>9. \A g \in HandleId : RulesetCounted(g)' /\ BuilderCounted(g)'
  <2>1. ASSUME NEW g \in HandleId, g # h PROVE Kept(g)
    <3>1. g # 0
      BY DEF HandleId
    <3> QED
      BY <1>2, <1>3, <1>4, <1>6, <2>1, <3>1 DEF Kept, RulesetOwners
  <2>2. ASSUME NEW g \in HandleId PROVE BuilderKept(g)
    BY <1>3 DEF BuilderKept, BuilderOwners
  <2> QED
    BY <1>1, <1>6, <2>1, <2>2, RulesetKept, BuilderStays DEF Counted
<1> QED
  BY <1>7, <1>8, <1>9, OwnedIsCounted DEF HandleInv, Counted

LEMMA DestroyInv ==
    ASSUME HandleInv, NEW t \in Thread, NEW h \in HandleId, Destroy(t, h) PROVE HandleInv'
<1>1. /\ OwnerType /\ TargetType /\ ArrayType /\ CallType
      /\ CallsInv /\ UpdatesInv /\ MadeInv /\ Counted
  BY TypeParts, CountedIsOwned DEF HandleInv
<1>2. /\ UNCHANGED <<context, call>>
      /\ handle[h] = "live" /\ ~InUse(h)
      /\ handle' = [handle EXCEPT ![h] = "destroyed"]
      /\ builder' = [builder EXCEPT ![h] = 0]
      /\ DropRuleset(h) /\ DropBuilder(builder[h])
  BY DEF Destroy
<1>3. /\ handle'[h] = "destroyed" /\ builder'[h] = 0
      /\ \A g \in HandleId : g # h => handle'[g] = handle[g] /\ builder'[g] = builder[g]
  BY <1>1, <1>2 DEF OwnerType
<1>4. 0 \in RulesetOwners(h) /\ RulesetOwners(h)' = RulesetOwners(h) \ {0}
  BY <1>2, <1>3 DEF RulesetOwners
<1>5. /\ rulesetRefs' \in [HandleId -> Nat] /\ targets' \in [HandleId -> SUBSET Target]
      /\ ArrayType' /\ RulesetCounted(h)'
      /\ \A g \in HandleId : g # h => rulesetRefs'[g] = rulesetRefs[g] /\ targets'[g] = targets[g]
  BY <1>1, <1>2, <1>4, DropRulesetCounts DEF Counted
<1>6. \A g \in HandleId : RulesetCounted(g)'
  <2>1. ASSUME NEW g \in HandleId, g # h PROVE Kept(g)
    BY <1>2, <1>3, <1>5, <2>1 DEF Kept, RulesetOwners
  <2> QED
    BY <1>1, <1>5, <2>1, RulesetKept DEF Counted
<1>7. /\ builderRefs' \in [HandleId -> Nat] /\ known' \in [HandleId -> SUBSET Target]
      /\ \A g \in HandleId : BuilderCounted(g)'
  <2>1. ASSUME NEW g \in HandleId, g # builder[h] PROVE BuilderOwners(g)' = BuilderOwners(g)
    BY <1>2, <1>3, <2>1 DEF BuilderOwners, HandleId
  <2>2. CASE builder[h] = 0
    <3>1. UNCHANGED <<builderRefs, known>>
      BY <1>2, <2>2 DEF DropBuilder
    <3>2. \A g \in HandleId : BuilderKept(g)
      BY <2>1, <2>2, <3>1 DEF BuilderKept, HandleId
    <3> QED
      BY <1>1, <3>1, <3>2, BuilderStays DEF Counted, OwnerType, TargetType
  <2>3. CASE builder[h] # 0
    <3>1. PICK b \in HandleId : b = builder[h]
      BY <1>1, <2>3 DEF OwnerType, HandleId
    <3>2. h \in BuilderOwners(b) /\ BuilderOwners(b)' = BuilderOwners(b) \ {h}
      BY <1>2, <1>3, <3>1 DEF BuilderOwners
    <3>3. /\ builderRefs' \in [HandleId -> Nat] /\ known' \in [HandleId -> SUBSET Target]
          /\ BuilderCounted(b)'
          /\ \A g \in HandleId : g # b => builderRefs'[g] = builderRefs[g] /\ known'[g] = known[g]
      BY <1>1, <1>2, <3>1, <3>2, DropBuilderCounts DEF Counted
    <3>4. ASSUME NEW g \in HandleId, g # b PROVE BuilderKept(g)
      BY <2>1, <3>1, <3>3, <3>4 DEF BuilderKept
    <3> QED
      BY <1>1, <3>3, <3>4, BuilderStays DEF Counted
  <2> QED
    BY <2>2, <2>3
<1>8. TypeOK'
  <2>1. OwnerType'
    <3>1. 0 \in 0..MaxHandles
      OBVIOUS
    <3> QED
      BY <1>1, <1>2, <1>5, <1>7, <3>1 DEF OwnerType
  <2>2. TargetType' /\ CallType'
    BY <1>1, <1>2, <1>5, <1>7 DEF TargetType, CallType
  <2> QED
    BY <1>5, <2>1, <2>2, NextTypeParts
<1>9. CallsInv' /\ UpdatesInv'
  <2>1. \A u \in Thread : call[u].handle # h
    BY <1>2 DEF InUse
  <2> QED
    BY <1>1, <1>2, <1>3, <2>1 DEF CallsInv, UpdatesInv
<1>10. MadeInv'
  <2>1. \A g \in HandleId : handle'[g] = "none" => handle[g] = "none" /\ g # 0
    BY <1>3 DEF HandleId
  <2> QED
    BY <1>1, <1>2, <1>3, <2>1 DEF MadeInv
<1> QED
  BY <1>6, <1>7, <1>8, <1>9, <1>10, OwnedIsCounted DEF HandleInv, Counted

LEMMA UpdateInv ==
    ASSUME HandleInv, NEW t \in Thread,
           (\E h \in HandleId : BeginUpdate(t, h)) \/ UpdateParses(t) \/ UpdateFails(t)
    PROVE  HandleInv'
<1>1. /\ OwnerType /\ TargetType /\ ArrayType /\ CallType
      /\ CallsInv /\ UpdatesInv /\ MadeInv /\ Counted
  BY TypeParts, CountedIsOwned DEF HandleInv
<1>2. UNCHANGED <<owners, targets, arrays>>
  BY DEF BeginUpdate, UpdateParses, UpdateFails
<1>3. known' \in [HandleId -> SUBSET Target] /\ \A g \in HandleId : known'[g] = {} <=> known[g] = {}
  <2>1. CASE UpdateParses(t)
    <3>1. PICK b \in HandleId : b = builder[call[t].handle]
      <4>1. call[t].op = "update"
        BY <2>1 DEF UpdateParses
      <4> QED
        BY <1>1, <4>1, UpdatedBuilder
    <3>2. PICK found \in SUBSET Target : known' = [known EXCEPT ![b] = @ \cup found]
      BY <2>1, <3>1 DEF UpdateParses
    <3>3. known[b] # {}
      <4>1. call[t].handle \in BuilderOwners(b)
        BY <1>1, <2>1, <3>1 DEF UpdateParses, CallsInv, BuilderOwners
      <4> QED
        BY <1>1, <4>1 DEF Counted, BuilderCounted
    <3> QED
      BY <1>1, <3>2, <3>3 DEF TargetType
  <2>2. CASE (\E h \in HandleId : BeginUpdate(t, h)) \/ UpdateFails(t)
    BY <1>1, <2>2 DEF BeginUpdate, UpdateFails, TargetType
  <2> QED
    BY <2>1, <2>2
<1>4. CallType' /\ CallsInv' /\ UpdatesInv'
  <2>1. CASE UpdateParses(t)
    BY <1>1, <1>2, <2>1 DEF UpdateParses, CallType, CallsInv, UpdatesInv, owners
  <2>2. ASSUME NEW h \in HandleId, BeginUpdate(t, h) PROVE CallType' /\ CallsInv' /\ UpdatesInv'
    <3>1. /\ call' = [call EXCEPT ![t] = [op |-> "update", handle |-> h, left |-> {}]]
          /\ handle[h] = "live" /\ builder[h] # 0
      BY <2>2 DEF BeginUpdate
    <3>2. [op |-> "update", handle |-> h, left |-> {}] \in Calls
      BY DEF Calls, HandleId
    <3>3. \A u \in Thread : call'[u] = IF u = t THEN [op |-> "update", handle |-> h, left |-> {}]
                                                ELSE call[u]
      BY <1>1, <3>1 DEF CallType
    <3> QED
      BY <1>1, <1>2, <3>1, <3>2, <3>3 DEF CallType, CallsInv, UpdatesInv, owners
  <2>3. CASE UpdateFails(t)
    <3>1. \A u \in Thread : call'[u] = IF u = t THEN Idle ELSE call[u]
      BY <1>1, <2>3 DEF UpdateFails, CallType
    <3>2. Idle.op = "none"
      BY DEF Idle
    <3>3. CallType'
      BY <1>1, <2>3, IdleCall DEF UpdateFails, CallType
    <3> QED
      BY <1>1, <1>2, <3>1, <3>2, <3>3 DEF CallsInv, UpdatesInv, owners
  <2> QED
    BY <2>1, <2>2, <2>3
<1>5. Counted' /\ MadeInv'
  BY <1>2, <1>3, NoOwnerChanges
<1>6. TypeOK'
  BY <1>1, <1>2, <1>3, <1>4, NextTypeParts DEF OwnerType, TargetType, ArrayType, owners, arrays
<1> QED
  BY <1>4, <1>5, <1>6, OwnedIsCounted DEF HandleInv

LEMMA GiveType ==
    ASSUME ArrayType, NEW h \in HandleId, Give(h), UNCHANGED <<addresses, grown>>
    PROVE  ArrayType'
<1>1. Len(addresses[h]) \in Nat /\ grown[h] \in Nat
  BY DEF ArrayType
<1>2. [ruleset |-> h, size |-> Len(addresses[h]), moved |-> grown[h]]
         \in [ruleset : HandleId, size : Nat, moved : Nat]
  BY <1>1
<1> QED
  BY <1>2 DEF ArrayType, Give

LEMMA AddressesInv ==
    ASSUME HandleInv, NEW t \in Thread,
           \/ \E h \in HandleId : AddressesKnown(t, h) \/ AddressesMissing(t, h)
           \/ AddAddress(t) \/ AddressesFilled(t)
    PROVE  HandleInv'
<1>1. /\ OwnerType /\ TargetType /\ ArrayType /\ CallType /\ CallsInv /\ UpdatesInv
  BY TypeParts DEF HandleInv
<1>2. UNCHANGED <<owners, known, targets>>
  BY DEF AddressesKnown, AddressesMissing, AddAddress, AddressesFilled
<1>3. ArrayType' /\ CallType' /\ CallsInv' /\ UpdatesInv'
  <2>1. ASSUME NEW h \in HandleId, AddressesKnown(t, h)
        PROVE  ArrayType' /\ CallType' /\ CallsInv' /\ UpdatesInv'
    <3>1. ArrayType'
      BY <1>1, <2>1, GiveType DEF AddressesKnown
    <3> QED
      BY <1>1, <1>2, <2>1, <3>1 DEF AddressesKnown, CallType, CallsInv, UpdatesInv, owners
  <2>2. ASSUME NEW h \in HandleId, AddressesMissing(t, h)
        PROVE  ArrayType' /\ CallType' /\ CallsInv' /\ UpdatesInv'
    <3>1. /\ call' = [call EXCEPT ![t] = [op |-> "fill", handle |-> h, left |-> targets[h]]]
          /\ handle[h] = "live" /\ UNCHANGED arrays
      BY <2>2 DEF AddressesMissing
    <3>2. [op |-> "fill", handle |-> h, left |-> targets[h]] \in Calls
      BY <1>1 DEF Calls, HandleId, TargetType
    <3>3. \A u \in Thread :
             call'[u] = IF u = t THEN [op |-> "fill", handle |-> h, left |-> targets[h]] ELSE call[u]
      BY <1>1, <3>1 DEF CallType
    <3> QED
      BY <1>1, <1>2, <3>1, <3>2, <3>3 DEF ArrayType, CallType, CallsInv, UpdatesInv, owners, arrays
  <2>3. CASE AddAddress(t)
    <3>1. PICK target \in call[t].left :
             /\ call' = [call EXCEPT ![t].left = @ \ {target}]
             /\ addresses' = [addresses EXCEPT ![call[t].handle] = Append(@, target)]
      BY <2>3 DEF AddAddress
    <3>2. call[t] \in Calls /\ call[t].handle \in HandleId /\ target \in Target
      BY <1>1, <2>3, <3>1 DEF AddAddress, CallType, Calls, CallsInv
    <3>3. ArrayType'
      <4>1. addresses[call[t].handle] \in Seq(Target) /\ grown[call[t].handle] \in Nat
        BY <1>1, <3>2 DEF ArrayType
      <4>2. Append(addresses[call[t].handle], target) \in Seq(Target)
        BY <3>2, <4>1
      <4>3. addresses' \in [HandleId -> Seq(Target)]
        BY <1>1, <3>1, <4>2 DEF ArrayType
      <4>4. grown' \in [HandleId -> Nat] /\ given' = given
        <5>1. \/ grown' = [grown EXCEPT ![call[t].handle] = grown[call[t].handle] + 1]
              \/ grown' = [grown EXCEPT ![call[t].handle] = grown[call[t].handle]]
          BY <2>3 DEF AddAddress
        <5>2. grown[call[t].handle] + 1 \in Nat
          BY <4>1
        <5>3. grown' \in [HandleId -> Nat]
          BY <1>1, <4>1, <5>1, <5>2 DEF ArrayType
        <5> QED
          BY <2>3, <5>3 DEF AddAddress
      <4> QED
        BY <1>1, <4>3, <4>4 DEF ArrayType
    <3>4. CallType'
      BY <1>1, <3>1, <3>2 DEF CallType, Calls
    <3>5. \A u \in Thread : call'[u].op = call[u].op /\ call'[u].handle = call[u].handle
      BY <1>1, <3>1 DEF CallType, Calls
    <3> QED
      BY <1>1, <1>2, <3>3, <3>4, <3>5 DEF CallsInv, UpdatesInv, owners
  <2>4. CASE AddressesFilled(t)
    <3>1. ArrayType'
      <4>1. call[t].handle \in HandleId
        BY <1>1, <2>4 DEF AddressesFilled, CallsInv
      <4> QED
        BY <1>1, <2>4, <4>1, GiveType DEF AddressesFilled
    <3>2. \A u \in Thread : call'[u] = IF u = t THEN Idle ELSE call[u]
      BY <1>1, <2>4 DEF AddressesFilled, CallType
    <3>3. Idle.op = "none" /\ CallType'
      BY <1>1, <2>4, IdleCall DEF AddressesFilled, CallType, Idle
    <3> QED
      BY <1>1, <1>2, <3>1, <3>2, <3>3 DEF CallsInv, UpdatesInv, owners
  <2> QED
    BY <2>1, <2>2, <2>3, <2>4
<1>4. Counted' /\ MadeInv'
  BY <1>2, NoOwnerChanges
<1>5. TypeOK'
  BY <1>1, <1>2, <1>3, NextTypeParts DEF OwnerType, TargetType, owners
<1> QED
  BY <1>3, <1>4, <1>5, OwnedIsCounted DEF HandleInv

-----------------------------------------------------------------------------
LEMMA InitInv == Init => HandleInv
<1> SUFFICES ASSUME Init PROVE HandleInv
  OBVIOUS
<1>1. TypeOK
  <2>1. 0 \in 0..MaxHandles /\ << >> \in Seq(Target)
    OBVIOUS
  <2>2. OwnerType /\ TargetType /\ ArrayType
    BY <2>1 DEF Init, OwnerType, TargetType, ArrayType
  <2>3. CallType
    BY IdleCall DEF Init, CallType
  <2> QED
    BY <2>2, <2>3, TypeParts
<1>2. CallsInv /\ UpdatesInv
  BY DEF Init, CallsInv, UpdatesInv, Idle
<1>3. MadeInv
  BY DEF Init, MadeInv, HandleId
<1>4. \A h \in HandleId : RulesetOwners(h) = {} /\ BuilderOwners(h) = {}
  BY DEF Init, RulesetOwners, BuilderOwners, HandleId
<1>5. CountsInv /\ OwnedInv
  BY <1>4, FS_EmptySet DEF Init, CountsInv, OwnedInv
<1> QED
  BY <1>1, <1>2, <1>3, <1>5 DEF HandleInv

LEMMA HandleInvCorrect == Spec => []HandleInv
<1>1. HandleInv /\ [Next]_vars => HandleInv'
  <2> SUFFICES ASSUME HandleInv, [Next]_vars PROVE HandleInv'
    OBVIOUS
  <2>1. CASE UNCHANGED vars
    <3>1. TypeOK' /\ CallsInv' /\ UpdatesInv' /\ MadeInv'
      BY <2>1 DEF vars, HandleInv, TypeOK, CallsInv, UpdatesInv, MadeInv
    <3>2. Counted'
      BY <2>1, NoOwnerChanges DEF vars, owners
    <3> QED
      BY <3>1, <3>2, OwnedIsCounted DEF HandleInv
  <2>2. ASSUME NEW t \in Thread,
               \/ \E stated \in {"none", "malformed", "1", "2", "3"} : Create(t, stated)
               \/ UpdateBuilds(t)
               \/ \E h \in HandleId : ContextInit(t, h) \/ Destroy(t, h)
               \/ \E c \in ContextId : ContextDestroy(t, c)
        PROVE  HandleInv'
    BY <2>2, CreateInv, UpdateBuildsInv, ContextInitInv, DestroyInv, ContextDestroyInv
  <2>3. ASSUME NEW t \in Thread,
               \/ \E h \in HandleId : BeginUpdate(t, h)
               \/ UpdateParses(t) \/ UpdateFails(t)
        PROVE  HandleInv'
    BY <2>3, UpdateInv
  <2>4. ASSUME NEW t \in Thread,
               \/ \E h \in HandleId : AddressesKnown(t, h) \/ AddressesMissing(t, h)
               \/ AddAddress(t) \/ AddressesFilled(t)
        PROVE  HandleInv'
    BY <2>4, AddressesInv
  <2> QED
    BY <2>1, <2>2, <2>3, <2>4 DEF Next
<1> QED
  BY <1>1, InitInv, PTL DEF Spec

\* Every variable keeps its type: no use count falls below 0, and no call goes
\* on with a handle that does not exist.
THEOREM HandleTypeCorrect == Spec => []TypeOK
<1>1. HandleInv => TypeOK
  BY DEF HandleInv
<1> QED
  BY <1>1, HandleInvCorrect, PTL

\* A ruleset lives exactly as long as its handle or a context of it does, and a
\* builder as long as a handle that was made from it.
THEOREM OwnershipIsShared == Spec => []FreedWithLastOwner
<1>1. HandleInv => FreedWithLastOwner
  <2> SUFFICES ASSUME HandleInv, NEW h \in HandleId
               PROVE  /\ targets[h] # {} <=> \/ handle[h] = "live"
                                             \/ \E c \in ContextId : context[c] = h
                      /\ known[h] # {} <=> \E g \in HandleId : handle[g] = "live" /\ builder[g] = h
    BY DEF FreedWithLastOwner
  <2>1. targets[h] # {} <=> RulesetOwners(h) # {}
    BY DEF HandleInv, OwnedInv
  <2>2. known[h] # {} <=> BuilderOwners(h) # {}
    BY DEF HandleInv, OwnedInv
  <2> QED
    BY <2>1, <2>2 DEF RulesetOwners, BuilderOwners
<1> QED
  BY <1>1, HandleInvCorrect, PTL
-----------------------------------------------------------------------------
(* The addresses of a ruleset, and the arrays given to callers, when the     *)
(* threads ask for them one at a time (OneAsks).                             *)

Filling(t, h) == call[t].op = "fill" /\ call[t].handle = h

\* A thread that fills an array has left exactly the targets not in it; what
\* was given to a caller is all of an array that nobody fills any more.
Synced(h) ==
    /\ \A t, u \in Thread : Filling(t, h) /\ Filling(u, h) => t = u
    /\ \A t \in Thread : Filling(t, h) => call[t].left = targets[h] \ ToSet(addresses[h])
    /\ ToSet(addresses[h]) \subseteq targets[h]
    /\ IsFiniteSet(ToSet(addresses[h])) /\ Len(addresses[h]) = Cardinality(ToSet(addresses[h]))
    /\ \/ \E t \in Thread : Filling(t, h)
       \/ addresses[h] = << >> \/ ToSet(addresses[h]) = targets[h]
    /\ \A array \in given : array.ruleset = h =>
         /\ \A t \in Thread : ~Filling(t, h)
         /\ addresses[h] # << >>
         /\ array.moved = grown[h] /\ array.size = Len(addresses[h])

SyncInv == \A h \in HandleId : Synced(h)

LEMMA EmptyArray == ToSet(<< >>) = {} /\ \A s \in Seq(Target) : ToSet(s) = {} => s = << >>
<1>1. ToSet(<< >>) = {}
  BY DEF ToSet
<1>2. ASSUME NEW s \in Seq(Target), ToSet(s) = {} PROVE s = << >>
  <2>1. s \in [1..Len(s) -> Target] /\ Len(s) \in Nat
    OBVIOUS
  <2>2. CASE Len(s) # 0
    <3>1. 1 \in DOMAIN s
      BY <2>1, <2>2
    <3> QED
      BY <1>2, <3>1 DEF ToSet
  <2>3. CASE Len(s) = 0
    BY <2>3
  <2> QED
    BY <2>2, <2>3
<1> QED
  BY <1>1, <1>2

LEMMA LongerArray ==
    ASSUME NEW s \in Seq(Target), NEW x \in Target, x \notin ToSet(s),
           IsFiniteSet(ToSet(s)), Len(s) = Cardinality(ToSet(s))
    PROVE  /\ ToSet(Append(s, x)) = ToSet(s) \cup {x}
           /\ IsFiniteSet(ToSet(s) \cup {x})
           /\ Len(Append(s, x)) = Cardinality(ToSet(s) \cup {x})
<1>1. ToSet(Append(s, x)) = ToSet(s) \cup {x}
  BY DEF ToSet
<1>2. IsFiniteSet(ToSet(s) \cup {x}) /\ Cardinality(ToSet(s) \cup {x}) = Cardinality(ToSet(s)) + 1
  BY FS_AddElement
<1> QED
  BY <1>1, <1>2

\* Nothing is in the array of a ruleset that does not live, and nobody fills it.
LEMMA NoArray ==
    ASSUME HandleInv, NEW h \in HandleId, Synced(h), handle[h] # "live", targets[h] = {}
    PROVE  /\ addresses[h] = << >> /\ \A t \in Thread : ~Filling(t, h)
           /\ \A array \in given : array.ruleset # h
<1>1. \A t \in Thread : ~Filling(t, h)
  BY DEF HandleInv, CallsInv, Filling
<1>2. ToSet(addresses[h]) = {}
  BY DEF Synced
<1>3. addresses[h] \in Seq(Target)
  BY DEF HandleInv, TypeOK
<1> QED
  BY <1>1, <1>2, <1>3, EmptyArray DEF Synced

\* The ruleset of a handle is left alone, and so are its callers.
LEMMA SyncedStays ==
    ASSUME NEW h \in HandleId, Synced(h),
           addresses'[h] = addresses[h], targets'[h] = targets[h], grown'[h] = grown[h],
           \A t \in Thread : Filling(t, h)' <=> Filling(t, h),
           \A t \in Thread : Filling(t, h) => call'[t].left = call[t].left,
           \A array \in given' : array.ruleset = h => array \in given
    PROVE  Synced(h)'
BY DEF Synced

\* A ruleset without an array, before and after its targets are set.
LEMMA SyncedEmpty ==
    ASSUME NEW h \in HandleId, addresses'[h] = << >>,
           \A t \in Thread : ~Filling(t, h)',
           \A array \in given' : array.ruleset # h
    PROVE  Synced(h)'
<1>1. ToSet(addresses'[h]) = {} /\ Len(addresses'[h]) = 0
  BY EmptyArray
<1>2. IsFiniteSet(ToSet(addresses'[h])) /\ Cardinality(ToSet(addresses'[h])) = 0
  BY <1>1, FS_EmptySet
<1> QED
  BY <1>1, <1>2 DEF Synced

LEMMA MakeSynced ==
    ASSUME HandleInv, SyncInv, NEW t \in Thread,
           \/ \E stated \in {"none", "malformed", "1", "2", "3"} : Create(t, stated)
           \/ UpdateBuilds(t)
    PROVE  SyncInv'
<1>1. PICK h \in HandleId, found \in SUBSET Target :
         New(h) /\ targets' = [targets EXCEPT ![h] = found] /\ UNCHANGED arrays
  <2>1. CASE \E stated \in {"none", "malformed", "1", "2", "3"} : Create(t, stated)
    BY <2>1 DEF Create
  <2>2. CASE UpdateBuilds(t)
    <3>1. PICK b \in HandleId : b = builder[call[t].handle]
      <4>1. call[t].handle \in HandleId /\ builder[call[t].handle] # 0
        BY <2>2 DEF UpdateBuilds, HandleInv, CallsInv, UpdatesInv
      <4>2. builder \in [HandleId -> 0..MaxHandles]
        BY DEF HandleInv, TypeOK
      <4> QED
        BY <4>1, <4>2, BoundsAssumption DEF HandleId
    <3>2. known[b] \in SUBSET Target
      BY DEF HandleInv, TypeOK
    <3> QED
      BY <2>2, <3>1, <3>2 DEF UpdateBuilds
  <2> QED
    BY <2>1, <2>2
<1>2. \A u \in Thread, g \in HandleId : Filling(u, g)' <=> Filling(u, g)
  <2>1. CASE \E stated \in {"none", "malformed", "1", "2", "3"} : Create(t, stated)
    BY <2>1 DEF Create, Filling
  <2>2. CASE UpdateBuilds(t)
    BY <2>2 DEF UpdateBuilds, HandleInv, TypeOK, Filling, Idle
  <2> QED
    BY <2>1, <2>2
<1>3. \A u \in Thread, g \in HandleId : Filling(u, g) => call'[u].left = call[u].left
  <2>1. CASE \E stated \in {"none", "malformed", "1", "2", "3"} : Create(t, stated)
    BY <2>1 DEF Create
  <2>2. CASE UpdateBuilds(t)
    BY <2>2 DEF UpdateBuilds, HandleInv, TypeOK, Filling
  <2> QED
    BY <2>1, <2>2
<1>4. Synced(h)'
  <2>1. RulesetOwners(h) = {} /\ handle[h] # "live"
    BY <1>1 DEF New, HandleInv, MadeInv, RulesetOwners
  <2>2. targets[h] = {}
    BY <2>1 DEF HandleInv, OwnedInv
  <2>3. /\ addresses[h] = << >> /\ \A u \in Thread : ~Filling(u, h)
        /\ \A array \in given : array.ruleset # h
    BY <2>1, <2>2, NoArray DEF SyncInv
  <2> QED
    BY <1>1, <1>2, <2>3, SyncedEmpty DEF arrays
<1>5. ASSUME NEW g \in HandleId, g # h PROVE Synced(g)'
  <2>1. targets'[g] = targets[g]
    BY <1>1, <1>5 DEF HandleInv, TypeOK
  <2> QED
    BY <1>1, <1>2, <1>3, <2>1, SyncedStays DEF SyncInv, arrays
<1> QED
  BY <1>4, <1>5 DEF SyncInv

\* The last owner of a ruleset is gone: nobody was filling its array.
LEMMA DropSynced ==
    ASSUME HandleInv, SyncInv, NEW h \in HandleId, DropRuleset(h), UNCHANGED call,
           rulesetRefs[h] > 1 \/ \A t \in Thread : ~Filling(t, h)
    PROVE  SyncInv'
<1>1. ASSUME NEW g \in HandleId, g # h \/ rulesetRefs[h] > 1 PROVE Synced(g)'
  <2>1. /\ addresses'[g] = addresses[g] /\ targets'[g] = targets[g] /\ grown'[g] = grown[g]
        /\ given' \subseteq given
    BY <1>1 DEF DropRuleset, arrays, HandleInv, TypeOK
  <2>2. \A t \in Thread : Filling(t, g)' <=> Filling(t, g)
    BY DEF Filling
  <2> QED
    BY <2>1, <2>2, SyncedStays DEF SyncInv
<1>2. CASE ~(rulesetRefs[h] > 1)
  <2>1. addresses'[h] = << >> /\ given' = {array \in given : array.ruleset # h}
    BY <1>2 DEF DropRuleset, HandleInv, TypeOK
  <2>2. \A t \in Thread : ~Filling(t, h)'
    BY <1>2 DEF Filling
  <2>3. Synced(h)'
    BY <2>1, <2>2, SyncedEmpty
  <2> QED
    BY <1>1, <2>3 DEF SyncInv
<1> QED
  BY <1>1, <1>2 DEF SyncInv

LEMMA ContextDestroySynced ==
    ASSUME HandleInv, SyncInv, NEW t \in Thread, NEW c \in ContextId, ContextDestroy(t, c)
    PROVE  SyncInv'
<1>1. PICK h \in HandleId : h = context[c] /\ DropRuleset(h) /\ UNCHANGED call
  BY DEF ContextDestroy, HandleInv, TypeOK, HandleId
<1>2. CASE handle[h] = "live"
  <2>1. RulesetOwners(h) \ {c} # {} /\ c \in RulesetOwners(h)
    BY <1>1, <1>2 DEF RulesetOwners
  <2>2. Cardinality(RulesetOwners(h)) # 1 /\ Cardinality(RulesetOwners(h)) # 0
    BY <2>1, OneLess, OwnersAreFinite
  <2>3. rulesetRefs[h] > 1
    BY <2>2, OwnersAreFinite DEF HandleInv, CountsInv
  <2> QED
    BY <1>1, <2>3, DropSynced
<1>3. CASE handle[h] # "live"
  <2>1. \A u \in Thread : ~Filling(u, h)
    BY <1>3 DEF HandleInv, CallsInv, Filling
  <2> QED
    BY <1>1, <2>1, DropSynced
<1> QED
  BY <1>2, <1>3

LEMMA DestroySynced ==
    ASSUME HandleInv, SyncInv, NEW t \in Thread, NEW h \in HandleId, Destroy(t, h)
    PROVE  SyncInv'
<1>1. \A u \in Thread : ~Filling(u, h)
  BY DEF Destroy, InUse, Filling
<1> QED
  BY <1>1, DropSynced DEF Destroy

LEMMA UpdateSynced ==
    ASSUME HandleInv, SyncInv, NEW t \in Thread,
           \/ \E h \in HandleId : BeginUpdate(t, h) \/ ContextInit(t, h)
           \/ UpdateParses(t) \/ UpdateFails(t)
    PROVE  SyncInv'
<1>1. UNCHANGED <<targets, arrays>>
  BY DEF BeginUpdate, ContextInit, UpdateParses, UpdateFails
<1>2. \/ UNCHANGED call
      \/ /\ call[t].op # "fill"
         /\ \/ call' = [call EXCEPT ![t] = Idle]
            \/ \E h \in HandleId :
                 call' = [call EXCEPT ![t] = [op |-> "update", handle |-> h, left |-> {}]]
  BY DEF BeginUpdate, ContextInit, UpdateParses, UpdateFails, IsIdle, Idle
<1>3. \A u \in Thread, g \in HandleId :
         /\ Filling(u, g)' <=> Filling(u, g)
         /\ Filling(u, g) => call'[u].left = call[u].left
  <2>1. CASE UNCHANGED call
    BY <2>1 DEF Filling
  <2>2. CASE call[t].op # "fill" /\ ~UNCHANGED call
    <3>1. \A u \in Thread : u # t => call'[u] = call[u]
      BY <1>2, <2>2 DEF HandleInv, TypeOK
    <3>2. call'[t].op # "fill"
      BY <1>2, <2>2 DEF HandleInv, TypeOK, Idle
    <3> QED
      BY <2>2, <3>1, <3>2 DEF Filling
  <2> QED
    BY <1>2, <2>1, <2>2
<1> QED
  BY <1>1, <1>3, SyncedStays DEF SyncInv, arrays

LEMMA KnownSynced ==
    ASSUME HandleInv, SyncInv, OneAsks, NEW t \in Thread, NEW h \in HandleId,
           AddressesKnown(t, h)
    PROVE  SyncInv'
<1>1. /\ \A u \in Thread : ~Filling(u, h)
      /\ addresses[h] # << >> /\ UNCHANGED <<call, targets, addresses, grown>>
      /\ given' = given \cup {[ruleset |-> h, size |-> Len(addresses[h]), moved |-> grown[h]]}
  BY DEF AddressesKnown, Filling, Give
<1>2. \A u \in Thread, g \in HandleId : Filling(u, g)' <=> Filling(u, g)
  BY <1>1 DEF Filling
<1>3. ASSUME NEW g \in HandleId, g # h PROVE Synced(g)'
  BY <1>1, <1>2, <1>3, SyncedStays DEF SyncInv
<1>4. Synced(h)'
  BY <1>1, <1>2 DEF SyncInv, Synced
<1> QED
  BY <1>3, <1>4 DEF SyncInv

LEMMA MissingSynced ==
    ASSUME HandleInv, SyncInv, OneAsks, NEW t \in Thread, NEW h \in HandleId,
           AddressesMissing(t, h)
    PROVE  SyncInv'
<1>1. /\ \A u \in Thread : ~Filling(u, h)
      /\ addresses[h] = << >> /\ UNCHANGED <<targets, arrays>>
      /\ call[t].op # "fill"
      /\ call' = [call EXCEPT ![t] = [op |-> "fill", handle |-> h, left |-> targets[h]]]
  BY DEF AddressesMissing, Filling, IsIdle, Idle
<1>2. \A u \in Thread :
         call'[u] = IF u = t THEN [op |-> "fill", handle |-> h, left |-> targets[h]] ELSE call[u]
  BY <1>1 DEF HandleInv, TypeOK
<1>3. ASSUME NEW g \in HandleId, g # h PROVE Synced(g)'
  <2>1. \A u \in Thread : /\ Filling(u, g)' <=> Filling(u, g)
                          /\ Filling(u, g) => call'[u].left = call[u].left
    BY <1>1, <1>2, <1>3 DEF Filling
  <2> QED
    BY <1>1, <2>1, SyncedStays DEF SyncInv, arrays
<1>4. Synced(h)'
  <2>1. \A u \in Thread : Filling(u, h)' <=> u = t
    BY <1>1, <1>2 DEF Filling
  <2>2. call'[t].left = targets[h] \ ToSet(addresses[h])
    BY <1>1, <1>2, EmptyArray
  <2>3. \A array \in given : array.ruleset # h
    BY <1>1 DEF SyncInv, Synced
  <2> QED
    BY <1>1, <2>1, <2>2, <2>3 DEF SyncInv, Synced, arrays
<1> QED
  BY <1>3, <1>4 DEF SyncInv

LEMMA AddSynced ==
    ASSUME HandleInv, SyncInv, NEW t \in Thread, AddAddress(t)
    PROVE  SyncInv'
<1>1. PICK h \in HandleId : h = call[t].handle /\ Filling(t, h)
  BY DEF AddAddress, HandleInv, CallsInv, Filling
<1>2. PICK target \in call[t].left :
         /\ call' = [call EXCEPT ![t].left = call[t].left \ {target}]
         /\ addresses' = [addresses EXCEPT ![h] = Append(addresses[h], target)]
  BY <1>1 DEF AddAddress
<1>3. /\ UNCHANGED <<targets, given>>
      /\ \A g \in HandleId : g # h => grown'[g] = grown[g] /\ addresses'[g] = addresses[g]
      /\ addresses'[h] = Append(addresses[h], target)
  BY <1>1, <1>2 DEF AddAddress, HandleInv, TypeOK
<1>4. /\ \A u \in Thread, g \in HandleId : Filling(u, g)' <=> Filling(u, g)
      /\ \A u \in Thread : u # t => call'[u] = call[u]
      /\ call'[t].left = call[t].left \ {target}
  BY <1>2 DEF HandleInv, TypeOK, Filling
<1>5. Synced(h) /\ \A array \in given : array.ruleset # h
  BY <1>1 DEF SyncInv, Synced
<1>6. ASSUME NEW g \in HandleId, g # h PROVE Synced(g)'
  <2>1. \A u \in Thread : Filling(u, g) => call'[u].left = call[u].left
    BY <1>1, <1>4, <1>6 DEF Filling
  <2> QED
    BY <1>3, <1>4, <1>6, <2>1, SyncedStays DEF SyncInv
<1>7. Synced(h)'
  <2>1. target \in targets[h] /\ target \notin ToSet(addresses[h])
    BY <1>1, <1>2, <1>5 DEF Synced
  <2>2. addresses[h] \in Seq(Target) /\ target \in Target
    BY <2>1 DEF HandleInv, TypeOK
  <2>3. /\ ToSet(addresses'[h]) = ToSet(addresses[h]) \cup {target}
        /\ IsFiniteSet(ToSet(addresses'[h]))
        /\ Len(addresses'[h]) = Cardinality(ToSet(addresses'[h]))
    <3>1. IsFiniteSet(ToSet(addresses[h])) /\ Len(addresses[h]) = Cardinality(ToSet(addresses[h]))
      BY <1>5 DEF Synced
    <3>2. /\ ToSet(Append(addresses[h], target)) = ToSet(addresses[h]) \cup {target}
          /\ IsFiniteSet(ToSet(addresses[h]) \cup {target})
          /\ Len(Append(addresses[h], target)) = Cardinality(ToSet(addresses[h]) \cup {target})
      BY <2>1, <2>2, <3>1, LongerArray
    <3> QED
      BY <1>3, <3>2
  <2>4. call'[t].left = targets[h] \ ToSet(addresses'[h]) /\ ToSet(addresses'[h]) \subseteq targets[h]
    BY <1>1, <1>4, <1>5, <2>1, <2>3 DEF Synced
  <2>5. \A u \in Thread : Filling(u, h) => u = t
    BY <1>1, <1>5 DEF Synced
  <2> QED
    BY <1>1, <1>3, <1>4, <1>5, <2>3, <2>4, <2>5 DEF Synced
<1> QED
  BY <1>6, <1>7 DEF SyncInv

LEMMA FilledSynced ==
    ASSUME HandleInv, SyncInv, NEW t \in Thread, AddressesFilled(t)
    PROVE  SyncInv'
<1>1. PICK h \in HandleId : h = call[t].handle /\ Filling(t, h) /\ handle[h] = "live"
  BY DEF AddressesFilled, HandleInv, CallsInv, Filling
<1>2. /\ call[t].left = {} /\ UNCHANGED <<targets, addresses, grown>>
      /\ given' = given \cup {[ruleset |-> h, size |-> Len(addresses[h]), moved |-> grown[h]]}
      /\ \A u \in Thread : call'[u] = IF u = t THEN Idle ELSE call[u]
  BY <1>1 DEF AddressesFilled, Give, HandleInv, TypeOK
<1>3. Synced(h) /\ \A array \in given : array.ruleset # h
  BY <1>1 DEF SyncInv, Synced
<1>4. ASSUME NEW g \in HandleId, g # h PROVE Synced(g)'
  <2>1. \A u \in Thread : /\ Filling(u, g)' <=> Filling(u, g)
                          /\ Filling(u, g) => call'[u].left = call[u].left
    BY <1>1, <1>2, <1>4 DEF Filling, Idle
  <2> QED
    BY <1>2, <1>4, <2>1, SyncedStays DEF SyncInv
<1>5. Synced(h)'
  <2>1. \A u \in Thread : ~Filling(u, h)'
    BY <1>1, <1>2, <1>3 DEF Synced, Filling, Idle
  <2>2. ToSet(addresses[h]) = targets[h]
    BY <1>1, <1>2, <1>3 DEF Synced
  <2>3. targets[h] # {}
    BY <1>1 DEF HandleInv, OwnedInv, RulesetOwners
  <2>4. addresses[h] # << >>
    BY <2>2, <2>3, EmptyArray
  <2> QED
    BY <1>2, <1>3, <2>1, <2>2, <2>4 DEF Synced
<1> QED
  BY <1>4, <1>5 DEF SyncInv

LEMMA SyncInvCorrect == ASSUME OneAsks PROVE Spec => []SyncInv
<1>1. Init => SyncInv
  <2> SUFFICES ASSUME Init, NEW h \in HandleId PROVE Synced(h)
    BY DEF SyncInv
  <2>1. addresses[h] = << >> /\ (\A t \in Thread : ~Filling(t, h)) /\ given = {}
    BY DEF Init, Filling, Idle
  <2>2. ToSet(addresses[h]) = {} /\ Len(addresses[h]) = 0
    BY <2>1, EmptyArray
  <2> QED
    BY <2>1, <2>2, FS_EmptySet DEF Synced
<1>2. HandleInv /\ SyncInv /\ [Next]_vars => SyncInv'
  <2> SUFFICES ASSUME HandleInv, SyncInv, [Next]_vars PROVE SyncInv'
    OBVIOUS
  <2>1. CASE UNCHANGED vars
    <3>1. \A u \in Thread, g \in HandleId : Filling(u, g)' <=> Filling(u, g)
      BY <2>1 DEF vars, Filling
    <3> QED
      BY <2>1, <3>1, SyncedStays DEF SyncInv, vars
  <2>2. CASE Next
    BY <2>2, MakeSynced, UpdateSynced, DestroySynced, ContextDestroySynced, KnownSynced,
       MissingSynced, AddSynced, FilledSynced DEF Next
  <2> QED
    BY <2>1, <2>2
<1> QED
  BY <1>1, <1>2, HandleInvCorrect, PTL DEF Spec

\* As long as threads ask for the addresses one at a time, those of a ruleset
\* are its targets, each of them once, whatever updates do to the builder.
THEOREM AddressesCorrect == ASSUME OneAsks PROVE Spec => []AddressesInSync
<1>1. SyncInv => AddressesInSync
  BY DEF SyncInv, Synced, AddressesInSync, Filling
<1> QED
  BY <1>1, SyncInvCorrect, PTL

\* As long as threads ask for the addresses one at a time, an array that a
\* caller was given is neither moved nor made longer while the ruleset lives.
THEOREM GivenCorrect == ASSUME OneAsks PROVE Spec => []GivenStaysValid
<1>1. HandleInv /\ SyncInv => GivenStaysValid
  <2> SUFFICES ASSUME HandleInv, SyncInv, NEW array \in given
               PROVE  /\ array.moved = grown[array.ruleset]
                      /\ array.size = Cardinality(targets[array.ruleset])
    BY DEF GivenStaysValid
  <2>1. array.ruleset \in HandleId
    BY DEF HandleInv, TypeOK
  <2> QED
    BY <2>1 DEF SyncInv, Synced
<1> QED
  BY <1>1, HandleInvCorrect, SyncInvCorrect, PTL
=============================================================================
