--------------------------- MODULE ContextProofs ---------------------------
(***************************************************************************)
(* What holds of a context for every ruleset, every set of addresses and   *)
(* any number of calls, in three parts.                                    *)
(*                                                                         *)
(* First its types, the ownership of the maps it receives and what its     *)
(* collections promise.  Then the caches of the conditions, which stay     *)
(* ordered, and the events, which are complete, whatever call runs out of  *)
(* time and wherever.                                                      *)
(*                                                                         *)
(* Last, what a context has looked at as long as no call runs out of time. *)
(* A call only looks at the latest batch where an earlier one has looked   *)
(* at the rest, each owner is evaluated once in a call, and what a filter  *)
(* has excluded is known to the evaluations that come after it.            *)
(***************************************************************************)
EXTENDS ContextProperties, SequenceTheorems, FiniteSetTheorems, TLAPS

\* The output of a call has its type.
LEMMA OutcomeType ==
    ASSUME TypeOK, NEW timeout \in BOOLEAN, NEW evs \in Seq(Event)
    PROVE  Outcome(timeout, evs) \in Output
<1>1. seenActions \in SUBSET Action
  BY DEF TypeOK
<1> QED
  BY <1>1 DEF Outcome, Output

\* Returning events, or none of them, keeps the types of the control state
\* and of what is reported.
LEMMA FinishType ==
    ASSUME TypeOK, NEW timeout \in BOOLEAN, NEW evs \in Seq(Event), Finish(timeout, evs)
    PROVE  /\ phase' \in Phase /\ todo' \in SUBSET (Filter \cup Type)
           /\ coll' \in Type \cup {None} /\ rulesTodo' \in SUBSET Rule
           /\ cur' \in Owner \cup {None} /\ idx' \in Nat /\ events' \in Seq(Event)
           /\ out' \in Output /\ delivered' \in SUBSET Rule
<1>1. out' \in Output
  BY OutcomeType DEF Finish
<1>2. \A i \in DOMAIN evs : evs[i].rule \in Rule
  <2>1. \A e \in Event : e.rule \in Rule
    BY DEF Event
  <2>2. \A i \in DOMAIN evs : evs[i] \in Event
    OBVIOUS
  <2> QED
    BY <2>1, <2>2
<1> QED
  BY <1>1, <1>2 DEF Finish, TypeOK, Phase

LEMMA ExpireType ==
    ASSUME TypeOK, Expire
    PROVE  /\ phase' \in Phase /\ todo' \in SUBSET (Filter \cup Type)
           /\ coll' \in Type \cup {None} /\ rulesTodo' \in SUBSET Rule
           /\ cur' \in Owner \cup {None} /\ idx' \in Nat /\ events' \in Seq(Event)
           /\ out' \in Output /\ delivered' \in SUBSET Rule
<1>1. <<>> \in Seq(Event)
  OBVIOUS
<1> QED
  BY <1>1, FinishType DEF Expire

\* The store keeps its types when a call supplies a map.
LEMMA InsertType ==
    ASSUME TypeOK, NEW p \in Params, Insert(p)
    PROVE  StoreTypeOK'
<1> USE ParamsAssumption, StoreAssumption
<1>1. runs + 1 \in 1..MaxRuns
  BY DEF TypeOK, StoreTypeOK, Insert
<1>2. owned' \in Seq(1..MaxRuns)
  <2>1. owned \in Seq(1..MaxRuns)
    BY DEF TypeOK, StoreTypeOK
  <2>2. Append(owned, runs + 1) \in Seq(1..MaxRuns)
    BY <1>1, <2>1
  <2> QED
    BY <2>1, <2>2 DEF Insert, Own
<1>3. objects' \in [Target -> Object \cup {NoObject}]
  <2>1. ASSUME NEW t \in Target, t \in DOMAIN p
        PROVE  [run |-> runs + 1, target |-> t, value |-> p[t]] \in Object
    BY <1>1, <2>1 DEF Object
  <2> QED
    BY <2>1 DEF TypeOK, StoreTypeOK, Insert
<1> QED
  BY <1>1, <1>2, <1>3 DEF TypeOK, StoreTypeOK, Insert

LEMMA InsertInvalidType ==
    ASSUME TypeOK, InsertInvalid
    PROVE  StoreTypeOK'
<1> USE StoreAssumption
<1>1. runs + 1 \in 1..MaxRuns
  BY DEF TypeOK, StoreTypeOK, InsertInvalid
<1>2. owned' \in Seq(1..MaxRuns)
  <2>1. owned \in Seq(1..MaxRuns)
    BY DEF TypeOK, StoreTypeOK
  <2>2. Append(owned, runs + 1) \in Seq(1..MaxRuns)
    BY <1>1, <2>1
  <2> QED
    BY <2>1, <2>2 DEF InsertInvalid, Own
<1> QED
  BY <1>1, <1>2 DEF TypeOK, StoreTypeOK, InsertInvalid

-----------------------------------------------------------------------------
\* The calls that return at once.
LEMMA EntryType ==
    ASSUME TypeOK, Run
    PROVE  TypeOK'
<1>0. <<>> \in Seq(Event)
  OBVIOUS
<1>1. CASE RunInvalid
  <2>1. out' \in Output
    <3>1. Outcome(FALSE, <<>>) \in Output
      BY <1>0, OutcomeType
    <3> QED
      BY <1>1, <3>1 DEF RunInvalid, Output
  <2> QED
    BY <1>1, <2>1, InsertInvalidType
    DEF RunInvalid, NoEvaluation, TypeOK, control, filterVars, ownerVars, collVars
<1>2. ASSUME NEW p \in Params, RunNoBudget(p)
      PROVE  TypeOK'
  <2>1. out' \in Output
    BY <1>0, <1>2, OutcomeType DEF RunNoBudget
  <2> QED
    BY <1>2, <2>1, InsertType
    DEF RunNoBudget, NoEvaluation, TypeOK, control, filterVars, ownerVars, collVars
<1>3. ASSUME NEW p \in Params, RunNothingNew(p)
      PROVE  TypeOK'
  <2>1. out' \in Output
    BY <1>0, <1>3, OutcomeType DEF RunNothingNew
  <2> QED
    BY <1>3, <2>1, InsertType
    DEF RunNothingNew, NoEvaluation, TypeOK, control, filterVars, ownerVars, collVars
<1>4. ASSUME NEW p \in Params, RunStart(p)
      PROVE  TypeOK'
  BY <1>4, InsertType
  DEF RunStart, TypeOK, Phase, Filter, filterVars, ownerVars, collVars, outVars
<1> QED
  BY <1>1, <1>2, <1>3, <1>4 DEF Run

-----------------------------------------------------------------------------
\* The object of a target of a condition of an owner, when it has one.
LEMMA TargetObject ==
    ASSUME TypeOK, NEW o \in Owner, NEW i \in DOMAIN Conditions[o],
           NEW k \in DOMAIN Conditions[o][i].targets,
           objects[Conditions[o][i].targets[k]] # NoObject
    PROVE  objects[Conditions[o][i].targets[k]] \in Object
<1>1. Conditions[o] \in Seq(Condition)
  BY RulesetAssumption
<1>2. Conditions[o][i] \in Condition
  BY <1>1
<1>3. Conditions[o][i].targets \in Seq(Target)
  BY <1>2 DEF Condition
<1>4. Conditions[o][i].targets[k] \in Target
  BY <1>3
<1> QED
  BY <1>4 DEF TypeOK, StoreTypeOK

\* The steps of a call outside of the loop over conditions.
LEMMA PhaseType ==
    ASSUME TypeOK, NextPhase \/ Return \/ ExpireBetween
    PROVE  TypeOK'
<1>1. CASE NextPhase
  <2>1. PriorityTypes \subseteq Type /\ RegularTypes \subseteq Type
    BY RulesetAssumption DEF PriorityTypes, RegularTypes
  <2> QED
    BY <1>1, <2>1
    DEF NextPhase, TypeOK, Phase, Filter, storeVars, StoreTypeOK, filterVars, ownerVars,
        collVars, outVars
<1>2. CASE Return
  <2>1. events \in Seq(Event)
    BY DEF TypeOK
  <2> QED
    BY <1>2, <2>1, FinishType
    DEF Return, TypeOK, storeVars, StoreTypeOK, filterVars, ownerVars, collVars
<1>3. CASE ExpireBetween
  BY <1>3, ExpireType
  DEF ExpireBetween, TypeOK, storeVars, StoreTypeOK, filterVars, ownerVars, collVars
<1> QED
  BY <1>1, <1>2, <1>3

LEMMA ConditionType ==
    ASSUME TypeOK, SkipCached \/ ConditionMatches \/ ConditionFails \/ ExpireInCondition
    PROVE  TypeOK'
<1>1. CASE SkipCached
  BY <1>1
  DEF SkipCached, TypeOK, storeVars, StoreTypeOK, filterVars, ownerVars, collVars, outVars
<1>2. CASE ConditionMatches
  <2>1. condCache' \in [Cell -> {"absent", "false", "true"}] /\ idx' \in Nat
    <3>1. condCache' \in [Cell -> {"absent", "false", "true"}]
      BY <1>2 DEF ConditionMatches, TypeOK
    <3>2. idx' \in Nat
      BY <1>2 DEF ConditionMatches, TypeOK
    <3> QED
      BY <3>1, <3>2
  <2>2. matches' \in [Rule -> Seq(Object)]
    <3>1. PICK k \in Meeting(cur, idx) :
            matches' = IF cur \in Rule
                       THEN [matches EXCEPT ![cur] = Append(@, objects[CurCondition.targets[k]])]
                       ELSE matches
      BY <1>2 DEF ConditionMatches
    <3>2. cur \in Owner /\ idx \in DOMAIN Conditions[cur]
      BY <1>2 DEF ConditionMatches, InConditions, TypeOK
    <3>3. /\ k \in DOMAIN Conditions[cur][idx].targets
          /\ objects[Conditions[cur][idx].targets[k]] # NoObject
      BY <3>1 DEF Meeting, Accepts
    <3>4. objects[CurCondition.targets[k]] \in Object
      BY <3>2, <3>3, TargetObject DEF CurCondition
    <3>5. CASE cur \in Rule
      <4>1. Append(matches[cur], objects[CurCondition.targets[k]]) \in Seq(Object)
        BY <3>4, <3>5 DEF TypeOK
      <4> QED
        BY <3>1, <3>5, <4>1 DEF TypeOK
    <3> QED
      BY <3>1, <3>5 DEF TypeOK
  <2> QED
    BY <1>2, <2>1, <2>2
    DEF ConditionMatches, TypeOK, storeVars, StoreTypeOK, filterVars, collVars, outVars
<1>3. CASE ConditionFails
  BY <1>3
  DEF ConditionFails, LeaveOwner, TypeOK, storeVars, StoreTypeOK, filterVars, collVars, outVars
<1>4. CASE ExpireInCondition
  BY <1>4, ExpireType
  DEF ExpireInCondition, TypeOK, storeVars, StoreTypeOK, filterVars, collVars
<1> QED
  BY <1>1, <1>2, <1>3, <1>4

LEMMA FilterType ==
    ASSUME TypeOK,
           \/ \E f \in RuleFilter : StartRuleFilter(f)
           \/ RuleFilterMatches
           \/ \E f \in InputFilter : StartInputFilter(f)
           \/ InputFilterMatches
           \/ ExpireInObjectFilter
    PROVE  TypeOK'
<1>1. ASSUME NEW f \in RuleFilter, StartRuleFilter(f)
      PROVE  TypeOK'
  BY <1>1
  DEF StartRuleFilter, TypeOK, Owner, Filter, storeVars, StoreTypeOK, filterVars, ownerVars,
      collVars, outVars
<1>2. CASE RuleFilterMatches
  <2>1. rulesToExclude' \in SUBSET Rule
    BY <1>2, RulesetAssumption DEF RuleFilterMatches, TypeOK, Filter
  <2> QED
    BY <1>2, <2>1
    DEF RuleFilterMatches, LeaveOwner, TypeOK, storeVars, StoreTypeOK, collVars, outVars
<1>3. ASSUME NEW f \in InputFilter, StartInputFilter(f)
      PROVE  TypeOK'
  <2>1. Conditions[f] \in Seq(Condition)
    BY RulesetAssumption DEF Owner, Filter
  <2>2. idx' \in Nat
    BY <1>3, <2>1 DEF StartInputFilter
  <2> QED
    BY <1>3, <2>2
    DEF StartInputFilter, TypeOK, Owner, Filter, storeVars, StoreTypeOK, filterVars,
        ownerVars, collVars, outVars
<1>4. CASE InputFilterMatches
  <2>1. FilterTargets[cur] \in SUBSET Target
    BY <1>4, RulesetAssumption DEF InputFilterMatches
  <2>2. Fresh(cur) \in SUBSET Target
    BY <2>1 DEF Fresh
  <2>3. \A t \in Fresh(cur) : objects[t] \in Object
    BY <2>2 DEF Fresh, TypeOK, StoreTypeOK
  <2>4. objectsToExclude' \in [Rule -> SUBSET Object]
    BY <1>4, <2>3 DEF InputFilterMatches, TypeOK
  <2>5. objCache' \in [InputFilter -> SUBSET Target]
    BY <1>4, <2>2 DEF InputFilterMatches, TypeOK
  <2> QED
    BY <1>4, <2>4, <2>5
    DEF InputFilterMatches, LeaveOwner, TypeOK, storeVars, StoreTypeOK, collVars, outVars
<1>5. CASE ExpireInObjectFilter
  <2>1. FilterTargets[cur] \in SUBSET Target
    BY <1>5, RulesetAssumption DEF ExpireInObjectFilter
  <2>2. objCache' \in [InputFilter -> SUBSET Target]
    BY <1>5, <2>1 DEF ExpireInObjectFilter, TypeOK
  <2> QED
    BY <1>5, <2>2, ExpireType
    DEF ExpireInObjectFilter, TypeOK, storeVars, StoreTypeOK, collVars
<1> QED
  BY <1>1, <1>2, <1>3, <1>4, <1>5

-----------------------------------------------------------------------------
LEMMA EnterType ==
    ASSUME TypeOK, NEW t \in Type, NEW left \in SUBSET Action, NEW rules \in SUBSET Rule,
           Enter(t, left, rules)
    PROVE  TypeOK'
BY DEF Enter, TypeOK, storeVars, StoreTypeOK, filterVars, ownerVars, outVars

LEMMA CollectionType ==
    ASSUME TypeOK,
           \/ \E t \in Type : EnterPriority(t) \/ EnterRegular(t)
           \/ \E r \in Rule : StartRule(r)
           \/ LeaveCollection
           \/ RuleMatches
    PROVE  TypeOK'
<1>1. ASSUME NEW t \in Type, EnterPriority(t)
      PROVE  TypeOK'
  <2>1. TypeActions(t) \in SUBSET Action
    BY RulesetAssumption DEF TypeActions, PriorityRules
  <2>2. (IF t \in collCached THEN remaining[t] ELSE TypeActions(t)) \ seenActions \in SUBSET Action
    BY <2>1 DEF TypeOK
  <2>3. PriorityRules(t) \in SUBSET Rule
    BY DEF PriorityRules
  <2> QED
    BY <1>1, <2>2, <2>3, EnterType DEF EnterPriority
<1>2. ASSUME NEW t \in Type, EnterRegular(t)
      PROVE  TypeOK'
  <2>1. (IF t \in collCached THEN remaining[t] ELSE {}) \in SUBSET Action
    BY DEF TypeOK
  <2>2. RegularRules(t) \in SUBSET Rule
    BY DEF RegularRules
  <2> QED
    BY <1>2, <2>1, <2>2, EnterType DEF EnterRegular
<1>3. ASSUME NEW r \in Rule, StartRule(r)
      PROVE  TypeOK'
  BY <1>3
  DEF StartRule, TypeOK, Owner, storeVars, StoreTypeOK, filterVars, ownerVars, collVars, outVars
<1>4. CASE LeaveCollection
  BY <1>4
  DEF LeaveCollection, TypeOK, storeVars, StoreTypeOK, filterVars, ownerVars, collVars, outVars
<1>5. CASE RuleMatches
  <2> DEFINE found == RuleActions[cur] \cap remaining[coll]
  <2>1. cur \in Rule
    BY <1>5 DEF RuleMatches
  <2>2. found \in SUBSET Action
    BY <2>1, RulesetAssumption
  <2>3. [rule |-> cur, matches |-> matches[cur]] \in Event
    BY <2>1 DEF Event, TypeOK
  <2>4. events' \in Seq(Event)
    BY <1>5, <2>3 DEF RuleMatches, TypeOK
  <2>5. matches' \in [Rule -> Seq(Object)]
    <3>1. <<>> \in Seq(Object)
      OBVIOUS
    <3> QED
      BY <1>5, <3>1 DEF RuleMatches, TypeOK
  <2>6. remaining' \in [Type -> SUBSET Action] /\ seenActions' \in SUBSET Action
    <3>1. seenActions' \in SUBSET Action
      BY <1>5, <2>2 DEF RuleMatches, TypeOK
    <3>2. CASE PriorityMode
      <4>1. remaining' = [remaining EXCEPT ![coll] = remaining[coll] \ found]
        BY <1>5, <3>2 DEF RuleMatches
      <4> HIDE DEF found
      <4>2. coll \in Type => remaining[coll] \ found \in SUBSET Action
        BY DEF TypeOK
      <4> QED
        BY <3>1, <4>1, <4>2 DEF TypeOK
    <3>3. CASE ~PriorityMode
      BY <1>5, <3>1, <3>3 DEF RuleMatches, TypeOK
    <3> QED
      BY <3>2, <3>3
  <2>7. coll' \in Type \cup {None} /\ rulesTodo' \in SUBSET Rule
    BY <1>5 DEF RuleMatches, TypeOK
  <2> QED
    BY <1>5, <2>4, <2>5, <2>6, <2>7
    DEF RuleMatches, LeaveOwner, TypeOK, storeVars, StoreTypeOK, filterVars, outVars
<1> QED
  BY <1>1, <1>2, <1>3, <1>4, <1>5

LEMMA DestroyType ==
    ASSUME TypeOK, Destroy
    PROVE  TypeOK'
<1>1. freed' \in Seq(1..MaxRuns) /\ owned' \in Seq(1..MaxRuns)
  BY DEF Destroy, FreeAll, TypeOK, StoreTypeOK
<1> QED
  BY <1>1
  DEF Destroy, FreeAll, TypeOK, StoreTypeOK, Phase, filterVars, ownerVars, collVars, outVars

-----------------------------------------------------------------------------
LEMMA InitType == Init => TypeOK
<1> SUFFICES ASSUME Init PROVE TypeOK
  OBVIOUS
<1>1. StoreTypeOK
  BY StoreAssumption DEF Init, StoreInit, StoreTypeOK
<1>2. matches \in [Rule -> Seq(Object)]
  BY DEF Init
<1>3. out \in Output
  BY DEF Init, Output
<1> QED
  BY <1>1, <1>2, <1>3 DEF Init, TypeOK, Phase

LEMMA NextType == TypeOK /\ [Next]_vars => TypeOK'
<1> SUFFICES ASSUME TypeOK, [Next]_vars PROVE TypeOK'
  OBVIOUS
<1>1. CASE Run
  BY <1>1, EntryType
<1>2. CASE Step
  BY <1>2, PhaseType, ConditionType, FilterType, CollectionType DEF Step
<1>3. CASE Destroy
  BY <1>3, DestroyType
<1>4. CASE UNCHANGED vars
  BY <1>4
  DEF vars, storeVars, control, filterVars, ownerVars, collVars, outVars, TypeOK, StoreTypeOK
<1> QED
  BY <1>1, <1>2, <1>3, <1>4 DEF Next

\* Every variable of a context keeps its type, whatever the ruleset, the maps
\* and the budgets: no event without a rule, no match without an object.
THEOREM TypeCorrect == Spec => []TypeOK
BY InitType, NextType, PTL DEF Spec

-----------------------------------------------------------------------------
(* Where a call may be *)

\* The rules of the collection under evaluation.
CollRules == IF phase = "priority" THEN PriorityRules(coll) ELSE RegularRules(coll)

\* Nothing is under evaluation between calls; a collection only in its phase,
\* and its cache exists; a rule only in a collection it belongs to; and the
\* priority collections all have a cache before the regular ones are looked at.
ControlInv ==
    /\ phase \in {"idle", "destroyed"} => cur = None /\ coll = None
    /\ coll # None => /\ phase \in {"priority", "regular"}
                      /\ coll \in collCached
                      /\ rulesTodo \subseteq CollRules
    /\ cur \in Rule => coll # None /\ cur \in CollRules
    /\ phase = "priority" => PriorityTypes \ todo \subseteq collCached
    /\ phase = "regular" => PriorityTypes \subseteq collCached

LEMMA FinishControl ==
    ASSUME NEW timeout, NEW evs, Finish(timeout, evs)
    PROVE  ControlInv'
BY RulesetAssumption DEF Finish, ControlInv, Owner

\* A step that moves neither between phases, collections and rules nor
\* forgets a cache.
LEMMA StayControl ==
    ASSUME ControlInv, collCached' = collCached,
           UNCHANGED <<phase, todo, coll, rulesTodo>>, cur' \in {cur, None}
    PROVE  ControlInv'
BY RulesetAssumption DEF ControlInv, CollRules, Owner

LEMMA StepControl ==
    ASSUME ControlInv, Step
    PROVE  ControlInv'
<1>1. CASE NextPhase
  <2>1. cur' = None /\ coll' = None /\ UNCHANGED collCached
    BY <1>1 DEF NextPhase, Between, collVars
  <2>2. PriorityTypes \ PriorityTypes \subseteq collCached
    OBVIOUS
  <2>3. CASE phase = "priority"
    BY <1>1, <2>1, <2>3, RulesetAssumption DEF NextPhase, ControlInv, Owner
  <2>4. CASE phase # "priority"
    BY <1>1, <2>1, <2>2, <2>4, RulesetAssumption DEF NextPhase, ControlInv, Owner
  <2> QED
    BY <2>3, <2>4
<1>2. CASE Return \/ ExpireBetween \/ ExpireInCondition \/ ExpireInObjectFilter
  BY <1>2, FinishControl
  DEF Return, ExpireBetween, ExpireInCondition, ExpireInObjectFilter, Expire
<1>3. CASE SkipCached \/ ConditionMatches \/ ConditionFails \/ RuleFilterMatches \/ InputFilterMatches
  BY <1>3, StayControl
  DEF SkipCached, ConditionMatches, ConditionFails, RuleFilterMatches, InputFilterMatches,
      LeaveOwner, collVars
<1>4. ASSUME NEW f \in RuleFilter, StartRuleFilter(f)
      PROVE  ControlInv'
  BY <1>4, RulesetAssumption DEF StartRuleFilter, ControlInv, CollRules, Owner, Filter, collVars
<1>5. ASSUME NEW f \in InputFilter, StartInputFilter(f)
      PROVE  ControlInv'
  BY <1>5, RulesetAssumption DEF StartInputFilter, ControlInv, CollRules, Owner, Filter, collVars
<1>6. ASSUME NEW t \in Type, EnterPriority(t)
      PROVE  ControlInv'
  BY <1>6, RulesetAssumption DEF EnterPriority, Enter, Between, ControlInv, CollRules, Owner
<1>7. ASSUME NEW t \in Type, EnterRegular(t)
      PROVE  ControlInv'
  BY <1>7, RulesetAssumption DEF EnterRegular, Enter, Between, ControlInv, CollRules, Owner
<1>8. ASSUME NEW r \in Rule, StartRule(r)
      PROVE  ControlInv'
  BY <1>8, RulesetAssumption DEF StartRule, ControlInv, CollRules, Owner, collVars
<1>9. CASE LeaveCollection
  BY <1>9, RulesetAssumption DEF LeaveCollection, Between, ControlInv, Owner, collVars
<1>10. CASE RuleMatches
  <2>1. cur' = None /\ UNCHANGED <<phase, todo, collCached>>
    BY <1>10 DEF RuleMatches, LeaveOwner
  <2>2. \/ coll' = None
        \/ UNCHANGED <<coll, rulesTodo>>
    BY <1>10 DEF RuleMatches
  <2> QED
    BY <2>1, <2>2, RulesetAssumption DEF ControlInv, CollRules, Owner
<1> QED
  BY <1>1, <1>2, <1>3, <1>4, <1>5, <1>6, <1>7, <1>8, <1>9, <1>10 DEF Step

LEMMA NextControl == ControlInv /\ [Next]_vars => ControlInv'
<1> SUFFICES ASSUME ControlInv, [Next]_vars PROVE ControlInv'
  OBVIOUS
<1>1. ASSUME NEW p \in Params, RunStart(p)
      PROVE  ControlInv'
  BY <1>1, RulesetAssumption DEF RunStart, ControlInv, Owner, collVars
<1>2. CASE RunInvalid \/ \E p \in Params : RunNoBudget(p) \/ RunNothingNew(p)
  BY <1>2, StayControl DEF RunInvalid, RunNoBudget, RunNothingNew, NoEvaluation, control, collVars
<1>3. CASE Destroy
  BY <1>3, RulesetAssumption DEF Destroy, ControlInv, Owner, collVars
<1>4. CASE UNCHANGED vars
  BY <1>4, StayControl DEF vars, control, collVars
<1> QED
  BY <1>1, <1>2, <1>3, <1>4, StepControl DEF Next, Run

LEMMA ControlCorrect == Spec => []ControlInv
<1>1. Init => ControlInv
  BY RulesetAssumption DEF Init, ControlInv, Owner
<1> QED
  BY <1>1, NextControl, PTL DEF Spec

-----------------------------------------------------------------------------
(* Ownership *)

\* The maps of the first n calls, in order.
Maps(n) == IF FreesObjects THEN [i \in 1..n |-> i] ELSE <<>>

\* As long as the context lives it owns the map of every call and has freed
\* none; once destroyed, it has freed them all.
OwnershipInv ==
    /\ phase # "destroyed" => owned = Maps(runs) /\ freed = <<>>
    /\ phase = "destroyed" => freed = Maps(runs)

LEMMA OneMoreMap ==
    ASSUME NEW n \in Nat
    PROVE  Maps(n + 1) = IF FreesObjects THEN Append(Maps(n), n + 1) ELSE Maps(n)
<1>1. CASE FreesObjects
  <2>1. Maps(n) \in Seq(Nat) /\ Maps(n + 1) \in Seq(Nat) /\ Len(Maps(n)) = n /\ Len(Maps(n + 1)) = n + 1
    BY <1>1, IsASeq DEF Maps
  <2>2. Append(Maps(n), n + 1) \in Seq(Nat) /\ Len(Append(Maps(n), n + 1)) = n + 1
    BY <2>1
  <2>3. \A i \in 1..(n + 1) : Append(Maps(n), n + 1)[i] = Maps(n + 1)[i]
    BY <1>1, <2>1 DEF Maps
  <2> QED
    BY <1>1, <2>1, <2>2, <2>3, SeqEqual
<1>2. CASE ~FreesObjects
  BY <1>2 DEF Maps
<1> QED
  BY <1>1, <1>2

\* The steps of a call leave the store alone and do not destroy the context,
\* and there are none after its destruction.
LEMMA StepStore ==
    ASSUME ControlInv, Step
    PROVE  UNCHANGED storeVars /\ phase # "destroyed" /\ phase' # "destroyed"
<1>1. CASE NextPhase \/ Return
  BY <1>1 DEF NextPhase, Return, Finish
<1>2. CASE ExpireBetween \/ ExpireInCondition \/ ExpireInObjectFilter
  BY <1>2, RulesetAssumption
  DEF ExpireBetween, ExpireInCondition, ExpireInObjectFilter, Expire, Finish, ControlInv,
      InConditions, AfterConditions
<1>3. CASE SkipCached \/ ConditionMatches \/ ConditionFails
  BY <1>3 DEF SkipCached, ConditionMatches, ConditionFails, InConditions, ControlInv
<1>4. CASE \/ \E f \in RuleFilter : StartRuleFilter(f)
           \/ RuleFilterMatches
           \/ \E f \in InputFilter : StartInputFilter(f)
           \/ InputFilterMatches
  BY <1>4
  DEF StartRuleFilter, RuleFilterMatches, StartInputFilter, InputFilterMatches,
      AfterConditions, ControlInv
<1>5. CASE \E t \in Type : EnterPriority(t) \/ EnterRegular(t)
  BY <1>5 DEF EnterPriority, EnterRegular, Enter
<1>6. CASE (\E r \in Rule : StartRule(r)) \/ LeaveCollection \/ RuleMatches
  BY <1>6 DEF StartRule, LeaveCollection, RuleMatches, AfterConditions, ControlInv
<1> QED
  BY <1>1, <1>2, <1>3, <1>4, <1>5, <1>6 DEF Step

LEMMA NextOwnership == TypeOK /\ ControlInv /\ OwnershipInv /\ [Next]_vars => OwnershipInv'
<1> SUFFICES ASSUME TypeOK, ControlInv, OwnershipInv, [Next]_vars PROVE OwnershipInv'
  OBVIOUS
<1>1. ASSUME phase = "idle", runs' = runs + 1, Own, freed' = freed, phase' # "destroyed"
      PROVE  OwnershipInv'
  <2>1. Maps(runs + 1) = IF FreesObjects THEN Append(Maps(runs), runs + 1) ELSE Maps(runs)
    BY OneMoreMap DEF TypeOK, StoreTypeOK
  <2> QED
    BY <1>1, <2>1 DEF OwnershipInv, Own
<1>2. CASE Run
  BY <1>1, <1>2
  DEF Run, RunInvalid, RunNoBudget, RunNothingNew, RunStart, Insert, InsertInvalid,
      NoEvaluation, control
<1>3. CASE Step
  BY <1>3, StepStore DEF OwnershipInv, storeVars
<1>4. CASE Destroy
  <2>1. Maps(runs) \in Seq(1..MaxRuns)
    BY <1>4 DEF Destroy, OwnershipInv, TypeOK, StoreTypeOK
  <2>2. <<>> \o Maps(runs) = Maps(runs)
    BY <2>1, ConcatEmptySeq
  <2> QED
    BY <1>4, <2>2 DEF Destroy, FreeAll, OwnershipInv
<1>5. CASE UNCHANGED vars
  BY <1>5 DEF vars, storeVars, control, OwnershipInv
<1> QED
  BY <1>2, <1>3, <1>4, <1>5 DEF Next

\* Every map handed to ddwaf_run is freed exactly once, when the context is
\* destroyed, and none is when there is no free function: also those that the
\* store refused, that were never evaluated or whose call ran out of time.
THEOREM OwnershipCorrect == Spec => []OwnedMapsAreFreed
<1>1. Init => OwnershipInv
  BY DEF Init, StoreInit, OwnershipInv, Maps
<1>2. OwnershipInv => OwnedMapsAreFreed
  BY DEF OwnershipInv, OwnedMapsAreFreed, Maps
<1> QED
  BY <1>1, <1>2, TypeCorrect, ControlCorrect, NextOwnership, PTL DEF Spec

-----------------------------------------------------------------------------
(* The collections: the actions the context has seen are exactly those of the *)
(* rules that have matched, although priority and regular collections of a    *)
(* type share a cache, types share actions, and calls run out of time.        *)

\* What makes ActionsAreExact inductive: the cache of a type still expects
\* every action of its rules that the context has not seen.
NoActionMissed ==
    \A t \in collCached : TypeActions(t) \ seenActions \subseteq remaining[t]

ActionsInv == ActionsAreExact /\ NoActionMissed

LEMMA UnionWith ==
    ASSUME NEW f, NEW S, NEW x
    PROVE  UNION {f[r] : r \in S \cup {x}} = (UNION {f[r] : r \in S}) \cup f[x]
OBVIOUS

LEMMA ActionsOfRule ==
    ASSUME NEW t \in Type, NEW r \in PriorityRules(t)
    PROVE  RuleActions[r] \subseteq TypeActions(t)
BY DEF TypeActions

LEMMA NoPriorityRule ==
    ASSUME NEW t \in Type, t \notin PriorityTypes
    PROVE  TypeActions(t) = {}
BY RulesetAssumption DEF TypeActions, PriorityTypes, PriorityRules

\* A step that leaves the collections alone and matches no rule.
LEMMA StayActions ==
    ASSUME ActionsInv, UNCHANGED collVars, Matched' = Matched
    PROVE  ActionsInv'
<1>1. UNCHANGED <<collCached, remaining, seenActions>>
  BY DEF collVars
<1>2. ActionsAreExact'
  BY <1>1 DEF ActionsInv, ActionsAreExact
<1> QED
  BY <1>1, <1>2 DEF ActionsInv, NoActionMissed, TypeActions, PriorityRules

\* A filter that matches is not a rule.
LEMMA FilterMatched ==
    ASSUME TypeOK, NEW f \in Filter, cacheResult' = [cacheResult EXCEPT ![f] = TRUE]
    PROVE  Matched' = Matched
<1>1. f \notin Rule
  BY RulesetAssumption
<1>2. \A r \in Rule : cacheResult'[r] = cacheResult[r]
  BY <1>1 DEF TypeOK, Owner
<1> QED
  BY <1>2 DEF Matched

\* The cache of a type is created, or loses actions already seen.
LEMMA EnterActions ==
    ASSUME TypeOK, ActionsInv, NEW t \in Type, NEW left, NEW rules, Enter(t, left, rules),
           TypeActions(t) \ seenActions \subseteq left
    PROVE  ActionsInv'
<1>1. UNCHANGED seenActions /\ Matched' = Matched
  BY DEF Enter, ownerVars, Matched
<1>2. ActionsAreExact'
  BY <1>1 DEF ActionsInv, ActionsAreExact
<1>3. ASSUME NEW u \in collCached'
      PROVE  TypeActions(u) \ seenActions \subseteq remaining'[u]
  <2>1. u \in Type
    BY <1>3 DEF Enter, TypeOK
  <2>2. CASE u = t
    BY <2>2 DEF Enter, TypeOK
  <2>3. CASE u # t
    <3>1. u \in collCached /\ remaining'[u] = remaining[u]
      BY <1>3, <2>1, <2>3 DEF Enter, TypeOK
    <3> QED
      BY <3>1 DEF ActionsInv, NoActionMissed
  <2> QED
    BY <2>2, <2>3
<1> QED
  BY <1>1, <1>2, <1>3 DEF ActionsInv, NoActionMissed, TypeActions, PriorityRules

LEMMA EntersActions ==
    ASSUME TypeOK, ControlInv, ActionsInv, NEW t \in Type, EnterPriority(t) \/ EnterRegular(t)
    PROVE  ActionsInv'
<1>1. CASE EnterPriority(t)
  <2>1. TypeActions(t) \ seenActions
          \subseteq (IF t \in collCached THEN remaining[t] ELSE TypeActions(t)) \ seenActions
    BY DEF ActionsInv, NoActionMissed
  <2> QED
    BY <1>1, <2>1, EnterActions DEF EnterPriority
<1>2. CASE EnterRegular(t)
  <2>1. t \notin collCached => TypeActions(t) = {}
    BY <1>2, NoPriorityRule DEF EnterRegular, ControlInv
  <2>2. TypeActions(t) \ seenActions \subseteq (IF t \in collCached THEN remaining[t] ELSE {})
    BY <2>1 DEF ActionsInv, NoActionMissed
  <2> QED
    BY <1>2, <2>2, EnterActions DEF EnterRegular
<1> QED
  BY <1>1, <1>2

\* A rule that matches in priority mode adds those of its actions that its
\* collection expects; in any other mode they have all been seen before.
LEMMA RuleMatchesActions ==
    ASSUME TypeOK, ControlInv, ActionsInv, RuleMatches
    PROVE  ActionsInv'
<1> DEFINE found == RuleActions[cur] \cap remaining[coll]
<1>1. cur \in Rule /\ coll \in Type /\ coll \in collCached /\ cur \in CollRules
  BY RulesetAssumption DEF RuleMatches, ControlInv, TypeOK
<1>2. Matched' = Matched \cup {cur}
  BY <1>1 DEF RuleMatches, Matched, TypeOK, Owner
<1>3. RuleActions[cur] \subseteq TypeActions(coll)
  <2>1. CASE phase = "priority"
    BY <1>1, <2>1, ActionsOfRule DEF CollRules
  <2>2. CASE phase # "priority"
    BY <1>1, <2>2 DEF CollRules, RegularRules
  <2> QED
    BY <2>1, <2>2
<1>4. TypeActions(coll) \ seenActions \subseteq remaining[coll]
  BY <1>1 DEF ActionsInv, NoActionMissed
<1>5. UNCHANGED collCached
  BY DEF RuleMatches
<1>6. seenActions' = seenActions \cup RuleActions[cur]
  <2>1. CASE PriorityMode
    BY <1>3, <1>4, <2>1 DEF RuleMatches
  <2>2. CASE ~PriorityMode
    <3>1. RuleActions[cur] \subseteq seenActions
      <4>1. CASE phase = "priority"
        BY <1>3, <1>4, <2>2, <4>1 DEF PriorityMode
      <4>2. CASE phase # "priority"
        BY <1>1, <4>2 DEF CollRules, RegularRules
      <4> QED
        BY <4>1, <4>2
    <3> QED
      BY <2>2, <3>1 DEF RuleMatches
  <2> QED
    BY <2>1, <2>2
<1>7. ActionsAreExact'
  <2>1. UNION {RuleActions[r] : r \in Matched \cup {cur}}
          = (UNION {RuleActions[r] : r \in Matched}) \cup RuleActions[cur]
    BY UnionWith
  <2> QED
    BY <1>2, <1>6, <2>1 DEF ActionsInv, ActionsAreExact
<1>8. ASSUME NEW t \in collCached
      PROVE  TypeActions(t) \ seenActions' \subseteq remaining'[t]
  <2>1. t \in Type /\ TypeActions(t) \ seenActions \subseteq remaining[t]
    BY <1>8 DEF ActionsInv, NoActionMissed, TypeOK
  <2>2. CASE PriorityMode
    <3>1. remaining' = [remaining EXCEPT ![coll] = remaining[coll] \ found]
      BY <2>2 DEF RuleMatches
    <3>2. remaining'[t] = IF t = coll THEN remaining[coll] \ found ELSE remaining[t]
      BY <1>1, <2>1, <3>1 DEF TypeOK
    <3>3. found \subseteq seenActions'
      BY <1>6
    <3> QED
      BY <1>6, <2>1, <3>2, <3>3
  <2>3. CASE ~PriorityMode
    BY <1>6, <2>1, <2>3 DEF RuleMatches
  <2> QED
    BY <2>2, <2>3
<1> QED
  BY <1>5, <1>7, <1>8 DEF ActionsInv, NoActionMissed, TypeActions, PriorityRules

LEMMA NextActions == TypeOK /\ ControlInv /\ ActionsInv /\ [Next]_vars => ActionsInv'
<1> SUFFICES ASSUME TypeOK, ControlInv, ActionsInv, [Next]_vars PROVE ActionsInv'
  OBVIOUS
<1> USE StayActions
<1>1. CASE Run
  BY <1>1
  DEF Run, RunInvalid, RunNoBudget, RunNothingNew, RunStart, NoEvaluation, ownerVars, Matched
<1>2. CASE NextPhase \/ Return \/ ExpireBetween
  BY <1>2 DEF NextPhase, Return, ExpireBetween, ownerVars, Matched
<1>3. CASE SkipCached \/ ConditionMatches \/ ConditionFails \/ ExpireInCondition
  BY <1>3 DEF SkipCached, ConditionMatches, ConditionFails, ExpireInCondition, ownerVars, Matched
<1>4. CASE \/ \E f \in RuleFilter : StartRuleFilter(f)
           \/ \E f \in InputFilter : StartInputFilter(f)
  BY <1>4 DEF StartRuleFilter, StartInputFilter, ownerVars, Matched
<1>5. CASE RuleFilterMatches \/ InputFilterMatches \/ ExpireInObjectFilter
  <2>1. cur \in Filter
    BY <1>5 DEF RuleFilterMatches, InputFilterMatches, ExpireInObjectFilter, Filter
  <2> QED
    BY <1>5, <2>1, FilterMatched DEF RuleFilterMatches, InputFilterMatches, ExpireInObjectFilter
<1>6. CASE \E t \in Type : EnterPriority(t) \/ EnterRegular(t)
  BY <1>6, EntersActions
<1>7. CASE (\E r \in Rule : StartRule(r)) \/ LeaveCollection
  BY <1>7 DEF StartRule, LeaveCollection, ownerVars, Matched
<1>8. CASE RuleMatches
  BY <1>8, RuleMatchesActions
<1>9. CASE Destroy \/ UNCHANGED vars
  BY <1>9 DEF Destroy, vars, ownerVars, Matched
<1> QED
  BY <1>1, <1>2, <1>3, <1>4, <1>5, <1>6, <1>7, <1>8, <1>9 DEF Next, Step

LEMMA ActionsInvariant == Spec => []ActionsInv
<1>1. Init => ActionsInv
  BY RulesetAssumption DEF Init, ActionsInv, ActionsAreExact, NoActionMissed, Matched, Owner
<1> QED
  BY <1>1, TypeCorrect, ControlCorrect, NextActions, PTL DEF Spec

\* The actions of a context are those of the rules that matched: none is lost
\* between collections, calls and timeouts, and none is invented.
THEOREM ActionsCorrect == Spec => []ActionsAreExact
<1>1. ActionsInv => ActionsAreExact
  BY DEF ActionsInv
<1> QED
  BY <1>1, ActionsInvariant, PTL
-----------------------------------------------------------------------------
(* A context implements the promise of EventReport: whatever its caches     *)
(* share and wherever its calls run out of time, no rule is reported twice, *)
(* and after something of a type was reported only its rules with actions   *)
(* are, as long as an action of the type was not.                           *)

\* What the cache of a collection knows of the rules of its type: nothing
\* remains that is not an action of the type, a rule that matched has set the
\* result, and a collection is only under evaluation with its result set if it
\* has actions remaining, none of which has been seen.
SharedInv ==
    /\ \A t \in Type : remaining[t] \subseteq TypeActions(t)
    /\ \A r \in Matched : collResult[RuleType[r]]
    /\ coll # None => /\ collResult[coll] => phase = "priority" /\ remaining[coll] # {}
                      /\ phase = "priority" => remaining[coll] \cap seenActions = {}
    /\ cur \notin Matched

\* The rules reported when the n-th event of the call in progress is.
Earlier(n) == delivered \cup {events[j].rule : j \in 1..(n - 1)}

\* Each event of the call in progress may be reported after those before it,
\* and all that was reported has matched (the converse fails: events are lost).
PromiseInv ==
    /\ delivered \subseteq Matched
    /\ \A n \in DOMAIN events : /\ events[n].rule \in Matched
                                /\ Reported!MayReport(events[n].rule, Earlier(n))

-----------------------------------------------------------------------------

LEMMA StayShared ==
    ASSUME SharedInv, UNCHANGED collVars, Matched' = Matched,
           coll' = None \/ UNCHANGED <<phase, coll>>,
           cur' = cur \/ cur' \notin Matched
    PROVE  SharedInv'
<1>1. UNCHANGED <<collCached, collResult, remaining, seenActions>>
  BY DEF collVars
<1> QED
  BY <1>1 DEF SharedInv, TypeActions, PriorityRules

LEMMA NotMatched ==
    ASSUME NEW o, o = None \/ o \in Filter
    PROVE  o \notin Matched
BY RulesetAssumption DEF Matched, Owner

\* The rule under evaluation is one of the collection under evaluation.
LEMMA RuleOfCollection ==
    ASSUME TypeOK, ControlInv, cur \in Rule
    PROVE  /\ coll \in Type /\ coll # None /\ RuleType[cur] = coll
           /\ phase = "priority" => cur \in PriorityRules(coll)
BY RulesetAssumption DEF TypeOK, ControlInv, CollRules, PriorityRules, RegularRules

LEMMA EnterShared ==
    ASSUME TypeOK, SharedInv, NEW t \in Type, NEW left, NEW rules, Enter(t, left, rules),
           left \subseteq TypeActions(t),
           phase = "priority" => left \cap seenActions = {}
    PROVE  SharedInv'
<1>1. /\ UNCHANGED <<phase, collResult, seenActions, cur>> /\ Matched' = Matched
      /\ remaining' = [remaining EXCEPT ![t] = left]
  BY DEF Enter, ownerVars, Matched
<1>2. remaining'[t] = left /\ \A u \in Type \ {t} : remaining'[u] = remaining[u]
  BY <1>1 DEF TypeOK
<1>3. \A u \in Type : remaining'[u] \subseteq TypeActions(u)
  BY <1>2 DEF SharedInv
<1>4. \/ coll' = None
      \/ coll' = t /\ (collResult[t] => phase = "priority" /\ left # {})
  BY DEF Enter
<1> QED
  BY <1>1, <1>2, <1>3, <1>4 DEF SharedInv, TypeActions, PriorityRules

LEMMA EntersShared ==
    ASSUME TypeOK, SharedInv, NEW t \in Type, EnterPriority(t) \/ EnterRegular(t)
    PROVE  SharedInv'
<1>1. remaining[t] \subseteq TypeActions(t)
  BY DEF SharedInv
<1>2. CASE EnterPriority(t)
  BY <1>1, <1>2, EnterShared DEF EnterPriority
<1>3. CASE EnterRegular(t)
  BY <1>1, <1>3, EnterShared DEF EnterRegular
<1> QED
  BY <1>2, <1>3

LEMMA RuleMatchesMatched ==
    ASSUME TypeOK, RuleMatches
    PROVE  Matched' = Matched \cup {cur}
BY DEF RuleMatches, Matched, TypeOK, Owner

LEMMA RuleMatchesShared ==
    ASSUME TypeOK, ControlInv, SharedInv, RuleMatches
    PROVE  SharedInv'
<1> DEFINE found == RuleActions[cur] \cap remaining[coll]
<1>1. cur \in Rule /\ coll \in Type /\ coll # None /\ RuleType[cur] = coll
  BY RuleOfCollection DEF RuleMatches
<1>2. \A t \in Type : collResult'[t] = (t = coll \/ collResult[t])
  BY <1>1 DEF RuleMatches, TypeOK
<1>3. \A r \in Matched' : collResult'[RuleType[r]]
  <2>1. \A r \in Matched : RuleType[r] \in Type
    BY RulesetAssumption DEF Matched
  <2>2. \A r \in Matched : collResult[RuleType[r]]
    BY DEF SharedInv
  <2>3. Matched' = Matched \cup {cur}
    BY RuleMatchesMatched
  <2> QED
    BY <1>1, <1>2, <2>1, <2>2, <2>3
<1>4. cur' \notin Matched'
  BY NotMatched, RulesetAssumption DEF RuleMatches, LeaveOwner, Matched, Owner
<1>5. CASE PriorityMode
  <2>1. /\ remaining' = [remaining EXCEPT ![coll] = remaining[coll] \ found]
        /\ seenActions' = seenActions \cup found
        /\ coll' = None \/ (coll' = coll /\ remaining[coll] \ found # {})
        /\ phase = "priority" /\ phase' = phase
    BY <1>5 DEF RuleMatches, PriorityMode
  <2>2. /\ remaining'[coll] = remaining[coll] \ found
        /\ \A t \in Type \ {coll} : remaining'[t] = remaining[t]
    BY <1>1, <2>1 DEF TypeOK
  <2>3. \A t \in Type : remaining'[t] \subseteq TypeActions(t)
    BY <2>2 DEF SharedInv
  <2>4. remaining[coll] \cap seenActions = {}
    BY <1>1, <2>1 DEF SharedInv
  <2>5. (remaining[coll] \ found) \cap (seenActions \cup found) = {}
    BY <2>4
  <2> QED
    BY <1>3, <1>4, <2>1, <2>2, <2>3, <2>5 DEF SharedInv, TypeActions, PriorityRules
<1>6. CASE ~PriorityMode
  <2>1. coll' = None /\ UNCHANGED remaining
    BY <1>6 DEF RuleMatches
  <2> QED
    BY <1>3, <1>4, <2>1 DEF SharedInv, TypeActions, PriorityRules
<1> QED
  BY <1>5, <1>6

\* Only a rule that has not matched is evaluated.
LEMMA StartRuleShared ==
    ASSUME SharedInv, NEW r \in Rule, StartRule(r)
    PROVE  SharedInv'
<1>1. cur' \notin Matched
  BY NotMatched DEF StartRule, Evaluable, Matched
<1>2. Matched' = Matched
  BY DEF StartRule, ownerVars, Matched
<1> QED
  BY <1>1, <1>2, StayShared DEF StartRule

LEMMA NextShared == TypeOK /\ ControlInv /\ SharedInv /\ [Next]_vars => SharedInv'
<1> SUFFICES ASSUME TypeOK, ControlInv, SharedInv, [Next]_vars PROVE SharedInv'
  OBVIOUS
<1>1. CASE Run
  <2>1. /\ UNCHANGED <<collVars, cur, coll>> /\ Matched' = Matched
        /\ phase = "idle"
    BY <1>1 DEF Run, RunInvalid, RunNoBudget, RunNothingNew, RunStart, NoEvaluation, control,
                ownerVars, Matched
  <2>2. coll = None
    BY <2>1 DEF ControlInv
  <2> QED
    BY <2>1, <2>2, StayShared
<1>2. CASE NextPhase \/ Return \/ ExpireBetween
  <2>1. /\ UNCHANGED collVars /\ Matched' = Matched
        /\ coll' = None /\ cur' = None
    BY <1>2 DEF NextPhase, Between, Return, ExpireBetween, Expire, Finish, ownerVars, Matched
  <2> QED
    BY <2>1, NotMatched, StayShared
<1>3. CASE SkipCached \/ ConditionMatches \/ ConditionFails
  <2>1. /\ UNCHANGED <<collVars, phase, coll>> /\ Matched' = Matched
        /\ cur' = cur \/ cur' = None
    BY <1>3 DEF SkipCached, ConditionMatches, ConditionFails, LeaveOwner, ownerVars, Matched
  <2> QED
    BY <2>1, NotMatched, StayShared
<1>4. CASE ExpireInCondition
  <2>1. /\ UNCHANGED collVars /\ Matched' = Matched
        /\ coll' = None /\ cur' = None
    BY <1>4 DEF ExpireInCondition, Expire, Finish, Matched
  <2> QED
    BY <2>1, NotMatched, StayShared
<1>5. CASE \/ \E f \in RuleFilter : StartRuleFilter(f)
           \/ \E f \in InputFilter : StartInputFilter(f)
  <2>1. /\ UNCHANGED <<collVars, phase, coll>> /\ Matched' = Matched
        /\ cur' = None \/ cur' \in Filter
    BY <1>5 DEF StartRuleFilter, StartInputFilter, ownerVars, Matched, Filter
  <2> QED
    BY <2>1, NotMatched, StayShared
<1>6. CASE RuleFilterMatches \/ InputFilterMatches \/ ExpireInObjectFilter
  <2>1. cur \in Filter /\ cacheResult' = [cacheResult EXCEPT ![cur] = TRUE]
    BY <1>6 DEF RuleFilterMatches, InputFilterMatches, ExpireInObjectFilter, Filter
  <2>2. Matched' = Matched
    BY <2>1, FilterMatched
  <2>3. /\ UNCHANGED collVars /\ cur' = None
        /\ coll' = None \/ UNCHANGED <<phase, coll>>
    BY <1>6 DEF RuleFilterMatches, InputFilterMatches, ExpireInObjectFilter, LeaveOwner, Expire, Finish
  <2> QED
    BY <2>2, <2>3, NotMatched, StayShared
<1>7. CASE \E t \in Type : EnterPriority(t) \/ EnterRegular(t)
  BY <1>7, EntersShared
<1>8. CASE \E r \in Rule : StartRule(r)
  BY <1>8, StartRuleShared
<1>9. CASE LeaveCollection
  <2>1. UNCHANGED <<collVars, cur>> /\ Matched' = Matched /\ coll' = None
    BY <1>9 DEF LeaveCollection, ownerVars, Matched
  <2> QED
    BY <2>1, StayShared
<1>10. CASE RuleMatches
  BY <1>10, RuleMatchesShared
<1>11. CASE Destroy \/ UNCHANGED vars
  <2>1. UNCHANGED <<collVars, cur, coll>> /\ Matched' = Matched
        /\ (UNCHANGED phase \/ coll = None)
    BY <1>11 DEF Destroy, vars, control, ownerVars, Matched, ControlInv
  <2> QED
    BY <2>1, StayShared
<1> QED
  BY <1>1, <1>2, <1>3, <1>4, <1>5, <1>6, <1>7, <1>8, <1>9, <1>10, <1>11 DEF Next, Step

-----------------------------------------------------------------------------
\* When a rule matches, it may be reported after those reported so far: the
\* first of its type, or in priority mode, for an action still remaining.
LEMMA MayReportMatch ==
    ASSUME TypeOK, ControlInv, ActionsInv, SharedInv, RuleMatches,
           NEW R, R \subseteq Matched
    PROVE  Reported!MayReport(cur, R)
<1>1. cur \in Rule /\ coll \in Type /\ coll # None /\ RuleType[cur] = coll
  BY RuleOfCollection DEF RuleMatches
<1>2. cur \notin R
  BY DEF SharedInv
<1>3. CASE ~collResult[coll]
  <2>1. \A r \in R : collResult[RuleType[r]]
    BY DEF SharedInv
  <2>2. Reported!OfType(cur, R) = {}
    BY <1>1, <1>3, <2>1 DEF Reported!OfType
  <2> QED
    BY <1>2, <2>2 DEF Reported!MayReport
<1>4. CASE collResult[coll]
  <2>1. phase = "priority" /\ remaining[coll] # {}
    BY <1>1, <1>4 DEF SharedInv
  <2>2. /\ remaining[coll] \cap seenActions = {}
        /\ remaining[coll] \subseteq TypeActions(coll)
    BY <1>1, <2>1 DEF SharedInv
  <2>3. PICK a \in remaining[coll] : TRUE
    BY <2>1
  <2>4. a \notin Reported!ActionsOf(R)
    <3>1. a \notin UNION {RuleActions[r] : r \in Matched}
      BY <2>2, <2>3 DEF ActionsInv, ActionsAreExact
    <3> QED
      BY <3>1 DEF Reported!ActionsOf
  <2>5. a \in Reported!ActionsOf(Reported!OfType(cur, Rule))
    <3>1. PICK r \in PriorityRules(coll) : a \in RuleActions[r]
      BY <2>2, <2>3 DEF TypeActions
    <3>2. r \in Reported!OfType(cur, Rule)
      BY <1>1, <3>1 DEF PriorityRules, Reported!OfType
    <3> QED
      BY <3>1, <3>2 DEF Reported!ActionsOf
  <2>6. RuleActions[cur] # {}
    BY <1>1, <2>1, RuleOfCollection DEF PriorityRules
  <2> QED
    BY <1>2, <2>4, <2>5, <2>6 DEF Reported!MayReport
<1> QED
  BY <1>3, <1>4

\* A step that finds no event, and may lose those found.
LEMMA StayPromised ==
    ASSUME TypeOK, PromiseInv, Matched' = Matched,
           UNCHANGED events \/ events' = <<>>,
           UNCHANGED delivered \/ delivered' = delivered \cup {events[i].rule : i \in DOMAIN events},
           events' = <<>> \/ UNCHANGED delivered
    PROVE  PromiseInv'
<1>1. delivered' \subseteq Matched'
  BY DEF PromiseInv
<1>2. CASE events' = <<>>
  BY <1>1, <1>2 DEF PromiseInv
<1>3. CASE UNCHANGED events /\ UNCHANGED delivered
  BY <1>1, <1>3
  DEF PromiseInv, Earlier, Reported!MayReport, Reported!OfType, Reported!ActionsOf
<1> QED
  BY <1>2, <1>3

LEMMA EventsType == TypeOK => events \in Seq(Event)
BY DEF TypeOK

LEMMA RuleMatchesPromised ==
    ASSUME TypeOK, ControlInv, ActionsInv, SharedInv, PromiseInv, RuleMatches
    PROVE  PromiseInv'
<1> DEFINE e == [rule |-> cur, matches |-> matches[cur]]
           last == Len(events) + 1
<1>1. /\ Matched' = Matched \cup {cur}
      /\ events' = Append(events, e)
      /\ UNCHANGED delivered
  BY RuleMatchesMatched DEF RuleMatches, outVars
<1>2. events \in Seq(Event) /\ last \in Nat
  BY EventsType
<1>3. cur \in Rule /\ e \in Event
  BY DEF RuleMatches, TypeOK, Event
<1>4. /\ DOMAIN events' = 1..last
      /\ events'[last] = e
      /\ \A n \in DOMAIN events : events'[n] = events[n] /\ n \in 1..(last - 1)
      /\ DOMAIN events = 1..(last - 1)
  BY <1>1, <1>2, <1>3
<1>5. \A n \in 1..last : Earlier(n)' = Earlier(n)
  <2> TAKE n \in 1..last
  <2>1. \A j \in 1..(n - 1) : events'[j] = events[j]
    BY <1>2, <1>4
  <2> QED
    BY <1>1, <2>1 DEF Earlier
<1>6. Earlier(last) \subseteq Matched
  BY <1>4 DEF Earlier, PromiseInv
<1>7. delivered' \subseteq Matched'
  BY <1>1 DEF PromiseInv
<1>8. ASSUME NEW n \in DOMAIN events'
      PROVE  /\ events'[n].rule \in Matched'
             /\ Reported!MayReport(events'[n].rule, Earlier(n)')
  <2>1. CASE n = last
    <3>1. Reported!MayReport(cur, Earlier(last))
      BY <1>6, MayReportMatch
    <3>2. events'[n].rule = cur /\ Earlier(n)' = Earlier(last)
      BY <1>2, <1>4, <1>5, <2>1
    <3> QED
      BY <1>1, <3>1, <3>2
  <2>2. CASE n # last
    <3>1. n \in DOMAIN events /\ events'[n] = events[n] /\ Earlier(n)' = Earlier(n)
      BY <1>2, <1>4, <1>5, <1>8, <2>2
    <3> QED
      BY <1>1, <3>1 DEF PromiseInv
  <2> QED
    BY <2>1, <2>2
<1> QED
  BY <1>7, <1>8 DEF PromiseInv, Reported!MayReport, Reported!OfType, Reported!ActionsOf

\* A call that runs out of time reports nothing.
LEMMA ExpireReports ==
    ASSUME Expire
    PROVE  UNCHANGED delivered /\ events' = <<>> /\ out'.events = <<>>
<1>1. Finish(TRUE, <<>>)
  BY DEF Expire
<1>2. {<<>>[i].rule : i \in DOMAIN <<>>} = {}
  OBVIOUS
<1> QED
  BY <1>1, <1>2 DEF Finish, Outcome

\* No other step finds an event.
LEMMA NextPromised ==
    TypeOK /\ ControlInv /\ ActionsInv /\ SharedInv /\ PromiseInv /\ [Next]_vars => PromiseInv'
<1> SUFFICES ASSUME TypeOK, ControlInv, ActionsInv, SharedInv, PromiseInv, [Next]_vars
             PROVE  PromiseInv'
  OBVIOUS
<1>1. CASE Run
  <2>1. UNCHANGED <<events, delivered>> /\ Matched' = Matched
    BY <1>1 DEF Run, RunInvalid, RunNoBudget, RunNothingNew, RunStart, NoEvaluation, control,
                ownerVars, outVars, Matched
  <2> QED
    BY <2>1, StayPromised
<1>2. CASE Return
  <2>1. /\ events' = <<>> /\ Matched' = Matched
        /\ delivered' = delivered \cup {events[i].rule : i \in DOMAIN events}
    BY <1>2 DEF Return, Finish, ownerVars, Matched
  <2> QED
    BY <2>1, StayPromised
<1>3. CASE ExpireBetween \/ ExpireInCondition
  <2>1. events' = <<>> /\ Matched' = Matched /\ UNCHANGED delivered
    BY <1>3, ExpireReports DEF ExpireBetween, ExpireInCondition, ownerVars, Matched
  <2> QED
    BY <2>1, StayPromised
<1>4. CASE RuleFilterMatches \/ InputFilterMatches \/ ExpireInObjectFilter
  <2>1. cur \in Filter /\ cacheResult' = [cacheResult EXCEPT ![cur] = TRUE]
    BY <1>4 DEF RuleFilterMatches, InputFilterMatches, ExpireInObjectFilter, Filter
  <2>2. Matched' = Matched
    BY <2>1, FilterMatched
  <2>3. UNCHANGED delivered /\ (UNCHANGED events \/ events' = <<>>)
    BY <1>4, ExpireReports
    DEF RuleFilterMatches, InputFilterMatches, ExpireInObjectFilter, outVars
  <2> QED
    BY <2>2, <2>3, StayPromised
<1>5. CASE \/ NextPhase \/ SkipCached \/ ConditionMatches \/ ConditionFails
           \/ \E f \in RuleFilter : StartRuleFilter(f)
           \/ \E f \in InputFilter : StartInputFilter(f)
           \/ \E r \in Rule : StartRule(r)
           \/ LeaveCollection
  <2>1. UNCHANGED <<events, delivered>> /\ Matched' = Matched
    BY <1>5 DEF NextPhase, SkipCached, ConditionMatches, ConditionFails, StartRuleFilter,
                StartInputFilter, StartRule, LeaveCollection, ownerVars, outVars, Matched
  <2> QED
    BY <2>1, StayPromised
<1>6. CASE \E t \in Type : EnterPriority(t) \/ EnterRegular(t)
  <2>1. UNCHANGED <<events, delivered>> /\ Matched' = Matched
    BY <1>6 DEF EnterPriority, EnterRegular, Enter, ownerVars, outVars, Matched
  <2> QED
    BY <2>1, StayPromised
<1>7. CASE RuleMatches
  BY <1>7, RuleMatchesPromised
<1>8. CASE Destroy \/ UNCHANGED vars
  <2>1. UNCHANGED <<events, delivered>> /\ Matched' = Matched
    BY <1>8 DEF Destroy, vars, control, ownerVars, outVars, Matched
  <2> QED
    BY <2>1, StayPromised
<1> QED
  BY <1>1, <1>2, <1>3, <1>4, <1>5, <1>6, <1>7, <1>8 DEF Next, Step

-----------------------------------------------------------------------------
\* The rules reported by the last call, the refinement mapping.
Reports == [i \in DOMAIN out.events |-> out.events[i].rule]

\* A call that reports nothing.
LEMMA ReportNone ==
    ASSUME UNCHANGED delivered, out'.events = <<>>
    PROVE  Reported!Report
<1>1. Reports' = <<>>
  BY DEF Reports
<1>2. Reports' \in Seq(Rule) /\ DOMAIN Reports' = {}
  BY <1>1
<1>3. delivered' = delivered \cup {Reports'[i] : i \in DOMAIN Reports'}
  BY <1>2
<1> QED
  BY <1>2, <1>3 DEF Reported!Report, Reports

\* A call that reports the events it found.
LEMMA ReportEvents ==
    ASSUME TypeOK, PromiseInv, Return
    PROVE  Reported!Report
<1>1. events \in Seq(Event)
  BY EventsType
<1>2. out'.events = events /\ delivered' = delivered \cup {events[i].rule : i \in DOMAIN events}
  BY DEF Return, Finish, Outcome
<1>3. Reports' = [i \in DOMAIN events |-> events[i].rule]
  BY <1>2 DEF Reports
<1>4. \A i \in DOMAIN events : events[i].rule \in Rule
  <2>1. \A e \in Event : e.rule \in Rule
    BY DEF Event
  <2> QED
    BY <1>1, <2>1
<1>5. Reports' \in Seq(Rule) /\ DOMAIN Reports' = DOMAIN events
  BY <1>1, <1>3, <1>4
<1>6. ASSUME NEW i \in DOMAIN Reports'
      PROVE  Reported!MayReport(Reports'[i], delivered \cup {Reports'[j] : j \in 1..(i - 1)})
  <2>1. i \in DOMAIN events /\ Reports'[i] = events[i].rule
    BY <1>3, <1>5, <1>6
  <2>2. \A j \in 1..(i - 1) : Reports'[j] = events[j].rule
    BY <1>1, <1>3, <2>1
  <2>3. delivered \cup {Reports'[j] : j \in 1..(i - 1)} = Earlier(i)
    BY <2>2 DEF Earlier
  <2> QED
    BY <2>1, <2>3 DEF PromiseInv
<1>7. delivered' = delivered \cup {Reports'[i] : i \in DOMAIN Reports'}
  BY <1>2, <1>3, <1>5
<1> QED
  BY <1>5, <1>6, <1>7 DEF Reported!Report, Reports

\* A step reports the events of a call, reports nothing, or leaves the last
\* report as it was.
LEMMA StepReports == TypeOK /\ PromiseInv /\ [Next]_vars => [Reported!Report]_(Reported!vars)
<1> SUFFICES ASSUME TypeOK, PromiseInv, [Next]_vars PROVE [Reported!Report]_(Reported!vars)
  OBVIOUS
<1>1. ASSUME UNCHANGED outVars PROVE UNCHANGED Reported!vars
  BY <1>1 DEF outVars, Reported!vars
<1>2. CASE Return
  BY <1>2, ReportEvents
<1>3. CASE ExpireBetween \/ ExpireInCondition \/ ExpireInObjectFilter
  <2>1. UNCHANGED delivered /\ out'.events = <<>>
    BY <1>3, ExpireReports DEF ExpireBetween, ExpireInCondition, ExpireInObjectFilter
  <2> QED
    BY <2>1, ReportNone
<1>4. CASE RunInvalid \/ \E p \in Params : RunNoBudget(p) \/ RunNothingNew(p)
  <2>1. UNCHANGED delivered /\ out'.events = <<>>
    BY <1>4 DEF RunInvalid, RunNoBudget, RunNothingNew, NoEvaluation, Outcome
  <2> QED
    BY <2>1, ReportNone
<1>5. CASE \/ \E p \in Params : RunStart(p)
           \/ NextPhase \/ SkipCached \/ ConditionMatches \/ ConditionFails
           \/ \E f \in RuleFilter : StartRuleFilter(f)
           \/ \E f \in InputFilter : StartInputFilter(f)
           \/ RuleFilterMatches \/ InputFilterMatches
           \/ \E r \in Rule : StartRule(r)
           \/ LeaveCollection \/ RuleMatches
  <2>1. UNCHANGED outVars
    BY <1>5 DEF RunStart, NextPhase, SkipCached, ConditionMatches, ConditionFails, StartRuleFilter,
                StartInputFilter, RuleFilterMatches, InputFilterMatches, StartRule,
                LeaveCollection, RuleMatches
  <2> QED
    BY <1>1, <2>1
<1>6. CASE \/ \E t \in Type : EnterPriority(t) \/ EnterRegular(t)
           \/ Destroy \/ UNCHANGED vars
  <2>1. UNCHANGED outVars
    BY <1>6 DEF EnterPriority, EnterRegular, Enter, Destroy, vars
  <2> QED
    BY <1>1, <2>1
<1> QED
  BY <1>2, <1>3, <1>4, <1>5, <1>6 DEF Next, Run, Step

LEMMA ReportInit == Init => SharedInv /\ PromiseInv /\ Reported!Init
<1> SUFFICES ASSUME Init PROVE SharedInv /\ PromiseInv /\ Reported!Init
  OBVIOUS
<1>1. Matched = {}
  BY RulesetAssumption DEF Init, Matched, Owner
<1>2. SharedInv
  BY <1>1 DEF Init, SharedInv
<1>3. PromiseInv
  BY <1>1 DEF Init, PromiseInv
<1>4. Reports = <<>> /\ delivered = {}
  BY DEF Init, Reports
<1> QED
  BY <1>2, <1>3, <1>4 DEF Reported!Init, Reports

\* Every context implements EventReport: over all its calls, whichever of them
\* run out of time, no rule is reported twice, and a type is only reported
\* again by rules with actions, while an action of the type was not reported.
THEOREM ReportCorrect == Spec => ReportPromise
<1>1. Init => Reported!Init
  BY ReportInit
<1>2. Spec => [](SharedInv /\ PromiseInv)
  BY ReportInit, TypeCorrect, ControlCorrect, ActionsInvariant, NextShared, NextPromised,
     PTL DEF Spec
<1> QED
  BY <1>1, <1>2, TypeCorrect, StepReports, PTL DEF Spec, ReportPromise, Reported!Spec

-----------------------------------------------------------------------------
(* The caches of the conditions, and the events *)

\* The conditions before the one under evaluation are all true, and an owner
\* under evaluation has no result yet, but for an input filter.
LoopInv ==
    /\ cur = None => idx = 1
    /\ cur # None =>
         /\ idx \in 1..(Len(Conditions[cur]) + 1)
         /\ \A j \in 1..(idx - 1) : condCache[<<cur, j>>] = "true"
    /\ cur \in Owner \ InputFilter => ~cacheResult[cur]

\* CachesAreOrdered, owner by owner.
Ordered(o) ==
    \A i, j \in DOMAIN Conditions[o] :
        i < j /\ condCache[<<o, i>>] # "true" => condCache[<<o, j>>] = "absent"
ResultIsTrue(o) == cacheResult[o] => \A i \in DOMAIN Conditions[o] : condCache[<<o, i>>] = "true"
MatchesCounted(r) ==
    Len(matches[r]) = IF cacheResult[r] THEN 0 ELSE Cardinality(Resolved(r))

CachesInv ==
    /\ \A o \in Owner : Ordered(o) /\ ResultIsTrue(o)
    /\ \A r \in Rule : MatchesCounted(r)
    /\ LoopInv

LEMMA ConditionsOf ==
    ASSUME NEW o \in Owner
    PROVE  /\ Conditions[o] \in Seq(Condition)
           /\ Len(Conditions[o]) \in Nat
           /\ DOMAIN Conditions[o] = 1..Len(Conditions[o])
BY RulesetAssumption

LEMMA InCell ==
    ASSUME NEW o \in Owner, NEW i \in DOMAIN Conditions[o]
    PROVE  <<o, i>> \in Cell
BY DEF Cell

LEMMA CachesOrdered == CachesInv => CachesAreOrdered
<1> SUFFICES ASSUME CachesInv, NEW o \in Owner
             PROVE  /\ \A i, j \in DOMAIN Conditions[o] :
                         i < j /\ CacheOf(o)[i] # "true" => CacheOf(o)[j] = "absent"
                    /\ cacheResult[o] => Resolved(o) = DOMAIN Conditions[o]
                    /\ o \in Rule => MatchesCounted(o)
  BY DEF CachesAreOrdered, MatchesCounted
<1>1. \A i \in DOMAIN Conditions[o] : CacheOf(o)[i] = condCache[<<o, i>>]
  BY DEF CacheOf
<1>2. Ordered(o) /\ ResultIsTrue(o)
  BY DEF CachesInv
<1>3. cacheResult[o] => Resolved(o) = DOMAIN Conditions[o]
  BY <1>2 DEF ResultIsTrue, Resolved
<1>4. o \in Rule => MatchesCounted(o)
  BY DEF CachesInv
<1> QED
  BY <1>1, <1>2, <1>3, <1>4 DEF Ordered

\* What changes when the condition under evaluation is resolved.
LEMMA CacheExcept ==
    ASSUME TypeOK, NEW o \in Owner, NEW i \in DOMAIN Conditions[o], NEW v,
           condCache' = [condCache EXCEPT ![<<cur, idx>>] = v]
    PROVE  condCache'[<<o, i>>] = IF o = cur /\ i = idx THEN v ELSE condCache[<<o, i>>]
<1>1. <<o, i>> \in Cell
  BY InCell
<1>2. <<o, i>> = <<cur, idx>> <=> o = cur /\ i = idx
  OBVIOUS
<1> QED
  BY <1>1, <1>2 DEF TypeOK

\* The conditions resolved when one that is not is under evaluation.
LEMMA ResolvedSoFar ==
    ASSUME TypeOK, CachesInv, InConditions, condCache[<<cur, idx>>] # "true"
    PROVE  /\ Resolved(cur) = 1..(idx - 1)
           /\ \A j \in 1..(idx - 1) : condCache[<<cur, j>>] = "true"
           /\ \A j \in DOMAIN Conditions[cur] : j > idx => condCache[<<cur, j>>] = "absent"
<1>1. cur \in Owner /\ idx \in DOMAIN Conditions[cur]
  BY DEF InConditions, TypeOK
<1>2. \A j \in DOMAIN Conditions[cur] : j > idx => condCache[<<cur, j>>] = "absent"
  BY <1>1, ConditionsOf DEF CachesInv, Ordered
<1>3. \A j \in 1..(idx - 1) : condCache[<<cur, j>>] = "true"
  BY <1>1, RulesetAssumption DEF CachesInv, LoopInv, InConditions
<1> QED
  BY <1>1, <1>2, <1>3, ConditionsOf DEF Resolved

\* The conditions resolved when the loop has come to its end.
LEMMA ResolvedInTheEnd ==
    ASSUME TypeOK, CachesInv, AfterConditions
    PROVE  /\ cur \in Owner
           /\ \A i \in DOMAIN Conditions[cur] : condCache[<<cur, i>>] = "true"
           /\ Resolved(cur) = 1..Len(Conditions[cur])
<1>1. cur \in Owner
  BY DEF AfterConditions, TypeOK
<1>2. idx = Len(Conditions[cur]) + 1
  BY <1>1, ConditionsOf DEF CachesInv, LoopInv, AfterConditions
<1>3. \A i \in DOMAIN Conditions[cur] : condCache[<<cur, i>>] = "true"
  BY <1>1, <1>2, ConditionsOf DEF CachesInv, LoopInv, AfterConditions
<1> QED
  BY <1>1, <1>3, ConditionsOf DEF Resolved

-----------------------------------------------------------------------------
(* The steps that leave the caches alone *)

LEMMA StayCaches ==
    ASSUME CachesInv, UNCHANGED <<condCache, cacheResult, matches>>, LoopInv'
    PROVE  CachesInv'
BY DEF CachesInv, Ordered, ResultIsTrue, MatchesCounted, Resolved

\* Nothing is under evaluation any more.
LEMMA LeftLoop ==
    ASSUME cur' = None, idx' = 1
    PROVE  LoopInv'
BY RulesetAssumption DEF LoopInv, Owner

\* The order survives whatever becomes of the condition under evaluation.
LEMMA OrderedStep ==
    ASSUME TypeOK, CachesInv, InConditions, condCache[<<cur, idx>>] # "true",
           NEW o \in Owner, NEW v,
           \A i \in DOMAIN Conditions[o] :
             condCache'[<<o, i>>] = IF o = cur /\ i = idx THEN v ELSE condCache[<<o, i>>]
    PROVE  Ordered(o)'
<1> SUFFICES ASSUME NEW i \in DOMAIN Conditions[o], NEW j \in DOMAIN Conditions[o],
                    i < j, condCache'[<<o, i>>] # "true"
             PROVE  condCache'[<<o, j>>] = "absent"
  BY DEF Ordered
<1>1. /\ \A k \in 1..(idx - 1) : condCache[<<cur, k>>] = "true"
      /\ \A k \in DOMAIN Conditions[cur] : k > idx => condCache[<<cur, k>>] = "absent"
  BY ResolvedSoFar
<1>2. Ordered(o) /\ i \in Nat \ {0} /\ j \in Nat \ {0}
  BY ConditionsOf DEF CachesInv
<1>3. CASE o = cur
  <2>1. idx \in Nat \ {0}
    BY <1>3, ConditionsOf DEF InConditions
  <2>2. ~(i < idx)
    BY <1>1, <1>2, <1>3, <2>1
  <2>3. j > idx
    BY <1>2, <2>1, <2>2
  <2> QED
    BY <1>1, <1>3, <2>1, <2>3
<1>4. CASE o # cur
  BY <1>2, <1>4 DEF Ordered
<1> QED
  BY <1>3, <1>4

\* A condition that is not met, or whose evaluation runs out of time.
LEMMA UnmetCaches ==
    ASSUME TypeOK, CachesInv, InConditions, condCache[<<cur, idx>>] # "true",
           condCache' = [condCache EXCEPT ![<<cur, idx>>] = "false"],
           UNCHANGED <<cacheResult, matches>>, cur' = None, idx' = 1
    PROVE  CachesInv'
<1>1. cur \in Owner /\ idx \in DOMAIN Conditions[cur]
  BY DEF InConditions, TypeOK
<1>2. ASSUME NEW o \in Owner
      PROVE  Ordered(o)' /\ ResultIsTrue(o)' /\ Resolved(o)' = Resolved(o)
  <2>1. \A i \in DOMAIN Conditions[o] :
          condCache'[<<o, i>>] = IF o = cur /\ i = idx THEN "false" ELSE condCache[<<o, i>>]
    BY CacheExcept
  <2>2. Ordered(o)'
    BY <2>1, OrderedStep
  <2>3. ResultIsTrue(o)'
    BY <1>1, <2>1 DEF CachesInv, ResultIsTrue
  <2>4. Resolved(o)' = Resolved(o)
    BY <1>1, <2>1 DEF Resolved
  <2> QED
    BY <2>2, <2>3, <2>4
<1>3. ASSUME NEW r \in Rule
      PROVE  MatchesCounted(r)'
  BY <1>2 DEF CachesInv, MatchesCounted, Owner
<1> QED
  BY <1>2, <1>3, LeftLoop DEF CachesInv

\* A condition that is met.
LEMMA MetCaches ==
    ASSUME TypeOK, CachesInv, ConditionMatches
    PROVE  CachesInv'
<1>1. cur \in Owner /\ idx \in DOMAIN Conditions[cur] /\ condCache[<<cur, idx>>] # "true"
  BY DEF ConditionMatches, InConditions, TypeOK
<1>2. /\ Resolved(cur) = 1..(idx - 1)
      /\ \A j \in DOMAIN Conditions[cur] : j > idx => condCache[<<cur, j>>] = "absent"
  BY ResolvedSoFar DEF ConditionMatches
<1>3. ASSUME NEW o \in Owner
      PROVE  \A i \in DOMAIN Conditions[o] :
               condCache'[<<o, i>>] = IF o = cur /\ i = idx THEN "true" ELSE condCache[<<o, i>>]
  BY CacheExcept DEF ConditionMatches
<1>4. ASSUME NEW o \in Owner
      PROVE  Ordered(o)' /\ ResultIsTrue(o)'
  <2>1. Ordered(o)'
    <3>1. InConditions
      BY DEF ConditionMatches
    <3> QED
      BY <1>1, <1>3, <3>1, OrderedStep
  <2>2. ResultIsTrue(o)'
    BY <1>3 DEF ConditionMatches, CachesInv, ResultIsTrue
  <2> QED
    BY <2>1, <2>2
<1>5. ASSUME NEW r \in Rule
      PROVE  MatchesCounted(r)'
  <2>1. r \in Owner
    BY DEF Owner
  <2>2. CASE r = cur
    <3>1. ~cacheResult[cur] /\ cacheResult' = cacheResult
      BY <2>2, RulesetAssumption DEF CachesInv, LoopInv, ConditionMatches, Owner, Filter
    <3>2. Len(matches[cur]) = idx - 1
      <4>1. idx \in Nat \ {0}
        BY <1>1, ConditionsOf
      <4>2. Cardinality(1..(idx - 1)) = idx - 1
        BY <4>1, FS_Interval
      <4> QED
        BY <1>2, <2>2, <3>1, <4>2 DEF CachesInv, MatchesCounted
    <3>3. Len(matches'[cur]) = idx
      <4>1. PICK e : matches' = [matches EXCEPT ![cur] = Append(@, e)]
        BY <2>2 DEF ConditionMatches
      <4>2. matches[cur] \in Seq(Object)
        BY <2>2 DEF TypeOK
      <4> QED
        BY <1>1, <2>2, <3>2, <4>1, <4>2, ConditionsOf DEF TypeOK
    <3>4. Resolved(r)' = 1..idx
      <4>1. \A i \in DOMAIN Conditions[cur] : condCache'[<<cur, i>>] = "true" <=> i <= idx
        <5>1. \A i \in DOMAIN Conditions[cur] :
                condCache'[<<cur, i>>] = IF i = idx THEN "true" ELSE condCache[<<cur, i>>]
          BY <1>1, <1>3
        <5>2. \A i \in 1..(idx - 1) : condCache[<<cur, i>>] = "true"
          BY ResolvedSoFar DEF ConditionMatches
        <5> QED
          BY <1>1, <1>2, <5>1, <5>2, ConditionsOf
      <4>2. idx \in Nat /\ idx <= Len(Conditions[cur])
        BY <1>1, ConditionsOf
      <4> QED
        BY <1>1, <2>2, <4>1, <4>2, ConditionsOf DEF Resolved
    <3>5. Cardinality(1..idx) = idx
      <4>1. idx \in Nat \ {0}
        BY <1>1, ConditionsOf
      <4> QED
        BY <4>1, FS_Interval
    <3> QED
      BY <2>2, <3>1, <3>3, <3>4, <3>5 DEF MatchesCounted
  <2>3. CASE r # cur
    <3>1. matches'[r] = matches[r] /\ cacheResult' = cacheResult
      BY <2>3 DEF ConditionMatches, TypeOK
    <3>2. Resolved(r)' = Resolved(r)
      BY <1>3, <2>1, <2>3 DEF Resolved
    <3> QED
      BY <3>1, <3>2 DEF CachesInv, MatchesCounted
  <2> QED
    BY <2>2, <2>3
<1>6. LoopInv'
  <2>1. cur' = cur /\ idx' = idx + 1 /\ cacheResult' = cacheResult
    BY DEF ConditionMatches
  <2>2. idx + 1 \in 1..(Len(Conditions[cur]) + 1)
    BY <1>1, ConditionsOf
  <2>3. \A j \in 1..idx : condCache'[<<cur, j>>] = "true"
    <3>1. \A j \in 1..(idx - 1) : condCache[<<cur, j>>] = "true"
      BY <1>1, RulesetAssumption DEF CachesInv, LoopInv
    <3> QED
      BY <1>1, <1>3, <3>1, ConditionsOf
  <2>4. idx \in Int /\ (idx + 1) - 1 = idx
    BY <1>1, ConditionsOf
  <2>5. cur # None
    BY <1>1, RulesetAssumption
  <2>6. cur \in Owner \ InputFilter => ~cacheResult[cur]
    BY DEF CachesInv, LoopInv
  <2> QED
    BY <2>1, <2>2, <2>3, <2>4, <2>5, <2>6 DEF LoopInv
<1> QED
  BY <1>4, <1>5, <1>6 DEF CachesInv

-----------------------------------------------------------------------------
(* The end of the loop *)

\* An owner all of whose conditions are met gets its result; the event of a
\* rule takes the matches.
LEMMA ResultCaches ==
    ASSUME TypeOK, CachesInv, AfterConditions,
           cacheResult' = [cacheResult EXCEPT ![cur] = TRUE], UNCHANGED condCache,
           matches' = IF cur \in Rule THEN [matches EXCEPT ![cur] = <<>>] ELSE matches,
           cur' = None, idx' = 1
    PROVE  CachesInv'
<1>1. cur \in Owner /\ \A i \in DOMAIN Conditions[cur] : condCache[<<cur, i>>] = "true"
  BY ResolvedInTheEnd
<1>2. ASSUME NEW o \in Owner
      PROVE  /\ Ordered(o)' /\ ResultIsTrue(o)' /\ Resolved(o)' = Resolved(o)
             /\ cacheResult'[o] = IF o = cur THEN TRUE ELSE cacheResult[o]
  <2>1. cacheResult'[o] = IF o = cur THEN TRUE ELSE cacheResult[o]
    BY DEF TypeOK
  <2>2. Ordered(o)' /\ Resolved(o)' = Resolved(o)
    BY DEF CachesInv, Ordered, Resolved
  <2>3. ResultIsTrue(o)'
    BY <1>1, <2>1 DEF CachesInv, ResultIsTrue
  <2> QED
    BY <2>1, <2>2, <2>3
<1>3. ASSUME NEW r \in Rule
      PROVE  MatchesCounted(r)'
  <2>1. /\ Resolved(r)' = Resolved(r)
        /\ cacheResult'[r] = IF r = cur THEN TRUE ELSE cacheResult[r]
    BY <1>2 DEF Owner
  <2>2. CASE r = cur
    <3>1. matches'[r] = <<>>
      BY <2>2 DEF TypeOK
    <3> QED
      BY <2>1, <2>2, <3>1 DEF MatchesCounted
  <2>3. CASE r # cur
    <3>1. matches'[r] = matches[r]
      BY <2>3 DEF TypeOK
    <3> QED
      BY <2>1, <2>3, <3>1 DEF CachesInv, MatchesCounted
  <2> QED
    BY <2>2, <2>3
<1> QED
  BY <1>2, <1>3, LeftLoop DEF CachesInv

\* The beginning of the loop, for an owner without a result.
LEMMA StartLoop ==
    ASSUME NEW o \in Owner, cur' = o, idx' = 1, cacheResult' = cacheResult, ~cacheResult[o]
    PROVE  LoopInv'
BY ConditionsOf, RulesetAssumption DEF LoopInv

LEMMA StepCaches ==
    ASSUME TypeOK, CachesInv, Step
    PROVE  CachesInv'
<1>1. CASE NextPhase \/ LeaveCollection
  <2>1. UNCHANGED <<cur, idx>> /\ cur = None
    BY <1>1 DEF NextPhase, LeaveCollection, Between
  <2> QED
    BY <1>1, <2>1, LeftLoop, StayCaches DEF NextPhase, LeaveCollection, ownerVars, CachesInv, LoopInv
<1>2. CASE Return \/ ExpireBetween
  BY <1>2, LeftLoop, StayCaches DEF Return, ExpireBetween, Expire, Finish, ownerVars
<1>3. CASE SkipCached
  <2>1. cur \in Owner /\ idx \in DOMAIN Conditions[cur]
    BY <1>3 DEF SkipCached, InConditions, TypeOK
  <2>2. /\ idx' = idx + 1 /\ cur' = cur /\ UNCHANGED <<condCache, cacheResult, matches>>
        /\ condCache[<<cur, idx>>] = "true"
    BY <1>3 DEF SkipCached, ownerVars
  <2>3. \A j \in 1..idx : condCache[<<cur, j>>] = "true"
    <3>1. \A j \in 1..(idx - 1) : condCache[<<cur, j>>] = "true"
      BY <2>1, RulesetAssumption DEF CachesInv, LoopInv
    <3> QED
      BY <2>1, <2>2, <3>1, ConditionsOf
  <2>4. idx + 1 \in 1..(Len(Conditions[cur]) + 1) /\ idx + 1 - 1 = idx
    BY <2>1, ConditionsOf
  <2>5. LoopInv'
    BY <2>1, <2>2, <2>3, <2>4, RulesetAssumption DEF LoopInv, CachesInv
  <2> QED
    BY <2>2, <2>5, StayCaches
<1>4. CASE ConditionMatches
  BY <1>4, MetCaches
<1>5. CASE ConditionFails \/ ExpireInCondition
  BY <1>5, UnmetCaches DEF ConditionFails, ExpireInCondition, LeaveOwner, Expire, Finish
<1>6. ASSUME NEW f \in RuleFilter, StartRuleFilter(f)
      PROVE  CachesInv'
  <2>1. f \in Owner /\ idx = 1
    BY <1>6 DEF StartRuleFilter, Between, CachesInv, LoopInv, Owner, Filter
  <2> QED
    BY <1>6, <2>1, LeftLoop, StartLoop, StayCaches DEF StartRuleFilter, ownerVars
<1>7. CASE RuleFilterMatches \/ InputFilterMatches \/ ExpireInObjectFilter
  <2>1. cur \notin Rule
    BY <1>7, RulesetAssumption DEF RuleFilterMatches, InputFilterMatches, ExpireInObjectFilter, Filter
  <2> QED
    BY <1>7, <2>1, ResultCaches
    DEF RuleFilterMatches, InputFilterMatches, ExpireInObjectFilter, LeaveOwner, Expire, Finish
<1>8. ASSUME NEW f \in InputFilter, StartInputFilter(f)
      PROVE  CachesInv'
  <2>1. f \in Owner
    BY DEF Owner, Filter
  <2>2. /\ cur' = f /\ UNCHANGED <<condCache, cacheResult, matches>>
        /\ idx' = IF cacheResult[f] THEN Len(Conditions[f]) + 1 ELSE 1
    BY <1>8 DEF StartInputFilter, ownerVars
  <2>3. cacheResult[f] => \A j \in 1..Len(Conditions[f]) : condCache[<<f, j>>] = "true"
    BY <2>1, ConditionsOf DEF CachesInv, ResultIsTrue
  <2>4. LoopInv'
    BY <2>1, <2>2, <2>3, ConditionsOf, RulesetAssumption DEF LoopInv
  <2> QED
    BY <2>2, <2>4, StayCaches
<1>9. ASSUME NEW t \in Type, EnterPriority(t) \/ EnterRegular(t)
      PROVE  CachesInv'
  <2>1. cur' = None /\ idx' = 1
    BY <1>9 DEF EnterPriority, EnterRegular, Enter, Between, CachesInv, LoopInv
  <2> QED
    BY <1>9, <2>1, LeftLoop, StayCaches DEF EnterPriority, EnterRegular, Enter, ownerVars
<1>10. ASSUME NEW r \in Rule, StartRule(r)
       PROVE  CachesInv'
  <2>1. r \in Owner /\ idx = 1
    BY <1>10 DEF StartRule, Between, CachesInv, LoopInv, Owner
  <2> QED
    BY <1>10, <2>1, LeftLoop, StartLoop, StayCaches DEF StartRule, Evaluable, ownerVars
<1>11. CASE RuleMatches
  BY <1>11, ResultCaches DEF RuleMatches, LeaveOwner
<1> QED
  BY <1>1, <1>2, <1>3, <1>4, <1>5, <1>6, <1>7, <1>8, <1>9, <1>10, <1>11 DEF Step

LEMMA NextCaches == TypeOK /\ CachesInv /\ [Next]_vars => CachesInv'
<1> SUFFICES ASSUME TypeOK, CachesInv, [Next]_vars PROVE CachesInv'
  OBVIOUS
<1>1. CASE UNCHANGED <<cur, idx, condCache, cacheResult, matches>>
  BY <1>1, StayCaches DEF CachesInv, LoopInv
<1>2. CASE Run \/ Destroy \/ UNCHANGED vars
  BY <1>1, <1>2
  DEF Run, RunInvalid, RunNoBudget, RunNothingNew, RunStart, NoEvaluation, Destroy, vars,
      control, ownerVars
<1> QED
  BY <1>2, StepCaches DEF Next

LEMMA InitCaches == Init => CachesInv
<1> SUFFICES ASSUME Init PROVE CachesInv
  OBVIOUS
<1>1. ASSUME NEW o \in Owner
      PROVE  /\ \A i \in DOMAIN Conditions[o] : condCache[<<o, i>>] = "absent"
             /\ Resolved(o) = {} /\ ~cacheResult[o]
  <2>1. \A i \in DOMAIN Conditions[o] : condCache[<<o, i>>] = "absent"
    BY InCell DEF Init
  <2> QED
    BY <2>1 DEF Resolved, Init
<1>2. \A o \in Owner : Ordered(o) /\ ResultIsTrue(o)
  BY <1>1 DEF Ordered, ResultIsTrue
<1>3. \A r \in Rule : MatchesCounted(r)
  BY <1>1, FS_EmptySet DEF MatchesCounted, Owner, Init
<1>4. LoopInv
  BY RulesetAssumption DEF Init, LoopInv, Owner
<1> QED
  BY <1>2, <1>3, <1>4 DEF CachesInv

LEMMA CachesCorrect == Spec => []CachesInv
BY InitCaches, NextCaches, TypeCorrect, PTL DEF Spec

\* The conditions of every rule and filter are resolved in order, with one
\* match for each, whatever calls run out of time between two of them.
THEOREM OrderCorrect == Spec => []CachesAreOrdered
BY CachesOrdered, CachesCorrect, PTL
-----------------------------------------------------------------------------
(* The events are complete: what a rule has matched over any number of      *)
(* calls is kept until the rule is reported, and fits it.                   *)

\* The store keeps an object under its own target.
StoreInv == \A t \in Target : objects[t] # NoObject => objects[t].target = t

\* The object m is a match for condition i of rule r.
Fits(r, i, m) ==
    /\ \E k \in DOMAIN Conditions[r][i].targets : m.target = Conditions[r][i].targets[k]
    /\ m.value \in Conditions[r][i].accepts

MatchesFit == \A r \in Rule : \A i \in DOMAIN matches[r] : Fits(r, i, matches[r][i])

EventsInv == StoreInv /\ MatchesFit /\ EventsAreComplete

\* A rule has one match for each condition before the one under evaluation.
LEMMA MatchedSoFar ==
    ASSUME TypeOK, CachesInv, ConditionMatches, cur \in Rule
    PROVE  Len(matches[cur]) = idx - 1
<1>1. Resolved(cur) = 1..(idx - 1)
  BY ResolvedSoFar DEF ConditionMatches
<1>2. ~cacheResult[cur]
  BY RulesetAssumption DEF CachesInv, LoopInv, Owner, Filter
<1>3. Cardinality(1..(idx - 1)) = idx - 1
  <2>1. cur \in Owner /\ idx \in DOMAIN Conditions[cur]
    BY DEF ConditionMatches, InConditions, TypeOK
  <2>2. idx \in Nat \ {0}
    BY <2>1, ConditionsOf
  <2> QED
    BY <2>2, FS_Interval
<1> QED
  BY <1>1, <1>2, <1>3 DEF CachesInv, MatchesCounted

\* A rule that has come to the end of its conditions has a match for each.
LEMMA MatchedInTheEnd ==
    ASSUME TypeOK, CachesInv, AfterConditions, cur \in Rule
    PROVE  Len(matches[cur]) = Len(Conditions[cur])
<1>1. Resolved(cur) = 1..Len(Conditions[cur])
  BY ResolvedInTheEnd
<1>2. ~cacheResult[cur]
  BY RulesetAssumption DEF CachesInv, LoopInv, Owner, Filter
<1>3. Cardinality(1..Len(Conditions[cur])) = Len(Conditions[cur])
  <2>1. Len(Conditions[cur]) \in Nat
    BY ConditionsOf DEF Owner
  <2> QED
    BY <2>1, FS_Interval
<1> QED
  BY <1>1, <1>2, <1>3 DEF CachesInv, MatchesCounted

\* The object at which the evaluation of a condition stops fits it.
LEMMA MeetingFits ==
    ASSUME TypeOK, StoreInv, NEW r \in Rule, NEW i \in DOMAIN Conditions[r], NEW k \in Meeting(r, i)
    PROVE  Fits(r, i, objects[Conditions[r][i].targets[k]])
<1>1. /\ k \in DOMAIN Conditions[r][i].targets
      /\ objects[Conditions[r][i].targets[k]] # NoObject
      /\ objects[Conditions[r][i].targets[k]].value \in Conditions[r][i].accepts
  BY DEF Meeting, Accepts
<1>2. Conditions[r][i].targets[k] \in Target
  <2>1. Conditions[r] \in Seq(Condition)
    BY ConditionsOf DEF Owner
  <2>2. Conditions[r][i] \in Condition
    BY <2>1
  <2>3. Conditions[r][i].targets \in Seq(Target)
    BY <2>2 DEF Condition
  <2> QED
    BY <1>1, <2>3
<1> QED
  BY <1>1, <1>2 DEF StoreInv, Fits

-----------------------------------------------------------------------------
LEMMA InsertStore ==
    ASSUME TypeOK, StoreInv, NEW p \in Params, Insert(p)
    PROVE  StoreInv'
<1> SUFFICES ASSUME NEW t \in Target, objects'[t] # NoObject
             PROVE  objects'[t].target = t
  BY DEF StoreInv
<1>1. objects'[t] = IF t \in DOMAIN p THEN [run |-> runs + 1, target |-> t, value |-> p[t]]
                                      ELSE objects[t]
  BY DEF Insert
<1> QED
  BY <1>1 DEF StoreInv

\* No step of a call replaces an object, and the others keep it in its place.
LEMMA NextStore == TypeOK /\ ControlInv /\ StoreInv /\ [Next]_vars => StoreInv'
<1> SUFFICES ASSUME TypeOK, ControlInv, StoreInv, [Next]_vars PROVE StoreInv'
  OBVIOUS
<1>1. ASSUME UNCHANGED objects
      PROVE  StoreInv'
  BY <1>1 DEF StoreInv
<1>2. CASE Run
  BY <1>1, <1>2, InsertStore
  DEF Run, RunInvalid, RunNoBudget, RunNothingNew, RunStart, InsertInvalid
<1>3. CASE Step
  BY <1>1, <1>3, StepStore DEF storeVars
<1>4. CASE Destroy \/ UNCHANGED vars
  BY <1>1, <1>4 DEF Destroy, FreeAll, vars, storeVars
<1> QED
  BY <1>2, <1>3, <1>4 DEF Next

-----------------------------------------------------------------------------
(* The matches of the rules *)

LEMMA MetFits ==
    ASSUME TypeOK, CachesInv, StoreInv, MatchesFit, ConditionMatches
    PROVE  MatchesFit'
<1>1. PICK k \in Meeting(cur, idx) :
        matches' = IF cur \in Rule
                   THEN [matches EXCEPT ![cur] = Append(@, objects[CurCondition.targets[k]])]
                   ELSE matches
  BY DEF ConditionMatches
<1>2. CASE cur \in Rule
  <2> DEFINE m == objects[CurCondition.targets[k]]
  <2>1. idx \in DOMAIN Conditions[cur]
    BY DEF ConditionMatches, InConditions
  <2>2. Fits(cur, idx, m)
    BY <1>2, <2>1, MeetingFits DEF CurCondition
  <2>3. Len(matches[cur]) = idx - 1 /\ idx \in Nat \ {0}
    <3>1. idx \in Nat \ {0}
      BY <1>2, <2>1, ConditionsOf DEF Owner
    <3> QED
      BY <1>2, <3>1, MatchedSoFar
  <2> HIDE DEF m
  <2>4. matches'[cur] = Append(matches[cur], m)
    BY <1>1, <1>2 DEF TypeOK, m
  <2>5. matches[cur] \in Seq(Object)
    BY <1>2 DEF TypeOK
  <2>6. \A i \in DOMAIN matches'[cur] : Fits(cur, i, matches'[cur][i])
    <3> SUFFICES ASSUME NEW i \in DOMAIN matches'[cur]
                 PROVE  Fits(cur, i, matches'[cur][i])
      OBVIOUS
    <3>1. CASE i = idx
      <4>1. matches'[cur][i] = m
        BY <2>3, <2>4, <2>5, <3>1
      <4> QED
        BY <2>2, <3>1, <4>1
    <3>2. CASE i # idx
      <4>1. i \in DOMAIN matches[cur] /\ matches'[cur][i] = matches[cur][i]
        BY <2>3, <2>4, <2>5, <3>2
      <4> QED
        BY <1>2, <4>1 DEF MatchesFit
    <3> QED
      BY <3>1, <3>2
  <2>7. \A r \in Rule \ {cur} : matches'[r] = matches[r]
    BY <1>1, <1>2 DEF TypeOK
  <2>8. ASSUME NEW r \in Rule, NEW i \in DOMAIN matches'[r]
        PROVE  Fits(r, i, matches'[r][i])
    <3>1. CASE r = cur
      BY <2>6, <3>1
    <3>2. CASE r # cur
      BY <2>7, <3>2 DEF MatchesFit
    <3> QED
      BY <3>1, <3>2
  <2> QED
    BY <2>8 DEF MatchesFit, Fits
<1>3. CASE cur \notin Rule
  BY <1>1, <1>3 DEF MatchesFit, Fits
<1> QED
  BY <1>2, <1>3

LEMMA ReportedFits ==
    ASSUME TypeOK, MatchesFit, RuleMatches
    PROVE  MatchesFit'
<1> SUFFICES ASSUME NEW r \in Rule, NEW i \in DOMAIN matches'[r]
             PROVE  Fits(r, i, matches'[r][i])
  BY DEF MatchesFit, Fits
<1>1. matches'[r] = IF r = cur THEN <<>> ELSE matches[r]
  BY DEF RuleMatches, TypeOK
<1>2. matches'[r] = matches[r]
  BY <1>1
<1> QED
  BY <1>2 DEF MatchesFit, Fits

LEMMA StayFits ==
    ASSUME MatchesFit, UNCHANGED matches
    PROVE  MatchesFit'
BY DEF MatchesFit, Fits

-----------------------------------------------------------------------------
(* The events of the call, and those it returns *)

\* The event of a rule whose conditions are all met is complete.
LEMMA NewEvent ==
    ASSUME TypeOK, CachesInv, MatchesFit, AfterConditions, cur \in Rule
    PROVE  MatchesRule([rule |-> cur, matches |-> matches[cur]])
<1>1. Len(matches[cur]) = Len(Conditions[cur])
  BY MatchedInTheEnd
<1>2. \A i \in DOMAIN matches[cur] : Fits(cur, i, matches[cur][i])
  BY DEF MatchesFit
<1> QED
  BY <1>1, <1>2 DEF MatchesRule, Fits

LEMMA AllComplete ==
    ASSUME \A i \in DOMAIN events' : MatchesRule(events'[i]),
           \A i \in DOMAIN out'.events : MatchesRule(out'.events[i])
    PROVE  EventsAreComplete'
<1>1. ASSUME NEW i \in DOMAIN events'
      PROVE  MatchesRule(events[i])'
  <2>1. MatchesRule(events'[i])
    OBVIOUS
  <2> QED
    BY <2>1 DEF MatchesRule
<1>2. ASSUME NEW i \in DOMAIN out'.events
      PROVE  MatchesRule(out.events[i])'
  <2>1. MatchesRule(out'.events[i])
    OBVIOUS
  <2> QED
    BY <2>1 DEF MatchesRule
<1> QED
  BY <1>1, <1>2 DEF EventsAreComplete

LEMMA StayComplete ==
    ASSUME EventsAreComplete, \/ UNCHANGED events
                              \/ events' = <<>>,
           \/ UNCHANGED out
           \/ out'.events = events
           \/ out'.events = <<>>
    PROVE  EventsAreComplete'
BY AllComplete DEF EventsAreComplete

LEMMA FinishComplete ==
    ASSUME EventsAreComplete, NEW timeout,
           Finish(timeout, events) \/ Finish(timeout, <<>>)
    PROVE  EventsAreComplete'
<1>1. events' = <<>> /\ (out'.events = events \/ out'.events = <<>>)
  BY DEF Finish, Outcome
<1> QED
  BY <1>1, StayComplete

LEMMA RuleComplete ==
    ASSUME TypeOK, CachesInv, MatchesFit, EventsAreComplete, RuleMatches
    PROVE  EventsAreComplete'
<1> DEFINE e == [rule |-> cur, matches |-> matches[cur]]
<1>1. MatchesRule(e)
  BY NewEvent DEF RuleMatches
<1>2. events' = Append(events, e) /\ out' = out
  BY DEF RuleMatches, outVars
<1>3. events \in Seq(Event)
  BY DEF TypeOK
<1> HIDE DEF e
<1>4. ASSUME NEW i \in DOMAIN events'
      PROVE  MatchesRule(events'[i])
  <2>1. events'[i] = e \/ (i \in DOMAIN events /\ events'[i] = events[i])
    BY <1>2, <1>3
  <2> QED
    BY <1>1, <2>1 DEF EventsAreComplete
<1> QED
  BY <1>2, <1>4, AllComplete DEF EventsAreComplete

\* The calls that return at once return no events.
LEMMA EntryComplete ==
    ASSUME EventsAreComplete, Run
    PROVE  EventsAreComplete'
<1>1. CASE RunInvalid
  BY <1>1, StayComplete DEF RunInvalid, NoEvaluation, control, Outcome
<1>2. CASE \E p \in Params : RunNoBudget(p) \/ RunNothingNew(p)
  BY <1>2, StayComplete DEF RunNoBudget, RunNothingNew, NoEvaluation, control, Outcome
<1>3. CASE \E p \in Params : RunStart(p)
  BY <1>3, StayComplete DEF RunStart, outVars
<1> QED
  BY <1>1, <1>2, <1>3 DEF Run

LEMMA StepEvents ==
    ASSUME TypeOK, CachesInv, StoreInv, MatchesFit, EventsAreComplete, Step
    PROVE  MatchesFit' /\ EventsAreComplete'
<1>1. CASE ConditionMatches
  BY <1>1, MetFits, StayComplete DEF ConditionMatches, outVars
<1>2. CASE RuleMatches
  BY <1>2, ReportedFits, RuleComplete
<1>3. CASE Return \/ ExpireBetween \/ ExpireInCondition \/ ExpireInObjectFilter
  BY <1>3, StayFits, FinishComplete
  DEF Return, ExpireBetween, ExpireInCondition, ExpireInObjectFilter, Expire, ownerVars
<1>4. CASE NextPhase \/ SkipCached \/ ConditionFails \/ LeaveCollection
  BY <1>4, StayFits, StayComplete
  DEF NextPhase, SkipCached, ConditionFails, LeaveCollection, ownerVars, outVars
<1>5. CASE \/ \E f \in RuleFilter : StartRuleFilter(f)
           \/ RuleFilterMatches
           \/ \E f \in InputFilter : StartInputFilter(f)
           \/ InputFilterMatches
  BY <1>5, StayFits, StayComplete
  DEF StartRuleFilter, RuleFilterMatches, StartInputFilter, InputFilterMatches, ownerVars, outVars
<1>6. CASE \/ \E t \in Type : EnterPriority(t) \/ EnterRegular(t)
           \/ \E r \in Rule : StartRule(r)
  BY <1>6, StayFits, StayComplete
  DEF EnterPriority, EnterRegular, Enter, StartRule, ownerVars, outVars
<1> QED
  BY <1>1, <1>2, <1>3, <1>4, <1>5, <1>6 DEF Step

LEMMA NextEvents ==
    TypeOK /\ ControlInv /\ CachesInv /\ EventsInv /\ [Next]_vars => EventsInv'
<1> SUFFICES ASSUME TypeOK, ControlInv, CachesInv, EventsInv, [Next]_vars PROVE EventsInv'
  OBVIOUS
<1>1. StoreInv'
  BY NextStore DEF EventsInv
<1>2. CASE Run
  <2>1. UNCHANGED matches
    BY <1>2 DEF Run, RunInvalid, RunNoBudget, RunNothingNew, RunStart, NoEvaluation, ownerVars
  <2> QED
    BY <1>1, <1>2, <2>1, StayFits, EntryComplete DEF EventsInv
<1>3. CASE Step
  BY <1>1, <1>3, StepEvents DEF EventsInv
<1>4. CASE Destroy \/ UNCHANGED vars
  BY <1>1, <1>4, StayFits, StayComplete
  DEF EventsInv, Destroy, vars, control, ownerVars, outVars
<1> QED
  BY <1>2, <1>3, <1>4 DEF Next

LEMMA EventsInvariant == Spec => []EventsInv
<1>1. Init => EventsInv
  BY DEF Init, StoreInit, EventsInv, StoreInv, MatchesFit, EventsAreComplete
<1> QED
  BY <1>1, TypeCorrect, ControlCorrect, CachesCorrect, NextEvents, PTL DEF Spec

\* Every event, of the call in progress or returned by the last one, has one
\* match for each condition of its rule, in an object at a target of that
\* condition whose value it accepts: although the matches may come from
\* different calls, some of which ran out of time or replaced the object.
THEOREM EventsCorrect == Spec => []EventsAreComplete
<1>1. EventsInv => EventsAreComplete
  BY DEF EventsInv
<1> QED
  BY <1>1, EventsInvariant, PTL
-----------------------------------------------------------------------------

\* No call is given a budget that it may exhaust.
AmpleTime == "zero" \notin Budgets /\ "short" \notin Budgets

\* The evaluation of o by the call in progress is under way or still to come.
Ahead(o) ==
    \/ o = cur
    \/ o \in RuleFilter /\ phase = "rule_filters" /\ o \in todo
    \/ o \in InputFilter /\ (phase = "rule_filters" \/ (phase = "input_filters" /\ o \in todo))
    \/ o \in Rule /\ \/ phase \in {"rule_filters", "input_filters"}
                     \/ phase = "priority" /\ (RuleActions[o] = {} \/ RuleType[o] \in todo)
                     \/ phase = "regular" /\ RuleActions[o] = {} /\ RuleType[o] \in todo
                     \/ coll # None /\ o \in rulesTodo

\* An object that meets a condition found unmet is in the latest batch, and
\* the call will still look at it.
NothingMissed(o) ==
    \A i \in DOMAIN Conditions[o] : condCache[<<o, i>>] = "false" =>
        \A k \in Accepted(o, i) : Ahead(o) /\ Conditions[o][i].targets[k] \in latestBatch

\* An owner that the call has evaluated, or that an earlier one has, between
\* two calls, waits for a condition found unmet.
Tried(o) ==
    ~Ahead(o) /\ (phase \in {"idle", "destroyed"} => ~FirstRun) =>
        \E i \in DOMAIN Conditions[o] : condCache[<<o, i>>] = "false"

LookedInv == \A o \in Waiting : NothingMissed(o) /\ Tried(o)

\* A rule that matched has its event in the call in progress, or was reported.
AccountedInv ==
    /\ \A r \in Matched : r \in delivered \/ \E n \in DOMAIN events : events[n].rule = r
    /\ events # <<>> => phase \in {"priority", "regular"}

\* The rules that a matched filter applies to are neither evaluated nor in the
\* events of the call.
ExclusionInv ==
    /\ \A f \in RuleFilter : cacheResult[f] => FilterRules[f] \subseteq rulesToExclude
    /\ cur \in Rule => cur \notin rulesToExclude
    /\ cur \in RuleFilter => phase = "rule_filters"
    /\ \A n \in DOMAIN events : events[n].rule \notin rulesToExclude

\* A matched input filter has been through its targets, and has excluded an
\* object of each from all its rules that are evaluated at all.
ProtectionInv ==
    \A f \in InputFilter :
        /\ cacheResult[f] /\ ~Ahead(f) =>
             \A t \in FilterTargets[f] : objects[t] # NoObject => t \in objCache[f]
        /\ \A t \in objCache[f], r \in FilterRules[f] \ rulesToExclude :
             \E o \in objectsToExclude[r] : o.target = t

-----------------------------------------------------------------------------
(* What only grows, and what therefore only shrinks *)

LEMMA NoExpiry == ASSUME AmpleTime PROVE ~Expire /\ \A p \in Params : ~RunNoBudget(p)
BY DEF AmpleTime, Expire, RunNoBudget

\* A call in progress is not between two calls, and leaves the store alone.
LEMMA StepInCall ==
    ASSUME ControlInv, Step
    PROVE  phase \notin {"idle", "destroyed"} /\ UNCHANGED storeVars
<1>1. CASE NextPhase \/ Return \/ ExpireBetween
  BY <1>1, RulesetAssumption DEF NextPhase, Return, ExpireBetween, ControlInv
<1>2. CASE SkipCached \/ ConditionMatches \/ ConditionFails \/ ExpireInCondition
  BY <1>2 DEF SkipCached, ConditionMatches, ConditionFails, ExpireInCondition, InConditions, ControlInv
<1>3. CASE \/ \E f \in RuleFilter : StartRuleFilter(f)
           \/ \E f \in InputFilter : StartInputFilter(f)
  BY <1>3 DEF StartRuleFilter, StartInputFilter
<1>4. CASE RuleFilterMatches \/ InputFilterMatches \/ ExpireInObjectFilter
  BY <1>4 DEF RuleFilterMatches, InputFilterMatches, ExpireInObjectFilter, AfterConditions, ControlInv
<1>5. CASE \E t \in Type : EnterPriority(t) \/ EnterRegular(t)
  BY <1>5 DEF EnterPriority, EnterRegular, Enter
<1>6. CASE (\E r \in Rule : StartRule(r)) \/ LeaveCollection \/ RuleMatches
  BY <1>6 DEF StartRule, LeaveCollection, RuleMatches, AfterConditions, ControlInv
<1> QED
  BY <1>1, <1>2, <1>3, <1>4, <1>5, <1>6 DEF Step

\* Results, exclusions and the actions seen are never taken back.
LEMMA StepGrows ==
    ASSUME TypeOK, ControlInv, Step
    PROVE  /\ \A o \in Owner : cacheResult[o] => cacheResult'[o]
           /\ rulesToExclude \subseteq rulesToExclude'
           /\ \A t \in Type : collResult[t] => collResult'[t]
           /\ seenActions \subseteq seenActions'
           /\ \A r \in Rule : objectsToExclude[r] \subseteq objectsToExclude'[r]
<1>1. CASE NextPhase \/ Return \/ ExpireBetween
  BY <1>1 DEF NextPhase, Return, ExpireBetween, ownerVars, filterVars, collVars
<1>2. CASE SkipCached \/ ConditionMatches \/ ConditionFails \/ ExpireInCondition
  BY <1>2 DEF SkipCached, ConditionMatches, ConditionFails, ExpireInCondition, ownerVars,
              filterVars, collVars
<1>3. CASE \/ \E f \in RuleFilter : StartRuleFilter(f)
           \/ \E f \in InputFilter : StartInputFilter(f)
  BY <1>3 DEF StartRuleFilter, StartInputFilter, ownerVars, filterVars, collVars
<1>4. CASE RuleFilterMatches \/ ExpireInObjectFilter
  BY <1>4 DEF RuleFilterMatches, ExpireInObjectFilter, TypeOK, collVars
<1>5. CASE InputFilterMatches
  <2>1. \A r \in Rule : objectsToExclude[r] \subseteq objectsToExclude'[r]
    BY <1>5 DEF InputFilterMatches
  <2> QED
    BY <1>5, <2>1 DEF InputFilterMatches, TypeOK, collVars
<1>6. CASE \/ \E t \in Type : EnterPriority(t) \/ EnterRegular(t)
           \/ \E r \in Rule : StartRule(r)
           \/ LeaveCollection
  BY <1>6 DEF EnterPriority, EnterRegular, Enter, StartRule, LeaveCollection, ownerVars, filterVars,
              collVars
<1>7. CASE RuleMatches
  BY <1>7 DEF RuleMatches, TypeOK, filterVars
<1> QED
  BY <1>1, <1>2, <1>3, <1>4, <1>5, <1>6, <1>7 DEF Step

LEMMA WaitingShrinks ==
    ASSUME TypeOK, ControlInv, Step
    PROVE  Waiting' \subseteq Waiting
<1>1. \A o \in Owner : cacheResult[o] => cacheResult'[o]
  BY StepGrows
<1>2. \A r \in Rule : Stopped(r) => Stopped(r)'
  <2>1. \A r \in Rule : RuleType[r] \in Type
    BY RulesetAssumption
  <2> QED
    BY <2>1, StepGrows DEF Stopped, TypeActions, PriorityRules
<1>3. Enabled \subseteq Rule
  BY RulesetAssumption
<1> QED
  BY <1>1, <1>2, <1>3, StepGrows DEF Waiting, Owner

\* Who waits for a condition.
LEMMA Waits ==
    ASSUME NEW o \in Waiting
    PROVE  /\ o \in Owner /\ ~cacheResult[o]
           /\ o \in Rule => o \in Enabled \ rulesToExclude /\ ~Stopped(o)
BY RulesetAssumption DEF Waiting, Owner

\* The objects that an owner accepts among those that stay are no more than
\* before.
LEMMA AcceptedShrinks ==
    ASSUME NEW o \in Owner, NEW i \in DOMAIN Conditions[o],
           \A k \in DOMAIN Conditions[o][i].targets :
             objects'[Conditions[o][i].targets[k]] = objects[Conditions[o][i].targets[k]],
           o \in Rule => objectsToExclude[o] \subseteq objectsToExclude'[o]
    PROVE  Accepted(o, i)' \subseteq Accepted(o, i)
BY DEF Accepted, Accepts, ExcludedFor

-----------------------------------------------------------------------------
(* A call passes over nobody who still waits *)

\* An owner is one of the three, and never None.
LEMMA OneOfThree ==
    ASSUME NEW o \in Owner
    PROVE  /\ o # None
           /\ o \in RuleFilter \/ o \in InputFilter \/ o \in Rule
           /\ ~(o \in RuleFilter /\ o \in InputFilter)
           /\ o \in Rule => o \notin RuleFilter /\ o \notin InputFilter /\ RuleType[o] \in Type
BY RulesetAssumption DEF Owner, Filter

\* The phases hand the owners on to the collections and filters of the next.
LEMMA PhaseAhead ==
    ASSUME NextPhase \/ Return, NEW o \in Owner, Ahead(o)
    PROVE  Ahead(o)'
<1>1. /\ cur = None /\ coll = None /\ todo = {}
      /\ o # None
  BY OneOfThree DEF NextPhase, Return, Between
<1>2. o \in Rule => /\ RuleActions[o] # {} => RuleType[o] \in PriorityTypes
                    /\ RuleActions[o] = {} => RuleType[o] \in RegularTypes
  BY DEF PriorityTypes, RegularTypes
<1>3. CASE Return
  BY <1>1, <1>3, RulesetAssumption DEF Return, Ahead, Filter
<1>4. CASE NextPhase
  <2>1. CASE phase = "rule_filters" /\ phase' = "input_filters" /\ todo' = InputFilter
    BY <1>1, <2>1, OneOfThree DEF Ahead
  <2>2. CASE phase = "input_filters" /\ phase' = "priority" /\ todo' = PriorityTypes
    BY <1>1, <1>2, <2>2 DEF Ahead
  <2>3. CASE phase = "priority" /\ phase' = "regular" /\ todo' = RegularTypes
    BY <1>1, <1>2, <2>3 DEF Ahead
  <2> QED
    BY <1>4, <2>1, <2>2, <2>3 DEF NextPhase
<1> QED
  BY <1>3, <1>4

\* An owner is left with a condition unmet, or with a result.
LEMMA LeftAhead ==
    ASSUME UNCHANGED <<phase, todo, coll, rulesTodo>>, NEW o \in Owner, Ahead(o), o # cur
    PROVE  Ahead(o)'
BY DEF Ahead

LEMMA FilterAhead ==
    ASSUME NEW f \in Filter, StartRuleFilter(f) \/ StartInputFilter(f),
           NEW o \in Waiting', Ahead(o)
    PROVE  Ahead(o)'
<1>1. o \in Owner /\ (o \in Filter => ~cacheResult'[o]) /\ UNCHANGED cacheResult
  BY RulesetAssumption DEF Waiting, Owner, StartRuleFilter, StartInputFilter, ownerVars
<1>2. /\ UNCHANGED <<phase, coll, rulesTodo>> /\ todo' = todo \ {f} /\ cur = None
  BY DEF StartRuleFilter, StartInputFilter, Between
<1>3. CASE o = f
  BY <1>1, <1>2, <1>3 DEF StartRuleFilter, StartInputFilter, Ahead
<1>4. CASE o # f
  <2>1. o \in Rule => phase \in {"rule_filters", "input_filters"}
    BY DEF StartRuleFilter, StartInputFilter
  <2> QED
    BY <1>1, <1>2, <1>4, <2>1, OneOfThree DEF Ahead
<1> QED
  BY <1>3, <1>4

\* The rules of a collection are evaluated, or will match no more.
LEMMA EnterAhead ==
    ASSUME TypeOK, ActionsInv, ActionsInv', NEW t \in Type, EnterPriority(t) \/ EnterRegular(t),
           NEW o \in Waiting', Ahead(o)
    PROVE  Ahead(o)'
<1>1. o \in Owner /\ (o \in Rule => ~Stopped(o)')
  BY RulesetAssumption DEF Waiting, Owner, Filter
<1>2. PICK left \in SUBSET Action, rules \in {PriorityRules(t), RegularRules(t)} :
         /\ Enter(t, left, rules)
         /\ phase = "priority" => rules = PriorityRules(t)
         /\ phase = "regular" => rules = RegularRules(t)
  <2>1. TypeActions(t) \in SUBSET Action
    BY RulesetAssumption DEF TypeActions, PriorityRules
  <2>2. remaining[t] \in SUBSET Action
    BY DEF TypeOK
  <2> QED
    BY <2>1, <2>2 DEF EnterPriority, EnterRegular
<1>3. phase \in {"priority", "regular"}
  BY DEF EnterPriority, EnterRegular
<1>4. /\ UNCHANGED <<phase, cur, collResult, seenActions>> /\ todo' = todo \ {t}
      /\ cur = None /\ coll = None
  BY <1>2 DEF Enter, Between
<1>5. /\ o \in Rule /\ (RuleType[o] \in todo \/ (phase = "priority" /\ RuleActions[o] = {}))
      /\ phase = "regular" => RuleActions[o] = {}
  <2>1. o # cur /\ coll = None
    BY <1>1, <1>4, OneOfThree
  <2>2. CASE phase = "priority"
    BY <2>1, <2>2 DEF Ahead
  <2>3. CASE phase = "regular"
    BY <2>1, <2>3 DEF Ahead
  <2> QED
    BY <1>3, <2>2, <2>3
<1>6. CASE phase = "priority" /\ RuleActions[o] = {}
  BY <1>4, <1>5, <1>6 DEF Ahead
<1>7. CASE RuleType[o] # t /\ o \in Rule /\ RuleType[o] \in todo
           /\ ~(phase = "priority" /\ RuleActions[o] = {})
  <2>1. RuleType[o] \in todo'
    BY <1>4, <1>7
  <2> QED
    BY <1>3, <1>4, <1>5, <1>7, <2>1 DEF Ahead
<1>8. CASE RuleType[o] = t /\ o \in Rule /\ ~(phase = "priority" /\ RuleActions[o] = {})
  <2>2. o \in rules
    BY <1>2, <1>3, <1>5, <1>8 DEF PriorityRules, RegularRules
  <2>3. CASE coll' = t /\ rulesTodo' = rules
    BY <1>8, <2>2, <2>3, RulesetAssumption DEF Ahead
  <2>4. CASE collResult[t] /\ ~(phase = "priority" /\ left # {})
    <3>1. t \in collCached' /\ remaining'[t] = left
      BY <1>2 DEF Enter, TypeOK
    <3>2. phase = "priority" => TypeActions(t) \subseteq seenActions
      BY <1>4, <2>4, <3>1 DEF ActionsInv, NoActionMissed, TypeActions, PriorityRules
    <3>3. Stopped(o)'
      BY <1>3, <1>4, <1>5, <1>8, <2>4, <3>2 DEF Stopped, TypeActions, PriorityRules
    <3> QED
      BY <1>1, <1>8, <3>3
  <2> QED
    BY <1>2, <2>3, <2>4 DEF Enter
<1> QED
  BY <1>5, <1>6, <1>7, <1>8

LEMMA StartRuleAhead ==
    ASSUME NEW r \in Rule, StartRule(r), NEW o \in Waiting', Ahead(o)
    PROVE  Ahead(o)'
<1>1. /\ o \in Owner
      /\ o \in Rule => ~cacheResult'[o] /\ o \in Enabled /\ o \notin rulesToExclude'
  BY RulesetAssumption DEF Waiting, Owner, Filter
<1>2. /\ UNCHANGED <<phase, todo, coll, cacheResult, rulesToExclude>>
      /\ rulesTodo' = rulesTodo \ {r} /\ cur = None
      /\ cur' = IF Evaluable(r) THEN r ELSE None
  BY DEF StartRule, Between, ownerVars, filterVars
<1>3. CASE o = r
  BY <1>1, <1>2, <1>3 DEF Evaluable, Ahead
<1>4. CASE o # r
  BY <1>1, <1>2, <1>4, OneOfThree DEF Ahead
<1> QED
  BY <1>3, <1>4

\* A collection that stops at a match does so for all the rules it leaves.
LEMMA RuleMatchesAhead ==
    ASSUME TypeOK, ControlInv, ActionsInv, ActionsInv', RuleMatches,
           NEW o \in Waiting', Ahead(o)
    PROVE  Ahead(o)'
<1>1. o \in Owner /\ ~cacheResult'[o] /\ (o \in Rule => ~Stopped(o)')
  BY RulesetAssumption DEF Waiting, Owner, Filter
<1>2. cur \in Rule /\ coll \in Type /\ coll # None
  BY RuleOfCollection DEF RuleMatches
<1>3. o # cur
  BY <1>1 DEF RuleMatches, TypeOK
<1>4. UNCHANGED <<phase, todo, collCached>> /\ collResult'[coll]
  BY <1>2 DEF RuleMatches, TypeOK
<1>5. CASE UNCHANGED <<coll, rulesTodo>>
  BY <1>1, <1>3, <1>4, <1>5, LeftAhead
<1>6. CASE coll' = None /\ rulesTodo' = {} /\ (PriorityMode => remaining'[coll] = {})
  <2>1. CASE o \in Rule /\ o \in rulesTodo
    <3>1. /\ coll \in collCached /\ phase \in {"priority", "regular"}
          /\ o \in CollRules
      BY <1>2, <2>1 DEF ControlInv
    <3>2. RuleType[o] = coll /\ (phase # "priority" => RuleActions[o] = {})
      BY <3>1 DEF CollRules, PriorityRules, RegularRules
    <3>3. phase = "priority" => TypeActions(coll) \subseteq seenActions'
      <4>1. CASE PriorityMode
        BY <1>4, <1>6, <3>1, <4>1 DEF ActionsInv, NoActionMissed, TypeActions, PriorityRules
      <4>2. CASE ~PriorityMode /\ phase = "priority"
        BY <3>1, <4>2 DEF RuleMatches, ActionsInv, NoActionMissed, PriorityMode
      <4> QED
        BY <4>1, <4>2
    <3>4. Stopped(o)'
      BY <1>4, <3>1, <3>2, <3>3 DEF Stopped, TypeActions, PriorityRules
    <3> QED
      BY <1>1, <2>1, <3>4
  <2>2. CASE ~(o \in Rule /\ o \in rulesTodo)
    BY <1>1, <1>3, <1>4, <2>2 DEF Ahead
  <2> QED
    BY <2>1, <2>2
<1>7. \/ UNCHANGED <<coll, rulesTodo>>
      \/ coll' = None /\ rulesTodo' = {} /\ (PriorityMode => remaining'[coll] = {})
  BY <1>2 DEF RuleMatches, TypeOK
<1> QED
  BY <1>5, <1>6, <1>7

LEMMA StaysAhead ==
    ASSUME TypeOK, ControlInv, ActionsInv, ActionsInv', AmpleTime, Step,
           NEW o \in Waiting', Ahead(o), ~(ConditionFails /\ o = cur)
    PROVE  Ahead(o)'
<1>1. o \in Owner /\ ~cacheResult'[o]
  BY RulesetAssumption DEF Waiting, Owner, Filter
<1>2. CASE NextPhase \/ Return
  BY <1>1, <1>2, PhaseAhead
<1>3. CASE SkipCached \/ ConditionMatches
  BY <1>3 DEF SkipCached, ConditionMatches, Ahead
<1>4. CASE ConditionFails
  BY <1>1, <1>4, LeftAhead DEF ConditionFails
<1>5. CASE \/ \E f \in RuleFilter : StartRuleFilter(f)
           \/ \E f \in InputFilter : StartInputFilter(f)
  BY <1>5, FilterAhead DEF Filter
<1>6. CASE RuleFilterMatches \/ InputFilterMatches
  <2>1. o # cur
    BY <1>1, <1>6 DEF RuleFilterMatches, InputFilterMatches, TypeOK
  <2> QED
    BY <1>1, <1>6, <2>1, LeftAhead DEF RuleFilterMatches, InputFilterMatches
<1>7. CASE \E t \in Type : EnterPriority(t) \/ EnterRegular(t)
  BY <1>7, EnterAhead
<1>8. CASE \E r \in Rule : StartRule(r)
  BY <1>8, StartRuleAhead
<1>9. CASE RuleMatches
  BY <1>9, RuleMatchesAhead
<1>10. CASE LeaveCollection
  BY <1>1, <1>10 DEF LeaveCollection, Ahead
<1>11. CASE ExpireBetween \/ ExpireInCondition \/ ExpireInObjectFilter
  BY <1>11, NoExpiry DEF ExpireBetween, ExpireInCondition, ExpireInObjectFilter
<1> QED
  BY <1>2, <1>3, <1>4, <1>5, <1>6, <1>7, <1>8, <1>9, <1>10, <1>11 DEF Step

-----------------------------------------------------------------------------
(* What is left unmet *)

\* An owner whose conditions a step leaves as they are, or finds met.
LEMMA StayLooked ==
    ASSUME NEW o \in Owner, NothingMissed(o), Tried(o), phase \notin {"idle", "destroyed"},
           UNCHANGED <<objects, latestBatch>>, Ahead(o) => Ahead(o)',
           o \in Rule => objectsToExclude[o] \subseteq objectsToExclude'[o],
           \A i \in DOMAIN Conditions[o] :
              \/ condCache'[<<o, i>>] = condCache[<<o, i>>]
              \/ condCache'[<<o, i>>] = "true" /\ Ahead(o)
    PROVE  NothingMissed(o)' /\ Tried(o)'
<1>1. ASSUME NEW i \in DOMAIN Conditions[o], condCache'[<<o, i>>] = "false",
             NEW k \in Accepted(o, i)'
      PROVE  Ahead(o)' /\ Conditions[o][i].targets[k] \in latestBatch'
  <2>1. k \in Accepted(o, i)
    BY AcceptedShrinks
  <2>2. condCache[<<o, i>>] = "false"
    BY <1>1
  <2> QED
    BY <2>1, <2>2 DEF NothingMissed
<1>2. Tried(o)'
  BY DEF Tried
<1> QED
  BY <1>1, <1>2 DEF NothingMissed

\* The condition a step leaves unmet is met by no object of the store: the
\* earlier ones were looked at when it was left unmet before.
LEMMA FailsLooked ==
    ASSUME TypeOK, CachesInv, ConditionFails, NEW o \in Owner, o = cur, NothingMissed(o)
    PROVE  NothingMissed(o)' /\ Tried(o)'
<1>1. PICK n \in DOMAIN Conditions[o] : n = idx /\ InConditions
  BY DEF ConditionFails, InConditions
<1>2. \A i \in DOMAIN Conditions[o] :
        condCache'[<<o, i>>] = IF i = n THEN "false" ELSE condCache[<<o, i>>]
  <2>1. condCache' = [condCache EXCEPT ![<<cur, idx>>] = "false"]
    BY DEF ConditionFails
  <2>2. ASSUME NEW i \in DOMAIN Conditions[o]
        PROVE  condCache'[<<o, i>>]
                 = IF o = cur /\ i = idx THEN "false" ELSE condCache[<<o, i>>]
    BY <2>1, CacheExcept
  <2> QED
    BY <1>1, <2>2
<1>3. Accepted(o, n) = {}
  <2> SUFFICES ASSUME NEW k \in Accepted(o, n) PROVE FALSE
    OBVIOUS
  <2>1. /\ k \in DOMAIN CurCondition.targets /\ Accepts(o, n, CurCondition.targets[k])
        /\ CurCondition.processor
    BY <1>1 DEF Accepted, CurCondition
  <2>2. RunOnNew(o, n) => CurCondition.targets[k] \in latestBatch
    BY <1>1 DEF RunOnNew, NothingMissed, CurCondition
  <2>3. k \in Meeting(cur, idx)
    BY <1>1, <2>1, <2>2 DEF Meeting, CurCondition
  <2> QED
    BY <2>1, <2>3 DEF ConditionFails
<1>4. ASSUME NEW i \in DOMAIN Conditions[o], condCache'[<<o, i>>] = "false"
      PROVE  i = n
  <2>1. /\ \A j \in 1..(n - 1) : condCache[<<o, j>>] = "true"
        /\ \A j \in DOMAIN Conditions[o] : j > n => condCache[<<o, j>>] = "absent"
    BY <1>1, ResolvedSoFar DEF ConditionFails
  <2>2. i \in Nat \ {0} /\ n \in Nat \ {0}
    BY <1>1, ConditionsOf
  <2> QED
    BY <1>2, <1>4, <2>1, <2>2
<1>5. Accepted(o, n)' = {}
  BY <1>3 DEF ConditionFails, Accepted, Accepts, ExcludedFor, storeVars, filterVars
<1>6. NothingMissed(o)'
  BY <1>4, <1>5 DEF NothingMissed
<1>7. Tried(o)'
  BY <1>1, <1>2 DEF Tried
<1> QED
  BY <1>6, <1>7

LEMMA StepLooked ==
    ASSUME TypeOK, ControlInv, CachesInv, ActionsInv, ActionsInv', LookedInv, AmpleTime, Step
    PROVE  LookedInv'
<1> SUFFICES ASSUME NEW o \in Waiting' PROVE NothingMissed(o)' /\ Tried(o)'
  BY DEF LookedInv
<1>1. o \in Owner /\ NothingMissed(o) /\ Tried(o)
  BY WaitingShrinks, Waits DEF LookedInv
<1>2. /\ phase \notin {"idle", "destroyed"} /\ UNCHANGED <<objects, latestBatch>>
      /\ o \in Rule => objectsToExclude[o] \subseteq objectsToExclude'[o]
  BY StepInCall, StepGrows DEF storeVars
<1>3. CASE ConditionFails /\ o = cur
  BY <1>1, <1>3, FailsLooked
<1>4. CASE ~(ConditionFails /\ o = cur)
  <2>1. Ahead(o) => Ahead(o)'
    BY <1>4, StaysAhead
  <2>2. CASE ConditionMatches \/ ConditionFails
    <3>1. PICK v \in {"true", "false"} :
            /\ condCache' = [condCache EXCEPT ![<<cur, idx>>] = v]
            /\ v = "true" \/ o # cur
      BY <1>4, <2>2 DEF ConditionMatches, ConditionFails
    <3>2. \A i \in DOMAIN Conditions[o] :
            condCache'[<<o, i>>] = IF o = cur /\ i = idx THEN v ELSE condCache[<<o, i>>]
      BY <1>1, <3>1, CacheExcept
    <3>3. o = cur => Ahead(o)
      BY DEF Ahead
    <3> QED
      BY <1>1, <1>2, <2>1, <3>1, <3>2, <3>3, StayLooked
  <2>3. CASE ~(ConditionMatches \/ ConditionFails)
    <3>1. UNCHANGED condCache
      BY <2>3, NoExpiry
      DEF Step, NextPhase, Return, SkipCached, StartRuleFilter, RuleFilterMatches, StartInputFilter,
          InputFilterMatches, EnterPriority, EnterRegular, Enter, StartRule, RuleMatches,
          LeaveCollection, ExpireBetween, ExpireInCondition, ExpireInObjectFilter, ownerVars
    <3> QED
      BY <1>1, <1>2, <2>1, <3>1, StayLooked
  <2> QED
    BY <2>2, <2>3
<1> QED
  BY <1>3, <1>4

\* Between two calls nobody is ahead.
LEMMA NobodyAhead ==
    ASSUME ControlInv, phase \in {"idle", "destroyed"}, NEW o \in Owner
    PROVE  ~Ahead(o)
BY OneOfThree DEF ControlInv, Ahead

\* A call that only supplies objects: those it does not supply were looked at.
LEMMA StartLooked ==
    ASSUME ControlInv, LookedInv, NEW p \in Params, RunStart(p)
    PROVE  LookedInv'
<1> SUFFICES ASSUME NEW o \in Waiting' PROVE NothingMissed(o)' /\ Tried(o)'
  BY DEF LookedInv
<1>1. /\ UNCHANGED <<condCache, cacheResult, rulesToExclude, objectsToExclude, collResult, seenActions>>
      /\ phase = "idle" /\ phase' = "rule_filters" /\ todo' = RuleFilter
  BY DEF RunStart, ownerVars, filterVars, collVars
<1>2. o \in Waiting /\ o \in Owner
  BY <1>1, Waits DEF Waiting, Stopped, TypeActions, PriorityRules
<1>3. Ahead(o)'
  BY <1>1, <1>2, OneOfThree DEF Ahead
<1>4. ASSUME NEW i \in DOMAIN Conditions[o], condCache'[<<o, i>>] = "false",
             NEW k \in Accepted(o, i)'
      PROVE  Conditions[o][i].targets[k] \in latestBatch'
  <2>1. Conditions[o][i].targets[k] \in Target
    <3>1. Conditions[o][i] \in Condition
      BY <1>2, RulesetAssumption
    <3>2. Conditions[o][i].targets \in Seq(Target) /\ k \in DOMAIN Conditions[o][i].targets
      BY <3>1 DEF Condition, Accepted
    <3> QED
      BY <3>2
  <2>2. CASE Conditions[o][i].targets[k] \notin latestBatch'
    <3>1. objects'[Conditions[o][i].targets[k]] = objects[Conditions[o][i].targets[k]]
      BY <2>1, <2>2 DEF RunStart, Insert
    <3>2. k \in Accepted(o, i)
      BY <1>1, <3>1 DEF Accepted, Accepts, ExcludedFor
    <3>3. condCache[<<o, i>>] = "false" /\ NothingMissed(o)
      BY <1>1, <1>2, <1>4 DEF LookedInv
    <3> QED
      BY <1>1, <1>2, <3>2, <3>3, NobodyAhead DEF NothingMissed
  <2> QED
    BY <2>2
<1> QED
  BY <1>3, <1>4 DEF NothingMissed, Tried

\* A call that supplies no object, or the end of the context.
LEMMA IdleLooked ==
    ASSUME ControlInv, ControlInv', LookedInv, phase \in {"idle", "destroyed"},
           phase' \in {"idle", "destroyed"}, \A t \in Target : objects'[t] = objects[t],
           UNCHANGED <<filterVars, ownerVars, collVars>>
    PROVE  LookedInv'
<1> SUFFICES ASSUME NEW o \in Waiting' PROVE NothingMissed(o)' /\ Tried(o)'
  BY DEF LookedInv
<1>1. o \in Waiting /\ o \in Owner /\ ~Ahead(o) /\ ~Ahead(o)'
  <2>1. o \in Waiting /\ o \in Owner
    BY Waits DEF Waiting, Stopped, TypeActions, PriorityRules, filterVars, ownerVars, collVars
  <2> QED
    BY <2>1, OneOfThree DEF ControlInv, Ahead
<1>2. ASSUME NEW i \in DOMAIN Conditions[o], condCache'[<<o, i>>] = "false",
             NEW k \in Accepted(o, i)'
      PROVE  FALSE
  <2>1. Conditions[o][i].targets[k] \in Target
    <3>1. Conditions[o][i] \in Condition
      BY <1>1, RulesetAssumption
    <3>2. Conditions[o][i].targets \in Seq(Target) /\ k \in DOMAIN Conditions[o][i].targets
      BY <3>1 DEF Condition, Accepted
    <3> QED
      BY <3>2
  <2>2. k \in Accepted(o, i)
    BY <2>1 DEF Accepted, Accepts, ExcludedFor, filterVars
  <2> QED
    BY <1>1, <1>2, <2>2 DEF LookedInv, NothingMissed, ownerVars
<1> QED
  BY <1>1, <1>2 DEF LookedInv, NothingMissed, Tried, FirstRun, ownerVars, collVars

LEMMA NextLooked ==
    /\ AmpleTime
    /\ TypeOK /\ ControlInv /\ CachesInv /\ ActionsInv /\ LookedInv
    /\ ControlInv' /\ ActionsInv' /\ [Next]_vars
    => LookedInv'
<1> SUFFICES ASSUME AmpleTime, TypeOK, ControlInv, CachesInv, ActionsInv, LookedInv,
                    ControlInv', ActionsInv', [Next]_vars
             PROVE  LookedInv'
  OBVIOUS
<1>1. CASE RunInvalid \/ \E p \in Params : RunNothingNew(p)
  <2>1. /\ \A t \in Target : objects'[t] = objects[t]
        /\ UNCHANGED <<phase, filterVars, ownerVars, collVars>> /\ phase = "idle"
    BY <1>1 DEF RunInvalid, InsertInvalid, RunNothingNew, Insert, NoEvaluation, control
  <2> QED
    BY <2>1, IdleLooked
<1>2. CASE \E p \in Params : RunStart(p)
  BY <1>2, StartLooked
<1>3. CASE Step
  BY <1>3, StepLooked
<1>4. CASE Destroy
  <2>1. /\ UNCHANGED <<objects, filterVars, ownerVars, collVars>>
        /\ phase = "idle" /\ phase' = "destroyed"
    BY <1>4 DEF Destroy, FreeAll
  <2> QED
    BY <2>1, IdleLooked
<1>5. CASE UNCHANGED vars
  <2>1. /\ UNCHANGED <<objects, latestBatch, phase, todo, coll, rulesTodo, cur>>
        /\ UNCHANGED <<filterVars, ownerVars, collVars>>
    BY <1>5 DEF vars, storeVars, control
  <2>2. UNCHANGED Waiting
    BY <2>1
    DEF filterVars, ownerVars, collVars, Waiting, Stopped, TypeActions, PriorityRules
  <2>3. ASSUME NEW o \in Waiting PROVE NothingMissed(o)' /\ Tried(o)'
    <3>1. NothingMissed(o) /\ Tried(o)
      BY DEF LookedInv
    <3>2. NothingMissed(o)'
      BY <2>1, <3>1
      DEF filterVars, ownerVars, NothingMissed, Ahead, Accepted, Accepts, ExcludedFor
    <3>3. Tried(o)'
      BY <2>1, <3>1 DEF ownerVars, collVars, Tried, Ahead, FirstRun
    <3> QED
      BY <3>2, <3>3
  <2> QED
    BY <2>2, <2>3 DEF LookedInv
<1> QED
  BY <1>1, <1>2, <1>3, <1>4, <1>5, NoExpiry DEF Next, Run

LEMMA LookedCorrect == ASSUME AmpleTime PROVE Spec => []LookedInv
<1>1. Init => LookedInv
  <2> SUFFICES ASSUME Init, NEW o \in Waiting PROVE NothingMissed(o) /\ Tried(o)
    BY DEF LookedInv
  <2>1. o \in Owner
    BY Waits
  <2>2. \A i \in DOMAIN Conditions[o] : condCache[<<o, i>>] = "absent"
    BY <2>1, InCell DEF Init
  <2> QED
    BY <2>2 DEF Init, NothingMissed, Tried, FirstRun
<1> QED
  BY <1>1, TypeCorrect, ControlCorrect, CachesCorrect, ActionsInvariant, NextLooked, PTL DEF Spec

\* As long as no call runs out of time, none of the objects of the store, of
\* whatever call, meets the condition that a rule or a filter waits for when a
\* call has returned: although each call only looks at new objects.
THEOREM ParametersCorrect == ASSUME AmpleTime PROVE Spec => []ParametersTakenIntoAccount
<1>1. ControlInv /\ CachesInv /\ LookedInv => ParametersTakenIntoAccount
  <2> SUFFICES ASSUME ControlInv, CachesInv, LookedInv, Idle, ~FirstRun, NEW o \in Waiting
               PROVE  \E i \in DOMAIN Conditions[o] :
                         /\ condCache[<<o, i>>] # "true"
                         /\ \A j \in 1..(i - 1) : condCache[<<o, j>>] = "true"
                         /\ Accepted(o, i) = {}
    BY DEF ParametersTakenIntoAccount
  <2>1. o \in Owner /\ ~Ahead(o)
    BY Waits, NobodyAhead DEF Idle
  <2>2. PICK i \in DOMAIN Conditions[o] : condCache[<<o, i>>] = "false"
    BY <2>1 DEF LookedInv, Tried, Idle
  <2>3. Accepted(o, i) = {}
    BY <2>1, <2>2 DEF LookedInv, NothingMissed
  <2>4. ASSUME NEW j \in 1..(i - 1) PROVE condCache[<<o, j>>] = "true"
    <3>1. j \in DOMAIN Conditions[o] /\ j < i
      BY <2>1, ConditionsOf
    <3> QED
      BY <2>1, <2>2, <3>1 DEF CachesInv, Ordered
  <2> QED
    BY <2>2, <2>3, <2>4
<1> QED
  BY <1>1, ControlCorrect, CachesCorrect, LookedCorrect, PTL

-----------------------------------------------------------------------------
(* The events of a call *)

\* A step that matches no rule and keeps the events, or reports them.
LEMMA StayAccounted ==
    ASSUME AccountedInv, Matched' = Matched,
           \/ UNCHANGED <<events, delivered>>
              /\ (events = <<>> \/ phase' \in {"priority", "regular"})
           \/ events' = <<>> /\ delivered' = delivered \cup {events[n].rule : n \in DOMAIN events}
    PROVE  AccountedInv'
<1>1. ASSUME NEW r \in Matched'
      PROVE  r \in delivered' \/ \E n \in DOMAIN events' : events'[n].rule = r
  <2>1. r \in delivered \/ \E n \in DOMAIN events : events[n].rule = r
    BY <1>1 DEF AccountedInv
  <2> QED
    BY <2>1
<1> QED
  BY <1>1 DEF AccountedInv

LEMMA StepAccounted ==
    ASSUME AmpleTime, TypeOK, ControlInv, AccountedInv, Step
    PROVE  AccountedInv'
<1>1. CASE NextPhase
  BY <1>1, StayAccounted DEF NextPhase, ownerVars, outVars, Matched, AccountedInv
<1>2. CASE Return
  BY <1>2, StayAccounted DEF Return, Finish, ownerVars, Matched
<1>3. CASE \/ SkipCached \/ ConditionMatches \/ ConditionFails
           \/ \E f \in RuleFilter : StartRuleFilter(f)
           \/ \E f \in InputFilter : StartInputFilter(f)
           \/ \E r \in Rule : StartRule(r)
           \/ LeaveCollection
  <2>1. UNCHANGED <<phase, events, delivered>> /\ Matched' = Matched
    BY <1>3 DEF SkipCached, ConditionMatches, ConditionFails, StartRuleFilter, StartInputFilter,
                StartRule, LeaveCollection, ownerVars, outVars, Matched
  <2> QED
    BY <2>1, StayAccounted DEF AccountedInv
<1>4. CASE RuleFilterMatches \/ InputFilterMatches
  <2>1. cur \in Filter /\ cacheResult' = [cacheResult EXCEPT ![cur] = TRUE]
    BY <1>4 DEF RuleFilterMatches, InputFilterMatches, Filter
  <2>2. Matched' = Matched /\ UNCHANGED <<phase, events, delivered>>
    BY <1>4, <2>1, FilterMatched DEF RuleFilterMatches, InputFilterMatches, outVars
  <2> QED
    BY <2>2, StayAccounted DEF AccountedInv
<1>5. CASE \E t \in Type : EnterPriority(t) \/ EnterRegular(t)
  <2>1. UNCHANGED <<phase, events, delivered>> /\ Matched' = Matched
    BY <1>5 DEF EnterPriority, EnterRegular, Enter, ownerVars, outVars, Matched
  <2> QED
    BY <2>1, StayAccounted DEF AccountedInv
<1>6. CASE RuleMatches
  <2>1. /\ Matched' = Matched \cup {cur} /\ UNCHANGED <<phase, delivered>>
        /\ events \in Seq(Event) /\ events' = Append(events, [rule |-> cur, matches |-> matches[cur]])
    BY <1>6, RuleMatchesMatched, EventsType DEF RuleMatches, outVars
  <2>2. /\ events'[Len(events) + 1].rule = cur /\ Len(events) + 1 \in DOMAIN events'
        /\ \A n \in DOMAIN events : n \in DOMAIN events' /\ events'[n] = events[n]
    BY <2>1
  <2>3. phase \in {"priority", "regular"}
    BY <1>6, RuleOfCollection DEF RuleMatches, ControlInv
  <2> QED
    BY <2>1, <2>2, <2>3 DEF AccountedInv
<1> QED
  BY <1>1, <1>2, <1>3, <1>4, <1>5, <1>6, NoExpiry
  DEF Step, ExpireBetween, ExpireInCondition, ExpireInObjectFilter

LEMMA NextAccounted ==
    AmpleTime /\ TypeOK /\ ControlInv /\ AccountedInv /\ [Next]_vars => AccountedInv'
<1> SUFFICES ASSUME AmpleTime, TypeOK, ControlInv, AccountedInv, [Next]_vars
             PROVE  AccountedInv'
  OBVIOUS
<1>1. CASE Run \/ Destroy
  <2>1. UNCHANGED <<events, delivered>> /\ Matched' = Matched /\ phase = "idle"
    BY <1>1 DEF Run, RunInvalid, RunNoBudget, RunNothingNew, RunStart, NoEvaluation, control,
                ownerVars, outVars, Matched, Destroy
  <2>2. events = <<>>
    BY <2>1 DEF AccountedInv
  <2> QED
    BY <2>1, <2>2, StayAccounted
<1>2. CASE UNCHANGED vars
  BY <1>2 DEF vars, control, ownerVars, outVars, AccountedInv, Matched
<1> QED
  BY <1>1, <1>2, StepAccounted DEF Next

LEMMA AccountedCorrect == ASSUME AmpleTime PROVE Spec => []AccountedInv
<1>1. Init => AccountedInv
  BY RulesetAssumption DEF Init, AccountedInv, Matched, Owner
<1> QED
  BY <1>1, TypeCorrect, ControlCorrect, NextAccounted, PTL DEF Spec

\* As long as no call runs out of time, every rule that has matched, and will
\* not be evaluated again, was reported when the call returned.
THEOREM MatchesCorrect == ASSUME AmpleTime PROVE Spec => []NoMatchLost
<1>1. AccountedInv => NoMatchLost
  <2> SUFFICES ASSUME AccountedInv, Idle, NEW r \in Matched PROVE r \in delivered
    BY DEF NoMatchLost
  <2>1. events = <<>>
    BY DEF AccountedInv, Idle
  <2> QED
    BY <2>1 DEF AccountedInv
<1> QED
  BY <1>1, AccountedCorrect, PTL

-----------------------------------------------------------------------------
(* What the rule filters exclude *)

\* A filter that is neither met nor still to be evaluated by the call is not
\* satisfied.
LEMMA Unsatisfied ==
    ASSUME LookedInv, phase \notin {"idle", "destroyed"},
           NEW f \in Filter, ~Ahead(f), ~cacheResult[f]
    PROVE  ~Satisfied(f)
<1>1. NothingMissed(f) /\ Tried(f)
  BY DEF LookedInv, Waiting
<1>2. PICK i \in DOMAIN Conditions[f] : condCache[<<f, i>>] = "false"
  BY <1>1 DEF Tried
<1>3. Accepted(f, i) = {}
  BY <1>1, <1>2 DEF NothingMissed
<1> QED
  BY <1>2, <1>3 DEF Satisfied

\* The filters have all been evaluated when the collections are.
LEMMA FiltersBehind ==
    ASSUME ControlInv, phase \in {"priority", "regular"}, NEW f \in Filter, cur \notin Filter
    PROVE  ~Ahead(f)
BY RulesetAssumption DEF Ahead, Filter

LEMMA StayExclusion ==
    ASSUME ExclusionInv, UNCHANGED <<cacheResult, rulesToExclude>>,
           events' = events \/ events' = <<>>,
           cur' \in Rule => cur' = cur \/ cur' \notin rulesToExclude,
           cur' \in RuleFilter => (cur' = cur /\ UNCHANGED phase) \/ phase' = "rule_filters"
    PROVE  ExclusionInv'
<1>1. \A n \in DOMAIN events' : events'[n].rule \notin rulesToExclude'
  BY DEF ExclusionInv
<1> QED
  BY <1>1 DEF ExclusionInv

LEMMA RuleMatchesExclusion ==
    ASSUME TypeOK, ExclusionInv, RuleMatches
    PROVE  ExclusionInv'
<1>1. /\ cur \in Rule /\ cur \notin rulesToExclude /\ UNCHANGED rulesToExclude
      /\ cur' \notin Rule /\ cur' \notin RuleFilter
  BY RulesetAssumption DEF RuleMatches, ExclusionInv, LeaveOwner, filterVars, Owner, Filter
<1>2. /\ events \in Seq(Event)
      /\ events' = Append(events, [rule |-> cur, matches |-> matches[cur]])
  BY EventsType DEF RuleMatches
<1>3. ASSUME NEW n \in DOMAIN events' PROVE events'[n].rule \notin rulesToExclude
  <2>1. CASE n \in DOMAIN events
    BY <1>2, <2>1 DEF ExclusionInv
  <2>2. CASE n \notin DOMAIN events
    BY <1>1, <1>2, <1>3, <2>2
  <2> QED
    BY <2>1, <2>2
<1>4. \A f \in RuleFilter : cacheResult'[f] => cacheResult[f]
  BY <1>1, RulesetAssumption DEF RuleMatches, TypeOK, Owner, Filter
<1> QED
  BY <1>1, <1>3, <1>4 DEF ExclusionInv

LEMMA NextExclusion ==
    AmpleTime /\ TypeOK /\ ControlInv /\ AccountedInv /\ ExclusionInv /\ [Next]_vars => ExclusionInv'
<1> SUFFICES ASSUME AmpleTime, TypeOK, ControlInv, AccountedInv, ExclusionInv, [Next]_vars
             PROVE  ExclusionInv'
  OBVIOUS
<1>1. CASE Run \/ Destroy
  <2>1. UNCHANGED <<cur, events, cacheResult, rulesToExclude>> /\ phase = "idle"
    BY <1>1
    DEF Run, RunInvalid, RunNoBudget, RunNothingNew, RunStart, NoEvaluation, Destroy, control,
        ownerVars, filterVars
  <2>2. cur' = None
    BY <2>1 DEF ControlInv
  <2> QED
    BY <2>1, <2>2, StayExclusion, RulesetAssumption DEF Owner, Filter
<1>2. CASE NextPhase \/ Return
  BY <1>2, StayExclusion, RulesetAssumption
  DEF NextPhase, Return, Finish, Between, ownerVars, filterVars, Owner, Filter
<1>3. CASE SkipCached \/ ConditionMatches \/ ConditionFails
  BY <1>3, StayExclusion, RulesetAssumption
  DEF SkipCached, ConditionMatches, ConditionFails, LeaveOwner, ownerVars, filterVars, Owner, Filter
<1>4. CASE \/ \E f \in RuleFilter : StartRuleFilter(f)
           \/ \E f \in InputFilter : StartInputFilter(f)
  BY <1>4, StayExclusion, RulesetAssumption
  DEF StartRuleFilter, StartInputFilter, ownerVars, filterVars, Owner, Filter
<1>5. CASE RuleFilterMatches
  <2>1. /\ cur \in RuleFilter /\ rulesToExclude' = rulesToExclude \cup FilterRules[cur]
        /\ cacheResult' = [cacheResult EXCEPT ![cur] = TRUE]
        /\ cur' \notin Rule /\ cur' \notin RuleFilter /\ UNCHANGED events
    BY <1>5, RulesetAssumption DEF RuleFilterMatches, LeaveOwner, Owner, Filter
  <2>2. events = <<>>
    BY <2>1 DEF ExclusionInv, AccountedInv
  <2> QED
    BY <2>1, <2>2 DEF ExclusionInv, TypeOK
<1>6. CASE InputFilterMatches
  <2>1. \A f \in RuleFilter : cacheResult'[f] = cacheResult[f]
    BY <1>6, RulesetAssumption DEF InputFilterMatches, TypeOK, Owner, Filter
  <2> QED
    BY <1>6, <2>1, RulesetAssumption DEF InputFilterMatches, LeaveOwner, ExclusionInv, Owner, Filter
<1>7. CASE LeaveCollection \/ \E t \in Type : EnterPriority(t) \/ EnterRegular(t)
  BY <1>7, StayExclusion
  DEF LeaveCollection, EnterPriority, EnterRegular, Enter, ownerVars, filterVars
<1>8. CASE \E r \in Rule : StartRule(r)
  BY <1>8, StayExclusion, RulesetAssumption
  DEF StartRule, Evaluable, ownerVars, filterVars, Owner, Filter
<1>9. CASE RuleMatches
  BY <1>9, RuleMatchesExclusion
<1>10. CASE UNCHANGED vars
  BY <1>10, StayExclusion DEF vars, control, ownerVars, filterVars
<1> QED
  BY <1>1, <1>2, <1>3, <1>4, <1>5, <1>6, <1>7, <1>8, <1>9, <1>10, NoExpiry
  DEF Next, Step, ExpireBetween, ExpireInCondition, ExpireInObjectFilter

LEMMA ExclusionCorrectly == ASSUME AmpleTime PROVE Spec => []ExclusionInv
<1>1. Init => ExclusionInv
  BY RulesetAssumption DEF Init, ExclusionInv, Owner, Filter
<1> QED
  BY <1>1, TypeCorrect, ControlCorrect, AccountedCorrect, NextExclusion, PTL DEF Spec

\* As long as no call runs out of time, a rule is never reported while the
\* objects of the store meet a rule filter that applies to it.
THEOREM ExclusionCorrect == ASSUME AmpleTime PROVE Spec => ExclusionHonoured
<1> DEFINE Honoured == \A r \in delivered' \ delivered, f \in RuleFilter :
                          r \in FilterRules[f] => ~Satisfied(f)
<1>1. /\ TypeOK /\ ControlInv /\ LookedInv /\ ExclusionInv /\ [Next]_vars
      => [Honoured]_vars
  <2> SUFFICES ASSUME TypeOK, ControlInv, LookedInv, ExclusionInv, Next,
                      NEW r \in delivered' \ delivered,
                      NEW f \in RuleFilter, r \in FilterRules[f]
               PROVE  ~Satisfied(f)
    OBVIOUS
  <2>1. Return
    <3>1. CASE Run \/ Destroy
      BY <3>1 DEF Run, RunInvalid, RunNoBudget, RunNothingNew, RunStart, NoEvaluation, Destroy, outVars
    <3>2. CASE \/ NextPhase \/ SkipCached \/ ConditionMatches \/ ConditionFails
               \/ \E g \in RuleFilter : StartRuleFilter(g)
               \/ \E g \in InputFilter : StartInputFilter(g)
               \/ RuleFilterMatches \/ InputFilterMatches
               \/ \E t \in Type : EnterPriority(t) \/ EnterRegular(t)
               \/ \E q \in Rule : StartRule(q)
               \/ RuleMatches \/ LeaveCollection
      BY <3>2
      DEF NextPhase, SkipCached, ConditionMatches, ConditionFails, StartRuleFilter,
          StartInputFilter, RuleFilterMatches, InputFilterMatches, EnterPriority, EnterRegular,
          Enter, StartRule, RuleMatches, LeaveCollection, outVars
    <3> QED
      BY <3>1, <3>2, NoExpiry
      DEF Next, Step, ExpireBetween, ExpireInCondition, ExpireInObjectFilter
  <2>2. PICK n \in DOMAIN events : events[n].rule = r
    BY <2>1 DEF Return, Finish
  <2>3. ~cacheResult[f]
    BY <2>2 DEF ExclusionInv
  <2>4. phase = "regular" /\ cur \notin Filter
    BY <2>1, RulesetAssumption DEF Return, Between, Owner
  <2>5. f \in Filter /\ ~Ahead(f)
    BY <2>4, FiltersBehind DEF Filter
  <2> QED
    BY <2>3, <2>4, <2>5, Unsatisfied
<1> QED
  BY <1>1, TypeCorrect, ControlCorrect, LookedCorrect, ExclusionCorrectly,
     PTL DEF Spec, ExclusionHonoured

-----------------------------------------------------------------------------
(* What the input filters exclude *)

\* A step that filters no objects, and after which no filter but one without
\* a result has been evaluated that was not before.
LEMMA StayProtection ==
    ASSUME ProtectionInv, UNCHANGED <<objCache, rulesToExclude, objectsToExclude>>,
           \A f \in InputFilter : cacheResult'[f] /\ ~Ahead(f)' =>
             cacheResult[f] /\ ~Ahead(f) /\ \A t \in FilterTargets[f] : objects'[t] = objects[t]
    PROVE  ProtectionInv'
BY DEF ProtectionInv

LEMMA FilteredProtection ==
    ASSUME TypeOK, StoreInv, ProtectionInv, InputFilterMatches
    PROVE  ProtectionInv'
<1>1. /\ cur \in InputFilter /\ UNCHANGED <<objects, rulesToExclude, phase, todo>>
      /\ objCache' = [objCache EXCEPT ![cur] = @ \cup Fresh(cur)]
      /\ cacheResult' = [cacheResult EXCEPT ![cur] = TRUE]
      /\ objectsToExclude' = [r \in Rule |->
           IF r \in FilterRules[cur] \ rulesToExclude
           THEN objectsToExclude[r] \cup {objects[t] : t \in Fresh(cur)}
           ELSE objectsToExclude[r]]
  BY DEF InputFilterMatches, storeVars
<1>2. \A f \in InputFilter : objCache'[f] = IF f = cur THEN objCache[f] \cup Fresh(f) ELSE objCache[f]
  BY <1>1 DEF TypeOK
<1>3. FilterTargets \in [InputFilter -> SUBSET Target] /\ FilterRules \in [Filter -> SUBSET Rule]
  BY RulesetAssumption
<1>4. ASSUME NEW f \in InputFilter, cacheResult'[f], ~Ahead(f)', NEW t \in FilterTargets[f],
             objects'[t] # NoObject
      PROVE  t \in objCache'[f]
  <2>1. CASE f = cur
    <3>1. objects[t] # NoObject
      BY <1>1, <1>4
    <3>2. t \in objCache[f] \/ t \in Fresh(f)
      BY <3>1 DEF Fresh
    <3> QED
      BY <1>2, <2>1, <3>2
  <2>2. CASE f # cur
    <3>1. cacheResult[f] /\ ~Ahead(f)
      BY <1>1, <1>4, <2>2, OneOfThree DEF TypeOK, Ahead, Owner, Filter
    <3> QED
      BY <1>1, <1>2, <1>4, <2>2, <3>1 DEF ProtectionInv
  <2> QED
    BY <2>1, <2>2
<1>5. ASSUME NEW f \in InputFilter, NEW t \in objCache'[f], NEW r \in FilterRules[f] \ rulesToExclude
      PROVE  \E o \in objectsToExclude'[r] : o.target = t
  <2>1. r \in Rule
    BY <1>3 DEF Filter
  <2>2. CASE t \in objCache[f]
    <3>1. \E o \in objectsToExclude[r] : o.target = t
      BY <1>5, <2>2 DEF ProtectionInv
    <3> QED
      BY <1>1, <2>1, <3>1
  <2>3. CASE f = cur /\ t \in Fresh(cur)
    <3>1. t \in Target /\ objects[t].target = t
      BY <1>1, <1>3, <2>3 DEF Fresh, StoreInv
    <3> QED
      BY <1>1, <1>5, <2>1, <2>3, <3>1
  <2> QED
    BY <1>2, <1>5, <2>2, <2>3
<1>6. UNCHANGED rulesToExclude
  BY <1>1
<1> QED
  BY <1>4, <1>5, <1>6 DEF ProtectionInv

LEMMA StepProtection ==
    ASSUME AmpleTime, TypeOK, ControlInv, CachesInv, StoreInv, ProtectionInv, Step
    PROVE  ProtectionInv'
<1>1. UNCHANGED objects
  BY StepInCall DEF storeVars
<1>2. CASE NextPhase \/ Return
  <2>1. UNCHANGED <<objCache, rulesToExclude, objectsToExclude, cacheResult>> /\ cur = None
    BY <1>2 DEF NextPhase, Return, Between, filterVars, ownerVars
  <2>2. \A f \in InputFilter : Ahead(f) => Ahead(f)'
    BY <1>2, PhaseAhead DEF Owner, Filter
  <2> QED
    BY <1>1, <2>1, <2>2, StayProtection
<1>3. CASE SkipCached \/ ConditionMatches \/ LeaveCollection
  <2>1. UNCHANGED <<objCache, rulesToExclude, objectsToExclude, cacheResult, cur, phase, todo>>
    BY <1>3 DEF SkipCached, ConditionMatches, LeaveCollection, filterVars, ownerVars
  <2>2. \A f \in InputFilter : Ahead(f)' <=> Ahead(f)
    BY <2>1, OneOfThree DEF Ahead, Owner, Filter
  <2> QED
    BY <1>1, <2>1, <2>2, StayProtection
<1>4. CASE ConditionFails
  <2>1. /\ UNCHANGED <<objCache, rulesToExclude, objectsToExclude, cacheResult, phase, todo, coll,
                       rulesTodo>>
        /\ cur \in Owner /\ idx \in DOMAIN Conditions[cur] /\ condCache[<<cur, idx>>] # "true"
    BY <1>4 DEF ConditionFails, InConditions, filterVars, TypeOK
  <2>2. ~cacheResult[cur]
    BY <2>1 DEF CachesInv, ResultIsTrue
  <2>3. \A f \in InputFilter : f # cur /\ Ahead(f) => Ahead(f)'
    BY <2>1, LeftAhead DEF Owner, Filter
  <2> QED
    BY <1>1, <2>1, <2>2, <2>3, StayProtection
<1>5. CASE \E f \in RuleFilter : StartRuleFilter(f)
  <2>1. /\ UNCHANGED <<objCache, rulesToExclude, objectsToExclude, cacheResult, phase>>
        /\ phase = "rule_filters"
    BY <1>5 DEF StartRuleFilter, filterVars, ownerVars
  <2>2. \A f \in InputFilter : Ahead(f)'
    BY <2>1 DEF Ahead
  <2> QED
    BY <2>1, <2>2, StayProtection
<1>6. ASSUME NEW g \in InputFilter, StartInputFilter(g)
      PROVE  ProtectionInv'
  <2>1. /\ UNCHANGED <<objCache, rulesToExclude, objectsToExclude, cacheResult, phase>>
        /\ cur = None /\ phase = "input_filters" /\ todo' = todo \ {g} /\ cur' = g
    BY <1>6 DEF StartInputFilter, Between, filterVars, ownerVars
  <2>2. \A f \in InputFilter : Ahead(f) => Ahead(f)'
    BY <2>1, OneOfThree DEF Ahead, Owner, Filter
  <2> QED
    BY <1>1, <2>1, <2>2, StayProtection
<1>7. CASE RuleFilterMatches
  <2>1. /\ UNCHANGED <<objCache, objectsToExclude, phase, todo, coll, rulesTodo>>
        /\ rulesToExclude \subseteq rulesToExclude' /\ cur \in RuleFilter
    BY <1>7 DEF RuleFilterMatches
  <2>2. \A f \in InputFilter : f # cur /\ cacheResult'[f] = cacheResult[f]
    BY <1>7, RulesetAssumption DEF RuleFilterMatches, TypeOK, Owner, Filter
  <2>3. \A f \in InputFilter : Ahead(f) => Ahead(f)'
    BY <2>1, <2>2, LeftAhead DEF Owner, Filter
  <2> QED
    BY <1>1, <2>1, <2>2, <2>3 DEF ProtectionInv
<1>8. CASE InputFilterMatches
  BY <1>8, FilteredProtection
<1>9. CASE \/ \E t \in Type : EnterPriority(t) \/ EnterRegular(t)
           \/ \E r \in Rule : StartRule(r)
           \/ RuleMatches
  <2>1. /\ UNCHANGED <<objCache, rulesToExclude, objectsToExclude>>
        /\ phase \in {"priority", "regular"} /\ cur \notin InputFilter /\ UNCHANGED phase
        /\ \A f \in InputFilter : cacheResult'[f] = cacheResult[f]
    BY <1>9, RulesetAssumption
    DEF EnterPriority, EnterRegular, Enter, StartRule, RuleMatches, Between, filterVars, ownerVars,
        Owner, Filter, TypeOK, ControlInv
  <2>2. \A f \in InputFilter : ~Ahead(f)
    BY <2>1, RulesetAssumption DEF Ahead, Filter
  <2> QED
    BY <1>1, <2>1, <2>2, StayProtection
<1> QED
  BY <1>2, <1>3, <1>4, <1>5, <1>6, <1>7, <1>8, <1>9, NoExpiry
  DEF Step, ExpireBetween, ExpireInCondition, ExpireInObjectFilter

LEMMA NextProtection ==
    /\ AmpleTime
    /\ TypeOK /\ ControlInv /\ CachesInv /\ StoreInv /\ ProtectionInv /\ [Next]_vars
    => ProtectionInv'
<1> SUFFICES ASSUME AmpleTime, TypeOK, ControlInv, CachesInv, StoreInv, ProtectionInv, [Next]_vars
             PROVE  ProtectionInv'
  OBVIOUS
<1>1. \A f \in InputFilter : FilterTargets[f] \subseteq Target
  BY RulesetAssumption
<1>2. CASE RunInvalid \/ \E p \in Params : RunNothingNew(p)
  <2>1. /\ \A t \in Target : objects'[t] = objects[t]
        /\ UNCHANGED <<control, filterVars, ownerVars>>
    BY <1>2 DEF RunInvalid, InsertInvalid, RunNothingNew, Insert, NoEvaluation
  <2>2. \A f \in InputFilter : Ahead(f)' <=> Ahead(f)
    BY <2>1 DEF Ahead, control
  <2> QED
    BY <1>1, <2>1, <2>2, StayProtection DEF filterVars, ownerVars
<1>3. CASE \E p \in Params : RunStart(p)
  <2>1. \A f \in InputFilter : Ahead(f)'
    BY <1>3 DEF RunStart, Ahead
  <2> QED
    BY <1>3, <2>1, StayProtection DEF RunStart, filterVars
<1>4. CASE Step
  BY <1>4, StepProtection
<1>5. CASE Destroy
  <2>1. /\ UNCHANGED <<objects, filterVars, ownerVars>>
        /\ phase = "idle"
    BY <1>5 DEF Destroy, FreeAll
  <2>2. \A f \in InputFilter : ~Ahead(f)
    BY <2>1, NobodyAhead DEF Owner, Filter
  <2> QED
    BY <2>1, <2>2, StayProtection DEF filterVars, ownerVars
<1>6. CASE UNCHANGED vars
  <2>1. \A f \in InputFilter : Ahead(f)' <=> Ahead(f)
    BY <1>6 DEF vars, Ahead, control
  <2> QED
    BY <1>6, <2>1, StayProtection DEF vars, storeVars, filterVars, ownerVars
<1> QED
  BY <1>2, <1>3, <1>4, <1>5, <1>6, NoExpiry DEF Next, Run

LEMMA ProtectionCorrectly == ASSUME AmpleTime PROVE Spec => []ProtectionInv
<1>1. Init => ProtectionInv
  BY DEF Init, ProtectionInv, StoreInit, Owner, Filter
<1>2. EventsInv => StoreInv
  BY DEF EventsInv
<1> QED
  BY <1>1, <1>2, TypeCorrect, ControlCorrect, CachesCorrect, EventsInvariant, NextProtection,
     PTL DEF Spec

\* As long as no call runs out of time, a rule never matches an object that a
\* satisfied input filter covers for it, unless the filter has excluded an
\* earlier object of the same target.
THEOREM ProtectionCorrect == ASSUME AmpleTime PROVE Spec => InputFilterProtects
<1> DEFINE Protects ==
      \A r \in Rule, f \in InputFilter, t \in Target :
         /\ r \in FilterRules[f] /\ t \in FilterTargets[f]
         /\ Satisfied(f)
         /\ matches'[r] = Append(matches[r], objects[t])
         => \E o \in objectsToExclude[r] : o.target = t /\ o # objects[t]
<1>1. /\ TypeOK /\ ControlInv /\ LookedInv /\ ExclusionInv /\ ProtectionInv /\ [Next]_vars
      => [Protects]_vars
  <2> SUFFICES ASSUME TypeOK, ControlInv, LookedInv, ExclusionInv, ProtectionInv, Next,
                      NEW r \in Rule, NEW f \in InputFilter, NEW t \in Target,
                      r \in FilterRules[f], t \in FilterTargets[f], Satisfied(f),
                      matches'[r] = Append(matches[r], objects[t])
               PROVE  \E o \in objectsToExclude[r] : o.target = t /\ o # objects[t]
    OBVIOUS
  <2>1. matches[r] \in Seq(Object)
    BY DEF TypeOK
  <2>2. Append(matches[r], objects[t]) # matches[r] /\ Append(matches[r], objects[t]) # <<>>
    BY <2>1
  <2>3. matches'[r] # matches[r] /\ matches'[r] # <<>>
    BY <2>2
  <2>4. ConditionMatches
    <3>1. CASE UNCHANGED matches
      BY <2>3, <3>1
    <3>2. CASE RuleMatches
      BY <2>3, <3>2 DEF RuleMatches, TypeOK
    <3> QED
      BY <3>1, <3>2
      DEF Next, Run, RunInvalid, RunNoBudget, RunNothingNew, RunStart, NoEvaluation, Destroy, Step,
          NextPhase, Return, SkipCached, ConditionFails, StartRuleFilter, RuleFilterMatches,
          StartInputFilter, InputFilterMatches, EnterPriority, EnterRegular, Enter, StartRule,
          LeaveCollection, ExpireBetween, ExpireInCondition, ExpireInObjectFilter, ownerVars
  <2>5. PICK k \in Meeting(cur, idx) :
          matches' = IF cur \in Rule
                     THEN [matches EXCEPT ![cur] = Append(@, objects[CurCondition.targets[k]])]
                     ELSE matches
    BY <2>4 DEF ConditionMatches
  <2>6. cur = r /\ matches'[r] = Append(matches[r], objects[CurCondition.targets[k]])
    BY <2>3, <2>5 DEF TypeOK
  <2>7. objects[t] = objects[CurCondition.targets[k]]
    <3>1. ASSUME NEW m PROVE Append(matches[r], m)[Len(matches[r]) + 1] = m
      BY <2>1
    <3>2. Append(matches[r], objects[t]) = Append(matches[r], objects[CurCondition.targets[k]])
      BY <2>6
    <3> QED
      BY <3>1, <3>2
  <2>8. objects[t] # NoObject /\ objects[t] \notin objectsToExclude[r]
    BY <2>6, <2>7 DEF Meeting, Accepts, ExcludedFor, CurCondition
  <2>9. phase \in {"priority", "regular"} /\ cur \notin Filter
    BY <2>6, RulesetAssumption DEF ControlInv
  <2>10. f \in Filter /\ ~Ahead(f)
    BY <2>9, FiltersBehind DEF Filter
  <2>11. cacheResult[f]
    BY <2>9, <2>10, Unsatisfied
  <2>12. t \in objCache[f] /\ r \notin rulesToExclude
    BY <2>6, <2>8, <2>10, <2>11 DEF ProtectionInv, ExclusionInv
  <2>13. PICK o \in objectsToExclude[r] : o.target = t
    BY <2>12 DEF ProtectionInv
  <2> QED
    BY <2>8, <2>13
<1> QED
  BY <1>1, TypeCorrect, ControlCorrect, LookedCorrect, ExclusionCorrectly, ProtectionCorrectly,
     PTL DEF Spec, InputFilterProtects
=============================================================================
