---------------------------- MODULE BuilderProofs ----------------------------
(***************************************************************************)
(* Proofs about the ruleset builder.  The folds and the choices the model  *)
(* is made of come first (what the map of rules by tags holds, and what    *)
(* multifind finds in it), then the invariants: the rulesets published,    *)
(* the pointers of the filters, the manifest, and the last ruleset against *)
(* the documents it comes from.                                            *)
(***************************************************************************)
EXTENDS BuilderProperties, FiniteSetTheorems, WellFoundedInduction, TLAPS

-----------------------------------------------------------------------------
(* Least elements, which stand for induction *)

Smallest(s, T) == \A t \in T : t \subseteq s => t = s

\* A set of finite sets has a smallest one.
LEMMA SmallestSet ==
  ASSUME NEW S, NEW T, T \subseteq SUBSET S, T # {}, \A t \in T : IsFiniteSet(t)
  PROVE  \E s \in T : Smallest(s, T)
<1>1. T \subseteq FiniteSubsetsOf(S)
  BY DEF FiniteSubsetsOf
<1>2. PICK s \in T : \A t \in T : <<t, s>> \notin StrictSubsetOrdering(S)
  BY <1>1, FS_StrictSubsetOrderingWellFounded, WFMin, Zenon
<1>3. ASSUME NEW t \in T, t \subseteq s
      PROVE  t = s
  <2>1. <<t, s>> \notin StrictSubsetOrdering(S)
    BY <1>2
  <2> QED BY <2>1, <1>3 DEF StrictSubsetOrdering
<1> QED BY <1>3 DEF Smallest

LEMMA LeastNumber ==
  ASSUME NEW S \in SUBSET Nat, S # {}
  PROVE  \E n \in S : \A m \in S : n <= m
<1> DEFINE T == {1..n : n \in S}
<1>1. \A t \in T : IsFiniteSet(t)
  <2>1. \A n \in S : IsFiniteSet(1..n)
    BY FS_Interval
  <2> QED BY <2>1
<1>2. PICK s \in T : Smallest(s, T)
  <2>1. T \subseteq SUBSET Nat
    OBVIOUS
  <2>2. T # {}
    OBVIOUS
  <2> HIDE DEF T
  <2> QED BY <1>1, <2>1, <2>2, SmallestSet, Zenon
<1>3. PICK n \in S : s = 1..n
  OBVIOUS
<1>4. ASSUME NEW m \in S, m < n
      PROVE  FALSE
  <2>1. 1..m \in T /\ 1..m \subseteq s
    BY <1>3, <1>4
  <2>2. 1..m = 1..n
    BY <2>1, <1>2, <1>3, Zenon DEF Smallest
  <2>3. n \in 1..n /\ n \notin 1..m
    BY <1>4
  <2> QED BY <2>2, <2>3
<1> QED BY <1>4

LEMMA MinIsLeast ==
  ASSUME NEW S \in SUBSET Nat, S # {}
  PROVE  Min(S) \in S /\ \A m \in S : Min(S) <= m
BY LeastNumber DEF Min

LEMMA MaxIsGreatest ==
  ASSUME NEW n \in Nat, NEW S \in SUBSET (1..n), S # {}
  PROVE  Max(S) \in S /\ \A m \in S : Max(S) >= m
<1> DEFINE Below == {n - m : m \in S}
<1>1. PICK d \in Below : \A e \in Below : d <= e
  <2>1. \A m \in S : n - m \in Nat
    OBVIOUS
  <2>2. Below \in SUBSET Nat
    BY <2>1
  <2>3. Below # {}
    OBVIOUS
  <2> HIDE DEF Below
  <2> QED BY <2>2, <2>3, LeastNumber
<1>2. PICK x \in S : d = n - x
  OBVIOUS
<1>3. \A m \in S : x >= m
  <2> TAKE m \in S
  <2>1. n - m \in Below
    OBVIOUS
  <2>2. n - x <= n - m
    BY <2>1, <1>1, <1>2
  <2> QED BY <2>2
<1> QED BY <1>3 DEF Max

-----------------------------------------------------------------------------
(* The map of the rules by tags, and what is found in it *)

ByTags(rules, s) == [t \in Tag |-> {r \in s : t \in Pairs(rules[r].tags)}]

\* However the rules are inserted, the map holds the rules of each tag.
LEMMA MapOfRules ==
  ASSUME NEW rules, IsFiniteSet(DOMAIN rules)
  PROVE  RulesByTags(rules) = ByTags(rules, DOMAIN rules)
<1> DEFINE D == DOMAIN rules
           Step(s, f) == IF s = {} THEN Cleared
                         ELSE LET x == CHOOSE y \in s : TRUE
                              IN  Insert(x, rules[x].tags, f[s \ {x}])
           IsFold(f) == f = [s \in SUBSET D |-> Step(s, f)]
           found == [s \in SUBSET D |-> ByTags(rules, s)]
           fold == CHOOSE f : IsFold(f)
<1>1. ASSUME NEW s \in SUBSET D, NEW f,
             s # {} => f[s \ {CHOOSE y \in s : TRUE}] = ByTags(rules, s \ {CHOOSE y \in s : TRUE})
      PROVE  Step(s, f) = ByTags(rules, s)
  <2>1. CASE s = {}
    BY <2>1 DEF Cleared, ByTags
  <2>2. CASE s # {}
    <3> DEFINE x == CHOOSE y \in s : TRUE
    <3>1. x \in s
      BY <2>2
    <3>2. f[s \ {x}] = ByTags(rules, s \ {x})
      BY <1>1, <2>2
    <3>3. Step(s, f) = Insert(x, rules[x].tags, f[s \ {x}])
      BY <2>2
    <3> HIDE DEF x, Step
    <3>4. Insert(x, rules[x].tags, ByTags(rules, s \ {x})) = ByTags(rules, s)
      BY <3>1 DEF Insert, ByTags
    <3> QED BY <3>2, <3>3, <3>4
  <2> QED BY <2>1, <2>2
<1>2. IsFold(found)
  <2>1. \A s \in SUBSET D : Step(s, found) = ByTags(rules, s)
    <3> TAKE s \in SUBSET D
    <3> HIDE DEF Step
    <3>1. s \ {CHOOSE y \in s : TRUE} \in SUBSET D
      OBVIOUS
    <3> QED BY <3>1, <1>1
  <2> HIDE DEF Step
  <2> QED BY <2>1
<1>3. IsFold(fold)
  <2> HIDE DEF IsFold, found
  <2> QED BY <1>2
<1>4. ASSUME NEW s \in SUBSET D
      PROVE  fold[s] = ByTags(rules, s)
  <2> DEFINE Bad == {t \in SUBSET D : fold[t] # ByTags(rules, t)}
  <2> SUFFICES ASSUME Bad # {} PROVE FALSE
    OBVIOUS
  <2> HIDE DEF fold
  <2>1. \A t \in Bad : IsFiniteSet(t)
    BY FS_Subset
  <2>2. PICK t \in Bad : Smallest(t, Bad)
    <3>1. Bad \subseteq SUBSET D
      OBVIOUS
    <3> HIDE DEF Bad
    <3> QED BY <2>1, <3>1, SmallestSet, Zenon
  <2> DEFINE x == CHOOSE y \in t : TRUE
  <2>3. t # {} => fold[t \ {x}] = ByTags(rules, t \ {x})
    <3> SUFFICES ASSUME t # {} PROVE fold[t \ {x}] = ByTags(rules, t \ {x})
      OBVIOUS
    <3>1. x \in t
      OBVIOUS
    <3> HIDE DEF x
    <3> QED BY <3>1, <2>2 DEF Smallest
  <2>4. Step(t, fold) = ByTags(rules, t)
    <3> HIDE DEF Step
    <3> QED BY <2>3, <1>1
  <2>5. fold[t] = Step(t, fold)
    <3> HIDE DEF Step
    <3> QED BY <1>3
  <2> QED BY <2>4, <2>5
<1>5. RulesByTags(rules) = fold[D]
  BY DEF RulesByTags, FoldSet, MapThenFoldSet
<1> QED BY <1>4, <1>5

\* The loop of multifind, once it has seen the keys at the places s.
Seen(data, keys, s) ==
    [latest |-> {r \in data[keys[1]] : \A i \in s : r \in data[keys[i]]},
     current |-> {},
     stopped |-> \E i \in s : data[keys[i]] = {}]

LEMMA ATurn ==
  ASSUME NEW data, NEW tag, NEW found, NEW stopped \in BOOLEAN
  PROVE  Turn(data, [latest |-> found, current |-> {}, stopped |-> stopped], tag)
           = IF stopped \/ data[tag] = {}
             THEN [latest |-> {}, current |-> {}, stopped |-> TRUE]
             ELSE [latest |-> found \cap data[tag], current |-> {}, stopped |-> FALSE]
<1> DEFINE sets == [latest |-> found, current |-> {}, stopped |-> stopped]
           both == {} \cup (found \cap data[tag])
<1>1. ASSUME NEW l
      PROVE  /\ [sets EXCEPT !.latest = l] = [latest |-> l, current |-> {}, stopped |-> stopped]
             /\ [sets EXCEPT !.latest = l, !.stopped = TRUE]
                  = [[sets EXCEPT !.latest = l] EXCEPT !.stopped = TRUE]
             /\ [sets EXCEPT !.latest = l, !.current = {}]
                  = [[sets EXCEPT !.latest = l] EXCEPT !.current = {}]
  <2>1. [sets EXCEPT !.latest = l] = [latest |-> l, current |-> {}, stopped |-> stopped]
    OBVIOUS
  <2> HIDE DEF sets
  <2> QED BY <2>1
<1>2. ASSUME NEW l, NEW s, NEW e
      PROVE  [[latest |-> l, current |-> {}, stopped |-> s] EXCEPT !.stopped = e]
               = [latest |-> l, current |-> {}, stopped |-> e]
  OBVIOUS
<1>3. ASSUME NEW l, NEW s
      PROVE  [[latest |-> l, current |-> {}, stopped |-> s] EXCEPT !.current = {}]
               = [latest |-> l, current |-> {}, stopped |-> s]
  OBVIOUS
<1>4. sets.current = {} /\ sets.latest = found /\ sets.stopped = stopped
  OBVIOUS
<1>5. both = found \cap data[tag]
  OBVIOUS
<1>6. Turn(data, sets, tag) = IF stopped \/ data[tag] = {}
                              THEN [sets EXCEPT !.latest = {}, !.stopped = TRUE]
                              ELSE [sets EXCEPT !.latest = both, !.current = {}]
  <2> HIDE DEF sets
  <2> QED BY <1>4 DEF Turn
<1> HIDE DEF sets, both
<1>7. CASE stopped \/ data[tag] = {}
  <2>1. [[latest |-> {}, current |-> {}, stopped |-> stopped] EXCEPT !.stopped = TRUE]
          = [latest |-> {}, current |-> {}, stopped |-> TRUE]
    BY <1>2, Zenon
  <2> QED BY <1>1, <1>6, <1>7, <2>1 DEF sets
<1>8. CASE ~(stopped \/ data[tag] = {})
  <2>1. stopped = FALSE
    BY <1>8
  <2>2. [sets EXCEPT !.latest = both, !.current = {}]
          = [latest |-> both, current |-> {}, stopped |-> stopped]
    BY <1>1, <1>3
  <2> QED BY <1>5, <1>6, <1>8, <2>1, <2>2 DEF sets
<1> QED BY <1>7, <1>8

LEMMA NextTurn ==
  ASSUME NEW data, NEW keys, NEW s, NEW x \in s
  PROVE  Turn(data, Seen(data, keys, s \ {x}), keys[x]) = Seen(data, keys, s)
<1> DEFINE found == {r \in data[keys[1]] : \A i \in s \ {x} : r \in data[keys[i]]}
           stopped == \E i \in s \ {x} : data[keys[i]] = {}
           all == {r \in data[keys[1]] : \A i \in s : r \in data[keys[i]]}
<1>1. /\ Seen(data, keys, s \ {x}) = [latest |-> found, current |-> {}, stopped |-> stopped]
      /\ stopped \in BOOLEAN
  BY DEF Seen
<1>2. Turn(data, Seen(data, keys, s \ {x}), keys[x])
        = IF stopped \/ data[keys[x]] = {}
          THEN [latest |-> {}, current |-> {}, stopped |-> TRUE]
          ELSE [latest |-> found \cap data[keys[x]], current |-> {}, stopped |-> FALSE]
  <2> HIDE DEF found, stopped
  <2> QED BY <1>1, ATurn
<1>3. found \cap data[keys[x]] = all
  OBVIOUS
<1>4. CASE stopped \/ data[keys[x]] = {}
  <2>1. (\E i \in s : data[keys[i]] = {}) = TRUE
    BY <1>4
  <2>2. all = {}
    BY <2>1
  <2>3. Seen(data, keys, s) = [latest |-> {}, current |-> {}, stopped |-> TRUE]
    BY <2>1, <2>2 DEF Seen
  <2> HIDE DEF found, stopped
  <2> QED BY <1>2, <1>4, <2>3
<1>5. CASE ~(stopped \/ data[keys[x]] = {})
  <2>1. (\E i \in s : data[keys[i]] = {}) = FALSE
    BY <1>5
  <2>2. Seen(data, keys, s) = [latest |-> all, current |-> {}, stopped |-> FALSE]
    BY <2>1 DEF Seen
  <2> HIDE DEF found, stopped, all
  <2> QED BY <1>2, <1>3, <1>5, <2>2
<1> QED BY <1>4, <1>5

\* multifind returns the rules that all the keys have.
LEMMA RulesOfAllKeys ==
  ASSUME NEW n \in Nat \ {0}, NEW keys, keys \in Seq(Tag), Len(keys) = n, NEW data
  PROVE  MultiFind(data, keys) = {r \in data[keys[1]] : \A i \in 1..n : r \in data[keys[i]]}
<1> DEFINE base == [latest |-> Find(data, keys[1]), current |-> {}, stopped |-> FALSE]
           Step(s, f) == IF s = {} THEN base
                         ELSE LET x == Max(s)
                              IN  Turn(data, f[s \ {x}], keys[x])
           IsFold(f) == f = [s \in SUBSET (1..n) |-> Step(s, f)]
           found == [s \in SUBSET (1..n) |-> Seen(data, keys, s)]
           fold == CHOOSE f : IsFold(f)
<1>1. ASSUME NEW s \in SUBSET (1..n), NEW f,
             s # {} => f[s \ {Max(s)}] = Seen(data, keys, s \ {Max(s)})
      PROVE  Step(s, f) = Seen(data, keys, s)
  <2>1. CASE s = {}
    <3>1. {r \in data[keys[1]] : \A i \in {} : r \in data[keys[i]]} = data[keys[1]]
      OBVIOUS
    <3>2. (\E i \in {} : data[keys[i]] = {}) = FALSE
      OBVIOUS
    <3> QED BY <2>1, <3>1, <3>2 DEF Seen, Find
  <2>2. CASE s # {}
    <3>1. Max(s) \in s
      BY <2>2, MaxIsGreatest
    <3>2. Step(s, f) = Turn(data, f[s \ {Max(s)}], keys[Max(s)])
      BY <2>2
    <3> HIDE DEF Step
    <3>3. f[s \ {Max(s)}] = Seen(data, keys, s \ {Max(s)})
      BY <1>1, <2>2
    <3>4. Turn(data, Seen(data, keys, s \ {Max(s)}), keys[Max(s)]) = Seen(data, keys, s)
      BY <3>1, NextTurn
    <3> QED BY <3>2, <3>3, <3>4, Zenon
  <2> QED BY <2>1, <2>2
<1>2. IsFold(found)
  <2>1. \A s \in SUBSET (1..n) : Step(s, found) = Seen(data, keys, s)
    <3> TAKE s \in SUBSET (1..n)
    <3> HIDE DEF Step
    <3>1. s \ {Max(s)} \in SUBSET (1..n)
      OBVIOUS
    <3> QED BY <3>1, <1>1
  <2> HIDE DEF Step
  <2> QED BY <2>1
<1>3. IsFold(fold)
  <2> HIDE DEF IsFold, found
  <2> QED BY <1>2
<1>4. ASSUME NEW s \in SUBSET (1..n)
      PROVE  fold[s] = Seen(data, keys, s)
  <2> DEFINE Bad == {t \in SUBSET (1..n) : fold[t] # Seen(data, keys, t)}
  <2> SUFFICES ASSUME Bad # {} PROVE FALSE
    OBVIOUS
  <2> HIDE DEF fold
  <2>1. \A t \in Bad : IsFiniteSet(t)
    <3>1. IsFiniteSet(1..n)
      BY FS_Interval
    <3> QED BY <3>1, FS_Subset
  <2>2. PICK t \in Bad : Smallest(t, Bad)
    <3>1. Bad \subseteq SUBSET (1..n)
      OBVIOUS
    <3> HIDE DEF Bad
    <3> QED BY <2>1, <3>1, SmallestSet, Zenon
  <2>3. t # {} => fold[t \ {Max(t)}] = Seen(data, keys, t \ {Max(t)})
    <3> SUFFICES ASSUME t # {}
                 PROVE  fold[t \ {Max(t)}] = Seen(data, keys, t \ {Max(t)})
      OBVIOUS
    <3>1. Max(t) \in t
      BY MaxIsGreatest
    <3> QED BY <3>1, <2>2 DEF Smallest
  <2>4. Step(t, fold) = Seen(data, keys, t)
    <3> HIDE DEF Step
    <3> QED BY <2>3, <1>1
  <2>5. fold[t] = Step(t, fold)
    <3> HIDE DEF Step
    <3> QED BY <1>3
  <2>6. fold[t] # Seen(data, keys, t)
    OBVIOUS
  <2> QED BY <2>4, <2>5, <2>6
<1>5. CASE n > 2
  <2>1. DOMAIN keys = 1..n
    OBVIOUS
  <2>2. MultiFind(data, keys) = fold[DOMAIN keys].latest
    BY <1>5, <2>1 DEF MultiFind, FoldLeft, MapThenFoldSet
  <2>3. fold[1..n] = Seen(data, keys, 1..n)
    BY <1>4
  <2> HIDE DEF fold
  <2> QED BY <2>1, <2>2, <2>3 DEF Seen
<1>6. CASE n = 1
  BY <1>6 DEF MultiFind, Find
<1>7. CASE n = 2
  <2>1. 1..n = {1, 2}
    BY <1>7
  <2>2. MultiFind(data, keys) = data[keys[1]] \cap data[keys[2]]
    BY <1>7 DEF MultiFind, Find2
  <2> QED BY <2>1, <2>2
<1> QED BY <1>5, <1>6, <1>7

\* A set in some order: every element comes, at one place.
LEMMA InSomeOrder ==
  ASSUME NEW S, IsFiniteSet(S)
  PROVE  /\ SetToSeq(S) \in SetToSeqs(S)
         /\ Cardinality(S) \in Nat
         /\ \A f \in SetToSeqs(S) :
               /\ f \in Seq(S) /\ Len(f) = Cardinality(S)
               /\ \A x \in S : \E i \in 1..Cardinality(S) : f[i] = x
<1> DEFINE n == Cardinality(S)
<1>1. n \in Nat /\ ExistsBijection(1..n, S)
  BY FS_CardinalityType
<1>2. SetToSeq(S) \in SetToSeqs(S)
  <2>1. \E f \in [1..n -> S] : IsInjective(f)
    BY <1>1 DEF ExistsBijection, Bijection, Injection, IsInjective
  <2>2. SetToSeq(S) \in [1..n -> S] /\ IsInjective(SetToSeq(S))
    BY <2>1 DEF SetToSeq
  <2> QED BY <2>2 DEF SetToSeqs, IsInjective
<1>3. ASSUME NEW f \in SetToSeqs(S)
      PROVE  /\ f \in Seq(S) /\ Len(f) = n
             /\ \A x \in S : \E i \in 1..n : f[i] = x
  <2>1. f \in [1..n -> S] /\ \A i, j \in 1..n : i # j => f[i] # f[j]
    BY DEF SetToSeqs
  <2>2. f \in Injection(1..n, S)
    BY <2>1 DEF Injection, IsInjective
  <2>3. IsFiniteSet(1..n) /\ Cardinality(1..n) = n
    BY <1>1, FS_Interval
  <2>4. f \in Surjection(1..n, S)
    BY <2>2, <2>3, FS_Injection
  <2> QED BY <1>1, <2>1, <2>4 DEF Surjection
<1> QED BY <1>1, <1>2, <1>3

LEMMA FiniteTags ==
  ASSUME NEW tags \in Tags
  PROVE  IsFiniteSet(Pairs(tags))
<1> DEFINE P == Pairs(tags)
<1>1. PICK K \in SUBSET TagKey : tags \in [K -> TagValue]
  BY DEF Tags
<1> DEFINE f == [k \in K |-> <<k, tags[k]>>]
<1>2. f \in Surjection(K, P)
  BY <1>1 DEF Surjection, Pairs
<1>3. IsFiniteSet(K)
  BY <1>1, TagAssumption, FS_Subset
<1> HIDE DEF f
<1> QED BY <1>2, <1>3, FS_Surjection

\* In whatever order its tags come, a scope's tags find the rules that have
\* all of them.
LEMMA FoundByTags ==
  ASSUME NEW rules, IsFiniteSet(DOMAIN rules),
         NEW tags \in Tags \ {<<>>}, NEW keys \in SetToSeqs(Pairs(tags))
  PROVE  MultiFind(RulesByTags(rules), keys)
           = {r \in DOMAIN rules : Pairs(tags) \subseteq Pairs(rules[r].tags)}
<1> DEFINE P == Pairs(tags)
           n == Cardinality(P)
           data == RulesByTags(rules)
<1>1. P \subseteq Tag /\ P # {} /\ IsFiniteSet(P)
  <2>1. PICK K \in SUBSET TagKey : tags \in [K -> TagValue]
    BY DEF Tags
  <2>2. P \subseteq Tag
    BY <2>1 DEF Pairs, Tag
  <2>3. P # {}
    <3>1. CASE K = {}
      <4>1. tags = <<>>
        BY <2>1, <3>1
      <4> QED BY <4>1
    <3>2. CASE K # {}
      BY <2>1, <3>2 DEF Pairs
    <3> QED BY <3>1, <3>2
  <2>4. IsFiniteSet(P)
    BY FiniteTags
  <2> QED BY <2>2, <2>3, <2>4
<1>2. /\ n \in Nat \ {0} /\ keys \in Seq(P) /\ Len(keys) = n
      /\ \A x \in P : \E i \in 1..n : keys[i] = x
  <2>1. keys \in SetToSeqs(P)
    OBVIOUS
  <2> HIDE DEF P
  <2>2. n \in Nat /\ n # 0
    BY <1>1, InSomeOrder, FS_EmptySet
  <2>3. /\ keys \in Seq(P) /\ Len(keys) = n
        /\ \A x \in P : \E i \in 1..n : keys[i] = x
    BY <1>1, <2>1, InSomeOrder
  <2> QED BY <2>2, <2>3
<1>3. \A i \in 1..n : keys[i] \in P
  <2> HIDE DEF P, n
  <2> QED BY <1>2
<1>4. keys \in Seq(Tag)
  <2> HIDE DEF P, n
  <2> QED BY <1>1, <1>2
<1>5. MultiFind(data, keys) = {r \in data[keys[1]] : \A i \in 1..n : r \in data[keys[i]]}
  <2> HIDE DEF P, n, data
  <2> QED BY <1>2, <1>4, RulesOfAllKeys
<1>6. \A t \in Tag : data[t] = {r \in DOMAIN rules : t \in Pairs(rules[r].tags)}
  BY MapOfRules DEF ByTags
<1> HIDE DEF P, n, data
<1>7. {r \in data[keys[1]] : \A i \in 1..n : r \in data[keys[i]]}
        = {r \in DOMAIN rules : \A t \in P : t \in Pairs(rules[r].tags)}
  <2>1. ASSUME NEW r
        PROVE  (r \in data[keys[1]] /\ \A i \in 1..n : r \in data[keys[i]])
                 <=> (r \in DOMAIN rules /\ \A t \in P : t \in Pairs(rules[r].tags))
    <3>1. 1 \in 1..n /\ keys[1] \in Tag
      BY <1>1, <1>2, <1>3
    <3>2. (\A i \in 1..n : r \in data[keys[i]]) <=> (\A t \in P : r \in data[t])
      BY <1>2, <1>3
    <3>3. (\A t \in P : r \in data[t])
            <=> (\A t \in P : r \in DOMAIN rules /\ t \in Pairs(rules[r].tags))
      BY <1>1, <1>6
    <3>4. r \in data[keys[1]] => r \in DOMAIN rules
      BY <1>6, <3>1
    <3>5. (\A i \in 1..n : r \in data[keys[i]]) => r \in data[keys[1]]
      BY <3>1
    <3>6. P # {}
      BY <1>1
    <3> QED BY <3>2, <3>3, <3>4, <3>5, <3>6
  <2> QED BY <2>1
<1>8. {r \in DOMAIN rules : \A t \in P : t \in Pairs(rules[r].tags)}
        = {r \in DOMAIN rules : P \subseteq Pairs(rules[r].tags)}
  OBVIOUS
<1> QED BY <1>5, <1>7, <1>8 DEF P, data

\* The rules that a scope means.
Meant(scope, rules) ==
    {r \in DOMAIN rules : \/ scope.ids = {} /\ scope.tags = {}
                          \/ r \in scope.ids
                          \/ \E tags \in scope.tags : Pairs(tags) \subseteq Pairs(rules[r].tags)}

LEMMA ScopeMeant ==
  ASSUME NEW rules, IsFiniteSet(DOMAIN rules), NEW scope \in Scope
  PROVE  InScope(scope, rules) = Meant(scope, rules)
<1>1. ASSUME NEW tags \in scope.tags
      PROVE  MultiFind(RulesByTags(rules), SetToSeq(Pairs(tags)))
               = {r \in DOMAIN rules : Pairs(tags) \subseteq Pairs(rules[r].tags)}
  <2>1. tags \in Tags \ {<<>>}
    BY DEF Scope
  <2>2. SetToSeq(Pairs(tags)) \in SetToSeqs(Pairs(tags))
    BY <2>1, FiniteTags, InSomeOrder
  <2> QED BY <2>1, <2>2, FoundByTags
<1>2. UNION {MultiFind(RulesByTags(rules), SetToSeq(Pairs(tags))) : tags \in scope.tags}
        = {r \in DOMAIN rules : \E tags \in scope.tags : Pairs(tags) \subseteq Pairs(rules[r].tags)}
  BY <1>1
<1> QED BY <1>2 DEF InScope, Meant

\* It depends on the tags of the rules only.
LEMMA SameMeaning ==
  ASSUME NEW rules, NEW others, DOMAIN rules = DOMAIN others,
         \A r \in DOMAIN rules : rules[r].tags = others[r].tags,
         NEW scope
  PROVE  Meant(scope, rules) = Meant(scope, others)
BY DEF Meant

-----------------------------------------------------------------------------
(* The documents, and the rulesets published *)

IsSeq(s) == s \in Seq({s[i] : i \in DOMAIN s})

LEMMA Appended ==
  ASSUME NEW s, IsSeq(s), NEW e
  PROVE  /\ IsSeq(Append(s, e))
         /\ Len(s) \in Nat /\ Len(Append(s, e)) = Len(s) + 1
         /\ DOMAIN s = 1..Len(s) /\ DOMAIN Append(s, e) = 1..(Len(s) + 1)
         /\ \A i \in DOMAIN s : Append(s, e)[i] = s[i]
         /\ Append(s, e)[Len(s) + 1] = e
         /\ Append(s, e) # <<>>
<1> DEFINE E == {s[i] : i \in DOMAIN s} \cup {e}
           t == Append(s, e)
<1>1. s \in Seq(E)
  BY DEF IsSeq
<1> HIDE DEF E
<1>2. /\ t \in Seq(E)
      /\ Len(s) \in Nat /\ Len(t) = Len(s) + 1
      /\ DOMAIN s = 1..Len(s) /\ DOMAIN t = 1..(Len(s) + 1)
      /\ \A i \in DOMAIN s : t[i] = s[i]
      /\ t[Len(s) + 1] = e
  BY <1>1 DEF E
<1>3. IsSeq(t)
  <2> HIDE DEF t
  <2>1. Len(t) \in Nat /\ t \in [1..Len(t) -> E]
    BY <1>2
  <2>2. t \in [1..Len(t) -> {t[i] : i \in DOMAIN t}]
    BY <2>1
  <2> QED BY <2>1, <2>2 DEF IsSeq
<1>4. t # <<>>
  BY <1>2
<1> QED BY <1>2, <1>3, <1>4

LEMMA Documents ==
  ASSUME corpus \in Corpora, NEW u \in Document(corpus)
  PROVE  /\ Has(u.rules) => u.rules.nodes \in Seq(RuleNode)
         /\ Has(u.overrides) => u.overrides.nodes \in Seq(OverrideNode)
         /\ Has(u.exclusions) => u.exclusions.nodes \in Seq(FilterNode)
<1>1. /\ u.rules \in corpus.rules /\ u.overrides \in corpus.overrides
      /\ u.exclusions \in corpus.exclusions
  BY DEF Document
<1>2. /\ Has(u.rules) => u.rules \in Key(RuleNode)
      /\ Has(u.overrides) => u.overrides \in Key(OverrideNode)
      /\ Has(u.exclusions) => u.exclusions \in Key(FilterNode)
  BY <1>1, CorpusAssumption DEF Has
<1> QED BY <1>2 DEF Key

LEMMA FiniteRules ==
  ASSUME NEW nodes \in Seq(RuleNode), NEW m
  PROVE  IsFiniteSet(DOMAIN ParsedRules(nodes, m))
<1> DEFINE I == Parsed(nodes)
           D == {nodes[i].id : i \in I}
           f == [i \in I |-> nodes[i].id]
<1>1. IsFiniteSet(I)
  <2>1. IsFiniteSet(1..Len(nodes))
    BY FS_Interval
  <2>2. I \in SUBSET (1..Len(nodes))
    BY DEF Parsed, Tried
  <2> HIDE DEF I
  <2> QED BY <2>1, <2>2, FS_Subset
<1>2. IsFiniteSet(D)
  <2>1. f \in Surjection(I, D)
    BY DEF Surjection
  <2> HIDE DEF f, D, I
  <2> QED BY <1>1, <2>1, FS_Surjection
<1>3. DOMAIN ParsedRules(nodes, m) = D
  BY DEF ParsedRules
<1> QED BY <1>2, <1>3

ListsInv ==
    /\ corpus \in Corpora
    /\ IsSeq(heap) /\ IsSeq(published)
    /\ \A i \in DOMAIN published : published[i].generation \in DOMAIN heap
    /\ baseRules # Nothing => published # <<>>
    /\ IsFiniteSet(DOMAIN baseRules)
    /\ \A g \in DOMAIN heap : IsFiniteSet(DOMAIN heap[g])
    /\ \A i \in DOMAIN overrides : overrides[i].scope \in Scope
    /\ \A f \in exclusions : f.scope \in Scope

LEMMA AfterRules ==
  ASSUME ListsInv, NEW u \in Document(corpus), KeepRules(u)
  PROVE  IsFiniteSet(DOMAIN baseRules')
<1>1. CASE Has(u.rules)
  <2>1. u.rules.nodes \in Seq(RuleNode)
    BY <1>1, Documents DEF ListsInv
  <2>2. baseRules' = ParsedRules(u.rules.nodes, Extended(RuleAddresses(u.rules)))
    BY <1>1 DEF KeepRules
  <2> QED BY <2>1, <2>2, FiniteRules
<1>2. CASE ~Has(u.rules)
  BY <1>2 DEF KeepRules, ListsInv
<1> QED BY <1>1, <1>2

LEMMA AfterOverrides ==
  ASSUME ListsInv, NEW u \in Document(corpus), KeepOverrides(u)
  PROVE  \A i \in DOMAIN overrides' : overrides'[i].scope \in Scope
<1>1. CASE ChangesOverrides(u)
  <2>1. u.overrides.nodes \in Seq(OverrideNode)
    BY <1>1, Documents DEF ListsInv, ChangesOverrides
  <2>2. overrides' = ValidOverrides(u.overrides.nodes)
    BY <1>1 DEF KeepOverrides
  <2>3. \A i \in DOMAIN u.overrides.nodes : u.overrides.nodes[i].scope \in Scope
    <3>1. \A i \in DOMAIN u.overrides.nodes : u.overrides.nodes[i] \in OverrideNode
      BY <2>1
    <3>2. \A n \in OverrideNode : n.scope \in Scope
      BY DEF OverrideNode
    <3> QED BY <3>1, <3>2
  <2> QED BY <2>2, <2>3 DEF ValidOverrides, Restrict
<1>2. CASE ~ChangesOverrides(u)
  BY <1>2 DEF KeepOverrides, ListsInv
<1> QED BY <1>1, <1>2

AFilter(n, seen, m) ==
    [kind |-> n.kind, scope |-> n.scope, conditions |-> Targets(n.conditions, m),
     inputs |-> IF n.kind = "input" THEN Targets(n.inputs \cap seen, m) ELSE {}]
KnownBy(nodes, i, known) ==
    known \cup (UNION {nodes[j].conditions : j \in {k \in Tried(nodes) : k <= i}})

LEMMA FilterIsParsed ==
  \A nodes, m, known :
      ParsedFilters(nodes, m, known)
        = {AFilter(nodes[i], KnownBy(nodes, i, known), m) : i \in Parsed(nodes)}
BY Zenon DEF ParsedFilters, AFilter, KnownBy

LEMMA AfterFilters ==
  ASSUME ListsInv, NEW u \in Document(corpus), KeepFilters(u)
  PROVE  \A f \in exclusions' : f.scope \in Scope
<1>1. CASE ChangesFilters(u)
  <2>1. u.exclusions.nodes \in Seq(FilterNode)
    BY <1>1, Documents DEF ListsInv, ChangesFilters
  <2>2. \A i \in DOMAIN u.exclusions.nodes : u.exclusions.nodes[i].scope \in Scope
    <3>1. \A i \in DOMAIN u.exclusions.nodes : u.exclusions.nodes[i] \in FilterNode
      BY <2>1
    <3>2. \A n \in FilterNode : n.scope \in Scope
      BY DEF FilterNode
    <3> QED BY <3>1, <3>2
  <2>3. ASSUME NEW nodes, NEW m, NEW known, NEW f \in ParsedFilters(nodes, m, known)
        PROVE  \E i \in DOMAIN nodes : f.scope = nodes[i].scope
    <3>1. PICK i \in Parsed(nodes) : f = AFilter(nodes[i], KnownBy(nodes, i, known), m)
      BY FilterIsParsed
    <3>2. i \in DOMAIN nodes
      BY <3>1 DEF Parsed, Tried
    <3> QED BY <3>1, <3>2 DEF AFilter
  <2>4. \E m, known : exclusions' = ParsedFilters(u.exclusions.nodes, m, known)
    BY <1>1 DEF KeepFilters
  <2> QED BY <2>2, <2>3, <2>4
<1>2. CASE ~ChangesFilters(u)
  BY <1>2 DEF KeepFilters, ListsInv
<1> QED BY <1>1, <1>2

\* What a new ruleset adds to the lists: the generations and the rulesets of
\* before stay as they are.
LEMMA Added ==
  ASSUME ListsInv, NEW u \in Document(corpus), Publish(u)
  PROVE  /\ IsSeq(heap') /\ DOMAIN heap \subseteq DOMAIN heap'
         /\ \A g \in DOMAIN heap : heap'[g] = heap[g]
         /\ Len(heap') \in DOMAIN heap'
         /\ IF Has(u.rules) \/ ChangesOverrides(u)
            THEN /\ DOMAIN heap' = DOMAIN heap \cup {Len(heap')}
                 /\ Latest(heap') = Generation(baseRules', overrides')
            ELSE heap' = heap /\ heap # <<>>
         /\ IsSeq(published') /\ published' # <<>>
         /\ DOMAIN published' = DOMAIN published \cup {Len(published')}
         /\ \A i \in DOMAIN published : published'[i] = published[i]
         /\ LastPublished' = [manifest |-> manifest', generation |-> Len(heap'),
                              processors |-> processors', filters |-> filters']
<1> DEFINE new == [manifest |-> manifest', generation |-> Len(heap'),
                   processors |-> processors', filters |-> filters']
<1>1. IsSeq(heap) /\ IsSeq(published) /\ published' = Append(published, new) /\ Regenerate(u)
  BY DEF ListsInv, Publish
<1>2. /\ IsSeq(published') /\ published' # <<>>
      /\ DOMAIN published' = DOMAIN published \cup {Len(published')}
      /\ \A i \in DOMAIN published : published'[i] = published[i]
      /\ published'[Len(published')] = new
  <2> HIDE DEF new
  <2>1. /\ Len(published) \in Nat /\ Len(published') = Len(published) + 1
        /\ DOMAIN published = 1..Len(published) /\ DOMAIN published' = 1..(Len(published) + 1)
        /\ published'[Len(published) + 1] = new
    BY <1>1, Appended
  <2>2. 1..(Len(published) + 1) = (1..Len(published)) \cup {Len(published) + 1}
    BY <2>1
  <2>3. DOMAIN published' = DOMAIN published \cup {Len(published')}
    BY <2>1, <2>2
  <2>4. published'[Len(published')] = new
    BY <2>1
  <2> QED BY <1>1, <2>3, <2>4, Appended
<1>3. CASE Has(u.rules) \/ ChangesOverrides(u)
  <2> DEFINE g == Generation(baseRules', overrides')
  <2>1. heap' = Append(heap, g)
    BY <1>1, <1>3 DEF Regenerate
  <2> HIDE DEF g
  <2>2. /\ Len(heap) \in Nat /\ Len(heap') = Len(heap) + 1
        /\ DOMAIN heap = 1..Len(heap) /\ DOMAIN heap' = 1..(Len(heap) + 1)
        /\ heap'[Len(heap) + 1] = g /\ IsSeq(heap')
        /\ \A i \in DOMAIN heap : heap'[i] = heap[i]
    BY <1>1, <2>1, Appended
  <2>3. DOMAIN heap' = DOMAIN heap \cup {Len(heap')} /\ Len(heap') \in DOMAIN heap'
    <3>1. 1..(Len(heap) + 1) = (1..Len(heap)) \cup {Len(heap) + 1}
      BY <2>2
    <3> QED BY <2>2, <3>1
  <2>4. Latest(heap') = g
    BY <2>2 DEF Latest
  <2> QED BY <1>2, <1>3, <2>2, <2>3, <2>4 DEF g, LastPublished
<1>4. CASE ~(Has(u.rules) \/ ChangesOverrides(u))
  <2>1. heap' = heap
    BY <1>1, <1>4 DEF Regenerate
  <2>2. baseRules # Nothing
    BY <1>4 DEF Publish, Fails, RulesFail
  <2>3. published # <<>> /\ \A i \in DOMAIN published : published[i].generation \in DOMAIN heap
    BY <2>2 DEF ListsInv
  <2>4. heap # <<>> /\ Len(heap) \in DOMAIN heap
    <3>1. Len(published) \in Nat /\ DOMAIN published = 1..Len(published)
      BY <1>1 DEF IsSeq
    <3>2. Len(published) # 0
      BY <1>1, <2>3 DEF IsSeq
    <3>3. 1 \in DOMAIN published
      BY <3>1, <3>2
    <3>4. DOMAIN heap = 1..Len(heap) /\ Len(heap) \in Nat
      BY <1>1 DEF IsSeq
    <3> QED BY <2>3, <3>3, <3>4
  <2> QED BY <1>1, <1>2, <1>4, <2>1, <2>4 DEF LastPublished
<1> QED BY <1>3, <1>4

AbandonedUpdate(u) == FailInRules(u) \/ FailInData(u) \/ FailInOverrides(u) \/ FailInExclusions(u)

\* An update that is abandoned or publishes nothing leaves the rulesets alone.
LEMMA NothingBuilt ==
  ASSUME NEW u, AbandonedUpdate(u) \/ NoHandle(u) \/ Ignore(u)
  PROVE  heap' = heap /\ filters' = filters /\ published' = published
BY DEF AbandonedUpdate, FailInRules, FailInData, FailInOverrides, FailInExclusions, Abandon,
       NoHandle, Ignore, builtVars

LEMMA AfterAbandon ==
  ASSUME ListsInv, NEW u \in Document(corpus), AbandonedUpdate(u)
  PROVE  /\ published # <<>> /\ corpus' = corpus
         /\ IsFiniteSet(DOMAIN baseRules')
         /\ \A i \in DOMAIN overrides' : overrides'[i].scope \in Scope
         /\ exclusions' = exclusions
<1> USE DEF Abandon, Load
<1>1. CASE FailInRules(u)
  BY <1>1 DEF FailInRules, ListsInv
<1>2. CASE FailInData(u)
  BY <1>2, AfterRules DEF FailInData, ListsInv
<1>3. CASE FailInOverrides(u)
  BY <1>3, AfterRules DEF FailInOverrides, ListsInv
<1>4. CASE FailInExclusions(u)
  BY <1>4, AfterRules, AfterOverrides DEF FailInExclusions
<1> QED BY <1>1, <1>2, <1>3, <1>4 DEF AbandonedUpdate

LEMMA ListsInit == Init => ListsInv
<1> SUFFICES ASSUME Init PROVE ListsInv
  OBVIOUS
<1>1. IsSeq(<<>>)
  BY DEF IsSeq
<1>2. DOMAIN Nothing = {} /\ IsFiniteSet({})
  BY FS_EmptySet DEF Nothing
<1>3. heap = <<>> /\ published = <<>> /\ baseRules = Nothing /\ overrides = Nothing
      /\ exclusions = {} /\ corpus \in Corpora
  BY DEF Init
<1>4. DOMAIN heap = {} /\ DOMAIN published = {}
  BY <1>3
<1> QED BY <1>1, <1>2, <1>3, <1>4 DEF ListsInv

LEMMA ListsNext == ListsInv /\ [Next]_vars => ListsInv'
<1> SUFFICES ASSUME ListsInv, [Next]_vars PROVE ListsInv'
  OBVIOUS
<1>1. ASSUME NEW u \in Document(corpus), AbandonedUpdate(u)
      PROVE  ListsInv'
  BY <1>1, NothingBuilt, AfterAbandon DEF ListsInv
<1>2. ASSUME NEW u \in Document(corpus), NoHandle(u)
      PROVE  ListsInv'
  BY <1>2, NothingBuilt DEF ListsInv, NoHandle, Load
<1>3. ASSUME NEW u \in Document(corpus), Ignore(u)
      PROVE  ListsInv'
  BY <1>3, NothingBuilt DEF ListsInv, Ignore, Load
<1>4. ASSUME NEW u \in Document(corpus), Publish(u)
      PROVE  ListsInv'
  <2>1. /\ corpus' = corpus /\ IsFiniteSet(DOMAIN baseRules')
        /\ \A i \in DOMAIN overrides' : overrides'[i].scope \in Scope
        /\ \A f \in exclusions' : f.scope \in Scope
    BY <1>4, AfterRules, AfterOverrides, AfterFilters DEF Publish, Load
  <2>2. \A g \in DOMAIN heap' : IsFiniteSet(DOMAIN heap'[g])
    <3>1. CASE Has(u.rules) \/ ChangesOverrides(u)
      <4>1. DOMAIN Latest(heap') = DOMAIN baseRules'
        BY <1>4, <3>1, Added DEF Generation
      <4> QED BY <1>4, <2>1, <3>1, <4>1, Added DEF ListsInv, Latest
    <3>2. CASE ~(Has(u.rules) \/ ChangesOverrides(u))
      BY <1>4, <3>2, Added DEF ListsInv
    <3> QED BY <3>1, <3>2
  <2>3. \A i \in DOMAIN published' : published'[i].generation \in DOMAIN heap'
    BY <1>4, Added DEF ListsInv, LastPublished
  <2> QED BY <1>4, <2>1, <2>2, <2>3, Added DEF ListsInv
<1>5. CASE UNCHANGED vars
  BY <1>5 DEF ListsInv, vars, builtVars
<1> QED BY <1>1, <1>2, <1>3, <1>4, <1>5 DEF Next, AbandonedUpdate

LEMMA Lists == Spec => []ListsInv
BY ListsInit, ListsNext, PTL DEF Spec

-----------------------------------------------------------------------------
(* Rulesets in use *)

\* An update, whatever happens to it, changes no ruleset that was published
\* before, nor any rule object that a context may still be evaluating.
THEOREM RulesetsUndisturbed == Spec => NoSideEffects
<1> DEFINE Undisturbed == \A i \in DOMAIN published :
         published'[i] = published[i] /\ heap'[published[i].generation] = Rules(published[i])
<1>1. ASSUME ListsInv, [Next]_vars
      PROVE  Undisturbed
  <2>1. ASSUME NEW u \in Document(corpus), Publish(u)
        PROVE  Undisturbed
    BY <1>1, <2>1, Added DEF ListsInv, Rules
  <2>2. CASE UNCHANGED vars
    BY <2>2 DEF vars, builtVars, Rules
  <2> QED BY <1>1, <2>1, <2>2, NothingBuilt DEF Next, AbandonedUpdate, Rules
<1>2. ListsInv /\ [Next]_vars => [Undisturbed]_vars
  BY <1>1
<1> QED
  BY <1>2, Lists, PTL DEF Spec, NoSideEffects

\* The scope of an override or a filter, whatever its number of tags and the
\* order they come in, is about the rules that have all the tags of one of
\* its sets.
THEOREM ScopesCorrect == Spec => []ScopeMeansAllItsTags
<1>1. ASSUME ListsInv
      PROVE  ScopeMeansAllItsTags
  <2> DEFINE rules == [r \in DOMAIN Latest(heap) |-> Latest(heap)[r].spec]
  <2> SUFFICES ASSUME heap # <<>>, NEW tags \in AskedFor, NEW keys \in SetToSeqs(Pairs(tags))
               PROVE  MultiFind(RulesByTags(rules), keys)
                        = {r \in DOMAIN rules : Pairs(tags) \subseteq Pairs(rules[r].tags)}
    BY DEF ScopeMeansAllItsTags
  <2>1. tags \in Tags \ {<<>>}
    <3>1. PICK scope \in Scope : tags \in scope.tags
      BY <1>1 DEF ListsInv, AskedFor
    <3> QED BY <3>1 DEF Scope
  <2>2. IsFiniteSet(DOMAIN rules)
    <3>1. Len(heap) \in DOMAIN heap
      BY <1>1 DEF ListsInv, IsSeq
    <3>2. DOMAIN rules = DOMAIN heap[Len(heap)]
      BY DEF Latest
    <3>3. IsFiniteSet(DOMAIN heap[Len(heap)])
      BY <1>1, <3>1 DEF ListsInv
    <3> HIDE DEF rules
    <3> QED BY <3>2, <3>3
  <2> HIDE DEF rules
  <2> QED BY <2>1, <2>2, FoundByTags
<1> QED BY <1>1, Lists, PTL

PointersInv ==
    /\ \A f \in filters : f.rules \subseteq {<<Len(heap), r>> : r \in DOMAIN Latest(heap)}
    /\ FiltersPointToOwnRules

\* New filters point to the rules of the generation they are built on.
LEMMA NewPointers ==
  ASSUME ListsInv, ListsInv', NEW u \in Document(corpus), Publish(u),
         NEW f \in exclusions'
  PROVE  Built(f, heap').rules \subseteq {<<Len(heap'), r>> : r \in DOMAIN Latest(heap')}
<1> DEFINE rules == [r \in DOMAIN Latest(heap') |-> Latest(heap')[r].spec]
<1>1. Built(f, heap').rules = {<<Len(heap'), r>> : r \in InScope(f.scope, rules)}
  BY DEF Built
<1>2. IsFiniteSet(DOMAIN rules) /\ f.scope \in Scope
  BY Added DEF ListsInv, Latest
<1>3. InScope(f.scope, rules) \subseteq DOMAIN rules
  <2> HIDE DEF rules
  <2> QED BY <1>2, ScopeMeant DEF Meant
<1> QED BY <1>1, <1>3

LEMMA PointersNext == ListsInv /\ ListsInv' /\ PointersInv /\ [Next]_vars => PointersInv'
<1> SUFFICES ASSUME ListsInv, ListsInv', PointersInv, [Next]_vars PROVE PointersInv'
  OBVIOUS
<1>1. CASE heap' = heap /\ filters' = filters /\ published' = published
  BY <1>1 DEF PointersInv, FiltersPointToOwnRules, Rules
<1>2. ASSUME NEW u \in Document(corpus), Publish(u)
      PROVE  PointersInv'
  <2>1. \A f \in filters' : f.rules \subseteq {<<Len(heap'), r>> : r \in DOMAIN Latest(heap')}
    <3>1. CASE Has(u.rules) \/ ChangesOverrides(u) \/ ChangesFilters(u)
      <4>1. filters' = {Built(f, heap') : f \in exclusions'}
        BY <1>2, <3>1 DEF Publish, RebuildFilters
      <4> QED BY <1>2, <4>1, NewPointers
    <3>2. CASE ~(Has(u.rules) \/ ChangesOverrides(u) \/ ChangesFilters(u))
      <4>1. filters' = filters
        BY <1>2, <3>2 DEF Publish, RebuildFilters
      <4>2. heap' = heap
        BY <1>2, <3>2, Added
      <4> QED BY <4>1, <4>2 DEF PointersInv
    <3> QED BY <3>1, <3>2
  <2>2. ASSUME NEW i \in DOMAIN published', NEW f \in published'[i].filters
        PROVE  f.rules \subseteq {<<published'[i].generation, r>> : r \in DOMAIN heap'[published'[i].generation]}
    <3>1. CASE i \in DOMAIN published
      BY <1>2, <2>2, <3>1, Added DEF PointersInv, FiltersPointToOwnRules, Rules, ListsInv
    <3>2. CASE i = Len(published')
      <4>1. published'[i].generation = Len(heap') /\ published'[i].filters = filters'
        BY <1>2, <3>2, Added DEF LastPublished
      <4> QED BY <2>1, <2>2, <4>1 DEF Latest
    <3> QED BY <1>2, <3>1, <3>2, Added
  <2> QED BY <2>1, <2>2 DEF PointersInv, FiltersPointToOwnRules, Rules
<1> QED BY <1>1, <1>2, NothingBuilt DEF Next, AbandonedUpdate, vars, builtVars

\* The filters of every ruleset published point to rules of that ruleset.
THEOREM PointersCorrect == Spec => []FiltersPointToOwnRules
<1>1. Init => PointersInv
  BY DEF Init, PointersInv, FiltersPointToOwnRules
<1>2. PointersInv => FiltersPointToOwnRules
  BY DEF PointersInv
<1> QED BY <1>1, <1>2, PointersNext, Lists, PTL DEF Spec

-----------------------------------------------------------------------------
(* What is in use, while no update has failed *)

\* The last generation is made of the rules and overrides kept last, and the
\* filters built from those kept last.
BuiltInv ==
    ~failed /\ heap # <<>> =>
        /\ Latest(heap) = Generation(baseRules, overrides)
        /\ filters = {Built(f, heap) : f \in exclusions}

LEMMA BuiltNext == ListsInv /\ BuiltInv /\ [Next]_vars => BuiltInv'
<1> SUFFICES ASSUME ListsInv, BuiltInv, [Next]_vars PROVE BuiltInv'
  OBVIOUS
<1>1. ASSUME NEW u, AbandonedUpdate(u)
      PROVE  BuiltInv'
  <2>1. failed'
    BY <1>1 DEF AbandonedUpdate, FailInRules, FailInData, FailInOverrides, FailInExclusions, Abandon
  <2> QED BY <2>1 DEF BuiltInv
<1>2. ASSUME NEW u, NoHandle(u) \/ Ignore(u)
      PROVE  BuiltInv'
  <2>1. UNCHANGED <<heap, filters, baseRules, overrides, exclusions>>
    BY <1>2, NothingBuilt DEF NoHandle, Ignore
  <2>2. ~failed' => ~failed
    BY <1>2 DEF NoHandle, Ignore
  <2> QED BY <2>1, <2>2 DEF BuiltInv
<1>3. ASSUME NEW u \in Document(corpus), Publish(u)
      PROVE  BuiltInv'
  <2> SUFFICES ASSUME ~failed'
               PROVE  /\ Latest(heap') = Generation(baseRules', overrides')
                      /\ filters' = {Built(f, heap') : f \in exclusions'}
    BY DEF BuiltInv
  <2>1. ~failed
    BY <1>3 DEF Publish
  <2>2. CASE Has(u.rules) \/ ChangesOverrides(u)
    BY <1>3, <2>2, Added DEF Publish, RebuildFilters
  <2>3. CASE ~(Has(u.rules) \/ ChangesOverrides(u))
    <3>1. heap' = heap /\ heap # <<>>
      BY <1>3, <2>3, Added
    <3>2. baseRules' = baseRules /\ overrides' = overrides
      BY <1>3, <2>3 DEF Publish, KeepRules, KeepOverrides
    <3>3. Latest(heap') = Generation(baseRules', overrides')
      BY <2>1, <3>1, <3>2 DEF BuiltInv
    <3>4. filters' = {Built(f, heap') : f \in exclusions'}
      <4>1. CASE ChangesFilters(u)
        BY <1>3, <4>1 DEF Publish, RebuildFilters
      <4>2. CASE ~ChangesFilters(u)
        <5>1. exclusions' = exclusions /\ filters' = filters
          BY <1>3, <2>3, <4>2 DEF Publish, KeepFilters, RebuildFilters
        <5> QED BY <2>1, <3>1, <5>1 DEF BuiltInv
      <4> QED BY <4>1, <4>2
    <3> QED BY <3>3, <3>4
  <2> QED BY <2>2, <2>3
<1>4. CASE UNCHANGED vars
  BY <1>4 DEF BuiltInv, vars, builtVars
<1> QED BY <1>1, <1>2, <1>3, <1>4 DEF Next, AbandonedUpdate

LEMMA BuiltCorrectly == Spec => []BuiltInv
<1>1. Init => BuiltInv
  BY DEF Init, BuiltInv
<1> QED BY <1>1, BuiltNext, Lists, PTL DEF Spec

\* The targets a manifest gives, and those that rules and filters use.
Entries(m) == {<<a, m[a]>> : a \in {b \in Address : m[b] # 0}}
Needed(base, excl) == (UNION {base[r].targets : r \in DOMAIN base}) \cup UsedByFilters(excl)

ManifestType == manifest \in [Address -> Nat] /\ inserted \in [Address -> Nat]

ManifestInv ==
    /\ ManifestType
    /\ ~failed => /\ Needed(baseRules, exclusions) \subseteq Entries(manifest)
                  /\ published # <<>> =>
                       {a \in Address : manifest[a] # 0} \subseteq Names(Needed(baseRules, exclusions))
                  /\ TargetsAlwaysKnown
                  /\ \A i \in DOMAIN published : Known(published[i]) \subseteq Names(Used(published[i]))

\* What manifest::insert does to the addresses A, and to the others.
LEMMA AddressesInserted ==
  ASSUME ManifestType, NEW A
  PROVE  /\ Extended(A) \in [Address -> Nat]
         /\ Count(A) => inserted' \in [Address -> Nat]
         /\ \A a \in Address : manifest[a] # 0 => Extended(A)[a] = manifest[a]
         /\ \A a \in Address : a \in A \/ manifest[a] # 0 => Extended(A)[a] # 0
         /\ A = {} => Extended(A) = manifest
BY DEF Extended, New, Count, ManifestType

\* A target stays the one it was given first, whatever is inserted with it.
LEMMA SameTarget ==
  ASSUME ManifestType, NEW A, NEW B, A \subseteq B, NEW T, T \subseteq A, T \subseteq Address
  PROVE  Targets(T, Extended(A)) \subseteq Entries(Extended(B))
<1>1. \A a \in T : Extended(A)[a] = Extended(B)[a] /\ Extended(B)[a] # 0
  BY DEF Extended, New, ManifestType
<1> QED BY <1>1 DEF Targets, Entries

\* The targets of rules just parsed are in the manifest they were parsed with.
LEMMA TargetsOfRules ==
  ASSUME ListsInv, ManifestType, NEW u \in Document(corpus), Has(u.rules), KeepRules(u),
         NEW B, RuleAddresses(u.rules) \subseteq B,
         NEW r \in DOMAIN baseRules'
  PROVE  baseRules'[r].targets \subseteq Entries(Extended(B))
<1> DEFINE nodes == u.rules.nodes
           A == RuleAddresses(u.rules)
           I == {i \in Parsed(nodes) : nodes[i].id = r}
           n == nodes[Min(I)]
<1>1. nodes \in Seq(RuleNode)
  BY Documents DEF ListsInv
<1>2. baseRules' = ParsedRules(nodes, Extended(A))
  BY DEF KeepRules
<1>3. baseRules'[r].targets = Targets(n.targets, Extended(A)) /\ I # {}
  BY <1>2 DEF ParsedRules
<1>4. I \subseteq DOMAIN nodes /\ I \in SUBSET Nat
  BY <1>1 DEF Parsed, Tried
<1>5. Min(I) \in Tried(nodes) /\ Min(I) \in DOMAIN nodes
  <2> HIDE DEF nodes
  <2>1. Min(I) \in I
    <3> HIDE DEF I
    <3> QED BY <1>3, <1>4, MinIsLeast
  <2> QED BY <1>4, <2>1 DEF Parsed
<1>6. n.targets \subseteq Address
  <2> HIDE DEF nodes, I
  <2>1. nodes[Min(I)] \in RuleNode
    BY <1>1, <1>5
  <2> QED BY <2>1 DEF RuleNode
<1>7. n.targets \subseteq A
  <2> HIDE DEF I
  <2> QED BY <1>5 DEF RuleAddresses
<1> HIDE DEF A, n
<1> QED BY <1>3, <1>6, <1>7, SameTarget DEF A

\* So are those of filters just parsed: an input is kept when its address is
\* known already, and a condition inserts its own.
LEMMA TargetsOfFilters ==
  ASSUME ListsInv, ManifestType, NEW u \in Document(corpus), ChangesFilters(u), KeepFilters(u),
         NEW f \in exclusions'
  PROVE  f.conditions \cup f.inputs
           \subseteq Entries(Extended(RuleAddresses(u.rules) \cup FilterAddresses(u.exclusions)))
<1> DEFINE nodes == u.exclusions.nodes
           named == RuleAddresses(u.rules)
           A == named \cup FilterAddresses(u.exclusions)
           known == named \cup {a \in Address : manifest[a] # 0}
<1>1. nodes \in Seq(FilterNode) /\ Has(u.exclusions)
  BY Documents DEF ListsInv, ChangesFilters
<1>2. exclusions' = ParsedFilters(nodes, Extended(A), known)
  BY DEF KeepFilters
<1>3. PICK i \in Parsed(nodes) : f = AFilter(nodes[i], KnownBy(nodes, i, known), Extended(A))
  <2> HIDE DEF nodes, A, known
  <2> QED BY <1>2, FilterIsParsed
<1>4. i \in Tried(nodes) /\ i \in DOMAIN nodes
  BY DEF Parsed, Tried
<1>5. nodes[i].conditions \subseteq Address /\ nodes[i].inputs \subseteq Address
  <2> HIDE DEF nodes
  <2>1. nodes[i] \in FilterNode
    BY <1>1, <1>4
  <2> QED BY <2>1 DEF FilterNode
<1>6. FilterAddresses(u.exclusions) = UNION {nodes[j].conditions : j \in Tried(nodes)}
  BY <1>1 DEF FilterAddresses
<1>7. nodes[i].conditions \subseteq A
  BY <1>4, <1>6
<1>8. KnownBy(nodes, i, known) \subseteq A \cup {a \in Address : manifest[a] # 0}
  BY <1>6 DEF KnownBy
<1> HIDE DEF nodes, A, known
<1>9. ASSUME NEW a \in Address, a \in A \/ manifest[a] # 0
      PROVE  <<a, Extended(A)[a]>> \in Entries(Extended(A))
  BY <1>9, AddressesInserted DEF Entries
<1>10. Targets(nodes[i].conditions, Extended(A)) \subseteq Entries(Extended(A))
  BY <1>5, <1>7, <1>9 DEF Targets
<1>11. Targets(nodes[i].inputs \cap KnownBy(nodes, i, known), Extended(A)) \subseteq Entries(Extended(A))
  BY <1>5, <1>8, <1>9 DEF Targets
<1>12. f.conditions \cup f.inputs \subseteq Entries(Extended(A))
  BY <1>3, <1>10, <1>11 DEF AFilter
<1> QED BY <1>12 DEF A

\* The rules and filters in use need what those kept last need.
LEMMA NeedOfBuilt ==
  ASSUME NEW h, NEW base, NEW ovrds, NEW excl,
         Latest(h) = Generation(base, ovrds)
  PROVE  UsedByRules(h) \cup UsedByFilters({Built(f, h) : f \in excl}) = Needed(base, excl)
<1>1. UsedByRules(h) = UNION {base[r].targets : r \in DOMAIN base}
  BY DEF UsedByRules, Generation
<1>2. \A f : Built(f, h).conditions = f.conditions /\ Built(f, h).inputs = f.inputs
  BY DEF Built
<1>3. UsedByFilters({Built(f, h) : f \in excl}) = UsedByFilters(excl)
  BY <1>2 DEF UsedByFilters
<1> QED BY <1>1, <1>3 DEF Needed

\* The manifest that a new ruleset is published with.
LEMMA ManifestCleaned ==
  ASSUME ListsInv, BuiltInv', ManifestInv, NEW u \in Document(corpus), Publish(u), ~failed'
  PROVE  /\ Needed(baseRules', exclusions') = UsedByRules(heap') \cup UsedByFilters(filters')
         /\ Needed(baseRules', exclusions') \subseteq Entries(manifest')
         /\ {a \in Address : manifest'[a] # 0} \subseteq Names(Needed(baseRules', exclusions'))
<1> DEFINE A == RuleAddresses(u.rules) \cup FilterAddresses(u.exclusions)
           m == Extended(A)
           need == Needed(baseRules', exclusions')
<1>1. /\ ~failed /\ ~InvalidFilters(u) /\ ManifestType
      /\ KeepRules(u) /\ KeepFilters(u) /\ CleanManifest(u, m)
  BY DEF Publish, ManifestInv
<1>2. Needed(baseRules, exclusions) \subseteq Entries(manifest)
  BY <1>1 DEF ManifestInv
<1>3. heap' # <<>>
  BY Added
<1>4. need = UsedByRules(heap') \cup UsedByFilters(filters')
  <2>1. Latest(heap') = Generation(baseRules', overrides') /\ filters' = {Built(f, heap') : f \in exclusions'}
    BY <1>3 DEF BuiltInv
  <2> QED BY <2>1, NeedOfBuilt
<1>5. m \in [Address -> Nat] /\ Entries(manifest) \subseteq Entries(m)
  BY <1>1, AddressesInserted DEF Entries
<1>6. \A r \in DOMAIN baseRules' : baseRules'[r].targets \subseteq Entries(m)
  <2>1. CASE Has(u.rules)
    BY <1>1, <2>1, TargetsOfRules
  <2>2. CASE ~Has(u.rules)
    <3>1. baseRules' = baseRules
      BY <1>1, <2>2 DEF KeepRules
    <3> QED BY <1>2, <1>5, <3>1 DEF Needed
  <2> QED BY <2>1, <2>2
<1>7. \A f \in exclusions' : f.conditions \cup f.inputs \subseteq Entries(m)
  <2>1. CASE ChangesFilters(u)
    BY <1>1, <2>1, TargetsOfFilters
  <2>2. CASE ~ChangesFilters(u)
    <3>1. exclusions' = exclusions
      BY <1>1, <2>2 DEF KeepFilters
    <3> QED BY <1>2, <1>5, <3>1 DEF Needed, UsedByFilters
  <2> QED BY <2>1, <2>2
<1>8. need \subseteq Entries(m)
  BY <1>6, <1>7 DEF Needed, UsedByFilters
<1>9. CASE Has(u.rules) \/ ChangesFilters(u)
  <2>1. manifest' = [a \in Address |-> IF <<a, m[a]>> \in need THEN m[a] ELSE 0]
    BY <1>1, <1>4, <1>9 DEF CleanManifest, Pruned
  <2> HIDE DEF need, m
  <2>2. need \subseteq Entries(manifest')
    BY <1>8, <2>1 DEF Entries
  <2>3. {a \in Address : manifest'[a] # 0} \subseteq Names(need)
    <3> SUFFICES ASSUME NEW a \in Address, manifest'[a] # 0 PROVE a \in Names(need)
      OBVIOUS
    <3>1. <<a, m[a]>> \in need
      BY <2>1
    <3>2. <<a, m[a]>>[1] \in Names(need)
      BY <3>1 DEF Names
    <3> QED BY <3>2
  <2> QED BY <1>4, <2>2, <2>3 DEF need
<1>10. CASE ~(Has(u.rules) \/ ChangesFilters(u))
  <2>1. A = {}
    BY <1>1, <1>10 DEF RuleAddresses, FilterAddresses, InvalidFilters, ChangesFilters
  <2>2. manifest' = manifest
    <3> HIDE DEF A
    <3> QED BY <1>1, <1>10, <2>1, AddressesInserted DEF CleanManifest
  <2>3. baseRules' = baseRules /\ exclusions' = exclusions
    BY <1>1, <1>10 DEF KeepRules, KeepFilters
  <2>4. published # <<>>
    BY <1>10 DEF Publish, Fails, RulesFail, ListsInv
  <2>5. {a \in Address : manifest[a] # 0} \subseteq Names(Needed(baseRules, exclusions))
    BY <1>1, <2>4 DEF ManifestInv
  <2> QED BY <1>2, <1>4, <2>2, <2>3, <2>5
<1> QED BY <1>9, <1>10

LEMMA ManifestTyped ==
  ASSUME ManifestType, [Next]_vars
  PROVE  ManifestType'
<1>1. ASSUME NEW u, AbandonedUpdate(u)
      PROVE  ManifestType'
  <2>1. \E A : manifest' = Extended(A) /\ Count(A)
    BY <1>1 DEF AbandonedUpdate, FailInRules, FailInData, FailInOverrides, FailInExclusions, Abandon
  <2> QED BY <2>1, AddressesInserted DEF ManifestType
<1>2. ASSUME NEW u, NoHandle(u)
      PROVE  ManifestType'
  BY <1>2 DEF NoHandle, ManifestType
<1>3. ASSUME NEW u, Ignore(u)
      PROVE  ManifestType'
  BY <1>3, AddressesInserted DEF Ignore, ManifestType
<1>4. ASSUME NEW u, Publish(u)
      PROVE  ManifestType'
  <2>1. PICK A : CleanManifest(u, Extended(A)) /\ Count(A)
    BY <1>4 DEF Publish
  <2>2. \A used : Pruned(Extended(A), used) \in [Address -> Nat]
    BY AddressesInserted DEF Pruned
  <2> QED BY <2>1, <2>2, AddressesInserted DEF CleanManifest, ManifestType
<1>5. CASE UNCHANGED vars
  BY <1>5 DEF vars, ManifestType
<1> QED BY <1>1, <1>2, <1>3, <1>4, <1>5 DEF Next, AbandonedUpdate

LEMMA ManifestNext == ListsInv /\ BuiltInv' /\ ManifestInv /\ [Next]_vars => ManifestInv'
<1> SUFFICES ASSUME ListsInv, BuiltInv', ManifestInv, [Next]_vars PROVE ManifestInv'
  OBVIOUS
<1>1. ManifestType /\ ManifestType'
  BY ManifestTyped DEF ManifestInv
<1>2. ASSUME NEW u, AbandonedUpdate(u)
      PROVE  ManifestInv'
  <2>1. failed'
    BY <1>2 DEF AbandonedUpdate, FailInRules, FailInData, FailInOverrides, FailInExclusions, Abandon
  <2> QED BY <1>1, <2>1 DEF ManifestInv
<1>3. CASE /\ UNCHANGED <<manifest, baseRules, exclusions, heap, published>>
           /\ ~failed' => ~failed
  <2>1. \A i : Used(published[i])' = Used(published[i])
    BY <1>3 DEF Used, Rules
  <2>2. TargetsAlwaysKnown => TargetsAlwaysKnown'
    BY <1>3, <2>1 DEF TargetsAlwaysKnown, Known
  <2>3. (\A i \in DOMAIN published : Known(published[i]) \subseteq Names(Used(published[i])))
          => (\A i \in DOMAIN published : Known(published[i]) \subseteq Names(Used(published[i])))'
    BY <1>3, <2>1 DEF Known
  <2> QED BY <1>1, <1>3, <2>2, <2>3 DEF ManifestInv
<1>4. ASSUME NEW u, NoHandle(u)
      PROVE  ManifestInv'
  BY <1>3, <1>4, NothingBuilt DEF NoHandle
<1>5. ASSUME NEW u, Ignore(u)
      PROVE  ManifestInv'
  <2>1. CASE failed'
    BY <1>1, <2>1 DEF ManifestInv
  <2>2. CASE ~failed'
    <3>1. FilterAddresses(u.exclusions) = {}
      BY <1>5, <2>2 DEF Ignore, Changes, ChangesFilters, InvalidFilters, FilterAddresses
    <3>2. manifest' = manifest
      BY <1>1, <1>5, <3>1, AddressesInserted DEF Ignore
    <3> QED BY <1>3, <1>5, <3>2, NothingBuilt DEF Ignore
  <2> QED BY <2>1, <2>2
<1>6. ASSUME NEW u \in Document(corpus), Publish(u)
      PROVE  ManifestInv'
  <2> SUFFICES ASSUME ~failed'
               PROVE  /\ Needed(baseRules', exclusions') \subseteq Entries(manifest')
                      /\ {a \in Address : manifest'[a] # 0} \subseteq Names(Needed(baseRules', exclusions'))
                      /\ TargetsAlwaysKnown'
                      /\ \A i \in DOMAIN published' :
                            Known(published'[i]) \subseteq Names(Used(published[i])')
    BY <1>1 DEF ManifestInv, Known
  <2>1. ~failed
    BY <1>6 DEF Publish
  <2>2. /\ Needed(baseRules', exclusions') = UsedByRules(heap') \cup UsedByFilters(filters')
        /\ Needed(baseRules', exclusions') \subseteq Entries(manifest')
        /\ {a \in Address : manifest'[a] # 0} \subseteq Names(Needed(baseRules', exclusions'))
    BY <1>6, ManifestCleaned
  <2>3. ASSUME NEW i \in DOMAIN published
        PROVE  /\ Used(published[i])' \subseteq Entries(published'[i].manifest)
               /\ Known(published'[i]) \subseteq Names(Used(published[i])')
    <3>1. published'[i] = published[i] /\ Used(published[i])' = Used(published[i])
      BY <1>6, Added DEF ListsInv, Used, Rules
    <3>2. /\ Used(published[i]) \subseteq Entries(published[i].manifest)
          /\ Known(published[i]) \subseteq Names(Used(published[i]))
      BY <2>1 DEF ManifestInv, TargetsAlwaysKnown, Targets, Known, Entries
    <3> QED BY <3>1, <3>2
  <2>4. ASSUME NEW i, i = Len(published')
        PROVE  /\ Used(published[i])' \subseteq Entries(published'[i].manifest)
               /\ Known(published'[i]) \subseteq Names(Used(published[i])')
    <3>1. /\ published'[i].generation = Len(heap') /\ published'[i].filters = filters'
          /\ published'[i].manifest = manifest'
      BY <1>6, <2>4, Added DEF LastPublished
    <3>2. Used(published[i])' = UsedByRules(heap') \cup UsedByFilters(filters')
      BY <3>1 DEF Used, Rules, UsedByRules, Latest
    <3> QED BY <2>2, <3>1, <3>2 DEF Known
  <2>5. \A i \in DOMAIN published' :
            /\ Used(published[i])' \subseteq Entries(published'[i].manifest)
            /\ Known(published'[i]) \subseteq Names(Used(published[i])')
    BY <1>6, <2>3, <2>4, Added
  <2> QED BY <2>2, <2>5 DEF TargetsAlwaysKnown, Targets, Known, Entries
<1>7. CASE UNCHANGED vars
  BY <1>3, <1>7 DEF vars, builtVars
<1> QED BY <1>2, <1>4, <1>5, <1>6, <1>7 DEF Next, AbandonedUpdate

LEMMA ManifestCorrect == Spec => []ManifestInv
<1>1. Init => ManifestInv
  <2> SUFFICES ASSUME Init PROVE ManifestInv
    OBVIOUS
  <2>1. ManifestType /\ published = <<>> /\ DOMAIN published = {}
    BY DEF Init, ManifestType
  <2>2. Needed(baseRules, exclusions) = {}
    BY DEF Init, Nothing, Needed, UsedByFilters
  <2> QED BY <2>1, <2>2 DEF ManifestInv, TargetsAlwaysKnown
<1> QED BY <1>1, ManifestNext, Lists, BuiltCorrectly, PTL DEF Spec

\* As long as no update fails, the targets that the rules and filters of a
\* ruleset use are those its manifest gives to the addresses.
THEOREM TargetsCorrect == Spec => []TargetsAreKnown
<1>1. ManifestInv => TargetsAreKnown
  BY DEF ManifestInv, TargetsAreKnown
<1> QED BY <1>1, ManifestCorrect, PTL

\* As long as no update fails, no ruleset requires an address it has no use for.
THEOREM AddressesNeeded == Spec => []AddressesAreUsed
<1>1. ManifestInv => AddressesAreUsed
  BY DEF ManifestInv, AddressesAreUsed
<1> QED BY <1>1, ManifestCorrect, PTL

-----------------------------------------------------------------------------
(* The last ruleset, against the documents it comes from *)

SameRules(base, other) ==
    /\ DOMAIN base = DOMAIN other
    /\ \A r \in DOMAIN base :
          /\ base[r].tags = other[r].tags /\ base[r].data = other[r].data /\ base[r].op = other[r].op
          /\ Names(base[r].targets) = Names(other[r].targets)
ViewOfFilters(F) == {<<f.kind, f.scope, Names(f.conditions)>> : f \in F}

\* What the builder holds is what the values kept of the keys say, but for the
\* targets that the addresses were given.
HeldInv ==
    /\ DOMAIN accepted = {"rules", "data", "overrides", "exclusions"}
    /\ ~failed => /\ SameRules(baseRules, OnceRules)
                  /\ overrides = OnceOverrides
                  /\ ViewOfFilters(exclusions) = ViewOfFilters(OnceFilters)

\* The last ruleset is the one in use.
LastInv ==
    result = "published" =>
        /\ heap # <<>>
        /\ LastPublished.generation = Len(heap) /\ LastPublished.filters = filters

LEMMA NamesOfTargets == \A A, m : Names(Targets(A, m)) = A
<1> TAKE A, m
<1>1. \A a \in A : <<a, m[a]>> \in Targets(A, m) /\ <<a, m[a]>>[1] = a
  BY DEF Targets
<1>2. \A t \in Targets(A, m) : t[1] \in A
  BY DEF Targets
<1>3. \A a \in A : a \in Names(Targets(A, m))
  BY <1>1 DEF Names
<1>4. \A a \in Names(Targets(A, m)) : a \in A
  BY <1>2 DEF Names
<1> QED BY <1>3, <1>4

LEMMA SameParsedRules ==
  ASSUME NEW nodes, NEW m, NEW k
  PROVE  SameRules(ParsedRules(nodes, m), ParsedRules(nodes, k))
<1> DEFINE first(r) == nodes[Min({i \in Parsed(nodes) : nodes[i].id = r})]
           ids == {nodes[i].id : i \in Parsed(nodes)}
<1>1. ASSUME NEW n
      PROVE  ParsedRules(nodes, n)
               = [r \in ids |-> [targets |-> Targets(first(r).targets, n), tags |-> first(r).tags,
                                 data |-> first(r).data, op |-> first(r).op]]
  BY DEF ParsedRules
<1> HIDE DEF first, ids
<1> QED BY <1>1, NamesOfTargets DEF SameRules

LEMMA ViewOfParsedFilters ==
  ASSUME NEW nodes, NEW m, NEW known
  PROVE  ViewOfFilters(ParsedFilters(nodes, m, known))
           = {<<nodes[i].kind, nodes[i].scope, nodes[i].conditions>> : i \in Parsed(nodes)}
<1> DEFINE filter(i) == AFilter(nodes[i], KnownBy(nodes, i, known), m)
<1>1. ParsedFilters(nodes, m, known) = {filter(i) : i \in Parsed(nodes)}
  BY FilterIsParsed
<1>2. \A i : /\ filter(i).kind = nodes[i].kind /\ filter(i).scope = nodes[i].scope
             /\ Names(filter(i).conditions) = nodes[i].conditions
  BY NamesOfTargets DEF AFilter
<1> HIDE DEF filter
<1> QED BY <1>1, <1>2 DEF ViewOfFilters

\* A ruleset is published with what was kept.
LEMMA HeldWhenPublished ==
  ASSUME HeldInv, NEW u, Publish(u), ~failed'
  PROVE  HeldInv'
<1>1. /\ ~failed /\ KeepRules(u) /\ KeepOverrides(u) /\ KeepFilters(u)
      /\ Accept(u, DOMAIN accepted)
      /\ DOMAIN accepted = {"rules", "data", "overrides", "exclusions"}
  BY DEF Publish, HeldInv
<1>2. /\ DOMAIN accepted' = DOMAIN accepted
      /\ accepted'.rules = IF Has(u.rules) THEN u.rules ELSE accepted.rules
      /\ accepted'.overrides = IF ChangesOverrides(u) THEN u.overrides ELSE accepted.overrides
      /\ accepted'.exclusions = IF ChangesFilters(u) THEN u.exclusions ELSE accepted.exclusions
  BY <1>1 DEF Accept, ChangesOverrides, ChangesFilters
<1>3. SameRules(baseRules', OnceRules')
  <2>1. CASE Has(u.rules)
    <3>1. KeptNodes("rules")' = u.rules.nodes
      BY <1>2, <2>1 DEF KeptNodes
    <3> QED BY <1>1, <2>1, <3>1, SameParsedRules DEF KeepRules, OnceRules
  <2>2. CASE ~Has(u.rules)
    <3>1. KeptNodes("rules")' = KeptNodes("rules") /\ baseRules' = baseRules
      BY <1>1, <1>2, <2>2 DEF KeptNodes, KeepRules
    <3> QED BY <1>1, <3>1 DEF HeldInv, OnceRules
  <2> QED BY <2>1, <2>2
<1>4. overrides' = OnceOverrides'
  <2>1. CASE ChangesOverrides(u)
    <3>1. KeptNodes("overrides")' = u.overrides.nodes
      BY <1>2, <2>1 DEF KeptNodes, ChangesOverrides
    <3> QED BY <1>1, <2>1, <3>1 DEF KeepOverrides, OnceOverrides
  <2>2. CASE ~ChangesOverrides(u)
    <3>1. KeptNodes("overrides")' = KeptNodes("overrides") /\ overrides' = overrides
      BY <1>1, <1>2, <2>2 DEF KeptNodes, KeepOverrides
    <3> QED BY <1>1, <3>1 DEF HeldInv, OnceOverrides
  <2> QED BY <2>1, <2>2
<1>5. ViewOfFilters(exclusions') = ViewOfFilters(OnceFilters')
  <2>1. CASE ChangesFilters(u)
    <3>1. KeptNodes("exclusions")' = u.exclusions.nodes
      BY <1>2, <2>1 DEF KeptNodes, ChangesFilters
    <3>2. \E m, known : exclusions' = ParsedFilters(u.exclusions.nodes, m, known)
      BY <1>1, <2>1 DEF KeepFilters
    <3>3. OnceFilters' = ParsedFilters(u.exclusions.nodes, All1, RuleAddresses(accepted'.rules))
      BY <3>1 DEF OnceFilters, All1
    <3> QED BY <3>2, <3>3, ViewOfParsedFilters
  <2>2. CASE ~ChangesFilters(u)
    <3>1. KeptNodes("exclusions")' = KeptNodes("exclusions") /\ exclusions' = exclusions
      BY <1>1, <1>2, <2>2 DEF KeptNodes, KeepFilters
    <3>2. ViewOfFilters(OnceFilters') = ViewOfFilters(OnceFilters)
      BY <3>1, ViewOfParsedFilters DEF OnceFilters
    <3> QED BY <1>1, <3>1, <3>2 DEF HeldInv
  <2> QED BY <2>1, <2>2
<1> QED BY <1>1, <1>2, <1>3, <1>4, <1>5 DEF HeldInv

LEMMA HeldNext == HeldInv /\ [Next]_vars => HeldInv'
<1> SUFFICES ASSUME HeldInv, [Next]_vars PROVE HeldInv'
  OBVIOUS
<1>1. CASE /\ UNCHANGED <<accepted, baseRules, overrides, exclusions>>
           /\ ~failed' => ~failed
  BY <1>1 DEF HeldInv, OnceRules, OnceOverrides, OnceFilters, KeptNodes, All1
<1>2. CASE DOMAIN accepted' = DOMAIN accepted /\ failed'
  BY <1>2 DEF HeldInv
<1>3. ASSUME NEW u, AbandonedUpdate(u)
      PROVE  HeldInv'
  <2>1. DOMAIN accepted' = DOMAIN accepted /\ failed'
    BY <1>3 DEF AbandonedUpdate, FailInRules, FailInData, FailInOverrides, FailInExclusions,
                Abandon, Accept
  <2> QED BY <1>2, <2>1
<1>4. ASSUME NEW u, NoHandle(u) \/ Ignore(u)
      PROVE  HeldInv'
  BY <1>1, <1>4 DEF NoHandle, Ignore
<1>5. ASSUME NEW u, Publish(u)
      PROVE  HeldInv'
  <2>1. CASE failed'
    BY <1>2, <1>5, <2>1 DEF Publish, Accept
  <2>2. CASE ~failed'
    BY <1>5, <2>2, HeldWhenPublished
  <2> QED BY <2>1, <2>2
<1>6. CASE UNCHANGED vars
  BY <1>1, <1>6 DEF vars
<1> QED BY <1>3, <1>4, <1>5, <1>6 DEF Next, AbandonedUpdate

LEMMA HeldInit == Init => HeldInv
<1> SUFFICES ASSUME Init PROVE HeldInv
  OBVIOUS
<1>1. \A k \in {"rules", "overrides", "exclusions"} : KeptNodes(k) = <<>>
  BY DEF Init, KeptNodes, Has
<1>2. Parsed(<<>>) = {}
  BY DEF Parsed, Tried
<1>3. DOMAIN OnceRules = {}
  BY <1>1, <1>2 DEF OnceRules, ParsedRules
<1>4. OnceOverrides = Nothing
  BY <1>1 DEF OnceOverrides, ValidOverrides, Restrict, Nothing
<1>5. OnceFilters = {}
  BY <1>1, <1>2 DEF OnceFilters, ParsedFilters
<1> QED
  BY <1>3, <1>4, <1>5 DEF Init, HeldInv, SameRules, Nothing

LEMMA LastNext == ListsInv /\ LastInv /\ [Next]_vars => LastInv'
<1> SUFFICES ASSUME ListsInv, LastInv, [Next]_vars PROVE LastInv'
  OBVIOUS
<1>1. ASSUME NEW u, AbandonedUpdate(u) \/ NoHandle(u) \/ Ignore(u)
      PROVE  LastInv'
  BY <1>1 DEF AbandonedUpdate, FailInRules, FailInData, FailInOverrides, FailInExclusions, Abandon,
              NoHandle, Ignore, LastInv
<1>2. ASSUME NEW u \in Document(corpus), Publish(u)
      PROVE  LastInv'
  BY <1>2, Added DEF LastInv
<1>3. CASE UNCHANGED vars
  BY <1>3 DEF vars, builtVars, LastInv, LastPublished
<1> QED BY <1>1, <1>2, <1>3 DEF Next, AbandonedUpdate

\* What a scope is about, and so what an override decides, depends on no target.
LEMMA SameScopes ==
  ASSUME NEW base, NEW other, IsFiniteSet(DOMAIN base), SameRules(base, other), NEW scope \in Scope
  PROVE  InScope(scope, base) = InScope(scope, other)
<1>1. DOMAIN base = DOMAIN other /\ \A r \in DOMAIN base : base[r].tags = other[r].tags
  BY DEF SameRules
<1>2. Meant(scope, base) = Meant(scope, other)
  BY <1>1, SameMeaning
<1> QED BY <1>1, <1>2, ScopeMeant

LEMMA SameGenerations ==
  ASSUME NEW base, NEW other, IsFiniteSet(DOMAIN base), SameRules(base, other),
         NEW ovrds, \A i \in DOMAIN ovrds : ovrds[i].scope \in Scope
  PROVE  LET view(h) == [r \in DOMAIN h |-> ViewOfRule(h[r].spec, h[r].settings)]
         IN  view(Generation(base, ovrds)) = view(Generation(other, ovrds))
<1>1. \A i \in DOMAIN ovrds : InScope(ovrds[i].scope, base) = InScope(ovrds[i].scope, other)
  BY SameScopes
<1>2. ASSUME NEW s, NEW r
      PROVE  Decides(s, r, base, ovrds) = Decides(s, r, other, ovrds)
  <2> DEFINE by(how, rules) == {i \in DOMAIN ovrds : /\ ovrds[i].by = how
                                                     /\ s \in ovrds[i].sets
                                                     /\ r \in InScope(ovrds[i].scope, rules)}
             last(rules) == IF by("ids", rules) # {} THEN Max(by("ids", rules))
                            ELSE IF by("tags", rules) # {} THEN Max(by("tags", rules)) ELSE 0
  <2>1. \A how : by(how, base) = by(how, other)
    BY <1>1
  <2>2. Decides(s, r, base, ovrds) = last(base) /\ Decides(s, r, other, ovrds) = last(other)
    BY DEF Decides
  <2> HIDE DEF by
  <2> QED BY <2>1, <2>2
<1> DEFINE settings(r) == [s \in Setting |-> Decides(s, r, base, ovrds)]
<1>3. /\ Generation(base, ovrds)
           = [r \in DOMAIN base |-> [spec |-> base[r], settings |-> settings(r)]]
      /\ Generation(other, ovrds)
           = [r \in DOMAIN base |-> [spec |-> other[r], settings |-> settings(r)]]
  BY <1>2 DEF Generation, SameRules
<1> HIDE DEF settings
<1>4. \A r \in DOMAIN base : ViewOfRule(base[r], settings(r)) = ViewOfRule(other[r], settings(r))
  BY DEF ViewOfRule, SameRules
<1> QED BY <1>3, <1>4

\* The filters in use apply to the rules that their scopes mean.
LEMMA FiltersApply ==
  ASSUME NEW h, NEW excl
  PROVE  LET specs == [r \in DOMAIN Latest(h) |-> Latest(h)[r].spec]
         IN  {<<f.kind, Names(f.conditions), {p[2] : p \in f.rules}>> : f \in {Built(e, h) : e \in excl}}
               = {<<f.kind, Names(f.conditions), InScope(f.scope, specs)>> : f \in excl}
<1> DEFINE specs == [r \in DOMAIN Latest(h) |-> Latest(h)[r].spec]
<1>1. ASSUME NEW R
      PROVE  {p[2] : p \in {<<Len(h), r>> : r \in R}} = R
  <2>1. \A r \in R : <<Len(h), r>>[2] = r
    OBVIOUS
  <2> QED BY <2>1
<1>2. ASSUME NEW f
      PROVE  /\ Built(f, h).kind = f.kind /\ Built(f, h).conditions = f.conditions
             /\ {p[2] : p \in Built(f, h).rules} = InScope(f.scope, specs)
  <2>1. Built(f, h).rules = {<<Len(h), r>> : r \in InScope(f.scope, specs)}
    BY DEF Built
  <2>2. Built(f, h).kind = f.kind /\ Built(f, h).conditions = f.conditions
    BY DEF Built
  <2> HIDE DEF specs
  <2> QED BY <1>1, <2>1, <2>2
<1> DEFINE applied(f) == <<f.kind, Names(f.conditions), {p[2] : p \in f.rules}>>
           meant(f) == <<f.kind, Names(f.conditions), InScope(f.scope, specs)>>
<1>3. \A f : applied(Built(f, h)) = meant(f)
  <2> HIDE DEF specs
  <2> QED BY <1>2
<1>4. {applied(f) : f \in {Built(e, h) : e \in excl}} = {meant(f) : f \in excl}
  <2> HIDE DEF applied, meant
  <2> QED BY <1>3
<1> QED BY <1>4

LEMMA AppliedByView ==
  ASSUME NEW F, NEW G, ViewOfFilters(F) = ViewOfFilters(G), NEW rules
  PROVE  {<<f.kind, Names(f.conditions), InScope(f.scope, rules)>> : f \in F}
           = {<<f.kind, Names(f.conditions), InScope(f.scope, rules)>> : f \in G}
<1> DEFINE applied(f) == <<f.kind, Names(f.conditions), InScope(f.scope, rules)>>
           seen(f) == <<f.kind, f.scope, Names(f.conditions)>>
           by(v) == <<v[1], v[3], InScope(v[2], rules)>>
<1>1. \A f : applied(f) = by(seen(f))
  OBVIOUS
<1>2. {seen(f) : f \in F} = {seen(f) : f \in G}
  BY DEF ViewOfFilters
<1>3. {applied(f) : f \in F} = {applied(f) : f \in G}
  <2> HIDE DEF applied, seen, by
  <2>1. \A f \in F : \E g \in G : seen(f) = seen(g)
    BY <1>2
  <2>2. \A g \in G : \E f \in F : seen(f) = seen(g)
    BY <1>2
  <2>3. \A f, g : seen(f) = seen(g) => applied(f) = applied(g)
    BY <1>1
  <2> QED BY <2>1, <2>2, <2>3
<1> QED BY <1>3

\* However the documents were cut into updates, while none fails the last
\* ruleset has the rules, the overrides and the filters that the last value
\* kept of each key would give a new builder.
THEOREM UpdatesAddUp == Spec => []AsIfLoadedAtOnce
<1>1. ASSUME ListsInv, BuiltInv, HeldInv, LastInv
      PROVE  AsIfLoadedAtOnce
  <2> DEFINE view(h) == [r \in DOMAIN h |-> ViewOfRule(h[r].spec, h[r].settings)]
             specs == [r \in DOMAIN Latest(heap) |-> Latest(heap)[r].spec]
  <2> SUFFICES ASSUME result = "published", ~failed
               PROVE  /\ view(Rules(LastPublished)) = view(Generation(OnceRules, OnceOverrides))
                      /\ {<<f.kind, Names(f.conditions), {p[2] : p \in f.rules}>> : f \in LastPublished.filters}
                           = {<<f.kind, Names(f.conditions), InScope(f.scope, OnceRules)>> : f \in OnceFilters}
    BY DEF AsIfLoadedAtOnce
  <2>1. /\ heap # <<>> /\ Rules(LastPublished) = Latest(heap) /\ LastPublished.filters = filters
    BY <1>1 DEF LastInv, Rules, Latest
  <2>2. /\ Latest(heap) = Generation(baseRules, overrides)
        /\ filters = {Built(f, heap) : f \in exclusions}
    BY <1>1, <2>1 DEF BuiltInv
  <2>3. /\ SameRules(baseRules, OnceRules) /\ overrides = OnceOverrides
        /\ ViewOfFilters(exclusions) = ViewOfFilters(OnceFilters)
    BY <1>1 DEF HeldInv
  <2>4. /\ IsFiniteSet(DOMAIN baseRules)
        /\ \A i \in DOMAIN overrides : overrides[i].scope \in Scope
        /\ \A f \in exclusions : f.scope \in Scope
    BY <1>1 DEF ListsInv
  <2>5. view(Rules(LastPublished)) = view(Generation(OnceRules, OnceOverrides))
    <3>1. view(Generation(baseRules, overrides)) = view(Generation(OnceRules, overrides))
      BY <2>3, <2>4, SameGenerations
    <3> HIDE DEF view
    <3> QED BY <2>1, <2>2, <2>3, <3>1
  <2>6. ASSUME NEW f \in exclusions
        PROVE  InScope(f.scope, specs) = InScope(f.scope, OnceRules)
    <3>1. DOMAIN specs = DOMAIN baseRules /\ \A r \in DOMAIN baseRules : specs[r] = baseRules[r]
      BY <2>2 DEF Generation
    <3> HIDE DEF specs
    <3>2. SameRules(specs, OnceRules)
      BY <2>3, <3>1 DEF SameRules
    <3> QED BY <2>4, <3>1, <3>2, SameScopes
  <2>7. {<<f.kind, Names(f.conditions), {p[2] : p \in f.rules}>> : f \in filters}
          = {<<f.kind, Names(f.conditions), InScope(f.scope, specs)>> : f \in exclusions}
    BY <2>2, FiltersApply
  <2>8. {<<f.kind, Names(f.conditions), InScope(f.scope, specs)>> : f \in exclusions}
          = {<<f.kind, Names(f.conditions), InScope(f.scope, OnceRules)>> : f \in exclusions}
    <3> HIDE DEF specs
    <3> QED BY <2>6
  <2>9. {<<f.kind, Names(f.conditions), InScope(f.scope, OnceRules)>> : f \in exclusions}
          = {<<f.kind, Names(f.conditions), InScope(f.scope, OnceRules)>> : f \in OnceFilters}
    BY <2>3, AppliedByView
  <2> QED BY <2>1, <2>5, <2>7, <2>8, <2>9
<1>2. Init => LastInv
  BY DEF Init, LastInv
<1> QED
  BY <1>1, <1>2, HeldInit, HeldNext, LastNext, Lists, BuiltCorrectly, PTL DEF Spec
=============================================================================
