---------------------------- MODULE ObjectProofs ----------------------------
(***************************************************************************)
(* The object filter excludes what its paths lead to, whatever the order   *)
(* in which they are inserted in the trie; the path that an iterator       *)
(* reports leads to the object it holds; and the iterator gives what is    *)
(* left of the object once, in order.                                      *)
(***************************************************************************)
EXTENDS FilteredObjects, TLAPS, NaturalsInduction, WellFoundedInduction

\* The first n elements of a place, or components of a path.
Start(s, n) == SubSeq(s, 1, n)

LEMMA SameSequence ==
  ASSUME NEW S, NEW s \in Seq(S), NEW t \in Seq(S), Len(s) = Len(t),
         \A i \in 1..Len(s) : s[i] = t[i]
  PROVE  s = t
<1>1. DOMAIN s = 1..Len(s) /\ DOMAIN t = 1..Len(s)
  OBVIOUS
<1>2. s = [i \in 1..Len(s) |-> s[i]] /\ t = [i \in 1..Len(s) |-> t[i]]
  BY <1>1
<1> QED BY <1>2

LEMMA StartIs ==
  ASSUME NEW S, NEW s \in Seq(S), NEW n \in 0..Len(s)
  PROVE  /\ Start(s, n) \in Seq(S) /\ Len(Start(s, n)) = n
         /\ \A i \in 1..n : Start(s, n)[i] = s[i]
BY DEF Start

LEMMA StartOfStart ==
  ASSUME NEW S, NEW s \in Seq(S), NEW n \in 0..Len(s), NEW m \in 0..n
  PROVE  Start(Start(s, n), m) = Start(s, m)
<1>1. m \in 0..Len(s) /\ m \in 0..Len(Start(s, n)) /\ Start(s, n) \in Seq(S)
  BY StartIs
<1>2. /\ Start(Start(s, n), m) \in Seq(S) /\ Len(Start(Start(s, n), m)) = m
      /\ \A i \in 1..m : Start(Start(s, n), m)[i] = Start(s, n)[i]
  BY <1>1, StartIs
<1>3. /\ Start(s, m) \in Seq(S) /\ Len(Start(s, m)) = m
      /\ \A i \in 1..m : Start(s, m)[i] = s[i]
  BY <1>1, StartIs
<1>4. \A i \in 1..m : i \in 1..n /\ Start(s, n)[i] = s[i]
  BY StartIs
<1>5. \A i \in 1..m : Start(Start(s, n), m)[i] = Start(s, m)[i]
  BY <1>2, <1>3, <1>4
<1> QED BY <1>2, <1>3, <1>5, SameSequence

LEMMA WholeStart ==
  ASSUME NEW S, NEW s \in Seq(S)
  PROVE  Start(s, Len(s)) = s /\ Start(s, 0) = <<>>
<1>1. Len(s) \in Nat
  OBVIOUS
<1>2. /\ Start(s, Len(s)) \in Seq(S) /\ Len(Start(s, Len(s))) = Len(s)
      /\ \A i \in 1..Len(s) : Start(s, Len(s))[i] = s[i]
  BY <1>1, StartIs
<1>3. Start(s, 0) \in Seq(S) /\ Len(Start(s, 0)) = 0
  BY <1>1, StartIs
<1>4. Start(s, 0) = <<>>
  BY <1>3
<1>5. Start(s, Len(s)) = s
  BY <1>2, SameSequence
<1> QED BY <1>4, <1>5

LEMMA OneMore ==
  ASSUME NEW S, NEW s \in Seq(S), NEW n \in 1..Len(s)
  PROVE  Start(s, n) = Append(Start(s, n - 1), s[n])
<1>1. n \in 0..Len(s) /\ n - 1 \in 0..Len(s) /\ s[n] \in S
  OBVIOUS
<1>2. /\ Start(s, n) \in Seq(S) /\ Len(Start(s, n)) = n
      /\ \A i \in 1..n : Start(s, n)[i] = s[i]
  BY <1>1, StartIs
<1>3. /\ Start(s, n - 1) \in Seq(S) /\ Len(Start(s, n - 1)) = n - 1
      /\ \A i \in 1..n - 1 : Start(s, n - 1)[i] = s[i]
  BY <1>1, StartIs
<1> DEFINE before == Start(s, n - 1)
<1> HIDE DEF before
<1>4. /\ Append(before, s[n]) \in Seq(S) /\ Len(Append(before, s[n])) = n
      /\ \A i \in 1..n : Append(before, s[n])[i] = s[i]
  BY <1>1, <1>3 DEF before
<1>5. Start(s, n) = Append(before, s[n])
  BY <1>2, <1>4, SameSequence
<1> QED BY <1>5 DEF before

LEMMA StartOfAppend ==
  ASSUME NEW S, NEW s \in Seq(S), NEW e \in S, NEW n \in 0..Len(s)
  PROVE  Start(Append(s, e), n) = Start(s, n)
<1> DEFINE t == Append(s, e)
<1>1. t \in Seq(S) /\ Len(t) = Len(s) + 1 /\ n \in 0..Len(t) /\ \A i \in 1..n : t[i] = s[i]
  OBVIOUS
<1> HIDE DEF t
<1>2. Start(t, n) \in Seq(S) /\ Len(Start(t, n)) = n /\ \A i \in 1..n : Start(t, n)[i] = t[i]
  BY <1>1, StartIs
<1>3. Start(s, n) \in Seq(S) /\ Len(Start(s, n)) = n /\ \A i \in 1..n : Start(s, n)[i] = s[i]
  BY StartIs
<1>4. Start(t, n) = Start(s, n)
  BY <1>1, <1>2, <1>3, SameSequence
<1> QED BY <1>4 DEF t

LEMMA StrictIs ==
  ASSUME NEW S, NEW s \in Seq(S), NEW t \in Seq(S)
  PROVE  Filter!IsStrictPrefix(s, t) <=> Len(s) < Len(t) /\ s = Start(t, Len(s))
<1>1. Start(s, Len(s)) = s /\ Start(t, Len(t)) = t
  BY WholeStart
<1>2. Len(s) \in Nat /\ Len(t) \in Nat
  OBVIOUS
<1>3. Filter!IsStrictPrefix(s, t) <=> Len(s) <= Len(t) /\ Start(s, Len(s)) = Start(t, Len(s)) /\ s # t
  BY Zenon DEF Filter!IsStrictPrefix, Filter!IsPrefix, Start
<1> QED BY <1>1, <1>2, <1>3

LEMMA LeastNumber ==
  ASSUME NEW S \in SUBSET Nat, S # {}
  PROVE  \E n \in S : \A m \in S : n <= m
<1>1. PICK n \in S : \A m \in S : <<m, n>> \notin OpToRel(<, Nat)
  BY NatLessThanWellFounded, WFMin, Zenon
<1>2. \A m \in S : ~(m < n)
  BY <1>1 DEF OpToRel
<1> QED BY <1>2

\* What holds of 0, and of a number when it holds of the one before, holds up to n.
LEMMA Counting ==
  ASSUME NEW n \in Nat, NEW T \in SUBSET (0..n), 0 \in T,
         \A i \in 1..n : i - 1 \in T => i \in T
  PROVE  T = 0..n
<1> SUFFICES ASSUME (0..n) \ T # {} PROVE FALSE
  OBVIOUS
<1>1. PICK i \in (0..n) \ T : \A j \in (0..n) \ T : i <= j
  <2>1. (0..n) \ T \in SUBSET Nat
    OBVIOUS
  <2> QED BY <2>1, LeastNumber
<1>2. i \in 1..n /\ i - 1 \notin T
  BY <1>1
<1>3. i - 1 \in 0..n /\ i - 1 < i
  BY <1>2
<1> QED BY <1>1, <1>2, <1>3

-----------------------------------------------------------------------------
(* Places in an object *)

LEMMA MaxUpTo ==
  ASSUME NEW i \in Nat, i # 0
  PROVE  Filter!Max(1..i) = i
<1> DEFINE S == 1..i
           m == Filter!Max(S)
<1>1. i \in S /\ \A j \in S : i >= j
  OBVIOUS
<1>2. m \in S /\ \A j \in S : m >= j
  <2> HIDE DEF S
  <2> QED BY <1>1, Zenon DEF Filter!Max
<1>3. m \in 1..i /\ m >= i
  BY <1>1, <1>2
<1> HIDE DEF m
<1>4. m = i
  BY <1>3
<1> QED BY <1>4 DEF m

\* The fold that goes down from an object, child by child.
Descent(r, p, n, f) ==
    f = [s \in SUBSET (1..n) |-> IF s = {} THEN r
            ELSE f[s \ {Filter!Max(s)}].children[p[Filter!Max(s)]]]

GoesDown(r, p, n, f) ==
    f[{}] = r /\ \A i \in 1..n : f[1..i] = f[1..(i - 1)].children[p[i]]

LEMMA DescentStep ==
  ASSUME NEW r, NEW p, NEW n \in Nat, NEW f, Descent(r, p, n, f)
  PROVE  GoesDown(r, p, n, f)
<1>1. f[{}] = r
  BY DEF Descent
<1>2. ASSUME NEW i \in 1..n
      PROVE  f[1..i] = f[1..(i - 1)].children[p[i]]
  <2>1. Filter!Max(1..i) = i
    BY MaxUpTo
  <2>2. (1..i) \ {i} = 1..(i - 1) /\ 1..i \in SUBSET (1..n) /\ 1..i # {}
    OBVIOUS
  <2>3. f[1..i] = f[(1..i) \ {Filter!Max(1..i)}].children[p[Filter!Max(1..i)]]
    BY <2>2 DEF Descent
  <2> QED BY <2>1, <2>2, <2>3
<1> QED BY <1>1, <1>2 DEF GoesDown

LEMMA MaxIn ==
  ASSUME NEW n \in Nat, NEW s \in SUBSET (1..n), n \in s
  PROVE  Filter!Max(s) = n
<1> DEFINE m == Filter!Max(s)
<1>1. n \in s /\ \A j \in s : n >= j
  OBVIOUS
<1>2. m \in s /\ \A j \in s : m >= j
  BY <1>1, Zenon DEF Filter!Max
<1>3. m \in 1..n /\ m >= n
  BY <1>1, <1>2
<1> HIDE DEF m
<1>4. m = n
  BY <1>3
<1> QED BY <1>4 DEF m

LEMMA DescentExists ==
  ASSUME NEW r, NEW p, NEW n \in Nat
  PROVE  \E f : Descent(r, p, n, f)
<1> DEFINE T == {m \in 0..n : \E f : Descent(r, p, m, f)}
<1>1. 0 \in T
  <2> DEFINE f == [s \in SUBSET (1..0) |-> r]
  <2>1. \A s \in SUBSET (1..0) : s = {}
    OBVIOUS
  <2>2. Descent(r, p, 0, f)
    BY <2>1, Zenon DEF Descent
  <2> HIDE DEF f
  <2> QED BY <2>2
<1>2. ASSUME NEW i \in 1..n, i - 1 \in T
      PROVE  i \in T
  <2>1. PICK f : Descent(r, p, i - 1, f)
    BY <1>2
  <2> DEFINE g == [s \in SUBSET (1..i) |->
                     IF i \in s THEN f[s \ {i}].children[p[i]] ELSE f[s]]
             h == [s \in SUBSET (1..i) |-> IF s = {} THEN r
                     ELSE g[s \ {Filter!Max(s)}].children[p[Filter!Max(s)]]]
  <2>2. ASSUME NEW s \in SUBSET (1..i)
        PROVE  g[s] = h[s]
    <3>1. CASE i \in s
      <4>1. Filter!Max(s) = i
        BY <3>1, MaxIn
      <4>2. s # {} /\ i \notin s \ {i} /\ s \ {i} \in SUBSET (1..i)
        BY <3>1
      <4>3. g[s] = f[s \ {i}].children[p[i]]
        BY <3>1
      <4>4. g[s \ {i}] = f[s \ {i}]
        BY <4>2
      <4>5. h[s] = g[s \ {Filter!Max(s)}].children[p[Filter!Max(s)]]
        <5> HIDE DEF g
        <5> QED BY <4>2
      <4> QED BY <4>1, <4>3, <4>4, <4>5
    <3>2. CASE i \notin s
      <4>1. s \in SUBSET (1..(i - 1))
        BY <3>2
      <4>2. g[s] = f[s]
        BY <3>2
      <4>3. f[s] = IF s = {} THEN r ELSE f[s \ {Filter!Max(s)}].children[p[Filter!Max(s)]]
        BY <2>1, <4>1, Zenon DEF Descent
      <4>4. g[s \ {Filter!Max(s)}] = f[s \ {Filter!Max(s)}]
        BY <3>2
      <4>5. h[s] = IF s = {} THEN r ELSE g[s \ {Filter!Max(s)}].children[p[Filter!Max(s)]]
        <5> HIDE DEF g
        <5> QED OBVIOUS
      <4> QED BY <4>2, <4>3, <4>4, <4>5
    <3> QED BY <3>1, <3>2
  <2>3. g = h
    <3>1. g = [s \in SUBSET (1..i) |-> g[s]] /\ h = [s \in SUBSET (1..i) |-> h[s]]
      OBVIOUS
    <3> HIDE DEF g, h
    <3> QED BY <2>2, <3>1
  <2>4. Descent(r, p, i, g)
    <3>1. g = h
      BY <2>3
    <3> QED BY <3>1 DEF Descent
  <2> HIDE DEF g, h
  <2> QED BY <2>4
<1>3. T = 0..n
  <2>1. T \in SUBSET (0..n)
    OBVIOUS
  <2> HIDE DEF T
  <2> QED BY <1>1, <1>2, <2>1, Counting
<1> QED BY <1>3

\* What is at a place is a child of what is at the place before.
LEMMA AtIs ==
  ASSUME NEW r, NEW p \in Seq(Nat)
  PROVE  \E f : Descent(r, p, Len(p), f) /\ Filter!At(r, p) = f[1..Len(p)]
<1> DEFINE n == Len(p)
           f == CHOOSE f : Descent(r, p, n, f)
<1>1. n \in Nat /\ DOMAIN p = 1..n
  OBVIOUS
<1>2. Descent(r, p, n, f)
  BY <1>1, DescentExists, Zenon
<1>3. Filter!At(r, p) = f[1..n]
  BY <1>1, Zenon DEF Filter!At, Filter!FoldLeft, Filter!MapThenFoldSet, Descent
<1> HIDE DEF f
<1> QED BY <1>2, <1>3

LEMMA AtNothing == \A r : Filter!At(r, <<>>) = r
<1> TAKE r
<1>1. <<>> \in Seq(Nat) /\ Len(<<>>) = 0 /\ 1..0 = {}
  OBVIOUS
<1>2. PICK f : Descent(r, <<>>, 0, f) /\ Filter!At(r, <<>>) = f[1..0]
  BY <1>1, AtIs
<1>3. GoesDown(r, <<>>, 0, f)
  BY <1>2, DescentStep
<1>4. f[{}] = r
  BY <1>3 DEF GoesDown
<1> QED BY <1>1, <1>2, <1>4

LEMMA AtChild ==
  ASSUME NEW r, NEW p \in Seq(Nat), NEW i \in Nat
  PROVE  Filter!At(r, Append(p, i)) = Filter!At(r, p).children[i]
<1> DEFINE n == Len(p)
           q == Append(p, i)
<1>1. n \in Nat /\ q \in Seq(Nat) /\ Len(q) = n + 1 /\ q[n + 1] = i /\ \A m \in 1..n : q[m] = p[m]
  OBVIOUS
<1> HIDE DEF q
<1>2. PICK f : Descent(r, p, n, f) /\ Filter!At(r, p) = f[1..n]
  BY AtIs
<1>3. PICK g : Descent(r, q, n + 1, g) /\ Filter!At(r, q) = g[1..(n + 1)]
  BY <1>1, AtIs
<1> HIDE DEF n
<1>4. f[{}] = r /\ \A m \in 1..n : f[1..m] = f[1..(m - 1)].children[p[m]]
  <2>1. GoesDown(r, p, n, f)
    BY <1>1, <1>2, DescentStep
  <2> QED BY <2>1 DEF GoesDown
<1>5. g[{}] = r /\ \A m \in 1..(n + 1) : g[1..m] = g[1..(m - 1)].children[q[m]]
  <2>1. n + 1 \in Nat
    BY <1>1
  <2>2. GoesDown(r, q, n + 1, g)
    BY <1>3, <2>1, DescentStep
  <2> QED BY <2>2 DEF GoesDown
<1> DEFINE T == {m \in 0..n : f[1..m] = g[1..m]}
<1>6. 0 \in T
  <2>1. 1..0 = {}
    OBVIOUS
  <2> QED BY <1>1, <1>4, <1>5, <2>1
<1>7. \A m \in 1..n : m - 1 \in T => m \in T
  <2> TAKE m \in 1..n
  <2> HAVE m - 1 \in T
  <2>1. m \in 1..(n + 1) /\ m \in 0..n /\ q[m] = p[m]
    BY <1>1
  <2>2. f[1..(m - 1)] = g[1..(m - 1)]
    OBVIOUS
  <2>3. f[1..m] = g[1..m]
    BY <1>4, <1>5, <2>1, <2>2
  <2> QED BY <2>1, <2>3
<1>8. T = 0..n
  <2>1. T \in SUBSET (0..n)
    OBVIOUS
  <2> HIDE DEF T
  <2> QED BY <1>1, <1>6, <1>7, <2>1, Counting
<1>9. f[1..n] = g[1..n]
  BY <1>1, <1>8
<1>10. g[1..(n + 1)] = g[1..n].children[i]
  <2>1. n + 1 \in 1..(n + 1) /\ (n + 1) - 1 = n
    BY <1>1
  <2> QED BY <1>1, <1>5, <2>1
<1> QED BY <1>2, <1>3, <1>9, <1>10 DEF q

-----------------------------------------------------------------------------
(* The places below the root *)

LEMMA IntervalInNat == \A m : \A i \in 1..m : i \in Nat
OBVIOUS

Inside(r, p) == {Append(p, i) : i \in 1..Filter!Size(Filter!At(r, p))}
Deeper(r, S) == UNION {Inside(r, p) : p \in {q \in S : Filter!IsContainer(Filter!At(r, q))}}
Levels(r, m, f) == f = [n \in 0..m |-> IF n = 0 THEN {<<>>} ELSE Deeper(r, f[n - 1])]
Places(r) == Filter!Below(r, <<>>)

LEMMA LevelsExist ==
  ASSUME NEW r, NEW m \in Nat
  PROVE  \E f : Levels(r, m, f)
<1> DEFINE T == {n \in 0..m : \E f : Levels(r, n, f)}
<1>1. 0 \in T
  <2> DEFINE f == [n \in 0..0 |-> {<<>>}]
  <2>1. \A n \in 0..0 : n = 0
    OBVIOUS
  <2>2. Levels(r, 0, f)
    BY <2>1, Zenon DEF Levels
  <2> HIDE DEF f
  <2> QED BY <2>2
<1>2. ASSUME NEW i \in 1..m, i - 1 \in T
      PROVE  i \in T
  <2>1. PICK f : Levels(r, i - 1, f)
    BY <1>2
  <2> DEFINE g == [n \in 0..i |-> IF n = i THEN Deeper(r, f[i - 1]) ELSE f[n]]
             h == [n \in 0..i |-> IF n = 0 THEN {<<>>} ELSE Deeper(r, g[n - 1])]
  <2>2. ASSUME NEW n \in 0..i
        PROVE  g[n] = h[n]
    <3>1. i \in 1..m /\ i # 0
      OBVIOUS
    <3>2. CASE n = i
      <4>1. g[i - 1] = f[i - 1] /\ g[n] = Deeper(r, f[i - 1])
        BY <3>1, <3>2
      <4>2. h[n] = Deeper(r, g[i - 1])
        <5> HIDE DEF g
        <5> QED BY <3>1, <3>2
      <4> HIDE DEF g, h
      <4> QED BY <4>1, <4>2
    <3>3. CASE n # i
      <4>1. n \in 0..(i - 1) /\ g[n] = f[n]
        BY <3>3
      <4>2. f[n] = IF n = 0 THEN {<<>>} ELSE Deeper(r, f[n - 1])
        BY <2>1, <4>1, Zenon DEF Levels
      <4>3. h[n] = IF n = 0 THEN {<<>>} ELSE Deeper(r, g[n - 1])
        <5> HIDE DEF g
        <5> QED OBVIOUS
      <4>4. n # 0 => g[n - 1] = f[n - 1]
        BY <4>1
      <4> HIDE DEF g, h
      <4> QED BY <4>1, <4>2, <4>3, <4>4
    <3> QED BY <3>2, <3>3
  <2>3. g = h
    <3>1. g = [n \in 0..i |-> g[n]] /\ h = [n \in 0..i |-> h[n]]
      OBVIOUS
    <3> HIDE DEF g, h
    <3> QED BY <2>2, <3>1
  <2>4. Levels(r, i, g)
    <3>1. g = h
      BY <2>3
    <3> QED BY <3>1 DEF Levels
  <2> HIDE DEF g, h
  <2> QED BY <2>4
<1>3. T = 0..m
  <2>1. T \in SUBSET (0..m)
    OBVIOUS
  <2> HIDE DEF T
  <2> QED BY <1>1, <1>2, <2>1, Counting
<1> QED BY <1>3

LEMMA LevelsAre ==
  ASSUME NEW r, NEW m \in Nat, NEW f, Levels(r, m, f)
  PROVE  f[0] = {<<>>} /\ \A n \in 1..m : f[n] = Deeper(r, f[n - 1])
<1>1. \A n \in 0..m : f[n] = IF n = 0 THEN {<<>>} ELSE Deeper(r, f[n - 1])
  BY Zenon DEF Levels
<1>2. 0 \in 0..m /\ \A n \in 1..m : n \in 0..m /\ n # 0
  OBVIOUS
<1> QED BY <1>1, <1>2

LevelsGrow(r, m, f) == \A n \in 1..m : f[n] = Deeper(r, f[n - 1])

LEMMA LevelsGrowing ==
  ASSUME NEW r, NEW m \in Nat, NEW f, Levels(r, m, f)
  PROVE  LevelsGrow(r, m, f)
<1>1. \A n \in 0..m : f[n] = IF n = 0 THEN {<<>>} ELSE Deeper(r, f[n - 1])
  BY Zenon DEF Levels
<1>2. \A n \in 1..m : n \in 0..m /\ n # 0
  OBVIOUS
<1>3. \A n \in 1..m : f[n] = Deeper(r, f[n - 1])
  BY <1>1, <1>2
<1> QED BY <1>3, Zenon DEF LevelsGrow

\* A level has the places of one length, those of children of the level before.
LevelsHold(r, m, f) ==
    \A n \in 0..m : \A s \in f[n] :
        /\ s \in Seq(Nat) /\ Len(s) = n
        /\ n # 0 => \E p \in f[n - 1], i \in Nat :
             /\ s = Append(p, i) /\ p \in Seq(Nat) /\ Len(p) = n - 1
             /\ Filter!IsContainer(Filter!At(r, p)) /\ i \in 1..Filter!Size(Filter!At(r, p))

LEMMA LevelType ==
  ASSUME NEW r, NEW m \in Nat, NEW f, Levels(r, m, f)
  PROVE  LevelsHold(r, m, f)
<1>1. f[0] = {<<>>} /\ \A n \in 1..m : f[n] = Deeper(r, f[n - 1])
  BY LevelsAre
<1>2. ASSUME NEW n \in 1..m, NEW s \in f[n]
      PROVE  \E p \in f[n - 1], i \in Nat :
                /\ s = Append(p, i)
                /\ Filter!IsContainer(Filter!At(r, p)) /\ i \in 1..Filter!Size(Filter!At(r, p))
  <2>1. s \in Deeper(r, f[n - 1])
    BY <1>1
  <2>2. PICK p \in f[n - 1] : Filter!IsContainer(Filter!At(r, p)) /\ s \in Inside(r, p)
    BY <2>1, Zenon DEF Deeper
  <2>3. PICK i \in 1..Filter!Size(Filter!At(r, p)) : s = Append(p, i)
    BY <2>2, Zenon DEF Inside
  <2>4. i \in Nat
    BY IntervalInNat
  <2> QED BY <2>2, <2>3, <2>4
<1> DEFINE T == {n \in 0..m : \A s \in f[n] : s \in Seq(Nat) /\ Len(s) = n}
<1>3. 0 \in T
  <2>1. <<>> \in Seq(Nat) /\ Len(<<>>) = 0 /\ 0 \in 0..m
    OBVIOUS
  <2> QED BY <1>1, <2>1
<1>4. ASSUME NEW n \in 1..m, n - 1 \in T
      PROVE  n \in T
  <2>1. ASSUME NEW s \in f[n]
        PROVE  s \in Seq(Nat) /\ Len(s) = n
    <3>1. PICK p \in f[n - 1], i \in Nat : s = Append(p, i)
      BY <1>2
    <3>2. p \in Seq(Nat) /\ Len(p) = n - 1
      BY <1>4
    <3> QED BY <3>1, <3>2
  <2> QED BY <2>1
<1>5. T = 0..m
  <2>1. T \in SUBSET (0..m)
    OBVIOUS
  <2> HIDE DEF T
  <2> QED BY <1>3, <1>4, <2>1, Counting
<1> SUFFICES ASSUME NEW n \in 0..m, NEW s \in f[n]
             PROVE  /\ s \in Seq(Nat) /\ Len(s) = n
                    /\ n # 0 => \E p \in f[n - 1], i \in Nat :
                         /\ s = Append(p, i) /\ p \in Seq(Nat) /\ Len(p) = n - 1
                         /\ Filter!IsContainer(Filter!At(r, p)) /\ i \in 1..Filter!Size(Filter!At(r, p))
  BY Zenon DEF LevelsHold
<1>6. s \in Seq(Nat) /\ Len(s) = n
  BY <1>5
<1>7. ASSUME n # 0
      PROVE  \E p \in f[n - 1], i \in Nat :
                 /\ s = Append(p, i) /\ p \in Seq(Nat) /\ Len(p) = n - 1
                 /\ Filter!IsContainer(Filter!At(r, p)) /\ i \in 1..Filter!Size(Filter!At(r, p))
  <2>1. n \in 1..m /\ n - 1 \in 0..m
    BY <1>7
  <2>2. PICK p \in f[n - 1], i \in Nat :
                /\ s = Append(p, i)
                /\ Filter!IsContainer(Filter!At(r, p)) /\ i \in 1..Filter!Size(Filter!At(r, p))
    BY <1>2, <2>1
  <2>3. p \in Seq(Nat) /\ Len(p) = n - 1
    BY <1>5, <2>1
  <2> QED BY <2>2, <2>3
<1> QED BY <1>6, <1>7

LEMMA PlacesAre ==
  ASSUME NEW r
  PROVE  \E f : Levels(r, MaxDepth + 1, f) /\ Places(r) = UNION {f[n] : n \in 0..(MaxDepth + 1)}
<1> DEFINE m == MaxDepth + Len(<<>>) + 1
           f == CHOOSE f : Levels(r, m, f)
<1>1. m \in Nat /\ m = MaxDepth + 1
  BY LimitsAssumption
<1>2. Levels(r, m, f)
  <2> HIDE DEF m
  <2> QED BY <1>1, LevelsExist, Zenon
<1>3. DOMAIN f = 0..m
  <2> HIDE DEF m, f
  <2> QED BY <1>2, Zenon DEF Levels
<1>4. Places(r) = UNION {f[n] : n \in DOMAIN f}
  BY Zenon DEF Places, Filter!Below, Levels, Deeper, Inside
<1> HIDE DEF f, m
<1> QED BY <1>1, <1>2, <1>3, <1>4

\* A place is the root's, or that of a child of a container at another place.
LEMMA PlaceType ==
  ASSUME NEW r, NEW q \in Places(r)
  PROVE  /\ q \in Seq(Nat) /\ Len(q) <= MaxDepth + 1
         /\ q # <<>> => \E p \in Places(r), i \in Nat :
                /\ q = Append(p, i) /\ p \in Seq(Nat)
                /\ Filter!IsContainer(Filter!At(r, p)) /\ i \in 1..Filter!Size(Filter!At(r, p))
<1> DEFINE m == MaxDepth + 1
<1>1. m \in Nat
  BY LimitsAssumption
<1>2. PICK f : Levels(r, m, f) /\ Places(r) = UNION {f[n] : n \in 0..m}
  BY PlacesAre
<1> HIDE DEF m
<1>3. PICK n \in 0..m : q \in f[n]
  BY <1>2
<1>4. /\ q \in Seq(Nat) /\ Len(q) = n
      /\ n # 0 => \E p \in f[n - 1], i \in Nat :
           /\ q = Append(p, i) /\ p \in Seq(Nat) /\ Len(p) = n - 1
           /\ Filter!IsContainer(Filter!At(r, p)) /\ i \in 1..Filter!Size(Filter!At(r, p))
  <2>1. LevelsHold(r, m, f)
    BY <1>1, <1>2, LevelType
  <2> QED BY <1>3, <2>1, Zenon DEF LevelsHold
<1>5. ASSUME q # <<>>
      PROVE  \E p \in Places(r), i \in Nat :
                /\ q = Append(p, i) /\ p \in Seq(Nat)
                /\ Filter!IsContainer(Filter!At(r, p)) /\ i \in 1..Filter!Size(Filter!At(r, p))
  <2>1. n # 0
    BY <1>4, <1>5
  <2>2. f[n - 1] \subseteq Places(r)
    <3>1. n - 1 \in 0..m
      BY <1>1, <2>1
    <3> QED BY <1>2, <3>1
  <2> QED BY <1>4, <2>1, <2>2
<1>6. Len(q) <= MaxDepth + 1
  BY <1>1, <1>3, <1>4 DEF m
<1> QED BY <1>4, <1>5, <1>6

LEMMA RootPlace == \A r : <<>> \in Places(r)
<1> TAKE r
<1>1. MaxDepth + 1 \in Nat
  BY LimitsAssumption
<1>2. PICK f : Levels(r, MaxDepth + 1, f) /\ Places(r) = UNION {f[n] : n \in 0..(MaxDepth + 1)}
  BY PlacesAre
<1>3. <<>> \in f[0] /\ 0 \in 0..(MaxDepth + 1)
  <2>1. f[0] = {<<>>}
    BY <1>1, <1>2, LevelsAre
  <2> QED BY <1>1, <2>1
<1> QED BY <1>2, <1>3

LEMMA ChildPlace ==
  ASSUME NEW r, NEW p \in Places(r), Len(p) <= MaxDepth, Filter!IsContainer(Filter!At(r, p)),
         NEW i \in 1..Filter!Size(Filter!At(r, p))
  PROVE  Append(p, i) \in Places(r)
<1> DEFINE m == MaxDepth + 1
<1>1. m \in Nat
  BY LimitsAssumption
<1>2. PICK f : Levels(r, m, f) /\ Places(r) = UNION {f[n] : n \in 0..m}
  BY PlacesAre
<1>3. PICK n \in 0..m : p \in f[n]
  BY <1>2
<1>4. Len(p) = n
  <2> HIDE DEF m
  <2>1. LevelsHold(r, m, f)
    BY <1>1, <1>2, LevelType
  <2> QED BY <1>3, <2>1, Zenon DEF LevelsHold
<1>5. n + 1 \in 1..m /\ n + 1 \in 0..m /\ (n + 1) - 1 = n
  BY <1>3, <1>4, LimitsAssumption
<1>6. f[n + 1] = Deeper(r, f[n])
  <2>1. \A j \in 1..m : f[j] = Deeper(r, f[j - 1])
    <3> HIDE DEF m
    <3>1. Levels(r, m, f)
      BY <1>2
    <3>2. LevelsGrow(r, m, f)
      BY <1>1, <3>1, LevelsGrowing, Zenon
    <3> QED BY <3>2, Zenon DEF LevelsGrow
  <2> DEFINE k == n + 1
  <2>2. k \in 1..m /\ k - 1 = n
    BY <1>5
  <2> HIDE DEF m, k
  <2>3. f[k] = Deeper(r, f[k - 1])
    BY <2>1, <2>2, Zenon
  <2>4. f[k] = Deeper(r, f[n])
    BY <2>2, <2>3, Zenon
  <2> QED BY <2>4 DEF k
<1>7. Append(p, i) \in Deeper(r, f[n])
  <2>1. Append(p, i) \in Inside(r, p)
    BY Zenon DEF Inside
  <2> QED BY <1>3, <2>1, Zenon DEF Deeper
<1> HIDE DEF m
<1>8. Append(p, i) \in f[n + 1]
  BY <1>6, <1>7, Zenon
<1>9. f[n + 1] \in {f[j] : j \in 0..m}
  BY <1>5, Zenon
<1> QED BY <1>2, <1>8, <1>9, Zenon

LEMMA AppendIs ==
  ASSUME NEW s \in Seq(Nat), NEW e \in Nat
  PROVE  /\ Len(Append(s, e)) = Len(s) + 1 /\ Append(s, e)[Len(s) + 1] = e
         /\ \A i \in 1..Len(s) : Append(s, e)[i] = s[i]
OBVIOUS

LEMMA AppendSame ==
  ASSUME NEW s \in Seq(Nat), NEW t \in Seq(Nat), NEW d \in Nat, NEW e \in Nat,
         Append(s, d) = Append(t, e)
  PROVE  s = t /\ d = e
<1>1. /\ Len(Append(s, d)) = Len(s) + 1 /\ Append(s, d)[Len(s) + 1] = d
      /\ \A i \in 1..Len(s) : Append(s, d)[i] = s[i]
  BY AppendIs
<1>2. /\ Len(Append(t, e)) = Len(t) + 1 /\ Append(t, e)[Len(t) + 1] = e
      /\ \A i \in 1..Len(t) : Append(t, e)[i] = t[i]
  BY AppendIs
<1>3. Len(s) = Len(t) /\ Len(s) \in Nat /\ Len(t) \in Nat
  <2>1. Len(s) \in Nat /\ Len(t) \in Nat
    OBVIOUS
  <2> QED BY <1>1, <1>2, <2>1
<1>4. s = t
  BY <1>1, <1>2, <1>3, SameSequence
<1> QED BY <1>1, <1>2, <1>4

\* Every place on the way to a place is one.
LEMMA PlaceStart ==
  ASSUME NEW r, NEW q \in Places(r), NEW n \in 0..Len(q)
  PROVE  Start(q, n) \in Places(r)
<1> DEFINE len == Len(q)
           T == {j \in 0..len : Start(q, len - j) \in Places(r)}
<1>1. q \in Seq(Nat) /\ len \in Nat
  BY PlaceType
<1>2. 0 \in T
  <2>1. Start(q, len) = q
    BY <1>1, WholeStart
  <2> HIDE DEF len
  <2> QED BY <1>1, <2>1
<1>3. ASSUME NEW j \in 1..len, j - 1 \in T
      PROVE  j \in T
  <2> DEFINE m == len - (j - 1)
  <2>1. m \in 1..len /\ m \in 0..len /\ m - 1 = len - j /\ m - 1 \in 0..len /\ Start(q, m) \in Places(r)
    <3> HIDE DEF len
    <3> QED BY <1>1, <1>3
  <2> HIDE DEF m
  <2>2. Start(q, m) = Append(Start(q, m - 1), q[m])
    BY <1>1, <2>1, OneMore
  <2>3. Start(q, m - 1) \in Seq(Nat) /\ q[m] \in Nat /\ Len(Start(q, m)) = m
    <3>1. Start(q, m - 1) \in Seq(Nat)
      BY <1>1, <2>1, StartIs
    <3>2. Len(Start(q, m)) = m
      BY <1>1, <2>1, StartIs
    <3>3. q[m] \in Nat
      BY <1>1, <2>1
    <3> QED BY <3>1, <3>2, <3>3
  <2>4. Start(q, m) # <<>>
    BY <2>1, <2>3
  <2>5. PICK p \in Places(r), i \in Nat : Start(q, m) = Append(p, i) /\ p \in Seq(Nat)
    BY <2>1, <2>4, PlaceType
  <2>6. p = Start(q, m - 1)
    BY <2>2, <2>3, <2>5, AppendSame, Zenon
  <2> QED BY <2>1, <2>5, <2>6
<1>4. T = 0..len
  <2>1. T \in SUBSET (0..len)
    OBVIOUS
  <2> HIDE DEF T, len
  <2> QED BY <1>1, <1>2, <1>3, <2>1, Counting
<1>5. len - n \in 0..len /\ len - (len - n) = n
  BY <1>1
<1> HIDE DEF len
<1> QED BY <1>4, <1>5

LEMMA PlaceStep ==
  ASSUME NEW r, NEW q \in Places(r), NEW n \in 1..Len(q)
  PROVE  /\ Filter!IsContainer(Filter!At(r, Start(q, n - 1)))
         /\ q[n] \in 1..Filter!Size(Filter!At(r, Start(q, n - 1)))
<1>1. q \in Seq(Nat) /\ n \in 0..Len(q) /\ n - 1 \in 0..Len(q)
  BY PlaceType
<1>2. Start(q, n) \in Places(r)
  BY <1>1, PlaceStart
<1>3. Start(q, n) = Append(Start(q, n - 1), q[n])
  BY <1>1, OneMore
<1>4. Start(q, n - 1) \in Seq(Nat) /\ q[n] \in Nat /\ Len(Start(q, n)) = n
  BY <1>1, StartIs
<1>5. Start(q, n) # <<>>
  BY <1>4
<1>6. PICK p \in Places(r), i \in Nat :
         /\ Start(q, n) = Append(p, i) /\ p \in Seq(Nat)
         /\ Filter!IsContainer(Filter!At(r, p)) /\ i \in 1..Filter!Size(Filter!At(r, p))
  BY <1>2, <1>5, PlaceType
<1>7. p = Start(q, n - 1) /\ i = q[n]
  <2>1. Append(p, i) = Append(Start(q, n - 1), q[n])
    BY <1>3, <1>6
  <2>2. p \in Seq(Nat) /\ i \in Nat
    BY <1>6
  <2> QED BY <1>4, <2>1, <2>2, AppendSame, Zenon
<1> QED BY <1>6, <1>7

-----------------------------------------------------------------------------
(* Paths and the places they lead to *)

\* A component is a string, no object without a key has it.
Component == STRING \ {NoKey}
Labels(q) == {c \in Component : \/ c = Glob
                                \/ c = Filter!At(root, q).key /\ c # ""}

LEMMA LabelsAre ==
  ASSUME NEW q, NEW c \in Component
  PROVE  c \in Labels(q) <=> c = Glob \/ (c = Filter!At(root, q).key /\ c # "")
BY DEF Labels

LEMMA LeadsIs ==
  ASSUME NEW t \in Seq(Component), NEW q \in Seq(Nat)
  PROVE  Filter!LeadsTo(t, q) <=>
            Len(t) = Len(q) /\ \A i \in 1..Len(t) : t[i] \in Labels(Start(q, i))
<1>1. DOMAIN t = 1..Len(t) /\ \A i \in 1..Len(t) : t[i] \in Component
  OBVIOUS
<1>2. \A i \in 1..Len(t) : t[i] \in Labels(Start(q, i)) <=>
            \/ t[i] = Glob
            \/ t[i] = Filter!At(root, Start(q, i)).key /\ t[i] # ""
  BY <1>1, LabelsAre
<1> QED BY <1>1, <1>2, Zenon DEF Filter!LeadsTo, Start

LEMMA LeadsStart ==
  ASSUME NEW t \in Seq(Component), NEW q \in Seq(Nat), Filter!LeadsTo(t, q), NEW n \in 0..Len(t)
  PROVE  Filter!LeadsTo(Start(t, n), Start(q, n))
<1>1. Len(t) = Len(q) /\ \A i \in 1..Len(t) : t[i] \in Labels(Start(q, i))
  BY LeadsIs
<1>2. Start(t, n) \in Seq(Component) /\ Len(Start(t, n)) = n /\ \A i \in 1..n : Start(t, n)[i] = t[i]
  BY StartIs
<1>3. n \in 0..Len(q)
  BY <1>1
<1>4. Start(q, n) \in Seq(Nat) /\ Len(Start(q, n)) = n
  BY <1>3, StartIs
<1>5. \A i \in 1..n : Start(Start(q, n), i) = Start(q, i)
  <2> TAKE i \in 1..n
  <2>1. i \in 0..n
    OBVIOUS
  <2> QED BY <1>3, <2>1, StartOfStart
<1>6. \A i \in 1..n : i \in 1..Len(t)
  OBVIOUS
<1>7. \A i \in 1..n : Start(t, n)[i] \in Labels(Start(Start(q, n), i))
  BY <1>1, <1>2, <1>5, <1>6
<1> QED BY <1>2, <1>4, <1>7, LeadsIs

LEMMA LeadsChild ==
  ASSUME NEW t \in Seq(Component), NEW c \in Component, NEW q \in Seq(Nat), NEW i \in Nat
  PROVE  Filter!LeadsTo(Append(t, c), Append(q, i)) <=>
            Filter!LeadsTo(t, q) /\ c \in Labels(Append(q, i))
<1> DEFINE u == Append(t, c)
           p == Append(q, i)
<1>1. /\ u \in Seq(Component) /\ Len(u) = Len(t) + 1 /\ u[Len(t) + 1] = c
      /\ \A j \in 1..Len(t) : u[j] = t[j]
  OBVIOUS
<1>2. p \in Seq(Nat) /\ Len(p) = Len(q) + 1 /\ Start(p, Len(p)) = p
  <2>1. p \in Seq(Nat) /\ Len(p) = Len(q) + 1
    OBVIOUS
  <2> HIDE DEF p
  <2> QED BY <2>1, WholeStart
<1>3. \A j \in 1..Len(q) : Start(p, j) = Start(q, j)
  <2> TAKE j \in 1..Len(q)
  <2>1. j \in 0..Len(q)
    OBVIOUS
  <2> QED BY <2>1, StartOfAppend
<1>4. Len(t) \in Nat /\ Len(q) \in Nat
  OBVIOUS
<1> HIDE DEF u, p
<1>5. Filter!LeadsTo(u, p) <=> Len(u) = Len(p) /\ \A j \in 1..Len(u) : u[j] \in Labels(Start(p, j))
  BY <1>1, <1>2, LeadsIs
<1>6. Filter!LeadsTo(t, q) <=> Len(t) = Len(q) /\ \A j \in 1..Len(t) : t[j] \in Labels(Start(q, j))
  BY LeadsIs
<1>7. ASSUME Len(t) = Len(q)
      PROVE  (\A j \in 1..Len(u) : u[j] \in Labels(Start(p, j))) <=>
                (\A j \in 1..Len(t) : t[j] \in Labels(Start(q, j))) /\ c \in Labels(p)
  <2> DEFINE l == Len(t)
  <2>1. l \in Nat /\ Len(u) = l + 1 /\ Len(p) = l + 1 /\ Len(q) = l
    BY <1>1, <1>2, <1>4, <1>7
  <2> HIDE DEF l
  <2>2. \A j \in 1..(l + 1) : j \in 1..l \/ j = l + 1
    BY <2>1
  <2>3. \A j \in 1..l : j \in 1..(l + 1)
    BY <2>1
  <2>4. l + 1 \in 1..(l + 1)
    BY <2>1
  <2>5. u[l + 1] = c /\ Start(p, l + 1) = p
    BY <1>1, <1>2, <2>1 DEF l
  <2>6. \A j \in 1..l : u[j] = t[j] /\ Start(p, j) = Start(q, j)
    BY <1>1, <1>3, <2>1 DEF l
  <2>7. (\A j \in 1..(l + 1) : u[j] \in Labels(Start(p, j))) <=>
                (\A j \in 1..l : t[j] \in Labels(Start(q, j))) /\ c \in Labels(p)
    BY <2>2, <2>3, <2>4, <2>5, <2>6
  <2> QED BY <2>1, <2>7 DEF l
<1>8. Len(u) = Len(p) <=> Len(t) = Len(q)
  BY <1>1, <1>2, <1>4
<1>9. Filter!LeadsTo(u, p) <=> Filter!LeadsTo(t, q) /\ c \in Labels(p)
  BY <1>5, <1>6, <1>7, <1>8
<1> QED BY <1>9 DEF u, p

-----------------------------------------------------------------------------
(* The trie *)

\* The path t begins with s.
Extends(t, s) == Len(s) <= Len(t) /\ s = Start(t, Len(s))

LEMMA ExtendsIs ==
  ASSUME NEW s \in Seq(Component), NEW t \in Seq(Component)
  PROVE  /\ Filter!IsStrictPrefix(s, t) <=> Extends(t, s) /\ s # t
         /\ s \in Filter!PrefixesOf(t) <=> Extends(t, s)
<1>1. Filter!IsStrictPrefix(s, t) <=> Len(s) < Len(t) /\ s = Start(t, Len(s))
  BY StrictIs
<1>2. Len(s) \in Nat /\ Len(t) \in Nat /\ Start(t, Len(t)) = t
  <2>1. Start(t, Len(t)) = t
    BY WholeStart
  <2> QED BY <2>1
<1>3. Filter!IsStrictPrefix(s, t) <=> Extends(t, s) /\ s # t
  BY <1>1, <1>2 DEF Extends
<1>4. s \in Filter!PrefixesOf(t) <=> \E n \in 0..Len(t) : s = Start(t, n)
  BY Zenon DEF Filter!PrefixesOf, Start
<1>5. ASSUME NEW n \in 0..Len(t), s = Start(t, n)
      PROVE  Extends(t, s)
  <2>1. Len(s) = n
    BY <1>5, StartIs
  <2> QED BY <1>5, <2>1 DEF Extends
<1>6. Extends(t, s) => Len(s) \in 0..Len(t) /\ s = Start(t, Len(s))
  BY <1>2 DEF Extends
<1> QED BY <1>3, <1>4, <1>5, <1>6

LEMMA ExtendsItself == \A s \in Seq(Component) : Extends(s, s)
<1> TAKE s \in Seq(Component)
<1>1. Start(s, Len(s)) = s /\ Len(s) \in Nat
  BY WholeStart
<1> QED BY <1>1 DEF Extends

LEMMA ExtendsNothing == \A s \in Seq(Component) : Extends(s, <<>>) /\ (Extends(<<>>, s) => s = <<>>)
<1> TAKE s \in Seq(Component)
<1>1. Start(s, 0) = <<>> /\ Len(s) \in Nat /\ Len(<<>>) = 0
  BY WholeStart
<1>2. Len(s) <= 0 => s = <<>>
  BY <1>1
<1> QED BY <1>1, <1>2 DEF Extends

LEMMA ExtendsBoth ==
  ASSUME NEW s \in Seq(Component), NEW t \in Seq(Component), NEW u \in Seq(Component)
  PROVE  /\ Extends(t, s) /\ Extends(u, t) => Extends(u, s)
         /\ Extends(u, s) /\ Extends(u, t) => Extends(t, s) \/ Extends(s, t)
         /\ Extends(t, s) /\ Extends(s, t) => s = t
<1>1. Len(s) \in Nat /\ Len(t) \in Nat /\ Len(u) \in Nat
  OBVIOUS
<1>2. ASSUME NEW v \in Seq(Component), Extends(u, v), NEW n \in 0..Len(v)
      PROVE  Start(v, n) = Start(u, n)
  <2>1. Len(v) \in 0..Len(u) /\ v = Start(u, Len(v))
    BY <1>1, <1>2 DEF Extends
  <2>2. Start(Start(u, Len(v)), n) = Start(u, n)
    BY <1>2, <2>1, StartOfStart
  <2> QED BY <2>1, <2>2
<1>3. ASSUME Extends(t, s), Extends(u, t)
      PROVE  Extends(u, s)
  <2>1. Len(s) \in 0..Len(t) /\ s = Start(t, Len(s)) /\ Len(t) <= Len(u)
    BY <1>1, <1>3 DEF Extends
  <2>2. Start(t, Len(s)) = Start(u, Len(s))
    BY <1>2, <1>3, <2>1
  <2>3. Len(s) <= Len(u) /\ s = Start(u, Len(s))
    BY <1>1, <2>1, <2>2
  <2> QED BY <2>3, Zenon DEF Extends
<1>4. ASSUME Extends(u, s), Extends(u, t), Len(s) <= Len(t)
      PROVE  Extends(t, s)
  <2>1. Len(s) \in 0..Len(t) /\ s = Start(u, Len(s))
    BY <1>1, <1>4 DEF Extends
  <2>2. Start(t, Len(s)) = Start(u, Len(s))
    BY <1>2, <1>4, <2>1
  <2>3. s = Start(t, Len(s))
    BY <2>1, <2>2
  <2> QED BY <1>4, <2>3, Zenon DEF Extends
<1>5. ASSUME Extends(u, s), Extends(u, t), Len(t) <= Len(s)
      PROVE  Extends(s, t)
  <2>1. Len(t) \in 0..Len(s) /\ t = Start(u, Len(t))
    BY <1>1, <1>5 DEF Extends
  <2>2. Start(s, Len(t)) = Start(u, Len(t))
    BY <1>2, <1>5, <2>1
  <2>3. t = Start(s, Len(t))
    BY <2>1, <2>2
  <2> QED BY <1>5, <2>3, Zenon DEF Extends
<1>6. Len(s) <= Len(t) \/ Len(t) <= Len(s)
  BY <1>1
<1>7. Extends(t, s) /\ Extends(s, t) => s = t
  <2>1. Start(t, Len(t)) = t
    BY WholeStart
  <2>2. Len(s) <= Len(t) /\ Len(t) <= Len(s) => Len(s) = Len(t)
    BY <1>1
  <2> QED BY <2>1, <2>2 DEF Extends
<1> QED BY <1>3, <1>4, <1>5, <1>6, <1>7

\* A node of the trie X is terminal, and X is what comes of inserting the
\* paths I: its terminal nodes are some of them, and each of them begins with one.
Final(X, node) == \A other \in X : ~Filter!IsStrictPrefix(node, other)
TrieOf(X, I) ==
    /\ X \in SUBSET Seq(Component)
    /\ I = {} => X = {}
    /\ \A node \in X : Filter!PrefixesOf(node) \subseteq X
    /\ \A node \in X : Final(X, node) => node \in I
    /\ \A p \in I : \E t \in Filter!PrefixesOf(p) \cap X : Final(X, t) /\ (t = <<>> => p = <<>>)

\* The same, by Extends.
LEMMA FinalIs ==
  ASSUME NEW X \in SUBSET Seq(Component), NEW t \in Seq(Component)
  PROVE  Final(X, t) <=> \A o \in X : Extends(o, t) => o = t
<1>1. \A o \in X : Filter!IsStrictPrefix(t, o) <=> Extends(o, t) /\ t # o
  BY ExtendsIs
<1> QED BY <1>1, Zenon DEF Final

LEMMA TrieIs ==
  ASSUME NEW X \in SUBSET Seq(Component), NEW I \in SUBSET Seq(Component)
  PROVE  TrieOf(X, I) <=>
            /\ I = {} => X = {}
            /\ \A node \in X, s \in Seq(Component) : Extends(node, s) => s \in X
            /\ \A node \in X : Final(X, node) => node \in I
            /\ \A p \in I : \E t \in X : Extends(p, t) /\ Final(X, t) /\ (t = <<>> => p = <<>>)
<1>1. ASSUME NEW node \in Seq(Component)
      PROVE  Filter!PrefixesOf(node) = {s \in Seq(Component) : Extends(node, s)}
  <2>1. Filter!PrefixesOf(node) \subseteq Seq(Component)
    <3>1. \A n \in 0..Len(node) : Start(node, n) \in Seq(Component)
      BY StartIs
    <3> QED BY <3>1, Zenon DEF Filter!PrefixesOf, Start
  <2>2. \A s \in Seq(Component) : s \in Filter!PrefixesOf(node) <=> Extends(node, s)
    BY ExtendsIs
  <2> QED BY <2>1, <2>2
<1>2. \A node \in X : Filter!PrefixesOf(node) \subseteq X
         <=> \A s \in Seq(Component) : Extends(node, s) => s \in X
  <2> TAKE node \in X
  <2>1. Filter!PrefixesOf(node) = {s \in Seq(Component) : Extends(node, s)}
    BY <1>1
  <2> QED BY <2>1
<1>3. \A p \in I, t \in X : t \in Filter!PrefixesOf(p) <=> Extends(p, t)
  <2> TAKE p \in I, t \in X
  <2>1. Filter!PrefixesOf(p) = {s \in Seq(Component) : Extends(p, s)} /\ t \in Seq(Component)
    BY <1>1
  <2> QED BY <2>1
<1>4. (\A node \in X : Filter!PrefixesOf(node) \subseteq X)
         <=> (\A node \in X, s \in Seq(Component) : Extends(node, s) => s \in X)
  BY <1>2, Zenon
<1>5. (\A p \in I : \E t \in Filter!PrefixesOf(p) \cap X : Final(X, t) /\ (t = <<>> => p = <<>>))
         <=> (\A p \in I : \E t \in X : Extends(p, t) /\ Final(X, t) /\ (t = <<>> => p = <<>>))
  <2>1. ASSUME NEW p \in I
        PROVE  (\E t \in Filter!PrefixesOf(p) \cap X : Final(X, t) /\ (t = <<>> => p = <<>>))
                 <=> (\E t \in X : Extends(p, t) /\ Final(X, t) /\ (t = <<>> => p = <<>>))
    BY <1>3, Zenon
  <2> QED BY <2>1, Zenon
<1> QED BY <1>4, <1>5, Zenon DEF TrieOf

\* The three outcomes of an insertion.
Begun(X, q) == \E node \in X : node # <<>> /\ Extends(q, node) /\ Final(X, node)
CutAt(X, q) == {node \in X : ~Filter!IsStrictPrefix(q, node)}

LEMMA CutKeeps ==
  ASSUME NEW X \in SUBSET Seq(Component), NEW I \in SUBSET Seq(Component), NEW q \in Seq(Component),
         TrieOf(X, I), q # <<>>, q \in X
  PROVE  TrieOf(CutAt(X, q), I \cup {q})
<1> DEFINE Y == CutAt(X, q)
<1>1. Y \in SUBSET X /\ Y \in SUBSET Seq(Component) /\ \A n \in X : n \in Y <=> (Extends(n, q) => n = q)
  <2>1. \A n \in X : Filter!IsStrictPrefix(q, n) <=> Extends(n, q) /\ q # n
    BY ExtendsIs
  <2> QED BY <2>1, Zenon DEF CutAt
<1>2. /\ \A node \in X, s \in Seq(Component) : Extends(node, s) => s \in X
      /\ \A node \in X : Final(X, node) => node \in I
      /\ \A p \in I : \E t \in X : Extends(p, t) /\ Final(X, t) /\ (t = <<>> => p = <<>>)
  BY TrieIs, Zenon
<1> HIDE DEF Y
<1>3. q \in Y /\ Final(Y, q)
  <2>1. q \in Y
    BY <1>1
  <2>2. \A o \in Y : Extends(o, q) => o = q
    BY <1>1
  <2> QED BY <1>1, <2>1, <2>2, FinalIs
<1>4. ASSUME NEW n \in Y, NEW s \in Seq(Component), Extends(n, s)
      PROVE  s \in Y
  <2>1. s \in X /\ n \in Seq(Component)
    BY <1>1, <1>2, <1>4
  <2>2. ASSUME Extends(s, q)
        PROVE  s = q
    <3>1. Extends(n, q)
      BY <1>4, <2>1, <2>2, ExtendsBoth
    <3>2. n = q
      BY <1>1, <3>1
    <3> QED BY <1>4, <2>2, <3>2, ExtendsBoth
  <2> QED BY <1>1, <2>1, <2>2
<1>5. ASSUME NEW n \in Y, Final(Y, n)
      PROVE  n \in I \cup {q}
  <2>1. n \in X /\ n \in Seq(Component)
    BY <1>1
  <2>2. \A o \in Y : Extends(o, n) => o = n
    BY <1>1, <1>5, <2>1, FinalIs
  <2>3. CASE Final(X, n)
    BY <1>2, <2>1, <2>3
  <2>4. CASE ~Final(X, n)
    <3>1. PICK o \in X : Extends(o, n) /\ o # n
      BY <2>1, <2>4, FinalIs
    <3>2. o \in Seq(Component) /\ Extends(o, q)
      BY <1>1, <2>2, <3>1
    <3>3. Extends(q, n) \/ Extends(n, q)
      BY <2>1, <3>1, <3>2, ExtendsBoth
    <3> QED BY <1>1, <1>3, <2>1, <2>2, <3>3
  <2> QED BY <2>3, <2>4
<1>6. ASSUME NEW p \in I
      PROVE  \E t \in Y : Extends(p, t) /\ Final(Y, t) /\ (t = <<>> => p = <<>>)
  <2>1. PICK t \in X : Extends(p, t) /\ Final(X, t) /\ (t = <<>> => p = <<>>)
    BY <1>2
  <2>2. t \in Seq(Component) /\ p \in Seq(Component) /\ \A o \in X : Extends(o, t) => o = t
    <3>1. t \in Seq(Component) /\ p \in Seq(Component)
      OBVIOUS
    <3> QED BY <2>1, <3>1, FinalIs
  <2>3. CASE t \in Y
    <3>1. \A o \in Y : Extends(o, t) => o = t
      BY <1>1, <2>2
    <3>2. Final(Y, t)
      BY <1>1, <2>2, <3>1, FinalIs
    <3> QED BY <2>1, <2>3, <3>2
  <2>4. CASE t \notin Y
    <3>1. Extends(t, q)
      BY <1>1, <2>4
    <3>2. Extends(p, q)
      BY <2>1, <2>2, <3>1, ExtendsBoth
    <3> QED BY <1>3, <3>2
  <2> QED BY <2>3, <2>4
<1>7. \E t \in Y : Extends(q, t) /\ Final(Y, t) /\ (t = <<>> => q = <<>>)
  BY <1>3, ExtendsItself
<1>8. I \cup {q} \in SUBSET Seq(Component) /\ I \cup {q} # {}
  OBVIOUS
<1>9. TrieOf(Y, I \cup {q})
  <2> DEFINE J == I \cup {q}
  <2>1. \A p \in J : \E t \in Y : Extends(p, t) /\ Final(Y, t) /\ (t = <<>> => p = <<>>)
    BY <1>6, <1>7
  <2>2. \A n \in Y : Final(Y, n) => n \in J
    BY <1>5
  <2>3. J \in SUBSET Seq(Component) /\ J # {}
    BY <1>8
  <2> HIDE DEF J
  <2>4. TrieOf(Y, J)
    BY <1>1, <1>4, <2>1, <2>2, <2>3, TrieIs, Zenon
  <2> QED BY <2>4 DEF J
<1> QED BY <1>9 DEF Y

LEMMA JoinKeeps ==
  ASSUME NEW X \in SUBSET Seq(Component), NEW I \in SUBSET Seq(Component), NEW q \in Seq(Component),
         TrieOf(X, I), <<>> \notin I, q \notin X, ~Begun(X, q)
  PROVE  TrieOf(X \cup Filter!PrefixesOf(q), I \cup {q})
<1> DEFINE Y == X \cup Filter!PrefixesOf(q)
           J == I \cup {q}
<1>1. Filter!PrefixesOf(q) = {s \in Seq(Component) : Extends(q, s)}
  <2>1. \A n \in 0..Len(q) : Start(q, n) \in Seq(Component)
    BY StartIs
  <2>2. Filter!PrefixesOf(q) \subseteq Seq(Component)
    BY <2>1, Zenon DEF Filter!PrefixesOf, Start
  <2>3. \A s \in Seq(Component) : s \in Filter!PrefixesOf(q) <=> Extends(q, s)
    BY ExtendsIs
  <2> QED BY <2>2, <2>3
<1>2. /\ Y \in SUBSET Seq(Component) /\ X \in SUBSET Y /\ J \in SUBSET Seq(Component) /\ J # {}
      /\ \A s \in Seq(Component) : s \in Y <=> s \in X \/ Extends(q, s)
  BY <1>1
<1>3. /\ \A node \in X, s \in Seq(Component) : Extends(node, s) => s \in X
      /\ \A node \in X : Final(X, node) => node \in I
      /\ \A p \in I : \E t \in X : Extends(p, t) /\ Final(X, t) /\ (t = <<>> => p = <<>>)
  BY TrieIs, Zenon
<1>4. I \in SUBSET J /\ q \in J
  OBVIOUS
<1>5. \A p \in J : p \in I \/ p = q
  OBVIOUS
<1> HIDE DEF Y, J
<1>6. q \in Y /\ Final(Y, q)
  <2>1. q \in Y
    BY <1>2, ExtendsItself
  <2>2. ASSUME NEW o \in Y, Extends(o, q)
        PROVE  o = q
    <3>1. o \in Seq(Component)
      BY <1>2
    <3>2. o \notin X
      BY <1>3, <2>2
    <3>3. Extends(q, o)
      BY <1>2, <3>1, <3>2
    <3> QED BY <2>2, <3>1, <3>3, ExtendsBoth
  <2> QED BY <1>2, <2>1, <2>2, FinalIs
<1>7. ASSUME NEW n \in Y, NEW s \in Seq(Component), Extends(n, s)
      PROVE  s \in Y
  <2>1. n \in Seq(Component)
    BY <1>2
  <2>2. CASE n \in X
    BY <1>2, <1>3, <1>7, <2>2
  <2>3. CASE Extends(q, n)
    <3>1. Extends(q, s)
      BY <1>7, <2>1, <2>3, ExtendsBoth
    <3> QED BY <1>2, <3>1
  <2> QED BY <1>2, <2>1, <2>2, <2>3
<1>8. ASSUME NEW n \in Y, Final(Y, n)
      PROVE  n \in J
  <2>1. n \in Seq(Component)
    BY <1>2
  <2>2. \A o \in Y : Extends(o, n) => o = n
    BY <1>2, <1>8, <2>1, FinalIs
  <2>3. CASE n \in X
    <3>1. Final(X, n)
      BY <1>2, <2>1, <2>2, FinalIs
    <3> QED BY <1>3, <1>4, <2>3, <3>1
  <2>4. CASE Extends(q, n)
    BY <1>4, <1>6, <2>2, <2>4
  <2> QED BY <1>2, <2>1, <2>3, <2>4
<1>9. ASSUME NEW p \in I
      PROVE  \E t \in Y : Extends(p, t) /\ Final(Y, t) /\ (t = <<>> => p = <<>>)
  <2>1. PICK t \in X : Extends(p, t) /\ Final(X, t) /\ (t = <<>> => p = <<>>)
    BY <1>3
  <2>2. t \in Seq(Component) /\ t # <<>> /\ \A o \in X : Extends(o, t) => o = t
    <3>1. t \in Seq(Component) /\ t # <<>>
      BY <2>1
    <3> QED BY <2>1, <3>1, FinalIs
  <2>3. ASSUME NEW o \in Y, Extends(o, t)
        PROVE  o = t
    <3>1. o \in Seq(Component)
      BY <1>2
    <3>2. CASE o \in X
      BY <2>2, <2>3, <3>2
    <3>3. CASE Extends(q, o)
      <4>1. Extends(q, t)
        BY <2>2, <2>3, <3>1, <3>3, ExtendsBoth
      <4> QED BY <2>1, <2>2, <4>1, Zenon DEF Begun
    <3> QED BY <1>2, <3>1, <3>2, <3>3
  <2>4. Final(Y, t) /\ t \in Y
    BY <1>2, <2>2, <2>3, FinalIs
  <2> QED BY <2>1, <2>4
<1>10. ASSUME NEW p \in J
       PROVE  \E t \in Y : Extends(p, t) /\ Final(Y, t) /\ (t = <<>> => p = <<>>)
  <2>1. CASE p \in I
    BY <1>9, <2>1
  <2>2. CASE p = q
    BY <1>6, <2>2, ExtendsItself
  <2> QED BY <1>5, <2>1, <2>2
<1>11. TrieOf(Y, J)
  BY <1>2, <1>7, <1>8, <1>10, TrieIs, Zenon
<1> QED BY <1>11 DEF Y, J

LEMMA BegunKeeps ==
  ASSUME NEW X \in SUBSET Seq(Component), NEW I \in SUBSET Seq(Component), NEW q \in Seq(Component),
         TrieOf(X, I), Begun(X, q)
  PROVE  TrieOf(X, I \cup {q})
<1> DEFINE J == I \cup {q}
<1>1. /\ \A node \in X, s \in Seq(Component) : Extends(node, s) => s \in X
      /\ \A node \in X : Final(X, node) => node \in I
      /\ \A p \in I : \E t \in X : Extends(p, t) /\ Final(X, t) /\ (t = <<>> => p = <<>>)
  BY TrieIs, Zenon
<1>2. \E t \in X : Extends(q, t) /\ Final(X, t) /\ (t = <<>> => q = <<>>)
  BY Zenon DEF Begun
<1>3. \A p \in J : \E t \in X : Extends(p, t) /\ Final(X, t) /\ (t = <<>> => p = <<>>)
  BY <1>1, <1>2
<1>4. J \in SUBSET Seq(Component) /\ J # {} /\ I \in SUBSET J
  OBVIOUS
<1> HIDE DEF J
<1>5. TrieOf(X, J)
  BY <1>1, <1>3, <1>4, TrieIs, Zenon
<1> QED BY <1>5 DEF J

\* What is inserted, in whatever order, makes a trie of it.
LEMMA WithPathKeeps ==
  ASSUME NEW I \in SUBSET Seq(Component), NEW q \in Seq(Component), trie \in SUBSET Seq(Component),
         TrieOf(trie, I), \/ q # <<>> /\ <<>> \notin I
                          \/ q = <<>> /\ I = {}
  PROVE  TrieOf(Filter!WithPath(q), I \cup {q})
<1>1. \A t \in trie : Filter!IsTerminal(t) <=> Final(trie, t)
  BY Zenon DEF Filter!IsTerminal, Final
<1>2. (\E node \in (Filter!PrefixesOf(q) \ {<<>>}) \cap trie : Filter!IsTerminal(node)) <=> Begun(trie, q)
  <2>1. \A node \in trie : node \in Filter!PrefixesOf(q) <=> Extends(q, node)
    <3> TAKE node \in trie
    <3>1. node \in Seq(Component)
      OBVIOUS
    <3> QED BY <3>1, ExtendsIs
  <2> QED BY <1>1, <2>1, Zenon DEF Begun
<1>3. CASE Begun(trie, q)
  <2>1. PICK node \in trie : Extends(q, node) /\ Final(trie, node)
    BY <1>3 DEF Begun
  <2>2. node \in Seq(Component) /\ (q \in trie => q = node)
    <3>1. node \in Seq(Component)
      OBVIOUS
    <3> QED BY <2>1, <3>1, FinalIs
  <2>3. ~(q # <<>> /\ q \in trie /\ ~Filter!IsTerminal(q))
    BY <1>1, <2>1, <2>2
  <2>4. Filter!WithPath(q) = trie
    BY <1>2, <1>3, <2>3 DEF Filter!WithPath
  <2> QED BY <1>3, <2>4, BegunKeeps
<1>4. CASE ~Begun(trie, q) /\ q # <<>> /\ q \in trie
  <2>1. ~Filter!IsTerminal(q)
    <3>1. Extends(q, q)
      BY ExtendsItself
    <3> QED BY <1>1, <1>4, <3>1 DEF Begun
  <2>2. Filter!WithPath(q) = CutAt(trie, q)
    BY <1>2, <1>4, <2>1 DEF Filter!WithPath, CutAt
  <2> QED BY <1>4, <2>2, CutKeeps
<1>5. CASE ~Begun(trie, q) /\ q # <<>> /\ q \notin trie
  <2>1. Filter!WithPath(q) = trie \cup Filter!PrefixesOf(q)
    BY <1>2, <1>5 DEF Filter!WithPath
  <2>2. <<>> \notin I
    BY <1>5
  <2>3. TrieOf(trie \cup Filter!PrefixesOf(q), I \cup {q})
    BY <1>5, <2>2, JoinKeeps
  <2> QED BY <2>1, <2>3
<1>6. CASE ~Begun(trie, q) /\ q = <<>>
  <2>1. Filter!WithPath(q) = trie \cup Filter!PrefixesOf(q)
    BY <1>2, <1>6 DEF Filter!WithPath
  <2>2. trie = {} /\ I = {} /\ <<>> \notin I /\ q \notin trie
    BY <1>6 DEF TrieOf
  <2>3. TrieOf(trie \cup Filter!PrefixesOf(q), I \cup {q})
    BY <1>6, <2>2, JoinKeeps
  <2> QED BY <2>1, <2>3
<1> QED BY <1>3, <1>4, <1>5, <1>6

-----------------------------------------------------------------------------
(* What the nodes of the trie that lead to a place say of it *)

Leading(q) == {node \in trie : Filter!LeadsTo(node, q)}
FreeAbove(q) == \A n \in 0..Len(q) - 1 : ~Filter!Named(Start(q, n))
Unnamed(q) == FreeAbove(q) /\ ~Filter!Named(q)

\* The trie is that of the paths of the filter.
Complete == /\ paths \in SUBSET Seq(Component) /\ trie \in SUBSET Seq(Component)
            /\ TrieOf(trie, paths)

LEMMA CompleteIs ==
  ASSUME Complete
  PROVE  /\ trie \in SUBSET Seq(Component) /\ paths \in SUBSET Seq(Component)
         /\ \A node \in trie, o \in Seq(Component) : Extends(node, o) => o \in trie
         /\ \A node \in trie : Final(trie, node) => node \in paths
         /\ \A p \in paths : \E t \in trie : Extends(p, t) /\ Final(trie, t)
<1>1. trie \in SUBSET Seq(Component) /\ paths \in SUBSET Seq(Component) /\ TrieOf(trie, paths)
  BY DEF Complete
<1>2. /\ \A node \in trie, o \in Seq(Component) : Extends(node, o) => o \in trie
      /\ \A node \in trie : Final(trie, node) => node \in paths
      /\ \A p \in paths : \E t \in trie : Extends(p, t) /\ Final(trie, t) /\ (t = <<>> => p = <<>>)
  BY <1>1, TrieIs, Zenon
<1> QED BY <1>1, <1>2

\* The node with which a path begins names a place on the way to where it leads.
LEMMA NamedOnTheWay ==
  ASSUME Complete, NEW q \in Seq(Nat), Filter!Named(q)
  PROVE  \E t \in trie : /\ Len(t) <= Len(q) /\ Final(trie, t) /\ t \in paths
                         /\ Filter!LeadsTo(t, Start(q, Len(t)))
<1>1. PICK p \in paths : Filter!LeadsTo(p, q)
  BY DEF Filter!Named
<1>2. p \in Seq(Component) /\ paths \in SUBSET Seq(Component) /\ trie \in SUBSET Seq(Component)
  BY DEF Complete
<1>3. /\ \A node \in trie : Final(trie, node) => node \in paths
      /\ \E t \in trie : Extends(p, t) /\ Final(trie, t)
  BY CompleteIs
<1>4. PICK t \in trie : Extends(p, t) /\ Final(trie, t)
  BY <1>3
<1>5. t \in Seq(Component) /\ Len(t) \in Nat /\ Len(p) = Len(q)
  <2>1. Len(p) = Len(q)
    BY <1>1, <1>2, LeadsIs
  <2> QED BY <1>2, <2>1
<1>6. Len(t) \in 0..Len(p) /\ t = Start(p, Len(t))
  BY <1>4, <1>5 DEF Extends
<1>7. Filter!LeadsTo(Start(p, Len(t)), Start(q, Len(t)))
  BY <1>1, <1>2, <1>6, LeadsStart
<1>8. Len(t) <= Len(q) /\ Filter!LeadsTo(t, Start(q, Len(t)))
  BY <1>5, <1>6, <1>7
<1> QED BY <1>3, <1>4, <1>8

\* Where nothing above is named, a place is when a terminal node leads to it.
LEMMA NamedIsFinal ==
  ASSUME Complete, NEW q \in Seq(Nat), FreeAbove(q)
  PROVE  Filter!Named(q) <=> \E t \in Leading(q) : Final(trie, t)
<1>1. ASSUME NEW t \in Leading(q), Final(trie, t)
      PROVE  Filter!Named(q)
  <2>1. t \in paths
    <3>1. \A node \in trie : Final(trie, node) => node \in paths
      BY CompleteIs
    <3> QED BY <1>1, <3>1 DEF Leading
  <2> QED BY <2>1 DEF Leading, Filter!Named
<1>2. ASSUME Filter!Named(q)
      PROVE  \E t \in Leading(q) : Final(trie, t)
  <2>1. PICK t \in trie : /\ Len(t) <= Len(q) /\ Final(trie, t) /\ t \in paths
                          /\ Filter!LeadsTo(t, Start(q, Len(t)))
    BY <1>2, NamedOnTheWay
  <2>2. Filter!Named(Start(q, Len(t)))
    BY <2>1 DEF Filter!Named
  <2>3. Len(t) \in Nat /\ Len(q) \in Nat
    BY <2>1 DEF Complete
  <2>4. Len(t) \notin 0..Len(q) - 1
    BY <2>2 DEF FreeAbove
  <2>5. Len(t) = Len(q)
    BY <2>1, <2>3, <2>4
  <2>6. Start(q, Len(q)) = q
    BY WholeStart
  <2> QED BY <2>1, <2>5, <2>6 DEF Leading
<1> QED BY <1>1, <1>2

\* Nothing is named below a place that no node leads to.
LEMMA NamedIsBelow ==
  ASSUME Complete, NEW q \in Seq(Nat), Unnamed(q),
         NEW d \in Seq(Nat), Len(q) <= Len(d), Start(d, Len(q)) = q, Filter!Named(d)
  PROVE  Leading(q) # {}
<1>1. PICK t \in trie : /\ Len(t) <= Len(d) /\ Final(trie, t) /\ t \in paths
                        /\ Filter!LeadsTo(t, Start(d, Len(t)))
  BY NamedOnTheWay
<1>2. trie \in SUBSET Seq(Component) /\ t \in Seq(Component) /\ Len(t) \in Nat /\ Len(q) \in Nat /\ Len(d) \in Nat
  BY <1>1 DEF Complete
<1>3. Filter!Named(Start(d, Len(t)))
  BY <1>1 DEF Filter!Named
<1>4. Len(t) > Len(q)
  <2>1. SUFFICES ASSUME Len(t) <= Len(q) PROVE FALSE
    BY <1>2
  <2>2. Len(t) \in 0..Len(q) /\ Len(q) \in 0..Len(d)
    BY <1>2, <2>1
  <2>3. Start(Start(d, Len(q)), Len(t)) = Start(d, Len(t))
    BY <2>2, StartOfStart
  <2>4. Filter!Named(Start(q, Len(t)))
    BY <1>3, <2>3
  <2>5. Len(t) \in 0..Len(q) - 1 \/ Len(t) = Len(q)
    BY <1>2, <2>1
  <2>6. Start(q, Len(q)) = q
    BY WholeStart
  <2> QED BY <2>4, <2>5, <2>6 DEF Unnamed, FreeAbove
<1> DEFINE s == Start(t, Len(q))
           d2 == Start(d, Len(t))
<1>5. Len(q) \in 0..Len(t) /\ Len(t) \in 0..Len(d)
  BY <1>1, <1>2, <1>4
<1>6. d2 \in Seq(Nat)
  BY <1>5, StartIs
<1>7. Filter!LeadsTo(s, Start(d2, Len(q)))
  <2>1. Filter!LeadsTo(t, d2)
    BY <1>1
  <2> HIDE DEF d2
  <2> QED BY <1>2, <1>5, <1>6, <2>1, LeadsStart
<1>8. Start(d2, Len(q)) = q
  <2>1. Start(d2, Len(q)) = Start(d, Len(q))
    BY <1>5, StartOfStart
  <2> QED BY <2>1
<1>9. s \in trie
  <2>1. s \in Seq(Component) /\ Len(s) = Len(q)
    BY <1>2, <1>5, StartIs
  <2>2. Extends(t, s)
    BY <1>2, <1>4, <2>1 DEF Extends
  <2>3. \A node \in trie, o \in Seq(Component) : Extends(node, o) => o \in trie
    BY CompleteIs
  <2> HIDE DEF s
  <2> QED BY <1>1, <2>1, <2>2, <2>3
<1>10. Filter!LeadsTo(s, q)
  <2> HIDE DEF s, d2
  <2> QED BY <1>7, <1>8
<1> QED BY <1>9, <1>10, Zenon DEF Leading

\* The components that the key of a child stands for.
Offered(q) == Filter!Components(Filter!At(root, q))
NextNodes(q, i) == {Append(node, c) : node \in Leading(q), c \in Offered(Append(q, i))} \cap trie

LEMMA NextLeads ==
  ASSUME Complete, NEW q \in Seq(Nat), NEW i \in Nat
  PROVE  NextNodes(q, i) = Leading(Append(q, i))
<1> DEFINE child == Append(q, i)
<1>1. child \in Seq(Nat) /\ Len(child) = Len(q) + 1 /\ Len(q) \in Nat
  OBVIOUS
<1>2. /\ trie \in SUBSET Seq(Component)
      /\ \A node \in trie, o \in Seq(Component) : Extends(node, o) => o \in trie
  BY CompleteIs
<1>3. \A c \in Component : c \in Offered(child) <=> c \in Labels(child)
  <2> SUFFICES ASSUME NEW c \in Component PROVE c \in Offered(child) <=> c \in Labels(child)
    OBVIOUS
  <2> DEFINE k == Filter!At(root, child).key
  <2>1. c \in Labels(child) <=> c = Glob \/ (c = k /\ c # "")
    BY LabelsAre
  <2>2. Offered(child) = IF k \in {NoKey, ""} THEN {Glob} ELSE {k, Glob}
    BY DEF Offered, Filter!Components
  <2>3. c # NoKey
    BY DEF Component
  <2> HIDE DEF k
  <2> QED BY <2>1, <2>2, <2>3
<1>4. \A t \in Seq(Component), c \in Component :
         Filter!LeadsTo(Append(t, c), child) <=> Filter!LeadsTo(t, q) /\ c \in Labels(child)
  BY LeadsChild
<1> HIDE DEF child
<1>5. ASSUME NEW node \in Leading(q), NEW c \in Offered(child), Append(node, c) \in trie
      PROVE  Append(node, c) \in Leading(child)
  <2>1. node \in Seq(Component) /\ Append(node, c) \in Seq(Component)
    BY <1>2, <1>5 DEF Leading
  <2>2. c \in Component
    <3>1. Append(node, c)[Len(node) + 1] = c /\ Len(node) + 1 \in 1..Len(Append(node, c))
      BY <2>1
    <3> QED BY <2>1, <3>1
  <2> QED BY <1>3, <1>4, <1>5, <2>1, <2>2 DEF Leading
<1>6. ASSUME NEW t \in Leading(child)
      PROVE  \E node \in Leading(q), c \in Offered(child) : t = Append(node, c)
  <2>1. t \in trie /\ t \in Seq(Component) /\ Filter!LeadsTo(t, child)
    BY <1>2 DEF Leading
  <2>2. Len(t) = Len(q) + 1
    BY <1>1, <2>1, LeadsIs
  <2>3. Len(t) \in 1..Len(t) /\ Len(t) - 1 \in 0..Len(t) /\ t[Len(t)] \in Component
    BY <1>1, <2>1, <2>2
  <2> DEFINE s == Start(t, Len(t) - 1)
  <2>4. s \in Seq(Component) /\ Len(s) = Len(t) - 1
    BY <2>1, <2>3, StartIs
  <2>5. t = Append(s, t[Len(t)])
    <3>1. Start(t, Len(t)) = Append(Start(t, Len(t) - 1), t[Len(t)])
      BY <2>1, <2>3, OneMore
    <3>2. Start(t, Len(t)) = t
      BY <2>1, WholeStart
    <3> QED BY <3>1, <3>2
  <2>6. Extends(t, s)
    <3>1. Len(s) <= Len(t) /\ s = Start(t, Len(s))
      <4>1. Len(s) = Len(t) - 1
        BY <2>4
      <4>2. Len(t) - 1 <= Len(t)
        BY <2>3
      <4> QED BY <4>1, <4>2
    <3> QED BY <3>1, Zenon DEF Extends
  <2> HIDE DEF s
  <2>7. s \in Leading(q) /\ t[Len(t)] \in Offered(child)
    BY <1>2, <1>3, <1>4, <2>1, <2>3, <2>4, <2>5, <2>6 DEF Leading
  <2> QED BY <2>5, <2>7
<1>7. \A t : t \in NextNodes(q, i) <=>
               t \in trie /\ \E node \in Leading(q), c \in Offered(child) : t = Append(node, c)
  BY DEF NextNodes, child
<1>8. Leading(child) \subseteq trie
  BY DEF Leading
<1>9. ASSUME NEW t \in NextNodes(q, i)
      PROVE  t \in Leading(child)
  <2>1. t \in trie
    BY <1>7, Zenon
  <2>2. PICK node \in Leading(q), c \in Offered(child) : t = Append(node, c)
    BY <1>7, Zenon
  <2> QED BY <1>5, <2>1, <2>2
<1>10. ASSUME NEW t \in Leading(child)
       PROVE  t \in NextNodes(q, i)
  BY <1>6, <1>7, <1>8, Zenon
<1>11. NextNodes(q, i) = Leading(child)
  BY <1>9, <1>10
<1> QED BY <1>11 DEF child

\* The nodes that a step from these nodes gives for a child.
ChildNodes(nodes, q) == Filter!Step(nodes, Offered(q))

LEMMA StepLeads ==
  ASSUME Complete, NEW q \in Seq(Nat), NEW i \in Nat, Unnamed(q)
  PROVE  /\ Filter!Found(ChildNodes(Leading(q), Append(q, i))) <=> Filter!Named(Append(q, i))
         /\ ~Filter!Named(Append(q, i)) =>
                ChildNodes(Leading(q), Append(q, i)) = Leading(Append(q, i))
<1> DEFINE child == Append(q, i)
           next == NextNodes(q, i)
           terminal == {node \in next : Filter!IsTerminal(node)}
<1>1. ChildNodes(Leading(q), child) = Filter!Step(Leading(q), Offered(child))
  BY DEF ChildNodes
<1>2. \A t \in trie : Filter!IsTerminal(t) <=> Final(trie, t)
  BY Zenon DEF Filter!IsTerminal, Final
<1>3. child \in Seq(Nat) /\ Len(child) = Len(q) + 1 /\ Len(q) \in Nat
  OBVIOUS
<1>4. ~Filter!Found(Leading(q))
  <2>1. \A t \in Leading(q) : ~Final(trie, t)
    BY NamedIsFinal DEF Unnamed
  <2>2. \A t \in Leading(q) : t \in trie
    BY DEF Leading
  <2> QED BY <1>2, <2>1, <2>2 DEF Filter!Found
<1>5. FreeAbove(child)
  <2>1. ASSUME NEW n \in 0..Len(child) - 1
        PROVE  ~Filter!Named(Start(child, n))
    <3>1. n \in 0..Len(q)
      BY <1>3
    <3>2. Start(child, n) = Start(q, n)
      BY <3>1, StartOfAppend
    <3>3. Start(q, Len(q)) = q
      BY WholeStart
    <3>4. n \in 0..Len(q) - 1 \/ n = Len(q)
      BY <1>3, <3>1
    <3> HIDE DEF child
    <3> QED BY <3>2, <3>3, <3>4 DEF Unnamed, FreeAbove
  <2> HIDE DEF child
  <2> QED BY <2>1, Zenon DEF FreeAbove
<1>6. next = Leading(child)
  BY NextLeads
<1>7. Filter!Named(child) <=> \E t \in Leading(child) : Final(trie, t)
  <2> HIDE DEF child
  <2> QED BY <1>3, <1>5, NamedIsFinal
<1>8. Leading(child) \subseteq trie
  BY DEF Leading
<1>9. Filter!Step(Leading(q), Offered(child)) =
         IF terminal # {} THEN {CHOOSE node \in terminal : TRUE} ELSE next
  BY <1>4 DEF Filter!Step, NextNodes
<1>10. Filter!Named(child) <=> terminal # {}
  BY <1>2, <1>6, <1>7, <1>8
<1>11. terminal # {} => Filter!Found({CHOOSE node \in terminal : TRUE})
  BY DEF Filter!Found
<1>12. terminal = {} => ~Filter!Found(next)
  BY DEF Filter!Found
<1> HIDE DEF terminal, next, child
<1>13. /\ Filter!Found(ChildNodes(Leading(q), child)) <=> Filter!Named(child)
       /\ ~Filter!Named(child) => ChildNodes(Leading(q), child) = Leading(child)
  BY <1>1, <1>6, <1>9, <1>10, <1>11, <1>12
<1> QED BY <1>13 DEF child

-----------------------------------------------------------------------------
(* The walk *)

FrameType == [place : Seq(Nat), index : Nat, nodes : SUBSET Seq(Component)]

\* A frame of the stack is that of a container that is not excluded, and has
\* the nodes that lead to it.
FrameHolds(f, n) ==
    /\ f.place \in Places(root) /\ Len(f.place) = n - 1
    /\ Filter!IsContainer(Filter!At(root, f.place))
    /\ f.index \in 1..Filter!Size(Filter!At(root, f.place)) + 1
    /\ f.nodes = Leading(f.place) /\ Unnamed(f.place)
StackHolds(s) ==
    /\ s \in Seq(FrameType) /\ Len(s) \in 1..MaxDepth
    /\ \A n \in 1..Len(s) : FrameHolds(s[n], n)
    /\ \A n \in 2..Len(s) : s[n].place = Append(s[n - 1].place, s[n - 1].index - 1)

\* What the walk has been through: what is under the children that the indices
\* have moved past.  The child in the frame above is still being looked at.
Limit(s, n) == IF n = Len(s) THEN s[n].index ELSE s[n].index - 1
Passed(s, q, n) == n <= Len(q) /\ Start(q, n - 1) = s[n].place /\ q[n] < Limit(s, n)
Behind(s, q) == \E n \in 1..Len(s) : Passed(s, q, n)

ToExclude == {q \in Places(root) : Filter!Named(q) /\ Len(q) <= MaxDepth /\ FreeAbove(q)}

IsCase == \E c \in Cases : root = c.root /\ paths = c.paths
InsertInv == /\ todo \in SUBSET paths /\ TrieOf(trie, paths \ todo)
             /\ excluded = {} /\ pathStack = <<>>
VisitInv == Complete /\ StackHolds(pathStack) /\ excluded = {q \in ToExclude : Behind(pathStack, q)}
DoneInv == excluded = ToExclude
WalkInv == /\ IsCase /\ walk \in {"insert", "visit", "done"}
           /\ walk = "insert" => InsertInv
           /\ walk = "visit" => VisitInv
           /\ walk = "done" => DoneInv

LEMMA ChildrenType ==
  ASSUME IsCase, NEW q \in Places(root), Filter!IsContainer(Filter!At(root, q))
  PROVE  Len(Filter!At(root, q).children) \in Nat
<1>1. PICK c \in Cases : root = c.root
  BY DEF IsCase
<1>2. q \in Filter!Below(c.root, <<>>)
  BY <1>1, Zenon DEF Places
<1>3. IsContainer(Filter!At(c.root, q))
  BY <1>1, Zenon DEF Filter!IsContainer, IsContainer
<1> QED BY <1>1, <1>2, <1>3, CasesAssumption

LEMMA SizeType ==
  ASSUME IsCase, NEW q \in Places(root), Filter!IsContainer(Filter!At(root, q))
  PROVE  Filter!Size(Filter!At(root, q)) \in Nat
<1> DEFINE o == Filter!At(root, q)
<1>1. Len(o.children) \in Nat
  BY ChildrenType
<1> HIDE DEF o
<1>2. Filter!Size(o) \in Nat
  BY <1>1, LimitsAssumption DEF Filter!Size
<1> QED BY <1>2 DEF o

LEMMA PathsType ==
  ASSUME IsCase
  PROVE  paths \in SUBSET Seq(Component)
BY CasesAssumption DEF IsCase, Component

\* What the walk reads does not change.
LEMMA SameData ==
  ASSUME root' = root, paths' = paths, trie' = trie
  PROVE  /\ IsCase' <=> IsCase
         /\ Complete' <=> Complete
         /\ ToExclude' = ToExclude
         /\ \A f, n : FrameHolds(f, n)' <=> FrameHolds(f, n)
         /\ \A s : StackHolds(s)' <=> StackHolds(s)
<1>1. \A q : Filter!Named(q)' <=> Filter!Named(q)
  BY DEF Filter!Named, Filter!LeadsTo
<1>2. \A q : FreeAbove(q)' <=> FreeAbove(q)
  BY <1>1 DEF FreeAbove
<1>3. \A q : Unnamed(q)' <=> Unnamed(q)
  BY <1>1, <1>2 DEF Unnamed
<1>4. \A q : Leading(q)' = Leading(q)
  BY DEF Leading, Filter!LeadsTo
<1>5. \A f, n : FrameHolds(f, n)' <=> FrameHolds(f, n)
  BY <1>3, <1>4 DEF FrameHolds
<1>6. \A s : StackHolds(s)' <=> StackHolds(s)
  BY <1>5 DEF StackHolds
<1>7. ToExclude' = ToExclude
  BY <1>1, <1>2 DEF ToExclude
<1>8. IsCase' <=> IsCase
  BY DEF IsCase
<1>9. Complete' <=> Complete
  BY DEF Complete
<1> QED BY <1>5, <1>6, <1>7, <1>8, <1>9

\* A place below another one goes through one of its children.
LEMMA PlaceUnder ==
  ASSUME NEW p \in Seq(Nat), NEW q \in Places(root), Len(q) > Len(p), Start(q, Len(p)) = p
  PROVE  /\ Filter!IsContainer(Filter!At(root, p))
         /\ q[Len(p) + 1] \in 1..Filter!Size(Filter!At(root, p))
         /\ Start(q, Len(p) + 1) = Append(p, q[Len(p) + 1])
<1>1. q \in Seq(Nat) /\ Len(p) \in Nat /\ Len(q) \in Nat
  BY PlaceType
<1> DEFINE n == Len(p) + 1
<1>2. n \in 1..Len(q) /\ n - 1 = Len(p)
  BY <1>1
<1> HIDE DEF n
<1>3. /\ Filter!IsContainer(Filter!At(root, Start(q, n - 1)))
      /\ q[n] \in 1..Filter!Size(Filter!At(root, Start(q, n - 1)))
  BY <1>2, PlaceStep
<1>4. Start(q, n) = Append(Start(q, n - 1), q[n])
  BY <1>1, <1>2, OneMore
<1>5. /\ Filter!IsContainer(Filter!At(root, p))
      /\ q[n] \in 1..Filter!Size(Filter!At(root, p))
      /\ Start(q, n) = Append(p, q[n])
  BY <1>2, <1>3, <1>4
<1> QED BY <1>5 DEF n

\* In ToExclude nothing is above anything else.
LEMMA ExcludedIs ==
  ASSUME NEW q \in ToExclude, NEW n \in 0..Len(q), Filter!Named(Start(q, n))
  PROVE  q = Start(q, n)
<1>1. q \in Seq(Nat) /\ FreeAbove(q) /\ Len(q) \in Nat
  BY PlaceType DEF ToExclude
<1>2. n \notin 0..Len(q) - 1
  BY <1>1 DEF FreeAbove
<1>3. n = Len(q)
  BY <1>1, <1>2
<1> QED BY <1>1, <1>3, WholeStart

LEMMA NoneAtUnnamed ==
  ASSUME NEW q \in ToExclude, NEW p \in Seq(Nat), Unnamed(p), Len(p) <= Len(q), Start(q, Len(p)) = p
  PROVE  Len(q) > Len(p)
<1>1. q \in Seq(Nat) /\ Len(q) \in Nat /\ Len(p) \in Nat /\ Filter!Named(q)
  BY PlaceType DEF ToExclude
<1>2. Start(q, Len(q)) = q
  BY <1>1, WholeStart
<1>3. q # p
  BY <1>1 DEF Unnamed
<1> QED BY <1>1, <1>2, <1>3

-----------------------------------------------------------------------------
(* The stack when the walk moves on, goes in and comes out *)

Onward(s) == [s EXCEPT ![Len(s)].index = @ + 1]
ChildOf(f) == Append(f.place, f.index)
Into(s, N) == Append(Onward(s), [place |-> ChildOf(s[Len(s)]), index |-> 1, nodes |-> N])

LEMMA NextIndex ==
  ASSUME NEW P, NEW N, NEW f \in [place : P, index : Nat, nodes : N]
  PROVE  /\ [f EXCEPT !.index = @ + 1] \in [place : P, index : Nat, nodes : N]
         /\ [f EXCEPT !.index = @ + 1].place = f.place
         /\ [f EXCEPT !.index = @ + 1].index = f.index + 1
         /\ [f EXCEPT !.index = @ + 1].nodes = f.nodes
OBVIOUS

LEMMA OnwardIs ==
  ASSUME NEW s \in Seq(FrameType), Len(s) # 0
  PROVE  /\ Onward(s) \in Seq(FrameType) /\ Len(Onward(s)) = Len(s)
         /\ \A n \in 1..Len(s) - 1 : Onward(s)[n] = s[n]
         /\ Onward(s)[Len(s)].place = s[Len(s)].place
         /\ Onward(s)[Len(s)].index = s[Len(s)].index + 1
         /\ Onward(s)[Len(s)].nodes = s[Len(s)].nodes
<1> DEFINE L == Len(s)
           g == [s[L] EXCEPT !.index = @ + 1]
           t == [s EXCEPT ![L] = g]
<1>1. L \in 1..L /\ s[L] \in FrameType
  <2>1. L \in Nat
    OBVIOUS
  <2>2. L \in 1..L
    BY <2>1
  <2> QED BY <2>2
<1>2. /\ g \in FrameType /\ g.place = s[L].place /\ g.index = s[L].index + 1 /\ g.nodes = s[L].nodes
  <2> DEFINE f == s[L]
  <2>1. f \in FrameType
    BY <1>1
  <2> HIDE DEF f
  <2> QED BY <2>1, NextIndex, Zenon DEF f, FrameType
<1>3. Onward(s) = t
  BY DEF Onward
<1> HIDE DEF g
<1>4. t \in Seq(FrameType) /\ Len(t) = L /\ t[L] = g /\ \A n \in 1..L - 1 : t[n] = s[n]
  BY <1>1, <1>2
<1> QED BY <1>2, <1>3, <1>4

LEMMA FrameIs ==
  ASSUME NEW s, StackHolds(s), NEW n \in 1..Len(s)
  PROVE  /\ s[n] \in FrameType /\ s[n].place \in Seq(Nat) /\ s[n].index \in Nat /\ FrameHolds(s[n], n)
         /\ n \in Nat /\ n <= MaxDepth /\ Len(s[n].place) = n - 1
<1>1. s \in Seq(FrameType) /\ Len(s) \in 1..MaxDepth /\ FrameHolds(s[n], n)
  BY DEF StackHolds
<1>2. s[n] \in FrameType
  BY <1>1
<1>3. n \in Nat /\ n <= MaxDepth
  BY <1>1, LimitsAssumption
<1> QED BY <1>1, <1>2, <1>3 DEF FrameType, FrameHolds

LEMMA TopIs ==
  ASSUME NEW s, StackHolds(s)
  PROVE  /\ s \in Seq(FrameType) /\ Len(s) \in 1..Len(s) /\ Len(s) \in Nat /\ Len(s) # 0 /\ Len(s) <= MaxDepth
<1>1. s \in Seq(FrameType) /\ Len(s) \in 1..MaxDepth
  BY DEF StackHolds
<1>2. Len(s) \in Nat /\ Len(s) \in 1..Len(s)
  BY <1>1
<1> QED BY <1>1, <1>2, LimitsAssumption

\* The child at which the walk is.
LEMMA ChildIs ==
  ASSUME NEW s, StackHolds(s), s[Len(s)].index <= Filter!Size(Filter!At(root, s[Len(s)].place))
  PROVE  /\ ChildOf(s[Len(s)]) \in Places(root) /\ Len(ChildOf(s[Len(s)])) = Len(s)
         /\ FreeAbove(ChildOf(s[Len(s)]))
<1> DEFINE L == Len(s)
           p == s[L].place
           i == s[L].index
<1>1. /\ L \in Nat /\ L # 0 /\ L <= MaxDepth /\ p \in Seq(Nat) /\ i \in Nat /\ Len(p) = L - 1
      /\ FrameHolds(s[L], L)
  BY TopIs, FrameIs
<1>2. /\ p \in Places(root) /\ Filter!IsContainer(Filter!At(root, p)) /\ Unnamed(p)
      /\ i \in 1..Filter!Size(Filter!At(root, p)) + 1 /\ i <= Filter!Size(Filter!At(root, p))
  BY <1>1 DEF FrameHolds
<1> HIDE DEF L, p, i
<1>3. i \in 1..Filter!Size(Filter!At(root, p)) /\ Len(p) <= MaxDepth
  BY <1>1, <1>2, LimitsAssumption
<1>4. Append(p, i) \in Places(root)
  BY <1>2, <1>3, ChildPlace
<1>5. Len(Append(p, i)) = L
  BY <1>1
<1>6. ASSUME NEW n \in 0..Len(Append(p, i)) - 1
      PROVE  ~Filter!Named(Start(Append(p, i), n))
  <2>1. n \in 0..Len(p)
    BY <1>1, <1>5
  <2>2. Start(Append(p, i), n) = Start(p, n)
    BY <1>1, <2>1, StartOfAppend
  <2>3. Start(p, Len(p)) = p
    BY <1>1, WholeStart
  <2>4. n \in 0..Len(p) - 1 \/ n = Len(p)
    BY <1>1, <2>1
  <2> QED BY <1>2, <2>2, <2>3, <2>4 DEF Unnamed, FreeAbove
<1>7. FreeAbove(Append(p, i))
  BY <1>6, Zenon DEF FreeAbove
<1> QED BY <1>4, <1>5, <1>7 DEF ChildOf, L, p, i

LEMMA OnwardHolds ==
  ASSUME NEW s, StackHolds(s), s[Len(s)].index <= Filter!Size(Filter!At(root, s[Len(s)].place)), IsCase
  PROVE  StackHolds(Onward(s))
<1> DEFINE L == Len(s)
           t == Onward(s)
<1>1. s \in Seq(FrameType) /\ L \in 1..L /\ L \in Nat /\ L # 0 /\ L <= MaxDepth /\ L \in 1..MaxDepth
  BY TopIs DEF StackHolds
<1>2. /\ t \in Seq(FrameType) /\ Len(t) = L
      /\ \A n \in 1..L - 1 : t[n] = s[n]
      /\ t[L].place = s[L].place /\ t[L].index = s[L].index + 1 /\ t[L].nodes = s[L].nodes
  BY <1>1, OnwardIs
<1>3. \A n \in 1..L : FrameHolds(s[n], n)
  BY DEF StackHolds
<1>4. \A n \in 2..L : s[n].place = Append(s[n - 1].place, s[n - 1].index - 1)
  BY DEF StackHolds
<1>5. s[L].index <= Filter!Size(Filter!At(root, s[L].place))
  OBVIOUS
<1> HIDE DEF t, L
<1>6. FrameHolds(t[L], L)
  <2>1. FrameHolds(s[L], L)
    BY <1>1, <1>3
  <2>2. Filter!Size(Filter!At(root, s[L].place)) \in Nat
    BY <2>1, SizeType DEF FrameHolds
  <2>3. s[L].index + 1 \in 1..Filter!Size(Filter!At(root, s[L].place)) + 1
    BY <1>5, <2>1, <2>2 DEF FrameHolds
  <2> QED BY <1>2, <2>1, <2>3 DEF FrameHolds
<1>7. \A n \in 1..L : FrameHolds(t[n], n)
  <2> TAKE n \in 1..L
  <2>1. n \in 1..L - 1 \/ n = L
    BY <1>1
  <2> QED BY <1>2, <1>3, <1>6, <2>1
<1>8. \A n \in 2..L : t[n].place = Append(t[n - 1].place, t[n - 1].index - 1)
  <2> TAKE n \in 2..L
  <2>1. n - 1 \in 1..L - 1 /\ (n \in 1..L - 1 \/ n = L)
    BY <1>1
  <2> QED BY <1>2, <1>4, <2>1
<1>9. StackHolds(t)
  BY <1>1, <1>2, <1>7, <1>8 DEF StackHolds
<1> QED BY <1>9 DEF t

LEMMA IntoHolds ==
  ASSUME NEW s, StackHolds(s), s[Len(s)].index <= Filter!Size(Filter!At(root, s[Len(s)].place)), IsCase,
         Len(s) < MaxDepth, Complete,
         Filter!IsContainer(Filter!At(root, ChildOf(s[Len(s)]))), ~Filter!Named(ChildOf(s[Len(s)]))
  PROVE  StackHolds(Into(s, Leading(ChildOf(s[Len(s)]))))
<1> DEFINE L == Len(s)
           t == Onward(s)
           c == ChildOf(s[L])
           f == [place |-> c, index |-> 1, nodes |-> Leading(c)]
           u == Append(t, f)
<1>1. s \in Seq(FrameType) /\ L \in 1..L /\ L \in Nat /\ L # 0 /\ L < MaxDepth
  BY TopIs
<1>2. t \in Seq(FrameType) /\ Len(t) = L /\ t[L].place = s[L].place /\ t[L].index = s[L].index + 1
  BY <1>1, OnwardIs
<1>3. StackHolds(t)
  BY OnwardHolds
<1>4. c \in Places(root) /\ Len(c) = L /\ FreeAbove(c)
  BY ChildIs
<1>5. c = Append(s[L].place, s[L].index) /\ s[L].index \in Nat
  BY <1>1, FrameIs DEF ChildOf
<1>6. Filter!IsContainer(Filter!At(root, c)) /\ ~Filter!Named(c)
  OBVIOUS
<1>7. Into(s, Leading(c)) = u
  BY DEF Into
<1> HIDE DEF t, c, L
<1>8. c \in Seq(Nat) /\ Unnamed(c)
  BY <1>4, <1>6, PlaceType DEF Unnamed
<1>9. f \in FrameType
  <2>1. Leading(c) \in SUBSET Seq(Component)
    BY DEF Leading, Complete
  <2> QED BY <1>8, <2>1 DEF FrameType
<1>10. f.place = c /\ f.index = 1 /\ f.nodes = Leading(c)
  OBVIOUS
<1> HIDE DEF f
<1>11. u \in Seq(FrameType) /\ Len(u) = L + 1 /\ u[L + 1] = f /\ \A n \in 1..L : u[n] = t[n]
  BY <1>2, <1>9
<1> HIDE DEF u
<1>12. FrameHolds(f, L + 1)
  <2>1. Filter!Size(Filter!At(root, c)) \in Nat
    BY <1>4, <1>6, SizeType
  <2>2. 1 \in 1..Filter!Size(Filter!At(root, c)) + 1
    BY <2>1
  <2>3. Len(c) = (L + 1) - 1
    BY <1>1, <1>4
  <2> QED BY <1>4, <1>6, <1>8, <1>10, <2>2, <2>3 DEF FrameHolds
<1>13. /\ \A n \in 1..L : FrameHolds(t[n], n)
       /\ \A n \in 2..L : t[n].place = Append(t[n - 1].place, t[n - 1].index - 1)
  BY <1>2, <1>3 DEF StackHolds
<1>14. \A n \in 1..L + 1 : FrameHolds(u[n], n)
  <2> TAKE n \in 1..L + 1
  <2>1. n \in 1..L \/ n = L + 1
    BY <1>1
  <2> QED BY <1>11, <1>12, <1>13, <2>1
<1>15. \A n \in 2..L + 1 : u[n].place = Append(u[n - 1].place, u[n - 1].index - 1)
  <2> TAKE n \in 2..L + 1
  <2>1. n - 1 \in 1..L /\ (n \in 2..L \/ n = L + 1)
    BY <1>1
  <2>2. CASE n \in 2..L
    <3>1. n \in 1..L
      BY <2>2
    <3> QED BY <1>11, <1>13, <2>1, <2>2, <3>1
  <2>3. CASE n = L + 1
    <3>1. n - 1 = L /\ L \in 1..L
      BY <1>1, <2>3
    <3>2. (s[L].index + 1) - 1 = s[L].index
      BY <1>5
    <3>3. t[L].index - 1 = s[L].index
      BY <1>2, <3>2
    <3> QED BY <1>2, <1>5, <1>10, <1>11, <2>3, <3>1, <3>3
  <2> QED BY <2>1, <2>2, <2>3
<1>16. L + 1 \in 1..MaxDepth
  BY <1>1, LimitsAssumption
<1>17. StackHolds(u)
  BY <1>11, <1>14, <1>15, <1>16 DEF StackHolds
<1>18. StackHolds(Into(s, Leading(c)))
  BY <1>7, <1>17
<1> QED BY <1>18 DEF c, L

-----------------------------------------------------------------------------
(* What the walk has been through then *)

\* Once past a child, it has been through what is under this child too.
LEMMA OnwardBehind ==
  ASSUME NEW s, StackHolds(s), NEW q \in Places(root)
  PROVE  Behind(Onward(s), q) <=>
            \/ Behind(s, q)
            \/ Len(q) >= Len(s) /\ Start(q, Len(s)) = ChildOf(s[Len(s)])
<1> DEFINE L == Len(s)
           t == Onward(s)
           p == s[L].place
           i == s[L].index
<1>1. s \in Seq(FrameType) /\ L \in 1..L /\ L \in Nat /\ L # 0
  BY TopIs
<1>2. /\ Len(t) = L /\ \A n \in 1..L - 1 : t[n] = s[n]
      /\ t[L].place = p /\ t[L].index = i + 1
  BY <1>1, OnwardIs
<1>3. p \in Seq(Nat) /\ i \in Nat
  BY <1>1, FrameIs
<1>4. q \in Seq(Nat) /\ Len(q) \in Nat
  BY PlaceType
<1>5. ChildOf(s[L]) = Append(p, i)
  BY DEF ChildOf
<1> HIDE DEF L, t, p, i
<1>6. \A n \in 1..L - 1 : Passed(t, q, n) <=> Passed(s, q, n)
  <2> TAKE n \in 1..L - 1
  <2>1. n # L /\ t[n] = s[n]
    BY <1>1, <1>2
  <2>2. Limit(t, n) = s[n].index - 1 /\ Limit(s, n) = s[n].index - 1
    BY <1>2, <2>1 DEF Limit, L
  <2> QED BY <2>1, <2>2 DEF Passed
<1>7. Limit(t, L) = i + 1 /\ Limit(s, L) = i
  BY <1>2 DEF Limit, L, i
<1>8. Passed(t, q, L) <=> L <= Len(q) /\ Start(q, L - 1) = p /\ q[L] < i + 1
  BY <1>2, <1>7 DEF Passed
<1>9. Passed(s, q, L) <=> L <= Len(q) /\ Start(q, L - 1) = p /\ q[L] < i
  BY <1>7 DEF Passed, p
<1>10. ASSUME L <= Len(q)
       PROVE  /\ q[L] \in Nat
              /\ Start(q, L) = Append(p, i) <=> Start(q, L - 1) = p /\ q[L] = i
  <2>1. L \in 1..Len(q) /\ L - 1 \in 0..Len(q)
    BY <1>1, <1>4, <1>10
  <2>2. q[L] \in Nat
    BY <1>4, <2>1
  <2>3. Start(q, L) = Append(Start(q, L - 1), q[L])
    BY <1>4, <2>1, OneMore
  <2>4. Start(q, L - 1) \in Seq(Nat)
    BY <1>4, <2>1, StartIs
  <2>5. ASSUME Append(Start(q, L - 1), q[L]) = Append(p, i)
        PROVE  Start(q, L - 1) = p /\ q[L] = i
    <3> DEFINE b == Start(q, L - 1)
               e == q[L]
    <3>1. b \in Seq(Nat) /\ e \in Nat /\ Append(b, e) = Append(p, i)
      BY <2>2, <2>4, <2>5
    <3> HIDE DEF b, e
    <3>2. b = p /\ e = i
      BY <1>3, <3>1, AppendSame
    <3> QED BY <3>2 DEF b, e
  <2> QED BY <2>2, <2>3, <2>5
<1>11. Passed(t, q, L) <=> Passed(s, q, L) \/ (Len(q) >= L /\ Start(q, L) = Append(p, i))
  <2>1. CASE L <= Len(q)
    <3>1. q[L] < i + 1 <=> q[L] < i \/ q[L] = i
      BY <1>3, <1>10, <2>1
    <3> QED BY <1>8, <1>9, <1>10, <2>1, <3>1
  <2>2. CASE ~(L <= Len(q))
    <3>1. ~(Len(q) >= L)
      BY <1>1, <1>4, <2>2
    <3> QED BY <1>8, <1>9, <2>2, <3>1
  <2> QED BY <2>1, <2>2
<1>12. \A n : n \in 1..L <=> n \in 1..L - 1 \/ n = L
  BY <1>1
<1>13. Behind(t, q) <=> Behind(s, q) \/ (Len(q) >= L /\ Start(q, L) = Append(p, i))
  <2>1. Behind(t, q) <=> (\E n \in 1..L - 1 : Passed(t, q, n)) \/ Passed(t, q, L)
    BY <1>2, <1>12, Zenon DEF Behind
  <2>2. Behind(s, q) <=> (\E n \in 1..L - 1 : Passed(s, q, n)) \/ Passed(s, q, L)
    BY <1>12, Zenon DEF Behind, L
  <2> QED BY <1>6, <1>11, <2>1, <2>2
<1> QED BY <1>5, <1>13 DEF L, t

\* Into a container, it has been through nothing more.
LEMMA IntoBehind ==
  ASSUME NEW s, StackHolds(s), NEW N \in SUBSET Seq(Component), NEW q \in Places(root)
  PROVE  Behind(Into(s, N), q) <=> Behind(s, q)
<1> DEFINE L == Len(s)
           t == Onward(s)
           c == ChildOf(s[L])
           f == [place |-> c, index |-> 1, nodes |-> N]
           u == Append(t, f)
<1>1. s \in Seq(FrameType) /\ L \in 1..L /\ L \in Nat /\ L # 0
  BY TopIs
<1>2. /\ t \in Seq(FrameType) /\ Len(t) = L /\ \A n \in 1..L - 1 : t[n] = s[n]
      /\ t[L].place = s[L].place /\ t[L].index = s[L].index + 1
  BY <1>1, OnwardIs
<1>3. s[L].place \in Seq(Nat) /\ s[L].index \in Nat
  BY <1>1, FrameIs
<1>4. q \in Seq(Nat) /\ Len(q) \in Nat
  BY PlaceType
<1>5. c \in Seq(Nat)
  <2> DEFINE p == s[L].place
             i == s[L].index
  <2>1. p \in Seq(Nat) /\ i \in Nat
    BY <1>3
  <2>2. c = Append(p, i)
    BY DEF ChildOf
  <2> HIDE DEF p, i, c
  <2> QED BY <2>1, <2>2
<1>6. f \in FrameType
  <2> HIDE DEF c
  <2> QED BY <1>5 DEF FrameType
<1>7. f.place = c /\ f.index = 1
  OBVIOUS
<1>8. Into(s, N) = u
  BY DEF Into
<1> HIDE DEF t, c, L, f
<1>9. Len(u) = L + 1 /\ u[L + 1] = f /\ \A n \in 1..L : u[n] = t[n]
  BY <1>2, <1>6
<1> HIDE DEF u
<1>10. ASSUME NEW n \in 1..L
       PROVE  Passed(u, q, n) <=> Passed(s, q, n)
  <2>1. n # L + 1 /\ u[n] = t[n]
    BY <1>1, <1>9
  <2>2. Limit(u, n) = t[n].index - 1
    BY <1>9, <2>1 DEF Limit
  <2>3. Limit(u, n) = Limit(s, n) /\ u[n].place = s[n].place
    <3>1. CASE n = L
      <4>1. (s[L].index + 1) - 1 = s[L].index
        BY <1>3
      <4>2. Limit(s, n) = s[L].index
        BY <3>1 DEF Limit, L
      <4> QED BY <1>2, <2>1, <2>2, <3>1, <4>1, <4>2
    <3>2. CASE n # L
      <4>1. n \in 1..L - 1
        BY <1>1, <3>2
      <4>2. Limit(s, n) = s[n].index - 1
        BY <3>2 DEF Limit, L
      <4> QED BY <1>2, <2>1, <2>2, <4>1, <4>2
    <3> QED BY <3>1, <3>2
  <2> QED BY <2>3 DEF Passed
<1>11. ~Passed(u, q, L + 1)
  <2> SUFFICES ASSUME Passed(u, q, L + 1) PROVE FALSE
    OBVIOUS
  <2>1. L + 1 <= Len(q) /\ q[L + 1] < Limit(u, L + 1)
    BY DEF Passed
  <2>2. Limit(u, L + 1) = 1
    BY <1>7, <1>9 DEF Limit
  <2>3. L + 1 \in 1..Len(q)
    BY <1>1, <1>4, <2>1
  <2>4. q[L + 1] \in 1..Filter!Size(Filter!At(root, Start(q, (L + 1) - 1)))
    BY <2>3, PlaceStep
  <2>5. \A m : \A j \in 1..m : j \in Nat /\ ~(j < 1)
    OBVIOUS
  <2> QED BY <2>1, <2>2, <2>4, <2>5
<1>12. \A n : n \in 1..L + 1 <=> n \in 1..L \/ n = L + 1
  BY <1>1
<1>13. Behind(u, q) <=> Behind(s, q)
  <2>1. Behind(u, q) <=> (\E n \in 1..L : Passed(u, q, n)) \/ Passed(u, q, L + 1)
    BY <1>9, <1>12, Zenon DEF Behind
  <2>2. Behind(s, q) <=> \E n \in 1..L : Passed(s, q, n)
    BY Zenon DEF Behind, L
  <2> QED BY <1>10, <1>11, <2>1, <2>2
<1> QED BY <1>8, <1>13

LEMMA FrontIs ==
  ASSUME NEW s, StackHolds(s)
  PROVE  /\ Filter!Front(s) \in Seq(FrameType) /\ Len(Filter!Front(s)) = Len(s) - 1
         /\ \A n \in 1..Len(s) - 1 : Filter!Front(s)[n] = s[n]
<1>1. s \in Seq(FrameType) /\ Len(s) \in Nat /\ Len(s) # 0
  BY TopIs
<1>2. Filter!Front(s) = Start(s, Len(s) - 1)
  BY Zenon DEF Filter!Front, Start
<1>3. Len(s) - 1 \in 0..Len(s)
  BY <1>1
<1> DEFINE n == Len(s) - 1
<1> HIDE DEF n
<1>4. Start(s, n) \in Seq(FrameType) /\ Len(Start(s, n)) = n /\ \A i \in 1..n : Start(s, n)[i] = s[i]
  BY <1>1, <1>3, StartIs DEF n
<1> QED BY <1>2, <1>4 DEF n

LEMMA FrontHolds ==
  ASSUME NEW s, StackHolds(s), Len(s) # 1
  PROVE  StackHolds(Filter!Front(s))
<1> DEFINE u == Filter!Front(s)
           L == Len(s)
<1>1. L \in Nat /\ L # 0 /\ L # 1 /\ L <= MaxDepth
  BY TopIs
<1>2. u \in Seq(FrameType) /\ Len(u) = L - 1 /\ \A n \in 1..L - 1 : u[n] = s[n]
  BY FrontIs
<1>3. /\ \A n \in 1..L : FrameHolds(s[n], n)
      /\ \A n \in 2..L : s[n].place = Append(s[n - 1].place, s[n - 1].index - 1)
  BY DEF StackHolds
<1> HIDE DEF u, L
<1>4. \A n \in 1..L - 1 : FrameHolds(u[n], n)
  <2> TAKE n \in 1..L - 1
  <2>1. n \in 1..L
    BY <1>1
  <2> QED BY <1>2, <1>3, <2>1
<1>5. \A n \in 2..L - 1 : u[n].place = Append(u[n - 1].place, u[n - 1].index - 1)
  <2> TAKE n \in 2..L - 1
  <2>1. n \in 2..L /\ n \in 1..L - 1 /\ n - 1 \in 1..L - 1
    BY <1>1
  <2> QED BY <1>2, <1>3, <2>1
<1>6. L - 1 \in 1..MaxDepth
  BY <1>1, LimitsAssumption
<1>7. StackHolds(u)
  BY <1>2, <1>4, <1>5, <1>6 DEF StackHolds
<1> QED BY <1>7 DEF u

\* Out of a container, it has been through all of it.
LEMMA FrontBehind ==
  ASSUME NEW s, StackHolds(s), Len(s) # 1, IsCase,
         s[Len(s)].index > Filter!Size(Filter!At(root, s[Len(s)].place)),
         NEW q \in ToExclude
  PROVE  Behind(Filter!Front(s), q) <=> Behind(s, q)
<1> DEFINE u == Filter!Front(s)
           L == Len(s)
           K == L - 1
           p == s[L].place
           size == Filter!Size(Filter!At(root, p))
<1>1. L \in Nat /\ L # 0 /\ L # 1 /\ L \in 1..L
  BY TopIs
<1>2. Len(u) = K /\ \A n \in 1..K : u[n] = s[n]
  BY FrontIs
<1>3. /\ p \in Seq(Nat) /\ Len(p) = L - 1 /\ s[L].index \in Nat /\ FrameHolds(s[L], L)
  BY <1>1, FrameIs
<1>4. s[L].index \in 1..size + 1 /\ s[L].index > size /\ Unnamed(p) /\ size \in Nat
  <2>1. /\ p \in Places(root) /\ Filter!IsContainer(Filter!At(root, p))
        /\ s[L].index \in 1..size + 1 /\ Unnamed(p)
    BY <1>3 DEF FrameHolds
  <2>2. size \in Nat
    BY <2>1, SizeType
  <2> QED BY <2>1, <2>2
<1>5. K \in 1..L /\ K \in Nat /\ K # 0 /\ K + 1 = L /\ K # L /\ K \in 1..K
  BY <1>1
<1>6. s[K].place \in Seq(Nat) /\ s[K].index \in Nat /\ Len(s[K].place) = K - 1 /\ FrameHolds(s[K], K)
  BY <1>5, FrameIs
<1>7. p = Append(s[K].place, s[K].index - 1)
  <2>1. \A n \in 2..L : s[n].place = Append(s[n - 1].place, s[n - 1].index - 1)
    BY Zenon DEF StackHolds
  <2> HIDE DEF L
  <2>2. L \in 2..L
    BY <1>1
  <2> QED BY <2>1, <2>2
<1>8. q \in Places(root) /\ q \in Seq(Nat) /\ Len(q) \in Nat
  BY PlaceType DEF ToExclude
<1>9. s[K].index - 1 \in Nat
  BY <1>6 DEF FrameHolds
<1> HIDE DEF size
<1>10. s[L].index = size + 1
  BY <1>3, <1>4
<1>11. \A n \in 1..L - 2 : Passed(u, q, n) <=> Passed(s, q, n)
  <2> TAKE n \in 1..L - 2
  <2>1. n \in 1..K /\ n # K /\ n # L
    BY <1>1
  <2>2. Limit(u, n) = s[n].index - 1 /\ Limit(s, n) = s[n].index - 1 /\ u[n] = s[n]
    <3> HIDE DEF u
    <3> QED BY <1>2, <2>1 DEF Limit
  <2> HIDE DEF u
  <2> QED BY <2>2 DEF Passed
<1>12. Limit(u, K) = s[K].index /\ Limit(s, K) = s[K].index - 1 /\ Limit(s, L) = size + 1 /\ u[K] = s[K]
  <2> HIDE DEF u
  <2> QED BY <1>2, <1>5, <1>10 DEF Limit
<1> HIDE DEF u, K, L, p
<1>13. Passed(u, q, K) <=> K <= Len(q) /\ Start(q, K - 1) = s[K].place /\ q[K] < s[K].index
  BY <1>12 DEF Passed
<1>14. Passed(s, q, K) <=> K <= Len(q) /\ Start(q, K - 1) = s[K].place /\ q[K] < s[K].index - 1
  BY <1>12 DEF Passed
<1>15. Passed(s, q, L) <=> L <= Len(q) /\ Start(q, L - 1) = p /\ q[L] < size + 1
  BY <1>12 DEF Passed, p
<1>16. ASSUME K <= Len(q)
       PROVE  /\ q[K] \in Nat
              /\ Start(q, K) = p <=> Start(q, K - 1) = s[K].place /\ q[K] = s[K].index - 1
  <2>1. K \in 1..Len(q) /\ K - 1 \in 0..Len(q)
    BY <1>5, <1>8, <1>16
  <2>2. q[K] \in Nat
    BY <1>8, <2>1
  <2>3. Start(q, K) = Append(Start(q, K - 1), q[K])
    BY <1>8, <2>1, OneMore
  <2>4. Start(q, K - 1) \in Seq(Nat)
    BY <1>8, <2>1, StartIs
  <2> DEFINE b == Start(q, K - 1)
             e == q[K]
             a == s[K].place
             j == s[K].index - 1
  <2>5. b \in Seq(Nat) /\ e \in Nat /\ a \in Seq(Nat) /\ j \in Nat
    BY <1>6, <1>9, <2>2, <2>4
  <2>6. Start(q, K) = Append(b, e) /\ p = Append(a, j)
    BY <1>7, <2>3
  <2> HIDE DEF b, e, a, j
  <2>7. Append(b, e) = Append(a, j) => b = a /\ e = j
    BY <2>5, AppendSame
  <2>8. Start(q, K) = p <=> b = a /\ e = j
    BY <2>6, <2>7
  <2> QED BY <2>2, <2>8 DEF b, e, a, j
<1>17. Passed(s, q, L) <=> K <= Len(q) /\ Start(q, K) = p
  <2>1. ASSUME K <= Len(q), Start(q, K) = p
        PROVE  L <= Len(q) /\ q[L] < size + 1
    <3>1. Len(p) = K
      BY <1>3, <1>5
    <3>2. Len(q) > Len(p)
      BY <1>3, <1>4, <2>1, <3>1, NoneAtUnnamed
    <3>3. q[Len(p) + 1] \in 1..size
      BY <1>3, <1>8, <2>1, <3>1, <3>2, PlaceUnder DEF size
    <3>4. q[L] \in 1..size
      BY <1>5, <3>1, <3>3
    <3> QED BY <1>4, <1>5, <1>8, <3>1, <3>2, <3>4
  <2>2. L <= Len(q) => K <= Len(q)
    BY <1>5, <1>8
  <2>3. L - 1 = K
    BY <1>5
  <2> QED BY <1>15, <2>1, <2>2, <2>3
<1>18. Passed(u, q, K) <=> Passed(s, q, K) \/ Passed(s, q, L)
  <2>1. CASE K <= Len(q)
    <3>1. q[K] < s[K].index <=> q[K] < s[K].index - 1 \/ q[K] = s[K].index - 1
      BY <1>6, <1>16, <2>1
    <3> QED BY <1>13, <1>14, <1>16, <1>17, <2>1, <3>1
  <2>2. CASE ~(K <= Len(q))
    BY <1>13, <1>14, <1>17, <2>2
  <2> QED BY <2>1, <2>2
<1>19. \A n : /\ n \in 1..K <=> n \in 1..L - 2 \/ n = K
              /\ n \in 1..L <=> n \in 1..L - 2 \/ n = K \/ n = L
  BY <1>1, <1>5
<1>20. Behind(u, q) <=> Behind(s, q)
  <2>1. Behind(u, q) <=> (\E n \in 1..L - 2 : Passed(u, q, n)) \/ Passed(u, q, K)
    BY <1>2, <1>19, Zenon DEF Behind
  <2>2. Behind(s, q) <=> (\E n \in 1..L - 2 : Passed(s, q, n)) \/ Passed(s, q, K) \/ Passed(s, q, L)
    <3>1. Behind(s, q) <=> \E n \in 1..L : Passed(s, q, n)
      BY Zenon DEF Behind, L
    <3> QED BY <1>19, <3>1, Zenon
  <2> QED BY <1>11, <1>18, <2>1, <2>2
<1> QED BY <1>20 DEF u


-----------------------------------------------------------------------------
(* The steps *)

LEMMA InsertStep ==
  ASSUME InsertInv, IsCase, <<>> \in paths => paths = {<<>>}, Filter!Insert
  PROVE  InsertInv'
<1>1. PICK q \in todo : trie' = Filter!WithPath(q) /\ todo' = todo \ {q}
  BY DEF Filter!Insert
<1>2. UNCHANGED <<root, paths, walk, pathStack, excluded>>
  BY DEF Filter!Insert
<1>3. paths \in SUBSET Seq(Component)
  BY PathsType
<1> DEFINE I == paths \ todo
<1>4. todo \in SUBSET paths /\ TrieOf(trie, I) /\ excluded = {} /\ pathStack = <<>>
  BY DEF InsertInv
<1>5. /\ I \in SUBSET Seq(Component) /\ q \in Seq(Component) /\ q \in paths /\ q \notin I
      /\ \A p \in I : p \in paths
  BY <1>1, <1>3, <1>4
<1>6. paths \ todo' = I \cup {q}
  BY <1>1, <1>4
<1> HIDE DEF I
<1>7. \/ q # <<>> /\ <<>> \notin I
      \/ q = <<>> /\ I = {}
  BY <1>5
<1>8. trie \in SUBSET Seq(Component)
  BY <1>4 DEF TrieOf
<1>9. TrieOf(Filter!WithPath(q), I \cup {q})
  BY <1>4, <1>5, <1>7, <1>8, WithPathKeeps
<1>10. todo' \in SUBSET paths
  BY <1>1, <1>4
<1>11. TrieOf(trie', paths' \ todo')
  BY <1>1, <1>2, <1>6, <1>9
<1> QED BY <1>2, <1>4, <1>10, <1>11 DEF InsertInv, TrieOf, Final

LEMMA RootLeading ==
  ASSUME Complete
  PROVE  Leading(<<>>) = {<<>>} \cap trie
<1>1. trie \in SUBSET Seq(Component)
  BY DEF Complete
<1>2. ASSUME NEW t \in trie
      PROVE  Filter!LeadsTo(t, <<>>) <=> t = <<>>
  <2>1. t \in Seq(Component) /\ <<>> \in Seq(Nat) /\ Len(<<>>) = 0
    BY <1>1
  <2>2. Filter!LeadsTo(t, <<>>) <=> Len(t) = 0 /\ \A i \in 1..Len(t) : t[i] \in Labels(Start(<<>>, i))
    BY <2>1, LeadsIs
  <2>3. Len(t) = 0 <=> t = <<>>
    BY <2>1
  <2>4. Len(t) = 0 => \A i \in 1..Len(t) : FALSE
    OBVIOUS
  <2> QED BY <2>2, <2>3, <2>4
<1> QED BY <1>2 DEF Leading

\* The walk goes on with the stack of the next state.
LEMMA VisitNext ==
  ASSUME root' = root, paths' = paths, trie' = trie, Complete, StackHolds(pathStack'),
         excluded' = {q \in ToExclude : Behind(pathStack', q)}
  PROVE  VisitInv'
<1>1. Complete' /\ ToExclude' = ToExclude /\ \A s : StackHolds(s)' <=> StackHolds(s)
  BY SameData
<1>2. StackHolds(pathStack)'
  <2>1. \A f, n : FrameHolds(f, n)' <=> FrameHolds(f, n)
    BY SameData
  <2> QED BY <2>1 DEF StackHolds
<1>3. excluded' = {q \in ToExclude' : Behind(pathStack, q)'}
  BY <1>1 DEF Behind, Passed, Limit
<1> QED BY <1>1, <1>2, <1>3 DEF VisitInv

LEMMA StartStep ==
  ASSUME InsertInv, IsCase, Filter!Start
  PROVE  \/ walk' = "visit" /\ VisitInv'
         \/ walk' = "done" /\ DoneInv'
<1>1. todo = {} /\ UNCHANGED <<root, paths, todo, trie>>
  BY DEF Filter!Start
<1>2. Complete
  <2>1. paths \ todo = paths
    BY <1>1
  <2>2. TrieOf(trie, paths)
    BY <2>1 DEF InsertInv
  <2> QED BY <2>2, PathsType DEF Complete, TrieOf
<1> DEFINE nodes == {<<>>} \cap trie
<1>3. nodes = Leading(<<>>)
  BY <1>2, RootLeading
<1>4. <<>> \in Places(root) /\ <<>> \in Seq(Nat) /\ Len(<<>>) = 0 /\ Filter!At(root, <<>>) = root
  BY RootPlace, AtNothing
<1>5. FreeAbove(<<>>)
  BY <1>4 DEF FreeAbove
<1>6. ASSUME NEW q \in ToExclude
      PROVE  /\ q \in Seq(Nat) /\ Len(q) \in Nat /\ Start(q, 0) = <<>> /\ Filter!Named(q)
             /\ q \in Places(root)
  <2>1. q \in Places(root) /\ Filter!Named(q)
    BY DEF ToExclude
  <2>2. q \in Seq(Nat)
    BY <2>1, PlaceType
  <2> QED BY <2>1, <2>2, WholeStart
<1>7. Filter!Found(nodes) <=> Filter!Named(<<>>)
  <2>1. Filter!Named(<<>>) <=> \E t \in nodes : Final(trie, t)
    BY <1>2, <1>3, <1>4, <1>5, NamedIsFinal
  <2>2. \A t \in nodes : nodes = {t} /\ (Filter!IsTerminal(t) <=> Final(trie, t))
    BY DEF Filter!IsTerminal, Final
  <2> QED BY <2>1, <2>2, Zenon DEF Filter!Found
<1>8. CASE Filter!Found(nodes)
  <2>1. walk' = "done" /\ excluded' = {<<>>}
    BY <1>8 DEF Filter!Start
  <2>2. <<>> \in ToExclude
    BY <1>4, <1>5, <1>7, <1>8, LimitsAssumption DEF ToExclude
  <2>3. ASSUME NEW q \in ToExclude
        PROVE  q = <<>>
    <3>1. 0 \in 0..Len(q) /\ Filter!Named(Start(q, 0))
      BY <1>6, <1>7, <1>8
    <3> QED BY <1>6, <3>1, ExcludedIs
  <2>4. ToExclude = {<<>>}
    BY <2>2, <2>3
  <2> QED BY <1>1, <2>1, <2>4, SameData DEF DoneInv
<1>9. CASE ~Filter!Found(nodes) /\ (Filter!NotFound(nodes) \/ ~Filter!IsContainer(root))
  <2>1. walk' = "done" /\ excluded' = {}
    BY <1>9 DEF Filter!Start
  <2>2. Unnamed(<<>>)
    BY <1>5, <1>7, <1>9 DEF Unnamed
  <2>3. ASSUME NEW q \in ToExclude
        PROVE  FALSE
    <3>1. 0 <= Len(q) /\ Len(<<>>) <= Len(q) /\ Start(q, Len(<<>>)) = <<>>
      BY <1>4, <1>6
    <3>2. CASE Filter!NotFound(nodes)
      <4>1. Leading(<<>>) # {}
        BY <1>2, <1>4, <1>6, <2>2, <3>1, NamedIsBelow
      <4> QED BY <1>3, <3>2, <4>1 DEF Filter!NotFound
    <3>3. CASE ~Filter!IsContainer(root)
      <4>1. Len(q) > Len(<<>>)
        BY <1>4, <2>2, <3>1, NoneAtUnnamed
      <4>2. Filter!IsContainer(Filter!At(root, <<>>))
        BY <1>4, <1>6, <3>1, <4>1, PlaceUnder
      <4> QED BY <1>4, <3>3, <4>2
    <3> QED BY <1>9, <3>2, <3>3
  <2>4. ToExclude = {}
    BY <2>3
  <2> QED BY <1>1, <2>1, <2>4, SameData DEF DoneInv
<1>10. CASE ~Filter!Found(nodes) /\ ~Filter!NotFound(nodes) /\ Filter!IsContainer(root)
  <2> DEFINE f == [place |-> <<>>, index |-> 1, nodes |-> nodes]
  <2>1. walk' = "visit" /\ pathStack' = <<f>> /\ excluded' = excluded
    BY <1>10 DEF Filter!Start
  <2>2. f.place = <<>> /\ f.index = 1 /\ f.nodes = nodes
    OBVIOUS
  <2>3. f \in FrameType
    <3>1. nodes \in SUBSET Seq(Component)
      BY <1>2 DEF Complete
    <3> HIDE DEF nodes
    <3> QED BY <1>4, <3>1 DEF FrameType
  <2> HIDE DEF f, nodes
  <2>4. <<f>> \in Seq(FrameType) /\ Len(<<f>>) = 1 /\ <<f>>[1] = f
    BY <2>3
  <2>5. FrameHolds(f, 1)
    <3>1. Filter!Size(Filter!At(root, <<>>)) \in Nat
      BY <1>4, <1>10, SizeType
    <3>2. 1 \in 1..Filter!Size(Filter!At(root, <<>>)) + 1
      BY <3>1
    <3>3. Unnamed(<<>>)
      BY <1>5, <1>7, <1>10 DEF Unnamed
    <3> QED BY <1>3, <1>4, <1>10, <2>2, <3>2, <3>3 DEF FrameHolds
  <2> DEFINE s == <<f>>
  <2>6. s \in Seq(FrameType) /\ Len(s) = 1 /\ s[1] = f
    BY <2>4
  <2> HIDE DEF s
  <2>7. StackHolds(s)
    <3>1. Len(s) \in 1..MaxDepth
      BY <2>6, LimitsAssumption
    <3>2. \A n \in 1..Len(s) : n = 1
      BY <2>6
    <3>3. \A n \in 2..Len(s) : FALSE
      BY <2>6
    <3> QED BY <2>5, <2>6, <3>1, <3>2, <3>3 DEF StackHolds
  <2>8. ASSUME NEW q \in ToExclude, Behind(s, q)
        PROVE  FALSE
    <3>1. PICK n \in 1..Len(s) : Passed(s, q, n)
      BY <2>8 DEF Behind
    <3>2. n = 1 /\ Limit(s, n) = 1
      BY <2>2, <2>6, <3>1 DEF Limit
    <3>3. 1 <= Len(q) /\ q[1] < 1
      BY <3>1, <3>2 DEF Passed
    <3>4. 1 \in 1..Len(q)
      BY <1>6, <3>3
    <3>5. q[1] \in 1..Filter!Size(Filter!At(root, Start(q, 1 - 1)))
      BY <1>6, <3>4, PlaceStep
    <3>6. \A m : \A j \in 1..m : j \in Nat /\ ~(j < 1)
      OBVIOUS
    <3> QED BY <3>3, <3>5, <3>6
  <2>9. excluded = {q \in ToExclude : Behind(s, q)}
    BY <2>8 DEF InsertInv
  <2>10. pathStack' = s
    BY <2>1 DEF s
  <2>11. StackHolds(pathStack') /\ excluded' = {q \in ToExclude : Behind(pathStack', q)}
    BY <2>1, <2>7, <2>9, <2>10
  <2>12. VisitInv'
    BY <1>1, <1>2, <2>11, VisitNext
  <2> QED BY <2>1, <2>12
<1> QED BY <1>8, <1>9, <1>10

\* What the walk would find below a child whose nodes it does not follow.
LEMMA NothingBelow ==
  ASSUME Complete, NEW c \in Seq(Nat), Unnamed(c),
         \/ Leading(c) = {}
         \/ ~Filter!IsContainer(Filter!At(root, c))
         \/ Len(c) >= MaxDepth,
         NEW q \in ToExclude, Len(q) >= Len(c)
  PROVE  Start(q, Len(c)) # c
<1> SUFFICES ASSUME Start(q, Len(c)) = c PROVE FALSE
  OBVIOUS
<1>1. /\ q \in Places(root) /\ q \in Seq(Nat) /\ Len(q) \in Nat /\ Len(c) \in Nat
      /\ Len(c) <= Len(q) /\ Filter!Named(q) /\ Len(q) <= MaxDepth
  BY PlaceType DEF ToExclude
<1>2. Len(q) > Len(c)
  BY <1>1, NoneAtUnnamed
<1>3. Leading(c) # {}
  BY <1>1, NamedIsBelow
<1>4. Filter!IsContainer(Filter!At(root, c))
  BY <1>1, <1>2, PlaceUnder
<1> QED BY <1>1, <1>2, <1>3, <1>4, LimitsAssumption

LEMMA VisitStep ==
  ASSUME VisitInv, IsCase, Filter!Visit
  PROVE  walk' = "visit" /\ VisitInv'
<1> DEFINE s == pathStack
           L == Len(s)
           top == s[L]
           c == ChildOf(top)
           nodes == ChildNodes(top.nodes, c)
           enter == /\ ~Filter!Found(nodes) /\ ~Filter!NotFound(nodes)
                    /\ Filter!IsContainer(Filter!At(root, c)) /\ L < MaxDepth
<1>1. /\ walk' = "visit" /\ UNCHANGED <<root, paths, todo, trie>>
  BY DEF Filter!Visit
<1>2. /\ top.index <= Filter!Size(Filter!At(root, top.place))
      /\ excluded' = IF Filter!Found(nodes) THEN excluded \cup {c} ELSE excluded
      /\ pathStack' = IF enter THEN Into(s, nodes) ELSE Onward(s)
  BY Zenon DEF Filter!Visit, Filter!Last, ChildOf, ChildNodes, Offered, Into, Onward
<1>3. Complete /\ StackHolds(s) /\ excluded = {q \in ToExclude : Behind(s, q)}
  BY DEF VisitInv
<1>4. L \in 1..L /\ L \in Nat /\ L <= MaxDepth /\ s \in Seq(FrameType) /\ L # 0
  BY <1>3, TopIs
<1>5. /\ top.place \in Seq(Nat) /\ top.index \in Nat /\ FrameHolds(top, L)
      /\ c = Append(top.place, top.index)
  BY <1>3, <1>4, FrameIs DEF ChildOf
<1>6. c \in Places(root) /\ Len(c) = L /\ FreeAbove(c) /\ c \in Seq(Nat)
  <2>1. c \in Places(root) /\ Len(c) = L /\ FreeAbove(c)
    BY <1>2, <1>3, ChildIs
  <2> QED BY <2>1, PlaceType
<1>7. top.nodes = Leading(top.place) /\ Unnamed(top.place)
  BY <1>5 DEF FrameHolds
<1> DEFINE p == top.place
           i == top.index
<1>8. /\ Filter!Found(nodes) <=> Filter!Named(c)
      /\ ~Filter!Named(c) => nodes = Leading(c)
  <2>1. p \in Seq(Nat) /\ i \in Nat /\ Unnamed(p) /\ c = Append(p, i) /\ nodes = ChildNodes(Leading(p), c)
    BY <1>5, <1>7
  <2> HIDE DEF p, i, nodes, c
  <2> QED BY <1>3, <2>1, StepLeads
<1>9. \A q \in ToExclude : q \in Places(root) /\ q \in Seq(Nat) /\ Len(q) \in Nat
  BY PlaceType DEF ToExclude
<1>10. \A q \in ToExclude : Behind(Onward(s), q) <=>
          Behind(s, q) \/ (Len(q) >= L /\ Start(q, L) = c)
  BY <1>3, <1>9, OnwardBehind
<1>11. StackHolds(Onward(s))
  BY <1>2, <1>3, OnwardHolds
<1> HIDE DEF nodes, c, p, i
<1>12. CASE Filter!Found(nodes)
  <2>1. excluded' = excluded \cup {c} /\ pathStack' = Onward(s)
    BY <1>2, <1>12
  <2>2. c \in ToExclude
    BY <1>4, <1>6, <1>8, <1>12 DEF ToExclude
  <2>3. Start(c, L) = c /\ Len(c) >= L
    BY <1>4, <1>6, WholeStart
  <2>4. ASSUME NEW q \in ToExclude, Len(q) >= L, Start(q, L) = c
        PROVE  q = c
    <3>1. L \in 0..Len(q)
      BY <1>4, <1>9, <2>4
    <3>2. Filter!Named(Start(q, L))
      BY <1>8, <1>12, <2>4
    <3> QED BY <2>4, <3>1, <3>2, ExcludedIs
  <2>5. \A q \in ToExclude : Behind(Onward(s), q) <=> Behind(s, q) \/ q = c
    BY <1>10, <2>3, <2>4
  <2>6. excluded' = {q \in ToExclude : Behind(Onward(s), q)}
    BY <1>3, <2>1, <2>2, <2>5
  <2>7. StackHolds(pathStack') /\ excluded' = {q \in ToExclude : Behind(pathStack', q)}
    BY <1>11, <2>1, <2>6
  <2> QED BY <1>1, <1>3, <2>7, VisitNext
<1>13. CASE ~Filter!Found(nodes) /\ ~enter
  <2>1. excluded' = excluded /\ pathStack' = Onward(s)
    BY <1>2, <1>13
  <2>2. nodes = Leading(c) /\ Unnamed(c)
    BY <1>6, <1>8, <1>13 DEF Unnamed
  <2>3. \/ Leading(c) = {}
        \/ ~Filter!IsContainer(Filter!At(root, c))
        \/ Len(c) >= MaxDepth
    BY <1>4, <1>6, <1>13, <2>2, LimitsAssumption DEF Filter!NotFound
  <2>4. \A q \in ToExclude : Behind(Onward(s), q) <=> Behind(s, q)
    BY <1>3, <1>6, <1>10, <2>2, <2>3, NothingBelow
  <2>5. excluded' = {q \in ToExclude : Behind(Onward(s), q)}
    BY <1>3, <2>1, <2>4
  <2>6. StackHolds(pathStack') /\ excluded' = {q \in ToExclude : Behind(pathStack', q)}
    BY <1>11, <2>1, <2>5
  <2> QED BY <1>1, <1>3, <2>6, VisitNext
<1>14. CASE enter
  <2>1. excluded' = excluded /\ pathStack' = Into(s, nodes)
    BY <1>2, <1>14
  <2>2. nodes = Leading(c) /\ ~Filter!Named(c)
    BY <1>8, <1>14
  <2>3. StackHolds(Into(s, Leading(c)))
    BY <1>2, <1>3, <1>14, <2>2, IntoHolds DEF c
  <2>4. Leading(c) \in SUBSET Seq(Component)
    BY <1>3 DEF Leading, Complete
  <2>5. \A q \in ToExclude : Behind(Into(s, Leading(c)), q) <=> Behind(s, q)
    BY <1>3, <1>9, <2>4, IntoBehind
  <2>6. StackHolds(pathStack') /\ excluded' = {q \in ToExclude : Behind(pathStack', q)}
    BY <1>3, <2>1, <2>2, <2>3, <2>5
  <2> QED BY <1>1, <1>3, <2>6, VisitNext
<1> QED BY <1>12, <1>13, <1>14

LEMMA LeaveStep ==
  ASSUME VisitInv, IsCase, Filter!Leave
  PROVE  \/ walk' = "visit" /\ VisitInv'
         \/ walk' = "done" /\ DoneInv'
<1> DEFINE s == pathStack
           L == Len(s)
<1>1. /\ s[L].index > Filter!Size(Filter!At(root, s[L].place)) /\ walk = "visit"
      /\ pathStack' = Filter!Front(s) /\ walk' = IF L = 1 THEN "done" ELSE walk
      /\ UNCHANGED <<root, paths, todo, trie, excluded>>
  BY Zenon DEF Filter!Leave, Filter!Last
<1>2. Complete /\ StackHolds(s) /\ excluded = {q \in ToExclude : Behind(s, q)}
  BY DEF VisitInv
<1>3. L \in 1..L /\ L \in Nat
  BY <1>2, TopIs
<1> HIDE DEF s, L
<1>4. CASE L # 1
  <2>1. walk' = "visit"
    BY <1>1, <1>4
  <2>2. StackHolds(Filter!Front(s))
    BY <1>2, <1>4, FrontHolds DEF L
  <2>3. \A q \in ToExclude : Behind(Filter!Front(s), q) <=> Behind(s, q)
    BY <1>1, <1>2, <1>4, FrontBehind DEF L
  <2>4. StackHolds(pathStack') /\ excluded' = {q \in ToExclude : Behind(pathStack', q)}
    BY <1>1, <1>2, <2>2, <2>3
  <2> QED BY <1>1, <1>2, <2>1, <2>4, VisitNext
<1>5. CASE L = 1
  <2>1. walk' = "done" /\ excluded' = excluded
    BY <1>1, <1>5
  <2> DEFINE f == s[1]
             size == Filter!Size(Filter!At(root, <<>>))
  <2>2. /\ FrameHolds(f, 1) /\ f.place = <<>> /\ f.index > size /\ f.index \in Nat
        /\ Unnamed(<<>>) /\ Limit(s, 1) = f.index /\ size \in Nat
    <3>1. FrameHolds(f, 1) /\ f.index \in Nat /\ f.place \in Seq(Nat) /\ Len(f.place) = 1 - 1
      BY <1>2, <1>3, <1>5, FrameIs DEF L
    <3>2. f.place = <<>>
      BY <3>1
    <3>3. Limit(s, 1) = f.index
      BY <1>5 DEF Limit, L
    <3>4. Unnamed(<<>>) /\ Filter!IsContainer(Filter!At(root, <<>>)) /\ <<>> \in Places(root)
      BY <3>1, <3>2 DEF FrameHolds
    <3>5. size \in Nat
      BY <3>4, SizeType
    <3>6. f.index > size
      BY <1>1, <1>5, <3>2
    <3> QED BY <3>1, <3>2, <3>3, <3>4, <3>5, <3>6
  <2>3. ASSUME NEW q \in ToExclude
        PROVE  Behind(s, q)
    <3>1. q \in Places(root) /\ q \in Seq(Nat) /\ Len(q) \in Nat /\ Start(q, 0) = <<>>
      BY PlaceType, WholeStart DEF ToExclude
    <3>2. <<>> \in Seq(Nat) /\ Len(<<>>) = 0 /\ Len(<<>>) <= Len(q) /\ Start(q, Len(<<>>)) = <<>>
      BY <3>1
    <3>3. Len(q) > Len(<<>>)
      BY <2>2, <3>2, NoneAtUnnamed
    <3>4. q[Len(<<>>) + 1] \in 1..size
      BY <3>1, <3>2, <3>3, PlaceUnder
    <3>5. q[1] \in 1..size
      BY <3>2, <3>4
    <3> HIDE DEF f, size
    <3>6. q[1] < f.index
      BY <2>2, <3>5
    <3>7. Passed(s, q, 1)
      <4>1. 1 <= Len(q) /\ Start(q, 1 - 1) = <<>>
        BY <3>1, <3>2, <3>3
      <4> QED BY <2>2, <3>6, <4>1 DEF Passed, f
    <3> QED BY <1>3, <1>5, <3>7 DEF Behind, L
  <2>4. excluded' = ToExclude
    BY <1>2, <2>1, <2>3
  <2> QED BY <1>1, <2>1, <2>4, SameData DEF DoneInv
<1> QED BY <1>4, <1>5

LEMMA CursorKeeps ==
  ASSUME Cursor!Next
  PROVE  UNCHANGED <<root, excluded>>
BY DEF Cursor!Next, Cursor!arguments, Cursor!BeginNowhere, Cursor!BeginAtScalar, Cursor!BeginAtContainer,
       Cursor!FollowToScalar, Cursor!FollowToContainer, Cursor!FollowNowhere,
       Cursor!Pop, Cursor!HoldContainer, Cursor!Push, Cursor!HoldChild, Cursor!Skip, Cursor!End,
       Cursor!Advance

\* The empty path is the only one of its filter: with others it need not
\* exclude the whole object (see EmptyPathMeansAll).
EmptyPathAlone == \A c \in Cases : <<>> \in c.paths => c.paths = {<<>>}

LEMMA WalkInit == ASSUME Init PROVE WalkInv
<1>1. IsCase
  BY DEF Init, IsCase
<1>2. todo = paths /\ trie = {} /\ walk = "insert" /\ pathStack = <<>> /\ excluded = {}
  BY DEF Init, Filter!Init
<1>3. TrieOf(trie, paths \ todo)
  BY <1>2 DEF TrieOf
<1> QED BY <1>1, <1>2, <1>3 DEF WalkInv, InsertInv

LEMMA WalkNext ==
  ASSUME EmptyPathAlone, WalkInv, [Next]_vars
  PROVE  WalkInv'
<1>1. IsCase /\ walk \in {"insert", "visit", "done"}
  BY DEF WalkInv
<1>2. <<>> \in paths => paths = {<<>>}
  BY <1>1 DEF EmptyPathAlone, IsCase
<1>3. ASSUME root' = root, paths' = paths
      PROVE  IsCase'
  BY <1>1, <1>3 DEF IsCase
<1>4. CASE Filter!Insert
  <2>1. walk = "insert" /\ UNCHANGED <<root, paths, walk>>
    BY <1>4 DEF Filter!Insert
  <2>2. InsertInv'
    BY <1>1, <1>2, <1>4, <2>1, InsertStep DEF WalkInv
  <2> QED BY <1>3, <2>1, <2>2 DEF WalkInv
<1>5. CASE Filter!Start
  <2>1. walk = "insert" /\ UNCHANGED <<root, paths>>
    BY <1>5 DEF Filter!Start
  <2>2. InsertInv
    BY <2>1 DEF WalkInv
  <2> QED BY <1>1, <1>3, <1>5, <2>1, <2>2, StartStep DEF WalkInv
<1>6. CASE Filter!Visit
  <2>1. walk = "visit" /\ UNCHANGED <<root, paths>>
    BY <1>6 DEF Filter!Visit
  <2>2. VisitInv
    BY <2>1 DEF WalkInv
  <2> QED BY <1>1, <1>3, <1>6, <2>1, <2>2, VisitStep DEF WalkInv
<1>7. CASE Filter!Leave
  <2>1. walk = "visit" /\ UNCHANGED <<root, paths>>
    BY <1>7 DEF Filter!Leave
  <2>2. VisitInv
    BY <2>1 DEF WalkInv
  <2> QED BY <1>1, <1>3, <1>7, <2>1, <2>2, LeaveStep DEF WalkInv
<1>8. CASE CursorStep
  <2>1. walk = "done" /\ UNCHANGED <<paths, todo, trie, walk, pathStack>>
    BY <1>8 DEF CursorStep
  <2>2. UNCHANGED <<root, excluded>>
    BY <1>8, CursorKeeps DEF CursorStep
  <2>3. DoneInv'
    <3>1. ToExclude' = ToExclude
      BY <2>1, <2>2, SameData
    <3> QED BY <2>1, <2>2, <3>1 DEF WalkInv, DoneInv
  <2> QED BY <1>3, <2>1, <2>2, <2>3 DEF WalkInv
<1>9. CASE UNCHANGED vars
  <2>1. UNCHANGED <<root, paths, todo, trie, walk, pathStack, excluded>>
    BY <1>9 DEF vars, Filter!vars
  <2>2. /\ IsCase' <=> IsCase
        /\ Complete' <=> Complete
        /\ ToExclude' = ToExclude
    BY <2>1, SameData
  <2>3. InsertInv => InsertInv'
    BY <2>1 DEF InsertInv, TrieOf, Final
  <2>4. DoneInv => DoneInv'
    BY <2>1, <2>2 DEF DoneInv
  <2>5. VisitInv => VisitInv'
    BY <2>1, VisitNext DEF VisitInv
  <2> QED BY <2>1, <2>2, <2>3, <2>4, <2>5 DEF WalkInv
<1> QED BY <1>4, <1>5, <1>6, <1>7, <1>8, <1>9 DEF Next, FilterStep, Filter!Next

LEMMA WalkMeans == ASSUME WalkInv PROVE FilterMeansItsPaths
<1> SUFFICES ASSUME walk = "done"
             PROVE  excluded = {place \in Filter!Below(root, <<>>) :
                        /\ Filter!Named(place)
                        /\ Len(place) <= MaxDepth
                        /\ \A shorter \in Filter!ShorterThan(place) : ~Filter!Named(shorter)}
  BY DEF FilterMeansItsPaths, Filter!FilterMeansItsPaths
<1>1. excluded = ToExclude
  BY DEF WalkInv, DoneInv
<1>2. \A q : FreeAbove(q) <=> \A shorter \in Filter!ShorterThan(q) : ~Filter!Named(shorter)
  BY Zenon DEF FreeAbove, Filter!ShorterThan, Start
<1> QED BY <1>1, <1>2, Zenon DEF ToExclude, Places

\* Once the object filter has been through an object, what it excludes is what
\* its paths lead to within the limits and not inside something else excluded,
\* whatever the order in which the paths were inserted (path_trie::insert,
\* iterate_object), for any objects, paths and limits.
THEOREM FilterCorrect == ASSUME EmptyPathAlone PROVE Spec => []FilterMeansItsPaths
<1>1. Init => WalkInv
  BY WalkInit
<1>2. WalkInv /\ [Next]_vars => WalkInv'
  BY WalkNext
<1>3. WalkInv => FilterMeansItsPaths
  BY WalkMeans
<1> QED BY <1>1, <1>2, <1>3, PTL DEF Spec

-----------------------------------------------------------------------------
(* Sequences put one after the other *)

LEMMA Joins ==
  ASSUME NEW S, NEW a \in Seq(S), NEW b \in Seq(S), NEW c \in Seq(S)
  PROVE  /\ (a \o b) \o c = a \o (b \o c) /\ a \o b \in Seq(S)
         /\ a \o <<>> = a /\ <<>> \o a = a
<1>1. a \o b \in Seq(S) /\ Len(a \o b) = Len(a) + Len(b) /\ b \o c \in Seq(S) /\ Len(b \o c) = Len(b) + Len(c)
  OBVIOUS
<1>2. a \o <<>> = a /\ <<>> \o a = a
  OBVIOUS
<1>3. (a \o b) \o c = a \o (b \o c)
  OBVIOUS
<1> QED BY <1>1, <1>2, <1>3

Flat(s) == Cursor!FlattenSeq(s)
Joined(s, n, f) == f = [i \in 1..n |-> IF i = 1 THEN s[i] ELSE f[i - 1] \o s[i]]

LEMMA JoinedAre ==
  ASSUME NEW s, NEW n \in Nat, NEW f, Joined(s, n, f)
  PROVE  \A i \in 1..n : f[i] = IF i = 1 THEN s[i] ELSE f[i - 1] \o s[i]
BY Zenon DEF Joined

LEMMA JoinedExists ==
  ASSUME NEW s, NEW n \in Nat
  PROVE  \E f : Joined(s, n, f)
<1> DEFINE T == {m \in 0..n : \E f : Joined(s, m, f)}
<1>1. 0 \in T
  <2> DEFINE f == [i \in 1..0 |-> s[i]]
  <2>1. \A i \in 1..0 : FALSE
    OBVIOUS
  <2>2. Joined(s, 0, f)
    BY <2>1, Zenon DEF Joined
  <2> HIDE DEF f
  <2> QED BY <2>2
<1>2. ASSUME NEW m \in 1..n, m - 1 \in T
      PROVE  m \in T
  <2>1. PICK f : Joined(s, m - 1, f)
    BY <1>2
  <2> DEFINE g == [i \in 1..m |-> IF i = m THEN (IF i = 1 THEN s[i] ELSE f[i - 1] \o s[i]) ELSE f[i]]
             h == [i \in 1..m |-> IF i = 1 THEN s[i] ELSE g[i - 1] \o s[i]]
  <2>2. ASSUME NEW i \in 1..m
        PROVE  g[i] = h[i]
    <3>1. i # 1 => g[i - 1] = f[i - 1]
      OBVIOUS
    <3>2. h[i] = IF i = 1 THEN s[i] ELSE g[i - 1] \o s[i]
      <4> HIDE DEF g
      <4> QED OBVIOUS
    <3>3. i # m => i \in 1..(m - 1)
      OBVIOUS
    <3>4. i # m => f[i] = IF i = 1 THEN s[i] ELSE f[i - 1] \o s[i]
      BY <2>1, <3>3, JoinedAre
    <3>5. g[i] = IF i = 1 THEN s[i] ELSE f[i - 1] \o s[i]
      BY <3>4
    <3> HIDE DEF g, h
    <3> QED BY <3>1, <3>2, <3>5
  <2>3. g = h
    <3>1. g = [i \in 1..m |-> g[i]] /\ h = [i \in 1..m |-> h[i]]
      OBVIOUS
    <3> HIDE DEF g, h
    <3> QED BY <2>2, <3>1
  <2>4. Joined(s, m, g)
    <3>1. g = h
      BY <2>3
    <3> QED BY <3>1 DEF Joined
  <2> HIDE DEF g, h
  <2> QED BY <2>4
<1>3. T = 0..n
  <2>1. T \in SUBSET (0..n)
    OBVIOUS
  <2> HIDE DEF T
  <2> QED BY <1>1, <1>2, <2>1, Counting
<1> QED BY <1>3

LEMMA FlatIs ==
  ASSUME NEW s, Len(s) \in Nat, Len(s) # 0
  PROVE  \E f : Joined(s, Len(s), f) /\ Flat(s) = f[Len(s)]
<1> DEFINE n == Len(s)
           f == CHOOSE f : Joined(s, n, f)
<1>1. Joined(s, n, f)
  BY JoinedExists, Zenon
<1>2. Flat(s) = f[n]
  BY Zenon DEF Flat, Cursor!FlattenSeq, Joined
<1> HIDE DEF f
<1> QED BY <1>1, <1>2

LEMMA FlatNothing == Flat(<<>>) = <<>>
<1>1. Len(<<>>) = 0
  OBVIOUS
<1> QED BY <1>1, Zenon DEF Flat, Cursor!FlattenSeq

\* One sequence more.
LEMMA FlatMore ==
  ASSUME NEW S, NEW s \in Seq(Seq(S)), NEW t \in Seq(Seq(S)), Len(t) = Len(s) + 1,
         \A i \in 1..Len(s) : t[i] = s[i]
  PROVE  Flat(t) = Flat(s) \o t[Len(t)]
<1> DEFINE n == Len(s)
<1>1. n \in Nat /\ Len(t) = n + 1 /\ t[n + 1] \in Seq(S)
  <2>1. n \in Nat /\ Len(t) = n + 1
    OBVIOUS
  <2>2. \A i \in 1..Len(t) : t[i] \in Seq(S)
    OBVIOUS
  <2> HIDE DEF n
  <2>3. n + 1 \in 1..Len(t)
    BY <2>1
  <2>4. t[n + 1] \in Seq(S)
    BY <2>2, <2>3, Zenon
  <2> QED BY <2>1, <2>4, Zenon
<1>2. PICK g : Joined(t, n + 1, g) /\ Flat(t) = g[n + 1]
  BY <1>1, FlatIs
<1>3. \A i \in 1..(n + 1) : g[i] = IF i = 1 THEN t[i] ELSE g[i - 1] \o t[i]
  <2>1. n + 1 \in Nat
    BY <1>1
  <2> HIDE DEF n
  <2> QED BY <1>2, <2>1, JoinedAre
<1>4. CASE n = 0
  <2>1. s = <<>>
    BY <1>4
  <2>2. g[1] = t[1] /\ Flat(t) = t[1]
    BY <1>2, <1>3, <1>4
  <2>3. <<>> \o t[1] = t[1]
    BY <1>1, <1>4, Joins
  <2> QED BY <1>1, <1>4, <2>1, <2>2, <2>3, FlatNothing
<1>5. CASE n # 0
  <2>1. PICK f : Joined(s, n, f) /\ Flat(s) = f[n]
    BY <1>1, <1>5, FlatIs
  <2>2. \A i \in 1..n : f[i] = IF i = 1 THEN s[i] ELSE f[i - 1] \o s[i]
    <3> HIDE DEF n
    <3> QED BY <1>1, <2>1, JoinedAre
  <2> DEFINE T == {i \in 0..n : i = 0 \/ f[i] = g[i]}
  <2>3. \A i \in 1..n : t[i] = s[i] /\ i \in 1..(n + 1)
    BY <1>1
  <2> HIDE DEF n
  <2>4. 0 \in T
    BY <1>1
  <2>5. ASSUME NEW i \in 1..n, i - 1 \in T
        PROVE  i \in T
    <3>1. i - 1 = 0 <=> i = 1
      OBVIOUS
    <3>2. i # 1 => f[i - 1] = g[i - 1]
      BY <2>5, <3>1
    <3>3. f[i] = g[i]
      BY <1>3, <2>2, <2>3, <3>2
    <3> QED BY <1>1, <3>3
  <2>6. T = 0..n
    <3>1. T \in SUBSET (0..n)
      OBVIOUS
    <3> HIDE DEF T
    <3> QED BY <1>1, <2>4, <2>5, <3>1, Counting
  <2>7. f[n] = g[n]
    <3>1. n \in 0..n
      BY <1>1
    <3>2. n \in T
      BY <2>6, <3>1, Zenon
    <3> QED BY <1>5, <3>2
  <2>8. g[n + 1] = g[n] \o t[n + 1]
    <3>1. n + 1 \in 1..(n + 1) /\ n + 1 # 1 /\ (n + 1) - 1 = n
      BY <1>1, <1>5
    <3> QED BY <1>3, <3>1
  <2> QED BY <1>1, <1>2, <2>1, <2>7, <2>8
<1> QED BY <1>4, <1>5

LEMMA FlatType ==
  ASSUME NEW S, NEW s \in Seq(Seq(S))
  PROVE  Flat(s) \in Seq(S)
<1> DEFINE n == Len(s)
           T == {m \in 0..n : Flat(Start(s, m)) \in Seq(S)}
<1>1. n \in Nat /\ Start(s, 0) = <<>> /\ Start(s, n) = s
  BY WholeStart
<1>2. 0 \in T
  <2>1. Flat(Start(s, 0)) \in Seq(S)
    <3>1. Flat(Start(s, 0)) = <<>>
      BY <1>1, FlatNothing
    <3>2. <<>> \in Seq(S)
      OBVIOUS
    <3> QED BY <3>1, <3>2
  <2>2. 0 \in 0..n
    BY <1>1
  <2> QED BY <2>1, <2>2
<1>3. ASSUME NEW m \in 1..n, m - 1 \in T
      PROVE  m \in T
  <2>1. m \in 0..Len(s) /\ m - 1 \in 0..Len(s)
    OBVIOUS
  <2>2. /\ Start(s, m) \in Seq(Seq(S)) /\ Len(Start(s, m)) = m
        /\ \A i \in 1..m : Start(s, m)[i] = s[i]
    BY <2>1, StartIs
  <2>3. /\ Start(s, m - 1) \in Seq(Seq(S)) /\ Len(Start(s, m - 1)) = m - 1
        /\ \A i \in 1..m - 1 : Start(s, m - 1)[i] = s[i]
    BY <2>1, StartIs
  <2> DEFINE a == Start(s, m - 1)
             b == Start(s, m)
  <2> HIDE DEF a, b
  <2>4. Len(b) = Len(a) + 1 /\ \A i \in 1..Len(a) : b[i] = a[i]
    <3>1. m \in Nat /\ Len(b) = m /\ Len(a) = m - 1 /\ \A i \in 1..m - 1 : i \in 1..m
      BY <2>2, <2>3 DEF a, b
    <3>2. \A i \in 1..m - 1 : b[i] = s[i] /\ a[i] = s[i]
      BY <2>2, <2>3, <3>1 DEF a, b
    <3> QED BY <3>1, <3>2
  <2>5. a \in Seq(Seq(S)) /\ b \in Seq(Seq(S)) /\ b[Len(b)] \in Seq(S)
    BY <2>2, <2>3 DEF a, b
  <2>6. Flat(b) = Flat(a) \o b[Len(b)]
    BY <2>4, <2>5, FlatMore
  <2>7. Flat(a) \in Seq(S)
    BY <1>3 DEF a
  <2>8. Flat(b) \in Seq(S)
    BY <2>5, <2>6, <2>7, Joins
  <2> QED BY <2>1, <2>8 DEF b
<1>4. T = 0..n
  <2>1. T \in SUBSET (0..n)
    OBVIOUS
  <2> HIDE DEF T, n
  <2> QED BY <1>1, <1>2, <1>3, <2>1, Counting
<1>5. n \in 0..n
  BY <1>1
<1> HIDE DEF n
<1> QED BY <1>1, <1>4, <1>5

-----------------------------------------------------------------------------
(* The path that leads to a place *)

LEMMA SameAt == \A r, p : Cursor!At(r, p) = Filter!At(r, p)
BY DEF Cursor!At, Cursor!FoldLeft, Cursor!MapThenFoldSet, Cursor!Max,
       Filter!At, Filter!FoldLeft, Filter!MapThenFoldSet, Filter!Max

Obj(q) == Cursor!Object(q)

LEMMA ObjIs ==
  /\ Obj(<<>>) = root
  /\ \A p \in Seq(Nat), i \in Nat : Obj(Append(p, i)) = Obj(p).children[i]
<1>1. \A q : Obj(q) = Filter!At(root, q)
  BY SameAt, Zenon DEF Obj, Cursor!Object
<1>2. \A p \in Seq(Nat), i \in Nat : Filter!At(root, Append(p, i)) = Filter!At(root, p).children[i]
  BY AtChild
<1> QED BY <1>1, <1>2, AtNothing

Token == {Obj(q).key : q \in Seq(Nat)} \cup {Cursor!ToString(i) : i \in Int}

\* What a place adds to the path of the place before it.
Added(p, i) ==
    IF Cursor!IsMap(Obj(p))
    THEN IF Obj(Append(p, i)).key = NoKey THEN <<>> ELSE <<Obj(Append(p, i)).key>>
    ELSE <<Cursor!ToString(i - 1)>>

LEMMA AddedIs ==
  ASSUME NEW p \in Seq(Nat), NEW i \in Nat
  PROVE  /\ Added(p, i) \in Seq(Token)
         /\ Added(p, i) = Cursor!Mark(p, i + 1, Append(p, i))
<1>1. Append(p, i) \in Seq(Nat) /\ i - 1 \in Int /\ (i + 1) - 2 = i - 1
  OBVIOUS
<1>2. Obj(Append(p, i)).key \in Token /\ Cursor!ToString(i - 1) \in Token
  BY <1>1, Zenon DEF Token
<1>3. \A e \in Token : <<e>> \in Seq(Token)
  OBVIOUS
<1>4. <<>> \in Seq(Token)
  OBVIOUS
<1>5. Added(p, i) \in Seq(Token)
  BY <1>2, <1>3, <1>4, Zenon DEF Added
<1>6. Added(p, i) = Cursor!Mark(p, i + 1, Append(p, i))
  BY <1>1, Zenon DEF Added, Cursor!Mark, Cursor!Nameless, Obj
<1> QED BY <1>5, <1>6

Steps(q) == [n \in DOMAIN q |-> Cursor!Step(q, n)]
True(q) == Cursor!TruePath(q)

LEMMA StepIs ==
  ASSUME NEW q \in Seq(Nat), NEW n \in 1..Len(q)
  PROVE  Cursor!Step(q, n) = Added(Start(q, n - 1), q[n])
<1>1. Append(Start(q, n - 1), q[n]) = Start(q, n)
  BY OneMore
<1>2. /\ Cursor!Object(SubSeq(q, 1, n - 1)) = Obj(Start(q, n - 1))
      /\ Cursor!Object(SubSeq(q, 1, n)) = Obj(Start(q, n))
  BY Zenon DEF Obj, Start
<1> DEFINE parent == Obj(Start(q, n - 1))
           child == Obj(Start(q, n))
<1>3. Cursor!Step(q, n) =
        CASE Cursor!IsMap(parent) /\ child.key # NoKey -> <<child.key>>
          [] Cursor!IsMap(parent) /\ child.key = NoKey -> <<>>
          [] OTHER -> <<Cursor!ToString(q[n] - 1)>>
  BY <1>2 DEF Cursor!Step
<1>4. Added(Start(q, n - 1), q[n]) =
        IF Cursor!IsMap(parent) THEN IF child.key = NoKey THEN <<>> ELSE <<child.key>>
        ELSE <<Cursor!ToString(q[n] - 1)>>
  BY <1>1 DEF Added
<1> HIDE DEF parent, child
<1> QED BY <1>3, <1>4

LEMMA StepsType ==
  ASSUME NEW q \in Seq(Nat)
  PROVE  /\ Steps(q) \in Seq(Seq(Token)) /\ Len(Steps(q)) = Len(q)
         /\ \A n \in 1..Len(q) : Steps(q)[n] = Added(Start(q, n - 1), q[n])
<1>1. Len(q) \in Nat /\ DOMAIN q = 1..Len(q)
  OBVIOUS
<1>2. ASSUME NEW n \in 1..Len(q)
      PROVE  /\ Cursor!Step(q, n) = Added(Start(q, n - 1), q[n])
             /\ Added(Start(q, n - 1), q[n]) \in Seq(Token)
  <2>1. n - 1 \in 0..Len(q) /\ q[n] \in Nat
    OBVIOUS
  <2>2. Start(q, n - 1) \in Seq(Nat)
    BY <2>1, StartIs
  <2>3. Added(Start(q, n - 1), q[n]) \in Seq(Token)
    BY <2>1, <2>2, AddedIs
  <2> QED BY <2>3, StepIs
<1>3. Steps(q) = [n \in 1..Len(q) |-> Cursor!Step(q, n)]
  BY <1>1, Zenon DEF Steps
<1>4. \A n \in 1..Len(q) : Steps(q)[n] = Cursor!Step(q, n)
  BY <1>3, Zenon
<1>5. Steps(q) \in [1..Len(q) -> Seq(Token)]
  <2>1. \A n \in 1..Len(q) : Cursor!Step(q, n) \in Seq(Token)
    BY <1>2, Zenon
  <2> QED BY <1>3, <2>1, Zenon
<1>6. Steps(q) \in Seq(Seq(Token)) /\ Len(Steps(q)) = Len(q)
  <2> DEFINE f == Steps(q)
             S == Seq(Token)
             n == Len(q)
  <2>1. f \in [1..n -> S] /\ n \in Nat
    BY <1>1, <1>5
  <2> HIDE DEF f, S, n
  <2>2. f \in Seq(S) /\ Len(f) = n
    BY <2>1
  <2> QED BY <2>2 DEF f, S, n
<1> QED BY <1>2, <1>4, <1>6

\* The path of the root is empty, and that of a child has what it adds.
LEMMA TrueIs ==
  /\ True(<<>>) = <<>>
  /\ \A q \in Seq(Nat) : True(q) \in Seq(Token)
  /\ \A p \in Seq(Nat), i \in Nat : True(Append(p, i)) = True(p) \o Added(p, i)
<1>1. \A q : True(q) = Flat(Steps(q))
  BY Zenon DEF True, Cursor!TruePath, Flat, Steps
<1>2. \A q \in Seq(Nat) : True(q) \in Seq(Token)
  BY <1>1, StepsType, FlatType
<1>3. True(<<>>) = <<>>
  <2>1. <<>> \in Seq(Nat) /\ Len(<<>>) = 0
    OBVIOUS
  <2>2. Steps(<<>>) \in Seq(Seq(Token)) /\ Len(Steps(<<>>)) = 0
    BY <2>1, StepsType
  <2>3. Steps(<<>>) = <<>>
    BY <2>2
  <2> QED BY <1>1, <2>3, FlatNothing
<1>4. ASSUME NEW p \in Seq(Nat), NEW i \in Nat
      PROVE  True(Append(p, i)) = True(p) \o Added(p, i)
  <2> DEFINE q == Append(p, i)
             a == Steps(p)
             b == Steps(q)
  <2>1. q \in Seq(Nat) /\ Len(q) = Len(p) + 1 /\ q[Len(q)] = i /\ \A n \in 1..Len(p) : q[n] = p[n]
    OBVIOUS
  <2>2. /\ a \in Seq(Seq(Token)) /\ Len(a) = Len(p)
        /\ \A n \in 1..Len(p) : a[n] = Added(Start(p, n - 1), p[n])
    BY StepsType
  <2>3. \A n \in 0..Len(p) : Start(q, n) = Start(p, n)
    BY StartOfAppend
  <2>4. Len(p) \in Nat /\ Start(p, Len(p)) = p
    BY WholeStart
  <2> HIDE DEF q
  <2>5. /\ b \in Seq(Seq(Token)) /\ Len(b) = Len(q)
        /\ \A n \in 1..Len(q) : b[n] = Added(Start(q, n - 1), q[n])
    BY <2>1, StepsType
  <2> HIDE DEF a, b
  <2>6. \A n \in 1..Len(a) : b[n] = a[n]
    <3> TAKE n \in 1..Len(a)
    <3>1. n \in 1..Len(p) /\ n \in 1..Len(q) /\ n - 1 \in 0..Len(p)
      BY <2>1, <2>2, <2>4
    <3>2. b[n] = Added(Start(q, n - 1), q[n]) /\ a[n] = Added(Start(p, n - 1), p[n])
      BY <2>2, <2>5, <3>1, Zenon
    <3>3. Start(q, n - 1) = Start(p, n - 1) /\ q[n] = p[n]
      BY <2>1, <2>3, <3>1
    <3> QED BY <3>2, <3>3
  <2>7. b[Len(b)] = Added(p, i)
    <3>1. Len(q) \in 1..Len(q) /\ Len(q) - 1 = Len(p) /\ Len(p) \in 0..Len(p)
      BY <2>1, <2>4
    <3>2. b[Len(q)] = Added(Start(q, Len(q) - 1), q[Len(q)])
      BY <2>5, <3>1, Zenon
    <3>3. Start(q, Len(p)) = p
      BY <2>3, <2>4, <3>1
    <3> QED BY <2>1, <2>5, <3>1, <3>2, <3>3
  <2>8. Len(b) = Len(a) + 1
    BY <2>1, <2>2, <2>5
  <2>9. Flat(b) = Flat(a) \o b[Len(b)]
    BY <2>2, <2>5, <2>6, <2>8, FlatMore
  <2>10. True(q) = Flat(b) /\ True(p) = Flat(a)
    BY <1>1 DEF a, b
  <2> QED BY <2>7, <2>9, <2>10 DEF q
<1> QED BY <1>2, <1>3, <1>4

-----------------------------------------------------------------------------
(* The stack of an iterator *)

\* The places in an object: each is a child of the container before it.
IsPlace(r, q) ==
    \A n \in 1..Len(q) :
        /\ Filter!IsContainer(Filter!At(r, Start(q, n - 1)))
        /\ q[n] \in 1..Len(Filter!At(r, Start(q, n - 1)).children)

\* Containers have a number of children, and where the keys are asked for,
\* those of an array have none: only a map names what is added to it.
Trees ==
    \A c \in Cases, q \in Seq(Nat) :
        IsPlace(c.root, q) /\ Filter!IsContainer(Filter!At(c.root, q)) =>
            /\ Len(Filter!At(c.root, q).children) \in Nat
            /\ c.keys /\ ~Filter!IsMap(Filter!At(c.root, q)) =>
                  \A i \in 1..Len(Filter!At(c.root, q).children) :
                      Filter!At(c.root, q).children[i].key = NoKey

CursorFrame == [place : Seq(Nat), index : Nat]
FrameOK(f) == f.index # 0 /\ IsPlace(root, f.place) /\ Cursor!IsContainer(Obj(f.place))
Chain(s) ==
    /\ s \in Seq(CursorFrame)
    /\ \A n \in 1..Len(s) : FrameOK(s[n])
    /\ \A n \in 2..Len(s) : /\ s[n - 1].index > 1
                            /\ s[n].place = Append(s[n - 1].place, s[n - 1].index - 1)

\* The object that is held is the child that the index has moved past, or a
\* container of a map that it has not.
HeldAt(c, top) ==
    \/ top.index > 1 /\ c = Append(top.place, top.index - 1)
    \/ c = Append(top.place, top.index) /\ Cursor!IsMap(Obj(top.place))

LEMMA HeldTrue ==
  ASSUME NEW f \in CursorFrame, NEW c, HeldAt(c, f)
  PROVE  /\ True(c) = True(f.place) \o Cursor!Mark(f.place, f.index, c)
         /\ Cursor!Mark(f.place, f.index, c) \in Seq(Token)
<1> DEFINE p == f.place
           j == f.index
<1>1. p \in Seq(Nat) /\ j \in Nat
  BY DEF CursorFrame
<1>2. \/ j > 1 /\ c = Append(p, j - 1)
      \/ c = Append(p, j) /\ Cursor!IsMap(Obj(p))
  BY DEF HeldAt
<1> HIDE DEF p, j
<1>3. CASE j > 1 /\ c = Append(p, j - 1)
  <2>1. j - 1 \in Nat /\ (j - 1) + 1 = j
    BY <1>1, <1>3
  <2>2. Added(p, j - 1) \in Seq(Token) /\ Added(p, j - 1) = Cursor!Mark(p, (j - 1) + 1, Append(p, j - 1))
    BY <1>1, <2>1, AddedIs
  <2>3. True(Append(p, j - 1)) = True(p) \o Added(p, j - 1)
    BY <1>1, <2>1, TrueIs
  <2>4. Cursor!Mark(p, j, c) = Added(p, j - 1)
    BY <1>3, <2>1, <2>2
  <2> QED BY <1>3, <2>2, <2>3, <2>4 DEF p, j
<1>4. CASE c = Append(p, j) /\ Cursor!IsMap(Obj(p))
  <2>1. Added(p, j) \in Seq(Token)
    BY <1>1, AddedIs
  <2>2. True(Append(p, j)) = True(p) \o Added(p, j)
    BY <1>1, TrueIs
  <2>3. Cursor!Mark(p, j, c) = Added(p, j)
    BY <1>4, Zenon DEF Added, Cursor!Mark, Cursor!Nameless, Obj
  <2> QED BY <1>4, <2>1, <2>2, <2>3 DEF p, j
<1> QED BY <1>2, <1>3, <1>4

Marks(s, n) == [m \in 1..n |-> Cursor!Mark(s[m].place, s[m].index, s[m + 1].place)]

LEMMA MarksType ==
  ASSUME NEW s, Chain(s), NEW n \in Nat, n < Len(s)
  PROVE  /\ Marks(s, n) \in Seq(Seq(Token)) /\ Len(Marks(s, n)) = n
         /\ \A m \in 1..n :
               /\ Marks(s, n)[m] = Cursor!Mark(s[m].place, s[m].index, s[m + 1].place)
               /\ True(s[m + 1].place) = True(s[m].place) \o Marks(s, n)[m]
<1>1. s \in Seq(CursorFrame) /\ Len(s) \in Nat
  BY DEF Chain
<1>2. ASSUME NEW m \in 1..n
      PROVE  /\ Cursor!Mark(s[m].place, s[m].index, s[m + 1].place) \in Seq(Token)
             /\ True(s[m + 1].place) = True(s[m].place) \o Cursor!Mark(s[m].place, s[m].index, s[m + 1].place)
  <2>1. m \in 1..Len(s) /\ m + 1 \in 2..Len(s) /\ (m + 1) - 1 = m
    BY <1>1
  <2>2. s[m] \in CursorFrame
    BY <1>1, <2>1
  <2>3. s[m].index > 1 /\ s[m + 1].place = Append(s[m].place, s[m].index - 1)
    <3>1. \A k \in 2..Len(s) : s[k - 1].index > 1 /\ s[k].place = Append(s[k - 1].place, s[k - 1].index - 1)
      BY DEF Chain
    <3> QED BY <2>1, <3>1
  <2>4. HeldAt(s[m + 1].place, s[m])
    BY <2>3, Zenon DEF HeldAt
  <2> QED BY <2>2, <2>4, HeldTrue
<1>3. Marks(s, n) \in [1..n -> Seq(Token)]
  <2>1. \A m \in 1..n : Cursor!Mark(s[m].place, s[m].index, s[m + 1].place) \in Seq(Token)
    BY <1>2, Zenon
  <2> QED BY <2>1, Zenon DEF Marks
<1>4. \A m \in 1..n : Marks(s, n)[m] = Cursor!Mark(s[m].place, s[m].index, s[m + 1].place)
  BY Zenon DEF Marks
<1>5. Marks(s, n) \in Seq(Seq(Token)) /\ Len(Marks(s, n)) = n
  <2> DEFINE f == Marks(s, n)
             S == Seq(Token)
  <2>1. f \in [1..n -> S]
    BY <1>3
  <2> HIDE DEF f, S
  <2>2. f \in Seq(S) /\ Len(f) = n
    BY <2>1
  <2> QED BY <2>2 DEF f, S
<1> QED BY <1>2, <1>4, <1>5

\* The keys along the stack lead from its first container to the last.
LEMMA StackPath ==
  ASSUME NEW s, Chain(s), Len(s) # 0
  PROVE  True(s[Len(s)].place) = True(s[1].place) \o Flat(Marks(s, Len(s) - 1))
<1> DEFINE L == Len(s)
           first == True(s[1].place)
           T == {n \in 0..L - 1 : True(s[n + 1].place) = first \o Flat(Marks(s, n))}
<1>1. s \in Seq(CursorFrame) /\ L \in Nat /\ L # 0 /\ L - 1 \in Nat
  BY DEF Chain
<1>2. first \in Seq(Token)
  <2>1. s[1] \in CursorFrame
    BY <1>1
  <2> QED BY <2>1, TrueIs DEF CursorFrame
<1>3. 0 \in T
  <2>1. Marks(s, 0) \in Seq(Seq(Token)) /\ Len(Marks(s, 0)) = 0
    <3>1. 0 \in Nat /\ 0 < Len(s)
      BY <1>1
    <3> QED BY <3>1, MarksType
  <2>2. Flat(Marks(s, 0)) = <<>>
    <3>1. Marks(s, 0) = <<>>
      BY <2>1
    <3> QED BY <3>1, FlatNothing
  <2>3. first \o <<>> = first
    <3> HIDE DEF first
    <3> QED BY <1>2, Joins
  <2>4. 0 \in 0..L - 1 /\ 0 + 1 = 1
    BY <1>1
  <2> QED BY <2>2, <2>3, <2>4
<1>4. ASSUME NEW n \in 1..L - 1, n - 1 \in T
      PROVE  n \in T
  <2>1. n \in Nat /\ n < Len(s) /\ n - 1 \in Nat /\ n - 1 < Len(s) /\ n \in 1..n /\ (n - 1) + 1 = n /\ n \in 0..L - 1
    BY <1>1
  <2> DEFINE a == Marks(s, n - 1)
             b == Marks(s, n)
  <2>2. /\ b \in Seq(Seq(Token)) /\ Len(b) = n
        /\ \A m \in 1..n : /\ b[m] = Cursor!Mark(s[m].place, s[m].index, s[m + 1].place)
                           /\ True(s[m + 1].place) = True(s[m].place) \o b[m]
    BY <2>1, MarksType
  <2>3. /\ a \in Seq(Seq(Token)) /\ Len(a) = n - 1
        /\ \A m \in 1..n - 1 : a[m] = Cursor!Mark(s[m].place, s[m].index, s[m + 1].place)
    BY <2>1, MarksType
  <2> HIDE DEF a, b, L
  <2>4. /\ Len(b) = Len(a) + 1
        /\ \A m \in 1..Len(a) : b[m] = a[m]
    <3>1. \A m \in 1..n - 1 : m \in 1..n
      BY <2>1
    <3> QED BY <2>1, <2>2, <2>3, <3>1
  <2>5. Flat(b) = Flat(a) \o b[n]
    BY <2>2, <2>3, <2>4, FlatMore
  <2>6. True(s[n].place) = first \o Flat(a)
    BY <1>4, <2>1 DEF a
  <2>7. True(s[n + 1].place) = True(s[n].place) \o b[n]
    BY <2>1, <2>2
  <2>8. Flat(a) \in Seq(Token) /\ b[n] \in Seq(Token)
    <3>1. b[n] \in Seq(Token)
      BY <2>1, <2>2
    <3> QED BY <2>3, <3>1, FlatType
  <2> HIDE DEF first
  <2>9. (first \o Flat(a)) \o b[n] = first \o (Flat(a) \o b[n])
    <3> DEFINE x == Flat(a)
               y == b[n]
    <3>1. first \in Seq(Token) /\ x \in Seq(Token) /\ y \in Seq(Token)
      BY <1>2, <2>8
    <3> HIDE DEF x, y
    <3>2. (first \o x) \o y = first \o (x \o y)
      BY <3>1, Joins
    <3> QED BY <3>2 DEF x, y
  <2>10. True(s[n + 1].place) = first \o Flat(b)
    BY <2>5, <2>6, <2>7, <2>9
  <2> QED BY <2>1, <2>10 DEF b
<1>5. T = 0..L - 1
  <2>1. T \in SUBSET (0..L - 1)
    OBVIOUS
  <2> HIDE DEF T, L
  <2> QED BY <1>1, <1>3, <1>4, <2>1, Counting
<1>6. L - 1 \in 0..L - 1 /\ (L - 1) + 1 = L
  BY <1>1
<1>7. L - 1 \in T
  BY <1>5, <1>6, Zenon
<1> HIDE DEF L, first
<1>8. True(s[(L - 1) + 1].place) = first \o Flat(Marks(s, L - 1))
  BY <1>7
<1> QED BY <1>6, <1>8 DEF L, first

LEMMA HeldPath ==
  ASSUME Chain(stack), stack # <<>>, prefix = path, True(stack[1].place) = path,
         NEW c, current = <<c>>, HeldAt(c, stack[Len(stack)])
  PROVE  Cursor!CurrentPath = True(c)
<1> DEFINE L == Len(stack)
           top == stack[L]
           a == Flat(Marks(stack, L - 1))
           m == Cursor!Mark(top.place, top.index, c)
<1>1. stack \in Seq(CursorFrame) /\ L \in Nat /\ L # 0 /\ L \in 1..L /\ 1 \in 1..L
  <2>1. stack \in Seq(CursorFrame)
    BY DEF Chain
  <2> QED BY <2>1
<1>2. top \in CursorFrame /\ stack[1] \in CursorFrame
  BY <1>1
<1>3. True(c) = True(top.place) \o m /\ m \in Seq(Token)
  BY <1>2, HeldTrue
<1>4. True(top.place) = path \o a
  BY <1>1, StackPath
<1>5. Cursor!CurrentPath = (prefix \o a) \o m
  <2>1. current[1] = c
    OBVIOUS
  <2>2. Cursor!CurrentPath = (prefix \o a) \o Cursor!Mark(top.place, top.index, current[1])
    BY Zenon DEF Cursor!CurrentPath, Cursor!Top, Cursor!Last, Flat, Marks
  <2> QED BY <2>1, <2>2
<1> HIDE DEF a, m, top, L
<1> QED BY <1>3, <1>4, <1>5

-----------------------------------------------------------------------------
(* Moving the stack of an iterator *)

CursorCase == \E c \in Cases : root = c.root /\ keys = c.keys /\ path = c.path

LEMMA ObjAt == \A q : Obj(q) = Filter!At(root, q)
BY SameAt, Zenon DEF Obj, Cursor!Object

LEMMA SameKinds ==
  \A o : /\ Filter!IsContainer(o) <=> Cursor!IsContainer(o)
         /\ Filter!IsMap(o) <=> Cursor!IsMap(o)
BY DEF Filter!IsContainer, Cursor!IsContainer, Filter!IsMap, Cursor!IsMap

LEMMA TreesHere ==
  ASSUME Trees, CursorCase, NEW q \in Seq(Nat), IsPlace(root, q), Cursor!IsContainer(Obj(q))
  PROVE  /\ Len(Obj(q).children) \in Nat
         /\ keys /\ ~Cursor!IsMap(Obj(q)) =>
               \A i \in 1..Len(Obj(q).children) : Obj(q).children[i].key = NoKey
<1> DEFINE o == Filter!At(root, q)
<1>1. Obj(q) = o
  BY ObjAt
<1>2. Filter!IsContainer(o)
  BY <1>1, SameKinds
<1>3. /\ Len(o.children) \in Nat
      /\ keys /\ ~Filter!IsMap(o) => \A i \in 1..Len(o.children) : o.children[i].key = NoKey
  <2>1. PICK c \in Cases : root = c.root /\ keys = c.keys
    BY DEF CursorCase
  <2>2. IsPlace(c.root, q) /\ Filter!IsContainer(Filter!At(c.root, q))
    BY <1>2, <2>1
  <2>3. /\ Len(Filter!At(c.root, q).children) \in Nat
        /\ c.keys /\ ~Filter!IsMap(Filter!At(c.root, q)) =>
              \A i \in 1..Len(Filter!At(c.root, q).children) :
                  Filter!At(c.root, q).children[i].key = NoKey
    BY <2>2, Zenon DEF Trees
  <2> QED BY <2>1, <2>3
<1> HIDE DEF o
<1> QED BY <1>1, <1>3, SameKinds

LEMMA RootIsPlace == IsPlace(root, <<>>)
BY DEF IsPlace

LEMMA ChildIsPlace ==
  ASSUME NEW p \in Seq(Nat), IsPlace(root, p), Cursor!IsContainer(Obj(p)),
         NEW i \in 1..Len(Obj(p).children), i \in Nat
  PROVE  IsPlace(root, Append(p, i))
<1> DEFINE q == Append(p, i)
<1>1. q \in Seq(Nat) /\ Len(q) = Len(p) + 1 /\ q[Len(p) + 1] = i /\ Len(p) \in Nat
      /\ \A n \in 1..Len(p) : q[n] = p[n]
  OBVIOUS
<1>2. \A n \in 0..Len(p) : Start(q, n) = Start(p, n)
  BY StartOfAppend
<1>3. Start(p, Len(p)) = p
  BY WholeStart
<1> HIDE DEF q
<1> SUFFICES ASSUME NEW n \in 1..Len(q)
             PROVE  /\ Filter!IsContainer(Filter!At(root, Start(q, n - 1)))
                    /\ q[n] \in 1..Len(Filter!At(root, Start(q, n - 1)).children)
  BY Zenon DEF IsPlace, q
<1>4. CASE n = Len(p) + 1
  <2>1. n - 1 = Len(p) /\ Len(p) \in 0..Len(p)
    BY <1>1, <1>4
  <2>2. Start(q, n - 1) = p
    BY <1>2, <1>3, <2>1
  <2>3. Filter!At(root, p) = Obj(p)
    BY ObjAt
  <2> QED BY <1>1, <1>4, <2>2, <2>3, SameKinds
<1>5. CASE n # Len(p) + 1
  <2>1. n \in 1..Len(p) /\ n - 1 \in 0..Len(p)
    BY <1>1, <1>5
  <2>2. Start(q, n - 1) = Start(p, n - 1) /\ q[n] = p[n]
    BY <1>1, <1>2, <2>1
  <2>3. /\ Filter!IsContainer(Filter!At(root, Start(p, n - 1)))
        /\ p[n] \in 1..Len(Filter!At(root, Start(p, n - 1)).children)
    BY <2>1, Zenon DEF IsPlace
  <2> QED BY <2>2, <2>3
<1> QED BY <1>4, <1>5

LEMMA CursorIndex ==
  ASSUME NEW f \in CursorFrame
  PROVE  /\ [f EXCEPT !.index = @ + 1] \in CursorFrame
         /\ [f EXCEPT !.index = @ + 1].place = f.place
         /\ [f EXCEPT !.index = @ + 1].index = f.index + 1
BY DEF CursorFrame

LEMMA CursorOnward ==
  ASSUME NEW s \in Seq(CursorFrame), Len(s) # 0
  PROVE  /\ Onward(s) \in Seq(CursorFrame) /\ Len(Onward(s)) = Len(s)
         /\ \A n \in 1..Len(s) - 1 : Onward(s)[n] = s[n]
         /\ Onward(s)[Len(s)].place = s[Len(s)].place
         /\ Onward(s)[Len(s)].index = s[Len(s)].index + 1
<1> DEFINE L == Len(s)
           g == [s[L] EXCEPT !.index = @ + 1]
           t == [s EXCEPT ![L] = g]
<1>1. L \in 1..L /\ s[L] \in CursorFrame
  <2>1. L \in Nat
    OBVIOUS
  <2>2. L \in 1..L
    BY <2>1
  <2> QED BY <2>2
<1>2. g \in CursorFrame /\ g.place = s[L].place /\ g.index = s[L].index + 1
  <2> DEFINE f == s[L]
  <2>1. f \in CursorFrame
    BY <1>1
  <2> HIDE DEF f
  <2> QED BY <2>1, CursorIndex, Zenon DEF f
<1>3. Onward(s) = t
  BY DEF Onward
<1> HIDE DEF g
<1>4. t \in Seq(CursorFrame) /\ Len(t) = L /\ t[L] = g /\ \A n \in 1..L - 1 : t[n] = s[n]
  BY <1>1, <1>2
<1> QED BY <1>2, <1>3, <1>4

LEMMA ChainIs ==
  ASSUME NEW s, Chain(s)
  PROVE  /\ s \in Seq(CursorFrame) /\ Len(s) \in Nat
         /\ \A n \in 1..Len(s) :
               /\ s[n].place \in Seq(Nat) /\ s[n].index \in Nat /\ s[n].index # 0
               /\ IsPlace(root, s[n].place) /\ Cursor!IsContainer(Obj(s[n].place))
         /\ \A n \in 2..Len(s) : /\ s[n - 1].index > 1
                                 /\ s[n].place = Append(s[n - 1].place, s[n - 1].index - 1)
         /\ s # <<>> <=> Len(s) # 0
         /\ s # <<>> => Len(s) \in 1..Len(s) /\ 1 \in 1..Len(s)
<1>1. s \in Seq(CursorFrame)
  BY DEF Chain
<1>2. \A n \in 1..Len(s) : s[n] \in CursorFrame
  BY <1>1
<1>3. \A n \in 1..Len(s) : s[n].place \in Seq(Nat) /\ s[n].index \in Nat
  BY <1>2 DEF CursorFrame
<1>4. \A n \in 1..Len(s) : s[n].index # 0 /\ IsPlace(root, s[n].place) /\ Cursor!IsContainer(Obj(s[n].place))
  BY Zenon DEF Chain, FrameOK
<1>5. \A n \in 2..Len(s) : s[n - 1].index > 1 /\ s[n].place = Append(s[n - 1].place, s[n - 1].index - 1)
  BY Zenon DEF Chain
<1>6. Len(s) \in Nat /\ (s # <<>> <=> Len(s) # 0)
  BY <1>1
<1> QED BY <1>1, <1>3, <1>4, <1>5, <1>6

LEMMA ChainNothing == Chain(<<>>)
<1>1. <<>> \in Seq(CursorFrame) /\ Len(<<>>) = 0
  OBVIOUS
<1> QED BY <1>1 DEF Chain

LEMMA ChainOne ==
  ASSUME NEW q \in Seq(Nat), IsPlace(root, q), Cursor!IsContainer(Obj(q))
  PROVE  /\ Chain(<<Cursor!Frame(q)>>)
         /\ Len(<<Cursor!Frame(q)>>) = 1 /\ <<Cursor!Frame(q)>>[1].place = q /\ <<Cursor!Frame(q)>> # <<>>
<1> DEFINE f == Cursor!Frame(q)
           s == <<f>>
<1>1. f \in CursorFrame /\ f.place = q /\ f.index = 1
  BY DEF Cursor!Frame, CursorFrame
<1> HIDE DEF f
<1>2. s \in Seq(CursorFrame) /\ Len(s) = 1 /\ s[1] = f /\ s # <<>>
  BY <1>1
<1> HIDE DEF s
<1>3. FrameOK(f)
  BY <1>1 DEF FrameOK
<1>4. \A n \in 1..Len(s) : FrameOK(s[n])
  BY <1>2, <1>3
<1>5. \A n \in 2..Len(s) : /\ s[n - 1].index > 1
                           /\ s[n].place = Append(s[n - 1].place, s[n - 1].index - 1)
  BY <1>2
<1>6. Chain(s)
  BY <1>2, <1>4, <1>5 DEF Chain
<1> QED BY <1>1, <1>2, <1>6 DEF s, f

LEMMA ChainFront ==
  ASSUME NEW s, Chain(s), s # <<>>
  PROVE  /\ Chain(Cursor!Front(s))
         /\ Cursor!Front(s) # <<>> => Cursor!Front(s)[1] = s[1]
<1> DEFINE t == Cursor!Front(s)
           m == Len(s) - 1
<1>1. t = Start(s, m)
  BY Zenon DEF Cursor!Front, Start
<1>2. s \in Seq(CursorFrame) /\ Len(s) \in Nat /\ Len(s) # 0
  BY ChainIs
<1>3. m \in 0..Len(s) /\ m \in Nat
  BY <1>2
<1>4. t \in Seq(CursorFrame) /\ Len(t) = m /\ \A n \in 1..m : t[n] = s[n]
  BY <1>1, <1>2, <1>3, StartIs
<1>5. \A n \in 1..m : n \in 1..Len(s)
  <2>1. Len(s) \in Nat
    BY <1>2
  <2> HIDE DEF t
  <2> QED BY <2>1
<1>6. \A n \in 2..m : n \in 2..Len(s) /\ n \in 1..m /\ n - 1 \in 1..m
  <2>1. Len(s) \in Nat
    BY <1>2
  <2> HIDE DEF t
  <2> QED BY <2>1
<1> HIDE DEF t, m
<1>7. \A n \in 1..Len(t) : FrameOK(t[n])
  <2>1. \A n \in 1..Len(s) : FrameOK(s[n])
    BY Zenon DEF Chain
  <2> QED BY <1>4, <1>5, <2>1
<1>8. \A n \in 2..Len(t) : t[n - 1].index > 1 /\ t[n].place = Append(t[n - 1].place, t[n - 1].index - 1)
  <2>1. \A n \in 2..Len(s) : s[n - 1].index > 1 /\ s[n].place = Append(s[n - 1].place, s[n - 1].index - 1)
    BY ChainIs
  <2> QED BY <1>4, <1>6, <2>1
<1>9. Chain(t)
  BY <1>4, <1>7, <1>8 DEF Chain
<1>10. t # <<>> => t[1] = s[1]
  <2>1. t # <<>> => 1 \in 1..m
    BY <1>3, <1>4
  <2> QED BY <1>4, <2>1
<1> QED BY <1>9, <1>10 DEF t

LEMMA ChainOnward ==
  ASSUME NEW s, Chain(s), s # <<>>
  PROVE  /\ Chain(Onward(s)) /\ Onward(s) # <<>> /\ Len(Onward(s)) = Len(s)
         /\ Onward(s)[1].place = s[1].place
         /\ Onward(s)[Len(s)].place = s[Len(s)].place
         /\ Onward(s)[Len(s)].index = s[Len(s)].index + 1
<1> DEFINE t == Onward(s)
           L == Len(s)
<1>1. /\ s \in Seq(CursorFrame) /\ L \in Nat /\ L # 0 /\ L \in 1..L /\ 1 \in 1..L
      /\ s[L].index \in Nat /\ s[L].index # 0
  BY ChainIs
<1>2. /\ t \in Seq(CursorFrame) /\ Len(t) = L
      /\ \A n \in 1..L - 1 : t[n] = s[n]
      /\ t[L].place = s[L].place /\ t[L].index = s[L].index + 1
  BY <1>1, CursorOnward
<1> HIDE DEF t, L
<1>3. \A n \in 1..L : FrameOK(t[n])
  <2> TAKE n \in 1..L
  <2>1. FrameOK(s[n])
    BY Zenon DEF Chain, L
  <2>2. CASE n = L
    <3>1. t[n].index # 0
      BY <1>1, <1>2, <2>2
    <3> QED BY <1>2, <2>1, <2>2, <3>1 DEF FrameOK
  <2>3. CASE n # L
    <3>1. n \in 1..L - 1
      BY <1>1, <2>3
    <3> QED BY <1>2, <2>1, <3>1
  <2> QED BY <2>2, <2>3
<1>4. \A n \in 2..L : t[n - 1].index > 1 /\ t[n].place = Append(t[n - 1].place, t[n - 1].index - 1)
  <2> TAKE n \in 2..L
  <2>1. s[n - 1].index > 1 /\ s[n].place = Append(s[n - 1].place, s[n - 1].index - 1)
    BY ChainIs DEF L
  <2>2. n - 1 \in 1..L - 1
    BY <1>1
  <2>3. t[n - 1] = s[n - 1]
    BY <1>2, <2>2
  <2>4. t[n].place = s[n].place
    <3>1. n = L \/ n \in 1..L - 1
      BY <1>1
    <3> QED BY <1>2, <3>1
  <2> QED BY <2>1, <2>3, <2>4
<1>5. Chain(t)
  BY <1>2, <1>3, <1>4 DEF Chain
<1>6. t[1].place = s[1].place
  <2>1. 1 = L \/ 1 \in 1..L - 1
    BY <1>1
  <2> QED BY <1>2, <2>1
<1>7. t # <<>>
  BY <1>1, <1>2
<1> QED BY <1>2, <1>5, <1>6, <1>7 DEF t, L

\* The child of the last container is pushed on what has moved past it.
LEMMA ChainInto ==
  ASSUME NEW s, Chain(s), s # <<>>,
         s[Len(s)].index \in 1..Len(Obj(s[Len(s)].place).children),
         Cursor!IsContainer(Obj(ChildOf(s[Len(s)])))
  PROVE  /\ Chain(Append(Onward(s), Cursor!Frame(ChildOf(s[Len(s)]))))
         /\ Append(Onward(s), Cursor!Frame(ChildOf(s[Len(s)])))[1].place = s[1].place
         /\ Append(Onward(s), Cursor!Frame(ChildOf(s[Len(s)]))) # <<>>
<1> DEFINE t == Onward(s)
           L == Len(s)
           p == s[L].place
           i == s[L].index
           c == ChildOf(s[L])
           f == Cursor!Frame(c)
           u == Append(t, f)
<1>1. /\ L \in Nat /\ L # 0 /\ L \in 1..L /\ 1 \in 1..L /\ p \in Seq(Nat) /\ i \in Nat /\ i # 0
      /\ IsPlace(root, p) /\ Cursor!IsContainer(Obj(p))
  BY ChainIs
<1>2. /\ Chain(t) /\ Len(t) = L /\ t[1].place = s[1].place
      /\ t[L].place = p /\ t[L].index = i + 1
  BY ChainOnward
<1>3. c = Append(p, i) /\ c \in Seq(Nat) /\ i \in 1..Len(Obj(p).children) /\ Cursor!IsContainer(Obj(c))
  BY <1>1 DEF ChildOf
<1> HIDE DEF t, L, p, i, c
<1>4. IsPlace(root, c)
  BY <1>1, <1>3, ChildIsPlace
<1>5. f \in CursorFrame /\ f.place = c /\ f.index = 1
  BY <1>3 DEF Cursor!Frame, CursorFrame
<1> HIDE DEF f
<1>6. FrameOK(f)
  BY <1>3, <1>4, <1>5 DEF FrameOK
<1>7. t \in Seq(CursorFrame)
  BY <1>2, ChainIs
<1>8. u \in Seq(CursorFrame) /\ Len(u) = L + 1 /\ u[L + 1] = f /\ (\A n \in 1..L : u[n] = t[n]) /\ u # <<>>
  BY <1>1, <1>2, <1>5, <1>7
<1> HIDE DEF u
<1>9. \A n \in 1..L + 1 : FrameOK(u[n])
  <2> TAKE n \in 1..L + 1
  <2>1. n \in 1..L \/ n = L + 1
    BY <1>1
  <2>2. \A k \in 1..L : FrameOK(t[k])
    BY <1>2, Zenon DEF Chain
  <2> QED BY <1>6, <1>8, <2>1, <2>2
<1>10. \A n \in 2..L + 1 : u[n - 1].index > 1 /\ u[n].place = Append(u[n - 1].place, u[n - 1].index - 1)
  <2> TAKE n \in 2..L + 1
  <2>1. n - 1 \in 1..L /\ (n = L + 1 \/ (n \in 2..L /\ n \in 1..L))
    BY <1>1
  <2>2. CASE n = L + 1
    <3>1. n - 1 = L /\ (i + 1) - 1 = i /\ i + 1 > 1
      BY <1>1, <2>2
    <3>2. u[n - 1] = t[L]
      BY <1>1, <1>8, <3>1
    <3>3. u[n - 1].index = i + 1 /\ u[n - 1].place = p /\ u[n].place = c
      BY <1>2, <1>5, <1>8, <2>2, <3>2
    <3> QED BY <1>3, <3>1, <3>3
  <2>3. CASE n \in 2..L
    <3>1. t[n - 1].index > 1 /\ t[n].place = Append(t[n - 1].place, t[n - 1].index - 1)
      BY <1>2, <2>3, ChainIs
    <3>2. u[n - 1] = t[n - 1] /\ u[n] = t[n]
      BY <1>8, <2>1, <2>3
    <3> QED BY <3>1, <3>2
  <2> QED BY <2>1, <2>2, <2>3
<1>11. Chain(u)
  BY <1>8, <1>9, <1>10 DEF Chain
<1>12. u[1].place = s[1].place
  BY <1>1, <1>2, <1>8
<1> QED BY <1>8, <1>11, <1>12 DEF u, f, c, L, t

-----------------------------------------------------------------------------
(* What the iterator holds is where its stack says *)

\* The places are those of the keys that have been followed so far.
Followed(s) ==
    /\ Len(s) = 1 /\ Len(s[1].place) < Len(path)
    /\ True(s[1].place) = Start(path, Len(s[1].place))
Reached(s) == s # <<>> => True(s[1].place) = path
Held(s, h) == IF s = <<>> THEN True(h) = path ELSE HeldAt(h, s[Len(s)])
CursorHolds(p, s, f, c) ==
    /\ Chain(s) /\ p \in {"begin", "follow", "seek", "hold", "end"}
    /\ p = "begin" => s = <<>> /\ f = <<>>
    /\ p = "follow" => Followed(s)
    /\ p \in {"seek", "hold"} => Reached(s)
    /\ p = "hold" => f = path /\ \E h \in Seq(Nat) : c = <<h>> /\ Held(s, h)
CursorInv == CursorCase /\ CursorHolds(phase, stack, prefix, current)

LEMMA PathType == ASSUME CursorCase PROVE path \in Seq(Component)
BY CasesAssumption DEF CursorCase, Component

LEMMA CursorNext ==
  ASSUME root' = root, keys' = keys, path' = path, CursorCase,
         CursorHolds(phase', stack', prefix', current')
  PROVE  CursorInv'
<1>1. \A q : Obj(q)' = Obj(q)
  BY DEF Obj, Cursor!Object
<1>2. \A q : True(q)' = True(q)
  BY DEF True, Cursor!TruePath, Cursor!Step, Cursor!Object
<1>3. Chain(stack)'
  <2>1. \A f : FrameOK(f)' <=> FrameOK(f)
    BY <1>1 DEF FrameOK
  <2> QED BY <2>1 DEF CursorHolds, Chain
<1>4. \A h : Held(stack, h)' <=> Held(stack', h)
  <2>1. \A h, f : HeldAt(h, f)' <=> HeldAt(h, f)
    BY <1>1 DEF HeldAt
  <2> QED BY <1>2, <2>1 DEF Held, HeldAt
<1>5. Reached(stack)' <=> Reached(stack')
  BY <1>2 DEF Reached
<1>6. Followed(stack)' <=> Followed(stack')
  BY <1>2 DEF Followed
<1>7. CursorCase'
  BY DEF CursorCase
<1> QED BY <1>3, <1>4, <1>5, <1>6, <1>7 DEF CursorInv, CursorHolds

LEMMA TopHere ==
  ASSUME Trees, CursorCase, Chain(stack), stack # <<>>, ~Cursor!AtEnd
  PROVE  /\ stack[Len(stack)].index \in 1..Len(Obj(stack[Len(stack)].place).children)
         /\ keys /\ ~Cursor!Nameless(Cursor!Next1) => Cursor!IsMap(Obj(stack[Len(stack)].place))
         /\ Cursor!Next1 \in Seq(Nat)
<1> DEFINE f == stack[Len(stack)]
           p == f.place
           i == f.index
           m == Len(Obj(p).children)
<1>1. /\ p \in Seq(Nat) /\ i \in Nat /\ i # 0
      /\ IsPlace(root, p) /\ Cursor!IsContainer(Obj(p))
  BY ChainIs
<1>2. ~(i > m) /\ Cursor!Next1 = Append(p, i)
  BY Zenon DEF Cursor!AtEnd, Cursor!Next1, Cursor!Top, Cursor!Last, Obj
<1>3. Cursor!Nameless(Cursor!Next1) <=> Obj(Append(p, i)).key = NoKey
  BY <1>2, Zenon DEF Cursor!Nameless, Obj
<1> HIDE DEF f, p, i, m
<1>4. /\ m \in Nat
      /\ keys /\ ~Cursor!IsMap(Obj(p)) => \A j \in 1..m : Obj(p).children[j].key = NoKey
  BY <1>1, TreesHere DEF m
<1>5. i \in 1..m
  BY <1>1, <1>2, <1>4
<1>6. Obj(Append(p, i)) = Obj(p).children[i]
  BY <1>1, ObjIs
<1>7. keys /\ ~Cursor!Nameless(Cursor!Next1) => Cursor!IsMap(Obj(p))
  BY <1>3, <1>4, <1>5, <1>6
<1>8. Cursor!Next1 \in Seq(Nat)
  BY <1>1, <1>2
<1> QED BY <1>5, <1>7, <1>8 DEF f, p, i, m

\* The child that is taken for a key of the path.
LEMMA ChildFollows ==
  ASSUME Trees, CursorCase, Chain(stack), Followed(stack), NEW q \in Cursor!Child
  PROVE  /\ q \in Seq(Nat) /\ IsPlace(root, q)
         /\ Len(q) = Cursor!Depth /\ Len(q) <= Len(path)
         /\ True(q) = Start(path, Len(q))
<1> DEFINE p == stack[1].place
           d == Len(p) + 1
           o == Obj(p)
           named == {j \in 1..Cursor!Size(o) : o.children[j].key = path[d]
                                               /\ ~Cursor!ShouldExclude(Append(p, j))}
           i == Cursor!Min(named)
<1>1. /\ Len(stack) = 1 /\ stack # <<>> /\ p \in Seq(Nat)
      /\ IsPlace(root, p) /\ Cursor!IsContainer(o)
  <2>1. Len(stack) = 1
    BY DEF Followed
  <2>2. stack # <<>> /\ 1 \in 1..Len(stack)
    BY <2>1, ChainIs
  <2> QED BY <2>1, <2>2, ChainIs
<1>2. path \in Seq(Component) /\ Len(p) < Len(path) /\ True(p) = Start(path, Len(p))
  BY PathType DEF Followed
<1>3. Cursor!Top.place = p /\ Cursor!Depth = d
  BY <1>1, Zenon DEF Cursor!Top, Cursor!Last, Cursor!Depth
<1>4. Cursor!Child = IF Cursor!IsMap(o) /\ named # {} THEN {Append(p, i)} ELSE {}
  BY <1>3, Zenon DEF Cursor!Child, Cursor!FirstNamed, Obj
<1>5. Cursor!IsMap(o) /\ named # {} /\ q = Append(p, i)
  <2> HIDE DEF o, named, i, p
  <2> QED BY <1>4
<1>6. Len(o.children) \in Nat
  BY <1>1, TreesHere
<1>7. i \in named
  <2>1. named \in SUBSET Nat
    OBVIOUS
  <2> HIDE DEF named
  <2>2. \E n \in named : \A m \in named : n <= m
    BY <1>5, <2>1, LeastNumber
  <2> QED BY <2>2, Zenon DEF Cursor!Min
<1>8. i \in 1..Cursor!Size(o) /\ o.children[i].key = path[d]
  <2> HIDE DEF i, o, p, d
  <2> QED BY <1>7
<1> HIDE DEF named, i, o
<1>9. i \in 1..Len(o.children) /\ i \in Nat
  BY <1>6, <1>8, LimitsAssumption DEF Cursor!Size
<1>10. IsPlace(root, q)
  BY <1>1, <1>5, <1>9, ChildIsPlace DEF o
<1> HIDE DEF p
<1>11. d \in 1..Len(path) /\ d - 1 = Len(p) /\ Len(p) \in 0..Len(path) /\ Len(q) = d /\ q \in Seq(Nat)
  BY <1>1, <1>2, <1>5, <1>9
<1> HIDE DEF d
<1>12. path[d] \in Component /\ path[d] # NoKey
  BY <1>2, <1>11 DEF Component
<1>13. Obj(q) = o.children[i]
  BY <1>1, <1>5, <1>9, ObjIs DEF o
<1>14. Added(p, i) = <<path[d]>>
  <2>1. Obj(Append(p, i)).key = path[d] /\ Cursor!IsMap(Obj(p))
    BY <1>5, <1>8, <1>13 DEF o
  <2> QED BY <1>12, <2>1, Zenon DEF Added
<1>15. True(q) = True(p) \o <<path[d]>>
  BY <1>1, <1>5, <1>9, <1>14, TrueIs
<1>16. Start(path, d) = Append(Start(path, d - 1), path[d])
  BY <1>2, <1>11, OneMore
<1>17. Start(path, d - 1) \o <<path[d]>> = Append(Start(path, d - 1), path[d])
  <2>1. Start(path, d - 1) \in Seq(Component)
    BY <1>2, <1>11, StartIs
  <2> DEFINE x == Start(path, d - 1)
             y == path[d]
  <2>2. x \in Seq(Component) /\ y \in Component
    BY <1>12, <2>1
  <2> HIDE DEF x, y
  <2>3. x \o <<y>> = Append(x, y)
    BY <2>2
  <2> QED BY <2>3 DEF x, y
<1>18. True(q) = Start(path, d)
  BY <1>2, <1>11, <1>15, <1>16, <1>17
<1>19. d <= Len(path)
  BY <1>2, <1>11
<1> QED BY <1>3, <1>10, <1>11, <1>18, <1>19

LEMMA BeginStep ==
  ASSUME CursorInv, Cursor!BeginNowhere \/ Cursor!BeginAtScalar \/ Cursor!BeginAtContainer
  PROVE  CursorInv'
<1>1. phase = "begin" /\ stack = <<>> /\ prefix = <<>> /\ CursorCase /\ Chain(<<>>)
  BY ChainNothing DEF CursorInv, CursorHolds, Cursor!BeginNowhere, Cursor!BeginAtScalar, Cursor!BeginAtContainer
<1>2. root' = root /\ keys' = keys /\ path' = path
  BY DEF Cursor!BeginNowhere, Cursor!BeginAtScalar, Cursor!BeginAtContainer, Cursor!arguments
<1>3. <<>> \in Seq(Nat) /\ True(<<>>) = <<>> /\ path \in Seq(Component)
  BY <1>1, TrueIs, PathType
<1>4. CASE Cursor!BeginNowhere
  <2>1. phase' = "end" /\ stack' = <<>>
    BY <1>1, <1>4 DEF Cursor!BeginNowhere
  <2>2. CursorHolds(phase', stack', prefix', current')
    BY <1>1, <2>1 DEF CursorHolds
  <2> QED BY <1>1, <1>2, <2>2, CursorNext
<1>5. CASE Cursor!BeginAtScalar
  <2>1. phase' = "hold" /\ stack' = <<>> /\ prefix' = <<>> /\ current' = << <<>> >> /\ path = <<>>
    BY <1>1, <1>5 DEF Cursor!BeginAtScalar, Cursor!Hold
  <2>2. Held(<<>>, <<>>) /\ Reached(<<>>)
    BY <1>3, <2>1 DEF Held, Reached
  <2>3. CursorHolds("hold", <<>>, path, << <<>> >>)
    BY <1>1, <1>3, <2>2 DEF CursorHolds
  <2>4. CursorHolds(phase', stack', prefix', current')
    BY <2>1, <2>3
  <2> QED BY <1>1, <1>2, <2>4, CursorNext
<1>6. CASE Cursor!BeginAtContainer
  <2> DEFINE s == <<Cursor!Frame(<<>>)>>
  <2>1. /\ stack' = s /\ Cursor!IsContainer(root)
        /\ IF path = <<>> THEN phase' = "seek" ELSE phase' = "follow"
    BY <1>6 DEF Cursor!BeginAtContainer
  <2>2. Cursor!IsContainer(Obj(<<>>))
    BY <2>1, ObjIs
  <2>3. Chain(s) /\ Len(s) = 1 /\ s[1].place = <<>> /\ s # <<>>
    BY <1>3, <2>2, RootIsPlace, ChainOne
  <2> HIDE DEF s
  <2>4. CASE path = <<>>
    <3>1. Reached(s)
      BY <1>3, <2>3, <2>4 DEF Reached
    <3>2. CursorHolds("seek", s, prefix', current')
      BY <2>3, <3>1 DEF CursorHolds
    <3>3. CursorHolds(phase', stack', prefix', current')
      BY <2>1, <2>4, <3>2
    <3> QED BY <1>1, <1>2, <3>3, CursorNext
  <2>5. CASE path # <<>>
    <3>1. Len(<<>>) = 0 /\ 0 < Len(path) /\ Start(path, 0) = <<>>
      BY <1>3, <2>5, WholeStart
    <3>2. Followed(s)
      BY <1>3, <2>3, <3>1 DEF Followed
    <3>3. CursorHolds("follow", s, prefix', current')
      BY <2>3, <3>2 DEF CursorHolds
    <3>4. CursorHolds(phase', stack', prefix', current')
      BY <2>1, <2>5, <3>3
    <3> QED BY <1>1, <1>2, <3>4, CursorNext
  <2> QED BY <2>4, <2>5
<1> QED BY <1>4, <1>5, <1>6

LEMMA FollowStep ==
  ASSUME Trees, CursorInv, Cursor!FollowToScalar \/ Cursor!FollowToContainer \/ Cursor!FollowNowhere
  PROVE  CursorInv'
<1>1. phase = "follow" /\ CursorCase /\ Chain(stack) /\ Followed(stack)
  BY DEF CursorInv, CursorHolds, Cursor!FollowToScalar, Cursor!FollowToContainer, Cursor!FollowNowhere
<1>2. root' = root /\ keys' = keys /\ path' = path
  BY DEF Cursor!FollowToScalar, Cursor!FollowToContainer, Cursor!FollowNowhere, Cursor!arguments
<1>3. path \in Seq(Component) /\ Start(path, Len(path)) = path /\ Len(path) \in Nat
  BY <1>1, PathType, WholeStart
<1>4. CASE Cursor!FollowToScalar
  <2>1. PICK q \in Cursor!Child : phase' = "hold" /\ current' = <<q>>
    BY <1>4 DEF Cursor!FollowToScalar, Cursor!Hold
  <2>2. Cursor!Depth = Len(path) /\ stack' = <<>> /\ prefix' = path
    BY <1>4 DEF Cursor!FollowToScalar
  <2>3. q \in Seq(Nat) /\ Len(q) = Cursor!Depth /\ True(q) = Start(path, Len(q))
    BY <1>1, ChildFollows
  <2>4. True(q) = path
    BY <1>3, <2>2, <2>3
  <2>5. Held(<<>>, q) /\ Reached(<<>>)
    BY <2>4 DEF Held, Reached
  <2>6. CursorHolds("hold", <<>>, path, <<q>>)
    BY <2>3, <2>5, ChainNothing DEF CursorHolds
  <2>7. CursorHolds(phase', stack', prefix', current')
    BY <2>1, <2>2, <2>6
  <2> QED BY <1>1, <1>2, <2>7, CursorNext
<1>5. CASE Cursor!FollowToContainer
  <2>1. PICK q \in Cursor!Child : Cursor!IsContainer(Cursor!Object(q)) /\ stack' = <<Cursor!Frame(q)>>
    BY <1>5 DEF Cursor!FollowToContainer
  <2>2. phase' = IF Cursor!Depth < Len(path) THEN "follow" ELSE "seek"
    BY <1>5 DEF Cursor!FollowToContainer
  <2>3. /\ q \in Seq(Nat) /\ IsPlace(root, q) /\ Len(q) = Cursor!Depth
        /\ Len(q) <= Len(path) /\ True(q) = Start(path, Len(q))
    BY <1>1, ChildFollows
  <2> DEFINE s == <<Cursor!Frame(q)>>
  <2>4. Cursor!IsContainer(Obj(q))
    BY <2>1 DEF Obj
  <2>5. Chain(s) /\ Len(s) = 1 /\ s[1].place = q /\ s # <<>>
    BY <2>3, <2>4, ChainOne
  <2>6. stack' = s
    BY <2>1
  <2> HIDE DEF s
  <2>7. CASE Len(q) < Len(path)
    <3>1. phase' = "follow"
      BY <2>2, <2>3, <2>7
    <3>2. Followed(s)
      BY <2>3, <2>5, <2>7 DEF Followed
    <3>3. CursorHolds("follow", s, prefix', current')
      BY <2>5, <3>2 DEF CursorHolds
    <3>4. CursorHolds(phase', stack', prefix', current')
      BY <2>6, <3>1, <3>3
    <3> QED BY <1>1, <1>2, <3>4, CursorNext
  <2>8. CASE ~(Len(q) < Len(path))
    <3>1. phase' = "seek"
      BY <2>2, <2>3, <2>8
    <3>2. Len(q) = Len(path)
      <4>1. Len(q) \in Nat
        BY <2>3
      <4> QED BY <1>3, <2>3, <2>8, <4>1
    <3>3. Reached(s)
      BY <1>3, <2>3, <2>5, <3>2 DEF Reached
    <3>4. CursorHolds("seek", s, prefix', current')
      BY <2>5, <3>3 DEF CursorHolds
    <3>5. CursorHolds(phase', stack', prefix', current')
      BY <2>6, <3>1, <3>4
    <3> QED BY <1>1, <1>2, <3>5, CursorNext
  <2> QED BY <2>7, <2>8
<1>6. CASE Cursor!FollowNowhere
  <2>1. phase' = "end" /\ stack' = stack
    BY <1>6 DEF Cursor!FollowNowhere
  <2>2. CursorHolds("end", stack, prefix', current')
    BY <1>1 DEF CursorHolds
  <2>3. CursorHolds(phase', stack', prefix', current')
    BY <2>1, <2>2
  <2> QED BY <1>1, <1>2, <2>3, CursorNext
<1> QED BY <1>4, <1>5, <1>6

LEMMA SeekStep ==
  ASSUME Trees, CursorInv,
         Cursor!Pop \/ Cursor!HoldContainer \/ Cursor!Push \/ Cursor!HoldChild \/ Cursor!Skip \/ Cursor!End
  PROVE  CursorInv'
<1>1. phase = "seek" /\ CursorCase /\ Chain(stack) /\ Reached(stack)
  BY DEF CursorInv, CursorHolds, Cursor!Pop, Cursor!HoldContainer, Cursor!Push, Cursor!HoldChild, Cursor!Skip, Cursor!End
<1>2. root' = root /\ keys' = keys /\ path' = path
  BY DEF Cursor!Pop, Cursor!HoldContainer, Cursor!Push, Cursor!HoldChild, Cursor!Skip, Cursor!End, Cursor!arguments
<1> DEFINE f == stack[Len(stack)]
           next == Cursor!Next1
<1>3. next = ChildOf(f) /\ next = Append(f.place, f.index) /\ Cursor!Moved = Onward(stack)
  BY Zenon DEF Cursor!Next1, Cursor!Top, Cursor!Last, ChildOf, Cursor!Moved, Onward
<1>4. ASSUME stack # <<>>
      PROVE  /\ Chain(Onward(stack)) /\ Onward(stack) # <<>> /\ Len(Onward(stack)) = Len(stack)
             /\ Onward(stack)[Len(stack)].place = f.place
             /\ Onward(stack)[Len(stack)].index = f.index + 1
             /\ Reached(Onward(stack)) /\ f.index \in Nat /\ f.index # 0
  <2>1. /\ Chain(Onward(stack)) /\ Onward(stack) # <<>> /\ Len(Onward(stack)) = Len(stack)
        /\ Onward(stack)[1].place = stack[1].place
        /\ Onward(stack)[Len(stack)].place = f.place
        /\ Onward(stack)[Len(stack)].index = f.index + 1
    BY <1>1, <1>4, ChainOnward
  <2>2. Reached(Onward(stack))
    BY <1>1, <1>4, <2>1 DEF Reached
  <2>3. f.index \in Nat /\ f.index # 0
    BY <1>1, <1>4, ChainIs
  <2> QED BY <2>1, <2>2, <2>3
<1>5. ASSUME NEW s, Chain(s), Reached(s), phase' = "seek", stack' = s
      PROVE  CursorInv'
  <2>1. CursorHolds("seek", s, prefix', current')
    BY <1>5 DEF CursorHolds
  <2>2. CursorHolds(phase', stack', prefix', current')
    BY <1>5, <2>1
  <2> QED BY <1>1, <1>2, <2>2, CursorNext
<1>6. ASSUME NEW s, Chain(s), Reached(s), phase' = "hold", stack' = s, prefix' = path,
             current' = <<next>>, next \in Seq(Nat), s # <<>>, HeldAt(next, s[Len(s)])
      PROVE  CursorInv'
  <2> HIDE DEF next
  <2>1. Held(s, next)
    BY <1>6 DEF Held
  <2>2. CursorHolds("hold", s, path, <<next>>)
    BY <1>6, <2>1 DEF CursorHolds
  <2>3. CursorHolds(phase', stack', prefix', current')
    BY <1>6, <2>2
  <2> QED BY <1>1, <1>2, <2>3, CursorNext
<1>7. CASE Cursor!Pop
  <2>1. stack # <<>> /\ phase' = "seek" /\ stack' = Cursor!Front(stack)
    BY <1>1, <1>7 DEF Cursor!Pop
  <2>2. Chain(Cursor!Front(stack)) /\ Reached(Cursor!Front(stack))
    <3>1. /\ Chain(Cursor!Front(stack))
          /\ Cursor!Front(stack) # <<>> => Cursor!Front(stack)[1] = stack[1]
      BY <1>1, <2>1, ChainFront
    <3> QED BY <1>1, <2>1, <3>1 DEF Reached
  <2> QED BY <1>5, <2>1, <2>2
<1>8. CASE Cursor!HoldContainer
  <2>1. /\ stack # <<>> /\ ~Cursor!AtEnd /\ keys /\ ~Cursor!Nameless(next)
        /\ phase' = "hold" /\ current' = <<next>> /\ prefix' = path /\ stack' = stack
    BY <1>8 DEF Cursor!HoldContainer, Cursor!Hold
  <2>2. Cursor!IsMap(Obj(f.place)) /\ next \in Seq(Nat)
    BY <1>1, <2>1, TopHere
  <2>3. HeldAt(next, f)
    <3> HIDE DEF f, next
    <3> QED BY <1>3, <2>2 DEF HeldAt
  <2> QED BY <1>1, <1>6, <2>1, <2>2, <2>3
<1>9. CASE Cursor!Push
  <2>1. /\ stack # <<>> /\ ~Cursor!AtEnd /\ Cursor!IsContainer(Obj(next))
        /\ phase' = "seek" /\ stack' = Append(Onward(stack), Cursor!Frame(next))
    BY <1>1, <1>3, <1>9, Zenon DEF Cursor!Push, Cursor!Entered, Obj
  <2>2. f.index \in 1..Len(Obj(f.place).children)
    BY <1>1, <2>1, TopHere
  <2> DEFINE s == Append(Onward(stack), Cursor!Frame(ChildOf(f)))
  <2>3. Cursor!IsContainer(Obj(ChildOf(f)))
    BY <1>3, <2>1
  <2>4. Chain(s) /\ s[1].place = stack[1].place /\ s # <<>>
    BY <1>1, <2>1, <2>2, <2>3, ChainInto
  <2>5. stack' = s
    BY <1>3, <2>1
  <2> HIDE DEF s
  <2>6. Reached(s)
    BY <1>1, <2>1, <2>4 DEF Reached
  <2> QED BY <1>5, <2>1, <2>4, <2>5, <2>6
<1>10. CASE Cursor!HoldChild
  <2>1. /\ stack # <<>> /\ ~Cursor!AtEnd /\ phase' = "hold" /\ current' = <<next>> /\ prefix' = path
        /\ stack' = Onward(stack)
    BY <1>3, <1>10, Zenon DEF Cursor!HoldChild, Cursor!Hold
  <2>2. next \in Seq(Nat)
    BY <1>1, <2>1, TopHere
  <2> DEFINE s == Onward(stack)
             g == s[Len(stack)]
  <2>3. /\ Chain(s) /\ s # <<>> /\ Len(s) = Len(stack) /\ Reached(s)
        /\ g.place = f.place /\ g.index = f.index + 1 /\ f.index \in Nat /\ f.index # 0
    BY <1>4, <2>1
  <2> HIDE DEF s, g, f, next
  <2>4. g.index > 1 /\ g.index - 1 = f.index
    BY <2>3
  <2>5. HeldAt(next, g)
    BY <1>3, <2>3, <2>4 DEF HeldAt
  <2>6. HeldAt(next, s[Len(s)])
    BY <2>3, <2>5 DEF g
  <2>7. stack' = s
    BY <2>1 DEF s
  <2> QED BY <1>6, <2>1, <2>2, <2>3, <2>6, <2>7
<1>11. CASE Cursor!Skip
  <2>1. stack # <<>> /\ phase' = "seek" /\ stack' = Onward(stack)
    BY <1>1, <1>3, <1>11, Zenon DEF Cursor!Skip
  <2> QED BY <1>4, <1>5, <2>1
<1>12. CASE Cursor!End
  <2>1. phase' = "end" /\ stack' = stack
    BY <1>12 DEF Cursor!End
  <2>2. CursorHolds("end", stack, prefix', current')
    BY <1>1 DEF CursorHolds
  <2>3. CursorHolds(phase', stack', prefix', current')
    BY <2>1, <2>2
  <2> QED BY <1>1, <1>2, <2>3, CursorNext
<1> QED BY <1>7, <1>8, <1>9, <1>10, <1>11, <1>12

LEMMA AdvanceStep ==
  ASSUME CursorInv, Cursor!Advance
  PROVE  CursorInv'
<1>1. CursorCase /\ Chain(stack) /\ Reached(stack)
  BY DEF CursorInv, CursorHolds, Cursor!Advance
<1>2. root' = root /\ keys' = keys /\ path' = path /\ phase' = "seek" /\ stack' = stack
  BY DEF Cursor!Advance, Cursor!arguments
<1>3. CursorHolds("seek", stack, prefix', current')
  BY <1>1 DEF CursorHolds
<1>4. CursorHolds(phase', stack', prefix', current')
  BY <1>2, <1>3
<1> QED BY <1>1, <1>2, <1>4, CursorNext

LEMMA CursorInit == ASSUME Init PROVE CursorInv
<1>1. CursorCase
  BY DEF Init, CursorCase
<1>2. phase = "begin" /\ stack = <<>> /\ prefix = <<>>
  BY DEF Init, Cursor!Init
<1> QED BY <1>1, <1>2, ChainNothing DEF CursorInv, CursorHolds

LEMMA CursorPreserved ==
  ASSUME Trees, CursorInv, [Next]_vars
  PROVE  CursorInv'
<1>1. CASE Cursor!Next
  BY <1>1, BeginStep, FollowStep, SeekStep, AdvanceStep DEF Cursor!Next
<1>2. ASSUME root' = root, keys' = keys, path' = path, UNCHANGED <<phase, stack, prefix, current>>
      PROVE  CursorInv'
  <2>1. CursorCase /\ CursorHolds(phase, stack, prefix, current)
    BY DEF CursorInv
  <2>2. CursorHolds(phase', stack', prefix', current')
    BY <1>2, <2>1
  <2> QED BY <1>2, <2>1, <2>2, CursorNext
<1>3. CASE FilterStep
  <2>1. root' = root
    BY <1>3 DEF FilterStep, Filter!Next, Filter!Insert, Filter!Start, Filter!Visit, Filter!Leave
  <2> QED BY <1>2, <1>3, <2>1 DEF FilterStep
<1>4. CASE UNCHANGED vars
  <2>1. root' = root /\ keys' = keys /\ path' = path /\ UNCHANGED <<phase, stack, prefix, current>>
    BY <1>4 DEF vars, Cursor!vars, Cursor!arguments
  <2> QED BY <1>2, <2>1
<1> QED BY <1>1, <1>3, <1>4 DEF Next, CursorStep

LEMMA HeldMeans == ASSUME CursorInv PROVE PathIsTrue
<1> SUFFICES ASSUME phase = "hold" PROVE Cursor!CurrentPath = Cursor!TruePath(current[1])
  BY DEF PathIsTrue, Cursor!PathIsTrue
<1>1. Chain(stack) /\ Reached(stack) /\ prefix = path
  BY DEF CursorInv, CursorHolds
<1>2. PICK h \in Seq(Nat) : current = <<h>> /\ Held(stack, h)
  BY DEF CursorInv, CursorHolds
<1>3. current[1] = h
  BY <1>2
<1>4. CASE stack = <<>>
  <2>1. Cursor!CurrentPath = prefix
    BY <1>4 DEF Cursor!CurrentPath
  <2>2. True(h) = path
    BY <1>2, <1>4 DEF Held
  <2> QED BY <1>1, <1>3, <2>1, <2>2 DEF True
<1>5. CASE stack # <<>>
  <2>1. HeldAt(h, stack[Len(stack)]) /\ True(stack[1].place) = path
    BY <1>1, <1>2, <1>5 DEF Held, Reached
  <2>2. Cursor!CurrentPath = True(h)
    BY <1>1, <1>2, <1>5, <2>1, HeldPath
  <2> QED BY <1>3, <2>2 DEF True
<1> QED BY <1>4, <1>5

\* The path reported with a match leads from the root of the target to the
\* object that is held, at every step of the iteration and whatever the filter
\* excludes (get_current_path), for any objects, key paths and limits.
THEOREM PathCorrect == ASSUME Trees PROVE Spec => []PathIsTrue
<1>1. Init => CursorInv
  BY CursorInit
<1>2. CursorInv /\ [Next]_vars => CursorInv'
  BY CursorPreserved
<1>3. CursorInv => PathIsTrue
  BY HeldMeans
<1> QED BY <1>1, <1>2, <1>3, PTL DEF Spec

-----------------------------------------------------------------------------
(* The order of the document *)

Before(p, q) == Cursor!InOrder(p, q)
Agree(p, q, n) == \A j \in 1..n : p[j] = q[j]
ForkAt(p, q, i) == i \in 1..Len(p) /\ i \in 1..Len(q) /\ p[i] < q[i] /\ Agree(p, q, i - 1)

LEMMA AgreeIs ==
  ASSUME NEW S, NEW p \in Seq(S), NEW q \in Seq(S)
  PROVE  /\ Extends(q, p) <=> Len(p) <= Len(q) /\ Agree(p, q, Len(p))
         /\ p = q <=> Len(p) = Len(q) /\ Agree(p, q, Len(p))
<1>1. Len(p) \in Nat /\ Len(q) \in Nat
  OBVIOUS
<1>2. ASSUME Len(p) <= Len(q)
      PROVE  p = Start(q, Len(p)) <=> Agree(p, q, Len(p))
  <2> DEFINE t == Start(q, Len(p))
  <2>1. t \in Seq(S) /\ Len(t) = Len(p) /\ \A i \in 1..Len(p) : t[i] = q[i]
    BY <1>1, <1>2, StartIs
  <2> HIDE DEF t
  <2>2. Agree(p, q, Len(p)) => p = t
    BY <2>1, SameSequence DEF Agree
  <2>3. p = t => Agree(p, q, Len(p))
    BY <2>1 DEF Agree
  <2> QED BY <2>2, <2>3 DEF t
<1>3. Len(p) = Len(q) /\ Agree(p, q, Len(p)) => p = q
  BY SameSequence DEF Agree
<1> QED BY <1>1, <1>2, <1>3 DEF Extends, Agree

LEMMA BeforeIs ==
  ASSUME NEW p \in Seq(Nat), NEW q \in Seq(Nat)
  PROVE  Before(p, q) <=>
            \/ Len(p) < Len(q) /\ Agree(p, q, Len(p))
            \/ \E i \in Nat : ForkAt(p, q, i)
<1>1. DOMAIN p = 1..Len(p) /\ DOMAIN q = 1..Len(q)
  OBVIOUS
<1>2. Cursor!IsStrictPrefix(p, q) <=> Len(p) < Len(q) /\ Agree(p, q, Len(p))
  <2>1. Start(p, Len(p)) = p
    BY WholeStart
  <2>2. Cursor!IsStrictPrefix(p, q) <=> Extends(q, p) /\ p # q
    BY <2>1, Zenon DEF Cursor!IsStrictPrefix, Cursor!IsPrefix, Extends, Start
  <2>3. /\ Extends(q, p) <=> Len(p) <= Len(q) /\ Agree(p, q, Len(p))
        /\ p = q <=> Len(p) = Len(q) /\ Agree(p, q, Len(p))
    BY AgreeIs
  <2>4. Len(p) < Len(q) <=> Len(p) <= Len(q) /\ Len(p) # Len(q)
    OBVIOUS
  <2> QED BY <2>2, <2>3, <2>4, Zenon
<1>3. (\E i \in DOMAIN p \cap DOMAIN q : p[i] < q[i] /\ \A j \in 1..i - 1 : p[j] = q[j])
         <=> \E i \in Nat : ForkAt(p, q, i)
  <2>1. \A i : i \in DOMAIN p \cap DOMAIN q <=> i \in Nat /\ i \in 1..Len(p) /\ i \in 1..Len(q)
    BY <1>1
  <2> QED BY <2>1, Zenon DEF ForkAt, Agree
<1> QED BY <1>2, <1>3, Zenon DEF Before, Cursor!InOrder

\* What comes before a child comes before its parent, or is the parent, or is
\* in an earlier child of it.
LEMMA BeforeChild ==
  ASSUME NEW q \in Seq(Nat), NEW p \in Seq(Nat), NEW i \in Nat
  PROVE  Before(q, Append(p, i)) <=>
            \/ Before(q, p) \/ q = p
            \/ Len(q) > Len(p) /\ Extends(q, p) /\ q[Len(p) + 1] < i
<1> DEFINE c == Append(p, i)
<1>1. /\ c \in Seq(Nat) /\ Len(c) = Len(p) + 1 /\ c[Len(p) + 1] = i /\ \A j \in 1..Len(p) : c[j] = p[j]
      /\ Len(p) \in Nat /\ Len(q) \in Nat
  <2>1. c \in Seq(Nat) /\ Len(p) \in Nat /\ Len(q) \in Nat
    OBVIOUS
  <2> QED BY <2>1, AppendIs, Zenon
<1> HIDE DEF c
<1>2. Before(q, c) <=> (Len(q) < Len(c) /\ Agree(q, c, Len(q))) \/ \E k \in Nat : ForkAt(q, c, k)
  BY <1>1, BeforeIs
<1>3. Before(q, p) <=> (Len(q) < Len(p) /\ Agree(q, p, Len(q))) \/ \E k \in Nat : ForkAt(q, p, k)
  BY BeforeIs
<1>4. /\ Extends(q, p) <=> Len(p) <= Len(q) /\ Agree(p, q, Len(p))
      /\ q = p <=> Len(q) = Len(p) /\ Agree(q, p, Len(q))
  BY AgreeIs
<1>5. ASSUME NEW n \in Nat, n <= Len(p)
      PROVE  Agree(q, c, n) <=> Agree(q, p, n)
  <2>1. \A j \in 1..n : j \in 1..Len(p)
    <3>1. Len(p) \in Nat
      OBVIOUS
    <3> QED BY <1>5, <3>1
  <2>2. \A j \in 1..n : c[j] = p[j]
    BY <1>1, <2>1, Zenon
  <2> QED BY <2>2 DEF Agree
<1>6. ASSUME Before(q, c)
      PROVE  \/ Before(q, p) \/ q = p
             \/ Len(q) > Len(p) /\ Extends(q, p) /\ q[Len(p) + 1] < i
  <2>1. CASE Len(q) < Len(c) /\ Agree(q, c, Len(q))
    <3>1. Len(q) <= Len(p) /\ Agree(q, p, Len(q))
      BY <1>1, <1>5, <2>1
    <3> QED BY <1>1, <1>3, <1>4, <3>1
  <2>2. ASSUME NEW k \in Nat, ForkAt(q, c, k)
        PROVE  \/ Before(q, p) \/ q = p
               \/ Len(q) > Len(p) /\ Extends(q, p) /\ q[Len(p) + 1] < i
    <3>1. k \in 1..Len(q) /\ k \in 1..Len(c) /\ q[k] < c[k] /\ Agree(q, c, k - 1)
      BY <2>2 DEF ForkAt
    <3>2. k - 1 \in Nat /\ k - 1 <= Len(p) /\ Agree(q, p, k - 1)
      BY <1>1, <1>5, <3>1
    <3>3. CASE k <= Len(p)
      <4>1. ForkAt(q, p, k)
        BY <1>1, <3>1, <3>2, <3>3 DEF ForkAt
      <4> QED BY <1>3, <4>1
    <3>4. CASE ~(k <= Len(p))
      <4>1. k = Len(p) + 1
        BY <1>1, <3>1, <3>4
      <4>2. Agree(p, q, Len(p)) /\ Len(q) > Len(p) /\ q[Len(p) + 1] < i
        BY <1>1, <3>1, <3>2, <4>1 DEF Agree
      <4> QED BY <1>1, <1>4, <4>2
    <3> QED BY <3>3, <3>4
  <2> QED BY <1>2, <1>6, <2>1, <2>2
<1>7. ASSUME Before(q, p)
      PROVE  Before(q, c)
  <2>1. CASE Len(q) < Len(p) /\ Agree(q, p, Len(q))
    BY <1>1, <1>2, <1>5, <2>1
  <2>2. ASSUME NEW k \in Nat, ForkAt(q, p, k)
        PROVE  Before(q, c)
    <3>1. k \in 1..Len(q) /\ k \in 1..Len(p) /\ q[k] < p[k] /\ Agree(q, p, k - 1)
      BY <2>2 DEF ForkAt
    <3>2. Agree(q, c, k - 1) /\ k \in 1..Len(c) /\ q[k] < c[k]
      BY <1>1, <1>5, <3>1
    <3> QED BY <1>2, <3>1, <3>2 DEF ForkAt
  <2> QED BY <1>3, <1>7, <2>1, <2>2
<1>8. ASSUME q = p
      PROVE  Before(q, c)
  <2>1. Agree(q, c, Len(q)) /\ Len(q) < Len(c)
    BY <1>1, <1>8 DEF Agree
  <2> QED BY <1>2, <2>1
<1>9. ASSUME Len(q) > Len(p), Extends(q, p), q[Len(p) + 1] < i
      PROVE  Before(q, c)
  <2> DEFINE k == Len(p) + 1
  <2>1. k \in Nat /\ k \in 1..Len(q) /\ k \in 1..Len(c) /\ q[k] < c[k]
    BY <1>1, <1>9
  <2>2. Agree(q, c, k - 1)
    BY <1>1, <1>4, <1>9 DEF Agree
  <2> HIDE DEF k
  <2> QED BY <1>2, <2>1, <2>2 DEF ForkAt
<1> QED BY <1>6, <1>7, <1>8, <1>9 DEF c

LEMMA ExtendsChild ==
  ASSUME NEW q \in Seq(Nat), NEW p \in Seq(Nat), NEW i \in Nat
  PROVE  Extends(q, Append(p, i)) <=> Len(q) > Len(p) /\ Extends(q, p) /\ q[Len(p) + 1] = i
<1> DEFINE c == Append(p, i)
<1>1. /\ c \in Seq(Nat) /\ Len(c) = Len(p) + 1 /\ c[Len(p) + 1] = i /\ \A j \in 1..Len(p) : c[j] = p[j]
      /\ Len(p) \in Nat /\ Len(q) \in Nat
  OBVIOUS
<1> HIDE DEF c
<1>2. Extends(q, c) <=> Len(c) <= Len(q) /\ Agree(c, q, Len(c))
  BY <1>1, AgreeIs
<1>3. Extends(q, p) <=> Len(p) <= Len(q) /\ Agree(p, q, Len(p))
  BY AgreeIs
<1>4. Agree(c, q, Len(c)) <=> Agree(p, q, Len(p)) /\ q[Len(p) + 1] = i
  <2>1. \A j : j \in 1..Len(c) <=> j \in 1..Len(p) \/ j = Len(p) + 1
    BY <1>1
  <2> QED BY <1>1, <2>1, Zenon DEF Agree
<1> QED BY <1>1, <1>2, <1>3, <1>4 DEF c

LEMMA BeforeNextChild ==
  ASSUME NEW q \in Seq(Nat), NEW p \in Seq(Nat), NEW i \in Nat
  PROVE  Before(q, Append(p, i + 1)) <=> Before(q, Append(p, i)) \/ Extends(q, Append(p, i))
<1>1. i + 1 \in Nat /\ Len(p) \in Nat /\ Len(q) \in Nat
  OBVIOUS
<1>2. Before(q, Append(p, i)) <=>
         \/ Before(q, p) \/ q = p
         \/ Len(q) > Len(p) /\ Extends(q, p) /\ q[Len(p) + 1] < i
  BY BeforeChild
<1>3. Before(q, Append(p, i + 1)) <=>
         \/ Before(q, p) \/ q = p
         \/ Len(q) > Len(p) /\ Extends(q, p) /\ q[Len(p) + 1] < i + 1
  BY <1>1, BeforeChild
<1>4. Extends(q, Append(p, i)) <=> Len(q) > Len(p) /\ Extends(q, p) /\ q[Len(p) + 1] = i
  BY ExtendsChild
<1>5. Len(q) > Len(p) => (q[Len(p) + 1] < i + 1 <=> q[Len(p) + 1] < i \/ q[Len(p) + 1] = i)
  <2> SUFFICES ASSUME Len(q) > Len(p) PROVE q[Len(p) + 1] < i + 1 <=> q[Len(p) + 1] < i \/ q[Len(p) + 1] = i
    OBVIOUS
  <2>1. q[Len(p) + 1] \in Nat
    BY <1>1
  <2> QED BY <2>1
<1> QED BY <1>2, <1>3, <1>4, <1>5

LEMMA NotBefore ==
  ASSUME NEW q \in Seq(Nat), NEW p \in Seq(Nat), Extends(q, p)
  PROVE  ~Before(q, p)
<1>1. Len(p) \in Nat /\ Len(q) \in Nat /\ Len(p) <= Len(q) /\ Agree(p, q, Len(p))
  BY AgreeIs
<1>2. ASSUME NEW k \in Nat, ForkAt(q, p, k) PROVE FALSE
  <2>1. k \in 1..Len(p) /\ q[k] < p[k]
    BY <1>2 DEF ForkAt
  <2>2. q[k] = p[k] /\ p[k] \in Nat
    BY <1>1, <2>1 DEF Agree
  <2> QED BY <2>1, <2>2
<1> QED BY <1>1, <1>2, BeforeIs

-----------------------------------------------------------------------------
(* Where a key path leads *)

LEMMA SameBelow == Cursor!Below(root, <<>>) = Places(root)
BY Zenon DEF Places, Filter!Below, Cursor!Below, Filter!At, Cursor!At, Filter!Size, Cursor!Size,
             Filter!IsContainer, Cursor!IsContainer, Filter!FoldLeft, Cursor!FoldLeft,
             Filter!MapThenFoldSet, Cursor!MapThenFoldSet, Filter!Max, Cursor!Max

LEMMA FirstOnly == \A o, key : \A a, b \in Cursor!FirstNamed(o, key) : a = b
BY DEF Cursor!FirstNamed

LEMMA FirstIs ==
  ASSUME IsCase, NEW o \in Places(root), NEW key, NEW c \in Cursor!FirstNamed(o, key)
  PROVE  /\ Filter!IsContainer(Filter!At(root, o))
         /\ \E j \in 1..Filter!Size(Filter!At(root, o)) : j \in Nat /\ c = Append(o, j)
         /\ ~Cursor!ShouldExclude(c)
<1> DEFINE object == Cursor!Object(o)
           named == {j \in 1..Cursor!Size(object) : object.children[j].key = key
                                          /\ ~Cursor!ShouldExclude(Append(o, j))}
<1>1. Cursor!IsMap(object) /\ named # {} /\ c = Append(o, Cursor!Min(named))
  BY DEF Cursor!FirstNamed
<1>2. object = Filter!At(root, o)
  BY ObjAt DEF Obj
<1>3. Filter!IsContainer(Filter!At(root, o))
  BY <1>1, <1>2 DEF Cursor!IsMap, Filter!IsContainer
<1>4. Cursor!Size(object) = Filter!Size(Filter!At(root, o))
  BY <1>2 DEF Cursor!Size, Filter!Size
<1>5. Filter!Size(Filter!At(root, o)) \in Nat
  BY <1>3, SizeType
<1>6. Cursor!Min(named) \in named
  <2>1. named \in SUBSET Nat
    BY <1>4, <1>5
  <2>2. \E n \in named : \A m \in named : n <= m
    <3> HIDE DEF named
    <3> QED BY <1>1, <2>1, LeastNumber
  <2> HIDE DEF named
  <2> QED BY <2>2, Zenon DEF Cursor!Min
<1>7. /\ Cursor!Min(named) \in 1..Filter!Size(Filter!At(root, o))
      /\ ~Cursor!ShouldExclude(Append(o, Cursor!Min(named)))
  BY <1>4, <1>6
<1>8. Cursor!Min(named) \in Nat
  BY <1>5, <1>7
<1> HIDE DEF named, object
<1> QED BY <1>1, <1>3, <1>7, <1>8

\* The places on the way to the end of the key path.
Led(q) ==
    /\ q \in Places(root) /\ Len(q) <= Len(path)
    /\ \A n \in 1..Len(q) : Start(q, n) \in Cursor!FirstNamed(Start(q, n - 1), path[n])

LEMMA LedIs ==
  ASSUME NEW q, Led(q)
  PROVE  q \in Seq(Nat) /\ Len(q) \in Nat /\ q \in Places(root)
BY PlaceType DEF Led

LEMMA LedOne ==
  ASSUME NEW p, NEW q, Led(p), Led(q), Len(p) <= Len(q)
  PROVE  p = Start(q, Len(p))
<1>1. p \in Seq(Nat) /\ q \in Seq(Nat) /\ Len(p) \in Nat /\ Len(q) \in Nat
  BY LedIs
<1> DEFINE T == {n \in 0..Len(p) : Start(p, n) = Start(q, n)}
<1>2. 0 \in T
  <2>1. Start(p, 0) = <<>> /\ Start(q, 0) = <<>>
    BY <1>1, WholeStart
  <2> QED BY <1>1, <2>1
<1>3. ASSUME NEW n \in 1..Len(p), n - 1 \in T
      PROVE  n \in T
  <2>1. n \in 0..Len(p) /\ n \in 1..Len(q) /\ Start(p, n - 1) = Start(q, n - 1)
    BY <1>1, <1>3
  <2>2. Start(p, n) \in Cursor!FirstNamed(Start(p, n - 1), path[n])
    BY DEF Led
  <2>3. Start(q, n) \in Cursor!FirstNamed(Start(p, n - 1), path[n])
    BY <2>1 DEF Led
  <2>4. Start(p, n) = Start(q, n)
    BY <2>2, <2>3, FirstOnly
  <2> QED BY <2>1, <2>4
<1>4. T = 0..Len(p)
  <2>1. T \in SUBSET (0..Len(p))
    OBVIOUS
  <2> HIDE DEF T
  <2> QED BY <1>1, <1>2, <1>3, <2>1, Counting
<1>5. Start(p, Len(p)) = Start(q, Len(p))
  BY <1>1, <1>4
<1> QED BY <1>1, <1>5, WholeStart

LEMMA LedStart ==
  ASSUME CursorCase, NEW q, Led(q), NEW n \in 0..Len(q)
  PROVE  Led(Start(q, n)) /\ Len(Start(q, n)) = n
<1>1. q \in Seq(Nat) /\ Len(q) \in Nat /\ q \in Places(root)
  BY LedIs
<1> DEFINE s == Start(q, n)
<1>2. s \in Places(root) /\ Len(s) = n /\ n <= Len(q)
  BY <1>1, StartIs, PlaceStart
<1>3. ASSUME NEW m \in 1..n
      PROVE  Start(s, m) \in Cursor!FirstNamed(Start(s, m - 1), path[m])
  <2>1. m \in 0..n /\ m - 1 \in 0..n /\ m \in 1..Len(q)
    BY <1>1
  <2>2. Start(s, m) = Start(q, m) /\ Start(s, m - 1) = Start(q, m - 1)
    BY <1>1, <2>1, StartOfStart
  <2>3. Start(q, m) \in Cursor!FirstNamed(Start(q, m - 1), path[m])
    BY <2>1, Zenon DEF Led
  <2> QED BY <2>2, <2>3
<1>4. n <= Len(path)
  <2>1. Len(q) <= Len(path)
    BY DEF Led
  <2> HIDE DEF s
  <2>2. Len(path) \in Nat
    BY PathType
  <2> QED BY <1>1, <2>1, <2>2
<1> HIDE DEF s
<1> QED BY <1>2, <1>3, <1>4 DEF Led, s

LEMMA LedChild ==
  ASSUME IsCase, CursorCase, NEW o, Led(o), Len(o) < Len(path), Len(o) <= MaxDepth,
         NEW c \in Cursor!FirstNamed(o, path[Len(o) + 1])
  PROVE  /\ Led(c) /\ Len(c) = Len(o) + 1 /\ Start(c, Len(o)) = o
         /\ ~Cursor!ShouldExclude(c)
<1>1. o \in Seq(Nat) /\ Len(o) \in Nat /\ o \in Places(root) /\ Len(path) \in Nat
  BY LedIs, PathType
<1>2. /\ Filter!IsContainer(Filter!At(root, o))
      /\ \E j \in 1..Filter!Size(Filter!At(root, o)) : j \in Nat /\ c = Append(o, j)
      /\ ~Cursor!ShouldExclude(c)
  BY <1>1, FirstIs
<1>3. PICK j \in 1..Filter!Size(Filter!At(root, o)) : j \in Nat /\ c = Append(o, j)
  BY <1>2
<1>4. Append(o, j) \in Places(root)
  BY <1>1, <1>2, ChildPlace
<1>5. c \in Places(root) /\ c \in Seq(Nat) /\ Len(c) = Len(o) + 1
  BY <1>1, <1>3, <1>4, AppendIs
<1>6. \A n \in 0..Len(o) : Start(c, n) = Start(o, n)
  BY <1>1, <1>3, StartOfAppend
<1>7. Start(c, Len(o)) = o
  <2>1. Len(o) \in 0..Len(o) /\ Start(o, Len(o)) = o
    BY <1>1, WholeStart
  <2> QED BY <1>6, <2>1
<1>8. ASSUME NEW n \in 1..Len(c)
      PROVE  Start(c, n) \in Cursor!FirstNamed(Start(c, n - 1), path[n])
  <2>1. CASE n = Len(o) + 1
    <3>1. Start(c, n) = c /\ n - 1 = Len(o)
      BY <1>1, <1>5, <2>1, WholeStart
    <3> QED BY <1>7, <2>1, <3>1
  <2>2. CASE n # Len(o) + 1
    <3>1. n \in 0..Len(o) /\ n - 1 \in 0..Len(o) /\ n \in 1..Len(o)
      BY <1>1, <1>5, <2>2
    <3>2. Start(c, n) = Start(o, n) /\ Start(c, n - 1) = Start(o, n - 1)
      BY <1>6, <3>1
    <3>3. Start(o, n) \in Cursor!FirstNamed(Start(o, n - 1), path[n])
      BY <3>1, Zenon DEF Led
    <3> QED BY <3>2, <3>3
  <2> QED BY <2>1, <2>2
<1>9. Len(c) <= Len(path)
  BY <1>1, <1>5
<1> QED BY <1>2, <1>5, <1>7, <1>8, <1>9, Zenon DEF Led

LEMMA OriginIs ==
  ASSUME CursorCase, NEW q
  PROVE  q \in Cursor!Origin <=> Led(q) /\ Len(q) = Len(path)
<1>1. Len(path) \in Nat
  BY PathType
<1>2. q \in Cursor!Origin <=>
         /\ q \in Places(root) /\ Len(q) = Len(path)
         /\ \A n \in 1..Len(path) : Start(q, n) \in Cursor!FirstNamed(Start(q, n - 1), path[n])
  BY SameBelow, Zenon DEF Cursor!Origin, Start
<1>3. Len(q) = Len(path) => Len(q) <= Len(path)
  BY <1>1
<1> QED BY <1>2, <1>3, Zenon DEF Led

LEMMA OriginOne ==
  ASSUME CursorCase, NEW q, Led(q), Len(q) = Len(path)
  PROVE  Cursor!Origin = {q}
<1>1. q \in Seq(Nat) /\ Len(q) \in Nat
  BY LedIs
<1>2. ASSUME NEW p \in Cursor!Origin
      PROVE  p = q
  <2>1. Led(p) /\ Len(p) = Len(path)
    BY <1>2, OriginIs
  <2>2. Len(p) <= Len(q)
    BY <1>1, <2>1
  <2>3. p = Start(q, Len(p))
    BY <2>1, <2>2, LedOne
  <2> QED BY <1>1, <2>1, <2>3, WholeStart
<1>3. q \in Cursor!Origin
  BY OriginIs
<1> QED BY <1>2, <1>3

\* An end of the key path is below every place on the way to it.
LEMMA OriginUnder ==
  ASSUME CursorCase, NEW o, Led(o), NEW p \in Cursor!Origin
  PROVE  Led(p) /\ Len(p) = Len(path) /\ Extends(p, o)
<1>1. Led(p) /\ Len(p) = Len(path) /\ Len(o) <= Len(path)
  BY OriginIs DEF Led
<1>2. Len(o) <= Len(p)
  BY <1>1
<1> QED BY <1>1, <1>2, LedOne DEF Extends

HasKey(q) == ~Cursor!Nameless(q)
Scalar(q) == Cursor!IsScalar(Cursor!Object(q))
Holds(q) == Filter!IsContainer(Filter!At(root, q))

LEMMA WantedIs ==
  ASSUME NEW q
  PROVE  q \in Cursor!Wanted <=>
            /\ q \in Places(root) /\ (\E p \in Cursor!Origin : Extends(q, p))
            /\ ~Cursor!HasExcluded(q) /\ Len(q) <= MaxDepth
            /\ keys => q \notin Cursor!Origin /\ HasKey(q)
            /\ ~keys => Scalar(q)
<1>1. \A p \in Cursor!Origin : Cursor!IsPrefix(p, q) <=> Extends(q, p)
  <2> TAKE p \in Cursor!Origin
  <2>1. p \in Seq(Nat)
    BY SameBelow, PlaceType DEF Cursor!Origin
  <2>2. Start(p, Len(p)) = p
    BY <2>1, WholeStart
  <2> QED BY <2>2, Zenon DEF Cursor!IsPrefix, Extends, Start
<1> QED BY <1>1, SameBelow, Zenon DEF Cursor!Wanted, HasKey, Scalar

LEMMA NotBoth == \A q : ~(Scalar(q) /\ Holds(q))
BY ObjAt DEF Scalar, Holds, Obj, Cursor!IsScalar, Filter!IsContainer

\* Only a container has something in it.
LEMMA NothingIn ==
  ASSUME NEW p \in Seq(Nat), NEW q \in Places(root), Extends(q, p), ~Holds(p)
  PROVE  q = p
<1>1. q \in Seq(Nat) /\ Len(q) \in Nat /\ Len(p) \in Nat /\ Len(p) <= Len(q) /\ Start(q, Len(p)) = p
  BY PlaceType DEF Extends
<1>2. ~(Len(q) > Len(p))
  BY <1>1, PlaceUnder DEF Holds
<1>3. Len(q) = Len(p)
  BY <1>1, <1>2
<1> QED BY <1>1, <1>3, WholeStart

\* What is in something excluded is excluded.
LEMMA ExcludedUnder ==
  ASSUME NEW p \in Seq(Nat), NEW q \in Seq(Nat), Extends(q, p), Cursor!HasExcluded(p)
  PROVE  Cursor!HasExcluded(q)
<1>1. Len(p) \in Nat /\ Len(q) \in Nat /\ Len(p) <= Len(q) /\ p = Start(q, Len(p))
  BY DEF Extends
<1>2. PICK n \in 0..Len(p) : Cursor!ShouldExclude(Start(p, n))
  BY Zenon DEF Cursor!HasExcluded, Start
<1>3. n \in 0..Len(q) /\ Len(p) \in 0..Len(q)
  BY <1>1
<1>4. Start(p, n) = Start(q, n)
  BY <1>1, <1>3, StartOfStart
<1> QED BY <1>2, <1>3, <1>4, Zenon DEF Cursor!HasExcluded, Start

\* A child that is not excluded, of an object that is not.
LEMMA ChildNotExcluded ==
  ASSUME NEW p \in Seq(Nat), ~Cursor!HasExcluded(p), NEW c \in Seq(Nat), Len(c) = Len(p) + 1,
         Start(c, Len(p)) = p, ~Cursor!ShouldExclude(c)
  PROVE  ~Cursor!HasExcluded(c)
<1> SUFFICES ASSUME Cursor!HasExcluded(c) PROVE FALSE
  OBVIOUS
<1>1. Len(p) \in Nat /\ Len(c) \in Nat
  OBVIOUS
<1>2. PICK n \in 0..Len(c) : Cursor!ShouldExclude(Start(c, n))
  BY Zenon DEF Cursor!HasExcluded, Start
<1>3. CASE n = Len(c)
  BY <1>2, <1>3, WholeStart
<1>4. CASE n # Len(c)
  <2>1. n \in 0..Len(p) /\ Len(p) \in 0..Len(c)
    BY <1>1, <1>4
  <2>2. Start(p, n) = Start(c, n)
    BY <2>1, StartOfStart
  <2> QED BY <1>2, <2>1, <2>2, Zenon DEF Cursor!HasExcluded, Start
<1> QED BY <1>3, <1>4

LEMMA ExcludedItself ==
  ASSUME NEW p \in Seq(Nat), Cursor!ShouldExclude(p)
  PROVE  Cursor!HasExcluded(p)
<1>1. Len(p) \in 0..Len(p) /\ Start(p, Len(p)) = p
  BY WholeStart
<1> QED BY <1>1, Zenon DEF Cursor!HasExcluded, Start

-----------------------------------------------------------------------------
(* The stack of an iterator, below the end of the key path *)

\* From a key path, only objects within the depth: the first search counts
\* the depth from the end of the path (see WithinDepth).
ShallowFromPaths ==
    \A c \in Cases : c.path # <<>> => \A q \in Places(c.root) : Len(q) <= MaxDepth
ShallowHere == path # <<>> => \A q \in Places(root) : Len(q) <= MaxDepth

LEMMA ShallowIs == ASSUME ShallowFromPaths, CursorCase PROVE ShallowHere
BY Zenon DEF ShallowFromPaths, ShallowHere, CursorCase

On(p, n) ==
    /\ p \in Places(root) /\ Len(p) = Len(path) + n - 1 /\ Holds(p)
    /\ ~Cursor!HasExcluded(p) /\ Cursor!Origin = {Start(p, Len(path))}
Track(s) ==
    /\ s \in Seq(CursorFrame)
    /\ \A n \in 1..Len(s) : On(s[n].place, n) /\ s[n].index # 0
    /\ \A n \in 2..Len(s) : s[n].place = Append(s[n - 1].place, s[n - 1].index - 1)
    /\ path = <<>> => Len(s) <= MaxDepth

LEMMA TrackIs ==
  ASSUME NEW s, Track(s)
  PROVE  /\ s \in Seq(CursorFrame) /\ Len(s) \in Nat
         /\ \A n \in 1..Len(s) :
               /\ s[n].place \in Seq(Nat) /\ s[n].index \in Nat /\ s[n].index # 0
               /\ On(s[n].place, n)
         /\ \A n \in 2..Len(s) : s[n].place = Append(s[n - 1].place, s[n - 1].index - 1)
         /\ s # <<>> <=> Len(s) # 0
         /\ s # <<>> => Len(s) \in 1..Len(s)
<1>1. s \in Seq(CursorFrame)
  BY DEF Track
<1>2. \A n \in 1..Len(s) : s[n] \in CursorFrame
  BY <1>1
<1>3. \A n \in 1..Len(s) : s[n].place \in Seq(Nat) /\ s[n].index \in Nat
  BY <1>2 DEF CursorFrame
<1>4. \A n \in 1..Len(s) : On(s[n].place, n) /\ s[n].index # 0
  BY Zenon DEF Track
<1>5. \A n \in 2..Len(s) : s[n].place = Append(s[n - 1].place, s[n - 1].index - 1)
  BY Zenon DEF Track
<1>6. Len(s) \in Nat /\ (s # <<>> <=> Len(s) # 0)
  BY <1>1
<1> QED BY <1>1, <1>3, <1>4, <1>5, <1>6

\* What the top of the stack, at place p, says of its child c.
TellsOf(s, p, i, c) ==
  /\ c \in Places(root) /\ c \in Seq(Nat) /\ Len(c) = Len(path) + Len(s)
  /\ Start(c, Len(path)) = Start(p, Len(path)) /\ Extends(c, Start(p, Len(path)))
  /\ ~Cursor!ShouldExclude(c) => ~Cursor!HasExcluded(c)
  /\ Holds(c) /\ ~Cursor!ShouldExclude(c) => On(c, Len(s) + 1)
  /\ c = Append(p, i)

LEMMA ChildOn ==
  ASSUME IsCase, CursorCase, ShallowHere, NEW s, Track(s), s # <<>>,
         NEW p, p = s[Len(s)].place, NEW i \in 1..Filter!Size(Filter!At(root, p)), i \in Nat,
         NEW c, c = Append(p, i)
  PROVE  TellsOf(s, p, i, c)
<1>1. /\ p \in Seq(Nat) /\ On(p, Len(s)) /\ Len(s) \in Nat /\ Len(s) # 0 /\ Len(path) \in Nat
  BY TrackIs, PathType
<1>2. /\ p \in Places(root) /\ Len(p) = Len(path) + Len(s) - 1 /\ Holds(p)
      /\ ~Cursor!HasExcluded(p) /\ Cursor!Origin = {Start(p, Len(path))}
  BY <1>1, Zenon DEF On
<1>3. Len(p) <= MaxDepth
  <2>1. CASE path = <<>>
    <3>1. Len(s) <= MaxDepth /\ Len(path) = 0
      BY <2>1 DEF Track
    <3> QED BY <1>1, <1>2, <3>1, LimitsAssumption
  <2>2. CASE path # <<>>
    BY <1>2, <2>2 DEF ShallowHere
  <2> QED BY <2>1, <2>2
<1>4. c \in Places(root)
  BY <1>2, <1>3, ChildPlace DEF Holds
<1>5. c \in Seq(Nat) /\ Len(c) = Len(p) + 1
  BY <1>1, AppendIs
<1>6. Len(path) \in 0..Len(p) /\ Len(p) \in 0..Len(p)
  BY <1>1, <1>2
<1>7. Start(c, Len(path)) = Start(p, Len(path)) /\ Start(c, Len(p)) = p
  <2>1. \A n \in 0..Len(p) : Start(Append(p, i), n) = Start(p, n)
    BY <1>1, StartOfAppend
  <2>2. Start(p, Len(p)) = p
    BY <1>1, WholeStart
  <2> QED BY <1>6, <2>1, <2>2, Zenon
<1>8. Len(Start(p, Len(path))) = Len(path)
  BY <1>1, <1>6, StartIs
<1>9. Extends(c, Start(p, Len(path)))
  BY <1>1, <1>2, <1>5, <1>7, <1>8 DEF Extends
<1>10. ~Cursor!ShouldExclude(c) => ~Cursor!HasExcluded(c)
  BY <1>1, <1>2, <1>5, <1>7, ChildNotExcluded
<1>11. Len(c) = Len(path) + Len(s) /\ Len(path) + Len(s) = Len(path) + (Len(s) + 1) - 1
  BY <1>1, <1>2, <1>5
<1>12. Holds(c) /\ ~Cursor!ShouldExclude(c) => On(c, Len(s) + 1)
  BY <1>2, <1>4, <1>7, <1>10, <1>11, Zenon DEF On
<1> QED BY <1>4, <1>5, <1>7, <1>9, <1>10, <1>11, <1>12, Zenon DEF TellsOf

LEMMA TrackNothing == Track(<<>>)
<1>1. <<>> \in Seq(CursorFrame) /\ Len(<<>>) = 0
  OBVIOUS
<1> QED BY <1>1, LimitsAssumption DEF Track

LEMMA TrackOne ==
  ASSUME NEW q \in Seq(Nat), On(q, 1)
  PROVE  Track(<<Cursor!Frame(q)>>)
<1> DEFINE f == Cursor!Frame(q)
<1>1. f \in CursorFrame /\ f.place = q /\ f.index = 1
  BY DEF Cursor!Frame, CursorFrame
<1> HIDE DEF f
<1>2. <<f>> \in Seq(CursorFrame) /\ Len(<<f>>) = 1 /\ <<f>>[1] = f
  BY <1>1
<1>3. 1 <= MaxDepth
  BY LimitsAssumption
<1>4. \A n \in 1..1 : n = 1
  OBVIOUS
<1>5. \A n \in 2..1 : FALSE
  OBVIOUS
<1> QED BY <1>1, <1>2, <1>3, <1>4, <1>5 DEF Track, f

LEMMA TrackOnward ==
  ASSUME NEW s, Track(s), s # <<>>
  PROVE  /\ Track(Onward(s)) /\ Onward(s) # <<>> /\ Len(Onward(s)) = Len(s)
         /\ Onward(s)[Len(s)].place = s[Len(s)].place
         /\ Onward(s)[Len(s)].index = s[Len(s)].index + 1
<1>1. /\ s \in Seq(CursorFrame) /\ Len(s) \in Nat /\ Len(s) # 0
      /\ \A n \in 1..Len(s) : s[n].index \in Nat /\ s[n].index # 0 /\ On(s[n].place, n)
      /\ \A n \in 2..Len(s) : s[n].place = Append(s[n - 1].place, s[n - 1].index - 1)
      /\ Len(s) \in 1..Len(s)
  BY TrackIs
<1> DEFINE t == Onward(s)
<1>2. /\ t \in Seq(CursorFrame) /\ Len(t) = Len(s)
      /\ \A n \in 1..Len(s) - 1 : t[n] = s[n]
      /\ t[Len(s)].place = s[Len(s)].place
      /\ t[Len(s)].index = s[Len(s)].index + 1
  BY <1>1, CursorOnward
<1> HIDE DEF t
<1>3. \A n \in 1..Len(s) : t[n].place = s[n].place /\ t[n].index # 0
  <2> TAKE n \in 1..Len(s)
  <2>1. CASE n = Len(s)
    BY <1>1, <1>2, <2>1
  <2>2. CASE n # Len(s)
    <3>1. n \in 1..Len(s) - 1
      BY <1>1, <2>2
    <3> QED BY <1>1, <1>2, <3>1
  <2> QED BY <2>1, <2>2
<1>4. \A n \in 2..Len(s) : t[n].place = Append(t[n - 1].place, t[n - 1].index - 1)
  <2> TAKE n \in 2..Len(s)
  <2>1. n \in 1..Len(s) /\ n - 1 \in 1..Len(s) - 1
    BY <1>1
  <2>2. t[n - 1] = s[n - 1] /\ t[n].place = s[n].place
    BY <1>2, <1>3, <2>1
  <2> QED BY <1>1, <2>2
<1>5. Track(t)
  BY <1>1, <1>2, <1>3, <1>4 DEF Track
<1>6. t # <<>>
  BY <1>1, <1>2
<1> QED BY <1>2, <1>5, <1>6 DEF t

LEMMA TrackInto ==
  ASSUME NEW s, Track(s), s # <<>>, NEW c \in Seq(Nat), c = ChildOf(s[Len(s)]), On(c, Len(s) + 1),
         path = <<>> => Len(s) < MaxDepth,
         NEW t, t = Append(Onward(s), Cursor!Frame(c))
  PROVE  Track(t) /\ t # <<>> /\ t[Len(t)] = Cursor!Frame(c)
<1> DEFINE f == Cursor!Frame(c)
           m == Onward(s)
<1>1. f \in CursorFrame /\ f.place = c /\ f.index = 1
  BY DEF Cursor!Frame, CursorFrame
<1>2. Len(s) \in Nat /\ Len(s) # 0 /\ s[Len(s)].index \in Nat
  BY TrackIs
<1>3. /\ Track(m) /\ Len(m) = Len(s) /\ m[Len(s)].place = s[Len(s)].place
      /\ m[Len(s)].index = s[Len(s)].index + 1
  BY TrackOnward
<1> HIDE DEF f, m
<1>4. /\ m \in Seq(CursorFrame)
      /\ \A n \in 1..Len(m) : m[n].index # 0 /\ On(m[n].place, n)
      /\ \A n \in 2..Len(m) : m[n].place = Append(m[n - 1].place, m[n - 1].index - 1)
  BY <1>3, TrackIs
<1>5. t = Append(m, f)
  BY DEF m, f
<1>6. t \in Seq(CursorFrame) /\ Len(t) = Len(s) + 1 /\ t[Len(s) + 1] = f /\ \A n \in 1..Len(s) : t[n] = m[n]
  BY <1>1, <1>3, <1>4, <1>5
<1>7. \A n \in 1..Len(t) : On(t[n].place, n) /\ t[n].index # 0
  <2> TAKE n \in 1..Len(t)
  <2>1. CASE n = Len(s) + 1
    BY <1>1, <1>6, <2>1
  <2>2. CASE n # Len(s) + 1
    <3>1. n \in 1..Len(s)
      BY <1>2, <1>6, <2>2
    <3> QED BY <1>3, <1>4, <1>6, <3>1
  <2> QED BY <2>1, <2>2
<1>8. \A n \in 2..Len(t) : t[n].place = Append(t[n - 1].place, t[n - 1].index - 1)
  <2> TAKE n \in 2..Len(t)
  <2>1. CASE n = Len(s) + 1
    <3>1. n - 1 = Len(s) /\ Len(s) \in 1..Len(s)
      BY <1>2, <2>1
    <3>2. t[n - 1] = m[Len(s)]
      BY <1>6, <3>1
    <3>3. t[n - 1].place = s[Len(s)].place /\ t[n - 1].index - 1 = s[Len(s)].index
      BY <1>2, <1>3, <3>2
    <3>4. t[n].place = ChildOf(s[Len(s)])
      BY <1>1, <1>6, <2>1
    <3> QED BY <3>3, <3>4 DEF ChildOf
  <2>2. CASE n # Len(s) + 1
    <3>1. n \in 2..Len(m) /\ n \in 1..Len(s) /\ n - 1 \in 1..Len(s)
      BY <1>2, <1>3, <1>6, <2>2
    <3> QED BY <1>4, <1>6, <3>1
  <2> QED BY <2>1, <2>2
<1>9. path = <<>> => Len(t) <= MaxDepth
  BY <1>2, <1>6, LimitsAssumption
<1>10. t # <<>> /\ t[Len(t)] = f
  BY <1>2, <1>6
<1> QED BY <1>6, <1>7, <1>8, <1>9, <1>10 DEF Track, f

LEMMA TrackFront ==
  ASSUME NEW s, Track(s), s # <<>>, NEW t, t = Cursor!Front(s)
  PROVE  /\ Track(t) /\ (t = <<>> <=> Len(s) = 1)
         /\ Len(s) # 1 => /\ s[Len(s)].place = Append(t[Len(t)].place, t[Len(t)].index - 1)
                          /\ t[Len(t)].place \in Seq(Nat) /\ t[Len(t)].index \in Nat /\ t[Len(t)].index # 0
<1>1. /\ s \in Seq(CursorFrame) /\ Len(s) \in Nat /\ Len(s) # 0
      /\ \A n \in 1..Len(s) : s[n].index # 0 /\ On(s[n].place, n)
      /\ \A n \in 2..Len(s) : s[n].place = Append(s[n - 1].place, s[n - 1].index - 1)
  BY TrackIs
<1> DEFINE m == Len(s) - 1
<1>2. m \in 0..Len(s) /\ m \in Nat /\ m < Len(s)
  BY <1>1
<1>3. t = Start(s, m)
  BY DEF Cursor!Front, Start
<1> HIDE DEF m
<1>4. t \in Seq(CursorFrame) /\ Len(t) = m /\ \A n \in 1..m : t[n] = s[n]
  BY <1>1, <1>2, <1>3, StartIs
<1>5. \A n \in 1..m : On(t[n].place, n) /\ t[n].index # 0
  <2> TAKE n \in 1..m
  <2>1. n \in 1..Len(s) /\ t[n] = s[n]
    BY <1>2, <1>4
  <2> QED BY <1>1, <2>1
<1>6. \A n \in 2..m : t[n].place = Append(t[n - 1].place, t[n - 1].index - 1)
  <2> TAKE n \in 2..m
  <2>1. n \in 1..m /\ n - 1 \in 1..m /\ n \in 2..Len(s)
    BY <1>2
  <2> QED BY <1>1, <1>4, <2>1
<1>7. path = <<>> => m <= MaxDepth
  <2>1. path = <<>> => Len(s) <= MaxDepth
    BY DEF Track
  <2> QED BY <1>1, <1>2, <2>1, LimitsAssumption
<1>8. Track(t)
  BY <1>4, <1>5, <1>6, <1>7 DEF Track
<1>9. t = <<>> <=> Len(s) = 1
  BY <1>1, <1>2, <1>4 DEF m
<1>10. ASSUME Len(s) # 1
       PROVE  /\ s[Len(s)].place = Append(t[Len(t)].place, t[Len(t)].index - 1)
              /\ t[Len(t)].place \in Seq(Nat) /\ t[Len(t)].index \in Nat /\ t[Len(t)].index # 0
  <2>1. Len(s) \in 2..Len(s) /\ m \in 1..m /\ Len(s) - 1 = m
    <3>1. Len(s) \in Nat /\ Len(s) # 0 /\ Len(s) # 1
      BY <1>1, <1>10
    <3> QED BY <3>1 DEF m
  <2>2. s[Len(s)].place = Append(s[m].place, s[m].index - 1) /\ t[m] = s[m]
    BY <1>1, <1>4, <2>1
  <2>3. t[m].place \in Seq(Nat) /\ t[m].index \in Nat /\ t[m].index # 0
    BY <1>4, <1>8, <2>1, TrackIs
  <2> QED BY <1>4, <2>2, <2>3
<1> QED BY <1>8, <1>9, <1>10

-----------------------------------------------------------------------------
(* What has been given when the search is at a place *)

Given(l) == Cursor!ToSet(l)
GivenAt(b, h, l) ==
    /\ \A q \in Places(root) :
          q \in Given(l) <=> q \in Cursor!Wanted /\ (Before(q, b) \/ h = <<q>>)
    /\ Given(l) \subseteq Cursor!Wanted
    /\ h = <<>> \/ \E x \in Cursor!Wanted : h = <<x>> /\ (Before(x, b) \/ (x = b /\ Holds(x)))
GivenBy(s, h, l) ==
    IF s = <<>> THEN Given(l) = Cursor!Wanted ELSE GivenAt(ChildOf(s[Len(s)]), h, l)
Sorted(l) ==
    /\ l \in Seq(Seq(Nat))
    /\ \A m, n \in DOMAIN l : m < n => Before(l[m], l[n])

LEMMA WantedPlace == \A q \in Cursor!Wanted : q \in Places(root) /\ q \in Seq(Nat)
BY WantedIs, PlaceType

LEMMA GivenMoves ==
  ASSUME NEW b, NEW h, NEW l, NEW c, GivenAt(b, h, l),
         \A q \in Cursor!Wanted : /\ Before(q, b) => Before(q, c)
                                  /\ Before(q, c) => Before(q, b) \/ h = <<q>>
                                  /\ q = b => Before(q, c)
  PROVE  GivenAt(c, h, l)
BY Zenon DEF GivenAt

LEMMA Singletons == \A q, x : <<q>> # <<>> /\ (<<q>> = <<x>> => q = x)
OBVIOUS

LEMMA GivenNothing ==
  ASSUME NEW b, \A q \in Cursor!Wanted : ~Before(q, b)
  PROVE  GivenAt(b, <<>>, <<>>) /\ Sorted(<<>>)
<1>1. Given(<<>>) = {} /\ DOMAIN <<>> = {}
  BY DEF Given, Cursor!ToSet
<1>2. <<>> \in Seq(Seq(Nat))
  OBVIOUS
<1>3. GivenAt(b, <<>>, <<>>)
  BY <1>1, Singletons, Zenon DEF GivenAt
<1> QED BY <1>1, <1>2, <1>3 DEF Sorted

LEMMA GivenOneMore ==
  ASSUME NEW l \in Seq(Seq(Nat)), NEW b \in Seq(Nat)
  PROVE  /\ Append(l, b) \in Seq(Seq(Nat)) /\ Given(Append(l, b)) = Given(l) \cup {b}
         /\ \A m, n \in DOMAIN Append(l, b) : m < n =>
               \/ m \in DOMAIN l /\ n \in DOMAIN l /\ Append(l, b)[m] = l[m] /\ Append(l, b)[n] = l[n]
               \/ Append(l, b)[n] = b /\ Append(l, b)[m] \in Given(l)
<1> DEFINE t == Append(l, b)
<1>1. /\ t \in Seq(Seq(Nat)) /\ Len(t) = Len(l) + 1 /\ t[Len(l) + 1] = b /\ Len(l) \in Nat
      /\ \A n \in 1..Len(l) : t[n] = l[n]
      /\ DOMAIN t = 1..Len(l) + 1 /\ DOMAIN l = 1..Len(l)
  OBVIOUS
<1> HIDE DEF t
<1>2. \A n \in DOMAIN t : (n \in DOMAIN l /\ t[n] = l[n]) \/ (n = Len(l) + 1 /\ t[n] = b)
  BY <1>1
<1>3. DOMAIN l \subseteq DOMAIN t /\ Len(l) + 1 \in DOMAIN t /\ \A n \in DOMAIN l : t[n] = l[n]
  BY <1>1
<1>4. Given(t) = {t[n] : n \in DOMAIN t} /\ Given(l) = {l[n] : n \in DOMAIN l}
  BY Zenon DEF Given, Cursor!ToSet
<1>5. Given(t) = Given(l) \cup {b}
  <2>1. \A x \in Given(t) : x \in Given(l) \cup {b}
    BY <1>2, <1>4
  <2>2. \A x \in Given(l) \cup {b} : x \in Given(t)
    BY <1>1, <1>3, <1>4
  <2> QED BY <2>1, <2>2
<1>6. ASSUME NEW m \in DOMAIN t, NEW n \in DOMAIN t, m < n
      PROVE  \/ m \in DOMAIN l /\ n \in DOMAIN l /\ t[m] = l[m] /\ t[n] = l[n]
             \/ t[n] = b /\ t[m] \in Given(l)
  <2>1. m \in DOMAIN l /\ t[m] = l[m]
    BY <1>1, <1>6
  <2>2. t[m] \in Given(l)
    BY <1>4, <2>1
  <2> QED BY <1>2, <2>1, <2>2
<1> QED BY <1>1, <1>5, <1>6 DEF t

LEMMA GivenMore ==
  ASSUME NEW b \in Cursor!Wanted, NEW h, NEW l, NEW c, GivenAt(b, h, l), Sorted(l), h # <<b>>,
         \A q \in Cursor!Wanted : /\ Before(q, b) => Before(q, c)
                                  /\ Before(q, c) => Before(q, b) \/ q = b,
         Before(b, c) \/ (c = b /\ Holds(b))
  PROVE  GivenAt(c, <<b>>, Append(l, b)) /\ Sorted(Append(l, b))
<1>1. b \in Seq(Nat) /\ b \in Places(root) /\ l \in Seq(Seq(Nat))
  BY WantedPlace DEF Sorted
<1> DEFINE t == Append(l, b)
<1>2. /\ t \in Seq(Seq(Nat)) /\ Given(t) = Given(l) \cup {b}
      /\ \A m, n \in DOMAIN t : m < n =>
               \/ m \in DOMAIN l /\ n \in DOMAIN l /\ t[m] = l[m] /\ t[n] = l[n]
               \/ t[n] = b /\ t[m] \in Given(l)
  BY <1>1, GivenOneMore
<1> HIDE DEF t
<1>3. \A q \in Given(l) : q \in Cursor!Wanted /\ q \in Places(root)
  BY WantedPlace DEF GivenAt
<1>4. \A q \in Given(l) : Before(q, b)
  <2> TAKE q \in Given(l)
  <2>1. Before(q, b) \/ h = <<q>>
    BY <1>3, Zenon DEF GivenAt
  <2>2. CASE h = <<q>>
    <3>1. PICK x \in Cursor!Wanted : h = <<x>> /\ (Before(x, b) \/ (x = b /\ Holds(x)))
      BY <2>2, Singletons, Zenon DEF GivenAt
    <3>2. x = q
      BY <2>2, <3>1, Singletons, Zenon
    <3> QED BY <3>1, <3>2
  <2> QED BY <2>1, <2>2
<1>5. ASSUME NEW q \in Places(root)
      PROVE  q \in Given(t) <=> q \in Cursor!Wanted /\ (Before(q, c) \/ <<b>> = <<q>>)
  <2>1. q \in Given(l) <=> q \in Cursor!Wanted /\ Before(q, b)
    <3>1. q \in Given(l) <=> q \in Cursor!Wanted /\ (Before(q, b) \/ h = <<q>>)
      BY Zenon DEF GivenAt
    <3> QED BY <1>4, <3>1, Zenon
  <2>2. <<b>> = <<q>> <=> q = b
    BY Singletons, Zenon
  <2>3. q \in Given(t) <=> q \in Given(l) \/ q = b
    BY <1>2
  <2> QED BY <2>1, <2>2, <2>3, Zenon
<1>6. Given(t) \subseteq Cursor!Wanted
  BY <1>2, <1>3
<1>7. GivenAt(c, <<b>>, t)
  BY <1>5, <1>6, Zenon DEF GivenAt
<1>8. Sorted(t)
  <2>1. ASSUME NEW m \in DOMAIN t, NEW n \in DOMAIN t, m < n
        PROVE  Before(t[m], t[n])
    <3>1. \A i, j \in DOMAIN l : i < j => Before(l[i], l[j])
      BY Zenon DEF Sorted
    <3> QED BY <1>2, <1>4, <2>1, <3>1
  <2> QED BY <1>2, <2>1, Zenon DEF Sorted
<1> QED BY <1>7, <1>8 DEF t

LEMMA ExtendsSelf == \A q \in Seq(Nat) : Extends(q, q)
BY WholeStart DEF Extends

\* Where the size of a container ends, everything in it comes before.
LEMMA AllBefore ==
  ASSUME NEW p \in Seq(Nat), NEW i \in Nat, NEW q \in Places(root), Extends(q, p),
         Filter!Size(Filter!At(root, p)) \in Nat, i > Filter!Size(Filter!At(root, p))
  PROVE  Before(q, Append(p, i))
<1>1. q \in Seq(Nat) /\ Len(q) \in Nat /\ Len(p) \in Nat /\ Len(p) <= Len(q) /\ Start(q, Len(p)) = p
  BY PlaceType DEF Extends
<1>2. CASE Len(q) = Len(p)
  <2>1. q = p
    BY <1>1, <1>2, WholeStart
  <2> QED BY <1>1, <2>1, BeforeChild
<1>3. CASE Len(q) # Len(p)
  <2>1. Len(q) > Len(p)
    BY <1>1, <1>3
  <2>2. q[Len(p) + 1] \in 1..Filter!Size(Filter!At(root, p))
    BY <1>1, <2>1, PlaceUnder
  <2>3. q[Len(p) + 1] < i
    BY <2>2
  <2> QED BY <1>1, <2>1, <2>3, BeforeChild
<1> QED BY <1>2, <1>3

\* Nothing in an object comes before its first child.
LEMMA NoneBefore ==
  ASSUME NEW p \in Seq(Nat), NEW q \in Places(root)
  PROVE  Before(q, Append(p, 1)) <=> Before(q, p) \/ q = p
<1>1. q \in Seq(Nat) /\ Len(q) \in Nat /\ Len(p) \in Nat
  BY PlaceType
<1>2. ~(Len(q) > Len(p) /\ Extends(q, p) /\ q[Len(p) + 1] < 1)
  <2> SUFFICES ASSUME Len(q) > Len(p), q[Len(p) + 1] < 1 PROVE FALSE
    OBVIOUS
  <2> DEFINE n == Len(p) + 1
  <2>1. n \in 1..Len(q)
    BY <1>1
  <2> HIDE DEF n
  <2>2. q[n] \in 1..Filter!Size(Filter!At(root, Start(q, n - 1)))
    BY <2>1, PlaceStep
  <2>3. q[n] \in Nat /\ q[n] >= 1
    BY <1>1, <2>1, <2>2
  <2> QED BY <2>3 DEF n
<1> QED BY <1>1, <1>2, BeforeChild

-----------------------------------------------------------------------------
(* The search for the next object *)

\* The top of the stack, and the next child of it.
LEMMA SearchTop ==
  ASSUME IsCase, CursorCase, ShallowHere, Track(stack), stack # <<>>
  PROVE  /\ Cursor!Next1 = ChildOf(stack[Len(stack)]) /\ Cursor!Moved = Onward(stack)
         /\ Cursor!AtEnd =>
               stack[Len(stack)].index > Filter!Size(Filter!At(root, stack[Len(stack)].place))
         /\ ~Cursor!AtEnd =>
               stack[Len(stack)].index \in 1..Filter!Size(Filter!At(root, stack[Len(stack)].place))
<1> DEFINE f == stack[Len(stack)]
           o == Filter!At(root, f.place)
<1>1. f.place \in Seq(Nat) /\ f.index \in Nat /\ f.index # 0 /\ On(f.place, Len(stack))
  BY TrackIs
<1>2. Cursor!Object(f.place) = o
  BY ObjAt DEF Obj
<1>3. Cursor!AtEnd <=> f.index > Len(o.children) \/ f.index > MaxSize
  BY <1>2, Zenon DEF Cursor!AtEnd, Cursor!Top, Cursor!Last
<1>4. Len(o.children) \in Nat
  BY <1>1, ChildrenType DEF On, Holds
<1>5. Cursor!Next1 = ChildOf(f) /\ Cursor!Moved = Onward(stack)
  BY Zenon DEF Cursor!Next1, Cursor!Top, Cursor!Last, ChildOf, Cursor!Moved, Onward
<1> HIDE DEF f, o
<1>6. /\ Cursor!AtEnd => f.index > Filter!Size(o)
      /\ ~Cursor!AtEnd => f.index \in 1..Filter!Size(o)
  BY <1>1, <1>3, <1>4, LimitsAssumption DEF Filter!Size
<1> QED BY <1>5, <1>6 DEF f, o

LEMMA SearchPop ==
  ASSUME IsCase, CursorCase, ShallowHere, Track(stack), stack # <<>>, Cursor!AtEnd,
         NEW h, NEW l, GivenBy(stack, h, l), NEW s, s = Cursor!Front(stack)
  PROVE  Track(s) /\ GivenBy(s, h, l)
<1> DEFINE f == stack[Len(stack)]
           p == f.place
           i == f.index
           b == ChildOf(f)
<1>1. p \in Seq(Nat) /\ i \in Nat /\ i # 0 /\ On(p, Len(stack)) /\ Len(stack) \in Nat
  BY TrackIs
<1>2. i > Filter!Size(Filter!At(root, p))
  BY SearchTop
<1>3. Filter!Size(Filter!At(root, p)) \in Nat
  BY <1>1, SizeType DEF On, Holds
<1>4. /\ Track(s) /\ (s = <<>> <=> Len(stack) = 1)
      /\ Len(stack) # 1 => /\ p = Append(s[Len(s)].place, s[Len(s)].index - 1)
                           /\ s[Len(s)].place \in Seq(Nat) /\ s[Len(s)].index \in Nat /\ s[Len(s)].index # 0
  BY TrackFront
<1>5. GivenAt(b, h, l)
  BY DEF GivenBy
<1>6. b = Append(p, i)
  BY DEF ChildOf
<1> HIDE DEF f, p, i, b
<1>7. ASSUME NEW q \in Cursor!Wanted, Extends(q, p)
      PROVE  Before(q, b)
  <2>1. q \in Places(root)
    BY WantedPlace
  <2> QED BY <1>1, <1>2, <1>3, <1>6, <1>7, <2>1, AllBefore
<1>8. CASE Len(stack) = 1
  <2>1. Len(p) = Len(path) /\ Cursor!Origin = {Start(p, Len(path))} /\ Len(path) \in Nat
    BY <1>1, <1>8, PathType DEF On
  <2>2. Cursor!Origin = {p}
    BY <1>1, <2>1, WholeStart
  <2>3. \A q \in Cursor!Wanted : Before(q, b)
    <3> TAKE q \in Cursor!Wanted
    <3>1. Extends(q, p)
      BY <2>2, WantedIs
    <3> QED BY <1>7, <3>1
  <2>4. Given(l) = Cursor!Wanted
    <3>1. Given(l) \subseteq Cursor!Wanted
      BY <1>5 DEF GivenAt
    <3>2. \A q \in Cursor!Wanted : q \in Given(l)
      BY <1>5, <2>3, WantedPlace, Zenon DEF GivenAt
    <3> QED BY <3>1, <3>2
  <2> QED BY <1>4, <1>8, <2>4 DEF GivenBy
<1>9. CASE Len(stack) # 1
  <2> DEFINE p0 == s[Len(s)].place
             i0 == s[Len(s)].index
             j == i0 - 1
             c == ChildOf(s[Len(s)])
  <2>1. p = Append(p0, j) /\ p0 \in Seq(Nat) /\ i0 \in Nat /\ i0 # 0
    BY <1>4, <1>9
  <2>2. c = Append(p0, i0)
    BY DEF ChildOf
  <2> HIDE DEF p0, i0, c
  <2>3. j \in Nat /\ j + 1 = i0
    BY <2>1
  <2> HIDE DEF j
  <2>4. ASSUME NEW q \in Cursor!Wanted
        PROVE  /\ Before(q, b) => Before(q, c)
               /\ Before(q, c) => Before(q, b)
               /\ q # b
    <3>1. q \in Seq(Nat) /\ q \in Places(root)
      BY WantedPlace
    <3>2. Before(q, c) <=> Before(q, p) \/ Extends(q, p)
      <4>1. Before(q, Append(p0, j + 1)) <=> Before(q, Append(p0, j)) \/ Extends(q, Append(p0, j))
        BY <2>1, <2>3, <3>1, BeforeNextChild
      <4> QED BY <2>1, <2>2, <2>3, <4>1
    <3>3. Before(q, b) <=> \/ Before(q, p) \/ q = p
                           \/ Len(q) > Len(p) /\ Extends(q, p) /\ q[Len(p) + 1] < i
      BY <1>1, <1>6, <3>1, BeforeChild
    <3>4. Extends(q, p) => Before(q, b)
      BY <1>7
    <3>5. Extends(p, p)
      BY <1>1, ExtendsSelf
    <3>6. q # b
      <4> SUFFICES ASSUME q = b PROVE FALSE
        OBVIOUS
      <4>1. /\ Len(q) = Len(p) + 1 /\ q[Len(p) + 1] = i
            /\ \A n \in 1..Len(p) : q[n] = p[n]
        BY <1>1, <1>6, AppendIs
      <4>2. Extends(q, p) /\ Len(q) > Len(p)
        BY <1>1, <3>1, <4>1, AgreeIs DEF Agree
      <4>3. q[Len(p) + 1] \in 1..Filter!Size(Filter!At(root, p))
        BY <1>1, <3>1, <4>2, PlaceUnder DEF Extends
      <4> QED BY <1>2, <1>3, <4>1, <4>3
    <3> QED BY <3>2, <3>3, <3>4, <3>5, <3>6
  <2>5. GivenAt(c, h, l)
    BY <1>5, <2>4, GivenMoves, Zenon
  <2> QED BY <1>4, <1>9, <2>5 DEF GivenBy, c
<1> QED BY <1>8, <1>9

\* The next child is passed when nothing that is wanted is in it, or only what
\* has been given.
LEMMA SearchOn ==
  ASSUME IsCase, CursorCase, ShallowHere, Track(stack), stack # <<>>,
         NEW c \in Seq(Nat), c = ChildOf(stack[Len(stack)]),
         NEW h, NEW l, GivenBy(stack, h, l),
         \A q \in Cursor!Wanted : Extends(q, c) => h = <<q>>
  PROVE  Track(Onward(stack)) /\ GivenBy(Onward(stack), h, l)
<1> DEFINE f == stack[Len(stack)]
           p == f.place
           i == f.index
           s == Onward(stack)
           b == ChildOf(s[Len(s)])
<1>1. p \in Seq(Nat) /\ i \in Nat
  BY TrackIs
<1>2. /\ Track(s) /\ s # <<>> /\ Len(s) = Len(stack)
      /\ s[Len(stack)].place = p /\ s[Len(stack)].index = i + 1
  BY TrackOnward
<1>3. c = Append(p, i) /\ GivenAt(c, h, l)
  BY DEF ChildOf, GivenBy
<1>4. b = Append(p, i + 1)
  BY <1>2 DEF ChildOf
<1> HIDE DEF f, p, i, s, b
<1>5. ASSUME NEW q \in Cursor!Wanted
      PROVE  /\ Before(q, c) => Before(q, b)
             /\ Before(q, b) => Before(q, c) \/ h = <<q>>
             /\ q = c => Before(q, b)
  <2>1. q \in Seq(Nat)
    BY WantedPlace
  <2>2. Before(q, b) <=> Before(q, c) \/ Extends(q, c)
    BY <1>1, <1>3, <1>4, <2>1, BeforeNextChild
  <2>3. Extends(q, q)
    BY <2>1, ExtendsSelf
  <2> QED BY <2>2, <2>3
<1>6. GivenAt(b, h, l)
  BY <1>3, <1>5, GivenMoves, Zenon
<1> QED BY <1>2, <1>6 DEF GivenBy, s, b

LEMMA SearchInto ==
  ASSUME IsCase, CursorCase, ShallowHere, Track(stack), stack # <<>>,
         NEW c \in Seq(Nat), c = ChildOf(stack[Len(stack)]), On(c, Len(stack) + 1),
         path = <<>> => Len(stack) < MaxDepth,
         NEW h, NEW l, GivenBy(stack, h, l), c \in Cursor!Wanted => h = <<c>>,
         NEW s, s = Append(Onward(stack), Cursor!Frame(c))
  PROVE  Track(s) /\ GivenBy(s, h, l)
<1>1. Track(s) /\ s # <<>> /\ s[Len(s)] = Cursor!Frame(c)
  BY TrackInto
<1> DEFINE b == ChildOf(s[Len(s)])
<1>2. b = Append(c, 1)
  BY <1>1 DEF ChildOf, Cursor!Frame
<1>3. GivenAt(c, h, l)
  BY DEF GivenBy
<1> HIDE DEF b
<1>4. ASSUME NEW q \in Cursor!Wanted
      PROVE  /\ Before(q, c) => Before(q, b)
             /\ Before(q, b) => Before(q, c) \/ h = <<q>>
             /\ q = c => Before(q, b)
  <2>1. q \in Places(root)
    BY WantedPlace
  <2>2. Before(q, b) <=> Before(q, c) \/ q = c
    BY <1>2, <2>1, NoneBefore
  <2> QED BY <2>2
<1>5. GivenAt(b, h, l)
  BY <1>3, <1>4, GivenMoves, Zenon
<1> QED BY <1>1, <1>5 DEF GivenBy, b

-----------------------------------------------------------------------------
(* The beginning of an iteration *)

OnPath(s) ==
    \E o : /\ s = <<Cursor!Frame(o)>> /\ Led(o) /\ Len(o) < Len(path)
           /\ Holds(o) /\ ~Cursor!HasExcluded(o)

LEMMA RootLed == ASSUME CursorCase PROVE Led(<<>>) /\ Len(<<>>) = 0
<1>1. Len(<<>>) = 0 /\ <<>> \in Places(root) /\ \A n \in 1..0 : FALSE
  BY RootPlace
<1>2. 0 <= Len(path)
  <2>1. Len(path) \in Nat
    BY PathType
  <2> QED BY <2>1
<1> QED BY <1>1, <1>2 DEF Led

LEMMA HoldsIs ==
  /\ \A q : Holds(q) <=> Cursor!IsContainer(Cursor!Object(q))
  /\ Holds(<<>>) <=> Cursor!IsContainer(root)
  /\ Scalar(<<>>) <=> Cursor!IsScalar(root)
<1>1. \A q : Cursor!Object(q) = Filter!At(root, q)
  BY ObjAt DEF Obj
<1>2. Cursor!Object(<<>>) = root
  BY ObjIs DEF Obj
<1>3. \A q : Holds(q) <=> Cursor!IsContainer(Cursor!Object(q))
  BY <1>1, SameKinds, Zenon DEF Holds
<1> QED BY <1>2, <1>3, Zenon DEF Scalar

\* The key path ends at a container.
LEMMA BeginIn ==
  ASSUME CursorCase, NEW q, Led(q), Len(q) = Len(path), Holds(q), ~Cursor!HasExcluded(q)
  PROVE  Track(<<Cursor!Frame(q)>>) /\ GivenBy(<<Cursor!Frame(q)>>, <<>>, <<>>) /\ Sorted(<<>>)
<1>1. q \in Seq(Nat) /\ Len(q) \in Nat /\ q \in Places(root)
  BY LedIs
<1>2. Cursor!Origin = {q} /\ Start(q, Len(path)) = q
  BY <1>1, OriginOne, WholeStart
<1>3. Len(q) = Len(path) + 1 - 1
  BY <1>1
<1>4. On(q, 1)
  BY <1>1, <1>2, <1>3, Zenon DEF On
<1> DEFINE b == Append(q, 1)
<1>5. ASSUME NEW w \in Cursor!Wanted
      PROVE  ~Before(w, b)
  <2>1. w \in Places(root) /\ w \in Seq(Nat)
    BY WantedPlace
  <2>2. Extends(w, q)
    BY <1>2, WantedIs
  <2>3. w # q
    BY <1>2, WantedIs, NotBoth
  <2>4. ~Before(w, q)
    BY <1>1, <2>1, <2>2, NotBefore
  <2> QED BY <1>1, <2>1, <2>3, <2>4, NoneBefore
<1> HIDE DEF b
<1>6. GivenAt(b, <<>>, <<>>) /\ Sorted(<<>>)
  BY <1>5, GivenNothing
<1> DEFINE f == Cursor!Frame(q)
           s == <<f>>
<1>7. ChildOf(f) = b
  BY DEF ChildOf, Cursor!Frame, b
<1> HIDE DEF f
<1>8. s # <<>> /\ s[Len(s)] = f
  OBVIOUS
<1> HIDE DEF s
<1>9. GivenBy(s, <<>>, <<>>)
  BY <1>6, <1>7, <1>8 DEF GivenBy
<1>10. Track(<<Cursor!Frame(q)>>)
  BY <1>1, <1>4, TrackOne
<1> QED BY <1>6, <1>9, <1>10 DEF s, f

\* The key path ends at a value.
LEMMA BeginAt ==
  ASSUME CursorCase, ShallowHere, ~keys, NEW q, Led(q), Len(q) = Len(path), Scalar(q),
         ~Cursor!HasExcluded(q), NEW h
  PROVE  GivenBy(<<>>, h, <<q>>) /\ Sorted(<<q>>)
<1>1. q \in Seq(Nat) /\ Len(q) \in Nat /\ q \in Places(root)
  BY LedIs
<1>2. Cursor!Origin = {q}
  BY OriginOne
<1>3. ~Holds(q)
  BY NotBoth
<1>4. \A w \in Cursor!Wanted : w = q
  <2> TAKE w \in Cursor!Wanted
  <2>1. w \in Places(root) /\ Extends(w, q)
    BY <1>2, WantedIs
  <2> QED BY <1>1, <1>3, <2>1, NothingIn
<1>5. Len(q) <= MaxDepth
  <2>1. CASE path = <<>>
    <3>1. Len(q) = 0
      BY <2>1
    <3> QED BY <3>1, LimitsAssumption
  <2>2. CASE path # <<>>
    BY <1>1, <2>2 DEF ShallowHere
  <2> QED BY <2>1, <2>2
<1>6. q \in Cursor!Wanted
  <2>1. \E p \in Cursor!Origin : Extends(q, p)
    BY <1>1, <1>2, ExtendsSelf
  <2> QED BY <1>1, <1>5, <2>1, WantedIs
<1>7. Given(<<q>>) = {q}
  BY DEF Given, Cursor!ToSet
<1>8. Given(<<q>>) = Cursor!Wanted
  BY <1>4, <1>6, <1>7
<1>9. <<q>> \in Seq(Seq(Nat)) /\ \A m, n \in DOMAIN <<q>> : ~(m < n)
  BY <1>1
<1> QED BY <1>8, <1>9 DEF GivenBy, Sorted

LEMMA NothingGiven ==
  ASSUME \A w \in Cursor!Wanted : FALSE
  PROVE  Given(<<>>) = Cursor!Wanted
<1>1. Given(<<>>) = {}
  BY DEF Given, Cursor!ToSet
<1> QED BY <1>1

\* The iteration has no beginning when nothing is wanted.
LEMMA NoBeginning ==
  ASSUME CursorCase,
         \/ Cursor!ShouldExclude(<<>>)
         \/ ~Cursor!IsContainer(root) /\ (keys \/ path # <<>> \/ ~Cursor!IsScalar(root))
         \/ Cursor!IsContainer(root) /\ (IF path = <<>> THEN MaxDepth = 0 ELSE ~Cursor!PathFits),
         NEW w \in Cursor!Wanted
  PROVE  FALSE
<1>1. w \in Places(root) /\ w \in Seq(Nat) /\ Len(w) \in Nat /\ Len(w) <= MaxDepth
  BY WantedIs, PlaceType
<1>2. PICK p \in Cursor!Origin : Extends(w, p)
  BY WantedIs
<1>3. Led(p) /\ Len(p) = Len(path) /\ p \in Seq(Nat) /\ Len(p) \in Nat /\ path \in Seq(Component)
  BY OriginIs, LedIs, PathType
<1>4. <<>> \in Seq(Nat) /\ Len(<<>>) = 0 /\ Start(w, 0) = <<>>
  BY <1>1, WholeStart
<1>5. Extends(w, <<>>)
  BY <1>1, <1>4 DEF Extends
<1>6. CASE Cursor!ShouldExclude(<<>>)
  BY <1>1, <1>4, <1>5, <1>6, ExcludedItself, ExcludedUnder, WantedIs
<1>7. CASE ~Cursor!IsContainer(root) /\ (keys \/ path # <<>> \/ ~Cursor!IsScalar(root))
  <2>1. w = <<>>
    BY <1>1, <1>4, <1>5, <1>7, NothingIn, HoldsIs
  <2>2. Len(p) = 0
    BY <1>2, <1>3, <1>4, <2>1 DEF Extends
  <2>3. p = <<>> /\ path = <<>>
    <3>1. p \in Seq(Nat) /\ Len(p) = 0
      BY <1>3, <2>2
    <3>2. path \in Seq(Component) /\ Len(path) = 0
      BY <1>3, <2>2
    <3>3. p = <<>>
      BY <3>1
    <3>4. path = <<>>
      BY <3>2
    <3> QED BY <3>3, <3>4
  <2>4. ~keys => Cursor!IsScalar(root)
    BY <2>1, WantedIs, HoldsIs
  <2>5. keys => w \notin Cursor!Origin
    BY WantedIs
  <2> QED BY <1>2, <1>7, <2>1, <2>3, <2>4, <2>5
<1>8. CASE Cursor!IsContainer(root) /\ (IF path = <<>> THEN MaxDepth = 0 ELSE ~Cursor!PathFits)
  <2>1. ~Cursor!PathFits
    BY <1>8, LimitsAssumption
  <2>2. Len(p) <= Len(w) /\ p = Start(w, Len(p))
    BY <1>2 DEF Extends
  <2>3. CASE keys
    <3>1. ~(Len(path) < MaxDepth)
      BY <2>1, <2>3 DEF Cursor!PathFits
    <3>2. Len(w) = Len(p)
      BY <1>1, <1>3, <2>2, <3>1, LimitsAssumption
    <3>3. w = p
      BY <1>1, <2>2, <3>2, WholeStart
    <3> QED BY <1>2, <2>3, <3>3, WantedIs
  <2>4. CASE ~keys
    <3>1. ~(Len(path) <= MaxDepth)
      BY <2>1, <2>4 DEF Cursor!PathFits
    <3> QED BY <1>1, <1>3, <2>2, <3>1, LimitsAssumption
  <2> QED BY <2>3, <2>4
<1> QED BY <1>6, <1>7, <1>8

\* Nothing is wanted when the key path cannot be followed.
LEMMA NoWay ==
  ASSUME CursorCase, NEW o, Led(o), Len(o) < Len(path), NEW d, d = Len(o) + 1,
         \A c \in Cursor!FirstNamed(o, path[d]) :
            IF keys THEN ~Holds(c)
            ELSE IF Holds(c) THEN d = MaxDepth ELSE ~Scalar(c) \/ d < Len(path),
         NEW w \in Cursor!Wanted
  PROVE  FALSE
<1>1. w \in Places(root) /\ w \in Seq(Nat) /\ Len(w) \in Nat /\ Len(w) <= MaxDepth
  BY WantedIs, PlaceType
<1>2. PICK p \in Cursor!Origin : Extends(w, p)
  BY WantedIs
<1>3. Led(p) /\ Len(p) = Len(path) /\ p \in Seq(Nat) /\ Len(p) \in Nat /\ Extends(p, o)
  BY OriginUnder, LedIs
<1>4. o \in Seq(Nat) /\ Len(o) \in Nat
  BY LedIs
<1> DEFINE c == Start(p, d)
<1>5. d \in 0..Len(p) /\ d \in 1..Len(p) /\ d - 1 = Len(o) /\ d \in Nat
  BY <1>3, <1>4
<1>6. c \in Cursor!FirstNamed(o, path[d])
  <2>1. Start(p, d) \in Cursor!FirstNamed(Start(p, d - 1), path[d])
    BY <1>3, <1>5, Zenon DEF Led
  <2>2. Start(p, d - 1) = o
    BY <1>3, <1>5 DEF Extends
  <2> QED BY <2>1, <2>2
<1>7. c \in Seq(Nat) /\ Len(c) = d
  BY <1>3, <1>5, StartIs
<1>8. Len(p) <= Len(w) /\ p = Start(w, Len(p))
  BY <1>2 DEF Extends
<1>9. Start(w, d) = c
  <2>1. Len(p) \in 0..Len(w)
    BY <1>1, <1>3, <1>8
  <2> QED BY <1>1, <1>5, <1>8, <2>1, StartOfStart
<1> HIDE DEF c
<1>10. ASSUME ~Holds(c)
       PROVE  w = c /\ p = c /\ d = Len(path)
  <2>1. ~(Len(w) > d)
    BY <1>1, <1>7, <1>9, <1>10, PlaceUnder DEF Holds
  <2>2. Len(w) = d /\ Len(p) = d
    BY <1>1, <1>3, <1>5, <1>8, <2>1
  <2>3. w = c /\ p = w
    BY <1>1, <1>8, <1>9, <2>2, WholeStart
  <2> QED BY <1>3, <2>2, <2>3
<1>11. CASE keys
  BY <1>2, <1>6, <1>10, <1>11, WantedIs
<1>12. CASE ~keys
  <2>1. Scalar(w)
    BY <1>12, WantedIs
  <2>2. CASE Holds(c)
    <3>1. d = MaxDepth
      BY <1>6, <1>12, <2>2
    <3>2. Len(w) = d
      BY <1>1, <1>3, <1>5, <1>8, <3>1
    <3>3. w = c
      BY <1>1, <1>9, <3>2, WholeStart
    <3> QED BY <2>1, <2>2, <3>3, NotBoth
  <2>3. CASE ~Holds(c)
    <3>1. w = c /\ d = Len(path)
      BY <1>10, <2>3
    <3>2. ~Scalar(c) \/ d < Len(path)
      BY <1>6, <1>12, <2>3
    <3> QED BY <1>5, <2>1, <3>1, <3>2
  <2> QED BY <2>2, <2>3
<1> QED BY <1>11, <1>12

-----------------------------------------------------------------------------
(* Every one once: the steps *)

OrderHolds(p, s, f, c, v, l) ==
    /\ p \in {"begin", "follow", "seek", "hold", "end"} /\ Sorted(l)
    /\ p = "begin" => s = <<>> /\ f = <<>> /\ v = <<>> /\ l = <<>>
    /\ p = "follow" => f = <<>> /\ v = <<>> /\ l = <<>> /\ OnPath(s)
    /\ p = "seek" => Track(s) /\ f \in {<<>>, path} /\ GivenBy(s, v, l)
    /\ p = "hold" => Track(s) /\ f \in {<<>>, path} /\ GivenBy(s, c, l)
    /\ p = "end" => Given(l) = Cursor!Wanted
OrderInv == CursorCase /\ OrderHolds(phase, stack, prefix, current, previous, seen)

LEMMA OrderNext ==
  ASSUME root' = root, excluded' = excluded, keys' = keys, path' = path, CursorCase,
         OrderHolds(phase', stack', prefix', current', previous', seen')
  PROVE  OrderInv'
<1>1. /\ \A q : Cursor!Object(q)' = Cursor!Object(q)
      /\ \A q : Holds(q)' <=> Holds(q)
      /\ \A q : Cursor!ShouldExclude(q)' <=> Cursor!ShouldExclude(q)
  BY DEF Cursor!Object, Holds, Cursor!ShouldExclude
<1>2. \A o, key : Cursor!FirstNamed(o, key)' = Cursor!FirstNamed(o, key)
  BY <1>1 DEF Cursor!FirstNamed
<1>3. Cursor!Origin' = Cursor!Origin
  BY <1>2 DEF Cursor!Origin
<1>4. \A q : Cursor!HasExcluded(q)' <=> Cursor!HasExcluded(q)
  BY <1>1 DEF Cursor!HasExcluded
<1>5. Cursor!Wanted' = Cursor!Wanted
  BY <1>1, <1>3, <1>4 DEF Cursor!Wanted, Cursor!Nameless
<1>6. \A p, n : On(p, n)' <=> On(p, n)
  BY <1>1, <1>3, <1>4 DEF On
<1>7. \A s : Track(s)' <=> Track(s)
  BY <1>6 DEF Track
<1>8. \A b, h, l : GivenAt(b, h, l)' <=> GivenAt(b, h, l)
  BY <1>1, <1>5 DEF GivenAt
<1>9. \A s, h, l : GivenBy(s, h, l)' <=> GivenBy(s, h, l)
  BY <1>5, <1>8 DEF GivenBy
<1>10. \A q : Led(q)' <=> Led(q)
  BY <1>2 DEF Led
<1>11. \A s : OnPath(s)' <=> OnPath(s)
  BY <1>1, <1>4, <1>10 DEF OnPath
<1>12. CursorCase'
  BY DEF CursorCase
<1>13. \A l : Sorted(l)' <=> Sorted(l)
  BY DEF Sorted
<1> QED BY <1>5, <1>7, <1>9, <1>11, <1>12, <1>13 DEF OrderInv, OrderHolds

ArgumentsKept == root' = root /\ excluded' = excluded /\ keys' = keys /\ path' = path

LEMMA KeptBy == ASSUME Cursor!Next PROVE ArgumentsKept
BY DEF ArgumentsKept, Cursor!Next, Cursor!arguments, Cursor!BeginNowhere, Cursor!BeginAtScalar,
       Cursor!BeginAtContainer, Cursor!FollowToScalar, Cursor!FollowToContainer, Cursor!FollowNowhere,
       Cursor!Pop, Cursor!HoldContainer, Cursor!Push, Cursor!HoldChild, Cursor!Skip, Cursor!End,
       Cursor!Advance

LEMMA ToFollow ==
  ASSUME CursorCase, ArgumentsKept, phase' = "follow", prefix' = <<>>, previous' = <<>>, seen' = <<>>,
         OnPath(stack')
  PROVE  OrderInv'
<1>1. Sorted(<<>>)
  BY DEF Sorted
<1>2. OrderHolds("follow", stack', <<>>, current', <<>>, <<>>)
  BY <1>1 DEF OrderHolds
<1>3. OrderHolds(phase', stack', prefix', current', previous', seen')
  BY <1>2
<1> QED BY <1>3, OrderNext DEF ArgumentsKept

LEMMA ToSeek ==
  ASSUME CursorCase, ArgumentsKept, phase' = "seek", prefix' \in {<<>>, path}, Track(stack'),
         NEW v, previous' = v, NEW l, seen' = l, GivenBy(stack', v, l), Sorted(l)
  PROVE  OrderInv'
<1>1. OrderHolds("seek", stack', prefix', current', v, l)
  BY DEF OrderHolds
<1>2. OrderHolds(phase', stack', prefix', current', previous', seen')
  BY <1>1
<1> QED BY <1>2, OrderNext DEF ArgumentsKept

LEMMA ToHold ==
  ASSUME CursorCase, ArgumentsKept, phase' = "hold", prefix' \in {<<>>, path}, Track(stack'),
         NEW c, current' = c, NEW l, seen' = l, GivenBy(stack', c, l), Sorted(l)
  PROVE  OrderInv'
<1>1. OrderHolds("hold", stack', prefix', c, previous', l)
  BY DEF OrderHolds
<1>2. OrderHolds(phase', stack', prefix', current', previous', seen')
  BY <1>1
<1> QED BY <1>2, OrderNext DEF ArgumentsKept

LEMMA ToEnd ==
  ASSUME CursorCase, ArgumentsKept, phase' = "end", NEW l, seen' = l, Given(l) = Cursor!Wanted, Sorted(l)
  PROVE  OrderInv'
<1>1. OrderHolds("end", stack', prefix', current', previous', l)
  BY DEF OrderHolds
<1>2. OrderHolds(phase', stack', prefix', current', previous', seen')
  BY <1>1
<1> QED BY <1>2, OrderNext DEF ArgumentsKept

LEMMA RootNotExcluded ==
  ASSUME ~Cursor!ShouldExclude(<<>>) PROVE ~Cursor!HasExcluded(<<>>)
<1>1. \A n \in 0..Len(<<>>) : Start(<<>>, n) = <<>>
  BY DEF Start
<1> QED BY <1>1, Zenon DEF Cursor!HasExcluded, Start

LEMMA BeginOrder ==
  ASSUME IsCase, ShallowHere, OrderInv, ArgumentsKept,
         Cursor!BeginNowhere \/ Cursor!BeginAtScalar \/ Cursor!BeginAtContainer
  PROVE  OrderInv'
<1>1. CursorCase /\ stack = <<>> /\ prefix = <<>> /\ previous = <<>> /\ seen = <<>> /\ Sorted(<<>>)
  BY DEF OrderInv, OrderHolds, Cursor!BeginNowhere, Cursor!BeginAtScalar, Cursor!BeginAtContainer
<1>2. Led(<<>>) /\ Len(<<>>) = 0 /\ path \in Seq(Component)
  BY <1>1, RootLed, PathType
<1>3. CASE Cursor!BeginNowhere
  <2>1. phase' = "end" /\ seen' = <<>>
    BY <1>1, <1>3 DEF Cursor!BeginNowhere
  <2>2. \/ Cursor!ShouldExclude(<<>>)
        \/ ~Cursor!IsContainer(root) /\ (keys \/ path # <<>> \/ ~Cursor!IsScalar(root))
        \/ Cursor!IsContainer(root) /\ (IF path = <<>> THEN MaxDepth = 0 ELSE ~Cursor!PathFits)
    BY <1>3, Zenon DEF Cursor!BeginNowhere
  <2>3. \A w \in Cursor!Wanted : FALSE
    BY <1>1, <2>2, NoBeginning
  <2>4. Given(<<>>) = Cursor!Wanted
    BY <2>3, NothingGiven
  <2> QED BY <1>1, <2>1, <2>4, ToEnd
<1>4. CASE Cursor!BeginAtScalar
  <2>1. /\ ~keys /\ ~Cursor!ShouldExclude(<<>>) /\ path = <<>> /\ Cursor!IsScalar(root)
        /\ phase' = "hold" /\ current' = <<<<>>>> /\ seen' = Append(seen, <<>>)
        /\ stack' = stack /\ prefix' = prefix
    BY <1>4 DEF Cursor!BeginAtScalar, Cursor!Hold
  <2>2. seen' = <<<<>>>> /\ stack' = <<>> /\ prefix' = <<>>
    BY <1>1, <2>1
  <2>3. ~Cursor!HasExcluded(<<>>) /\ Scalar(<<>>) /\ Len(<<>>) = Len(path)
    BY <2>1, RootNotExcluded, HoldsIs
  <2>4. GivenBy(<<>>, <<<<>>>>, <<<<>>>>) /\ Sorted(<<<<>>>>)
    BY <1>1, <1>2, <2>1, <2>3, BeginAt
  <2>5. Track(stack') /\ GivenBy(stack', <<<<>>>>, <<<<>>>>)
    BY <2>2, <2>4, TrackNothing
  <2> QED BY <1>1, <2>1, <2>2, <2>4, <2>5, ToHold
<1>5. CASE Cursor!BeginAtContainer
  <2>1. /\ ~Cursor!ShouldExclude(<<>>) /\ Cursor!IsContainer(root)
        /\ stack' = <<Cursor!Frame(<<>>)>> /\ prefix' = <<>> /\ previous' = <<>> /\ seen' = <<>>
    BY <1>1, <1>5 DEF Cursor!BeginAtContainer
  <2>2. IF path = <<>> THEN phase' = "seek" ELSE phase' = "follow"
    BY <1>5, Zenon DEF Cursor!BeginAtContainer
  <2>3. ~Cursor!HasExcluded(<<>>) /\ Holds(<<>>)
    BY <2>1, RootNotExcluded, HoldsIs
  <2>4. CASE path = <<>>
    <3>1. Len(<<>>) = Len(path)
      BY <2>4
    <3>2. /\ Track(<<Cursor!Frame(<<>>)>>) /\ GivenBy(<<Cursor!Frame(<<>>)>>, <<>>, <<>>)
          /\ Sorted(<<>>)
      BY <1>1, <1>2, <2>3, <3>1, BeginIn
    <3>3. Track(stack') /\ GivenBy(stack', <<>>, <<>>)
      BY <2>1, <3>2
    <3> QED BY <1>1, <2>1, <2>2, <2>4, <3>2, <3>3, ToSeek
  <2>5. CASE path # <<>>
    <3>1. Len(<<>>) < Len(path)
      BY <1>2, <2>5
    <3>2. OnPath(stack')
      BY <1>2, <2>1, <2>3, <3>1 DEF OnPath
    <3> QED BY <1>1, <2>1, <2>2, <2>5, <3>2, ToFollow
  <2> QED BY <2>4, <2>5
<1> QED BY <1>3, <1>4, <1>5

LEMMA FollowOrder ==
  ASSUME IsCase, ShallowHere, OrderInv, ArgumentsKept,
         Cursor!FollowToScalar \/ Cursor!FollowToContainer \/ Cursor!FollowNowhere
  PROVE  OrderInv'
<1>1. /\ CursorCase /\ prefix = <<>> /\ previous = <<>> /\ seen = <<>> /\ Sorted(<<>>)
      /\ OnPath(stack)
  BY DEF OrderInv, OrderHolds, Cursor!FollowToScalar, Cursor!FollowToContainer, Cursor!FollowNowhere
<1>2. PICK o : /\ stack = <<Cursor!Frame(o)>> /\ Led(o) /\ Len(o) < Len(path)
               /\ Holds(o) /\ ~Cursor!HasExcluded(o)
  BY <1>1 DEF OnPath
<1>3. o \in Seq(Nat) /\ Len(o) \in Nat /\ o \in Places(root) /\ Len(path) \in Nat /\ path \in Seq(Component)
  BY <1>1, <1>2, LedIs, PathType
<1> DEFINE d == Len(o) + 1
<1>4. Cursor!Depth = d /\ Cursor!Child = Cursor!FirstNamed(o, path[d])
  <2>1. Cursor!Top.place = o
    BY <1>2 DEF Cursor!Top, Cursor!Last, Cursor!Frame
  <2> QED BY <2>1, Zenon DEF Cursor!Depth, Cursor!Child
<1>5. Len(o) <= MaxDepth
  <2>1. path # <<>>
    BY <1>2, <1>3
  <2> QED BY <1>3, <2>1 DEF ShallowHere
<1>6. ASSUME NEW c \in Cursor!Child
      PROVE  Led(c) /\ Len(c) = d /\ ~Cursor!HasExcluded(c) /\ c \in Seq(Nat) /\ Len(c) <= Len(path)
  <2>1. /\ Led(c) /\ Len(c) = Len(o) + 1 /\ Start(c, Len(o)) = o /\ ~Cursor!ShouldExclude(c)
    BY <1>1, <1>2, <1>4, <1>5, <1>6, LedChild
  <2>2. c \in Seq(Nat)
    BY <2>1, LedIs
  <2> QED BY <1>2, <1>3, <2>1, <2>2, ChildNotExcluded DEF Led
<1> HIDE DEF d
<1>7. CASE Cursor!FollowToScalar
  <2>1. PICK c \in Cursor!Child :
           Cursor!IsScalar(Cursor!Object(c)) /\ phase' = "hold" /\ current' = <<c>> /\ seen' = Append(seen, c)
    BY <1>7 DEF Cursor!FollowToScalar, Cursor!Hold
  <2>2. ~keys /\ Cursor!Depth = Len(path) /\ stack' = <<>> /\ prefix' = path
    BY <1>7 DEF Cursor!FollowToScalar
  <2>3. Scalar(c) /\ seen' = <<c>>
    BY <1>1, <2>1 DEF Scalar
  <2>4. Led(c) /\ Len(c) = Len(path) /\ ~Cursor!HasExcluded(c)
    BY <1>4, <1>6, <2>2
  <2>5. GivenBy(<<>>, <<c>>, <<c>>) /\ Sorted(<<c>>)
    BY <1>1, <2>2, <2>3, <2>4, BeginAt
  <2>6. Track(stack') /\ GivenBy(stack', <<c>>, <<c>>)
    BY <2>2, <2>5, TrackNothing
  <2> QED BY <1>1, <2>1, <2>2, <2>3, <2>5, <2>6, ToHold
<1>8. CASE Cursor!FollowToContainer
  <2>1. PICK c \in Cursor!Child : Cursor!IsContainer(Cursor!Object(c)) /\ stack' = <<Cursor!Frame(c)>>
    BY <1>8 DEF Cursor!FollowToContainer
  <2>2. /\ phase' = IF Cursor!Depth < Len(path) THEN "follow" ELSE "seek"
        /\ prefix' = <<>> /\ previous' = <<>> /\ seen' = <<>>
    BY <1>1, <1>8 DEF Cursor!FollowToContainer
  <2>3. Led(c) /\ Len(c) = d /\ ~Cursor!HasExcluded(c) /\ Len(c) <= Len(path) /\ Holds(c) /\ Len(c) \in Nat
    BY <1>6, <2>1, LedIs, HoldsIs
  <2>4. CASE Len(c) < Len(path)
    <3>1. phase' = "follow"
      BY <1>4, <2>2, <2>3, <2>4
    <3>2. OnPath(stack')
      BY <2>1, <2>3, <2>4 DEF OnPath
    <3> QED BY <1>1, <2>2, <3>1, <3>2, ToFollow
  <2>5. CASE ~(Len(c) < Len(path))
    <3>1. phase' = "seek" /\ Len(c) = Len(path)
      BY <1>3, <1>4, <2>2, <2>3, <2>5
    <3>2. Track(<<Cursor!Frame(c)>>) /\ GivenBy(<<Cursor!Frame(c)>>, <<>>, <<>>) /\ Sorted(<<>>)
      BY <1>1, <2>3, <3>1, BeginIn
    <3>3. Track(stack') /\ GivenBy(stack', <<>>, <<>>)
      BY <2>1, <3>2
    <3> QED BY <1>1, <2>2, <3>1, <3>2, <3>3, ToSeek
  <2> QED BY <2>4, <2>5
<1>9. CASE Cursor!FollowNowhere
  <2>1. phase' = "end" /\ seen' = <<>>
    BY <1>1, <1>9 DEF Cursor!FollowNowhere
  <2>2. \A c \in Cursor!FirstNamed(o, path[d]) :
           IF keys THEN ~Holds(c)
           ELSE IF Holds(c) THEN d = MaxDepth ELSE ~Scalar(c) \/ d < Len(path)
    <3>1. \A c \in Cursor!Child :
             IF keys THEN ~Cursor!IsContainer(Cursor!Object(c))
             ELSE IF Cursor!IsContainer(Cursor!Object(c)) THEN Cursor!Depth = MaxDepth
             ELSE ~Cursor!IsScalar(Cursor!Object(c)) \/ Cursor!Depth < Len(path)
      BY <1>9, Zenon DEF Cursor!FollowNowhere
    <3> QED BY <1>4, <3>1, HoldsIs, Zenon DEF Scalar
  <2>3. \A w \in Cursor!Wanted : FALSE
    BY <1>1, <1>2, <2>2, NoWay DEF d
  <2>4. Given(<<>>) = Cursor!Wanted
    BY <2>3, NothingGiven
  <2> QED BY <1>1, <2>1, <2>4, ToEnd
<1> QED BY <1>7, <1>8, <1>9

\* A container that is entered, or passed, has been given if it is wanted.
LEMMA EnteredGiven ==
  ASSUME Cursor!Entered, Cursor!Next1 \in Cursor!Wanted
  PROVE  previous = <<Cursor!Next1>>
<1>1. /\ Cursor!IsContainer(Cursor!Object(Cursor!Next1))
      /\ keys => Cursor!Nameless(Cursor!Next1) \/ previous = <<Cursor!Next1>>
  BY DEF Cursor!Entered
<1>2. Holds(Cursor!Next1)
  BY <1>1, HoldsIs
<1>3. keys => HasKey(Cursor!Next1)
  BY WantedIs
<1>4. ~keys => Scalar(Cursor!Next1)
  BY WantedIs
<1> QED BY <1>1, <1>2, <1>3, <1>4, NotBoth DEF HasKey

LEMMA NextIs ==
  ASSUME IsCase, CursorCase, ShallowHere, Track(stack), stack # <<>>, ~Cursor!AtEnd
  PROVE  /\ Cursor!Next1 = ChildOf(stack[Len(stack)]) /\ Cursor!Moved = Onward(stack)
         /\ Cursor!Next1 \in Places(root) /\ Cursor!Next1 \in Seq(Nat)
         /\ Len(Cursor!Next1) = Len(path) + Len(stack)
         /\ \E o \in Cursor!Origin : Extends(Cursor!Next1, o)
         /\ ~Cursor!ShouldExclude(Cursor!Next1) => ~Cursor!HasExcluded(Cursor!Next1)
         /\ Holds(Cursor!Next1) /\ ~Cursor!ShouldExclude(Cursor!Next1) => On(Cursor!Next1, Len(stack) + 1)
<1> DEFINE f == stack[Len(stack)]
           c == Cursor!Next1
           p == f.place
           i == f.index
<1>1. i \in 1..Filter!Size(Filter!At(root, p)) /\ c = ChildOf(f) /\ Cursor!Moved = Onward(stack)
  BY SearchTop
<1>2. i \in Nat /\ c = Append(p, i) /\ p = stack[Len(stack)].place /\ On(p, Len(stack))
  BY <1>1, TrackIs DEF ChildOf
<1>3. Cursor!Origin = {Start(p, Len(path))}
  BY <1>2 DEF On
<1> HIDE DEF p, i, c
<1>4. /\ c \in Places(root) /\ c \in Seq(Nat) /\ Len(c) = Len(path) + Len(stack)
      /\ Extends(c, Start(p, Len(path)))
      /\ ~Cursor!ShouldExclude(c) => ~Cursor!HasExcluded(c)
      /\ Holds(c) /\ ~Cursor!ShouldExclude(c) => On(c, Len(stack) + 1)
  <2>1. TellsOf(stack, p, i, c)
    BY <1>1, <1>2, ChildOn
  <2> QED BY <2>1, Zenon DEF TellsOf
<1> QED BY <1>1, <1>3, <1>4 DEF c

\* What is held is wanted.
LEMMA NextWanted ==
  ASSUME IsCase, CursorCase, ShallowHere, Track(stack), stack # <<>>, ~Cursor!AtEnd,
         ~Cursor!ShouldExclude(Cursor!Next1),
         IF keys THEN HasKey(Cursor!Next1) ELSE Scalar(Cursor!Next1)
  PROVE  Cursor!Next1 \in Cursor!Wanted
<1> DEFINE c == Cursor!Next1
<1>1. /\ c \in Places(root) /\ c \in Seq(Nat) /\ Len(c) = Len(path) + Len(stack)
      /\ \E o \in Cursor!Origin : Extends(c, o)
      /\ ~Cursor!HasExcluded(c)
  BY NextIs
<1>2. Len(stack) \in Nat /\ Len(stack) # 0 /\ Len(path) \in Nat
  BY TrackIs, PathType
<1>3. IF keys THEN HasKey(c) ELSE Scalar(c)
  OBVIOUS
<1> HIDE DEF c
<1>4. Len(c) <= MaxDepth
  <2>1. CASE path = <<>>
    <3>1. Len(stack) <= MaxDepth /\ Len(path) = 0
      BY <2>1 DEF Track
    <3> QED BY <1>1, <1>2, <3>1
  <2>2. CASE path # <<>>
    BY <1>1, <2>2 DEF ShallowHere
  <2> QED BY <2>1, <2>2
<1>5. c \notin Cursor!Origin
  <2>1. Len(c) # Len(path)
    BY <1>1, <1>2
  <2> QED BY <2>1, OriginIs
<1>6. c \in Cursor!Wanted
  BY <1>1, <1>3, <1>4, <1>5, WantedIs
<1> QED BY <1>6 DEF c

LEMMA SearchOrder ==
  ASSUME IsCase, ShallowHere, OrderInv, ArgumentsKept,
         Cursor!Pop \/ Cursor!HoldContainer \/ Cursor!Push \/ Cursor!HoldChild \/ Cursor!Skip \/ Cursor!End
  PROVE  OrderInv'
<1>1. /\ CursorCase /\ phase = "seek" /\ Track(stack) /\ prefix \in {<<>>, path}
      /\ GivenBy(stack, previous, seen) /\ Sorted(seen)
  BY DEF OrderInv, OrderHolds, Cursor!Pop, Cursor!HoldContainer, Cursor!Push, Cursor!HoldChild, Cursor!Skip, Cursor!End
<1> DEFINE f == stack[Len(stack)]
           c == Cursor!Next1
<1>2. CASE Cursor!End
  <2>1. stack = <<>> /\ phase' = "end" /\ seen' = seen
    BY <1>2 DEF Cursor!End
  <2>2. Given(seen) = Cursor!Wanted
    BY <1>1, <2>1 DEF GivenBy
  <2> QED BY <1>1, <2>1, <2>2, ToEnd
<1>3. CASE Cursor!Pop
  <2>1. /\ stack # <<>> /\ Cursor!AtEnd /\ stack' = Cursor!Front(stack)
        /\ phase' = "seek" /\ prefix' = prefix /\ previous' = previous /\ seen' = seen
    BY <1>1, <1>3 DEF Cursor!Pop
  <2>2. Track(Cursor!Front(stack)) /\ GivenBy(Cursor!Front(stack), previous, seen)
    BY <1>1, <2>1, SearchPop
  <2>3. Track(stack') /\ GivenBy(stack', previous, seen)
    BY <2>1, <2>2
  <2> QED BY <1>1, <2>1, <2>3, ToSeek
<1>4. ASSUME stack # <<>>, ~Cursor!AtEnd
      PROVE  /\ c = ChildOf(f) /\ Cursor!Moved = Onward(stack)
             /\ c \in Places(root) /\ c \in Seq(Nat) /\ Len(c) = Len(path) + Len(stack)
             /\ Holds(c) /\ ~Cursor!ShouldExclude(c) => On(c, Len(stack) + 1)
  BY <1>1, <1>4, NextIs
<1>5. CASE Cursor!HoldContainer
  <2>1. /\ stack # <<>> /\ ~Cursor!AtEnd /\ ~Cursor!ShouldExclude(c) /\ keys
        /\ Cursor!IsContainer(Cursor!Object(c)) /\ HasKey(c) /\ previous # <<c>>
        /\ phase' = "hold" /\ current' = <<c>> /\ seen' = Append(seen, c)
        /\ prefix' = path /\ stack' = stack
    BY <1>5 DEF Cursor!HoldContainer, Cursor!Hold, HasKey
  <2>2. c \in Cursor!Wanted
    BY <1>1, <2>1, NextWanted
  <2>3. Holds(c)
    BY <2>1, HoldsIs
  <2>4. GivenAt(c, previous, seen)
    BY <1>1, <1>4, <2>1 DEF GivenBy
  <2>5. GivenAt(c, <<c>>, Append(seen, c)) /\ Sorted(Append(seen, c))
    <3> HIDE DEF c
    <3> QED BY <1>1, <2>1, <2>2, <2>3, <2>4, GivenMore
  <2>6. GivenBy(stack', <<c>>, Append(seen, c)) /\ Track(stack')
    BY <1>1, <1>4, <2>1, <2>5 DEF GivenBy
  <2> HIDE DEF c
  <2> QED BY <1>1, <2>1, <2>5, <2>6, ToHold
<1>6. CASE Cursor!HoldChild
  <2>1. /\ stack # <<>> /\ ~Cursor!AtEnd /\ ~Cursor!ShouldExclude(c)
        /\ ~Cursor!IsContainer(Cursor!Object(c)) /\ Cursor!Wanted1
        /\ phase' = "hold" /\ current' = <<c>> /\ seen' = Append(seen, c)
        /\ prefix' = path /\ stack' = Cursor!Moved
    BY <1>6 DEF Cursor!HoldChild, Cursor!Hold
  <2>2. c \in Cursor!Wanted
    <3>1. IF keys THEN HasKey(c) ELSE Scalar(c)
      BY <2>1, Zenon DEF Cursor!Wanted1, HasKey, Scalar
    <3> QED BY <1>1, <2>1, <3>1, NextWanted
  <2>3. ~Holds(c)
    BY <2>1, HoldsIs
  <2> DEFINE s == Onward(stack)
             b == ChildOf(s[Len(s)])
  <2>4. /\ Track(s) /\ s # <<>> /\ Len(s) = Len(stack)
        /\ s[Len(stack)].place = f.place /\ s[Len(stack)].index = f.index + 1
        /\ f.place \in Seq(Nat) /\ f.index \in Nat
    BY <1>1, <2>1, TrackOnward, TrackIs
  <2>5. GivenAt(c, previous, seen) /\ c = Append(f.place, f.index) /\ b = Append(f.place, f.index + 1)
    BY <1>1, <1>4, <2>1, <2>4 DEF GivenBy, ChildOf
  <2>6. stack' = s /\ c \in Seq(Nat)
    BY <1>4, <2>1
  <2> HIDE DEF s, b, c, f
  <2>7. ASSUME NEW q \in Cursor!Wanted
        PROVE  Before(q, b) <=> Before(q, c) \/ q = c
    <3>1. q \in Places(root) /\ q \in Seq(Nat)
      BY WantedPlace
    <3>2. Before(q, b) <=> Before(q, c) \/ Extends(q, c)
      BY <2>4, <2>5, <3>1, BeforeNextChild
    <3>3. Extends(q, c) => q = c
      BY <2>3, <2>6, <3>1, NothingIn
    <3>4. Extends(c, c)
      BY <2>6, ExtendsSelf
    <3> QED BY <3>2, <3>3, <3>4
  <2>8. previous # <<c>>
    <3> SUFFICES ASSUME previous = <<c>> PROVE FALSE
      OBVIOUS
    <3>1. PICK x \in Cursor!Wanted : previous = <<x>> /\ (Before(x, c) \/ (x = c /\ Holds(x)))
      BY <2>5, Singletons, Zenon DEF GivenAt
    <3>2. x = c
      BY <3>1, Singletons, Zenon
    <3>3. ~Before(c, c)
      BY <2>6, ExtendsSelf, NotBefore
    <3> QED BY <2>3, <3>1, <3>2, <3>3
  <2>9. GivenAt(b, <<c>>, Append(seen, c)) /\ Sorted(Append(seen, c))
    <3>1. Before(c, b)
      BY <2>2, <2>7
    <3> QED BY <1>1, <2>2, <2>5, <2>7, <2>8, <3>1, GivenMore
  <2>10. GivenBy(s, <<c>>, Append(seen, c))
    BY <2>4, <2>9 DEF GivenBy, b
  <2>11. GivenBy(stack', <<c>>, Append(seen, c)) /\ Track(stack')
    BY <2>4, <2>6, <2>10
  <2> QED BY <1>1, <2>1, <2>9, <2>11, ToHold
<1>7. CASE Cursor!Push
  <2>1. /\ stack # <<>> /\ Cursor!Entered /\ Cursor!CanEnter
        /\ stack' = Append(Cursor!Moved, Cursor!Frame(c))
        /\ phase' = "seek" /\ prefix' = prefix /\ previous' = previous /\ seen' = seen
    BY <1>1, <1>7 DEF Cursor!Push
  <2>2. ~Cursor!AtEnd /\ ~Cursor!ShouldExclude(c) /\ Cursor!IsContainer(Cursor!Object(c))
    BY <2>1 DEF Cursor!Entered
  <2>3. c \in Cursor!Wanted => previous = <<c>>
    BY <2>1, EnteredGiven
  <2>4. On(c, Len(stack) + 1) /\ c = ChildOf(stack[Len(stack)]) /\ c \in Seq(Nat)
    BY <1>4, <2>1, <2>2, HoldsIs
  <2>5. path = <<>> => Len(stack) < MaxDepth
    <3> SUFFICES ASSUME path = <<>> PROVE Len(stack) < MaxDepth
      OBVIOUS
    <3>1. Len(prefix) = 0 /\ Len(stack) \in Nat
      BY <1>1, TrackIs
    <3> QED BY <2>1, <3>1 DEF Cursor!CanEnter
  <2> DEFINE s == Append(Onward(stack), Cursor!Frame(c))
  <2>6. stack' = s
    BY <1>4, <2>1, <2>2
  <2> HIDE DEF c
  <2>7. Track(s) /\ GivenBy(s, previous, seen)
    BY <1>1, <2>1, <2>3, <2>4, <2>5, SearchInto
  <2> HIDE DEF s
  <2>8. Track(stack') /\ GivenBy(stack', previous, seen)
    BY <2>6, <2>7
  <2> QED BY <1>1, <2>1, <2>8, ToSeek
<1>8. CASE Cursor!Skip
  <2>1. /\ stack # <<>> /\ ~Cursor!AtEnd /\ stack' = Cursor!Moved
        /\ phase' = "seek" /\ prefix' = prefix /\ previous' = previous /\ seen' = seen
    BY <1>1, <1>8 DEF Cursor!Skip
  <2>2. \/ Cursor!ShouldExclude(c) \/ (Cursor!Entered /\ ~Cursor!CanEnter)
        \/ ~Cursor!IsContainer(Cursor!Object(c)) /\ ~Cursor!Wanted1
    BY <1>8, Zenon DEF Cursor!Skip
  <2>3. c \in Places(root) /\ c \in Seq(Nat) /\ Len(c) = Len(path) + Len(stack) /\ c = ChildOf(f)
    BY <1>4, <2>1
  <2>4. Len(path) \in Nat /\ Len(stack) \in Nat
    BY <1>1, PathType, TrackIs
  <2>5. ASSUME NEW q \in Cursor!Wanted, Extends(q, c)
        PROVE  previous = <<q>>
    <3>1. q \in Places(root) /\ q \in Seq(Nat) /\ Len(q) \in Nat /\ Len(q) <= MaxDepth /\ ~Cursor!HasExcluded(q)
      BY WantedIs, PlaceType
    <3>2. ~Cursor!ShouldExclude(c)
      BY <2>3, <2>5, <3>1, ExcludedItself, ExcludedUnder
    <3>3. CASE Cursor!Entered /\ ~Cursor!CanEnter
      <4>1. ~(Len(stack) + Len(prefix) < MaxDepth)
        BY <3>3 DEF Cursor!CanEnter
      <4>2. Len(c) >= MaxDepth
        <5>1. CASE prefix = path
          BY <2>3, <2>4, <4>1, <5>1, LimitsAssumption
        <5>2. CASE prefix # path
          <6>1. Len(prefix) = 0
            BY <1>1, <5>2
          <6> QED BY <2>3, <2>4, <4>1, <6>1, LimitsAssumption
        <5> QED BY <5>1, <5>2
      <4>3. Len(c) <= Len(q) /\ c = Start(q, Len(c))
        BY <2>5 DEF Extends
      <4>4. Len(c) = Len(q)
        <5>1. Len(c) \in Nat
          BY <2>3
        <5> HIDE DEF c
        <5> QED BY <3>1, <4>2, <4>3, <5>1, LimitsAssumption
      <4>5. q = c
        BY <3>1, <4>3, <4>4, WholeStart
      <4> QED BY <3>3, <4>5, EnteredGiven
    <3>4. CASE ~Cursor!IsContainer(Cursor!Object(c)) /\ ~Cursor!Wanted1
      <4>1. q = c
        BY <2>3, <2>5, <3>1, <3>4, HoldsIs, NothingIn
      <4>2. IF keys THEN HasKey(c) ELSE Scalar(c)
        BY <4>1, WantedIs
      <4> QED BY <3>4, <4>2, Zenon DEF Cursor!Wanted1, HasKey, Scalar
    <3> QED BY <2>2, <3>2, <3>3, <3>4
  <2> HIDE DEF c
  <2>6. Track(Onward(stack)) /\ GivenBy(Onward(stack), previous, seen)
    BY <1>1, <2>1, <2>3, <2>5, SearchOn
  <2>7. Track(stack') /\ GivenBy(stack', previous, seen)
    BY <1>4, <2>1, <2>6
  <2> QED BY <1>1, <2>1, <2>7, ToSeek
<1> QED BY <1>2, <1>3, <1>5, <1>6, <1>7, <1>8

LEMMA AdvanceOrder ==
  ASSUME OrderInv, ArgumentsKept, Cursor!Advance
  PROVE  OrderInv'
<1>1. /\ CursorCase /\ Track(stack) /\ prefix \in {<<>>, path}
      /\ GivenBy(stack, current, seen) /\ Sorted(seen)
  BY DEF OrderInv, OrderHolds, Cursor!Advance
<1>2. /\ phase' = "seek" /\ previous' = current /\ prefix' = prefix /\ stack' = stack /\ seen' = seen
  BY DEF Cursor!Advance
<1>3. Track(stack') /\ GivenBy(stack', current, seen)
  BY <1>1, <1>2
<1> QED BY <1>1, <1>2, <1>3, ToSeek

-----------------------------------------------------------------------------
(* Every one once: the filter and the iterator *)

\* The iteration begins when the filter has been through.
OnceInv == /\ OrderInv
           /\ phase # "begin" => walk = "done"

LEMMA OnceInit == ASSUME Init PROVE OnceInv
<1>1. CursorCase
  BY DEF Init, CursorCase
<1>2. phase = "begin" /\ stack = <<>> /\ prefix = <<>> /\ previous = <<>> /\ seen = <<>>
  BY DEF Init, Cursor!Init
<1>3. Sorted(<<>>)
  BY DEF Sorted
<1>4. Sorted(seen)
  BY <1>2, <1>3
<1> QED BY <1>1, <1>2, <1>4 DEF OnceInv, OrderInv, OrderHolds

LEMMA OnceNext ==
  ASSUME ShallowFromPaths, WalkInv, OnceInv, [Next]_vars
  PROVE  OnceInv'
<1>1. IsCase /\ CursorCase /\ ShallowHere
  <2>1. IsCase /\ CursorCase
    BY DEF WalkInv, OnceInv, OrderInv
  <2> QED BY <2>1, ShallowIs
<1>2. CASE CursorStep
  <2>1. Cursor!Next /\ walk' = "done" /\ ArgumentsKept
    BY <1>2, KeptBy DEF CursorStep
  <2>2. OrderInv
    BY DEF OnceInv
  <2>3. OrderInv'
    BY <1>1, <2>1, <2>2, BeginOrder, FollowOrder, SearchOrder, AdvanceOrder DEF Cursor!Next
  <2> QED BY <2>1, <2>3 DEF OnceInv
<1>3. CASE FilterStep
  <2>1. /\ walk # "done" /\ root' = root
        /\ UNCHANGED <<keys, path, phase, stack, prefix, current, previous, seen>>
    BY <1>3 DEF FilterStep, Filter!Next, Filter!Insert, Filter!Start, Filter!Visit, Filter!Leave
  <2>2. phase = "begin" /\ OrderHolds(phase, stack, prefix, current, previous, seen)
    BY <2>1 DEF OnceInv, OrderInv
  <2>3. stack' = <<>> /\ prefix' = <<>> /\ previous' = <<>> /\ seen' = <<>> /\ phase' = "begin"
    BY <2>1, <2>2 DEF OrderHolds
  <2>4. Sorted(<<>>)'
    BY DEF Sorted
  <2>5. Sorted(seen)'
    BY <2>3, <2>4 DEF Sorted
  <2>6. CursorCase'
    BY <1>1, <2>1 DEF CursorCase
  <2> QED BY <2>3, <2>5, <2>6 DEF OnceInv, OrderInv, OrderHolds
<1>4. CASE UNCHANGED vars
  <2>1. /\ ArgumentsKept /\ walk' = walk
        /\ UNCHANGED <<phase, stack, prefix, current, previous, seen>>
    BY <1>4 DEF ArgumentsKept, vars, Filter!vars, Cursor!vars, Cursor!arguments
  <2>2. OrderHolds(phase, stack, prefix, current, previous, seen)
    BY DEF OnceInv, OrderInv
  <2>3. OrderHolds(phase', stack', prefix', current', previous', seen')
    BY <2>1, <2>2
  <2>4. OrderInv'
    BY <1>1, <2>1, <2>3, OrderNext DEF ArgumentsKept
  <2> QED BY <2>1, <2>4 DEF OnceInv
<1> QED BY <1>2, <1>3, <1>4 DEF Next

LEMMA GivenWanted ==
  ASSUME OnceInv, NEW q \in Given(seen)
  PROVE  q \in Cursor!Wanted /\ phase # "begin"
<1>1. OrderHolds(phase, stack, prefix, current, previous, seen)
  BY DEF OnceInv, OrderInv
<1>2. seen # <<>>
  <2>1. Given(<<>>) = {}
    BY DEF Given, Cursor!ToSet
  <2> QED BY <2>1
<1>3. phase \in {"seek", "hold", "end"}
  BY <1>1, <1>2 DEF OrderHolds
<1>4. \A s, h : GivenBy(s, h, seen) => Given(seen) \subseteq Cursor!Wanted
  BY DEF GivenBy, GivenAt
<1>5. Given(seen) \subseteq Cursor!Wanted
  BY <1>1, <1>3, <1>4 DEF OrderHolds
<1> QED BY <1>3, <1>5

\* What is wanted is in nothing that the filter excludes.
LEMMA WantedUnnamed ==
  ASSUME WalkInv, walk = "done", NEW q \in Cursor!Wanted, NEW n \in 0..Len(q)
  PROVE  ~Filter!Named(Start(q, n))
<1> SUFFICES ASSUME Filter!Named(Start(q, n)) PROVE FALSE
  OBVIOUS
<1>1. q \in Places(root) /\ q \in Seq(Nat) /\ Len(q) \in Nat /\ Len(q) <= MaxDepth /\ ~Cursor!HasExcluded(q)
  BY WantedIs, PlaceType
<1>2. excluded = ToExclude
  BY DEF WalkInv, DoneInv
<1> DEFINE S == {m \in 0..Len(q) : Filter!Named(Start(q, m))}
<1>3. PICK m \in S : \A k \in S : m <= k
  <2>1. S \in SUBSET Nat /\ S # {}
    BY <1>1
  <2> HIDE DEF S
  <2> QED BY <2>1, LeastNumber
<1> DEFINE p == Start(q, m)
<1>4. m \in 0..Len(q) /\ Filter!Named(p)
  BY <1>3
<1>5. p \in Places(root) /\ Len(p) = m /\ p \in Seq(Nat)
  BY <1>1, <1>4, PlaceStart, StartIs
<1> HIDE DEF p
<1>6. FreeAbove(p)
  <2> SUFFICES ASSUME NEW k \in 0..Len(p) - 1 PROVE ~Filter!Named(Start(p, k))
    BY DEF FreeAbove
  <2>1. k \in 0..m /\ k \in 0..Len(q) /\ k < m
    BY <1>1, <1>4, <1>5
  <2>2. Start(p, k) = Start(q, k)
    BY <1>1, <1>4, <2>1, StartOfStart DEF p
  <2>3. k \notin S
    <3> HIDE DEF S
    <3> QED BY <1>3, <1>4, <2>1
  <2> QED BY <2>1, <2>2, <2>3
<1>7. Len(p) <= MaxDepth
  BY <1>1, <1>4, <1>5, LimitsAssumption
<1>8. p \in ToExclude
  BY <1>4, <1>5, <1>6, <1>7, Zenon DEF ToExclude
<1>9. Cursor!ShouldExclude(p)
  BY <1>2, <1>8 DEF Cursor!ShouldExclude
<1> QED BY <1>1, <1>4, <1>9, Zenon DEF Cursor!HasExcluded, p, Start

LEMMA OnceMeans == ASSUME WalkInv, OnceInv PROVE EveryOneOnce
<1>1. OrderHolds(phase, stack, prefix, current, previous, seen)
  BY DEF OnceInv, OrderInv
<1>2. Cursor!EveryOneOnce
  <2> SUFFICES ASSUME phase = "end"
               PROVE  /\ Cursor!ToSet(seen) = Cursor!Wanted
                      /\ \A m, n \in DOMAIN seen : m < n => Cursor!InOrder(seen[m], seen[n])
    BY DEF Cursor!EveryOneOnce
  <2>1. Given(seen) = Cursor!Wanted /\ Sorted(seen)
    BY <1>1 DEF OrderHolds
  <2> QED BY <2>1, Zenon DEF Given, Sorted, Before
<1>3. FilteredUnseen
  <2> SUFFICES ASSUME NEW n \in DOMAIN seen,
                      NEW shorter \in {SubSeq(seen[n], 1, l) : l \in 0..Len(seen[n])}
               PROVE  ~Filter!Named(shorter)
    BY DEF FilteredUnseen
  <2>1. seen[n] \in Given(seen)
    BY DEF Given, Cursor!ToSet
  <2>2. seen[n] \in Cursor!Wanted /\ walk = "done"
    BY <2>1, GivenWanted DEF OnceInv
  <2>3. PICK l \in 0..Len(seen[n]) : shorter = Start(seen[n], l)
    BY DEF Start
  <2> QED BY <2>2, <2>3, WantedUnnamed
<1> QED BY <1>2, <1>3 DEF EveryOneOnce

\* Once the filter has been through an object, the iterator gives every value
\* or key from the end of its key path on, within the limits, exactly once and
\* in the order of the document, and nothing that the paths of the filter lead
\* to or that is in it (set_cursor_to_next_object, iterate_object), for any
\* objects, paths and limits.
THEOREM EveryOneGivenOnce ==
  ASSUME EmptyPathAlone, ShallowFromPaths PROVE Spec => []EveryOneOnce
<1>1. Init => WalkInv /\ OnceInv
  BY WalkInit, OnceInit
<1>2. WalkInv /\ OnceInv /\ [Next]_vars => WalkInv' /\ OnceInv'
  BY WalkNext, OnceNext
<1>3. WalkInv /\ OnceInv => EveryOneOnce
  BY OnceMeans
<1> QED BY <1>1, <1>2, <1>3, PTL DEF Spec
=============================================================================
