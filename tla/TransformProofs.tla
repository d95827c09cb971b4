--------------------------- MODULE TransformProofs ---------------------------
(***************************************************************************)
(* Proofs about the chain of transformers.  What the numbers and texts it  *)
(* computes are comes first, from the folds of the community modules; then *)
(* one turn of each editing loop; then the chain and the normalization.    *)
(***************************************************************************)
EXTENDS TransformedStrings, FiniteSetTheorems, WellFoundedInduction, TLAPS

-----------------------------------------------------------------------------
(* Least elements, which stand for induction *)

Smallest(s, T) == \A t \in T : t \subseteq s => t = s

\* A set of finite sets has a smallest one.
LEMMA SmallestSet ==
  ASSUME NEW S, NEW T, T \subseteq SUBSET S, T # {}, \A t \in T : IsFiniteSet(t)
  PROVE  \E s \in T : Smallest(s, T)
<1>1. T \subseteq FiniteSubsetsOf(S)
  BY DEF FiniteSubsetsOf
<1>2. PICK s \in T : \A t \in T : <<t, s>> \notin StrictSubsetOrdering(S)
  BY <1>1, FS_StrictSubsetOrderingWellFounded, WFMin, Zenon
<1>3. ASSUME NEW t \in T, t \subseteq s
      PROVE  t = s
  <2>1. <<t, s>> \notin StrictSubsetOrdering(S)
    BY <1>2
  <2> QED BY <2>1, <1>3 DEF StrictSubsetOrdering
<1> QED BY <1>3 DEF Smallest

LEMMA LeastNumber ==
  ASSUME NEW S \in SUBSET Nat, S # {}
  PROVE  \E n \in S : \A m \in S : n <= m
<1> DEFINE T == {1..n : n \in S}
<1>1. \A t \in T : IsFiniteSet(t)
  <2>1. \A n \in S : IsFiniteSet(1..n)
    BY FS_Interval
  <2> QED BY <2>1
<1>2. PICK s \in T : Smallest(s, T)
  <2>1. T \subseteq SUBSET Nat
    OBVIOUS
  <2>2. T # {}
    OBVIOUS
  <2> HIDE DEF T
  <2> QED BY <1>1, <2>1, <2>2, SmallestSet, Zenon
<1>3. PICK n \in S : s = 1..n
  OBVIOUS
<1>4. ASSUME NEW m \in S, m < n
      PROVE  FALSE
  <2>1. 1..m \in T /\ 1..m \subseteq s
    BY <1>3, <1>4
  <2>2. 1..m = 1..n
    BY <2>1, <1>2, <1>3, Zenon DEF Smallest
  <2>3. n \in 1..n /\ n \notin 1..m
    BY <1>4
  <2> QED BY <2>2, <2>3
<1> QED BY <1>4

LEMMA MinIsLeast ==
  ASSUME NEW S \in SUBSET Nat, S # {}
  PROVE  Min(S) \in S /\ \A m \in S : Min(S) <= m
BY LeastNumber DEF Min

LEMMA MaxIsGreatest ==
  ASSUME NEW n \in Nat, NEW S \in SUBSET (0..n), S # {}
  PROVE  Max(S) \in S /\ \A m \in S : Max(S) >= m
<1> DEFINE Below == {n - m : m \in S}
<1>1. PICK d \in Below : \A e \in Below : d <= e
  <2>1. \A m \in S : n - m \in Nat
    OBVIOUS
  <2>2. Below \in SUBSET Nat
    BY <2>1
  <2>3. Below # {}
    OBVIOUS
  <2> HIDE DEF Below
  <2> QED BY <2>2, <2>3, LeastNumber
<1>2. PICK x \in S : d = n - x
  OBVIOUS
<1>3. \A m \in S : x >= m
  <2> TAKE m \in S
  <2>1. n - m \in Below
    OBVIOUS
  <2>2. n - x <= n - m
    BY <2>1, <1>1, <1>2
  <2> QED BY <2>2
<1> QED BY <1>3 DEF Max

\* What holds of 0, and of a number when it holds of the one before, holds up to n.
LEMMA Counting ==
  ASSUME NEW n \in Nat, NEW T \in SUBSET (0..n), 0 \in T,
         \A i \in 1..n : i - 1 \in T => i \in T
  PROVE  T = 0..n
<1> SUFFICES ASSUME (0..n) \ T # {} PROVE FALSE
  OBVIOUS
<1>1. PICK i \in (0..n) \ T : \A j \in (0..n) \ T : i <= j
  <2>1. (0..n) \ T \in SUBSET Nat
    OBVIOUS
  <2> QED BY <2>1, LeastNumber
<1>2. i \in 1..n /\ i - 1 \notin T
  BY <1>1
<1>3. i - 1 \in 0..n /\ i - 1 < i
  BY <1>2
<1> QED BY <1>1, <1>2, <1>3

-----------------------------------------------------------------------------
(* Folds and recursive functions *)

\* Folding a sequence from the left goes through the sets 1..i.
LEMMA MaxUpTo ==
  ASSUME NEW i \in Nat, i # 0
  PROVE  Max(1..i) = i
<1> DEFINE S == 1..i
           m == Max(S)
<1>1. S \in SUBSET (0..i) /\ S # {}
  OBVIOUS
<1>2. m \in S /\ \A j \in S : m >= j
  <2> HIDE DEF S
  <2> QED BY <1>1, MaxIsGreatest
<1>3. m \in 1..i /\ m >= i
  BY <1>2
<1> HIDE DEF m
<1>4. m = i
  BY <1>3
<1> QED BY <1>4 DEF m

LEMMA UpTo ==
  ASSUME NEW n \in Nat, NEW i \in 1..n
  PROVE  /\ 1..i \in SUBSET (1..n)
         /\ Max(1..i) = i
         /\ (1..i) \ {i} = 1..(i - 1)
<1>1. Max(1..i) = i
  BY MaxUpTo
<1>2. (1..i) \ {i} = 1..(i - 1)
  OBVIOUS
<1>3. 1..i \in SUBSET (1..n)
  OBVIOUS
<1> QED BY <1>1, <1>2, <1>3

\* What a fold with the steps op computes, whatever its result is.
IsFold(f, n, base, op) ==
    f = [s \in SUBSET (1..n) |-> IF s = {} THEN base ELSE op[Max(s)][f[s \ {Max(s)}]]]

LEMMA FoldExists ==
  ASSUME NEW n \in Nat, NEW T, NEW base \in T, NEW op \in [1..n -> [T -> T]]
  PROVE  \E f \in [SUBSET (1..n) -> T] : IsFold(f, n, base, op)
<1> DEFINE Holds(m) == \E f \in [SUBSET (1..m) -> T] : IsFold(f, m, base, op)
           Good == {m \in 0..n : Holds(m)}
<1>1. 0 \in Good
  <2>1. 1..0 = {} /\ SUBSET {} = {{}}
    OBVIOUS
  <2>2. [s \in {{}} |-> base] \in [SUBSET (1..0) -> T]
    BY <2>1
  <2>3. IsFold([s \in {{}} |-> base], 0, base, op)
    BY <2>1 DEF IsFold
  <2>4. Holds(0)
    BY <2>2, <2>3
  <2> HIDE DEF Holds
  <2> QED BY <2>4
<1>2. ASSUME NEW i \in 1..n, i - 1 \in Good
      PROVE  i \in Good
  <2>1. PICK f \in [SUBSET (1..i-1) -> T] : IsFold(f, i - 1, base, op)
    BY <1>2
  <2> DEFINE g == [s \in SUBSET (1..i) |-> IF i \in s THEN op[i][f[s \ {i}]] ELSE f[s]]
  <2>2. \A s \in SUBSET (1..i) : s \ {i} \in SUBSET (1..i-1)
    OBVIOUS
  <2>3. g \in [SUBSET (1..i) -> T]
    <3>1. \A s \in SUBSET (1..i) : i \notin s => s \in SUBSET (1..i-1)
      OBVIOUS
    <3>2. \A s \in SUBSET (1..i) : (IF i \in s THEN op[i][f[s \ {i}]] ELSE f[s]) \in T
      BY <2>2, <3>1
    <3> QED BY <3>2
  <2>4. ASSUME NEW s \in SUBSET (1..i)
        PROVE  g[s] = IF s = {} THEN base ELSE op[Max(s)][g[s \ {Max(s)}]]
    <3>1. CASE i \in s
      <4>1. s \in SUBSET (0..i) /\ s # {} /\ i \in Nat
        BY <3>1
      <4>2. Max(s) \in s /\ Max(s) >= i
        BY <3>1, <4>1, MaxIsGreatest
      <4>3. Max(s) = i
        <5> DEFINE m == Max(s)
        <5>1. m \in 1..i /\ m >= i
          BY <4>2
        <5> HIDE DEF m
        <5>2. m = i
          BY <5>1
        <5> QED BY <5>2 DEF m
      <4>4. g[s] = op[i][f[s \ {i}]]
        BY <3>1
      <4>5. g[s \ {i}] = f[s \ {i}]
        OBVIOUS
      <4> QED BY <4>1, <4>3, <4>4, <4>5
    <3>2. CASE i \notin s
      <4>1. s \in SUBSET (1..i-1)
        BY <3>2
      <4>2. g[s] = f[s]
        BY <3>2
      <4>3. f[s] = IF s = {} THEN base ELSE op[Max(s)][f[s \ {Max(s)}]]
        BY <2>1, <4>1 DEF IsFold
      <4>4. g[s \ {Max(s)}] = f[s \ {Max(s)}]
        BY <3>2
      <4> QED BY <4>2, <4>3, <4>4
    <3> QED BY <3>1, <3>2
  <2>5. IsFold(g, i, base, op)
    <3> DEFINE h == [s \in SUBSET (1..i) |-> IF s = {} THEN base ELSE op[Max(s)][g[s \ {Max(s)}]]]
    <3>1. \A s \in SUBSET (1..i) : g[s] = h[s]
      <4> HIDE DEF g
      <4> QED BY <2>4
    <3>2. DOMAIN g = SUBSET (1..i) /\ DOMAIN h = SUBSET (1..i)
      OBVIOUS
    <3>3. g = h
      <4>1. g = [s \in SUBSET (1..i) |-> g[s]]
        BY <2>3
      <4>2. h = [s \in SUBSET (1..i) |-> h[s]]
        OBVIOUS
      <4> HIDE DEF g, h
      <4> QED BY <3>1, <4>1, <4>2
    <3> QED BY <3>3 DEF IsFold
  <2> HIDE DEF g
  <2> QED BY <2>3, <2>5
<1>3. Good = 0..n
  <2> HIDE DEF Holds
  <2> QED BY <1>1, <1>2, Counting
<1>4. Holds(n)
  <2> HIDE DEF Holds
  <2> QED BY <1>3
<1> QED BY <1>4

-----------------------------------------------------------------------------
(* Numbers that are read from texts *)

\* The values that reading d digit by digit goes through.
HexSteps(d, v) ==
    /\ v \in [0..Len(d) -> Nat] /\ v[0] = 0
    /\ \A i \in 1..Len(d) : v[i] = 16 * v[i - 1] + FromHex(d[i])

LEMMA FromHexType ==
  ASSUME NEW b \in Byte
  PROVE  FromHex(b) \in Nat /\ (b \in HexDigit => FromHex(b) < 16)
<1>1. b % 32 \in 0..31 /\ (b \in 65..70 => b % 32 = b - 64) /\ (b \in 97..102 => b % 32 = b - 96)
  BY DEF Byte
<1> DEFINE r == b % 32
<1> HIDE DEF r
<1>2. FromHex(b) = IF b \in Digit THEN b - 48 ELSE r + 9
  BY DEF FromHex, r
<1>3. r \in 0..31 /\ (b \in 65..70 => r = b - 64) /\ (b \in 97..102 => r = b - 96)
  BY <1>1 DEF r
<1> QED BY <1>2, <1>3 DEF HexDigit, Digit, Byte

LEMMA HexIs ==
  ASSUME NEW d \in Seq(Byte)
  PROVE  \E v : HexSteps(d, v) /\ HexValue(d) = v[Len(d)]
<1> DEFINE n == Len(d)
           Fold(f) == f = [s \in SUBSET (1..n) |->
                             IF s = {} THEN 0 ELSE 16 * f[s \ {Max(s)}] + FromHex(d[Max(s)])]
           g == CHOOSE f : Fold(f)
           v == [i \in 0..n |-> g[1..i]]
<1>1. n \in Nat /\ DOMAIN d = 1..n /\ \A i \in 1..n : d[i] \in Byte /\ FromHex(d[i]) \in Nat
  BY FromHexType
<1>2. HexValue(d) = g[1..n]
  BY <1>1 DEF HexValue, FoldLeft, MapThenFoldSet
<1> HIDE DEF n
<1>3. \E f : Fold(f)
  <2> DEFINE op == [i \in 1..n |-> [x \in Nat |-> 16 * x + FromHex(d[i])]]
  <2>1. op \in [1..n -> [Nat -> Nat]]
    BY <1>1
  <2>2. PICK f \in [SUBSET (1..n) -> Nat] : IsFold(f, n, 0, op)
    <3> HIDE DEF op
    <3> QED BY <1>1, <2>1, FoldExists
  <2>3. ASSUME NEW s \in SUBSET (1..n), s # {}
        PROVE  op[Max(s)][f[s \ {Max(s)}]] = 16 * f[s \ {Max(s)}] + FromHex(d[Max(s)])
    <3>1. Max(s) \in s
      <4>1. s \in SUBSET (0..n)
        OBVIOUS
      <4> QED BY <1>1, <2>3, <4>1, MaxIsGreatest
    <3>2. f[s \ {Max(s)}] \in Nat
      OBVIOUS
    <3> QED BY <3>1, <3>2
  <2>4. Fold(f)
    <3> HIDE DEF op
    <3> QED BY <2>2, <2>3 DEF IsFold
  <2> QED BY <2>4
<1>4. Fold(g)
  <2> HIDE DEF Fold
  <2> QED BY <1>3
<1> HIDE DEF g
<1>5. g[1..0] = 0
  <2>1. 1..0 = {}
    OBVIOUS
  <2> QED BY <1>4, <2>1
<1>6. ASSUME NEW i \in 1..n
      PROVE  g[1..i] = 16 * g[1..(i - 1)] + FromHex(d[i])
  <2>1. 1..i \in SUBSET (1..n) /\ Max(1..i) = i /\ (1..i) \ {i} = 1..(i - 1)
    BY <1>1, UpTo
  <2>2. 1..i # {}
    OBVIOUS
  <2>3. g[1..i] = 16 * g[(1..i) \ {Max(1..i)}] + FromHex(d[Max(1..i)])
    BY <1>4, <2>1, <2>2
  <2> QED BY <2>1, <2>3
<1>7. \A i \in 1..n : i - 1 \in 0..n
  BY <1>1
<1>8. \A i \in 0..n : v[i] \in Nat
  <2> DEFINE T == {i \in 0..n : v[i] \in Nat}
  <2>1. 0 \in T
    BY <1>1, <1>5
  <2>2. \A i \in 1..n : i - 1 \in T => i \in T
    BY <1>1, <1>6, <1>7
  <2>3. T = 0..n
    <3> HIDE DEF T
    <3>1. T \in SUBSET (0..n)
      BY DEF T
    <3> QED BY <1>1, <2>1, <2>2, <3>1, Counting
  <2> QED BY <2>3
<1>9. HexSteps(d, v) /\ HexValue(d) = v[n]
  <2>1. v \in [0..n -> Nat] /\ v[0] = 0 /\ v[n] = g[1..n]
    BY <1>1, <1>5, <1>8
  <2>2. \A i \in 1..n : v[i] = 16 * v[i - 1] + FromHex(d[i])
    BY <1>1, <1>6, <1>7
  <2> QED BY <1>2, <2>1, <2>2 DEF HexSteps, n
<1> QED BY <1>9 DEF n

\* What one, three and four hexadecimal digits may be worth; two are a byte.
OneDigit == 0..15
ThreeDigits == {x \in Nat : x <= 4095}
FourDigits == {x \in Nat : x <= 65535}

LEMMA SecondDigit == \A x \in OneDigit, y \in OneDigit : 16 * x + y \in Byte
BY DEF OneDigit, Byte

LEMMA ThirdDigit == \A x \in Byte, y \in OneDigit : 16 * x + y \in ThreeDigits
<1>1. \A x \in Byte : x \in Nat /\ x <= 255
  BY SMT DEF Byte
<1>2. \A y \in OneDigit : y \in Nat /\ y <= 15
  BY SMT DEF OneDigit
<1> QED BY <1>1, <1>2, SMT DEF ThreeDigits

LEMMA FourthDigit == \A x \in ThreeDigits, y \in OneDigit : 16 * x + y \in FourDigits
<1>1. \A y \in OneDigit : y \in Nat /\ y <= 15
  BY SMT DEF OneDigit
<1> QED BY <1>1, SMT DEF ThreeDigits, FourDigits

LEMMA HexValueType ==
  ASSUME NEW d \in Seq(Byte)
  PROVE  /\ HexValue(d) \in Nat
         /\ AllHex(d) /\ Len(d) = 1 => HexValue(d) \in OneDigit
         /\ AllHex(d) /\ Len(d) = 2 => HexValue(d) \in Byte
         /\ AllHex(d) /\ Len(d) = 4 => HexValue(d) \in FourDigits
<1>1. PICK v : HexSteps(d, v) /\ HexValue(d) = v[Len(d)]
  BY HexIs
<1>2. \A i \in 1..Len(d) : d[i] \in Byte /\ FromHex(d[i]) \in Nat /\ (AllHex(d) => FromHex(d[i]) < 16)
  BY FromHexType DEF AllHex
<1>3. HexValue(d) \in Nat
  BY <1>1 DEF HexSteps
<1> DEFINE h(i) == FromHex(d[i])
           w(i) == v[i]
           n == Len(d)
<1>4. w(0) = 0 /\ w(n) = HexValue(d) /\ \A i \in 1..n : w(i) = 16 * w(i - 1) + h(i)
  BY <1>1 DEF HexSteps
<1>5. ASSUME AllHex(d) PROVE \A i \in 1..n : h(i) \in OneDigit
  <2>1. \A x \in Nat : x < 16 => x \in OneDigit
    BY SMT DEF OneDigit
  <2> QED BY <1>2, <1>5, <2>1, Zenon
<1>6. n \in Nat
  OBVIOUS
<1> HIDE DEF h, w, n
<1>7. ASSUME AllHex(d), n >= 1 PROVE w(1) \in OneDigit
  <2>1. 1 \in 1..n
    BY <1>6, <1>7
  <2>2. w(1) = 16 * w(0) + h(1) /\ h(1) \in OneDigit
    BY <1>4, <1>5, <1>7, <2>1
  <2> QED BY <1>4, <2>2 DEF OneDigit
<1>8. ASSUME AllHex(d), n >= 2 PROVE w(2) \in Byte
  <2>1. 2 \in 1..n
    BY <1>6, <1>8
  <2>2. w(2) = 16 * w(1) + h(2) /\ h(2) \in OneDigit
    BY <1>4, <1>5, <1>8, <2>1
  <2>3. w(1) \in OneDigit
    BY <1>6, <1>7, <1>8
  <2> QED BY <2>2, <2>3, SecondDigit, Zenon
<1>9. ASSUME AllHex(d), n >= 4 PROVE w(4) \in FourDigits
  <2>1. 3 \in 1..n /\ 4 \in 1..n
    BY <1>6, <1>9
  <2>2. w(3) = 16 * w(2) + h(3) /\ h(3) \in OneDigit
    BY <1>4, <1>5, <1>9, <2>1
  <2>3. w(4) = 16 * w(3) + h(4) /\ h(4) \in OneDigit
    BY <1>4, <1>5, <1>9, <2>1
  <2>4. w(2) \in Byte
    BY <1>6, <1>8, <1>9
  <2>5. w(3) \in ThreeDigits
    BY <2>2, <2>4, ThirdDigit, Zenon
  <2> QED BY <2>3, <2>5, FourthDigit, Zenon
<1>10. ASSUME AllHex(d), n = 1 PROVE HexValue(d) \in OneDigit
  <2>1. n >= 1
    BY <1>10
  <2> QED BY <1>4, <1>7, <1>10, <2>1, Zenon
<1>11. ASSUME AllHex(d), n = 2 PROVE HexValue(d) \in Byte
  <2>1. n >= 2
    BY <1>11
  <2> QED BY <1>4, <1>8, <1>11, <2>1, Zenon
<1>12. ASSUME AllHex(d), n = 4 PROVE HexValue(d) \in FourDigits
  <2>1. n >= 4
    BY <1>12
  <2>2. w(4) \in FourDigits
    BY <1>9, <1>12, <2>1
  <2>3. HexValue(d) = w(4)
    BY <1>4, <1>12
  <2> QED BY <2>2, <2>3
<1> QED BY <1>3, <1>10, <1>11, <1>12, Zenon DEF n

-----------------------------------------------------------------------------
(* Codepoints *)

LEMMA BytesOf ==
  ASSUME NEW cp \in Nat
  PROVE  /\ cp <= 127 => CodepointToBytes(cp) = OneByte(cp)
         /\ cp > 127 /\ cp <= 2047 => CodepointToBytes(cp) = TwoBytes(cp)
         /\ cp > 2047 /\ cp <= 65535 => CodepointToBytes(cp) = ThreeBytes(cp)
         /\ cp > 65535 /\ cp <= MaxCodepoint => CodepointToBytes(cp) = FourBytes(cp)
         /\ cp > MaxCodepoint => CodepointToBytes(cp) = <<>>
<1>1. ASSUME cp <= 127 PROVE CodepointToBytes(cp) = OneByte(cp)
  BY <1>1, SMT DEF CodepointToBytes, MaxCodepoint
<1>2. ASSUME cp > 127, cp <= 2047 PROVE CodepointToBytes(cp) = TwoBytes(cp)
  BY <1>2, SMT DEF CodepointToBytes, MaxCodepoint
<1>3. ASSUME cp > 2047, cp <= 65535 PROVE CodepointToBytes(cp) = ThreeBytes(cp)
  BY <1>3, SMT DEF CodepointToBytes, MaxCodepoint
<1>4. ASSUME cp > 65535, cp <= MaxCodepoint PROVE CodepointToBytes(cp) = FourBytes(cp)
  BY <1>4, SMT DEF CodepointToBytes, MaxCodepoint
<1>5. ASSUME cp > MaxCodepoint PROVE CodepointToBytes(cp) = <<>>
  BY <1>5, SMT DEF CodepointToBytes, MaxCodepoint
<1> QED BY <1>1, <1>2, <1>3, <1>4, <1>5

\* How many bytes a codepoint takes.
AtMost(n, bytes) == bytes \in Seq(Byte) /\ Len(bytes) <= n

LEMMA AtMostMore ==
  ASSUME NEW m \in Nat, NEW n \in Nat, m <= n, NEW bytes, AtMost(m, bytes)
  PROVE  AtMost(n, bytes)
BY DEF AtMost

LEMMA CodepointBytes ==
  ASSUME NEW cp \in Nat
  PROVE  /\ AtMost(4, CodepointToBytes(cp))
         /\ cp <= 65535 => AtMost(3, CodepointToBytes(cp))
         /\ cp <= 2047 => AtMost(2, CodepointToBytes(cp))
         /\ cp <= 127 => AtMost(1, CodepointToBytes(cp))
<1>1. ASSUME cp <= 127 PROVE AtMost(1, CodepointToBytes(cp))
  <2>1. AtMost(1, OneByte(cp))
    BY <1>1, SMT DEF OneByte, Byte, AtMost
  <2>2. CodepointToBytes(cp) = OneByte(cp)
    BY <1>1, BytesOf
  <2> QED BY <2>1, <2>2
<1>2. ASSUME cp > 127, cp <= 2047 PROVE AtMost(2, CodepointToBytes(cp))
  <2>1. AtMost(2, TwoBytes(cp))
    BY <1>2, SMT DEF TwoBytes, Byte, AtMost
  <2>2. CodepointToBytes(cp) = TwoBytes(cp)
    BY <1>2, BytesOf
  <2> QED BY <2>1, <2>2
<1>3. ASSUME cp > 2047, cp <= 65535 PROVE AtMost(3, CodepointToBytes(cp))
  <2>1. AtMost(3, ThreeBytes(cp))
    BY <1>3, SMT DEF ThreeBytes, Byte, AtMost
  <2>2. CodepointToBytes(cp) = ThreeBytes(cp)
    BY <1>3, BytesOf
  <2> QED BY <2>1, <2>2
<1>4. ASSUME cp > 65535, cp <= MaxCodepoint PROVE AtMost(4, CodepointToBytes(cp))
  <2>1. AtMost(4, FourBytes(cp))
    BY <1>4, SMT DEF FourBytes, Byte, MaxCodepoint, AtMost
  <2>2. CodepointToBytes(cp) = FourBytes(cp)
    BY <1>4, BytesOf
  <2> QED BY <2>1, <2>2
<1>5. ASSUME cp > MaxCodepoint PROVE AtMost(4, CodepointToBytes(cp))
  <2>1. CodepointToBytes(cp) = <<>>
    BY <1>5, BytesOf
  <2> QED BY <2>1 DEF AtMost
<1>6. cp <= 2047 => AtMost(2, CodepointToBytes(cp))
  BY <1>1, <1>2, AtMostMore
<1>7. cp <= 65535 => AtMost(3, CodepointToBytes(cp))
  BY <1>3, <1>6, AtMostMore
<1>8. AtMost(4, CodepointToBytes(cp))
  BY <1>4, <1>5, <1>7, AtMostMore, SMT DEF MaxCodepoint
<1> QED BY <1>1, <1>6, <1>7, <1>8

\* What is written for a codepoint, given some room: only the mark minds it.
LEMMA WrittenBytes ==
  ASSUME NEW cp \in Nat, NEW room \in Nat
  PROVE  /\ AtMost(4, WriteCodepoint(cp, room))
         /\ room >= 4 \/ (room = 3 /\ cp <= 65535) \/ (room = 2 /\ cp <= 2047) =>
               AtMost(room, WriteCodepoint(cp, room))
<1> DEFINE out == WriteCodepoint(cp, room)
           bytes == CodepointToBytes(cp)
<1>1. AtMost(3, Replacement) /\ AtMost(0, <<>>)
  BY SMT DEF Replacement, Byte, AtMost
<1>2. (out = Replacement /\ room > 2) \/ out = <<>> \/ out = bytes
  BY DEF WriteCodepoint
<1>3. AtMost(4, bytes) /\ (cp <= 65535 => AtMost(3, bytes)) /\ (cp <= 2047 => AtMost(2, bytes))
  BY CodepointBytes
<1> HIDE DEF out, bytes
<1>4. CASE out = Replacement /\ room > 2
  <2>1. AtMost(4, out) /\ AtMost(room, out)
    BY <1>1, <1>4, AtMostMore
  <2> QED BY <2>1 DEF out
<1>5. CASE out = <<>>
  <2>1. AtMost(4, out) /\ AtMost(room, out)
    BY <1>1, <1>5, AtMostMore
  <2> QED BY <2>1 DEF out
<1>6. CASE out = bytes
  <2>1. AtMost(4, out)
    BY <1>3, <1>6
  <2>2. ASSUME room >= 4 PROVE AtMost(room, out)
    BY <2>1, <2>2, AtMostMore
  <2>3. ASSUME room = 3, cp <= 65535 PROVE AtMost(room, out)
    BY <1>3, <1>6, <2>3
  <2>4. ASSUME room = 2, cp <= 2047 PROVE AtMost(room, out)
    BY <1>3, <1>6, <2>4
  <2>5. room >= 4 \/ (room = 3 /\ cp <= 65535) \/ (room = 2 /\ cp <= 2047) => AtMost(room, out)
    BY <2>2, <2>3, <2>4
  <2> QED BY <2>1, <2>5 DEF out
<1> QED BY <1>2, <1>4, <1>5, <1>6

\* A numeric reference has a value whatever its digits are.
LEMMA SaturatingType ==
  ASSUME NEW d \in Seq(Byte), NEW base \in Nat
  PROVE  /\ Saturating(d, base) \in Nat
         /\ Len(d) = 1 => Saturating(d, base) = FromHex(d[1])
<1> DEFINE n == Len(d)
           Step(x, b) == IF x > MaxCodepoint THEN x ELSE base * x + FromHex(b)
           Fold(f) == f = [s \in SUBSET (1..n) |->
                             IF s = {} THEN 0 ELSE Step(f[s \ {Max(s)}], d[Max(s)])]
           g == CHOOSE f : Fold(f)
<1>1. n \in Nat /\ DOMAIN d = 1..n /\ \A i \in 1..n : d[i] \in Byte /\ FromHex(d[i]) \in Nat
  BY FromHexType
<1>2. Saturating(d, base) = g[1..n]
  BY <1>1 DEF Saturating, FoldLeft, MapThenFoldSet
<1> HIDE DEF n
<1>3. ASSUME NEW x \in Nat, NEW i \in 1..n
      PROVE  Step(x, d[i]) \in Nat
  <2>1. base * x \in Nat
    OBVIOUS
  <2> QED BY <1>1, <2>1
<1>4. \E f : Fold(f)
  <2> DEFINE op == [i \in 1..n |-> [x \in Nat |-> Step(x, d[i])]]
  <2> HIDE DEF Step
  <2>1. op \in [1..n -> [Nat -> Nat]]
    BY <1>3
  <2>2. PICK f \in [SUBSET (1..n) -> Nat] : IsFold(f, n, 0, op)
    <3> HIDE DEF op
    <3> QED BY <1>1, <2>1, FoldExists
  <2>3. ASSUME NEW s \in SUBSET (1..n), s # {}
        PROVE  op[Max(s)][f[s \ {Max(s)}]] = Step(f[s \ {Max(s)}], d[Max(s)])
    <3>1. Max(s) \in s
      <4>1. s \in SUBSET (0..n)
        OBVIOUS
      <4> QED BY <1>1, <2>3, <4>1, MaxIsGreatest
    <3>2. f[s \ {Max(s)}] \in Nat
      OBVIOUS
    <3> QED BY <3>1, <3>2
  <2>4. Fold(f)
    <3> HIDE DEF op
    <3> QED BY <2>2, <2>3 DEF IsFold
  <2> HIDE DEF Fold
  <2> QED BY <2>4
<1>5. Fold(g)
  <2> HIDE DEF Fold
  <2> QED BY <1>4
<1> HIDE DEF g, Step
<1>6. g[1..0] = 0
  <2>1. 1..0 = {}
    OBVIOUS
  <2> QED BY <1>5, <2>1
<1>7. ASSUME NEW i \in 1..n
      PROVE  g[1..i] = Step(g[1..(i - 1)], d[i])
  <2>1. 1..i \in SUBSET (1..n) /\ Max(1..i) = i /\ (1..i) \ {i} = 1..(i - 1)
    BY <1>1, UpTo
  <2>2. 1..i # {}
    OBVIOUS
  <2>3. g[1..i] = Step(g[(1..i) \ {Max(1..i)}], d[Max(1..i)])
    BY <1>5, <2>1, <2>2
  <2> QED BY <2>1, <2>3
<1>8. g[1..n] \in Nat
  <2> DEFINE T == {i \in 0..n : g[1..i] \in Nat}
  <2>1. 0 \in T
    BY <1>1, <1>6
  <2>2. ASSUME NEW i \in 1..n, i - 1 \in T PROVE i \in T
    <3>1. g[1..(i - 1)] \in Nat
      BY <2>2
    <3>2. Step(g[1..(i - 1)], d[i]) \in Nat
      BY <1>3, <3>1
    <3>3. g[1..i] \in Nat
      BY <1>7, <3>2
    <3> QED BY <1>1, <3>3
  <2>3. T = 0..n
    <3> HIDE DEF T
    <3>1. T \in SUBSET (0..n)
      BY DEF T
    <3> QED BY <1>1, <2>1, <2>2, <3>1, Counting
  <2> QED BY <1>1, <2>3
<1>9. ASSUME n = 1 PROVE g[1..n] = FromHex(d[1])
  <2>1. 1 \in 1..n /\ 1 - 1 = 0
    BY <1>9
  <2>2. g[1..1] = Step(0, d[1])
    BY <1>6, <1>7, <2>1
  <2>3. Step(0, d[1]) = FromHex(d[1])
    BY <1>1, <2>1 DEF Step, MaxCodepoint
  <2> QED BY <1>9, <2>2, <2>3
<1> QED BY <1>2, <1>8, <1>9 DEF n

LEMMA ByteParts ==
  \A b \in Byte : b \in Nat /\ b % 64 \in Nat /\ b % 32 \in Nat /\ b % 16 \in Nat /\ b % 8 \in Nat
BY DEF Byte

\* A sequence of bytes is a number.
LEMMA SixBitsType ==
  ASSUME NEW d \in Seq(Byte), NEW header \in Nat
  PROVE  FoldLeft(LAMBDA v, b : 64 * v + (b % 64), header, d) \in Nat
<1> DEFINE n == Len(d)
           Step(x, b) == 64 * x + (b % 64)
           Fold(f) == f = [s \in SUBSET (1..n) |->
                             IF s = {} THEN header ELSE Step(f[s \ {Max(s)}], d[Max(s)])]
           g == CHOOSE f : Fold(f)
<1>1. n \in Nat /\ DOMAIN d = 1..n /\ \A i \in 1..n : d[i] \in Byte
  OBVIOUS
<1>2. FoldLeft(LAMBDA v, b : 64 * v + (b % 64), header, d) = g[1..n]
  BY <1>1 DEF FoldLeft, MapThenFoldSet
<1> HIDE DEF n
<1>3. ASSUME NEW x \in Nat, NEW i \in 1..n
      PROVE  Step(x, d[i]) \in Nat
  <2>1. d[i] % 64 \in Nat
    BY <1>1, ByteParts, Zenon
  <2> QED BY <2>1
<1>4. \E f : Fold(f)
  <2> DEFINE op == [i \in 1..n |-> [x \in Nat |-> Step(x, d[i])]]
  <2> HIDE DEF Step
  <2>1. op \in [1..n -> [Nat -> Nat]]
    BY <1>3
  <2>2. PICK f \in [SUBSET (1..n) -> Nat] : IsFold(f, n, header, op)
    <3> HIDE DEF op
    <3> QED BY <1>1, <2>1, FoldExists
  <2>3. ASSUME NEW s \in SUBSET (1..n), s # {}
        PROVE  op[Max(s)][f[s \ {Max(s)}]] = Step(f[s \ {Max(s)}], d[Max(s)])
    <3>1. Max(s) \in s
      <4>1. s \in SUBSET (0..n)
        OBVIOUS
      <4> QED BY <1>1, <2>3, <4>1, MaxIsGreatest
    <3>2. f[s \ {Max(s)}] \in Nat
      OBVIOUS
    <3> QED BY <3>1, <3>2
  <2>4. Fold(f)
    <3> HIDE DEF op
    <3> QED BY <2>2, <2>3 DEF IsFold
  <2> HIDE DEF Fold
  <2> QED BY <2>4
<1>5. Fold(g)
  <2> HIDE DEF Fold
  <2> QED BY <1>4
<1> HIDE DEF g, Step
<1>6. g[1..0] = header
  <2>1. 1..0 = {}
    OBVIOUS
  <2> QED BY <1>5, <2>1
<1>7. ASSUME NEW i \in 1..n
      PROVE  g[1..i] = Step(g[1..(i - 1)], d[i])
  <2>1. 1..i \in SUBSET (1..n) /\ Max(1..i) = i /\ (1..i) \ {i} = 1..(i - 1)
    BY <1>1, UpTo
  <2>2. 1..i # {}
    OBVIOUS
  <2>3. g[1..i] = Step(g[(1..i) \ {Max(1..i)}], d[Max(1..i)])
    BY <1>5, <2>1, <2>2
  <2> QED BY <2>1, <2>3
<1>8. g[1..n] \in Nat
  <2> DEFINE T == {i \in 0..n : g[1..i] \in Nat}
  <2>1. 0 \in T
    BY <1>1, <1>6
  <2>2. ASSUME NEW i \in 1..n, i - 1 \in T PROVE i \in T
    <3>1. g[1..(i - 1)] \in Nat
      BY <2>2
    <3>2. Step(g[1..(i - 1)], d[i]) \in Nat
      BY <1>3, <3>1
    <3>3. g[1..i] \in Nat
      BY <1>7, <3>2
    <3> QED BY <1>1, <3>3
  <2>3. T = 0..n
    <3> HIDE DEF T
    <3>1. T \in SUBSET (0..n)
      BY DEF T
    <3> QED BY <1>1, <2>1, <2>2, <3>1, Counting
  <2> QED BY <1>1, <2>3
<1> QED BY <1>2, <1>8

LEMMA GlyphLength ==
  ASSUME NEW rest \in Seq(Byte)
  PROVE  FindNextGlyphLength(rest) \in {0, -1, 1, 2, 3, 4} /\ FindNextGlyphLength(rest) <= Len(rest)
<1>1. CASE rest = <<>>
  BY <1>1 DEF FindNextGlyphLength
<1>2. CASE rest # <<>>
  <2> DEFINE e == Announced(rest[1])
  <2>1. rest[1] \in Byte /\ Len(rest) \in Nat
    BY <1>2
  <2>2. e \in {1, 2, 3, 4, -1}
    BY DEF Announced
  <2> HIDE DEF e
  <2>3. FindNextGlyphLength(rest) \in {e, -1}
        /\ (FindNextGlyphLength(rest) # -1 => e <= Len(rest))
    BY <1>2 DEF FindNextGlyphLength, e
  <2> QED BY <2>1, <2>2, <2>3
<1> QED BY <1>1, <1>2

LEMMA FetchedType ==
  ASSUME NEW rest \in Seq(Byte)
  PROVE  /\ FetchNextCodepoint(rest).n \in Nat
         /\ FetchNextCodepoint(rest).cp \in Nat \cup {Eof, Invalid}
<1> DEFINE n == FindNextGlyphLength(rest)
           header == CASE n = 2 -> rest[1] % 32 [] n = 3 -> rest[1] % 16 [] n = 4 -> rest[1] % 8
           value == FoldLeft(LAMBDA v, b : 64 * v + (b % 64), header, SubSeq(rest, 2, n))
           fetched == FetchNextCodepoint(rest)
<1>1. n \in {0, -1, 1, 2, 3, 4} /\ n <= Len(rest)
  BY GlyphLength
<1>2. fetched = CASE n = 0 -> [cp |-> Eof, n |-> 0]
                  [] n = -1 -> [cp |-> Invalid, n |-> 1]
                  [] n = 1 -> [cp |-> rest[1], n |-> 1]
                  [] OTHER -> [cp |-> value, n |-> n]
  BY DEF FetchNextCodepoint
<1> HIDE DEF fetched
<1>3. CASE n \in {2, 3, 4}
  <2>1. rest[1] \in Byte /\ SubSeq(rest, 2, n) \in Seq(Byte)
    BY <1>1, <1>3
  <2>2. rest[1] % 32 \in Nat /\ rest[1] % 16 \in Nat /\ rest[1] % 8 \in Nat
    BY <2>1, ByteParts, Zenon
  <2>3. header \in Nat
    <3> HIDE DEF n
    <3> QED BY <1>3, <2>2
  <2>4. value \in Nat
    <3> HIDE DEF header, n
    <3> QED BY <2>1, <2>3, SixBitsType
  <2>5. fetched = [cp |-> value, n |-> n]
    <3> HIDE DEF value, n
    <3> QED BY <1>2, <1>3
  <2> HIDE DEF value, n
  <2> QED BY <1>3, <2>4, <2>5 DEF fetched
<1>4. CASE n \in {0, -1, 1}
  <2>1. n = 1 => rest[1] \in Nat
    <3>1. ASSUME n = 1 PROVE rest[1] \in Byte
      BY <1>1, <3>1
    <3> HIDE DEF n
    <3> QED BY <3>1, ByteParts, Zenon
  <2> HIDE DEF value, n
  <2> QED BY <1>2, <1>4, <2>1 DEF fetched
<1> QED BY <1>1, <1>3, <1>4

\* What is numerized is a number.
LEMMA MagnitudeType ==
  ASSUME NEW t \in Seq(Byte)
  PROVE  Magnitude(t) \in Int
<1> DEFINE d == Digits(t)
           n == Len(d)
           Step(x, b) == (10 * x + b - 48) % Wrap
           Fold(f) == f = [s \in SUBSET (1..n) |->
                             IF s = {} THEN 0 ELSE Step(f[s \ {Max(s)}], d[Max(s)])]
           g == CHOOSE f : Fold(f)
<1>0. d \in Seq(Byte)
  BY DEF Digits
<1> HIDE DEF d
<1>1. n \in Nat /\ DOMAIN d = 1..n /\ \A i \in 1..n : d[i] \in Byte
  BY <1>0
<1>2. Magnitude(t) = g[1..n]
  BY <1>1 DEF Magnitude, FoldLeft, MapThenFoldSet, d
<1> HIDE DEF n
<1>3. ASSUME NEW x \in Int, NEW i \in 1..n
      PROVE  Step(x, d[i]) \in Int
  <2> DEFINE z == 10 * x + d[i] - 48
  <2>0. d[i] \in Nat
    BY <1>1, ByteParts, Zenon
  <2>1. z \in Int
    BY <2>0
  <2>2. Wrap \in Nat /\ Wrap > 0
    BY WrapAssumption
  <2> HIDE DEF z
  <2>3. z % Wrap \in Int
    BY <2>1, <2>2
  <2> QED BY <2>3 DEF z
<1>4. \E f : Fold(f)
  <2> DEFINE op == [i \in 1..n |-> [x \in Int |-> Step(x, d[i])]]
  <2> HIDE DEF Step
  <2>1. op \in [1..n -> [Int -> Int]]
    BY <1>3
  <2>2. PICK f \in [SUBSET (1..n) -> Int] : IsFold(f, n, 0, op)
    <3>1. 0 \in Int
      OBVIOUS
    <3> HIDE DEF op
    <3> QED BY <1>1, <2>1, <3>1, FoldExists, Zenon
  <2>3. ASSUME NEW s \in SUBSET (1..n), s # {}
        PROVE  op[Max(s)][f[s \ {Max(s)}]] = Step(f[s \ {Max(s)}], d[Max(s)])
    <3>1. Max(s) \in s
      <4>1. s \in SUBSET (0..n)
        OBVIOUS
      <4> QED BY <1>1, <2>3, <4>1, MaxIsGreatest
    <3>2. f[s \ {Max(s)}] \in Int
      OBVIOUS
    <3> QED BY <3>1, <3>2
  <2>4. Fold(f)
    <3> HIDE DEF op
    <3> QED BY <2>2, <2>3 DEF IsFold
  <2> HIDE DEF Fold
  <2> QED BY <2>4
<1>5. Fold(g)
  <2> HIDE DEF Fold
  <2> QED BY <1>4
<1> HIDE DEF g, Step
<1>6. g[1..0] = 0
  <2>1. 1..0 = {}
    OBVIOUS
  <2> QED BY <1>5, <2>1
<1>7. ASSUME NEW i \in 1..n
      PROVE  g[1..i] = Step(g[1..(i - 1)], d[i])
  <2>1. 1..i \in SUBSET (1..n) /\ Max(1..i) = i /\ (1..i) \ {i} = 1..(i - 1)
    BY <1>1, UpTo
  <2>2. 1..i # {}
    OBVIOUS
  <2>3. g[1..i] = Step(g[(1..i) \ {Max(1..i)}], d[Max(1..i)])
    BY <1>5, <2>1, <2>2
  <2> QED BY <2>1, <2>3
<1>8. g[1..n] \in Int
  <2> DEFINE T == {i \in 0..n : g[1..i] \in Int}
  <2>1. 0 \in T
    BY <1>1, <1>6
  <2>2. ASSUME NEW i \in 1..n, i - 1 \in T PROVE i \in T
    <3>1. g[1..(i - 1)] \in Int
      BY <2>2
    <3>2. Step(g[1..(i - 1)], d[i]) \in Int
      BY <1>3, <3>1
    <3>3. g[1..i] \in Int
      BY <1>7, <3>2
    <3> QED BY <1>1, <3>3
  <2>3. T = 0..n
    <3> HIDE DEF T
    <3>1. T \in SUBSET (0..n)
      BY DEF T
    <3> QED BY <1>1, <2>1, <2>2, <3>1, Counting
  <2> QED BY <1>1, <2>3
<1> QED BY <1>2, <1>8

\* Sequences put one after the other: all of them, and the first of them.
Flat(s) == FlattenSeq(s)
Joined(s, n, f) == f = [i \in 1..n |-> IF i = 1 THEN s[i] ELSE f[i - 1] \o s[i]]

Associates(S) == \A a, b, c \in Seq(S) : (a \o b) \o c = a \o (b \o c)

LEMMA Joins ==
  ASSUME NEW S
  PROVE  Associates(S)
BY DEF Associates

LEMMA JoinedExists ==
  ASSUME NEW s, NEW n \in Nat
  PROVE  \E f : Joined(s, n, f)
<1> DEFINE T == {m \in 0..n : \E f : Joined(s, m, f)}
<1>1. 0 \in T
  <2> DEFINE f == [i \in 1..0 |-> s[1]]
  <2>1. \A i \in 1..0 : FALSE
    OBVIOUS
  <2>2. Joined(s, 0, f)
    BY <2>1, Zenon DEF Joined
  <2> HIDE DEF f
  <2> QED BY <2>2
<1>2. ASSUME NEW m \in 1..n, m - 1 \in T
      PROVE  m \in T
  <2>1. PICK f : Joined(s, m - 1, f)
    BY <1>2
  <2> DEFINE g == [i \in 1..m |-> IF i = m THEN (IF m = 1 THEN s[m] ELSE f[m - 1] \o s[m]) ELSE f[i]]
             h == [i \in 1..m |-> IF i = 1 THEN s[i] ELSE g[i - 1] \o s[i]]
  <2>2. ASSUME NEW i \in 1..m
        PROVE  g[i] = h[i]
    <3>1. h[i] = IF i = 1 THEN s[i] ELSE g[i - 1] \o s[i]
      OBVIOUS
    <3>2. i # 1 => i - 1 \in 1..m /\ i - 1 # m
      OBVIOUS
    <3>3. CASE i = m
      <4>1. g[i] = IF i = 1 THEN s[i] ELSE f[i - 1] \o s[i]
        BY <3>3
      <4>2. i # 1 => g[i - 1] = f[i - 1]
        BY <3>2, <3>3
      <4> HIDE DEF g, h
      <4> QED BY <3>1, <4>1, <4>2
    <3>4. CASE i # m
      <4>1. i \in 1..m - 1
        BY <3>4
      <4>2. f[i] = IF i = 1 THEN s[i] ELSE f[i - 1] \o s[i]
        BY <2>1, <4>1, Zenon DEF Joined
      <4>3. g[i] = f[i] /\ (i # 1 => g[i - 1] = f[i - 1])
        BY <3>2, <3>4
      <4> HIDE DEF g, h
      <4> QED BY <3>1, <4>2, <4>3
    <3> QED BY <3>3, <3>4
  <2>3. g = h
    <3>1. g = [i \in 1..m |-> g[i]] /\ h = [i \in 1..m |-> h[i]]
      OBVIOUS
    <3> HIDE DEF g, h
    <3> QED BY <2>2, <3>1
  <2>4. Joined(s, m, g)
    <3>1. g = h
      BY <2>3
    <3> QED BY <3>1 DEF Joined
  <2> HIDE DEF g, h
  <2> QED BY <2>4
<1>3. T = 0..n
  <2>1. T \in SUBSET (0..n)
    OBVIOUS
  <2> HIDE DEF T
  <2> QED BY <1>1, <1>2, <2>1, Counting
<1>4. n \in T
  <2> HIDE DEF T
  <2> QED BY <1>3
<1> QED BY <1>4

LEMMA FlatNothing == Flat(<<>>) = <<>>
<1>1. Len(<<>>) = 0
  OBVIOUS
<1> QED BY <1>1, Zenon DEF Flat, FlattenSeq

LEMMA FlatIs ==
  ASSUME NEW s, NEW n \in Nat, Len(s) = n, n # 0
  PROVE  \E f : Joined(s, n, f) /\ Flat(s) = f[n]
<1> DEFINE f == CHOOSE f : Joined(s, n, f)
<1>1. Joined(s, n, f)
  BY JoinedExists, Zenon
<1>2. Flat(s) = f[n]
  BY Zenon DEF Flat, FlattenSeq, Joined
<1> HIDE DEF f
<1> QED BY <1>1, <1>2

\* What is joined up to a place.
LEMMA JoinedType ==
  ASSUME NEW S, NEW s \in Seq(Seq(S)), NEW f, Joined(s, Len(s), f)
  PROVE  /\ \A i \in 1..Len(s) : f[i] = IF i = 1 THEN s[i] ELSE f[i - 1] \o s[i]
         /\ \A i \in 1..Len(s) : f[i] \in Seq(S)
<1> DEFINE n == Len(s)
           T == {i \in 0..n : i # 0 => f[i] \in Seq(S)}
<1>1. n \in Nat /\ \A i \in 1..n : s[i] \in Seq(S)
  OBVIOUS
<1>2. \A i \in 1..n : f[i] = IF i = 1 THEN s[i] ELSE f[i - 1] \o s[i]
  BY Zenon DEF Joined
<1> HIDE DEF n
<1>3. 0 \in T
  BY <1>1
<1>4. ASSUME NEW i \in 1..n, i - 1 \in T
      PROVE  i \in T
  <2> DEFINE r == f[i - 1]
             l == s[i]
  <2>1. l \in Seq(S) /\ (i # 1 => r \in Seq(S))
    <3>1. i # 1 => i - 1 # 0
      OBVIOUS
    <3> QED BY <1>1, <1>4, <3>1
  <2>2. f[i] = IF i = 1 THEN l ELSE r \o l
    BY <1>2
  <2> HIDE DEF r, l
  <2>3. f[i] \in Seq(S)
    BY <2>1, <2>2
  <2> QED BY <1>1, <2>3
<1>5. T = 0..n
  <2>1. T \in SUBSET (0..n)
    OBVIOUS
  <2> HIDE DEF T
  <2> QED BY <1>1, <1>3, <1>4, <2>1, Counting
<1>6. \A i \in 1..n : i \in T /\ i # 0
  <2> HIDE DEF T
  <2> QED BY <1>1, <1>5
<1> QED BY <1>2, <1>6 DEF n

LEMMA FlatIsTyped ==
  ASSUME NEW S, NEW s \in Seq(Seq(S))
  PROVE  Flat(s) \in Seq(S)
<1> DEFINE n == Len(s)
<1>1. n \in Nat
  OBVIOUS
<1>2. CASE n = 0
  <2>1. s = <<>> /\ <<>> \in Seq(S)
    BY <1>2
  <2> QED BY <2>1, FlatNothing
<1>3. CASE n # 0
  <2>1. PICK f : Joined(s, n, f) /\ Flat(s) = f[n]
    BY <1>1, <1>3, FlatIs
  <2>2. \A i \in 1..n : f[i] \in Seq(S)
    <3>1. Joined(s, Len(s), f)
      BY <2>1
    <3> QED BY <3>1, JoinedType, Zenon
  <2>3. n \in 1..n
    BY <1>1, <1>3
  <2> HIDE DEF n
  <2> QED BY <2>1, <2>2, <2>3
<1> QED BY <1>2, <1>3

\* One sequence more, at the end.
LEMMA FlatLast ==
  ASSUME NEW S, NEW s \in Seq(Seq(S)), NEW t \in Seq(Seq(S)), Len(t) = Len(s) + 1,
         \A i \in 1..Len(s) : t[i] = s[i]
  PROVE  Flat(t) = Flat(s) \o t[Len(t)]
<1> DEFINE n == Len(s)
<1>1. n \in Nat /\ Len(t) = n + 1 /\ t[n + 1] \in Seq(S) /\ n + 1 \in Nat /\ n + 1 # 0
  OBVIOUS
<1>2. PICK g : Joined(t, n + 1, g) /\ Flat(t) = g[n + 1]
  BY <1>1, FlatIs
<1>3. \A i \in 1..n + 1 : g[i] = IF i = 1 THEN t[i] ELSE g[i - 1] \o t[i]
  BY <1>2, Zenon DEF Joined
<1>4. CASE n = 0
  <2>1. Flat(t) = t[n + 1]
    BY <1>2, <1>3, <1>4
  <2>2. s = <<>>
    BY <1>4
  <2>3. <<>> \o t[n + 1] = t[n + 1]
    <3> DEFINE x == t[n + 1]
    <3>1. x \in Seq(S)
      BY <1>1
    <3> HIDE DEF x
    <3>2. <<>> \o x = x
      BY <3>1
    <3> QED BY <3>2 DEF x
  <2> QED BY <1>1, <2>1, <2>2, <2>3, FlatNothing
<1>5. CASE n # 0
  <2>1. PICK f : Joined(s, n, f) /\ Flat(s) = f[n]
    BY <1>1, <1>5, FlatIs
  <2>2. \A i \in 1..n : f[i] = IF i = 1 THEN s[i] ELSE f[i - 1] \o s[i]
    BY <2>1, Zenon DEF Joined
  <2> DEFINE T == {i \in 0..n : i # 0 => g[i] = f[i]}
  <2>3. 0 \in T
    BY <1>1
  <2>4. ASSUME NEW i \in 1..n, i - 1 \in T
        PROVE  i \in T
    <3>1. t[i] = s[i] /\ i \in 1..n + 1 /\ i \in 0..n /\ (i # 1 => i - 1 # 0)
      BY <1>1
    <3>2. g[i] = IF i = 1 THEN t[i] ELSE g[i - 1] \o t[i]
      BY <1>3, <3>1
    <3>3. f[i] = IF i = 1 THEN s[i] ELSE f[i - 1] \o s[i]
      BY <2>2
    <3>4. i # 1 => g[i - 1] = f[i - 1]
      BY <2>4, <3>1
    <3>5. g[i] = f[i]
      BY <3>1, <3>2, <3>3, <3>4, Zenon
    <3> QED BY <3>1, <3>5
  <2>5. T = 0..n
    <3>1. T \in SUBSET (0..n)
      OBVIOUS
    <3> HIDE DEF T, n
    <3> QED BY <1>1, <2>3, <2>4, <3>1, Counting
  <2>6. g[n] = f[n]
    <3>1. n \in T
      <4> HIDE DEF T
      <4> QED BY <1>1, <2>5
    <3> QED BY <1>5, <3>1
  <2>7. g[n + 1] = g[n] \o t[n + 1]
    <3>1. n + 1 \in 1..n + 1 /\ n + 1 # 1 /\ (n + 1) - 1 = n
      BY <1>1, <1>5
    <3> HIDE DEF n
    <3> QED BY <1>3, <3>1
  <2> QED BY <1>1, <1>2, <2>1, <2>6, <2>7
<1> QED BY <1>4, <1>5

\* One sequence more, at the beginning.
LEMMA FlatFirst ==
  ASSUME NEW S, NEW s \in Seq(Seq(S)), NEW t \in Seq(Seq(S)), Len(t) = Len(s) + 1,
         \A i \in 1..Len(s) : t[i + 1] = s[i]
  PROVE  Flat(t) = t[1] \o Flat(s)
<1> DEFINE n == Len(s)
           x == t[1]
<1>1. n \in Nat /\ Len(t) = n + 1 /\ x \in Seq(S) /\ n + 1 \in Nat /\ n + 1 # 0 /\ 1 \in 1..n + 1
  OBVIOUS
<1>2. PICK g : Joined(t, n + 1, g) /\ Flat(t) = g[n + 1]
  BY <1>1, FlatIs
<1>3. \A i \in 1..n + 1 : g[i] = IF i = 1 THEN t[i] ELSE g[i - 1] \o t[i]
  BY <1>2, Zenon DEF Joined
<1>4. g[1] = x
  BY <1>1, <1>3
<1>7. \A a, b, c \in Seq(S) : (a \o b) \o c = a \o (b \o c)
  <2>1. Associates(S)
    BY Joins, Zenon
  <2> QED BY <2>1, Zenon DEF Associates
<1>5. CASE n = 0
  <2>1. Flat(t) = x
    BY <1>2, <1>4, <1>5
  <2>2. s = <<>>
    BY <1>5
  <2>3. x \o <<>> = x
    <3> HIDE DEF x
    <3> QED BY <1>1
  <2> QED BY <1>1, <2>1, <2>2, <2>3, FlatNothing
<1>6. CASE n # 0
  <2>1. PICK f : Joined(s, n, f) /\ Flat(s) = f[n]
    BY <1>1, <1>6, FlatIs
  <2>2. /\ \A i \in 1..n : f[i] = IF i = 1 THEN s[i] ELSE f[i - 1] \o s[i]
        /\ \A i \in 1..n : f[i] \in Seq(S)
    <3>1. Joined(s, Len(s), f)
      BY <2>1
    <3> QED BY <3>1, JoinedType, Zenon
  <2> DEFINE T == {i \in 0..n : i # 0 => g[i + 1] = x \o f[i]}
  <2>3. 0 \in T
    BY <1>1
  <2>4. ASSUME NEW i \in 1..n, i - 1 \in T
        PROVE  i \in T
    <3>1. /\ t[i + 1] = s[i] /\ i + 1 \in 1..n + 1 /\ i \in 0..n /\ i + 1 # 1 /\ (i + 1) - 1 = i
          /\ (i # 1 => i - 1 # 0 /\ i - 1 \in 1..n /\ (i - 1) + 1 = i)
      <4>1. t[i + 1] = s[i]
        BY Zenon
      <4>2. n \in Nat
        BY <1>1
      <4> HIDE DEF x, n
      <4> QED BY <4>1, <4>2
    <3>2. g[i + 1] = g[i] \o s[i]
      <4> HIDE DEF x, n
      <4>1. g[i + 1] = g[(i + 1) - 1] \o t[i + 1]
        BY <1>3, <3>1
      <4> QED BY <3>1, <4>1
    <3>3. CASE i = 1
      <4>1. f[i] = s[i] /\ g[i] = x
        BY <1>4, <2>2, <3>3
      <4> QED BY <3>1, <3>2, <4>1
    <3>4. CASE i # 1
      <4>1. f[i] = f[i - 1] \o s[i] /\ f[i - 1] \in Seq(S)
        BY <2>2, <3>1, <3>4
      <4>2. g[i] = x \o f[i - 1]
        BY <2>4, <3>1, <3>4
      <4> DEFINE y == f[i - 1]
                 z == s[i]
      <4>3. x \in Seq(S) /\ y \in Seq(S) /\ z \in Seq(S)
        BY <1>1, <4>1
      <4> HIDE DEF x, y, z
      <4>4. (x \o y) \o z = x \o (y \o z)
        BY <1>7, <4>3
      <4>5. g[i + 1] = x \o f[i]
        BY <3>2, <4>1, <4>2, <4>4 DEF y, z
      <4> QED BY <3>1, <4>5
    <3> QED BY <3>3, <3>4
  <2>5. T = 0..n
    <3>1. T \in SUBSET (0..n)
      OBVIOUS
    <3> HIDE DEF T, n
    <3> QED BY <1>1, <2>3, <2>4, <3>1, Counting
  <2>6. g[n + 1] = x \o f[n]
    <3>1. n \in T
      <4> HIDE DEF T
      <4> QED BY <1>1, <2>5
    <3> QED BY <1>6, <3>1
  <2> QED BY <1>2, <2>1, <2>6
<1> QED BY <1>5, <1>6

-----------------------------------------------------------------------------
(* Places in a text *)

LEMMA FromType ==
  ASSUME NEW t \in Seq(Byte), NEW i \in Nat, i >= 1
  PROVE  /\ From(t, i) \in Seq(Byte)
         /\ i <= Len(t) => /\ Len(From(t, i)) = Len(t) - i + 1
                           /\ \A j \in 1..Len(From(t, i)) : From(t, i)[j] = t[i + j - 1]
         /\ i > Len(t) => From(t, i) = <<>>
BY DEF From

LEMMA SpanIs ==
  ASSUME NEW t \in Seq(Byte), NEW S
  PROVE  /\ Span(t, S) \in Nat /\ Span(t, S) <= Len(t)
         /\ t # <<>> /\ t[1] \in S => Span(t, S) >= 1
         /\ \A i \in 1..Span(t, S) : t[i] \in S
<1> DEFINE stops == {i \in DOMAIN t : t[i] \notin S} \cup {Len(t) + 1}
           m == Min(stops)
<1>1. Len(t) \in Nat /\ DOMAIN t = 1..Len(t)
  OBVIOUS
<1>2. stops \in SUBSET Nat /\ stops # {} /\ Len(t) + 1 \in stops
  BY <1>1
<1>3. m \in stops /\ \A i \in stops : m <= i
  <2> HIDE DEF stops
  <2> QED BY <1>2, MinIsLeast
<1>4. Span(t, S) = m - 1
  BY DEF Span
<1> HIDE DEF m
<1>5. m \in 1..Len(t) + 1
  BY <1>1, <1>3
<1>6. t # <<>> /\ t[1] \in S => m # 1
  <2>1. t # <<>> => Len(t) >= 1
    OBVIOUS
  <2> QED BY <1>1, <1>3, <2>1
<1>7. \A i \in 1..m - 1 : t[i] \in S
  <2> TAKE i \in 1..m - 1
  <2>1. i \notin stops
    BY <1>3, <1>5
  <2> QED BY <1>1, <1>5, <2>1
<1> QED BY <1>1, <1>4, <1>5, <1>6, <1>7

LEMMA FindIs ==
  ASSUME NEW t \in Seq(Byte), NEW i \in Nat, NEW bytes
  PROVE  Find(t, i, bytes) \in Nat
<1> DEFINE places == {j \in i..Len(t) : StartsWith(From(t, j), bytes)} \cup {Len(t) + 1}
<1>1. places \in SUBSET Nat /\ places # {}
  <2>1. Len(t) \in Nat
    OBVIOUS
  <2>2. i..Len(t) \in SUBSET Nat
    BY <2>1
  <2> QED BY <2>1, <2>2
<1>2. Min(places) \in places
  <2> HIDE DEF places
  <2> QED BY <1>1, MinIsLeast
<1>3. Find(t, i, bytes) = Min(places)
  BY DEF Find
<1> HIDE DEF places
<1> QED BY <1>1, <1>2, <1>3

LEMMA FirstTriggerIs ==
  ASSUME NEW t \in Seq(Byte), NEW transformer
  PROVE  FirstTrigger(transformer, t) \in Nat /\ FirstTrigger(transformer, t) <= Len(t)
<1> DEFINE places == Triggers(transformer, t) \cup {Len(t) + 1}
<1>1. Len(t) \in Nat /\ Triggers(transformer, t) \subseteq 1..Len(t)
  BY DEF Triggers
<1>2. places \in SUBSET Nat /\ places # {}
  BY <1>1
<1>3. Min(places) \in places
  <2> HIDE DEF places
  <2> QED BY <1>2, MinIsLeast
<1>4. FirstTrigger(transformer, t) = Min(places) - 1
  BY DEF FirstTrigger
<1> DEFINE m == Min(places)
<1>5. m \in 1..Len(t) + 1
  BY <1>1, <1>3
<1> HIDE DEF m
<1>6. m - 1 \in Nat /\ m - 1 <= Len(t)
  BY <1>1, <1>5
<1> QED BY <1>4, <1>6 DEF m

\* A text is not cut after its end.
LEMMA CutType ==
  ASSUME NEW t \in Seq(Byte), MaxString \in Nat
  PROVE  Cut(t) \in Seq(Byte)
<1> DEFINE c == FindStringCutoff(t, MaxString)
           places == {0} \cup {p \in 1..MaxString : t[p + 1] \notin Continuation}
<1>1. Len(t) \in Nat
  OBVIOUS
<1>2. places \in SUBSET (0..MaxString) /\ places # {}
  OBVIOUS
<1>3. Max(places) \in 0..MaxString
  <2> HIDE DEF places
  <2> QED BY <1>2, MaxIsGreatest
<1>4. c = IF Len(t) <= MaxString THEN Len(t) ELSE Max(places)
  BY DEF FindStringCutoff
<1> HIDE DEF places, c
<1>5. c \in Nat /\ c <= Len(t)
  BY <1>1, <1>3, <1>4
<1>6. SubSeq(t, 1, c) \in Seq(Byte)
  BY <1>5
<1> QED BY <1>6 DEF Cut, c

-----------------------------------------------------------------------------
(* One turn of each editing loop *)

\* A turn that does not go back writes no further than it reads.
Fits(turn, slack) ==
    turn.n \in Nat /\ turn.back = 0 /\ AtMost(slack + turn.n, turn.out)

LEMMA ReadsFits ==
  ASSUME NEW n \in Nat, NEW m \in Nat, NEW out, NEW slack \in Nat, AtMost(m, out), m <= slack + n
  PROVE  Fits(Reads(n, out), slack)
<1>1. AtMost(slack + n, out)
  BY AtMostMore
<1> QED BY <1>1 DEF Reads, Fits

LEMMA SingleByte == \A b \in Byte : AtMost(1, <<b>>)
BY DEF AtMost

LEMMA NoBytes == AtMost(0, <<>>)
BY DEF AtMost

LEMMA NotEmpty ==
  ASSUME NEW rest \in Seq(Byte), rest # <<>>
  PROVE  rest[1] \in Byte /\ Len(rest) \in Nat /\ Len(rest) >= 1
OBVIOUS

LEMMA CopiesFits ==
  ASSUME NEW rest \in Seq(Byte), rest # <<>>, NEW slack \in Nat
  PROVE  Fits(Copies(rest), slack)
<1>1. AtMost(1, <<rest[1]>>)
  BY SingleByte
<1>2. Fits(Reads(1, <<rest[1]>>), slack)
  BY <1>1, ReadsFits
<1> QED BY <1>2 DEF Copies

\* Nothing is written.
LEMMA SkipsFits ==
  ASSUME NEW n \in Nat, NEW slack \in Nat
  PROVE  Fits(Reads(n, <<>>), slack)
BY NoBytes, ReadsFits

\* A byte is written.
LEMMA WritesFits ==
  ASSUME NEW n \in Nat, n >= 1, NEW b \in Byte, NEW slack \in Nat
  PROVE  Fits(Reads(n, <<b>>), slack)
BY SingleByte, ReadsFits

LEMMA LowerByte == \A b \in Byte : b \in Upper => b + 32 \in Byte
BY DEF Byte, Upper

LEMMA LowerCaseFits ==
  ASSUME NEW rest \in Seq(Byte), rest # <<>>, NEW slack \in Nat
  PROVE  Fits(LowerCaseTurn(rest), slack)
<1> DEFINE b == IF rest[1] \in Upper THEN rest[1] + 32 ELSE rest[1]
<1>1. rest[1] \in Byte
  BY NotEmpty
<1>2. b \in Byte
  BY <1>1, LowerByte, Zenon
<1>3. Fits(Reads(1, <<b>>), slack)
  <2> HIDE DEF b
  <2> QED BY <1>2, WritesFits
<1> QED BY <1>3 DEF LowerCaseTurn

LEMMA NoNullFits ==
  ASSUME NEW rest \in Seq(Byte), rest # <<>>, NEW slack \in Nat
  PROVE  Fits(NoNullTurn(rest), slack)
<1>1. Fits(Reads(1, <<>>), slack) /\ Fits(Copies(rest), slack)
  BY SkipsFits, CopiesFits
<1> QED BY <1>1, Zenon DEF NoNullTurn

LEMMA CompressFits ==
  ASSUME NEW rest \in Seq(Byte), rest # <<>>, NEW slack \in Nat, NEW previous
  PROVE  Fits(CompressTurn(previous, rest), slack)
<1> DEFINE skipped == IF previous = 32 THEN Span(rest, {32}) ELSE 0
<1>1. skipped \in Nat /\ skipped <= Len(rest)
  BY SpanIs
<1>2. CompressTurn(previous, rest) =
        IF skipped = Len(rest) THEN Reads(skipped, <<>>)
        ELSE Reads(skipped + 1, <<rest[skipped + 1]>>)
  BY DEF CompressTurn
<1> HIDE DEF skipped
<1>3. CASE skipped = Len(rest)
  <2>1. Fits(Reads(skipped, <<>>), slack)
    BY <1>1, SkipsFits
  <2> QED BY <1>2, <1>3, <2>1
<1>4. CASE skipped # Len(rest)
  <2>1. skipped + 1 \in 1..Len(rest)
    BY <1>1, <1>4
  <2>2. rest[skipped + 1] \in Byte
    BY <2>1
  <2>3. Fits(Reads(skipped + 1, <<rest[skipped + 1]>>), slack)
    BY <1>1, <2>2, WritesFits
  <2> QED BY <1>2, <1>4, <2>3
<1> QED BY <1>3, <1>4

LEMMA TwoDigits ==
  ASSUME NEW rest \in Seq(Byte), NEW i \in Nat, i >= 1, i < Len(rest), AllHex(SubSeq(rest, i, i + 1))
  PROVE  HexValue(SubSeq(rest, i, i + 1)) \in Byte
<1> DEFINE d == SubSeq(rest, i, i + 1)
<1>1. d \in Seq(Byte) /\ Len(d) = 2
  OBVIOUS
<1> HIDE DEF d
<1>2. AllHex(d)
  BY DEF d
<1>3. HexValue(d) \in Byte
  BY <1>1, <1>2, HexValueType
<1> QED BY <1>3 DEF d

LEMMA FourDigitsValue ==
  ASSUME NEW rest \in Seq(Byte), Len(rest) > 5, AllHex(SubSeq(rest, 3, 6))
  PROVE  HexValue(SubSeq(rest, 3, 6)) \in FourDigits
<1> DEFINE d == SubSeq(rest, 3, 6)
<1>1. d \in Seq(Byte) /\ Len(d) = 4
  OBVIOUS
<1> HIDE DEF d
<1>2. AllHex(d)
  BY DEF d
<1>3. HexValue(d) \in FourDigits
  BY <1>1, <1>2, HexValueType
<1> QED BY <1>3 DEF d

LEMMA FourDigitsType == \A x \in FourDigits : x \in Nat /\ (x <= 127 => x \in Byte)
BY SMT DEF FourDigits, Byte

LEMMA SmallBytes == {5, 6, 7, 8, 9, 10, 11, 12, 13, 32, 34, 35, 38, 47, 60, 62, 160} \subseteq Byte
BY DEF Byte

LEMMA DecodeUrlFits ==
  ASSUME NEW rest \in Seq(Byte), rest # <<>>, NEW slack \in Nat, NEW iis \in BOOLEAN
  PROVE  Fits(DecodeUrlTurn(rest, iis, slack), slack)
<1> DEFINE turn == DecodeUrlTurn(rest, iis, slack)
           codepoint == HexValue(SubSeq(rest, 3, 6))
           out == IF codepoint <= 127 THEN <<codepoint>> ELSE WriteCodepoint(codepoint, slack + 6)
           pair == HexValue(SubSeq(rest, 2, 3))
<1>1. \/ turn = Reads(1, <<32>>)
      \/ UrlEscape(rest) /\ turn = Reads(3, <<pair>>)
      \/ IisEscape(rest) /\ turn = Reads(6, out)
      \/ turn = Copies(rest)
  BY DEF DecodeUrlTurn
<1> HIDE DEF turn
<1>2. CASE turn = Reads(1, <<32>>)
  <2>1. 32 \in Byte
    BY SmallBytes
  <2>2. Fits(Reads(1, <<32>>), slack)
    BY <2>1, WritesFits
  <2> QED BY <1>2, <2>2 DEF turn
<1>3. CASE UrlEscape(rest) /\ turn = Reads(3, <<pair>>)
  <2>1. Len(rest) > 2 /\ AllHex(SubSeq(rest, 2, 3))
    BY <1>3, Zenon DEF UrlEscape
  <2>2. pair \in Byte
    <3>1. 2 \in Nat /\ 2 >= 1 /\ 2 < Len(rest) /\ 2 + 1 = 3
      BY <2>1
    <3> QED BY <2>1, <3>1, TwoDigits
  <2> HIDE DEF pair
  <2>3. Fits(Reads(3, <<pair>>), slack)
    BY <2>2, WritesFits
  <2> QED BY <1>3, <2>3 DEF turn
<1>4. CASE IisEscape(rest) /\ turn = Reads(6, out)
  <2>1. Len(rest) > 5 /\ AllHex(SubSeq(rest, 3, 6))
    BY <1>4, Zenon DEF IisEscape
  <2>2. codepoint \in FourDigits
    BY <2>1, FourDigitsValue
  <2> HIDE DEF codepoint
  <2>3. codepoint \in Nat /\ (codepoint <= 127 => codepoint \in Byte)
    BY <2>2, FourDigitsType
  <2>4. AtMost(4, WriteCodepoint(codepoint, slack + 6))
    BY <2>3, WrittenBytes
  <2>5. codepoint <= 127 => AtMost(4, <<codepoint>>)
    BY <2>3, SingleByte, AtMostMore
  <2>6. AtMost(4, out)
    BY <2>4, <2>5
  <2> HIDE DEF out
  <2>7. Fits(Reads(6, out), slack)
    BY <2>6, ReadsFits
  <2> QED BY <1>4, <2>7 DEF turn
<1>5. CASE turn = Copies(rest)
  BY <1>5, CopiesFits DEF turn
<1> QED BY <1>1, <1>2, <1>3, <1>4, <1>5

LEMMA DecodeCssFits ==
  ASSUME NEW rest \in Seq(Byte), rest # <<>>, NEW slack \in Nat
  PROVE  Fits(DecodeCssTurn(rest, slack), slack)
<1> DEFINE turn == DecodeCssTurn(rest, slack)
           digits == SubSeq(rest, 2, Min({7, Len(rest)}))
           n == Span(digits, HexDigit)
           space == IF Len(rest) > n + 1 /\ rest[n + 2] \in Space THEN 1 ELSE 0
           cp == HexValue(SubSeq(rest, 2, n + 1))
           out == WriteCodepoint(cp, slack + n + 1)
<1>0. rest[1] \in Byte /\ Len(rest) \in Nat /\ Len(rest) >= 1
  BY NotEmpty
<1>1. Min({7, Len(rest)}) \in {7, Len(rest)} /\ Min({7, Len(rest)}) <= Len(rest)
  <2>1. {7, Len(rest)} \in SUBSET Nat /\ {7, Len(rest)} # {}
    BY <1>0
  <2> QED BY <2>1, MinIsLeast
<1>2. digits \in Seq(Byte) /\ Len(digits) <= Len(rest) - 1
      /\ \A i \in 1..Len(digits) : digits[i] = rest[i + 1]
  <2> DEFINE last == Min({7, Len(rest)})
  <2>1. last \in Nat /\ last >= 1 /\ last <= Len(rest)
    BY <1>0, <1>1
  <2> HIDE DEF last
  <2>2. /\ SubSeq(rest, 2, last) \in Seq(Byte) /\ Len(SubSeq(rest, 2, last)) <= Len(rest) - 1
        /\ \A i \in 1..Len(SubSeq(rest, 2, last)) : SubSeq(rest, 2, last)[i] = rest[i + 1]
    BY <1>0, <2>1
  <2> QED BY <2>2 DEF last
<1> HIDE DEF digits
<1>3. n \in Nat /\ n <= Len(digits) /\ \A i \in 1..n : digits[i] \in HexDigit
  BY <1>2, SpanIs
<1> HIDE DEF n
<1>4. n + 1 <= Len(rest)
  BY <1>0, <1>2, <1>3
<1>5. \/ turn = Copies(rest)
      \/ n > 0 /\ turn = Reads(n + 1 + space, out)
      \/ Len(rest) > 1 /\ rest[2] = 10 /\ turn = Reads(2, <<>>)
      \/ Len(rest) > 1 /\ turn = Reads(2, <<rest[2]>>)
      \/ turn = Reads(1, <<>>)
  BY DEF DecodeCssTurn, n, digits
<1> HIDE DEF turn
<1>6. CASE turn = Copies(rest)
  BY <1>6, CopiesFits DEF turn
<1>7. CASE n > 0 /\ turn = Reads(n + 1 + space, out)
  <2> DEFINE d == SubSeq(rest, 2, n + 1)
  <2>1. d \in Seq(Byte) /\ Len(d) = n /\ \A i \in 1..n : d[i] = digits[i]
    <3>1. d \in Seq(Byte) /\ Len(d) = n /\ \A i \in 1..n : d[i] = rest[i + 1]
      BY <1>0, <1>3, <1>4
    <3>2. \A i \in 1..n : i \in 1..Len(digits)
      BY <1>2, <1>3
    <3> QED BY <1>2, <3>1, <3>2
  <2>2. cp = HexValue(d)
    OBVIOUS
  <2> HIDE DEF cp, d
  <2>3. AllHex(d)
    BY <1>3, <2>1 DEF AllHex
  <2>4. cp \in Nat /\ (n = 1 => cp \in OneDigit) /\ (n = 2 => cp \in Byte)
    BY <2>1, <2>2, <2>3, HexValueType
  <2>5. (n = 1 => cp <= 2047) /\ (n = 2 => cp <= 65535)
    <3>1. \A x \in OneDigit : x <= 2047
      BY DEF OneDigit
    <3>2. \A x \in Byte : x <= 65535
      BY DEF Byte
    <3> QED BY <2>4, <3>1, <3>2
  <2> DEFINE room == slack + n + 1
  <2>6. room \in Nat /\ (room >= 4 \/ (room = 3 /\ cp <= 65535) \/ (room = 2 /\ cp <= 2047))
    <3>1. room >= 4 \/ (room = 3 /\ n \in {1, 2}) \/ (room = 2 /\ n = 1)
      BY <1>3, <1>7
    <3>2. n = 1 => cp <= 65535
      BY <2>4, <2>5
    <3> QED BY <1>3, <2>5, <3>1, <3>2
  <2> HIDE DEF room
  <2>7. AtMost(room, WriteCodepoint(cp, room))
    BY <2>4, <2>6, WrittenBytes
  <2>8. AtMost(room, out)
    BY <2>7 DEF room
  <2> DEFINE taken == n + 1 + space
  <2>9. taken \in Nat /\ room <= slack + taken
    BY <1>3 DEF room
  <2>10. turn = Reads(taken, out)
    BY <1>7
  <2> HIDE DEF out, taken
  <2>11. Fits(Reads(taken, out), slack)
    BY <2>6, <2>8, <2>9, ReadsFits
  <2> QED BY <2>10, <2>11 DEF turn
<1>8. CASE turn = Reads(2, <<>>)
  <2>1. Fits(Reads(2, <<>>), slack)
    BY SkipsFits
  <2> QED BY <1>8, <2>1 DEF turn
<1>9. CASE Len(rest) > 1 /\ turn = Reads(2, <<rest[2]>>)
  <2>1. rest[2] \in Byte
    BY <1>9
  <2>2. Fits(Reads(2, <<rest[2]>>), slack)
    BY <2>1, WritesFits
  <2> QED BY <1>9, <2>2 DEF turn
<1>10. CASE turn = Reads(1, <<>>)
  <2>1. Fits(Reads(1, <<>>), slack)
    BY SkipsFits
  <2> QED BY <1>10, <2>1 DEF turn
<1> QED BY <1>5, <1>6, <1>7, <1>8, <1>9, <1>10

LEMMA UnescapeType == \A b \in Byte : Unescape(b) \in Byte
<1> TAKE b \in Byte
<1>1. Unescape(b) \in {7, 8, 9, 10, 11, 12, 13, b}
  BY Zenon DEF Unescape
<1> QED BY <1>1, SmallBytes

LEMMA JsUnitFits ==
  ASSUME NEW rest \in Seq(Byte), JsUnit(rest), NEW slack \in Nat
  PROVE  Fits(JsUnitTurn(rest, slack), slack)
<1> DEFINE turn == JsUnitTurn(rest, slack)
           word == JsUnitValue(rest)
           next == From(rest, 7)
           low == JsUnitValue(next)
           cp == Paired(word, low)
<1>1. \A t \in Seq(Byte) : JsUnit(t) => JsUnitValue(t) \in FourDigits
  <2> TAKE t \in Seq(Byte)
  <2> HAVE JsUnit(t)
  <2>1. Len(t) > 5 /\ AllHex(SubSeq(t, 3, 6))
    BY Zenon DEF JsUnit
  <2> QED BY <2>1, FourDigitsValue DEF JsUnitValue
<1>2. next \in Seq(Byte)
  BY FromType
<1>3. word \in FourDigits /\ (JsUnit(next) => low \in FourDigits)
  BY <1>1, <1>2
<1>4. word \in Nat /\ (JsUnit(next) => low \in Nat)
  BY <1>3, FourDigitsType
<1>5. \/ turn = Reads(6, CodepointToBytes(word))
      \/ /\ word \in HighSurrogate /\ JsUnit(next) /\ low \in LowSurrogate
         /\ turn = Reads(12, CodepointToBytes(cp))
      \/ turn = Reads(6, <<>>)
      \/ turn = Reads(6, WriteCodepoint(word, slack + 6))
  BY DEF JsUnitTurn
<1> HIDE DEF turn, word, low, next
<1>6. ASSUME NEW out, AtMost(4, out), NEW n \in {6, 12}
      PROVE  Fits(Reads(n, out), slack)
  BY <1>6, ReadsFits
<1>7. CASE turn = Reads(6, CodepointToBytes(word))
  <2>1. AtMost(4, CodepointToBytes(word))
    BY <1>4, CodepointBytes
  <2> QED BY <1>6, <1>7, <2>1 DEF turn
<1>8. CASE /\ word \in HighSurrogate /\ JsUnit(next) /\ low \in LowSurrogate
           /\ turn = Reads(12, CodepointToBytes(cp))
  <2>1. cp \in Nat
    BY <1>4, <1>8, SMT DEF Paired, HighSurrogate, LowSurrogate
  <2> HIDE DEF cp
  <2>2. AtMost(4, CodepointToBytes(cp))
    BY <2>1, CodepointBytes
  <2>3. Fits(Reads(12, CodepointToBytes(cp)), slack)
    BY <1>6, <2>2
  <2> QED BY <1>8, <2>3 DEF turn
<1>9. CASE turn = Reads(6, <<>>)
  <2>1. Fits(Reads(6, <<>>), slack)
    BY SkipsFits
  <2> QED BY <1>9, <2>1 DEF turn
<1>10. CASE turn = Reads(6, WriteCodepoint(word, slack + 6))
  <2>1. AtMost(4, WriteCodepoint(word, slack + 6))
    BY <1>4, WrittenBytes
  <2> QED BY <1>6, <1>10, <2>1 DEF turn
<1> QED BY <1>5, <1>7, <1>8, <1>9, <1>10

LEMMA DecodeJsFits ==
  ASSUME NEW rest \in Seq(Byte), rest # <<>>, NEW slack \in Nat
  PROVE  Fits(DecodeJsTurn(rest, slack), slack)
<1> DEFINE turn == DecodeJsTurn(rest, slack)
           pair == HexValue(SubSeq(rest, 3, 4))
<1>0. Len(rest) \in Nat /\ Len(rest) >= 1
  BY NotEmpty
<1>1. \/ turn = Copies(rest)
      \/ Len(rest) > 3 /\ AllHex(SubSeq(rest, 3, 4)) /\ turn = Reads(4, <<pair>>)
      \/ turn = Reads(2, <<>>)
      \/ JsUnit(rest) /\ turn = JsUnitTurn(rest, slack)
      \/ Len(rest) # 1 /\ turn = Reads(2, <<Unescape(rest[2])>>)
  BY DEF DecodeJsTurn
<1> HIDE DEF turn
<1>2. CASE turn = Copies(rest)
  BY <1>2, CopiesFits DEF turn
<1>3. CASE Len(rest) > 3 /\ AllHex(SubSeq(rest, 3, 4)) /\ turn = Reads(4, <<pair>>)
  <2>1. 3 \in Nat /\ 3 >= 1 /\ 3 < Len(rest) /\ 3 + 1 = 4
    BY <1>3
  <2>2. pair \in Byte
    BY <1>3, <2>1, TwoDigits
  <2> HIDE DEF pair
  <2>3. Fits(Reads(4, <<pair>>), slack)
    BY <2>2, WritesFits
  <2> QED BY <1>3, <2>3 DEF turn
<1>4. CASE turn = Reads(2, <<>>)
  <2>1. Fits(Reads(2, <<>>), slack)
    BY SkipsFits
  <2> QED BY <1>4, <2>1 DEF turn
<1>5. CASE JsUnit(rest) /\ turn = JsUnitTurn(rest, slack)
  BY <1>5, JsUnitFits DEF turn
<1>6. CASE Len(rest) # 1 /\ turn = Reads(2, <<Unescape(rest[2])>>)
  <2>1. rest[2] \in Byte
    BY <1>0, <1>6
  <2>2. Unescape(rest[2]) \in Byte
    BY <2>1, UnescapeType
  <2>3. Fits(Reads(2, <<Unescape(rest[2])>>), slack)
    BY <2>2, WritesFits
  <2> QED BY <1>6, <2>3 DEF turn
<1> QED BY <1>1, <1>2, <1>3, <1>4, <1>5, <1>6

\* A numeric reference of HTML: the digits begin at start.
LEMMA ReferenceFits ==
  ASSUME NEW rest \in Seq(Byte), NEW start \in {3, 4}, NEW digits, NEW base \in Nat, NEW slack \in Nat,
         Len(rest) >= start, rest[start] \in digits, start = 3 => digits = Digit
  PROVE  Fits(ReferenceTurn(rest, start, digits, base, slack), slack)
<1> DEFINE tail == From(rest, start)
           span == Span(tail, digits)
           n == start - 1 + span
           semicolon == IF Len(rest) > n /\ rest[n + 1] = Semicolon THEN 1 ELSE 0
           d == SubSeq(rest, start, n)
           cp == Saturating(d, base)
           room == slack + n
<1>1. ReferenceTurn(rest, start, digits, base, slack) = Reads(n + semicolon, WriteCodepoint(cp, room))
  BY Zenon DEF ReferenceTurn
<1>2. tail \in Seq(Byte) /\ tail # <<>> /\ Len(tail) = Len(rest) - start + 1 /\ tail[1] = rest[start]
  <2>1. start \in Nat /\ start >= 1 /\ Len(rest) \in Nat
    OBVIOUS
  <2>2. /\ tail \in Seq(Byte) /\ Len(tail) = Len(rest) - start + 1
        /\ \A j \in 1..Len(tail) : tail[j] = rest[start + j - 1]
    BY <2>1, FromType
  <2>3. 1 \in 1..Len(tail) /\ start + 1 - 1 = start
    BY <2>1, <2>2
  <2> QED BY <2>2, <2>3
<1> HIDE DEF tail
<1>3. span \in Nat /\ span <= Len(tail) /\ span >= 1
  BY <1>2, SpanIs
<1> HIDE DEF span
<1>4. n \in Nat /\ n >= start /\ n <= Len(rest) /\ semicolon \in {0, 1}
  BY <1>2, <1>3
<1>5. d \in Seq(Byte) /\ (n = start => Len(d) = 1 /\ d[1] = rest[start])
  <2> HIDE DEF n
  <2> QED BY <1>4
<1> HIDE DEF n, semicolon, d
<1>6. cp \in Nat /\ (n = start => cp = FromHex(rest[start]))
  BY <1>5, SaturatingType
<1>7. n = 3 => cp <= 65535
  <2> HAVE n = 3
  <2>1. start = 3
    BY <1>4
  <2>2. rest[start] \in Digit
    BY <2>1
  <2>3. \A b \in Digit : FromHex(b) <= 65535
    BY DEF Digit, FromHex
  <2> QED BY <1>6, <2>1, <2>2, <2>3
<1> HIDE DEF cp
<1>8. room \in Nat /\ (room >= 4 \/ (room = 3 /\ cp <= 65535))
  BY <1>4, <1>7
<1>9. room <= slack + (n + semicolon) /\ n + semicolon \in Nat
  BY <1>4
<1> HIDE DEF room
<1>10. AtMost(room, WriteCodepoint(cp, room))
  BY <1>6, <1>8, WrittenBytes
<1> DEFINE out == WriteCodepoint(cp, room)
           taken == n + semicolon
<1>11. AtMost(room, out) /\ taken \in Nat /\ room <= slack + taken
  BY <1>9, <1>10
<1>12. ReferenceTurn(rest, start, digits, base, slack) = Reads(taken, out)
  BY <1>1 DEF cp, room, n, semicolon, d, span, tail
<1> HIDE DEF out, taken
<1> QED BY <1>8, <1>11, <1>12, ReadsFits

LEMMA NamedType == \A e \in Named : e.byte \in Byte /\ Len(e.name) \in Nat
<1>1. SUFFICES ASSUME NEW e \in Named PROVE e.byte \in Byte /\ Len(e.name) \in Nat
  BY Zenon
<1>2. e.byte \in {34, 38, 60, 62, 160}
  BY SMT DEF Named
<1>3. \/ e.name = <<108, 116, 59>>
      \/ e.name = <<103, 116, 59>>
      \/ e.name = <<97, 109, 112, 59>>
      \/ e.name = <<113, 117, 111, 116, 59>>
      \/ e.name = <<110, 98, 115, 112, 59>>
  BY SMT DEF Named
<1>4. e.byte \in Byte
  BY <1>2, SmallBytes
<1>5. Len(e.name) \in Nat
  <2>1. CASE e.name = <<108, 116, 59>> \/ e.name = <<103, 116, 59>>
    BY <2>1
  <2>2. CASE e.name = <<97, 109, 112, 59>>
    BY <2>2
  <2>3. CASE e.name = <<113, 117, 111, 116, 59>> \/ e.name = <<110, 98, 115, 112, 59>>
    BY <2>3
  <2> QED BY <1>3, <2>1, <2>2, <2>3
<1> QED BY <1>4, <1>5

LEMMA DecodeHtmlFits ==
  ASSUME NEW rest \in Seq(Byte), rest # <<>>, NEW slack \in Nat
  PROVE  Fits(DecodeHtmlTurn(rest, slack), slack)
<1> DEFINE turn == DecodeHtmlTurn(rest, slack)
           e == CHOOSE e \in NamedAt(rest) : TRUE
<1>1. \/ turn = Copies(rest)
      \/ HexReference(rest) /\ turn = ReferenceTurn(rest, 4, HexDigit, 16, slack)
      \/ DecReference(rest) /\ turn = ReferenceTurn(rest, 3, Digit, 10, slack)
      \/ NamedAt(rest) # {} /\ turn = Reads(Len(e.name) + 1, <<e.byte>>)
      \/ turn = Reads(2, <<Amp, Hash>>)
  BY DEF DecodeHtmlTurn
<1> HIDE DEF turn
<1>2. CASE turn = Copies(rest)
  BY <1>2, CopiesFits DEF turn
<1>3. CASE HexReference(rest) /\ turn = ReferenceTurn(rest, 4, HexDigit, 16, slack)
  <2>1. Len(rest) >= 4 /\ rest[4] \in HexDigit
    <3>1. Len(rest) > 3 /\ rest[4] \in HexDigit
      BY <1>3, Zenon DEF HexReference
    <3> QED BY <3>1
  <2>2. Fits(ReferenceTurn(rest, 4, HexDigit, 16, slack), slack)
    BY <2>1, ReferenceFits
  <2> QED BY <1>3, <2>2 DEF turn
<1>4. CASE DecReference(rest) /\ turn = ReferenceTurn(rest, 3, Digit, 10, slack)
  <2>1. Len(rest) >= 3 /\ rest[3] \in Digit
    <3>1. Len(rest) > 2 /\ rest[3] \in Digit
      BY <1>4, Zenon DEF DecReference
    <3> QED BY <3>1
  <2>2. Fits(ReferenceTurn(rest, 3, Digit, 10, slack), slack)
    BY <2>1, ReferenceFits
  <2> QED BY <1>4, <2>2 DEF turn
<1>5. CASE NamedAt(rest) # {} /\ turn = Reads(Len(e.name) + 1, <<e.byte>>)
  <2>1. e \in Named
    <3>1. NamedAt(rest) \subseteq Named
      BY Zenon DEF NamedAt
    <3> QED BY <1>5, <3>1
  <2>2. e.byte \in Byte /\ Len(e.name) + 1 \in Nat /\ Len(e.name) + 1 >= 1
    BY <2>1, NamedType
  <2> HIDE DEF e
  <2>3. Fits(Reads(Len(e.name) + 1, <<e.byte>>), slack)
    BY <2>2, WritesFits
  <2> QED BY <1>5, <2>3 DEF turn
<1>6. CASE turn = Reads(2, <<Amp, Hash>>)
  <2>1. Amp \in Byte /\ Hash \in Byte
    BY SmallBytes DEF Amp, Hash
  <2>2. AtMost(2, <<Amp, Hash>>)
    BY <2>1 DEF AtMost
  <2>3. Fits(Reads(2, <<Amp, Hash>>), slack)
    BY <2>2, ReadsFits
  <2> QED BY <1>6, <2>3 DEF turn
<1> QED BY <1>1, <1>2, <1>3, <1>4, <1>5, <1>6

LEMMA CmdLineFits ==
  ASSUME NEW rest \in Seq(Byte), rest # <<>>, NEW slack \in Nat
  PROVE  Fits(CmdLineTurn(rest), slack)
<1>1. \/ CmdLineTurn(rest) = Reads(1, <<>>)
      \/ CmdLineTurn(rest) = Reads(1, <<32>>)
      \/ CmdLineTurn(rest) = LowerCaseTurn(rest)
  BY DEF CmdLineTurn
<1>2. 32 \in Byte
  BY SmallBytes
<1>3. Fits(Reads(1, <<>>), slack) /\ Fits(Reads(1, <<32>>), slack) /\ Fits(LowerCaseTurn(rest), slack)
  BY <1>2, SkipsFits, WritesFits, LowerCaseFits
<1> QED BY <1>1, <1>3, Zenon

LEMMA RemoveCommentsFits ==
  ASSUME NEW rest \in Seq(Byte), rest # <<>>, NEW slack \in Nat
  PROVE  Fits(RemoveCommentsTurn(rest), slack)
<1> DEFINE Skip(opening, closing) ==
               Min({Len(rest), Find(rest, Len(opening) + 1, closing) + Len(closing) - 1})
           turn == RemoveCommentsTurn(rest)
<1>1. ASSUME NEW i \in Nat, NEW c \in Nat, c >= 1, NEW closing
      PROVE  Min({Len(rest), Find(rest, i, closing) + c - 1}) \in Nat
  <2> DEFINE f == Find(rest, i, closing)
  <2>1. f \in Nat
    BY FindIs
  <2> HIDE DEF f
  <2>2. {Len(rest), f + c - 1} \in SUBSET Nat /\ {Len(rest), f + c - 1} # {}
    BY <1>1, <2>1
  <2>3. Min({Len(rest), f + c - 1}) \in {Len(rest), f + c - 1}
    BY <2>2, MinIsLeast
  <2> QED BY <2>2, <2>3 DEF f
<1>2. /\ Len(HtmlComment) + 1 \in Nat /\ Len(CComment) + 1 \in Nat
      /\ Len(<<45, 45, 62>>) \in Nat /\ Len(<<45, 45, 62>>) >= 1
      /\ Len(<<Star, Slash>>) \in Nat /\ Len(<<Star, Slash>>) >= 1
  BY DEF HtmlComment, CComment
<1>3. Skip(HtmlComment, <<45, 45, 62>>) \in Nat /\ Skip(CComment, <<Star, Slash>>) \in Nat
  BY <1>1, <1>2
<1>4. \/ turn = Copies(rest)
      \/ turn = Reads(Skip(HtmlComment, <<45, 45, 62>>), <<>>)
      \/ turn = Reads(Skip(CComment, <<Star, Slash>>), <<>>)
      \/ turn = Reads(Len(rest), <<>>)
  BY DEF RemoveCommentsTurn
<1> HIDE DEF Skip, turn
<1>5. Len(rest) \in Nat
  OBVIOUS
<1>6. \A n \in Nat : Fits(Reads(n, <<>>), slack)
  BY SkipsFits
<1>7. Fits(Copies(rest), slack)
  BY CopiesFits
<1> QED BY <1>3, <1>4, <1>5, <1>6, <1>7, Zenon DEF turn

\* The one turn that goes back: it stays in the text, and behind the read head.
LEMMA NormalizeTurnIs ==
  ASSUME NEW t \in Seq(Byte), NEW r \in Nat, r < Len(t), NEW w \in Nat, w <= r,
         NEW turn, turn = NormalizeTurn(t, r + 1, SubSeq(t, 1, w))
  PROVE  /\ turn.n \in Nat /\ turn.back \in Nat /\ turn.back <= w
         /\ turn.out \in Seq(Byte) /\ w - turn.back + Len(turn.out) <= r + turn.n
<1> DEFINE written == SubSeq(t, 1, w)
           reach == Max({Len(written) - 3, 0})
           slash == Max({0} \cup {j \in 1..reach : written[j + 1] = Slash})
           rest == From(t, r + 1)
<1>1. Len(written) = w
  OBVIOUS
<1> HIDE DEF written
<1>2. reach \in 0..w
  <2>1. CASE w >= 3
    <3>1. {w - 3, 0} \in SUBSET (0..w) /\ {w - 3, 0} # {}
      BY <2>1
    <3>2. Max({w - 3, 0}) \in {w - 3, 0}
      BY <3>1, MaxIsGreatest
    <3> QED BY <1>1, <3>1, <3>2
  <2>2. CASE w < 3
    <3>1. Max({w - 3, 0}) = 0
      BY <2>2 DEF Max
    <3> QED BY <1>1, <3>1
  <2> QED BY <2>1, <2>2
<1> HIDE DEF reach
<1>3. slash \in 0..w
  <2> DEFINE S == {0} \cup {j \in 1..reach : written[j + 1] = Slash}
  <2>1. S \in SUBSET (0..w) /\ S # {}
    BY <1>2
  <2>2. Max(S) \in S
    <3> HIDE DEF S
    <3> QED BY <2>1, MaxIsGreatest
  <2> QED BY <2>1, <2>2
<1>4. \/ turn = Reads(2, <<>>)
      \/ turn = [n |-> 2, back |-> Len(written) - slash, out |-> <<Slash>>]
      \/ turn = Copies(rest)
  <2>1. turn = CASE SelfDot(t, r + 1) -> Reads(2, <<>>)
                 [] ParentDot(t, r + 1) -> [n |-> 2, back |-> Len(written) - slash, out |-> <<Slash>>]
                 [] OTHER -> Copies(rest)
    BY Zenon DEF NormalizeTurn, written, reach
  <2> HIDE DEF slash, rest
  <2> QED BY <2>1
<1> HIDE DEF slash
<1>5. CASE turn = [n |-> 2, back |-> Len(written) - slash, out |-> <<Slash>>]
  <2>1. turn.n = 2 /\ turn.back = w - slash /\ turn.out = <<Slash>>
    BY <1>1, <1>5
  <2>2. Slash \in Byte
    BY SmallBytes DEF Slash
  <2>3. turn.out \in Seq(Byte) /\ Len(turn.out) = 1
    <3>1. <<Slash>> \in Seq(Byte) /\ Len(<<Slash>>) = 1
      BY <2>2
    <3> QED BY <2>1, <3>1, Zenon
  <2> DEFINE back == turn.back
             len == Len(turn.out)
  <2>4. back = w - slash /\ len = 1
    BY <2>1, <2>3
  <2> HIDE DEF back, len
  <2>5. back \in Nat /\ back <= w /\ w - back + len <= r + 2
    BY <1>3, <2>4
  <2> QED BY <2>1, <2>3, <2>5 DEF back, len
<1>6. CASE turn = Reads(2, <<>>) \/ turn = Copies(rest)
  <2>1. rest \in Seq(Byte) /\ rest # <<>>
    <3>1. r + 1 \in Nat /\ r + 1 >= 1 /\ r + 1 <= Len(t)
      OBVIOUS
    <3>2. rest \in Seq(Byte) /\ Len(rest) = Len(t) - (r + 1) + 1
      BY <3>1, FromType
    <3> QED BY <3>1, <3>2
  <2> HIDE DEF rest
  <2>2. Fits(turn, 0)
    BY <1>6, <2>1, SkipsFits, CopiesFits
  <2> QED BY <2>2 DEF Fits, AtMost
<1> QED BY <1>4, <1>5, <1>6

LEMMA Base64ValueType == \A b \in Base64Byte : Base64Value(b) \in 0..63
BY DEF Base64Byte, Base64Value, Alnum, Digit, Upper, Plus, Slash

\* The bytes of four values of six bits.
LEMMA SixBitBytes ==
  ASSUME NEW x \in 0..63, NEW y \in 0..63
  PROVE  /\ 4 * x + (y \div 16) \in Byte
         /\ (16 * x + (y \div 4)) % 256 \in Byte
         /\ (64 * x + y) % 256 \in Byte
<1>1. y \div 16 \in 0..3 /\ y \div 4 \in Nat
  OBVIOUS
<1> DEFINE q == y \div 16
           p == y \div 4
<1> HIDE DEF q, p
<1>2. q \in 0..3 /\ p \in Nat
  BY <1>1 DEF q, p
<1>3. 4 * x + q \in Byte
  BY <1>2 DEF Byte
<1>4. (16 * x + p) % 256 \in Byte /\ (64 * x + y) % 256 \in Byte
  BY <1>2 DEF Byte
<1> QED BY <1>3, <1>4 DEF q, p

\* Where the element of some rank is, in a set of places.
Ranked(valid, rank) == {i \in valid : Cardinality({j \in valid : j <= i}) = rank}

LEMMA RankedIs ==
  ASSUME NEW n \in Nat, NEW valid \in SUBSET (1..n)
  PROVE  /\ Cardinality(valid) \in Nat /\ Cardinality(valid) <= n
         /\ \A rank \in Nat : \A i \in Ranked(valid, rank) : i >= rank
         /\ \A rank \in 1..Cardinality(valid) : Ranked(valid, rank) # {}
<1> DEFINE Upto(i) == {j \in valid : j <= i}
           c(i) == Cardinality(Upto(i))
<1>0. \A j \in valid : j \in Nat /\ 1 <= j /\ j <= n
  OBVIOUS
<1>1. IsFiniteSet(1..n) /\ Cardinality(1..n) = n
  BY FS_Interval
<1>2. IsFiniteSet(valid) /\ Cardinality(valid) \in Nat /\ Cardinality(valid) <= n
  <2>1. valid \subseteq 1..n
    OBVIOUS
  <2>2. IsFiniteSet(valid) /\ Cardinality(valid) <= n
    BY <1>1, <2>1, FS_Subset
  <2> QED BY <2>2, FS_CardinalityType
<1>3. \A i \in Nat : IsFiniteSet(Upto(i)) /\ c(i) \in Nat
  <2> TAKE i \in Nat
  <2>1. Upto(i) \subseteq valid
    OBVIOUS
  <2>2. IsFiniteSet(Upto(i))
    BY <1>2, <2>1, FS_Subset
  <2> QED BY <2>2, FS_CardinalityType
<1>4. ASSUME NEW i \in Nat PROVE c(i) <= i
  <2>1. IsFiniteSet(1..i) /\ Cardinality(1..i) = i
    BY FS_Interval
  <2>2. Upto(i) \subseteq 1..i
    <3> SUFFICES ASSUME NEW j \in Upto(i) PROVE j \in 1..i
      OBVIOUS
    <3>1. j \in valid /\ j <= i
      OBVIOUS
    <3>2. j \in Nat /\ 1 <= j
      BY <1>0, <3>1
    <3> QED BY <3>1, <3>2
  <2>3. c(i) <= Cardinality(1..i)
    <3> HIDE DEF Upto
    <3> QED BY <2>1, <2>2, FS_Subset
  <2> QED BY <2>1, <2>3
<1>5. ASSUME NEW rank \in Nat, NEW i \in Ranked(valid, rank) PROVE i >= rank
  <2>1. i \in valid /\ c(i) = rank
    BY DEF Ranked
  <2>2. i \in Nat
    BY <1>0, <2>1
  <2> HIDE DEF c
  <2> QED BY <1>4, <2>1, <2>2
<1>6. \A i, j : j \in Upto(i) <=> j \in valid /\ j <= i
  OBVIOUS
<1>7. \A i : i \in valid => i \in Ranked(valid, c(i))
  BY DEF Ranked
<1>8. ASSUME NEW rank \in 1..Cardinality(valid) PROVE Ranked(valid, rank) # {}
  <2> DEFINE Reached == {i \in 0..n : c(i) >= rank}
  <2>1. n \in Reached
    <3>1. Upto(n) = valid
      <4> HIDE DEF Upto
      <4> QED BY <1>0, <1>6
    <3>2. c(n) = Cardinality(valid)
      BY <3>1
    <3> HIDE DEF c
    <3> QED BY <3>2, <1>2
  <2>2. PICK i \in Reached : \A j \in Reached : i <= j
    <3>1. Reached \in SUBSET Nat /\ Reached # {}
      <4>1. Reached \subseteq 0..n
        BY Zenon
      <4>2. 0..n \subseteq Nat
        OBVIOUS
      <4> HIDE DEF Reached
      <4> QED BY <4>1, <4>2, <2>1, Zenon
    <3> HIDE DEF Reached
    <3> QED BY <3>1, LeastNumber
  <2>3. c(0) = 0
    <3>1. Upto(0) = {}
      <4> SUFFICES ASSUME NEW j \in Upto(0) PROVE FALSE
        OBVIOUS
      <4>1. j \in valid /\ j <= 0
        OBVIOUS
      <4> QED BY <1>0, <4>1
    <3> HIDE DEF Upto
    <3> QED BY <3>1, FS_EmptySet
  <2> HIDE DEF c
  <2>4. i # 0
    BY <2>2, <2>3
  <2>5. i \in 1..n /\ i - 1 \in 0..n /\ c(i) >= rank
    BY <2>2, <2>4
  <2> DEFINE prior == i - 1
  <2>6. prior \in Nat /\ prior \in 0..n /\ prior < i /\ i \in Nat /\ rank \in Nat
        /\ \A j \in Nat : j <= i <=> (j <= prior \/ j = i)
    BY <2>5
  <2> HIDE DEF prior
  <2>7. ~(c(prior) >= rank)
    <3>1. prior \notin Reached
      BY <2>2, <2>6
    <3> QED BY <2>6, <3>1
  <2>8. c(i) \in Nat /\ c(prior) \in Nat /\ IsFiniteSet(Upto(prior))
    <3> HIDE DEF Upto
    <3> QED BY <1>3, <2>6
  <2>9. i \in valid /\ c(i) = c(prior) + 1
    <3> HIDE DEF Upto
    <3>1. CASE i \in valid
      <4>1. Upto(i) = Upto(prior) \cup {i} /\ i \notin Upto(prior)
        <5>1. \A j : j \in Upto(i) <=> j \in Upto(prior) \cup {i}
          <6> TAKE j
          <6>1. CASE j \in valid
            BY <1>0, <1>6, <2>6, <3>1, <6>1
          <6>2. CASE j \notin valid
            BY <1>6, <3>1, <6>2
          <6> QED BY <6>1, <6>2
        <5>2. i \notin Upto(prior)
          BY <1>6, <2>6
        <5> QED BY <5>1, <5>2
      <4>2. Cardinality(Upto(prior) \cup {i}) = Cardinality(Upto(prior)) + 1
        BY <4>1, <2>8, FS_AddElement
      <4> QED BY <3>1, <4>1, <4>2 DEF c
    <3>2. CASE i \notin valid
      <4>1. Upto(i) = Upto(prior)
        BY <1>0, <1>6, <2>6, <3>2
      <4>2. c(i) = c(prior)
        BY <4>1 DEF c
      <4> QED BY <2>5, <2>7, <4>2
    <3> QED BY <3>1, <3>2
  <2>10. c(i) = rank
    BY <2>5, <2>6, <2>7, <2>8, <2>9
  <2>11. i \in Ranked(valid, rank)
    BY <1>7, <2>9, <2>10
  <2> QED BY <2>11
<1> QED BY <1>2, <1>5, <1>8

LEMMA DecodeBase64Fits ==
  ASSUME NEW rest \in Seq(Byte), rest # <<>>, NEW slack \in Nat
  PROVE  Fits(DecodeBase64Turn(rest), slack)
<1> DEFINE valid == {i \in DOMAIN rest : rest[i] \in Base64Byte}
           n == Min(Ranked(valid, 4) \cup {Len(rest)})
           pos == Min({4, Cardinality(valid)})
           Bits(j) == IF j <= pos THEN Base64Value(rest[Min(Ranked(valid, j))]) ELSE 0
           b1 == 4 * Bits(1) + (Bits(2) \div 16)
           b2 == (16 * Bits(2) + (Bits(3) \div 4)) % 256
           b3 == (64 * Bits(3) + Bits(4)) % 256
           rest2 == IF pos > 1 /\ (b2 # 0 \/ b3 # 0) THEN <<b2>> ELSE <<>>
           rest3 == IF pos > 2 /\ b3 # 0 THEN <<b3>> ELSE <<>>
           out == CASE pos = 4 -> <<b1, b2, b3>>
                    [] pos = 0 -> <<>>
                    [] OTHER -> <<b1>> \o rest2 \o rest3
<1>1. DecodeBase64Turn(rest) = Reads(n, out)
  <2> DEFINE bytes == <<b1, b2, b3>>
             o2 == IF pos > 1 /\ (bytes[2] # 0 \/ bytes[3] # 0) THEN <<bytes[2]>> ELSE <<>>
             o3 == IF pos > 2 /\ bytes[3] # 0 THEN <<bytes[3]>> ELSE <<>>
             o == CASE pos = 4 -> bytes [] pos = 0 -> <<>> [] OTHER -> <<bytes[1]>> \o o2 \o o3
  <2>1. DecodeBase64Turn(rest) = Reads(n, o)
    BY Zenon DEF DecodeBase64Turn, Ranked
  <2>2. bytes[1] = b1 /\ bytes[2] = b2 /\ bytes[3] = b3
    <3> HIDE DEF b1, b2, b3
    <3> QED OBVIOUS
  <2> HIDE DEF b1, b2, b3, pos
  <2>3. o = out
    BY <2>2, Zenon
  <2> HIDE DEF o, out
  <2> QED BY <2>1, <2>3
<1>2. Len(rest) \in Nat /\ Len(rest) >= 1 /\ valid \in SUBSET (1..Len(rest))
  OBVIOUS
<1>3. \A i \in valid : rest[i] \in Base64Byte
  OBVIOUS
<1> HIDE DEF valid
<1>4. /\ Cardinality(valid) \in Nat /\ Cardinality(valid) <= Len(rest)
      /\ \A i \in Ranked(valid, 4) : i >= 4
      /\ \A j \in 1..Cardinality(valid) : Ranked(valid, j) # {}
  BY <1>2, RankedIs
<1>5. \A j \in Nat : Ranked(valid, j) \subseteq valid
  BY DEF Ranked
<1>6. pos \in Nat /\ pos <= 4 /\ pos <= Cardinality(valid)
  <2>1. {4, Cardinality(valid)} \in SUBSET Nat /\ {4, Cardinality(valid)} # {}
    BY <1>4
  <2>2. pos \in {4, Cardinality(valid)} /\ \A i \in {4, Cardinality(valid)} : pos <= i
    <3> DEFINE S == {4, Cardinality(valid)}
    <3> HIDE DEF S
    <3>1. Min(S) \in S /\ \A i \in S : Min(S) <= i
      BY <2>1, MinIsLeast DEF S
    <3> QED BY <3>1 DEF S
  <2> QED BY <1>4, <2>1, <2>2
<1>7. n \in Nat /\ (n >= 4 \/ n = Len(rest))
  <2> DEFINE S == Ranked(valid, 4) \cup {Len(rest)}
  <2>1. S \in SUBSET Nat /\ S # {}
    <3>1. Ranked(valid, 4) \subseteq valid
      BY <1>5
    <3>2. valid \subseteq Nat
      BY <1>2
    <3> QED BY <1>2, <3>1, <3>2
  <2>2. Min(S) \in S
    <3> HIDE DEF S
    <3> QED BY <2>1, MinIsLeast
  <2> QED BY <1>4, <2>1, <2>2
<1>8. ASSUME NEW j \in 1..4 PROVE Bits(j) \in 0..63
  <2>1. CASE j <= pos
    <3> DEFINE R == Ranked(valid, j)
    <3>1. R # {} /\ R \in SUBSET Nat /\ R \subseteq valid
      <4>1. j \in 1..Cardinality(valid)
        BY <1>4, <1>6, <2>1
      <4>2. R \subseteq valid /\ R # {}
        BY <1>4, <1>5, <4>1
      <4>3. valid \subseteq Nat
        BY <1>2
      <4> HIDE DEF R
      <4> QED BY <4>2, <4>3
    <3>2. Min(R) \in valid
      <4> HIDE DEF R
      <4> QED BY <3>1, MinIsLeast
    <3>3. Base64Value(rest[Min(R)]) \in 0..63
      <4> HIDE DEF R
      <4> QED BY <1>3, <3>2, Base64ValueType
    <3> HIDE DEF pos
    <3> QED BY <2>1, <3>3
  <2>2. CASE ~(j <= pos)
    BY <2>2
  <2> QED BY <2>1, <2>2
<1> HIDE DEF Bits, n, pos
<1>9. b1 \in Byte /\ b2 \in Byte /\ b3 \in Byte
  <2>1. Bits(1) \in 0..63 /\ Bits(2) \in 0..63 /\ Bits(3) \in 0..63 /\ Bits(4) \in 0..63
    <3>1. 1 \in 1..4 /\ 2 \in 1..4 /\ 3 \in 1..4 /\ 4 \in 1..4
      OBVIOUS
    <3> QED BY <1>8, <3>1, Zenon
  <2>2. b1 \in Byte
    BY <2>1, SixBitBytes, Zenon
  <2>3. b2 \in Byte
    BY <2>1, SixBitBytes, Zenon
  <2>4. b3 \in Byte
    BY <2>1, SixBitBytes, Zenon
  <2> QED BY <2>2, <2>3, <2>4
<1> HIDE DEF b1, b2, b3
<1>10. out \in Seq(Byte) /\ Len(out) <= (IF pos = 4 THEN 3 ELSE pos)
  <2>1. CASE pos = 4
    BY <1>9, <2>1
  <2>2. CASE pos = 0
    BY <2>2
  <2>3. CASE pos \notin {0, 4}
    <3>1. /\ rest2 \in Seq(Byte) /\ Len(rest2) <= 1 /\ (pos = 1 => Len(rest2) = 0)
          /\ rest3 \in Seq(Byte) /\ Len(rest3) <= 1 /\ (pos <= 2 => Len(rest3) = 0)
      BY <1>6, <1>9
    <3> HIDE DEF rest2, rest3
    <3>2. <<b1>> \o rest2 \o rest3 \in Seq(Byte)
          /\ Len(<<b1>> \o rest2 \o rest3) = 1 + Len(rest2) + Len(rest3)
      BY <1>9, <3>1
    <3>3. out = <<b1>> \o rest2 \o rest3
      BY <2>3
    <3>4. Len(rest2) \in Nat /\ Len(rest3) \in Nat
      BY <3>1
    <3>5. 1 + Len(rest2) + Len(rest3) <= pos
      BY <1>6, <2>3, <3>1, <3>4
    <3> HIDE DEF out
    <3> QED BY <2>3, <3>2, <3>3, <3>5
  <2> QED BY <2>1, <2>2, <2>3
<1> HIDE DEF out
<1>11. (IF pos = 4 THEN 3 ELSE pos) <= n
  BY <1>2, <1>4, <1>6, <1>7
<1>12. AtMost(IF pos = 4 THEN 3 ELSE pos, out)
  BY <1>10 DEF AtMost
<1>13. Fits(Reads(n, out), slack)
  BY <1>6, <1>7, <1>11, <1>12, ReadsFits
<1> QED BY <1>1, <1>13

-----------------------------------------------------------------------------
(* The editing loops *)

\* The transformers that are a loop over the text.
Looping ==
    {"lowercase", "removeNulls", "compressWhiteSpace", "normalizePath", "normalizePathWin",
     "urlDecode", "urlDecodeUni", "cssDecode", "jsDecode", "htmlEntityDecode", "base64Decode",
     "base64DecodeExt", "cmdLine", "removeComments"}

\* A turn whose write head stays behind the read head.
Steady(turn) ==
    /\ turn.n \in Nat /\ turn.back \in Nat /\ turn.back <= write
    /\ turn.out \in Seq(Byte) /\ write - turn.back + Len(turn.out) <= read + turn.n

LEMMA FitsIsSteady ==
  ASSUME NEW turn, read \in Nat, write \in Nat, write <= read, Fits(turn, read - write)
  PROVE  Steady(turn)
<1> DEFINE n == turn.n
           len == Len(turn.out)
<1>1. n \in Nat /\ turn.back = 0 /\ turn.out \in Seq(Byte) /\ len <= read - write + n
  BY DEF Fits, AtMost
<1>2. len \in Nat
  BY <1>1
<1> HIDE DEF n, len
<1>3. 0 <= write /\ write - 0 + len <= read + n
  BY <1>1, <1>2
<1> QED BY <1>1, <1>3 DEF Steady, n, len

LEMMA TurnIsSteady ==
  ASSUME NEW buffer \in Seq(Byte), read \in Nat, write \in Nat, write <= read, read < Len(buffer),
         NEW transformer \in Looping
  PROVE  Steady(Turn(transformer, buffer))
<1> DEFINE rest == From(buffer, read + 1)
           slack == read - write
           turn == Turn(transformer, buffer)
<1>1. rest \in Seq(Byte) /\ rest # <<>> /\ slack \in Nat
  <2>1. read + 1 \in Nat /\ read + 1 >= 1 /\ read + 1 <= Len(buffer)
    OBVIOUS
  <2>2. rest \in Seq(Byte) /\ Len(rest) = Len(buffer) - (read + 1) + 1
    BY <2>1, FromType
  <2> HIDE DEF rest
  <2> QED BY <2>1, <2>2
<1>2. \/ transformer = "lowercase" /\ turn = LowerCaseTurn(rest)
      \/ transformer = "removeNulls" /\ turn = NoNullTurn(rest)
      \/ transformer = "compressWhiteSpace" /\ turn = CompressTurn(buffer[read], rest)
      \/ turn = NormalizeTurn(buffer, read + 1, SubSeq(buffer, 1, write))
      \/ turn = DecodeUrlTurn(rest, FALSE, slack)
      \/ turn = DecodeUrlTurn(rest, TRUE, slack)
      \/ turn = DecodeCssTurn(rest, slack)
      \/ turn = DecodeJsTurn(rest, slack)
      \/ turn = DecodeHtmlTurn(rest, slack)
      \/ turn = DecodeBase64Turn(rest)
      \/ turn = CmdLineTurn(rest)
      \/ turn = RemoveCommentsTurn(rest)
  <2> HIDE DEF rest, slack
  <2>1. turn = CASE transformer = "lowercase" -> LowerCaseTurn(rest)
         [] transformer = "removeNulls" -> NoNullTurn(rest)
         [] transformer = "compressWhiteSpace" -> CompressTurn(buffer[read], rest)
         [] transformer \in {"normalizePath", "normalizePathWin"} ->
               NormalizeTurn(buffer, read + 1, SubSeq(buffer, 1, write))
         [] transformer = "urlDecode" -> DecodeUrlTurn(rest, FALSE, slack)
         [] transformer = "urlDecodeUni" -> DecodeUrlTurn(rest, TRUE, slack)
         [] transformer = "cssDecode" -> DecodeCssTurn(rest, slack)
         [] transformer = "jsDecode" -> DecodeJsTurn(rest, slack)
         [] transformer = "htmlEntityDecode" -> DecodeHtmlTurn(rest, slack)
         [] transformer \in {"base64Decode", "base64DecodeExt"} -> DecodeBase64Turn(rest)
         [] transformer = "cmdLine" -> CmdLineTurn(rest)
         [] transformer = "removeComments" -> RemoveCommentsTurn(rest)
    BY Zenon DEF Turn, rest, slack
  <2> HIDE DEF turn
  <2> QED BY <2>1 DEF Looping
<1> HIDE DEF rest, slack, turn
<1>3. CASE turn = NormalizeTurn(buffer, read + 1, SubSeq(buffer, 1, write))
  <2>1. /\ turn.n \in Nat /\ turn.back \in Nat /\ turn.back <= write
        /\ turn.out \in Seq(Byte) /\ write - turn.back + Len(turn.out) <= read + turn.n
    BY <1>3, NormalizeTurnIs
  <2> QED BY <2>1 DEF Steady, turn
<1>4. ASSUME Fits(turn, slack) PROVE Steady(turn)
  BY <1>4, FitsIsSteady DEF slack
<1>5. Fits(LowerCaseTurn(rest), slack) /\ Fits(NoNullTurn(rest), slack)
      /\ Fits(CompressTurn(buffer[read], rest), slack)
  BY <1>1, LowerCaseFits, NoNullFits, CompressFits
<1>6. Fits(DecodeUrlTurn(rest, FALSE, slack), slack) /\ Fits(DecodeUrlTurn(rest, TRUE, slack), slack)
  BY <1>1, DecodeUrlFits
<1>7. Fits(DecodeCssTurn(rest, slack), slack) /\ Fits(DecodeJsTurn(rest, slack), slack)
      /\ Fits(DecodeHtmlTurn(rest, slack), slack)
  BY <1>1, DecodeCssFits, DecodeJsFits, DecodeHtmlFits
<1>8. Fits(DecodeBase64Turn(rest), slack) /\ Fits(CmdLineTurn(rest), slack)
      /\ Fits(RemoveCommentsTurn(rest), slack)
  BY <1>1, DecodeBase64Fits, CmdLineFits, RemoveCommentsFits
<1> QED BY <1>2, <1>3, <1>4, <1>5, <1>6, <1>7, <1>8, Zenon DEF turn

\* What a turn does to the buffer.
LEMMA WrittenIs ==
  ASSUME NEW buffer \in Seq(Byte), read \in Nat, write \in Nat, write <= read, NEW turn, Steady(turn)
  PROVE  /\ Written(buffer, turn) \in Seq(Byte)
         /\ Len(Written(buffer, turn)) = Len(buffer)
         /\ \A i \in read + turn.n + 1..Len(buffer) : Written(buffer, turn)[i] = buffer[i]
<1> DEFINE n == turn.n
           out == turn.out
           len == Len(out)
           start == write - turn.back
           size == Len(buffer)
           w == Written(buffer, turn)
<1>1. n \in Nat /\ out \in Seq(Byte) /\ len \in Nat /\ start \in Nat /\ start + len <= read + n
  BY DEF Steady
<1>2. w = [i \in 1..size |-> IF i \in start + 1..start + len THEN out[i - start] ELSE buffer[i]]
  BY DEF Written
<1>3. \A i \in 1..len : out[i] \in Byte
  BY <1>1
<1>4. size \in Nat /\ \A i \in 1..size : buffer[i] \in Byte
  OBVIOUS
<1> HIDE DEF n, out, len, start, size, w
<1>5. ASSUME NEW i \in 1..size
      PROVE  (IF i \in start + 1..start + len THEN out[i - start] ELSE buffer[i]) \in Byte
  <2>1. CASE i \in start + 1..start + len
    <3>1. i - start \in 1..len
      BY <1>1, <2>1
    <3> QED BY <1>3, <2>1, <3>1
  <2>2. CASE i \notin start + 1..start + len
    BY <1>4, <2>2
  <2> QED BY <2>1, <2>2
<1>6. w \in [1..size -> Byte]
  BY <1>2, <1>5
<1>7. w \in Seq(Byte) /\ Len(w) = size
  BY <1>4, <1>6
<1>8. ASSUME NEW i \in read + n + 1..size PROVE w[i] = buffer[i]
  <2>1. i \in 1..size /\ i \notin start + 1..start + len
    BY <1>1, <1>4
  <2> QED BY <1>2, <2>1
<1> QED BY <1>7, <1>8 DEF w, size, n

\* The loop goes on as it began.
LEMMA HeadsMove ==
  ASSUME NEW buffer \in Seq(Byte), read \in Nat, write \in Nat, write <= read, read < Len(buffer),
         NEW transformer \in Looping, NEW original \in Seq(Byte), Len(buffer) = Len(original),
         \A i \in read + 1..Len(buffer) : buffer[i] = original[i],
         MoveHeads(Turn(transformer, buffer)),
         NEW after, after = Written(buffer, Turn(transformer, buffer))
  PROVE  /\ after \in Seq(Byte) /\ read' \in Nat /\ write' \in Nat /\ write' <= read'
         /\ Len(after) = Len(original)
         /\ \A i \in read' + 1..Len(after) : after[i] = original[i]
<1> DEFINE turn == Turn(transformer, buffer)
<1>1. Steady(turn)
  BY TurnIsSteady
<1>2. after = Written(buffer, turn) /\ MoveHeads(turn)
  OBVIOUS
<1> HIDE DEF turn
<1>3. /\ after \in Seq(Byte) /\ Len(after) = Len(buffer)
      /\ \A i \in read + turn.n + 1..Len(buffer) : after[i] = buffer[i]
  BY <1>1, <1>2, WrittenIs
<1> DEFINE n == turn.n
           back == turn.back
           len == Len(turn.out)
<1>4. /\ n \in Nat /\ back \in Nat /\ back <= write /\ len \in Nat /\ write - back + len <= read + n
      /\ read' = read + n /\ write' = write - back + len
  BY <1>1, <1>2 DEF Steady, MoveHeads
<1> HIDE DEF n, back, len
<1>5. read' \in Nat /\ write' \in Nat /\ write' <= read' /\ read' >= read
  BY <1>4
<1>6. ASSUME NEW i \in read' + 1..Len(after) PROVE after[i] = original[i]
  <2>1. i \in read + n + 1..Len(buffer) /\ i \in read + 1..Len(buffer)
    BY <1>3, <1>4, <1>5
  <2>2. after[i] = buffer[i]
    BY <1>3, <2>1 DEF n
  <2>3. buffer[i] = original[i]
    BY <2>1
  <2> QED BY <2>2, <2>3
<1> QED BY <1>3, <1>5, <1>6

-----------------------------------------------------------------------------
(* The transformers that are not a loop, and the read-only pass *)

\* The parts of a text.
LEMMA PartType ==
  ASSUME NEW t \in Seq(Byte), NEW n \in Nat, n <= Len(t)
  PROVE  SubSeq(t, 1, n) \in Seq(Byte)
OBVIOUS

LEMMA Base64DigitType == \A v \in 0..63 : Base64Digit(v) \in Byte
BY DEF Base64Digit, Byte, Plus, Dash

\* The six bits of a digit come from one byte, or from two that follow.
LEMMA DigitBits ==
  ASSUME NEW x \in Byte, NEW y \in Byte
  PROVE  /\ x \div 4 \in 0..63 /\ 16 * (x % 4) + (y \div 16) \in 0..63
         /\ 4 * (x % 16) + (y \div 64) \in 0..63 /\ x % 64 \in 0..63
<1>1. x \div 4 \in 0..63 /\ x % 64 \in 0..63 /\ x % 4 \in 0..3 /\ x % 16 \in 0..15
  BY DEF Byte
<1>2. y \div 16 \in 0..15 /\ y \div 64 \in 0..3
  BY DEF Byte
<1> DEFINE x4 == x % 4
           x16 == x % 16
           y16 == y \div 16
           y64 == y \div 64
<1>3. x4 \in 0..3 /\ x16 \in 0..15 /\ y16 \in 0..15 /\ y64 \in 0..3
  BY <1>1, <1>2
<1> HIDE DEF x4, x16, y16, y64
<1>4. 16 * x4 + y16 \in 0..63 /\ 4 * x16 + y64 \in 0..63
  BY <1>3
<1> QED BY <1>1, <1>4 DEF x4, x16, y16, y64

LEMMA EncodeType ==
  ASSUME NEW t \in Seq(Byte)
  PROVE  EncodeBase64(t) \in Seq(Byte)
<1> DEFINE Byte3(i) == [j \in 1..3 |-> IF i + j <= Len(t) THEN t[i + j] ELSE 0]
           Four(b) == <<Base64Digit(b[1] \div 4), Base64Digit(16 * (b[1] % 4) + (b[2] \div 16)),
                        Base64Digit(4 * (b[2] % 16) + (b[3] \div 64)), Base64Digit(b[3] % 64)>>
           Group(i) ==
               LET left == Len(t) - i
               IN CASE left >= 3 -> Four(Byte3(i))
                    [] left = 2 -> SubSeq(Four(Byte3(i)), 1, 3) \o <<Equal>>
                    [] left = 1 -> SubSeq(Four(Byte3(i)), 1, 2) \o <<Equal, Equal>>
           groups == (Len(t) + 2) \div 3
           all == [g \in 1..groups |-> Group(3 * (g - 1))]
<1>1. EncodeBase64(t) = FlattenSeq(all)
  BY Zenon DEF EncodeBase64
<1>2. Len(t) \in Nat /\ groups \in Nat /\ \A g \in 1..groups : 3 * (g - 1) \in Nat /\ Len(t) - 3 * (g - 1) >= 1
  BY SMT
<1>3. ASSUME NEW i \in Nat, Len(t) - i >= 1
      PROVE  Group(i) \in Seq(Byte)
  <2>1. \A j \in 1..3 : Byte3(i)[j] \in Byte
    <3> TAKE j \in 1..3
    <3>1. CASE i + j <= Len(t)
      <4>1. i + j \in 1..Len(t)
        BY <3>1
      <4>2. t[i + j] \in Byte
        BY <4>1
      <4> QED BY <3>1, <4>2
    <3>2. CASE ~(i + j <= Len(t))
      <4>1. 0 \in Byte
        BY DEF Byte
      <4> QED BY <3>2, <4>1
    <3> QED BY <3>1, <3>2
  <2> DEFINE b == Byte3(i)
  <2>2. b[1] \in Byte /\ b[2] \in Byte /\ b[3] \in Byte
    <3>1. 1 \in 1..3 /\ 2 \in 1..3 /\ 3 \in 1..3
      OBVIOUS
    <3> HIDE DEF Byte3
    <3> QED BY <2>1, <3>1
  <2> HIDE DEF b
  <2>3. /\ b[1] \div 4 \in 0..63 /\ 16 * (b[1] % 4) + (b[2] \div 16) \in 0..63
        /\ 4 * (b[2] % 16) + (b[3] \div 64) \in 0..63 /\ b[3] % 64 \in 0..63
    BY <2>2, DigitBits
  <2>4. /\ Base64Digit(b[1] \div 4) \in Byte /\ Base64Digit(16 * (b[1] % 4) + (b[2] \div 16)) \in Byte
        /\ Base64Digit(4 * (b[2] % 16) + (b[3] \div 64)) \in Byte /\ Base64Digit(b[3] % 64) \in Byte
    BY <2>3, Base64DigitType
  <2> DEFINE four == Four(b)
  <2>5. four \in Seq(Byte) /\ Len(four) = 4
    <3> DEFINE d1 == Base64Digit(b[1] \div 4)
               d2 == Base64Digit(16 * (b[1] % 4) + (b[2] \div 16))
               d3 == Base64Digit(4 * (b[2] % 16) + (b[3] \div 64))
               d4 == Base64Digit(b[3] % 64)
    <3>1. d1 \in Byte /\ d2 \in Byte /\ d3 \in Byte /\ d4 \in Byte
      BY <2>4
    <3>2. four = <<d1, d2, d3, d4>>
      OBVIOUS
    <3> HIDE DEF d1, d2, d3, d4, four
    <3> QED BY <3>1, <3>2
  <2>6. Equal \in Byte
    BY DEF Equal, Byte
  <2>7. Group(i) = CASE Len(t) - i >= 3 -> four
                     [] Len(t) - i = 2 -> SubSeq(four, 1, 3) \o <<Equal>>
                     [] Len(t) - i = 1 -> SubSeq(four, 1, 2) \o <<Equal, Equal>>
    BY Zenon DEF b
  <2> HIDE DEF four, Group
  <2>8. SubSeq(four, 1, 3) \o <<Equal>> \in Seq(Byte) /\ SubSeq(four, 1, 2) \o <<Equal, Equal>> \in Seq(Byte)
    <3>1. SubSeq(four, 1, 3) \in Seq(Byte) /\ SubSeq(four, 1, 2) \in Seq(Byte)
      <4>1. 2 \in Nat /\ 3 \in Nat /\ 2 <= Len(four) /\ 3 <= Len(four)
        BY <2>5
      <4>2. SubSeq(four, 1, 3) \in Seq(Byte)
        BY <2>5, <4>1, PartType, Zenon
      <4>3. SubSeq(four, 1, 2) \in Seq(Byte)
        BY <2>5, <4>1, PartType, Zenon
      <4> QED BY <4>2, <4>3
    <3>2. <<Equal>> \in Seq(Byte) /\ <<Equal, Equal>> \in Seq(Byte)
      BY <2>6
    <3>3. \A x \in Seq(Byte), y \in Seq(Byte) : x \o y \in Seq(Byte)
      OBVIOUS
    <3> QED BY <3>1, <3>2, <3>3, Zenon
  <2> QED BY <1>2, <1>3, <2>5, <2>7, <2>8
<1> HIDE DEF Group, groups
<1>4. all \in [1..groups -> Seq(Byte)]
  BY <1>2, <1>3
<1>5. all \in Seq(Seq(Byte))
  BY <1>2, <1>4
<1> HIDE DEF all
<1> QED BY <1>1, <1>5, FlatIsTyped DEF Flat

LEMMA EndOfPathType ==
  ASSUME NEW t \in Seq(Byte)
  PROVE  EndOfPath(t) \in Nat /\ EndOfPath(t) <= Len(t)
BY SpanIs DEF EndOfPath

LEMMA BasenameType ==
  ASSUME NEW t \in Seq(Byte)
  PROVE  Basename(t) \in Seq(Byte)
<1> DEFINE path == SubSeq(t, 1, EndOfPath(t))
           slashes == {0} \cup {i \in DOMAIN path : path[i] = Slash}
           slash == Max(slashes)
<1>1. path \in Seq(Byte)
  BY EndOfPathType, PartType
<1> HIDE DEF path
<1>2. slashes \in SUBSET (0..Len(path)) /\ slashes # {} /\ Len(path) \in Nat
  BY <1>1
<1>3. slash \in 0..Len(path)
  <2> HIDE DEF slashes
  <2> QED BY <1>2, MaxIsGreatest
<1>4. Basename(t) = From(path, slash + 1)
  BY DEF Basename, path
<1> HIDE DEF slash
<1>5. slash + 1 \in Nat /\ slash + 1 >= 1
  BY <1>2, <1>3
<1> QED BY <1>1, <1>4, <1>5, FromType

LEMMA QueryStringType ==
  ASSUME NEW t \in Seq(Byte)
  PROVE  QueryString(t) \in Seq(Byte)
<1> DEFINE rest == From(t, EndOfPath(t) + 1)
           query == IF rest # <<>> /\ rest[1] = Question THEN Tail(rest) ELSE rest
           n == Span(query, Byte \ {Hash})
<1>1. EndOfPath(t) + 1 \in Nat /\ EndOfPath(t) + 1 >= 1
  BY EndOfPathType
<1>2. rest \in Seq(Byte)
  BY <1>1, FromType
<1> HIDE DEF rest
<1>3. query \in Seq(Byte)
  BY <1>2
<1> HIDE DEF query
<1>4. n \in Nat /\ n <= Len(query)
  BY <1>3, SpanIs
<1>5. SubSeq(query, 1, n) \in Seq(Byte)
  <2> HIDE DEF n
  <2> QED BY <1>3, <1>4, PartType
<1> QED BY <1>5, Zenon DEF QueryString, query, rest

LEMMA NumberType ==
  ASSUME NEW t \in Seq(Byte)
  PROVE  Number(t) \in Int
<1>1. Magnitude(t) \in Int
  BY MagnitudeType
<1> DEFINE m == Magnitude(t)
<1> HIDE DEF m
<1>2. m \in Int /\ -m \in Int
  BY <1>1 DEF m
<1> QED BY <1>2 DEF Number, m

LEMMA EditedType ==
  ASSUME NEW t \in Seq(Byte), NEW transformer
  PROVE  Edited(transformer, t) \in Seq(Byte) /\ Len(Edited(transformer, t)) = Len(t)
<1>1. Slashed(t) = [i \in 1..Len(t) |-> IF t[i] = Backslash THEN Slash ELSE t[i]]
  BY DEF Slashed
<1>2. Slash \in Byte
  BY SmallBytes DEF Slash
<1>3. \A i \in 1..Len(t) : (IF t[i] = Backslash THEN Slash ELSE t[i]) \in Byte
  BY <1>2
<1>4. Slashed(t) \in [1..Len(t) -> Byte]
  BY <1>1, <1>3
<1>5. Slashed(t) \in Seq(Byte) /\ Len(Slashed(t)) = Len(t)
  BY <1>4
<1> QED BY <1>5 DEF Edited

LEMMA StartType ==
  ASSUME NEW t \in Seq(Byte), NEW transformer
  PROVE  Start(transformer, t) \in Nat /\ Start(transformer, t) <= Len(t)
<1>1. FirstTrigger(transformer, t) \in Nat /\ FirstTrigger(transformer, t) <= Len(t)
  BY FirstTriggerIs
<1>2. Start(transformer, t) \in {0, FirstTrigger(transformer, t)}
  BY Zenon DEF Start
<1>3. 0 \in Nat /\ 0 <= Len(t)
  OBVIOUS
<1> QED BY <1>1, <1>2, <1>3, Zenon

LEMMA NeedType ==
  ASSUME NEW t \in Seq(Byte), NEW transformer \in Transformer \ {"htmlEntityDecode", "unicode_normalize"}
  PROVE  Need(transformer, t) \in BOOLEAN
<1> DEFINE need == Need(transformer, t)
           triggers == Triggers(transformer, t) # {}
           paths == Backslash \in Range(t) \/ Triggers("normalizePath", t) # {}
           scripts == FirstTrigger(transformer, t) + 1 < Len(t)
<1>1. ValidBase64(t) \in BOOLEAN /\ PaddedBase64(t) \in BOOLEAN /\ IsNumber(t) \in BOOLEAN
      /\ triggers \in BOOLEAN /\ paths \in BOOLEAN /\ (t # <<>>) \in BOOLEAN /\ scripts \in BOOLEAN
  BY DEF ValidBase64, PaddedBase64, IsNumber
<1>2. need = CASE transformer \in {"lowercase", "removeNulls", "compressWhiteSpace", "urlDecode",
                          "urlDecodeUni", "cssDecode", "cmdLine", "normalizePath",
                          "removeComments"} -> triggers
      [] transformer = "jsDecode" -> scripts
      [] transformer = "normalizePathWin" -> paths
      [] transformer = "base64Decode" -> ValidBase64(t)
      [] transformer = "base64DecodeExt" -> PaddedBase64(t)
      [] transformer = "base64Encode" -> t # <<>>
      [] transformer = "numerize" -> IsNumber(t)
      [] transformer \in {"length", "_sqr_basename", "_sqr_filename", "_sqr_querystring"} -> TRUE
  BY Zenon DEF Need
<1> HIDE DEF need, triggers, paths, scripts
<1>3. need \in BOOLEAN
  BY <1>1, <1>2 DEF Transformer
<1> QED BY <1>3 DEF need

\* A text without numeric references is left alone by a turn of the sweep.
LEMMA SweepCopies ==
  ASSUME NEW t \in Seq(Byte), read \in Nat, read < Len(t),
         ~\E i \in 1..Len(t) - 1 : t[i] = Amp /\ t[i + 1] = Hash,
         NamedAt(From(t, read + 1)) = {}, write = read
  PROVE  /\ Turn("htmlEntityDecode", t) = Reads(1, <<t[read + 1]>>)
         /\ Written(t, Turn("htmlEntityDecode", t)) = t
<1> DEFINE rest == From(t, read + 1)
<1>1. /\ rest \in Seq(Byte) /\ Len(rest) = Len(t) - read
      /\ \A j \in 1..Len(rest) : rest[j] = t[read + j]
  <2>1. read + 1 \in Nat /\ read + 1 >= 1 /\ read + 1 <= Len(t)
    OBVIOUS
  <2>2. /\ rest \in Seq(Byte) /\ Len(rest) = Len(t) - (read + 1) + 1
        /\ \A j \in 1..Len(rest) : rest[j] = t[read + 1 + j - 1]
    BY <2>1, FromType
  <2> HIDE DEF rest
  <2>3. \A j \in 1..Len(rest) : read + 1 + j - 1 = read + j
    BY <2>2
  <2> QED BY <2>1, <2>2, <2>3
<1> HIDE DEF rest
<1>2. ~(Len(rest) > 1 /\ rest[1] = Amp /\ rest[2] = Hash)
  <2> SUFFICES ASSUME Len(rest) > 1, rest[1] = Amp, rest[2] = Hash PROVE FALSE
    OBVIOUS
  <2>1. rest[1] = t[read + 1] /\ rest[2] = t[read + 2] /\ read + 1 \in 1..Len(t) - 1
    BY <1>1
  <2>2. (read + 1) + 1 = read + 2
    OBVIOUS
  <2> QED BY <2>1, <2>2
<1>3. ~HexReference(rest) /\ ~DecReference(rest)
  BY <1>1, <1>2 DEF HexReference, DecReference
<1>4. ~StartsWith(rest, <<Amp, Hash>>)
  <2> SUFFICES ASSUME Len(rest) >= 2, SubSeq(rest, 1, 2) = <<Amp, Hash>> PROVE FALSE
    BY DEF StartsWith
  <2>1. SubSeq(rest, 1, 2)[1] = rest[1] /\ SubSeq(rest, 1, 2)[2] = rest[2]
    BY <1>1
  <2>2. <<Amp, Hash>>[1] = Amp /\ <<Amp, Hash>>[2] = Hash
    OBVIOUS
  <2>3. rest[1] = Amp /\ rest[2] = Hash
    BY <2>1, <2>2
  <2>4. Len(rest) > 1
    BY <1>1
  <2> QED BY <1>2, <2>3, <2>4
<1>5. DecodeHtmlTurn(rest, read - write) = Copies(rest)
  BY <1>3, <1>4 DEF DecodeHtmlTurn, rest
<1>6. Turn("htmlEntityDecode", t) = DecodeHtmlTurn(rest, read - write)
  BY DEF Turn, rest
<1>7. rest[1] = t[read + 1]
  BY <1>1
<1> DEFINE turn == Turn("htmlEntityDecode", t)
<1>8. turn = Reads(1, <<t[read + 1]>>)
  BY <1>5, <1>6, <1>7, Zenon DEF Copies
<1> HIDE DEF turn
<1>9. Written(t, turn) = t
  <2> DEFINE w == Written(t, turn)
  <2>1. turn.back = 0 /\ turn.out = <<t[read + 1]>> /\ Len(turn.out) = 1
    BY <1>8 DEF Reads
  <2>2. w = [i \in 1..Len(t) |-> IF i \in write - 0 + 1..write - 0 + 1 THEN <<t[read + 1]>>[i - (write - 0)] ELSE t[i]]
    BY <2>1 DEF Written
  <2>3. \A i \in 1..Len(t) : w[i] = t[i]
    <3> TAKE i \in 1..Len(t)
    <3>1. CASE i = read + 1
      <4>1. w[i] = <<t[read + 1]>>[i - (write - 0)]
        BY <2>2, <3>1
      <4>2. i - (write - 0) = 1
        BY <3>1
      <4> QED BY <3>1, <4>1, <4>2
    <3>2. CASE i # read + 1
      <4>1. i \notin write - 0 + 1..write - 0 + 1
        BY <3>2
      <4> QED BY <2>2, <4>1
    <3> QED BY <3>1, <3>2
  <2>4. w = [i \in 1..Len(t) |-> w[i]]
    BY <2>2
  <2>5. t = [i \in 1..Len(t) |-> t[i]]
    OBVIOUS
  <2> HIDE DEF w
  <2> QED BY <2>3, <2>4, <2>5 DEF w
<1> QED BY <1>8, <1>9 DEF turn

-----------------------------------------------------------------------------
(* The normalization, whose module has the definitions of Utf8 for its own *)

LEMMA SameBytes ==
  /\ Normalizer!Byte = Byte /\ Normalizer!MaxCodepoint = MaxCodepoint /\ Normalizer!Surrogate = Surrogate
  /\ Normalizer!Continuation = Continuation /\ Normalizer!Replacement = Replacement
  /\ Normalizer!Eof = Eof /\ Normalizer!Invalid = Invalid
BY SMT DEF Normalizer!Byte, Normalizer!MaxCodepoint, Normalizer!Surrogate, Normalizer!Continuation,
       Normalizer!Replacement, Normalizer!Eof, Normalizer!Invalid, Byte, MaxCodepoint, Surrogate,
       Continuation, Replacement, Eof, Invalid

LEMMA SameCodepoint ==
  ASSUME NEW cp \in Nat
  PROVE  Normalizer!CodepointToBytes(cp) = CodepointToBytes(cp)
BY SameBytes, SMT DEF Normalizer!CodepointToBytes, Normalizer!OneByte, Normalizer!TwoBytes,
       Normalizer!ThreeBytes, Normalizer!FourBytes, CodepointToBytes, OneByte, TwoBytes, ThreeBytes, FourBytes

LEMMA SameWrite ==
  ASSUME NEW cp \in Nat, NEW room \in Nat
  PROVE  Normalizer!WriteCodepoint(cp, room) = WriteCodepoint(cp, room)
BY SameBytes, SameCodepoint, Zenon DEF Normalizer!WriteCodepoint, WriteCodepoint

LEMMA SameFetch ==
  ASSUME NEW t, NEW i
  PROVE  Normalizer!FetchNextCodepoint(Normalizer!From(t, i)) = FetchNextCodepoint(From(t, i))
<1>1. Normalizer!From(t, i) = From(t, i)
  BY Zenon DEF Normalizer!From, From
<1>2. \A b : Normalizer!Announced(b) = Announced(b)
  BY Zenon DEF Normalizer!Announced, Announced
<1>3. \A rest : Normalizer!FindNextGlyphLength(rest) = FindNextGlyphLength(rest)
  BY <1>2, SameBytes, Zenon DEF Normalizer!FindNextGlyphLength, FindNextGlyphLength
<1>4. ASSUME NEW header, NEW d
      PROVE  Normalizer!FoldLeft(LAMBDA v, b : 64 * v + (b % 64), header, d)
                 = FoldLeft(LAMBDA v, b : 64 * v + (b % 64), header, d)
  BY Zenon DEF Normalizer!FoldLeft, FoldLeft, Normalizer!MapThenFoldSet, MapThenFoldSet, Normalizer!Max, Max
<1>5. ASSUME NEW rest
      PROVE  Normalizer!FetchNextCodepoint(rest) = FetchNextCodepoint(rest)
  <2> DEFINE n == FindNextGlyphLength(rest)
             header == CASE n = 2 -> rest[1] % 32 [] n = 3 -> rest[1] % 16 [] n = 4 -> rest[1] % 8
             value == FoldLeft(LAMBDA v, b : 64 * v + (b % 64), header, SubSeq(rest, 2, n))
             other == Normalizer!FoldLeft(LAMBDA v, b : 64 * v + (b % 64), header, SubSeq(rest, 2, n))
  <2>1. other = value
    <3> HIDE DEF header, n
    <3> QED BY <1>4
  <2>2. Normalizer!FetchNextCodepoint(rest) =
            CASE n = 0 -> [cp |-> Eof, n |-> 0]
              [] n = -1 -> [cp |-> Invalid, n |-> 1]
              [] n = 1 -> [cp |-> rest[1], n |-> 1]
              [] OTHER -> [cp |-> other, n |-> n]
    <3>1. n = Normalizer!FindNextGlyphLength(rest)
      BY <1>3
    <3> HIDE DEF n
    <3> QED BY <3>1, SameBytes, Zenon DEF Normalizer!FetchNextCodepoint
  <2>3. FetchNextCodepoint(rest) =
            CASE n = 0 -> [cp |-> Eof, n |-> 0]
              [] n = -1 -> [cp |-> Invalid, n |-> 1]
              [] n = 1 -> [cp |-> rest[1], n |-> 1]
              [] OTHER -> [cp |-> value, n |-> n]
    BY Zenon DEF FetchNextCodepoint
  <2> HIDE DEF value, other, n
  <2> QED BY <2>1, <2>2, <2>3, Zenon
<1> QED BY <1>1, <1>5

LEMMA SameFlatten ==
  ASSUME NEW seqs
  PROVE  Normalizer!FlattenSeq(seqs) = FlattenSeq(seqs)
BY Zenon DEF Normalizer!FlattenSeq, FlattenSeq

-----------------------------------------------------------------------------
(* The inductive invariant *)

\* Where the chain is: a transformer at work is one of its transformers, one
\* that edits is a loop, and only references of HTML are swept.
Working == {"sweep", "copy", "apply", "edit", "normalize"}
ChainInv ==
    /\ 1 <= k /\ k <= Len(chain) + 1
    /\ phase \in Working => k <= Len(chain)
    /\ phase = "edit" => chain[k] \in Looping
    /\ phase = "sweep" => chain[k] = "htmlEntityDecode"

\* Without a numeric reference, the sweep writes each byte where it read it.
SweepInv == phase = "sweep" /\ ~HasReference => write = read

\* A chunk has room for a codepoint, and there is one to write to.
ChunksInv ==
    /\ phase = "normalize" => chunks # <<>>
    /\ \A c \in DOMAIN chunks : chunks[c].length >= 4

TextInv == TypeOK /\ ChainInv /\ NeverOvertakes /\ SweepInv /\ OriginalUntouched
ScratchInv == Normalizer!TypeOK /\ ChunksInv /\ ChunksFit
StringsInv == TextInv /\ ScratchInv

LEMMA StringsInvInit == StringInit => StringsInv
<1> SUFFICES ASSUME StringInit PROVE StringsInv
  OBVIOUS
<1> USE DEF StringInit
<1>1. PICK c \in Cases : chain = c[1] /\ input = c[2]
  BY DEF Init
<1>2. chain \in Seq(Transformer) /\ input \in Seq(Byte)
  BY <1>1, CasesAssumption, Zenon
<1>3. TypeOK
  BY <1>2 DEF Init, TypeOK, Result
<1>4. ChainInv /\ SweepInv /\ NeverOvertakes /\ OriginalUntouched
  BY <1>2 DEF Init, ChainInv, SweepInv, NeverOvertakes, OriginalUntouched, Working
<1>5. ScratchInv
  BY DEF Init, ScratchInv, ChunksInv, ChunksFit, Normalizer!Init, Normalizer!TypeOK, Normalizer!ChunksFit
<1> QED BY <1>3, <1>4, <1>5 DEF StringsInv, TextInv

\* The invariant is about what the step changes.
LEMMA ScratchKept ==
  ASSUME StringsInv, UNCHANGED scratch, phase' = "normalize" => phase = "normalize"
  PROVE  ScratchInv'
BY DEF StringsInv, ScratchInv, ChunksInv, ChunksFit, Normalizer!TypeOK, Normalizer!ChunksFit, scratch

LEMMA OriginalKept ==
  ASSUME StringsInv, UNCHANGED <<chain, input, object>>
  PROVE  OriginalUntouched'
BY Zenon DEF StringsInv, TextInv, OriginalUntouched, HasReference

\* What the steps of several actions come to.
LEMMA AnswerKeeps ==
  ASSUME StringsInv, phase \in {"check", "sweep"}, k <= Len(chain), NEW yes \in BOOLEAN, Answer(yes),
         UNCHANGED <<chain, input, object, text, number, before, heads, result>>
  PROVE  TextInv' /\ phase' # "normalize"
<1> USE DEF StringsInv, TextInv
<1>1. /\ chain' = chain /\ input' = input /\ object' = object /\ text' = text /\ number' = number
      /\ before' = before /\ read' = read /\ write' = write /\ result' = result
      /\ phase' \in {"copy", "check"} /\ k' \in {k, k + 1} /\ (phase' = "copy" => k' = k)
      /\ answers' = Append(answers, yes)
  BY DEF Answer, heads
<1>2. TypeOK'
  <2>1. answers' \in Seq(BOOLEAN) /\ k' \in Nat
    BY <1>1 DEF TypeOK
  <2> QED BY <1>1, <2>1 DEF TypeOK
<1>3. ChainInv'
  <2>1. Len(chain) \in Nat /\ k \in Nat
    BY DEF TypeOK
  <2> QED BY <1>1, <2>1 DEF ChainInv, Working
<1>4. NeverOvertakes' /\ SweepInv'
  BY <1>1 DEF NeverOvertakes, SweepInv
<1>5. OriginalUntouched'
  BY <1>1, OriginalKept
<1> QED BY <1>1, <1>2, <1>3, <1>4, <1>5

LEMMA PassKeeps ==
  ASSUME StringsInv, NEW t \in Seq(Byte), NEW m \in Seq(Int), Pass(t, m),
         UNCHANGED <<chain, input, object, k, answers, text, number, before, heads>>
  PROVE  TextInv' /\ phase' # "normalize"
<1> USE DEF StringsInv, TextInv
<1>1. /\ chain' = chain /\ input' = input /\ object' = object /\ text' = text /\ number' = number
      /\ before' = before /\ read' = read /\ write' = write /\ answers' = answers /\ k' = k
      /\ phase' = "done" /\ result' = [text |-> t, number |-> m]
  BY DEF Pass, heads
<1>2. TypeOK'
  BY <1>1 DEF TypeOK, Result
<1>3. ChainInv' /\ NeverOvertakes' /\ SweepInv'
  BY <1>1 DEF ChainInv, NeverOvertakes, SweepInv, Working
<1>4. OriginalUntouched'
  BY <1>1, OriginalKept
<1> QED BY <1>1, <1>2, <1>3, <1>4

LEMMA ProceedKeeps ==
  ASSUME StringsInv, phase \in {"apply", "edit", "normalize"},
         NEW t \in Seq(Byte), NEW m \in Seq(Int), Proceed(t, m),
         UNCHANGED <<chain, input, object, answers, before, heads>>
  PROVE  TextInv' /\ phase' # "normalize"
<1> USE DEF StringsInv, TextInv
<1>1. /\ chain' = chain /\ input' = input /\ object' = object /\ text' = t /\ number' = m
      /\ before' = before /\ read' = read /\ write' = write /\ answers' = answers /\ k' = k + 1
      /\ \/ phase' = "done" /\ result' = [text |-> t, number |-> m]
         \/ k # Len(chain) /\ phase' = "apply" /\ result' = result
  BY DEF Proceed, Pass, heads
<1>2. TypeOK'
  BY <1>1 DEF TypeOK, Result
<1>3. ChainInv'
  <2>1. Len(chain) \in Nat /\ k \in Nat /\ 1 <= k /\ k <= Len(chain)
    BY DEF TypeOK, ChainInv, Working
  <2> QED BY <1>1, <2>1 DEF ChainInv, Working
<1>4. NeverOvertakes' /\ SweepInv'
  BY <1>1 DEF NeverOvertakes, SweepInv
<1>5. OriginalUntouched'
  BY <1>1, OriginalKept
<1> QED BY <1>1, <1>2, <1>3, <1>4, <1>5

\* One lemma per action.
LEMMA CheckKeeps == StringsInv /\ Check => TextInv' /\ phase' # "normalize"
<1> SUFFICES ASSUME StringsInv, Check PROVE TextInv' /\ phase' # "normalize"
  OBVIOUS
<1>1. k \in 1..Len(chain) /\ chain \in Seq(Transformer) /\ object \in Seq(Byte)
  BY DEF StringsInv, TextInv, TypeOK, ChainInv, Check
<1>2. chain[k] \in Transformer \ {"htmlEntityDecode", "unicode_normalize"}
  BY <1>1 DEF Check
<1>3. Need(chain[k], object) \in BOOLEAN
  BY <1>1, <1>2, NeedType
<1>4. /\ Answer(Need(chain[k], object)) /\ phase \in {"check", "sweep"} /\ k <= Len(chain)
      /\ UNCHANGED <<chain, input, object, text, number, before, heads, result>>
  BY Zenon DEF Check
<1> QED BY <1>3, <1>4, AnswerKeeps, Zenon

LEMMA CheckHtmlKeeps == StringsInv /\ CheckHtml => TextInv' /\ phase' # "normalize"
<1> SUFFICES ASSUME StringsInv, CheckHtml PROVE TextInv' /\ phase' # "normalize"
  OBVIOUS
<1>1. (Len(object) >= 3) \in BOOLEAN
  OBVIOUS
<1>2. /\ Answer(Len(object) >= 3) /\ phase \in {"check", "sweep"} /\ k <= Len(chain)
      /\ UNCHANGED <<chain, input, object, text, number, before, heads, result>>
  BY Zenon DEF CheckHtml
<1> QED BY <1>1, <1>2, AnswerKeeps, Zenon

LEMMA CheckUnicodeKeeps == StringsInv /\ CheckUnicode => TextInv' /\ phase' # "normalize"
<1> SUFFICES ASSUME StringsInv, CheckUnicode PROVE TextInv' /\ phase' # "normalize"
  OBVIOUS
<1>1. Normalizer!Need(object) \in BOOLEAN
  BY Zenon DEF Normalizer!Need
<1>2. /\ Answer(Normalizer!Need(object)) /\ phase \in {"check", "sweep"} /\ k <= Len(chain)
      /\ UNCHANGED <<chain, input, object, text, number, before, heads, result>>
  BY Zenon DEF CheckUnicode
<1> QED BY <1>1, <1>2, AnswerKeeps, Zenon

LEMMA EndSweepKeeps == StringsInv /\ EndSweep => TextInv' /\ phase' # "normalize"
<1> SUFFICES ASSUME StringsInv, EndSweep PROVE TextInv' /\ phase' # "normalize"
  OBVIOUS
<1>1. k <= Len(chain) /\ phase \in {"check", "sweep"}
  BY DEF StringsInv, TextInv, ChainInv, Working, EndSweep
<1>2. PICK yes \in BOOLEAN : Answer(yes)
  BY Zenon DEF EndSweep
<1>3. UNCHANGED <<chain, input, object, text, number, before, heads, result>>
  BY Zenon DEF EndSweep
<1> QED BY <1>1, <1>2, <1>3, AnswerKeeps, Zenon

LEMMA StartSweepKeeps == StringsInv /\ StartSweep => TextInv' /\ phase' # "normalize"
<1> SUFFICES ASSUME StringsInv, StartSweep PROVE TextInv' /\ phase' # "normalize"
  OBVIOUS
<1> USE DEF StringsInv, TextInv
<1>1. /\ chain' = chain /\ input' = input /\ object' = object /\ text' = text /\ number' = number
      /\ before' = object /\ result' = result /\ answers' = answers /\ k' = k
      /\ phase' = "sweep" /\ read' = FirstTrigger("htmlEntityDecode", object) /\ write' = read'
      /\ k <= Len(chain) /\ chain[k] = "htmlEntityDecode"
  BY DEF StartSweep
<1>2. read' \in Nat
  BY <1>1, FirstTriggerIs DEF TypeOK
<1>3. TypeOK'
  BY <1>1, <1>2 DEF TypeOK
<1>4. ChainInv'
  BY <1>1 DEF ChainInv, Working
<1>5. NeverOvertakes' /\ SweepInv'
  BY <1>1, <1>2 DEF NeverOvertakes, Buffer, SweepInv
<1>6. OriginalUntouched'
  BY <1>1, OriginalKept
<1> QED BY <1>1, <1>3, <1>4, <1>5, <1>6

LEMMA SweepKeeps == StringsInv /\ Sweep => TextInv' /\ phase' # "normalize"
<1> SUFFICES ASSUME StringsInv, Sweep PROVE TextInv' /\ phase' # "normalize"
  OBVIOUS
<1> USE DEF StringsInv, TextInv
<1> DEFINE turn == Turn("htmlEntityDecode", object)
<1>1. /\ chain' = chain /\ input' = input /\ object' = Written(object, turn) /\ text' = text
      /\ number' = number /\ before' = before /\ result' = result /\ answers' = answers /\ k' = k
      /\ phase = "sweep" /\ phase' = "sweep" /\ MoveHeads(turn)
      /\ read < Len(object) /\ NamedAt(From(object, read + 1)) = {}
  BY DEF Sweep
<1>2. /\ object \in Seq(Byte) /\ before \in Seq(Byte) /\ read \in Nat /\ write \in Nat
      /\ write <= read /\ Len(object) = Len(before)
      /\ \A i \in read + 1..Len(object) : object[i] = before[i]
  BY <1>1 DEF TypeOK, NeverOvertakes, Buffer
<1>3. "htmlEntityDecode" \in Looping
  BY DEF Looping
<1>4. /\ object' \in Seq(Byte) /\ read' \in Nat /\ write' \in Nat /\ write' <= read'
      /\ Len(object') = Len(before)
      /\ \A i \in read' + 1..Len(object') : object'[i] = before[i]
  BY <1>1, <1>2, <1>3, HeadsMove
<1>5. TypeOK'
  BY <1>1, <1>4 DEF TypeOK
<1>6. ChainInv'
  BY <1>1 DEF ChainInv, Working
<1>7. NeverOvertakes'
  BY <1>1, <1>4 DEF NeverOvertakes, Buffer
<1>8. SweepInv' /\ OriginalUntouched'
  <2>1. HasReference' = HasReference
    BY <1>1, Zenon DEF HasReference
  <2>2. CASE HasReference
    <3>1. k \in DOMAIN chain' /\ chain'[k] = "htmlEntityDecode"
      BY <1>1 DEF TypeOK, ChainInv, Working
    <3> QED BY <2>1, <2>2, <3>1 DEF SweepInv, OriginalUntouched
  <2>3. CASE ~HasReference
    <3>1. object = input /\ write = read
      BY <1>1, <2>3 DEF OriginalUntouched, SweepInv
    <3>2. ~\E i \in 1..Len(object) - 1 : object[i] = Amp /\ object[i + 1] = Hash
      BY <2>3, <3>1, Zenon DEF HasReference
    <3>3. turn = Reads(1, <<object[read + 1]>>) /\ Written(object, turn) = object
      BY <1>1, <1>2, <3>1, <3>2, SweepCopies
    <3>4. turn.n = 1 /\ turn.back = 0 /\ Len(turn.out) = 1
      <4> HIDE DEF turn
      <4> QED BY <3>3 DEF Reads
    <3>5. read' = read + 1 /\ write' = write - 0 + 1
      BY <1>1, <3>4, Zenon DEF MoveHeads
    <3>6. write' = read' /\ object' = input'
      BY <1>1, <1>2, <3>1, <3>3, <3>5
    <3> QED BY <3>6 DEF SweepInv, OriginalUntouched
  <2> QED BY <2>2, <2>3
<1> QED BY <1>1, <1>5, <1>6, <1>7, <1>8

LEMMA PassOriginalKeeps == StringsInv /\ PassOriginal => TextInv' /\ phase' # "normalize"
<1> SUFFICES ASSUME StringsInv, PassOriginal PROVE TextInv' /\ phase' # "normalize"
  OBVIOUS
<1>1. Cut(object) \in Seq(Byte) /\ <<>> \in Seq(Int)
  BY CutType, CasesAssumption DEF StringsInv, TextInv, TypeOK
<1>2. /\ Pass(Cut(object), <<>>)
      /\ UNCHANGED <<chain, input, object, k, answers, text, number, before, heads>>
  BY Zenon DEF PassOriginal
<1> QED BY <1>1, <1>2, PassKeeps, Zenon

LEMMA FailKeeps == StringsInv /\ Fail => TextInv' /\ phase' # "normalize"
<1> SUFFICES ASSUME StringsInv, Fail PROVE TextInv' /\ phase' # "normalize"
  OBVIOUS
<1>1. Cut(object) \in Seq(Byte) /\ <<>> \in Seq(Int)
  BY CutType, CasesAssumption DEF StringsInv, TextInv, TypeOK
<1>2. /\ Pass(Cut(object), <<>>)
      /\ UNCHANGED <<chain, input, object, k, answers, text, number, before, heads>>
  BY Zenon DEF Fail
<1> QED BY <1>1, <1>2, PassKeeps, Zenon

LEMMA CopyKeeps == StringsInv /\ Copy => TextInv' /\ phase' # "normalize"
<1> SUFFICES ASSUME StringsInv, Copy PROVE TextInv' /\ phase' # "normalize"
  OBVIOUS
<1> USE DEF StringsInv, TextInv
<1>1. /\ chain' = chain /\ input' = input /\ object' = object /\ text' = Cut(object) /\ number' = number
      /\ before' = before /\ read' = read /\ write' = write /\ answers' = answers /\ k' = 1
      /\ phase = "copy" /\ phase' = "apply" /\ result' = result
  BY DEF Copy, heads
<1>2. Cut(object) \in Seq(Byte)
  BY CutType, CasesAssumption DEF TypeOK
<1>3. TypeOK'
  BY <1>1, <1>2 DEF TypeOK
<1>4. ChainInv'
  <2>1. Len(chain) \in Nat /\ k \in Nat /\ 1 <= k /\ k <= Len(chain)
    BY <1>1 DEF TypeOK, ChainInv, Working
  <2> QED BY <1>1, <2>1 DEF ChainInv, Working
<1>5. NeverOvertakes' /\ SweepInv'
  BY <1>1 DEF NeverOvertakes, SweepInv
<1>6. OriginalUntouched'
  BY <1>1, OriginalKept
<1> QED BY <1>1, <1>3, <1>4, <1>5, <1>6

LEMMA ConvertKeeps == StringsInv /\ Convert => TextInv' /\ phase' # "normalize"
<1> SUFFICES ASSUME StringsInv, Convert PROVE TextInv' /\ phase' # "normalize"
  OBVIOUS
<1>1. text \in Seq(Byte)
  BY DEF StringsInv, TextInv, TypeOK
<1>2. <<>> \in Seq(Byte) /\ <<>> \in Seq(Int) /\ <<Len(text)>> \in Seq(Int) /\ <<Number(text)>> \in Seq(Int)
  BY <1>1, NumberType
<1>3. /\ EncodeBase64(text) \in Seq(Byte) /\ Basename(text) \in Seq(Byte) /\ QueryString(text) \in Seq(Byte)
      /\ SubSeq(text, 1, EndOfPath(text)) \in Seq(Byte)
  BY <1>1, EncodeType, BasenameType, QueryStringType, EndOfPathType, PartType
<1>4. \E t \in Seq(Byte), m \in Seq(Int) : Proceed(t, m)
  BY <1>1, <1>2, <1>3, Zenon DEF Convert
<1>5. phase \in {"apply", "edit", "normalize"} /\ UNCHANGED <<chain, input, object, answers, before, heads>>
  BY Zenon DEF Convert
<1> QED BY <1>4, <1>5, ProceedKeeps, Zenon

LEMMA StartEditKeeps == StringsInv /\ StartEdit => TextInv' /\ phase' # "normalize"
<1> SUFFICES ASSUME StringsInv, StartEdit PROVE TextInv' /\ phase' # "normalize"
  OBVIOUS
<1> USE DEF StringsInv, TextInv
<1>1. /\ chain' = chain /\ input' = input /\ object' = object /\ text' = Edited(chain[k], text)
      /\ number' = number /\ before' = text' /\ result' = result /\ answers' = answers /\ k' = k
      /\ phase = "apply" /\ phase' = "edit" /\ read' = Start(chain[k], text) /\ write' = read'
      /\ chain[k] \notin {"length", "numerize", "base64Encode", "_sqr_basename", "_sqr_filename",
                          "_sqr_querystring", "unicode_normalize"}
  BY DEF StartEdit
<1>2. text' \in Seq(Byte) /\ read' \in Nat
  BY <1>1, EditedType, StartType DEF TypeOK
<1>3. TypeOK'
  BY <1>1, <1>2 DEF TypeOK
<1>4. ChainInv'
  <2>1. k \in DOMAIN chain /\ chain[k] \in Transformer
    BY <1>1 DEF TypeOK, ChainInv, Working
  <2>2. chain[k] \in Looping
    BY <1>1, <2>1 DEF Transformer, Looping
  <2> QED BY <1>1, <2>2 DEF ChainInv, Working
<1>5. NeverOvertakes' /\ SweepInv'
  BY <1>1, <1>2 DEF NeverOvertakes, Buffer, SweepInv
<1>6. OriginalUntouched'
  BY <1>1, OriginalKept
<1> QED BY <1>1, <1>3, <1>4, <1>5, <1>6

LEMMA EditKeeps == StringsInv /\ Edit => TextInv' /\ phase' # "normalize"
<1> SUFFICES ASSUME StringsInv, Edit PROVE TextInv' /\ phase' # "normalize"
  OBVIOUS
<1> USE DEF StringsInv, TextInv
<1> DEFINE turn == Turn(chain[k], text)
<1>1. /\ chain' = chain /\ input' = input /\ object' = object /\ text' = Written(text, turn)
      /\ number' = number /\ before' = before /\ result' = result /\ answers' = answers /\ k' = k
      /\ phase = "edit" /\ phase' = "edit" /\ MoveHeads(turn) /\ read < Len(text)
  BY DEF Edit
<1>2. /\ text \in Seq(Byte) /\ before \in Seq(Byte) /\ read \in Nat /\ write \in Nat
      /\ write <= read /\ Len(text) = Len(before)
      /\ \A i \in read + 1..Len(text) : text[i] = before[i]
  BY <1>1 DEF TypeOK, NeverOvertakes, Buffer
<1>3. chain[k] \in Looping
  BY <1>1 DEF ChainInv
<1>4. /\ text' \in Seq(Byte) /\ read' \in Nat /\ write' \in Nat /\ write' <= read'
      /\ Len(text') = Len(before)
      /\ \A i \in read' + 1..Len(text') : text'[i] = before[i]
  <2> DEFINE transformer == chain[k]
  <2>1. /\ transformer \in Looping /\ text' = Written(text, Turn(transformer, text))
        /\ MoveHeads(Turn(transformer, text))
    BY <1>1, <1>3
  <2> HIDE DEF turn, transformer
  <2> QED BY <1>1, <1>2, <2>1, HeadsMove
<1>5. TypeOK'
  BY <1>1, <1>4 DEF TypeOK
<1>6. ChainInv'
  BY <1>1, <1>3 DEF ChainInv, Working
<1>7. NeverOvertakes' /\ SweepInv'
  BY <1>1, <1>4 DEF NeverOvertakes, Buffer, SweepInv
<1>8. OriginalUntouched'
  BY <1>1, OriginalKept
<1> QED BY <1>1, <1>5, <1>6, <1>7, <1>8

LEMMA EndEditKeeps == StringsInv /\ EndEdit => TextInv' /\ phase' # "normalize"
<1> SUFFICES ASSUME StringsInv, EndEdit PROVE TextInv' /\ phase' # "normalize"
  OBVIOUS
<1> DEFINE edited == SubSeq(text, 1, Min({write, Len(text)}))
<1>1. text \in Seq(Byte) /\ write \in Nat
  BY DEF StringsInv, TextInv, TypeOK
<1>2. edited \in Seq(Byte)
  <2> DEFINE S == {write, Len(text)}
  <2>1. S \in SUBSET Nat /\ S # {} /\ Len(text) \in S
    BY <1>1
  <2>2. Min(S) \in Nat /\ Min(S) <= Len(text)
    <3> HIDE DEF S
    <3> QED BY <2>1, MinIsLeast
  <2> QED BY <1>1, <2>2, PartType
<1>3. /\ phase = "edit" /\ UNCHANGED <<chain, input, object, answers>>
      /\ \/ /\ text' = edited /\ before' = edited
            /\ read' = FirstTrigger("urlDecodeUni", edited) /\ write' = read'
            /\ UNCHANGED <<phase, k, number, result>>
         \/ Proceed(edited, <<>>) /\ UNCHANGED <<before, heads>>
  BY Zenon DEF EndEdit
<1> HIDE DEF edited
<1>4. CASE Proceed(edited, <<>>) /\ UNCHANGED <<before, heads>>
  <2>1. UNCHANGED <<chain, input, object, answers, before, heads>>
    BY <1>3, <1>4
  <2>2. <<>> \in Seq(Int)
    OBVIOUS
  <2> QED BY <1>2, <1>3, <1>4, <2>1, <2>2, ProceedKeeps
<1>5. CASE /\ text' = edited /\ before' = edited
           /\ read' = FirstTrigger("urlDecodeUni", edited) /\ write' = read'
           /\ UNCHANGED <<phase, k, number, result>>
  <2> USE DEF StringsInv, TextInv
  <2>1. /\ chain' = chain /\ input' = input /\ object' = object /\ text' = edited /\ number' = number
        /\ before' = edited /\ result' = result /\ answers' = answers /\ k' = k
        /\ phase = "edit" /\ phase' = "edit" /\ write' = read'
    BY <1>3, <1>5
  <2>2. read' \in Nat
    BY <1>2, <1>5, FirstTriggerIs
  <2>3. TypeOK'
    BY <1>2, <2>1, <2>2 DEF TypeOK
  <2>4. ChainInv'
    BY <2>1 DEF ChainInv, Working
  <2>5. NeverOvertakes' /\ SweepInv'
    BY <2>1, <2>2 DEF NeverOvertakes, Buffer, SweepInv
  <2>6. OriginalUntouched'
    BY <2>1, OriginalKept
  <2> QED BY <2>1, <2>3, <2>4, <2>5, <2>6
<1> QED BY <1>3, <1>4, <1>5

LEMMA StartNormalizeKeeps == StringsInv /\ StartNormalize => StringsInv'
<1> SUFFICES ASSUME StringsInv, StartNormalize PROVE StringsInv'
  OBVIOUS
<1> USE DEF StringsInv, TextInv
<1> DEFINE length == IF Len(text) > MinChunk THEN Len(text) ELSE MinChunk
           chunk == [length |-> length, bytes |-> <<>>]
<1>1. /\ chain' = chain /\ input' = input /\ object' = object /\ text' = text /\ number' = number
      /\ before' = text /\ result' = result /\ answers' = answers /\ k' = k
      /\ read' = read /\ write' = write /\ phase = "apply" /\ phase' = "normalize"
      /\ position' = 0 /\ inflight' = <<>> /\ output' = <<>> /\ chunks' = <<chunk>>
  BY DEF StartNormalize, heads, Normalizer!Begin, Normalizer!NewChunk
<1>2. TypeOK'
  BY <1>1 DEF TypeOK
<1>3. ChainInv'
  BY <1>1 DEF ChainInv, Working
<1>4. NeverOvertakes' /\ SweepInv'
  BY <1>1 DEF NeverOvertakes, SweepInv
<1>5. OriginalUntouched'
  BY <1>1, OriginalKept
<1>6. length \in Nat /\ length >= 4
  BY ChunkAssumption DEF TypeOK
<1>7. chunk.length \in Nat /\ chunk.length >= 4 /\ chunk.bytes = <<>>
      /\ chunk \in [length : Nat, bytes : Seq(Normalizer!Byte)]
  <2> HIDE DEF length
  <2> QED BY <1>6
<1> HIDE DEF chunk
<1>8. ScratchInv'
  <2>1. Normalizer!TypeOK'
    BY <1>1, <1>7 DEF Normalizer!TypeOK
  <2>2. DOMAIN chunks' = {1} /\ chunks'[1] = chunk /\ chunks' # <<>>
    BY <1>1
  <2>3. Len(chunk.bytes) <= chunk.length
    BY <1>7
  <2>4. ChunksInv' /\ ChunksFit'
    BY <1>7, <2>2, <2>3 DEF ChunksInv, ChunksFit, Normalizer!ChunksFit
  <2> QED BY <2>1, <2>4 DEF ScratchInv
<1> QED BY <1>2, <1>3, <1>4, <1>5, <1>8

\* The normalization leaves the chain alone.
LEMMA TextKept ==
  ASSUME StringsInv, UNCHANGED vars
  PROVE  TextInv' /\ phase' = phase
<1> USE DEF StringsInv, TextInv
<1>1. /\ chain' = chain /\ input' = input /\ object' = object /\ phase' = phase /\ k' = k
      /\ answers' = answers /\ text' = text /\ number' = number /\ before' = before
      /\ read' = read /\ write' = write /\ result' = result
  BY DEF vars, heads
<1>2. TypeOK' /\ ChainInv' /\ SweepInv'
  BY <1>1, Zenon DEF TypeOK, ChainInv, SweepInv, HasReference
<1>3. NeverOvertakes'
  BY <1>1, Zenon DEF NeverOvertakes, Buffer
<1>4. OriginalUntouched'
  BY <1>1, OriginalKept
<1> QED BY <1>1, <1>2, <1>3, <1>4

LEMMA DecompositionType ==
  ASSUME NEW cp \in Nat
  PROVE  Normalizer!NormalizeCodepoint(cp) \in Seq(Nat)
<1>1. /\ cp >= MaxCodepoint => Normalizer!NormalizeCodepoint(cp) \in {<<>>, <<cp>>}
      /\ ~(cp >= MaxCodepoint) /\ cp # Normalizer!Joiner /\ cp \in DOMAIN Decomposition =>
             Normalizer!NormalizeCodepoint(cp) = Decomposition[cp]
      /\ ~(cp >= MaxCodepoint) /\ (cp = Normalizer!Joiner \/ cp \notin DOMAIN Decomposition) =>
             Normalizer!NormalizeCodepoint(cp) = <<cp>>
  BY SameBytes DEF Normalizer!NormalizeCodepoint
<1>2. cp \in DOMAIN Decomposition => Decomposition[cp] \in Seq(Nat)
  BY ChunkAssumption
<1>3. <<cp>> \in Seq(Nat) /\ <<>> \in Seq(Nat)
  OBVIOUS
<1> QED BY <1>1, <1>2, <1>3, Zenon

LEMMA FetchKeeps == StringsInv /\ UNCHANGED vars /\ Normalizer!Fetch => ScratchInv'
<1> SUFFICES ASSUME StringsInv, UNCHANGED vars, Normalizer!Fetch PROVE ScratchInv'
  OBVIOUS
<1> USE DEF StringsInv, ScratchInv
<1> DEFINE next == FetchNextCodepoint(From(before, position + 1))
           decomposed == Normalizer!NormalizeCodepoint(next.cp)
<1>1. before \in Seq(Byte) /\ position + 1 \in Nat /\ position + 1 >= 1 /\ position \in Nat
  BY DEF TextInv, TypeOK, Normalizer!TypeOK
<1>2. From(before, position + 1) \in Seq(Byte)
  BY <1>1, FromType
<1>3. next.n \in Nat /\ next.cp \in Nat \cup {Eof, Invalid}
  BY <1>2, FetchedType
<1>4. /\ next.cp # Eof /\ position' = position + next.n
      /\ inflight' = IF next.cp = Invalid \/ Len(decomposed) > Inflight THEN <<>> ELSE decomposed
      /\ chunks' = chunks /\ output' = output
  <2>1. Normalizer!FetchNextCodepoint(Normalizer!From(before, position + 1)) = next
    BY SameFetch
  <2> HIDE DEF next
  <2> QED BY <2>1, SameBytes, Zenon DEF Normalizer!Fetch, next
<1> HIDE DEF next
<1>5. next.cp \in Nat => decomposed \in Seq(Nat)
  BY DecompositionType
<1> HIDE DEF decomposed
<1>6. inflight' \in Seq(Nat) /\ position' \in Nat
  <2>1. next.cp = Invalid => inflight' = <<>>
    BY <1>4
  <2> QED BY <1>1, <1>3, <1>4, <1>5, <2>1
<1>7. phase' = phase
  BY TextKept
<1> QED BY <1>4, <1>6, <1>7
     DEF ChunksInv, ChunksFit, Normalizer!TypeOK, Normalizer!ChunksFit

LEMMA WriteKeeps == StringsInv /\ phase = "normalize" /\ UNCHANGED vars /\ Normalizer!Write => ScratchInv'
<1> SUFFICES ASSUME StringsInv, phase = "normalize", UNCHANGED vars, Normalizer!Write PROVE ScratchInv'
  OBVIOUS
<1> USE DEF StringsInv, ScratchInv
<1> DEFINE Chunk == [length : Nat, bytes : Seq(Byte)]
           bytes == WriteCodepoint(Head(inflight), 4)
           last == chunks[Len(chunks)]
           new == [length |-> last.length, bytes |-> <<>>]
           room == IF Len(last.bytes) + Len(bytes) >= last.length THEN Append(chunks, new) ELSE chunks
           n == Len(room)
           Sound(c) == c \in Chunk /\ c.length >= 4 /\ Len(c.bytes) <= c.length
<1>1. /\ inflight \in Seq(Nat) /\ inflight # <<>> /\ chunks \in Seq(Chunk) /\ chunks # <<>>
      /\ \A c \in DOMAIN chunks : Sound(chunks[c])
  <2> HIDE DEF bytes, last, new, room, n
  <2>1. inflight \in Seq(Nat) /\ chunks \in Seq(Chunk)
    BY SameBytes DEF Normalizer!TypeOK
  <2>2. inflight # <<>> /\ chunks # <<>>
    BY DEF ChunksInv, Normalizer!Write
  <2>3. ASSUME NEW c \in DOMAIN chunks PROVE Sound(chunks[c])
    <3>1. chunks[c].length >= 4 /\ Len(chunks[c].bytes) <= chunks[c].length
      BY DEF ChunksInv, ChunksFit, Normalizer!ChunksFit
    <3>2. chunks[c] \in Chunk
      <4> HIDE DEF Chunk
      <4> QED BY <2>1
    <3> QED BY <3>1, <3>2
  <2> HIDE DEF Sound, Chunk
  <2> QED BY <2>1, <2>2, <2>3
<1>2. Head(inflight) \in Nat /\ Tail(inflight) \in Seq(Nat)
  BY <1>1
<1>3. AtMost(4, bytes)
  BY <1>2, WrittenBytes
<1>4. /\ chunks' = [room EXCEPT ![n].bytes = @ \o bytes]
      /\ inflight' = Tail(inflight) /\ position' = position /\ output' = output
  <2>1. Normalizer!WriteCodepoint(Head(inflight), 4) = bytes
    BY <1>2, SameWrite
  <2> HIDE DEF bytes
  <2> QED BY <2>1, Zenon DEF Normalizer!Write, Normalizer!NewChunk
<1> HIDE DEF bytes
<1>5. bytes \in Seq(Byte) /\ Len(bytes) \in Nat /\ Len(bytes) <= 4
  BY <1>3 DEF AtMost
<1>6. Sound(last)
  <2>1. Len(chunks) \in DOMAIN chunks
    BY <1>1
  <2> HIDE DEF Sound
  <2> QED BY <1>1, <2>1
<1> HIDE DEF last
<1>7. Sound(new) /\ Len(new.bytes) = 0 /\ new.length = last.length /\ last.length \in Nat
  BY <1>6
<1> DEFINE target == room[n]
<1>8. /\ room \in Seq(Chunk) /\ n \in DOMAIN room /\ n = Len(room)
      /\ \A c \in DOMAIN room : Sound(room[c])
      /\ target \in {last, new} /\ (target = last => Len(last.bytes) + Len(bytes) <= last.length)
  <2>1. CASE Len(last.bytes) + Len(bytes) >= last.length
    <3>1. room = Append(chunks, new)
      BY <2>1
    <3> DEFINE size == Len(chunks)
    <3>2. new \in Chunk
      BY <1>7
    <3> HIDE DEF new, Sound, Chunk
    <3>3. /\ room \in Seq(Chunk) /\ Len(room) = size + 1 /\ size \in Nat /\ room[size + 1] = new
          /\ \A c \in 1..size : room[c] = chunks[c]
      BY <1>1, <3>1, <3>2
    <3> HIDE DEF room
    <3>4. DOMAIN room = 1..size + 1 /\ DOMAIN chunks = 1..size
      BY <1>1, <3>3
    <3>5. \A c \in DOMAIN room : Sound(room[c])
      BY <1>1, <1>7, <3>3, <3>4
    <3>6. last.bytes = new.bytes => Len(last.bytes) + Len(bytes) <= last.length
      <4>1. last.bytes = new.bytes => Len(last.bytes) = 0
        BY <1>7
      <4>2. Len(bytes) <= last.length
        BY <1>5, <1>6, <1>7 DEF Sound
      <4> QED BY <1>5, <4>1, <4>2
    <3> QED BY <3>3, <3>4, <3>5, <3>6
  <2>2. CASE ~(Len(last.bytes) + Len(bytes) >= last.length)
    <3>1. room = chunks
      BY <2>2
    <3>2. Len(last.bytes) \in Nat /\ last.length \in Nat
      BY <1>6
    <3>3. Len(last.bytes) + Len(bytes) <= last.length
      BY <1>5, <2>2, <3>2
    <3> HIDE DEF Sound
    <3>4. Len(chunks) \in DOMAIN chunks
      BY <1>1
    <3>5. target = last
      BY <3>1 DEF last
    <3> HIDE DEF room
    <3> QED BY <1>1, <3>1, <3>3, <3>4, <3>5
  <2> QED BY <2>1, <2>2
<1> DEFINE written == [target EXCEPT !.bytes = @ \o bytes]
<1>9. Sound(written)
  <2>1. Sound(target) /\ (target.length \in Nat) /\ Len(target.bytes) \in Nat
    BY <1>6, <1>7, <1>8
  <2>2. Len(target.bytes) + Len(bytes) <= target.length
    <3>1. Len(new.bytes) + Len(bytes) <= new.length
      BY <1>5, <1>6, <1>7
    <3> HIDE DEF new
    <3> QED BY <1>8, <3>1
  <2> HIDE DEF target
  <2>3. written.length = target.length /\ written.bytes = target.bytes \o bytes
        /\ written = [length |-> target.length, bytes |-> target.bytes \o bytes]
    <3>1. ASSUME NEW x, NEW c \in Chunk
          PROVE  /\ [c EXCEPT !.bytes = x] = [length |-> c.length, bytes |-> x]
                 /\ [c EXCEPT !.bytes = x].length = c.length /\ [c EXCEPT !.bytes = x].bytes = x
      OBVIOUS
    <3>2. target \in Chunk
      BY <2>1
    <3> HIDE DEF Chunk
    <3> QED BY <3>1, <3>2, Zenon
  <2>4. target.bytes \o bytes \in Seq(Byte) /\ Len(target.bytes \o bytes) = Len(target.bytes) + Len(bytes)
    BY <1>5, <2>1
  <2> HIDE DEF written
  <2> QED BY <2>1, <2>2, <2>3, <2>4
<1>10. chunks' = [room EXCEPT ![n] = written]
  BY <1>4, Zenon
<1> HIDE DEF written, target, room, n
<1>11. /\ DOMAIN chunks' = DOMAIN room /\ chunks' \in Seq(Chunk) /\ chunks' # <<>>
       /\ \A c \in DOMAIN chunks' : chunks'[c] = IF c = n THEN written ELSE room[c]
  <2>1. written \in Chunk
    BY <1>9
  <2> HIDE DEF Chunk, Sound
  <2> QED BY <1>8, <1>10, <2>1
<1>12. \A c \in DOMAIN chunks' : Sound(chunks'[c])
  <2> HIDE DEF Sound
  <2> QED BY <1>8, <1>9, <1>11
<1>13. Normalizer!TypeOK'
  BY <1>2, <1>4, <1>11, SameBytes DEF Normalizer!TypeOK
<1>14. ChunksInv' /\ ChunksFit'
  BY <1>11, <1>12 DEF ChunksInv, ChunksFit, Normalizer!ChunksFit
<1> QED BY <1>13, <1>14

LEMMA FinishKeeps == StringsInv /\ UNCHANGED vars /\ Normalizer!Finish => ScratchInv'
<1> SUFFICES ASSUME StringsInv, UNCHANGED vars, Normalizer!Finish PROVE ScratchInv'
  OBVIOUS
<1> USE DEF StringsInv, ScratchInv
<1> DEFINE parts == [c \in DOMAIN chunks |-> chunks[c].bytes]
<1>1. chunks \in Seq([length : Nat, bytes : Seq(Byte)])
  BY SameBytes DEF Normalizer!TypeOK
<1>2. parts \in Seq(Seq(Byte))
  <2>1. \A c \in 1..Len(chunks) : chunks[c].bytes \in Seq(Byte)
    <3> TAKE c \in 1..Len(chunks)
    <3> DEFINE Chunk == [length : Nat, bytes : Seq(Byte)]
    <3>1. chunks[c] \in Chunk
      <4>1. chunks \in Seq(Chunk)
        BY <1>1
      <4> HIDE DEF Chunk
      <4> QED BY <4>1
    <3> QED BY <3>1
  <2>2. parts \in [1..Len(chunks) -> Seq(Byte)]
    BY <1>1, <2>1
  <2> QED BY <1>1, <2>2
<1>3. /\ output' = <<FlattenSeq(parts)>> /\ position' = position /\ inflight' = inflight
      /\ chunks' = chunks
  BY SameFlatten, Zenon DEF Normalizer!Finish
<1> HIDE DEF parts
<1>4. FlattenSeq(parts) \in Seq(Byte)
  BY <1>2, FlatIsTyped DEF Flat
<1>5. output' \in Seq(Seq(Byte)) /\ Len(output') <= 1
  <2> DEFINE flat == FlattenSeq(parts)
  <2> HIDE DEF flat
  <2>1. <<flat>> \in Seq(Seq(Byte)) /\ Len(<<flat>>) <= 1
    BY <1>4 DEF flat
  <2> QED BY <1>3, <2>1 DEF flat
<1>6. phase' = phase
  BY TextKept
<1> QED BY <1>3, <1>5, <1>6, SameBytes
     DEF ChunksInv, ChunksFit, Normalizer!TypeOK, Normalizer!ChunksFit

LEMMA EndNormalizeKeeps == StringsInv /\ EndNormalize => TextInv' /\ phase' # "normalize"
<1> SUFFICES ASSUME StringsInv, EndNormalize PROVE TextInv' /\ phase' # "normalize"
  OBVIOUS
<1>1. output[1] \in Seq(Byte) /\ <<>> \in Seq(Int)
  BY SameBytes DEF StringsInv, ScratchInv, Normalizer!TypeOK, EndNormalize
<1>2. /\ phase \in {"apply", "edit", "normalize"} /\ Proceed(output[1], <<>>)
      /\ UNCHANGED <<chain, input, object, answers, before, heads>>
  BY Zenon DEF EndNormalize
<1> QED BY <1>1, <1>2, ProceedKeeps, Zenon

LEMMA StringsInvNext == StringsInv /\ [StringNext]_allVars => StringsInv'
<1> SUFFICES ASSUME StringsInv, [StringNext]_allVars PROVE StringsInv'
  OBVIOUS
<1>1. ASSUME UNCHANGED scratch, TextInv', phase' # "normalize" PROVE StringsInv'
  BY <1>1, ScratchKept DEF StringsInv
<1>2. CASE Next /\ UNCHANGED scratch
  <2>1. TextInv' /\ phase' # "normalize"
    BY <1>2, CheckKeeps, CheckHtmlKeeps, StartSweepKeeps, SweepKeeps, EndSweepKeeps, PassOriginalKeeps,
       CopyKeeps, FailKeeps, ConvertKeeps, StartEditKeeps, EditKeeps, EndEditKeeps, Zenon DEF Next
  <2> QED BY <1>1, <1>2, <2>1
<1>3. CASE CheckUnicode
  <2>1. UNCHANGED scratch
    BY <1>3, Zenon DEF CheckUnicode
  <2> QED BY <1>1, <1>3, <2>1, CheckUnicodeKeeps
<1>4. CASE StartNormalize
  BY <1>4, StartNormalizeKeeps
<1>5. CASE Normalize
  <2>1. phase = "normalize" /\ UNCHANGED vars /\ Normalizer!Next
    BY <1>5, Zenon DEF Normalize
  <2>2. TextInv'
    BY <2>1, TextKept
  <2>3. ScratchInv'
    BY <2>1, FetchKeeps, WriteKeeps, FinishKeeps, Zenon DEF Normalizer!Next
  <2> QED BY <2>2, <2>3 DEF StringsInv
<1>6. CASE EndNormalize
  <2>1. UNCHANGED scratch
    BY <1>6, Zenon DEF EndNormalize
  <2> QED BY <1>1, <1>6, <2>1, EndNormalizeKeeps
<1>7. CASE UNCHANGED allVars
  <2>1. UNCHANGED vars /\ UNCHANGED scratch
    BY <1>7, Zenon DEF allVars
  <2>2. TextInv' /\ phase' = phase
    BY <2>1, TextKept
  <2> QED BY <2>1, <2>2, ScratchKept DEF StringsInv
<1> QED BY <1>2, <1>3, <1>4, <1>5, <1>6, <1>7, Zenon DEF StringNext

\* The invariant holds whatever the chain, the string and the table are.
LEMMA StringsInvariant == Spec => []StringsInv
<1>1. StringInit => StringsInv
  BY StringsInvInit
<1>2. StringsInv /\ [StringNext]_allVars => StringsInv'
  BY StringsInvNext
<1> QED BY <1>1, <1>2, PTL DEF Spec

\* Every variable of the chain keeps its type: the bytes that decoders,
\* encoders and normalizers write are bytes, and numbers are numbers.
THEOREM StringsTypeCorrect == Spec => []StringTypeOK
<1>1. StringsInv => StringTypeOK
  BY DEF StringsInv, TextInv, ScratchInv, StringTypeOK
<1> QED BY <1>1, StringsInvariant, PTL

\* No editing loop of a transformer writes over a byte it has not read,
\* whatever the text, the transformer and the ones before it.
THEOREM LoopsNeverOvertake == Spec => []NeverOvertakes
<1>1. StringsInv => NeverOvertakes
  BY DEF StringsInv, TextInv
<1> QED BY <1>1, StringsInvariant, PTL

\* The caller's string is left alone, but for numeric references of HTML.
THEOREM CallersStringUntouched == Spec => []OriginalUntouched
<1>1. StringsInv => OriginalUntouched
  BY DEF StringsInv, TextInv
<1> QED BY <1>1, StringsInvariant, PTL

\* No chunk of the scratchpad of the normalization is written past its end.
THEOREM NormalizedChunksFit == Spec => []ChunksFit
<1>1. StringsInv => ChunksFit
  BY DEF StringsInv, ScratchInv
<1> QED BY <1>1, StringsInvariant, PTL

-----------------------------------------------------------------------------
(* The codepoints of a text *)

LEMMA FetchedIs ==
  ASSUME NEW rest \in Seq(Byte)
  PROVE  /\ FetchNextCodepoint(rest).cp = Eof <=> rest = <<>>
         /\ rest # <<>> => FetchNextCodepoint(rest).n \in 1..Len(rest)
<1> DEFINE n == FindNextGlyphLength(rest)
           header == CASE n = 2 -> rest[1] % 32 [] n = 3 -> rest[1] % 16 [] n = 4 -> rest[1] % 8
           value == FoldLeft(LAMBDA v, b : 64 * v + (b % 64), header, SubSeq(rest, 2, n))
           fetched == FetchNextCodepoint(rest)
<1>1. n \in {0, -1, 1, 2, 3, 4} /\ n <= Len(rest)
  BY GlyphLength
<1>2. n = 0 <=> rest = <<>>
  <2>1. rest = <<>> => n = 0
    BY DEF FindNextGlyphLength
  <2>2. ASSUME rest # <<>> PROVE n # 0
    <3> DEFINE e == Announced(rest[1])
    <3>1. e \in {1, 2, 3, 4, -1}
      BY DEF Announced
    <3> HIDE DEF e
    <3>2. n \in {e, -1}
      BY <2>2 DEF FindNextGlyphLength, e
    <3> HIDE DEF n
    <3> QED BY <3>1, <3>2
  <2> QED BY <2>1, <2>2
<1>3. fetched = CASE n = 0 -> [cp |-> Eof, n |-> 0]
                  [] n = -1 -> [cp |-> Invalid, n |-> 1]
                  [] n = 1 -> [cp |-> rest[1], n |-> 1]
                  [] OTHER -> [cp |-> value, n |-> n]
  BY DEF FetchNextCodepoint
<1>4. n \in {2, 3, 4} => value \in Nat
  <2> SUFFICES ASSUME n \in {2, 3, 4} PROVE value \in Nat
    OBVIOUS
  <2>1. rest[1] \in Byte /\ SubSeq(rest, 2, n) \in Seq(Byte)
    BY <1>1
  <2>2. rest[1] % 32 \in Nat /\ rest[1] % 16 \in Nat /\ rest[1] % 8 \in Nat
    BY <2>1, ByteParts, Zenon
  <2>3. header \in Nat
    <3> HIDE DEF n
    <3> QED BY <2>2
  <2> HIDE DEF header, n
  <2> QED BY <2>1, <2>3, SixBitsType
<1>5. n = 1 => rest[1] \in Nat
  <2>1. ASSUME n = 1 PROVE rest[1] \in Byte
    BY <1>1, <2>1
  <2> HIDE DEF n
  <2> QED BY <2>1, ByteParts, Zenon
<1>6. rest # <<>> => Len(rest) \in Nat /\ Len(rest) >= 1
  OBVIOUS
<1> HIDE DEF value, n, fetched
<1>7. n # 0 => fetched.n \in {n, 1} /\ fetched.n >= 1 /\ (n >= 1 => fetched.n = n)
  BY <1>1, <1>3
<1>8. fetched.cp = Eof <=> n = 0
  BY <1>1, <1>3, <1>4, <1>5 DEF Eof, Invalid
<1>9. rest # <<>> => fetched.n \in 1..Len(rest)
  BY <1>1, <1>2, <1>6, <1>7
<1> QED BY <1>2, <1>8, <1>9 DEF fetched

\* The glyph at a place of a text, what is kept of it, and the codepoints from
\* there on when those after it are known.
Glyph(t, i) == FetchNextCodepoint(From(t, i))
Kept(t, i) == IF Glyph(t, i).cp = Invalid THEN <<>> ELSE <<Glyph(t, i).cp>>
CodesAt(t, i, f) == IF Glyph(t, i).cp = Eof THEN <<>> ELSE Kept(t, i) \o f[i + Glyph(t, i).n]

LEMMA GlyphIs ==
  ASSUME NEW t \in Seq(Byte), NEW i \in 1..Len(t) + 1
  PROVE  /\ Glyph(t, i).cp = Eof <=> i = Len(t) + 1
         /\ Glyph(t, i).cp \in Nat \cup {Eof, Invalid}
         /\ Glyph(t, i).cp # Eof => /\ Glyph(t, i).n \in 1..Len(t)
                                    /\ i + Glyph(t, i).n \in i + 1..Len(t) + 1
<1> DEFINE rest == From(t, i)
           n == Len(t)
<1>1. n \in Nat /\ i \in Nat /\ i >= 1 /\ i <= n + 1
  OBVIOUS
<1>2. /\ rest \in Seq(Byte)
      /\ i <= n => Len(rest) = n - i + 1
      /\ i > n => rest = <<>>
  <2>1. /\ From(t, i) \in Seq(Byte)
        /\ i <= Len(t) => Len(From(t, i)) = Len(t) - i + 1
        /\ i > Len(t) => From(t, i) = <<>>
    BY <1>1, FromType
  <2> QED BY <2>1
<1> HIDE DEF rest
<1>3. rest = <<>> <=> i = n + 1
  <2>1. rest = <<>> => Len(rest) = 0
    OBVIOUS
  <2> HIDE DEF n
  <2> QED BY <1>1, <1>2, <2>1
<1>4. /\ FetchNextCodepoint(rest).cp = Eof <=> rest = <<>>
      /\ rest # <<>> => FetchNextCodepoint(rest).n \in 1..Len(rest)
      /\ FetchNextCodepoint(rest).cp \in Nat \cup {Eof, Invalid}
  BY <1>2, FetchedIs, FetchedType
<1>5. Glyph(t, i) = FetchNextCodepoint(rest)
  BY DEF Glyph, rest
<1> DEFINE m == Glyph(t, i).n
<1>6. rest # <<>> => m \in 1..Len(rest) /\ Len(rest) = n - i + 1
  <2> HIDE DEF n
  <2> QED BY <1>1, <1>2, <1>3, <1>4, <1>5
<1> HIDE DEF m
<1>7. rest # <<>> => m \in 1..n /\ i + m \in i + 1..n + 1
  <2> HIDE DEF n
  <2> QED BY <1>1, <1>6
<1> QED BY <1>3, <1>4, <1>5, <1>7 DEF m, n

\* What the read-only pass computes, in its own words and place by place.
Scan(t, f) ==
    f = [i \in 1..Len(t) + 1 |->
            LET next == Normalizer!FetchNextCodepoint(Normalizer!From(t, i))
            IN IF next.cp = Normalizer!Eof THEN <<>>
               ELSE (IF next.cp = Normalizer!Invalid THEN <<>> ELSE <<next.cp>>) \o f[i + next.n]]
Codes(t) == CHOOSE f : Scan(t, f)

LEMMA CodesAtIs ==
  ASSUME NEW t, NEW f, NEW i
  PROVE  CodesAt(t, i, f) =
            LET next == Normalizer!FetchNextCodepoint(Normalizer!From(t, i))
            IN IF next.cp = Normalizer!Eof THEN <<>>
               ELSE (IF next.cp = Normalizer!Invalid THEN <<>> ELSE <<next.cp>>) \o f[i + next.n]
<1>1. Normalizer!FetchNextCodepoint(Normalizer!From(t, i)) = Glyph(t, i)
  BY SameFetch DEF Glyph
<1> QED BY <1>1, SameBytes, Zenon DEF CodesAt, Kept

LEMMA ScanExists ==
  ASSUME NEW t \in Seq(Byte)
  PROVE  \E f : Scan(t, f)
<1> DEFINE n == Len(t)
           Reached(m, f) == \A i \in n + 1 - m..n + 1 : f[i] = CodesAt(t, i, f)
           T == {m \in 0..n : \E f : Reached(m, f)}
<1>1. n \in Nat
  OBVIOUS
<1>2. 0 \in T
  <2> DEFINE f == [i \in 1..n + 1 |-> <<>>]
  <2>1. n + 1 \in 1..n + 1 /\ f[n + 1] = <<>>
    BY <1>1
  <2>2. Glyph(t, n + 1).cp = Eof
    <3>1. n + 1 \in 1..Len(t) + 1
      BY <2>1
    <3> QED BY <3>1, GlyphIs
  <2>3. \A i \in n + 1 - 0..n + 1 : i = n + 1
    <3> HIDE DEF n
    <3> QED BY <1>1
  <2> HIDE DEF n, f
  <2>4. Reached(0, f)
    BY <2>1, <2>2, <2>3 DEF CodesAt
  <2> QED BY <1>1, <2>4
<1>3. ASSUME NEW m \in 1..n, m - 1 \in T
      PROVE  m \in T
  <2>1. PICK f : Reached(m - 1, f)
    BY <1>3
  <2> DEFINE p == n + 1 - m
             g == [i \in 1..n + 1 |-> IF i = p THEN CodesAt(t, p, f) ELSE f[i]]
  <2>2. ASSUME NEW i \in p..n + 1
        PROVE  g[i] = CodesAt(t, i, g)
    <3> DEFINE next == i + Glyph(t, i).n
    <3>1. /\ i \in 1..n + 1 /\ p \in 1..n + 1 /\ p <= i
          /\ i # p => i \in n + 1 - (m - 1)..n + 1
      <4> HIDE DEF n
      <4> QED BY <1>1
    <3>2. Glyph(t, i).cp # Eof => next \in i + 1..n + 1
      BY <3>1, GlyphIs
    <3>3. Glyph(t, i).cp # Eof => next \in 1..n + 1 /\ next # p
      <4> HIDE DEF next, p, n
      <4> QED BY <1>1, <3>1, <3>2
    <3>4. Glyph(t, i).cp # Eof => g[next] = f[next]
      <4> HIDE DEF next, p, n
      <4> QED BY <3>3
    <3>5. CodesAt(t, i, g) = CodesAt(t, i, f)
      <4> HIDE DEF g
      <4> QED BY <3>4, Zenon DEF CodesAt
    <3>6. g[i] = CodesAt(t, i, f)
      <4> HIDE DEF p, n
      <4>1. g[i] = IF i = p THEN CodesAt(t, p, f) ELSE f[i]
        BY <3>1
      <4>2. i # p => f[i] = CodesAt(t, i, f)
        BY <2>1, <3>1
      <4> HIDE DEF g
      <4> QED BY <4>1, <4>2
    <3> QED BY <3>5, <3>6, Zenon
  <2>3. Reached(m, g)
    BY <2>2
  <2>4. m \in 0..n
    <3> HIDE DEF n
    <3> QED BY <1>1
  <2> HIDE DEF g, Reached
  <2> QED BY <2>3, <2>4
<1>4. n \in T
  <2>1. T \in SUBSET (0..n)
    OBVIOUS
  <2>2. n \in 0..n
    <3> HIDE DEF n
    <3> QED BY <1>1
  <2> HIDE DEF T, n
  <2> QED BY <1>1, <1>2, <1>3, <2>1, <2>2, Counting
<1>5. PICK f : Reached(n, f)
  BY <1>4
<1> DEFINE g == [i \in 1..n + 1 |-> f[i]]
<1>6. ASSUME NEW i \in 1..n + 1
      PROVE  g[i] = CodesAt(t, i, g)
  <2> DEFINE next == i + Glyph(t, i).n
  <2>1. Glyph(t, i).cp # Eof => next \in i + 1..n + 1
    BY GlyphIs
  <2>2. Glyph(t, i).cp # Eof => next \in 1..n + 1
    <3> HIDE DEF next, n
    <3> QED BY <1>1, <2>1
  <2>3. Glyph(t, i).cp # Eof => g[next] = f[next]
    <3> HIDE DEF next, n
    <3> QED BY <2>2
  <2>4. g[i] = f[i] /\ i \in n + 1 - n..n + 1
    <3> HIDE DEF n
    <3> QED BY <1>1
  <2>5. f[i] = CodesAt(t, i, f)
    <3> HIDE DEF n
    <3> QED BY <1>5, <2>4
  <2> HIDE DEF g
  <2>6. CodesAt(t, i, g) = CodesAt(t, i, f)
    BY <2>3, Zenon DEF CodesAt
  <2> QED BY <2>4, <2>5, <2>6, Zenon
<1> DEFINE h == [i \in 1..n + 1 |->
            LET next == Normalizer!FetchNextCodepoint(Normalizer!From(t, i))
            IN IF next.cp = Normalizer!Eof THEN <<>>
               ELSE (IF next.cp = Normalizer!Invalid THEN <<>> ELSE <<next.cp>>) \o g[i + next.n]]
<1>7. \A i \in 1..n + 1 : g[i] = h[i]
  <2> TAKE i \in 1..n + 1
  <2>1. h[i] = LET next == Normalizer!FetchNextCodepoint(Normalizer!From(t, i))
               IN IF next.cp = Normalizer!Eof THEN <<>>
                  ELSE (IF next.cp = Normalizer!Invalid THEN <<>> ELSE <<next.cp>>) \o g[i + next.n]
    <3> HIDE DEF g
    <3> QED BY Zenon
  <2> HIDE DEF g, h
  <2> QED BY <1>6, <2>1, CodesAtIs, Zenon
<1>8. g = h
  <2>1. g = [i \in 1..n + 1 |-> g[i]] /\ h = [i \in 1..n + 1 |-> h[i]]
    OBVIOUS
  <2> HIDE DEF g, h
  <2> QED BY <1>7, <2>1
<1>9. Scan(t, g)
  <2> HIDE DEF g
  <2> QED BY <1>8, Zenon DEF Scan
<1> HIDE DEF g
<1> QED BY <1>9

LEMMA CodesAre ==
  ASSUME NEW t \in Seq(Byte)
  PROVE  /\ \A i \in 1..Len(t) + 1 : Codes(t)[i] = CodesAt(t, i, Codes(t))
         /\ \A i \in 1..Len(t) + 1 : Codes(t)[i] \in Seq(Nat)
         /\ Normalizer!Valid(t) = Codes(t)[1]
<1> DEFINE n == Len(t)
           f == Codes(t)
<1>1. n \in Nat
  OBVIOUS
<1>2. Scan(t, f)
  BY ScanExists, Zenon DEF Codes
<1>3. Normalizer!Valid(t) = f[1]
  BY Zenon DEF Normalizer!Valid, Codes, Scan
<1> HIDE DEF f
<1>4. ASSUME NEW i \in 1..n + 1
      PROVE  f[i] = CodesAt(t, i, f)
  <2>1. f[i] = LET next == Normalizer!FetchNextCodepoint(Normalizer!From(t, i))
               IN IF next.cp = Normalizer!Eof THEN <<>>
                  ELSE (IF next.cp = Normalizer!Invalid THEN <<>> ELSE <<next.cp>>) \o f[i + next.n]
    BY <1>2, Zenon DEF Scan
  <2> QED BY <2>1, CodesAtIs, Zenon
<1> DEFINE T == {m \in 0..n : \A i \in n + 1 - m..n + 1 : f[i] \in Seq(Nat)}
<1>5. 0 \in T
  <2>1. n + 1 \in 1..n + 1 /\ \A i \in n + 1 - 0..n + 1 : i = n + 1
    <3> HIDE DEF n
    <3> QED BY <1>1
  <2>2. Glyph(t, n + 1).cp = Eof
    <3>1. n + 1 \in 1..Len(t) + 1
      BY <2>1
    <3> QED BY <3>1, GlyphIs
  <2> HIDE DEF n
  <2>3. f[n + 1] = <<>>
    BY <1>4, <2>1, <2>2, Zenon DEF CodesAt
  <2>4. <<>> \in Seq(Nat)
    OBVIOUS
  <2>5. 0 \in 0..n
    BY <1>1
  <2>6. \A i \in n + 1 - 0..n + 1 : f[i] \in Seq(Nat)
    BY <2>1, <2>3, <2>4, Zenon
  <2> QED BY <2>5, <2>6, Zenon
<1>6. ASSUME NEW m \in 1..n, m - 1 \in T
      PROVE  m \in T
  <2> DEFINE p == n + 1 - m
  <2>1. /\ p \in 1..n + 1 /\ m \in 0..n
        /\ \A i \in p..n + 1 : i # p => i \in n + 1 - (m - 1)..n + 1
        /\ \A i \in p + 1..n + 1 : i \in n + 1 - (m - 1)..n + 1
    <3> HIDE DEF n
    <3> QED BY <1>1
  <2>2. \A i \in n + 1 - (m - 1)..n + 1 : f[i] \in Seq(Nat)
    BY <1>6
  <2> DEFINE glyph == Glyph(t, p)
             rest == f[p + glyph.n]
  <2>3. /\ glyph.cp \in Nat \cup {Eof, Invalid}
        /\ glyph.cp # Eof => p + glyph.n \in p + 1..n + 1
    <3>1. p \in 1..Len(t) + 1
      BY <2>1
    <3> HIDE DEF p
    <3> QED BY <3>1, GlyphIs
  <2> HIDE DEF p
  <2>4. f[p] = IF glyph.cp = Eof THEN <<>> ELSE Kept(t, p) \o rest
    BY <1>4, <2>1 DEF CodesAt
  <2>5. glyph.cp # Eof => rest \in Seq(Nat)
    BY <2>1, <2>2, <2>3
  <2>6. glyph.cp # Eof => Kept(t, p) \in Seq(Nat)
    <3>1. Kept(t, p) = IF glyph.cp = Invalid THEN <<>> ELSE <<glyph.cp>>
      BY DEF Kept
    <3> HIDE DEF glyph
    <3> QED BY <2>3, <3>1
  <2> HIDE DEF rest, glyph
  <2>7. f[p] \in Seq(Nat)
    BY <2>4, <2>5, <2>6
  <2>8. \A i \in p..n + 1 : f[i] \in Seq(Nat)
    BY <2>1, <2>2, <2>7
  <2> QED BY <2>1, <2>8 DEF p
<1>7. n \in T
  <2>1. T \in SUBSET (0..n)
    OBVIOUS
  <2>2. n \in 0..n
    <3> HIDE DEF n
    <3> QED BY <1>1
  <2> HIDE DEF T, n
  <2> QED BY <1>1, <1>5, <1>6, <2>1, <2>2, Counting
<1>8. \A i \in 1..n + 1 : f[i] \in Seq(Nat)
  <2>1. n + 1 - n = 1
    <3> HIDE DEF n
    <3> QED BY <1>1
  <2> HIDE DEF n
  <2> QED BY <1>7, <2>1
<1> QED BY <1>3, <1>4, <1>8 DEF f

-----------------------------------------------------------------------------
(* What is written of the codepoints *)

\* What a decomposition is written as, and each of some codepoints.
Pieces(s) == [c \in DOMAIN s |-> Normalizer!WriteCodepoint(s[c], 4)]
Marks(s) == [j \in DOMAIN s |-> Normalizer!Written(s[j])]

LEMMA PiecesType ==
  ASSUME NEW s \in Seq(Nat)
  PROVE  /\ Pieces(s) \in Seq(Seq(Byte)) /\ Len(Pieces(s)) = Len(s)
         /\ \A c \in 1..Len(s) : Pieces(s)[c] = WriteCodepoint(s[c], 4)
<1>1. ASSUME NEW c \in 1..Len(s)
      PROVE  Normalizer!WriteCodepoint(s[c], 4) \in Seq(Byte)
             /\ Normalizer!WriteCodepoint(s[c], 4) = WriteCodepoint(s[c], 4)
  <2> DEFINE cp == s[c]
  <2>1. cp \in Nat /\ 4 \in Nat
    OBVIOUS
  <2> HIDE DEF cp
  <2>2. AtMost(4, WriteCodepoint(cp, 4))
    BY <2>1, WrittenBytes
  <2>3. Normalizer!WriteCodepoint(cp, 4) = WriteCodepoint(cp, 4)
    BY <2>1, SameWrite
  <2> QED BY <2>2, <2>3 DEF AtMost, cp
<1>2. DOMAIN s = 1..Len(s) /\ Len(s) \in Nat
  OBVIOUS
<1>3. Pieces(s) \in [1..Len(s) -> Seq(Byte)]
  BY <1>1, <1>2 DEF Pieces
<1>4. Pieces(s) \in Seq(Seq(Byte)) /\ Len(Pieces(s)) = Len(s)
  BY <1>2, <1>3
<1>5. \A c \in 1..Len(s) : Pieces(s)[c] = WriteCodepoint(s[c], 4)
  BY <1>1, <1>2, Zenon DEF Pieces
<1> QED BY <1>4, <1>5

LEMMA WrittenType ==
  ASSUME NEW cp \in Nat
  PROVE  /\ Normalizer!Written(cp) \in Seq(Byte)
         /\ Normalizer!Written(cp) =
                IF Len(Normalizer!NormalizeCodepoint(cp)) > Inflight THEN <<>>
                ELSE Flat(Pieces(Normalizer!NormalizeCodepoint(cp)))
<1> DEFINE d == Normalizer!NormalizeCodepoint(cp)
<1>1. Normalizer!Written(cp) = IF Len(d) > Inflight THEN <<>> ELSE Flat(Pieces(d))
  BY SameFlatten, Zenon DEF Normalizer!Written, Flat, Pieces
<1>2. d \in Seq(Nat)
  BY DecompositionType
<1> HIDE DEF d
<1>3. Pieces(d) \in Seq(Seq(Byte))
  BY <1>2, PiecesType
<1>4. Flat(Pieces(d)) \in Seq(Byte)
  BY <1>3, FlatIsTyped
<1>5. <<>> \in Seq(Byte)
  OBVIOUS
<1> QED BY <1>1, <1>4, <1>5 DEF d

LEMMA MarksType ==
  ASSUME NEW s \in Seq(Nat)
  PROVE  /\ Marks(s) \in Seq(Seq(Byte)) /\ Len(Marks(s)) = Len(s)
         /\ \A c \in 1..Len(s) : Marks(s)[c] = Normalizer!Written(s[c])
<1>1. ASSUME NEW c \in 1..Len(s)
      PROVE  Normalizer!Written(s[c]) \in Seq(Byte)
  <2> DEFINE cp == s[c]
  <2>1. cp \in Nat
    OBVIOUS
  <2> HIDE DEF cp
  <2>2. Normalizer!Written(cp) \in Seq(Byte)
    BY <2>1, WrittenType
  <2> QED BY <2>2 DEF cp
<1>2. DOMAIN s = 1..Len(s) /\ Len(s) \in Nat
  OBVIOUS
<1>3. Marks(s) \in [1..Len(s) -> Seq(Byte)]
  BY <1>1, <1>2 DEF Marks
<1>4. Marks(s) \in Seq(Seq(Byte)) /\ Len(Marks(s)) = Len(s)
  BY <1>2, <1>3
<1>5. \A c \in 1..Len(s) : Marks(s)[c] = Normalizer!Written(s[c])
  BY <1>1, <1>2, Zenon DEF Marks
<1> QED BY <1>4, <1>5

\* What the codepoints from a place on are written as.
Rest(t, i) == Flat(Marks(Codes(t)[i]))

LEMMA RestIs ==
  ASSUME NEW t \in Seq(Byte), NEW i \in 1..Len(t) + 1
  PROVE  /\ Rest(t, i) \in Seq(Byte)
         /\ Glyph(t, i).cp = Eof => Rest(t, i) = <<>>
         /\ Glyph(t, i).cp = Invalid => Rest(t, i) = Rest(t, i + Glyph(t, i).n)
         /\ Glyph(t, i).cp \in Nat =>
                Rest(t, i) = Normalizer!Written(Glyph(t, i).cp) \o Rest(t, i + Glyph(t, i).n)
<1> DEFINE f == Codes(t)
           cp == Glyph(t, i).cp
           next == i + Glyph(t, i).n
<1>1. f[i] = CodesAt(t, i, f) /\ f[i] \in Seq(Nat)
  BY CodesAre
<1>2. Rest(t, i) \in Seq(Byte)
  <2> DEFINE s == f[i]
  <2>1. s \in Seq(Nat)
    BY <1>1
  <2> HIDE DEF s, f
  <2>2. Flat(Marks(s)) \in Seq(Byte)
    BY <2>1, MarksType, FlatIsTyped
  <2> QED BY <2>2 DEF Rest, s, f
<1>3. cp # Eof => next \in 1..Len(t) + 1 /\ f[next] \in Seq(Nat)
  <2> SUFFICES ASSUME cp # Eof PROVE next \in 1..Len(t) + 1 /\ f[next] \in Seq(Nat)
    OBVIOUS
  <2>1. next \in i + 1..Len(t) + 1
    BY GlyphIs
  <2>2. next \in 1..Len(t) + 1
    <3> HIDE DEF next
    <3> QED BY <2>1
  <2> HIDE DEF next
  <2> QED BY <2>2, CodesAre
<1>4. f[i] = IF cp = Eof THEN <<>> ELSE (IF cp = Invalid THEN <<>> ELSE <<cp>>) \o f[next]
  <2> HIDE DEF f
  <2> QED BY <1>1, Zenon DEF CodesAt, Kept
<1>5. Rest(t, i) = Flat(Marks(f[i])) /\ Rest(t, next) = Flat(Marks(f[next]))
  BY Zenon DEF Rest
<1>6. Eof \notin Nat /\ Invalid \notin Nat /\ Eof # Invalid
  BY DEF Eof, Invalid
<1> HIDE DEF f, cp, next
<1>7. cp = Eof => Rest(t, i) = <<>>
  <2> SUFFICES ASSUME cp = Eof PROVE Rest(t, i) = <<>>
    OBVIOUS
  <2> DEFINE s == f[i]
  <2>1. s = <<>>
    BY <1>4
  <2> HIDE DEF s
  <2>2. Marks(s) = <<>>
    <3>1. s \in Seq(Nat) /\ Len(s) = 0
      BY <2>1
    <3>2. Marks(s) \in Seq(Seq(Byte)) /\ Len(Marks(s)) = 0
      BY <3>1, MarksType
    <3> QED BY <3>2
  <2> QED BY <1>5, <2>2, FlatNothing, Zenon DEF s
<1>8. cp = Invalid => Rest(t, i) = Rest(t, next)
  <2> SUFFICES ASSUME cp = Invalid PROVE Rest(t, i) = Rest(t, next)
    OBVIOUS
  <2> DEFINE s == f[next]
  <2>1. s \in Seq(Nat)
    BY <1>3, <1>6
  <2>2. f[i] = <<>> \o s
    BY <1>4, <1>6
  <2> HIDE DEF s
  <2>3. <<>> \o s = s
    BY <2>1
  <2> QED BY <1>5, <2>2, <2>3 DEF s
<1>9. cp \in Nat => Rest(t, i) = Normalizer!Written(cp) \o Rest(t, next)
  <2> SUFFICES ASSUME cp \in Nat PROVE Rest(t, i) = Normalizer!Written(cp) \o Rest(t, next)
    OBVIOUS
  <2> DEFINE s == f[next]
             whole == f[i]
  <2>1. s \in Seq(Nat) /\ whole \in Seq(Nat)
    BY <1>1, <1>3, <1>6
  <2>2. whole = <<cp>> \o s
    BY <1>4, <1>6
  <2> HIDE DEF s, whole
  <2>3. /\ Len(whole) = Len(s) + 1 /\ Len(s) \in Nat /\ whole[1] = cp
        /\ \A j \in 1..Len(s) : whole[j + 1] = s[j]
    BY <2>1, <2>2
  <2> DEFINE a == Marks(s)
             b == Marks(whole)
  <2>4. /\ a \in Seq(Seq(Byte)) /\ Len(a) = Len(s)
        /\ \A c \in 1..Len(s) : a[c] = Normalizer!Written(s[c])
    BY <2>1, MarksType
  <2>5. /\ b \in Seq(Seq(Byte)) /\ Len(b) = Len(whole)
        /\ \A c \in 1..Len(whole) : b[c] = Normalizer!Written(whole[c])
    BY <2>1, MarksType
  <2> HIDE DEF a, b
  <2>6. Len(b) = Len(a) + 1 /\ b[1] = Normalizer!Written(cp)
    BY <2>3, <2>4, <2>5
  <2>7. \A j \in 1..Len(a) : b[j + 1] = a[j]
    <3> TAKE j \in 1..Len(a)
    <3>1. j \in 1..Len(s) /\ j + 1 \in 1..Len(whole)
      BY <2>3, <2>4
    <3> QED BY <2>3, <2>4, <2>5, <3>1
  <2>8. Flat(b) = b[1] \o Flat(a)
    BY <2>4, <2>5, <2>6, <2>7, FlatFirst
  <2> QED BY <1>5, <2>6, <2>8 DEF a, b, s, whole
<1> QED BY <1>2, <1>7, <1>8, <1>9 DEF cp, next

-----------------------------------------------------------------------------
(* What the scratchpad holds *)

Chunk == [length : Nat, bytes : Seq(Byte)]
Parts(c) == [i \in DOMAIN c |-> c[i].bytes]
Text(c) == Flat(Parts(c))

LEMMA PartsType ==
  ASSUME NEW c \in Seq(Chunk)
  PROVE  /\ Parts(c) \in Seq(Seq(Byte)) /\ Len(Parts(c)) = Len(c)
         /\ \A i \in 1..Len(c) : Parts(c)[i] = c[i].bytes
<1>1. ASSUME NEW i \in 1..Len(c)
      PROVE  c[i].bytes \in Seq(Byte)
  <2>1. c[i] \in Chunk
    OBVIOUS
  <2> QED BY <2>1 DEF Chunk
<1>2. DOMAIN c = 1..Len(c) /\ Len(c) \in Nat
  OBVIOUS
<1>3. Parts(c) \in [1..Len(c) -> Seq(Byte)]
  BY <1>1, <1>2 DEF Parts
<1>4. Parts(c) \in Seq(Seq(Byte)) /\ Len(Parts(c)) = Len(c)
  BY <1>2, <1>3
<1>5. \A i \in 1..Len(c) : Parts(c)[i] = c[i].bytes
  BY <1>2, Zenon DEF Parts
<1> QED BY <1>4, <1>5

\* The last sequence grows.
LEMMA FlatGrows ==
  ASSUME NEW S, NEW a \in Seq(Seq(S)), NEW b \in Seq(Seq(S)), NEW x \in Seq(S),
         NEW n \in Nat, n # 0, Len(a) = n, Len(b) = n,
         \A i \in 1..n : b[i] = IF i = n THEN a[i] \o x ELSE a[i]
  PROVE  Flat(b) = Flat(a) \o x
<1> DEFINE front == SubSeq(a, 1, n - 1)
           last == a[n]
           begin == Flat(front)
<1>1. /\ n \in 1..n /\ last \in Seq(S) /\ b[n] = last \o x
      /\ \A i \in 1..n - 1 : b[i] = a[i]
  OBVIOUS
<1>2. front \in Seq(Seq(S)) /\ Len(front) = n - 1 /\ \A i \in 1..n - 1 : front[i] = a[i]
  OBVIOUS
<1> HIDE DEF front, last
<1>3. begin \in Seq(S)
  BY <1>2, FlatIsTyped
<1>4. Flat(a) = begin \o last
  <2>1. /\ Len(a) = Len(front) + 1 /\ a[Len(a)] = last
        /\ \A i \in 1..Len(front) : a[i] = front[i]
    BY <1>2 DEF last
  <2> QED BY <1>2, <2>1, FlatLast
<1>5. Flat(b) = begin \o (last \o x)
  <2>1. /\ Len(b) = Len(front) + 1 /\ b[Len(b)] = last \o x
        /\ \A i \in 1..Len(front) : b[i] = front[i]
    BY <1>1, <1>2
  <2>2. Flat(b) = Flat(front) \o b[Len(b)]
    BY <1>2, <2>1, FlatLast
  <2> QED BY <2>1, <2>2, Zenon
<1> HIDE DEF begin
<1>6. (begin \o last) \o x = begin \o (last \o x)
  <2>1. Associates(S)
    BY Joins, Zenon
  <2> QED BY <1>1, <1>3, <2>1, Zenon DEF Associates
<1> QED BY <1>4, <1>5, <1>6

\* An empty chunk holds nothing.
LEMMA TextOfNewChunk ==
  ASSUME NEW c \in Seq(Chunk), NEW d \in Seq(Chunk), Len(d) = Len(c) + 1,
         \A i \in 1..Len(c) : d[i] = c[i], d[Len(d)].bytes = <<>>
  PROVE  Text(d) = Text(c)
<1> DEFINE a == Parts(c)
           b == Parts(d)
           n == Len(c)
<1>1. n \in Nat /\ Len(d) = n + 1 /\ n + 1 \in 1..n + 1
  OBVIOUS
<1>2. a \in Seq(Seq(Byte)) /\ Len(a) = n /\ \A i \in 1..n : a[i] = c[i].bytes
  BY PartsType
<1>3. b \in Seq(Seq(Byte)) /\ Len(b) = n + 1 /\ \A i \in 1..n + 1 : b[i] = d[i].bytes
  BY <1>1, PartsType
<1> HIDE DEF a, b
<1>4. \A i \in 1..Len(a) : b[i] = a[i]
  <2> TAKE i \in 1..Len(a)
  <2>1. i \in 1..n /\ i \in 1..n + 1 /\ d[i] = c[i]
    BY <1>1, <1>2
  <2> QED BY <1>2, <1>3, <2>1, Zenon
<1>5. b[Len(b)] = <<>> /\ Len(b) = Len(a) + 1
  BY <1>1, <1>2, <1>3
<1>6. Flat(b) = Flat(a) \o <<>>
  <2>1. Flat(b) = Flat(a) \o b[Len(b)]
    BY <1>2, <1>3, <1>4, <1>5, FlatLast
  <2> QED BY <1>5, <2>1
<1>7. Flat(a) \o <<>> = Flat(a)
  <2> DEFINE x == Flat(a)
  <2>1. x \in Seq(Byte)
    BY <1>2, FlatIsTyped
  <2> HIDE DEF x
  <2>2. x \o <<>> = x
    BY <2>1
  <2> QED BY <2>2 DEF x
<1> QED BY <1>6, <1>7 DEF Text, a, b

\* Whatever chunk is written to, the text grows at its end.
LEMMA TextGrows ==
  ASSUME NEW bytes \in Seq(Byte), NEW c \in Seq(Chunk), c # <<>>
  PROVE  Text([c EXCEPT ![Len(c)].bytes = @ \o bytes]) = Text(c) \o bytes
<1> DEFINE n == Len(c)
           d == [c EXCEPT ![Len(c)].bytes = @ \o bytes]
           last == c[n]
           new == [last EXCEPT !.bytes = @ \o bytes]
<1>1. n \in Nat /\ n # 0 /\ n \in 1..n /\ last \in Chunk /\ DOMAIN c = 1..n
  OBVIOUS
<1>2. d = [c EXCEPT ![n] = new]
  BY Zenon
<1> HIDE DEF d, last
<1>3. new \in Chunk /\ new.bytes = last.bytes \o bytes
  <2>1. last.length \in Nat /\ last.bytes \in Seq(Byte)
        /\ last = [length |-> last.length, bytes |-> last.bytes]
    BY <1>1 DEF Chunk
  <2>2. new = [length |-> last.length, bytes |-> last.bytes \o bytes]
    <3>1. ASSUME NEW x, NEW r \in [length : Nat, bytes : Seq(Byte)]
          PROVE  [r EXCEPT !.bytes = x] = [length |-> r.length, bytes |-> x]
      OBVIOUS
    <3>2. last \in [length : Nat, bytes : Seq(Byte)]
      BY <1>1 DEF Chunk
    <3> QED BY <3>1, <3>2, Zenon
  <2>3. last.bytes \o bytes \in Seq(Byte)
    BY <2>1
  <2> HIDE DEF new
  <2> QED BY <2>1, <2>2, <2>3 DEF Chunk
<1> HIDE DEF new
<1>4. /\ d \in Seq(Chunk) /\ Len(d) = n
      /\ \A i \in 1..n : d[i] = IF i = n THEN new ELSE c[i]
  <2>1. c \in [1..n -> Chunk]
    OBVIOUS
  <2> HIDE DEF n
  <2>2. /\ d \in [1..n -> Chunk]
        /\ \A i \in 1..n : d[i] = IF i = n THEN new ELSE c[i]
    BY <1>1, <1>2, <1>3, <2>1
  <2>3. d \in Seq(Chunk) /\ Len(d) = n
    BY <1>1, <2>2
  <2> QED BY <2>2, <2>3
<1> DEFINE a == Parts(c)
           b == Parts(d)
<1>5. a \in Seq(Seq(Byte)) /\ Len(a) = n /\ \A i \in 1..n : a[i] = c[i].bytes
  BY PartsType
<1>6. b \in Seq(Seq(Byte)) /\ Len(b) = n /\ \A i \in 1..n : b[i] = d[i].bytes
  BY <1>4, PartsType
<1> HIDE DEF a, b, n
<1>7. \A i \in 1..n : b[i] = IF i = n THEN a[i] \o bytes ELSE a[i]
  <2> TAKE i \in 1..n
  <2>1. CASE i = n
    <3>1. b[i] = new.bytes /\ a[i] = last.bytes
      BY <1>4, <1>5, <1>6, <2>1, Zenon DEF last
    <3> QED BY <1>3, <2>1, <3>1
  <2>2. CASE i # n
    <3>1. b[i] = d[i].bytes /\ a[i] = c[i].bytes /\ d[i] = c[i]
      BY <1>4, <1>5, <1>6, <2>2, Zenon
    <3> QED BY <2>2, <3>1
  <2> QED BY <2>1, <2>2
<1>8. Flat(b) = Flat(a) \o bytes
  BY <1>1, <1>5, <1>6, <1>7, FlatGrows
<1>9. Text(d) = Text(c) \o bytes
  BY <1>8, Zenon DEF Text, a, b
<1> QED BY <1>9 DEF d

-----------------------------------------------------------------------------
(* The decomposition *)

\* What has been written, what is about to be and what the rest of the text
\* comes to are together what the whole text comes to.
Agrees(t, p, s, c, out) ==
    /\ p \in 0..Len(t)
    /\ out = <<>> => (Text(c) \o Flat(Pieces(s))) \o Rest(t, p + 1) = Rest(t, 1)
    /\ out # <<>> => out = <<Rest(t, 1)>>
DecompInv == phase = "normalize" => Agrees(before, position, inflight, chunks, output)

LEMMA DecompIs ==
  DecompInv' <=> (phase' = "normalize" => Agrees(before', position', inflight', chunks', output'))
BY Zenon DEF DecompInv, Agrees, Text, Parts, Flat, Pieces, Rest, Marks, Codes, Scan

\* What the state of the normalization consists of.
LEMMA ScratchTypes ==
  ASSUME StringsInv
  PROVE  /\ before \in Seq(Byte) /\ position \in Nat /\ inflight \in Seq(Nat)
         /\ chunks \in Seq(Chunk) /\ output \in Seq(Seq(Byte))
         /\ Text(chunks) \in Seq(Byte) /\ Flat(Pieces(inflight)) \in Seq(Byte)
<1>1. before \in Seq(Byte)
  BY DEF StringsInv, TextInv, TypeOK
<1>2. position \in Nat /\ inflight \in Seq(Nat) /\ output \in Seq(Seq(Byte))
  BY SameBytes DEF StringsInv, ScratchInv, Normalizer!TypeOK
<1>3. chunks \in Seq(Chunk)
  BY SameBytes DEF StringsInv, ScratchInv, Normalizer!TypeOK, Chunk
<1>4. Text(chunks) \in Seq(Byte)
  <2>1. Parts(chunks) \in Seq(Seq(Byte))
    BY <1>3, PartsType
  <2> QED BY <2>1, FlatIsTyped DEF Text
<1>5. Flat(Pieces(inflight)) \in Seq(Byte)
  <2>1. Pieces(inflight) \in Seq(Seq(Byte))
    BY <1>2, PiecesType
  <2> QED BY <2>1, FlatIsTyped
<1> QED BY <1>1, <1>2, <1>3, <1>4, <1>5

LEMMA NoPieces == Flat(Pieces(<<>>)) = <<>>
<1>1. <<>> \in Seq(Nat) /\ Len(<<>>) = 0
  OBVIOUS
<1>2. Pieces(<<>>) \in Seq(Seq(Byte)) /\ Len(Pieces(<<>>)) = 0
  BY <1>1, PiecesType
<1>3. Pieces(<<>>) = <<>>
  BY <1>2
<1> QED BY <1>3, FlatNothing

LEMMA BytesAssociate == Associates(Byte)
BY Joins, Zenon

LEMMA StartAgrees == StringsInv /\ StartNormalize => DecompInv'
<1> SUFFICES ASSUME StringsInv, StartNormalize PROVE DecompInv'
  OBVIOUS
<1> DEFINE chunk == Normalizer!NewChunk(IF Len(text) > MinChunk THEN Len(text) ELSE MinChunk)
<1>1. /\ before' = text /\ position' = 0 /\ inflight' = <<>> /\ output' = <<>>
      /\ chunks' = <<chunk>>
  BY Zenon DEF StartNormalize, Normalizer!Begin
<1>2. text \in Seq(Byte)
  BY DEF StringsInv, TextInv, TypeOK
<1>3. chunk \in Chunk /\ chunk.bytes = <<>>
  BY <1>2, ChunkAssumption DEF Normalizer!NewChunk, Chunk
<1> HIDE DEF chunk
<1>4. Text(<<chunk>>) = <<>>
  <2> DEFINE none == <<>>
             one == <<chunk>>
  <2>1. /\ none \in Seq(Chunk) /\ one \in Seq(Chunk) /\ Len(one) = Len(none) + 1
        /\ \A i \in 1..Len(none) : one[i] = none[i]
        /\ one[Len(one)].bytes = <<>>
    BY <1>3
  <2>2. Parts(none) \in Seq(Seq(Byte)) /\ Len(Parts(none)) = 0
    <3>1. Len(none) = 0
      OBVIOUS
    <3> HIDE DEF none
    <3> QED BY <2>1, <3>1, PartsType
  <2>3. Parts(none) = <<>>
    BY <2>2
  <2> HIDE DEF none, one
  <2>4. Text(one) = Text(none)
    BY <2>1, TextOfNewChunk
  <2> QED BY <2>3, <2>4, FlatNothing DEF Text, one
<1>5. Rest(text, 1) \in Seq(Byte) /\ 0 \in 0..Len(text)
  <2>1. 1 \in 1..Len(text) + 1 /\ 0 \in 0..Len(text)
    BY <1>2
  <2> QED BY <1>2, <2>1, RestIs
<1>6. (<<>> \o <<>>) \o Rest(text, 1) = Rest(text, 1)
  <2> DEFINE r == Rest(text, 1)
  <2>1. r \in Seq(Byte)
    BY <1>5
  <2> HIDE DEF r
  <2>2. (<<>> \o <<>>) \o r = r
    BY <2>1
  <2> QED BY <2>2 DEF r
<1>7. Agrees(text, 0, <<>>, <<chunk>>, <<>>)
  <2>1. 0 + 1 = 1
    OBVIOUS
  <2> QED BY <1>4, <1>5, <1>6, <2>1, NoPieces, Zenon DEF Agrees
<1> QED BY <1>1, <1>7, DecompIs, Zenon

LEMMA FetchAgrees ==
  StringsInv /\ DecompInv /\ phase = "normalize" /\ UNCHANGED vars /\ Normalizer!Fetch => DecompInv'
<1> SUFFICES ASSUME StringsInv, DecompInv, phase = "normalize", UNCHANGED vars, Normalizer!Fetch
             PROVE  DecompInv'
  OBVIOUS
<1> DEFINE t == before
           p == position
           glyph == Glyph(t, p + 1)
           d == Normalizer!NormalizeCodepoint(glyph.cp)
           s == IF glyph.cp = Invalid \/ Len(d) > Inflight THEN <<>> ELSE d
           all == Text(chunks)
           rest == Rest(t, p + 1)
           after == Rest(t, p + glyph.n + 1)
           written == Flat(Pieces(s))
<1>1. Agrees(t, p, inflight, chunks, output)
  BY DEF DecompInv
<1>2. /\ inflight = <<>> /\ output = <<>> /\ glyph.cp # Eof /\ before' = t
      /\ position' = p + glyph.n /\ inflight' = s /\ chunks' = chunks /\ output' = output
  <2>1. Normalizer!FetchNextCodepoint(Normalizer!From(t, p + 1)) = glyph
    BY SameFetch DEF Glyph
  <2>2. before' = t
    BY DEF vars
  <2> HIDE DEF glyph
  <2> QED BY <2>1, <2>2, SameBytes, Zenon DEF Normalizer!Fetch
<1>3. t \in Seq(Byte) /\ p \in Nat /\ all \in Seq(Byte) /\ p \in 0..Len(t) /\ Len(t) \in Nat
  <2>1. t \in Seq(Byte) /\ p \in Nat /\ all \in Seq(Byte)
    BY ScratchTypes
  <2>2. p \in 0..Len(t)
    BY <1>1 DEF Agrees
  <2> QED BY <2>1, <2>2
<1>4. p + 1 \in 1..Len(t) + 1
  <2> DEFINE n == Len(t)
  <2>1. n \in Nat /\ p \in 0..n
    BY <1>3
  <2> HIDE DEF n, p
  <2>2. p + 1 \in 1..n + 1
    BY <2>1
  <2> QED BY <2>2 DEF n
<1>5. /\ glyph.cp \in Nat \cup {Eof, Invalid}
      /\ glyph.n \in Nat /\ p + glyph.n \in 0..Len(t) /\ (p + 1) + glyph.n = (p + glyph.n) + 1
      /\ (p + glyph.n) + 1 \in 1..Len(t) + 1
  <2> DEFINE i == p + 1
             n == Len(t)
             m == Glyph(t, i).n
  <2>1. i \in 1..Len(t) + 1
    BY <1>4
  <2> HIDE DEF i
  <2>2. /\ Glyph(t, i).cp \in Nat \cup {Eof, Invalid}
        /\ Glyph(t, i).cp # Eof => m \in 1..n /\ i + m \in i + 1..n + 1
    BY <1>3, <2>1, GlyphIs
  <2>3. m \in 1..n /\ i + m \in i + 1..n + 1 /\ n \in Nat /\ p \in Nat /\ i = p + 1
    BY <1>2, <1>3, <2>2 DEF i
  <2> HIDE DEF n, m, p
  <2>4. m \in Nat /\ p + m \in 0..n /\ (p + 1) + m = (p + m) + 1 /\ (p + m) + 1 \in 1..n + 1
    BY <2>3
  <2> QED BY <2>2, <2>4 DEF i, m, n, p
<1>6. /\ rest \in Seq(Byte)
      /\ glyph.cp = Invalid => rest = after
      /\ glyph.cp \in Nat => rest = Normalizer!Written(glyph.cp) \o after
  <2> DEFINE i == p + 1
  <2>1. i \in 1..Len(t) + 1
    BY <1>4
  <2> HIDE DEF i
  <2>2. /\ Rest(t, i) \in Seq(Byte)
        /\ Glyph(t, i).cp = Invalid => Rest(t, i) = Rest(t, i + Glyph(t, i).n)
        /\ Glyph(t, i).cp \in Nat =>
               Rest(t, i) = Normalizer!Written(Glyph(t, i).cp) \o Rest(t, i + Glyph(t, i).n)
    BY <1>3, <2>1, RestIs
  <2>3. i + Glyph(t, i).n = p + glyph.n + 1
    BY <1>5 DEF i
  <2> QED BY <2>2, <2>3, Zenon DEF i
<1>7. after \in Seq(Byte)
  <2> DEFINE i == (p + glyph.n) + 1
  <2>1. i \in 1..Len(t) + 1
    BY <1>5
  <2> HIDE DEF i
  <2>2. Rest(t, i) \in Seq(Byte)
    BY <1>3, <2>1, RestIs
  <2> QED BY <2>2 DEF i
<1>8. (all \o <<>>) \o rest = Rest(t, 1)
  BY <1>1, <1>2, NoPieces, Zenon DEF Agrees
<1>9. written \in Seq(Byte) /\ written \o after = rest
  <2>1. CASE glyph.cp = Invalid
    <3>1. s = <<>>
      BY <2>1
    <3>2. written = <<>>
      BY <3>1, NoPieces
    <3>3. <<>> \o after = after /\ <<>> \in Seq(Byte)
      <4> HIDE DEF after
      <4> QED BY <1>7
    <3> HIDE DEF written, after, rest
    <3> QED BY <1>6, <2>1, <3>2, <3>3
  <2>2. CASE glyph.cp \in Nat
    <3>1. glyph.cp # Invalid
      BY <2>2 DEF Invalid
    <3> DEFINE cp == glyph.cp
    <3>2. /\ Normalizer!Written(cp) \in Seq(Byte)
          /\ Normalizer!Written(cp) = IF Len(d) > Inflight THEN <<>> ELSE Flat(Pieces(d))
      <4>1. cp \in Nat
        BY <2>2
      <4> HIDE DEF cp
      <4>2. /\ Normalizer!Written(cp) \in Seq(Byte)
            /\ Normalizer!Written(cp) =
                   IF Len(Normalizer!NormalizeCodepoint(cp)) > Inflight THEN <<>>
                   ELSE Flat(Pieces(Normalizer!NormalizeCodepoint(cp)))
        BY <4>1, WrittenType
      <4> QED BY <4>2 DEF cp
    <3>3. Normalizer!Written(cp) = written
      <4> HIDE DEF d, cp, glyph
      <4>1. CASE Len(d) > Inflight
        <5>1. s = <<>>
          BY <4>1
        <5> QED BY <3>2, <4>1, <5>1, NoPieces, Zenon
      <4>2. CASE ~(Len(d) > Inflight)
        <5>1. s = d
          BY <3>1, <4>2 DEF cp
        <5> QED BY <3>2, <4>2, <5>1, Zenon
      <4> QED BY <4>1, <4>2
    <3> HIDE DEF written, after, rest
    <3> QED BY <1>6, <2>2, <3>2, <3>3
  <2>3. glyph.cp \in Nat \/ glyph.cp = Invalid
    BY <1>2, <1>5
  <2> QED BY <2>1, <2>2, <2>3
<1> HIDE DEF all, written, after, rest
<1>10. (all \o written) \o after = Rest(t, 1)
  <2>1. (all \o written) \o after = all \o (written \o after)
    BY <1>3, <1>7, <1>9, BytesAssociate, Zenon DEF Associates
  <2>2. all \o <<>> = all
    BY <1>3
  <2> QED BY <1>8, <1>9, <2>1, <2>2
<1>11. Agrees(t, p + glyph.n, s, chunks, <<>>)
  BY <1>5, <1>10, Zenon DEF Agrees, all, written, after
<1> QED BY <1>2, <1>11, DecompIs, Zenon

LEMMA WriteAgrees ==
  StringsInv /\ DecompInv /\ phase = "normalize" /\ UNCHANGED vars /\ Normalizer!Write => DecompInv'
<1> SUFFICES ASSUME StringsInv, DecompInv, phase = "normalize", UNCHANGED vars, Normalizer!Write
             PROVE  DecompInv'
  OBVIOUS
<1> DEFINE bytes == WriteCodepoint(Head(inflight), 4)
           last == chunks[Len(chunks)]
           new == [length |-> last.length, bytes |-> <<>>]
           room == IF Len(last.bytes) + Len(bytes) >= last.length THEN Append(chunks, new) ELSE chunks
           all == Text(chunks)
           rest == Rest(before, position + 1)
           later == Flat(Pieces(Tail(inflight)))
<1>1. Agrees(before, position, inflight, chunks, output)
  BY DEF DecompInv
<1>2. /\ before \in Seq(Byte) /\ position \in Nat /\ inflight \in Seq(Nat) /\ chunks \in Seq(Chunk)
      /\ all \in Seq(Byte) /\ inflight # <<>> /\ chunks # <<>>
  <2>1. inflight # <<>>
    BY DEF Normalizer!Write
  <2>2. chunks # <<>>
    BY DEF StringsInv, ScratchInv, ChunksInv
  <2> QED BY <2>1, <2>2, ScratchTypes
<1>3. Head(inflight) \in Nat /\ Tail(inflight) \in Seq(Nat)
  BY <1>2
<1>4. bytes \in Seq(Byte)
  <2>1. AtMost(4, bytes)
    BY <1>3, WrittenBytes
  <2> QED BY <2>1 DEF AtMost
<1>5. /\ chunks' = [room EXCEPT ![Len(room)].bytes = @ \o bytes]
      /\ inflight' = Tail(inflight) /\ position' = position /\ output' = output /\ before' = before
  <2>1. Normalizer!WriteCodepoint(Head(inflight), 4) = bytes
    BY <1>3, SameWrite
  <2>2. before' = before
    BY DEF vars
  <2> HIDE DEF bytes
  <2> QED BY <2>1, <2>2, Zenon DEF Normalizer!Write, Normalizer!NewChunk
<1> HIDE DEF bytes
<1>6. room \in Seq(Chunk) /\ room # <<>> /\ Text(room) = all
  <2>1. CASE Len(last.bytes) + Len(bytes) >= last.length
    <3>1. room = Append(chunks, new)
      BY <2>1
    <3>2. last \in Chunk
      BY <1>2
    <3> HIDE DEF last
    <3>3. new \in Chunk /\ new.bytes = <<>>
      BY <3>2 DEF Chunk
    <3> HIDE DEF new, room
    <3>4. /\ room \in Seq(Chunk) /\ room # <<>> /\ Len(room) = Len(chunks) + 1
          /\ \A i \in 1..Len(chunks) : room[i] = chunks[i]
          /\ room[Len(room)] = new
      BY <1>2, <3>1, <3>3
    <3>5. room[Len(room)].bytes = <<>>
      BY <3>3, <3>4
    <3> QED BY <1>2, <3>4, <3>5, TextOfNewChunk
  <2>2. CASE ~(Len(last.bytes) + Len(bytes) >= last.length)
    <3>1. room = chunks
      BY <2>2
    <3> QED BY <1>2, <3>1
  <2> QED BY <2>1, <2>2
<1> HIDE DEF room
<1>7. Text(chunks') = all \o bytes
  <2> DEFINE d == [room EXCEPT ![Len(room)].bytes = @ \o bytes]
  <2>1. Text(d) = Text(room) \o bytes
    BY <1>4, <1>6, TextGrows
  <2> HIDE DEF d
  <2>2. chunks' = d
    BY <1>5 DEF d
  <2> QED BY <1>6, <2>1, <2>2
<1>8. later \in Seq(Byte) /\ Flat(Pieces(inflight)) = bytes \o later
  <2> DEFINE a == Pieces(Tail(inflight))
             b == Pieces(inflight)
             tail == Tail(inflight)
  <2>1. /\ a \in Seq(Seq(Byte)) /\ Len(a) = Len(tail)
        /\ \A c \in 1..Len(tail) : a[c] = WriteCodepoint(tail[c], 4)
    BY <1>3, PiecesType
  <2>2. /\ b \in Seq(Seq(Byte)) /\ Len(b) = Len(inflight)
        /\ \A c \in 1..Len(inflight) : b[c] = WriteCodepoint(inflight[c], 4)
    BY <1>2, PiecesType
  <2>3. /\ Len(inflight) \in Nat /\ Len(inflight) = Len(tail) + 1 /\ Len(tail) \in Nat
        /\ inflight[1] = Head(inflight)
        /\ \A c \in 1..Len(tail) : inflight[c + 1] = tail[c]
    BY <1>2
  <2> HIDE DEF a, b, tail
  <2>4. Len(b) = Len(a) + 1 /\ b[1] = bytes
    <3>1. 1 \in 1..Len(inflight)
      BY <2>3
    <3> QED BY <2>1, <2>2, <2>3, <3>1 DEF bytes
  <2>5. \A c \in 1..Len(a) : b[c + 1] = a[c]
    <3> TAKE c \in 1..Len(a)
    <3>1. c \in 1..Len(tail) /\ c + 1 \in 1..Len(inflight)
      BY <2>1, <2>3
    <3> QED BY <2>1, <2>2, <2>3, <3>1
  <2>6. Flat(b) = b[1] \o Flat(a)
    BY <2>1, <2>2, <2>4, <2>5, FlatFirst
  <2>7. Flat(a) \in Seq(Byte)
    BY <2>1, FlatIsTyped
  <2> QED BY <2>4, <2>6, <2>7 DEF a, b
<1>9. rest \in Seq(Byte) /\ position \in 0..Len(before)
  <2> DEFINE i == position + 1
  <2>1. position \in 0..Len(before)
    BY <1>1 DEF Agrees
  <2>2. i \in 1..Len(before) + 1
    BY <1>2, <2>1
  <2> HIDE DEF i
  <2>3. Rest(before, i) \in Seq(Byte)
    BY <1>2, <2>2, RestIs
  <2> QED BY <2>1, <2>3 DEF i
<1> HIDE DEF all, rest, later
<1>10. (all \o bytes) \o later = all \o (bytes \o later)
  BY <1>2, <1>4, <1>8, BytesAssociate, Zenon DEF Associates
<1>11. Agrees(before, position, Tail(inflight), chunks', output)
  <2>1. output = <<>> => (all \o (bytes \o later)) \o rest = Rest(before, 1)
    BY <1>1, <1>8, Zenon DEF Agrees, all, rest
  <2>2. output = <<>> => (Text(chunks') \o later) \o rest = Rest(before, 1)
    BY <1>7, <1>10, <2>1, Zenon
  <2>3. output # <<>> => output = <<Rest(before, 1)>>
    BY <1>1, Zenon DEF Agrees
  <2> QED BY <1>9, <2>2, <2>3, Zenon DEF Agrees, later, rest
<1> QED BY <1>5, <1>11, DecompIs, Zenon

LEMMA FinishAgrees ==
  StringsInv /\ DecompInv /\ phase = "normalize" /\ UNCHANGED vars /\ Normalizer!Finish => DecompInv'
<1> SUFFICES ASSUME StringsInv, DecompInv, phase = "normalize", UNCHANGED vars, Normalizer!Finish
             PROVE  DecompInv'
  OBVIOUS
<1> DEFINE all == Text(chunks)
<1>1. Agrees(before, position, inflight, chunks, output)
  BY DEF DecompInv
<1>2. /\ inflight = <<>> /\ output = <<>> /\ Glyph(before, position + 1).cp = Eof
      /\ output' = <<all>> /\ position' = position /\ before' = before
      /\ inflight' = inflight /\ chunks' = chunks
  <2>1. Normalizer!FetchNextCodepoint(Normalizer!From(before, position + 1)) = Glyph(before, position + 1)
    BY SameFetch DEF Glyph
  <2>2. before' = before
    BY DEF vars
  <2>3. /\ inflight = <<>> /\ output = <<>> /\ Glyph(before, position + 1).cp = Eof
        /\ position' = position /\ inflight' = inflight /\ chunks' = chunks
    BY <2>1, SameBytes, Zenon DEF Normalizer!Finish
  <2>4. output' = <<all>>
    BY SameFlatten, Zenon DEF Normalizer!Finish, Text, Parts, Flat
  <2> QED BY <2>2, <2>3, <2>4
<1>3. /\ before \in Seq(Byte) /\ all \in Seq(Byte) /\ position \in 0..Len(before)
  <2>1. position \in 0..Len(before)
    BY <1>1 DEF Agrees
  <2> QED BY <2>1, ScratchTypes
<1>4. Rest(before, position + 1) = <<>>
  <2> DEFINE i == position + 1
  <2>1. i \in 1..Len(before) + 1
    BY <1>3
  <2>2. Glyph(before, i).cp = Eof
    BY <1>2
  <2> HIDE DEF i
  <2>3. Rest(before, i) = <<>>
    BY <1>3, <2>1, <2>2, RestIs
  <2> QED BY <2>3 DEF i
<1>5. (all \o <<>>) \o <<>> = Rest(before, 1)
  BY <1>1, <1>2, <1>4, NoPieces, Zenon DEF Agrees
<1> HIDE DEF all
<1>6. all \o <<>> = all
  BY <1>3
<1>7. all = Rest(before, 1) /\ <<all>> # <<>>
  BY <1>5, <1>6
<1>8. Agrees(before, position, inflight, chunks, <<all>>)
  BY <1>3, <1>7, Zenon DEF Agrees
<1> QED BY <1>2, <1>8, DecompIs, Zenon

\* The sweep, the loops and the other transformers are not at it.
LEMMA DecompInvNext ==
  StringsInv /\ DecompInv /\ [StringNext]_allVars => DecompInv'
<1> SUFFICES ASSUME StringsInv, DecompInv, [StringNext]_allVars PROVE DecompInv'
  OBVIOUS
<1>1. ASSUME phase' # "normalize" PROVE DecompInv'
  BY <1>1, DecompIs
<1>2. CASE Next /\ UNCHANGED scratch
  <2>1. phase' # "normalize"
    BY <1>2, CheckKeeps, CheckHtmlKeeps, StartSweepKeeps, SweepKeeps, EndSweepKeeps, PassOriginalKeeps,
       CopyKeeps, FailKeeps, ConvertKeeps, StartEditKeeps, EditKeeps, EndEditKeeps, Zenon DEF Next
  <2> QED BY <1>1, <2>1
<1>3. CASE CheckUnicode
  BY <1>1, <1>3, CheckUnicodeKeeps
<1>4. CASE StartNormalize
  BY <1>4, StartAgrees
<1>5. CASE Normalize
  <2>1. phase = "normalize" /\ UNCHANGED vars /\ Normalizer!Next
    BY <1>5, Zenon DEF Normalize
  <2> QED BY <2>1, FetchAgrees, WriteAgrees, FinishAgrees, Zenon DEF Normalizer!Next
<1>6. CASE EndNormalize
  BY <1>1, <1>6, EndNormalizeKeeps
<1>7. CASE UNCHANGED allVars
  <2>1. UNCHANGED vars /\ UNCHANGED scratch
    BY <1>7, Zenon DEF allVars
  <2>2. /\ phase' = phase /\ before' = before /\ position' = position /\ inflight' = inflight
        /\ chunks' = chunks /\ output' = output
    BY <2>1 DEF vars, scratch
  <2> QED BY <2>2, DecompIs, Zenon DEF DecompInv
<1> QED BY <1>2, <1>3, <1>4, <1>5, <1>6, <1>7, Zenon DEF StringNext

\* Whatever the text, the table and the size of the chunks are, the normalized
\* text is the decomposition of the valid codepoints, one after the other.
THEOREM NormalizedIsTheDecomposition == Spec => []IsTheDecomposition
<1>1. StringInit => DecompInv
  <2> SUFFICES ASSUME StringInit PROVE DecompInv
    OBVIOUS
  <2>1. phase # "normalize"
    BY DEF StringInit, Init
  <2> QED BY <2>1 DEF DecompInv
<1>2. StringsInv /\ StringsInv' /\ DecompInv /\ [StringNext]_allVars => DecompInv'
  BY DecompInvNext
<1>3. StringsInv /\ DecompInv => IsTheDecomposition
  <2> SUFFICES ASSUME StringsInv, DecompInv, phase = "normalize", output # <<>>
               PROVE  output[1] = Normalizer!FlattenSeq([i \in DOMAIN Normalizer!Valid(before) |->
                                      Normalizer!Written(Normalizer!Valid(before)[i])])
    BY Zenon DEF IsTheDecomposition, Normalizer!IsTheDecomposition
  <2>1. output = <<Rest(before, 1)>>
    BY DEF DecompInv, Agrees
  <2>2. before \in Seq(Byte)
    BY ScratchTypes
  <2>3. Normalizer!Valid(before) = Codes(before)[1]
    BY <2>2, CodesAre
  <2>4. output[1] = Rest(before, 1)
    <3> DEFINE r == Rest(before, 1)
    <3> HIDE DEF r
    <3>1. <<r>>[1] = r
      OBVIOUS
    <3> QED BY <2>1, <3>1 DEF r
  <2> QED BY <2>3, <2>4, SameFlatten, Zenon DEF Rest, Flat, Marks
<1> QED BY <1>1, <1>2, <1>3, StringsInvariant, PTL DEF Spec
=============================================================================
