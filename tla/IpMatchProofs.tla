--------------------------- MODULE IpMatchProofs ---------------------------
(***************************************************************************)
(* Proofs about the tree of networks.  What holds of any tree in which     *)
(* pointers go both ways and the children of a node continue its bits      *)
(* comes first, with the two ways of inserting a node; then the recursive  *)
(* descents; then the actions, the refinement of PrefixMap, and the match. *)
(***************************************************************************)
EXTENDS IpMatch, FiniteSetTheorems, WellFoundedInduction, TLAPS

-----------------------------------------------------------------------------
(* Least elements, which stand for induction *)

Smallest(s, T) == \A t \in T : t \subseteq s => t = s

\* A set of finite sets has a smallest one.
LEMMA SmallestSet ==
  ASSUME NEW S, NEW T, T \subseteq SUBSET S, T # {}, \A t \in T : IsFiniteSet(t)
  PROVE  \E s \in T : Smallest(s, T)
<1>1. T \subseteq FiniteSubsetsOf(S)
  BY DEF FiniteSubsetsOf
<1>2. PICK s \in T : \A t \in T : <<t, s>> \notin StrictSubsetOrdering(S)
  BY <1>1, FS_StrictSubsetOrderingWellFounded, WFMin, Zenon
<1>3. ASSUME NEW t \in T, t \subseteq s
      PROVE  t = s
  <2>1. <<t, s>> \notin StrictSubsetOrdering(S)
    BY <1>2
  <2> QED BY <2>1, <1>3 DEF StrictSubsetOrdering
<1> QED BY <1>3 DEF Smallest

LEMMA LeastNumber ==
  ASSUME NEW S \in SUBSET Nat, S # {}
  PROVE  \E n \in S : \A m \in S : n <= m
<1> DEFINE T == {1..n : n \in S}
<1>1. \A t \in T : IsFiniteSet(t)
  <2>1. \A n \in S : IsFiniteSet(1..n)
    BY FS_Interval
  <2> QED BY <2>1
<1>2. PICK s \in T : Smallest(s, T)
  <2>1. T \subseteq SUBSET Nat
    OBVIOUS
  <2>2. T # {}
    OBVIOUS
  <2> HIDE DEF T
  <2> QED BY <1>1, <2>1, <2>2, SmallestSet, Zenon
<1>3. PICK n \in S : s = 1..n
  OBVIOUS
<1>4. ASSUME NEW m \in S, m < n
      PROVE  FALSE
  <2>1. 1..m \in T /\ 1..m \subseteq s
    BY <1>3, <1>4
  <2>2. 1..m = 1..n
    BY <2>1, <1>2, <1>3, Zenon DEF Smallest
  <2>3. n \in 1..n /\ n \notin 1..m
    BY <1>4
  <2> QED BY <2>2, <2>3
<1> QED BY <1>4

LEMMA MinIsLeast ==
  ASSUME NEW S \in SUBSET Nat, S # {}
  PROVE  Min(S) \in S /\ \A m \in S : Min(S) <= m
BY LeastNumber DEF Min

LEMMA MaxIsGreatest ==
  ASSUME NEW n \in Nat, NEW S \in SUBSET (1..n), S # {}
  PROVE  Max(S) \in S /\ \A m \in S : Max(S) >= m
<1> DEFINE Below == {n - m : m \in S}
<1>1. PICK d \in Below : \A e \in Below : d <= e
  <2>1. \A m \in S : n - m \in Nat
    OBVIOUS
  <2>2. Below \in SUBSET Nat
    BY <2>1
  <2>3. Below # {}
    OBVIOUS
  <2> HIDE DEF Below
  <2> QED BY <2>2, <2>3, LeastNumber
<1>2. PICK x \in S : d = n - x
  OBVIOUS
<1>3. \A m \in S : x >= m
  <2> TAKE m \in S
  <2>1. n - m \in Below
    OBVIOUS
  <2>2. n - x <= n - m
    BY <2>1, <1>1, <1>2
  <2> QED BY <2>2
<1> QED BY <1>3 DEF Max

-----------------------------------------------------------------------------
(* Prefixes *)

Keys == UNION {[1..n -> Bit] : n \in 0..Width}
Pre(j, k) == Len(j) <= Len(k) /\ \A i \in 1..Len(j) : j[i] = k[i]
First(k, n) == [i \in 1..n |-> k[i]]
Turn(k, n) == IF k[n + 1] = 1 THEN "r" ELSE "l"
Sides == {"l", "r"}

LEMMA WidthType == Width \in Nat /\ Len(Mapped) \in Nat /\ ShortWidth \in Nat
BY WidthAssumption

LEMMA KeyType ==
  ASSUME NEW k \in Keys
  PROVE  /\ Len(k) \in 0..Width /\ k \in [1..Len(k) -> Bit] /\ DOMAIN k = 1..Len(k)
         /\ \A i \in 1..Len(k) : k[i] \in Bit
<1>1. PICK n \in 0..Width : k \in [1..n -> Bit]
  BY DEF Keys
<1>2. n \in Nat
  BY WidthType
<1>3. Len(k) = n
  BY <1>1, <1>2
<1> QED BY <1>1, <1>2, <1>3

LEMMA IsKey ==
  ASSUME NEW n \in 0..Width, NEW k \in [1..n -> Bit]
  PROVE  k \in Keys /\ Len(k) = n
<1>1. n \in Nat
  BY WidthType
<1> QED BY <1>1 DEF Keys

LEMMA SameKey ==
  ASSUME NEW j \in Keys, NEW k \in Keys, Pre(j, k), Len(j) = Len(k)
  PROVE  j = k
<1>1. j \in [1..Len(j) -> Bit] /\ k \in [1..Len(j) -> Bit]
  BY KeyType
<1> QED BY <1>1 DEF Pre

LEMMA PreItself == ASSUME NEW k \in Keys PROVE Pre(k, k)
BY KeyType DEF Pre

LEMMA PreTrans ==
  ASSUME NEW i \in Keys, NEW j \in Keys, NEW k \in Keys, Pre(i, j), Pre(j, k)
  PROVE  Pre(i, k)
<1>1. Len(i) \in Nat /\ Len(j) \in Nat /\ Len(k) \in Nat
  BY KeyType
<1> QED BY <1>1 DEF Pre

\* Of two prefixes of a key, the shorter one is a prefix of the other.
LEMMA PreOfSame ==
  ASSUME NEW i \in Keys, NEW j \in Keys, NEW k \in Keys, Pre(i, k), Pre(j, k), Len(i) <= Len(j)
  PROVE  Pre(i, j)
<1>1. Len(i) \in Nat /\ Len(j) \in Nat /\ Len(k) \in Nat
  BY KeyType
<1> QED BY <1>1 DEF Pre

\* A proper prefix goes on at some side.
LEMMA TurnOfPre ==
  ASSUME NEW i \in Keys, NEW j \in Keys, NEW k \in Keys, Pre(j, k), Len(i) < Len(j)
  PROVE  Turn(j, Len(i)) = Turn(k, Len(i)) /\ j[Len(i) + 1] = k[Len(i) + 1]
<1>1. Len(i) \in Nat /\ Len(j) \in Nat /\ Len(i) + 1 \in 1..Len(j)
  BY KeyType
<1> QED BY <1>1 DEF Pre, Turn

\* Bits on the same side are the same bit.
LEMMA SameTurn ==
  ASSUME NEW j \in Keys, NEW k \in Keys, NEW n \in Nat, n < Len(j), n < Len(k)
  PROVE  Turn(j, n) = Turn(k, n) <=> j[n + 1] = k[n + 1]
<1>1. j[n + 1] \in Bit /\ k[n + 1] \in Bit
  <2>1. n + 1 \in 1..Len(j) /\ n + 1 \in 1..Len(k)
    BY KeyType
  <2> QED BY <2>1, KeyType
<1> QED BY <1>1 DEF Turn, Bit

LEMMA FirstBits ==
  ASSUME NEW k \in Keys, NEW n \in 0..Len(k)
  PROVE  First(k, n) \in Keys /\ Len(First(k, n)) = n /\ Pre(First(k, n), k)
<1>1. n \in 0..Width /\ n \in Nat /\ First(k, n) \in [1..n -> Bit]
  BY KeyType, WidthType DEF First
<1>2. First(k, n) \in Keys /\ Len(First(k, n)) = n
  BY <1>1, IsKey
<1>3. \A i \in 1..n : First(k, n)[i] = k[i]
  BY DEF First
<1> QED BY <1>1, <1>2, <1>3 DEF Pre

-----------------------------------------------------------------------------
(* Trees: D are the nodes, kid[k][s] the child of k at side s, up[k] the      *)
(* parent of k and top the first node, where a node is << >> or <<k>>.        *)

Tree(D, kid, up, top) ==
    /\ D \subseteq Keys
    /\ \A k \in D, s \in Sides : kid[k][s] = Null \/ \E c \in D : kid[k][s] = <<c>>
    /\ \A k \in D : up[k] = Null \/ \E p \in D : up[k] = <<p>>
    /\ top = Null <=> D = {}
    /\ top = Null \/ \E k \in D : top = <<k>>
    /\ \A k, c \in D, s \in Sides : kid[k][s] = <<c>> =>
          Len(k) < Len(c) /\ Pre(k, c) /\ Turn(c, Len(k)) = s /\ up[c] = <<k>>
    /\ \A k \in D : up[k] = Null <=> top = <<k>>
    /\ \A k, p \in D : up[k] = <<p>> => \E s \in Sides : kid[p][s] = <<k>>

\* Among the nodes with some property there is a shortest one.
LEMMA Shortest ==
  ASSUME NEW S, S \subseteq Keys, S # {}
  PROVE  \E k \in S : \A j \in S : Len(k) <= Len(j)
<1> DEFINE N == {Len(k) : k \in S}
<1>1. N \in SUBSET Nat
  BY KeyType
<1>2. N # {}
  OBVIOUS
<1> HIDE DEF N
<1>3. PICK n \in N : \A m \in N : n <= m
  BY <1>1, <1>2, LeastNumber
<1> QED BY <1>3 DEF N

\* And a longest one.
LEMMA Longest ==
  ASSUME NEW S, S \subseteq Keys, S # {}
  PROVE  \E k \in S : \A j \in S : Len(j) <= Len(k)
<1> DEFINE N == {Width - Len(k) : k \in S}
<1>1. N \in SUBSET Nat
  BY KeyType, WidthType
<1>2. N # {}
  OBVIOUS
<1>3. PICK n \in N : \A m \in N : n <= m
  <2> HIDE DEF N
  <2> QED BY <1>1, <1>2, LeastNumber
<1>4. PICK k \in S : n = Width - Len(k)
  OBVIOUS
<1>5. ASSUME NEW j \in S
      PROVE  Len(j) <= Len(k)
  <2>1. Width - Len(j) \in N
    OBVIOUS
  <2>2. Width - Len(k) <= Width - Len(j)
    BY <1>3, <1>4, <2>1
  <2> QED BY <2>2, KeyType, WidthType
<1> QED BY <1>5

\* The parent of a node is a shorter prefix of it.
LEMMA ParentPre ==
  ASSUME NEW D, NEW kid, NEW up, NEW top, Tree(D, kid, up, top),
         NEW k \in D, NEW p \in D, up[k] = <<p>>
  PROVE  Len(p) < Len(k) /\ Pre(p, k) /\ kid[p][Turn(k, Len(p))] = <<k>>
<1>1. PICK s \in Sides : kid[p][s] = <<k>>
  BY DEF Tree
<1> QED BY <1>1 DEF Tree

\* The first node is a prefix of all.
LEMMA TopFirst ==
  ASSUME NEW D, NEW kid, NEW up, NEW top, Tree(D, kid, up, top),
         NEW h \in D, top = <<h>>, NEW k \in D
  PROVE  Pre(h, k)
<1> DEFINE S == {j \in D : ~Pre(h, j)}
<1>1. ASSUME S # {} PROVE FALSE
  <2>1. S \subseteq Keys
    BY DEF Tree
  <2>2. PICK j \in S : \A i \in S : Len(j) <= Len(i)
    <3> HIDE DEF S
    <3> QED BY <1>1, <2>1, Shortest
  <2>3. j \in D /\ j \in Keys /\ h \in Keys /\ ~Pre(h, j)
    BY DEF Tree
  <2>4. up[j] # Null
    <3>1. ASSUME up[j] = Null PROVE FALSE
      <4>1. <<h>> = <<j>>
        BY <2>3, <3>1 DEF Tree
      <4>2. h = j
        BY <4>1
      <4> QED BY <2>3, <4>2, PreItself
    <3> QED BY <3>1
  <2>5. PICK p \in D : up[j] = <<p>>
    BY <2>3, <2>4 DEF Tree
  <2>6. Len(p) < Len(j) /\ Pre(p, j) /\ p \in Keys /\ Len(p) \in Nat /\ Len(j) \in Nat
    <3>1. p \in Keys
      BY DEF Tree
    <3> QED BY <2>3, <2>5, <3>1, ParentPre, KeyType
  <2>7. Pre(h, p)
    BY <2>2, <2>6
  <2> QED BY <2>3, <2>6, <2>7, PreTrans
<1> QED BY <1>1

\* What continues a node is found below it, on its side.
LEMMA Descend ==
  ASSUME NEW D, NEW kid, NEW up, NEW top, Tree(D, kid, up, top),
         NEW j \in D, NEW k \in D, Pre(j, k), Len(j) < Len(k)
  PROVE  \E c \in D : kid[j][Turn(k, Len(j))] = <<c>> /\ Pre(c, k)
<1> DEFINE Down(x, y) == \E c \in D : kid[x][Turn(y, Len(x))] = <<c>> /\ Pre(c, y)
           S == {y \in D : \E x \in D : Pre(x, y) /\ Len(x) < Len(y) /\ ~Down(x, y)}
<1>1. ASSUME S # {} PROVE FALSE
  <2>1. S \subseteq Keys
    BY DEF Tree
  <2>2. PICK y \in S : \A z \in S : Len(y) <= Len(z)
    <3> HIDE DEF S
    <3> QED BY <1>1, <2>1, Shortest
  <2>3. PICK x \in D : Pre(x, y) /\ Len(x) < Len(y) /\ ~Down(x, y)
    OBVIOUS
  <2>4. y \in D /\ y \in Keys /\ x \in Keys /\ Len(x) \in Nat /\ Len(y) \in Nat
    BY KeyType DEF Tree
  <2>5. PICK p \in D : up[y] = <<p>>
    <3>1. ASSUME up[y] = Null PROVE FALSE
      <4>1. Pre(y, x)
        <5>1. top = <<y>>
          BY <2>4, <3>1 DEF Tree
        <5> QED BY <2>4, <5>1, TopFirst
      <4> QED BY <2>3, <2>4, <4>1 DEF Pre
    <3> QED BY <2>4, <3>1 DEF Tree
  <2>6. /\ p \in Keys /\ Len(p) \in Nat /\ Len(p) < Len(y) /\ Pre(p, y)
        /\ kid[p][Turn(y, Len(p))] = <<y>>
    <3>1. p \in Keys
      BY DEF Tree
    <3>2. Len(p) < Len(y) /\ Pre(p, y) /\ kid[p][Turn(y, Len(p))] = <<y>>
      <4>1. y \in D
        BY <2>4
      <4> HIDE DEF Down, S
      <4> QED BY <2>5, <4>1, ParentPre, Zenon
    <3> QED BY <3>1, <3>2, KeyType
  <2>7. CASE Len(p) = Len(x)
    <3>1. p = x
      BY <2>3, <2>4, <2>6, <2>7, PreOfSame, SameKey
    <3> QED BY <2>3, <2>4, <2>6, <3>1, PreItself
  <2>8. CASE Len(x) < Len(p)
    <3>1. Pre(x, p)
      BY <2>3, <2>4, <2>6, <2>8, PreOfSame
    <3>2. PICK c \in D : kid[x][Turn(p, Len(x))] = <<c>> /\ Pre(c, p)
      BY <2>2, <2>3, <2>4, <2>6, <2>8, <3>1
    <3>3. Turn(p, Len(x)) = Turn(y, Len(x))
      BY <2>4, <2>6, <2>8, TurnOfPre
    <3>4. Pre(c, y)
      BY <2>4, <2>6, <3>2, PreTrans DEF Tree
    <3> QED BY <2>3, <3>2, <3>3, <3>4
  <2>9. CASE Len(p) < Len(x)
    <3>1. Pre(p, x)
      BY <2>3, <2>4, <2>6, <2>9, PreOfSame
    <3>2. PICK c \in D : kid[p][Turn(x, Len(p))] = <<c>> /\ Pre(c, x)
      BY <2>2, <2>3, <2>4, <2>6, <2>9, <3>1
    <3>3. Turn(x, Len(p)) = Turn(y, Len(p))
      BY <2>3, <2>4, <2>6, <2>9, TurnOfPre
    <3>4. c = y
      BY <2>6, <3>2, <3>3
    <3> QED BY <2>3, <2>4, <3>2, <3>4 DEF Pre
  <2> QED BY <2>4, <2>6, <2>7, <2>8, <2>9
<1>2. j \notin D \/ k \notin S
  BY <1>1
<1> HIDE DEF Down
<1>3. Down(j, k)
  BY <1>2
<1> QED BY <1>3 DEF Down

\* Two nodes that part after n bits part at a node of n bits.
LEMMA Branching ==
  ASSUME NEW D, NEW kid, NEW up, NEW top, Tree(D, kid, up, top),
         NEW j \in D, NEW k \in D, NEW n \in Nat, n < Len(j), n < Len(k),
         \A i \in 1..n : j[i] = k[i], j[n + 1] # k[n + 1]
  PROVE  \E g \in D : Len(g) = n /\ Pre(g, j) /\ Pre(g, k)
<1> DEFINE S == {g \in D : Pre(g, j) /\ Pre(g, k)}
<1>1. S \subseteq Keys /\ D \subseteq Keys /\ j \in Keys /\ k \in Keys
  BY DEF Tree
<1>2. S # {}
  <2>1. PICK h \in D : top = <<h>>
    BY DEF Tree
  <2>2. Pre(h, j) /\ Pre(h, k)
    BY <2>1, TopFirst
  <2> QED BY <2>2
<1>3. PICK g \in S : \A i \in S : Len(i) <= Len(g)
  <2> HIDE DEF S
  <2> QED BY <1>1, <1>2, Longest
<1>4. g \in D /\ g \in Keys /\ Pre(g, j) /\ Pre(g, k) /\ Len(g) \in Nat
  BY <1>1, KeyType
<1>5. Len(g) <= n
  <2>1. ASSUME n < Len(g) PROVE FALSE
    <3>1. n + 1 \in 1..Len(g)
      BY <1>4, <2>1
    <3>2. j[n + 1] = g[n + 1] /\ k[n + 1] = g[n + 1]
      BY <1>4, <3>1 DEF Pre
    <3> QED BY <3>2
  <2> QED BY <1>4, <2>1
<1>6. ASSUME Len(g) < n PROVE FALSE
  <2>1. Len(j) \in Nat /\ Len(k) \in Nat
    BY <1>1, KeyType
  <2>2. PICK c \in D : kid[g][Turn(j, Len(g))] = <<c>> /\ Pre(c, j)
    BY <1>4, <1>6, <2>1, Descend
  <2>3. PICK d \in D : kid[g][Turn(k, Len(g))] = <<d>> /\ Pre(d, k)
    BY <1>4, <1>6, <2>1, Descend
  <2>4. Turn(j, Len(g)) = Turn(k, Len(g))
    <3>1. Len(g) + 1 \in 1..n
      BY <1>4, <1>6
    <3> QED BY <3>1 DEF Turn
  <2>5. c = d
    BY <2>2, <2>3, <2>4
  <2>6. Len(g) < Len(c)
    BY <1>4, <2>2 DEF Tree, Turn, Sides
  <2>7. c \in S
    BY <2>2, <2>3, <2>5
  <2> QED BY <1>1, <1>3, <1>4, <2>6, <2>7, KeyType
<1> QED BY <1>4, <1>5, <1>6

\* Nothing is between a node and its parent.
LEMMA NoneBetween ==
  ASSUME NEW D, NEW kid, NEW up, NEW top, Tree(D, kid, up, top),
         NEW k \in D, NEW x \in D, Pre(x, k), Len(x) < Len(k)
  PROVE  \E p \in D : up[k] = <<p>> /\ Len(x) <= Len(p)
<1>1. k \in Keys /\ x \in Keys /\ D \subseteq Keys /\ Len(k) \in Nat /\ Len(x) \in Nat
  <2>1. k \in Keys /\ x \in Keys /\ D \subseteq Keys
    BY DEF Tree
  <2> QED BY <2>1, KeyType
<1>2. PICK p \in D : up[k] = <<p>>
  <2>1. ASSUME up[k] = Null PROVE FALSE
    <3>1. top = <<k>>
      BY <2>1 DEF Tree
    <3>2. Pre(k, x)
      BY <3>1, TopFirst
    <3> QED BY <1>1, <3>2 DEF Pre
  <2> QED BY <2>1 DEF Tree
<1>3. Len(p) < Len(k) /\ Pre(p, k) /\ kid[p][Turn(k, Len(p))] = <<k>>
  BY <1>2, ParentPre
<1>4. p \in Keys /\ Len(p) \in Nat
  BY <1>1, KeyType
<1>5. ASSUME Len(p) < Len(x) PROVE FALSE
  <2>1. Pre(p, x)
    BY <1>1, <1>3, <1>4, <1>5, PreOfSame
  <2>2. PICK c \in D : kid[p][Turn(x, Len(p))] = <<c>> /\ Pre(c, x)
    BY <1>5, <2>1, Descend
  <2>3. Turn(x, Len(p)) = Turn(k, Len(p))
    BY <1>1, <1>4, <1>5, TurnOfPre
  <2>4. c = k
    BY <1>3, <2>2, <2>3
  <2> QED BY <1>1, <2>2, <2>4 DEF Pre
<1> QED BY <1>1, <1>2, <1>4, <1>5

-----------------------------------------------------------------------------
(* The two ways of inserting a node *)

KidBelow(D, kid, at, k) ==
    [j \in D \cup {k} |-> [s \in Sides |->
        IF j = k THEN Null ELSE IF j = at /\ s = Turn(k, Len(at)) THEN <<k>> ELSE kid[j][s]]]
UpBelow(D, up, at, k) == [j \in D \cup {k} |-> IF j = k THEN <<at>> ELSE up[j]]

LEMMA InsertBelow ==
  ASSUME NEW D, NEW kid, NEW up, NEW top, Tree(D, kid, up, top),
         NEW at \in D, NEW k \in Keys, k \notin D,
         Pre(at, k), Len(at) < Len(k), kid[at][Turn(k, Len(at))] = Null
  PROVE  Tree(D \cup {k}, KidBelow(D, kid, at, k), UpBelow(D, up, at, k), top)
<1> DEFINE D2 == D \cup {k}
           kid2 == KidBelow(D, kid, at, k)
           up2 == UpBelow(D, up, at, k)
<1>1. \A j \in D2, s \in Sides :
         kid2[j][s] = IF j = k THEN Null
                      ELSE IF j = at /\ s = Turn(k, Len(at)) THEN <<k>> ELSE kid[j][s]
  BY DEF KidBelow
<1>2. \A j \in D2 : up2[j] = IF j = k THEN <<at>> ELSE up[j]
  BY DEF UpBelow
<1>3. at # k /\ Turn(k, Len(at)) \in Sides
  BY DEF Turn, Sides
<1> HIDE DEF kid2, up2
<1>4. D2 \subseteq Keys
  BY DEF Tree
<1>5. \A j \in D2, s \in Sides : kid2[j][s] = Null \/ \E c \in D2 : kid2[j][s] = <<c>>
  BY <1>1 DEF Tree
<1>6. \A j \in D2 : up2[j] = Null \/ \E p \in D2 : up2[j] = <<p>>
  BY <1>2 DEF Tree
<1>7. (top = Null <=> D2 = {}) /\ (top = Null \/ \E j \in D2 : top = <<j>>)
  BY DEF Tree
<1>8. ASSUME NEW j \in D2, NEW c \in D2, NEW s \in Sides, kid2[j][s] = <<c>>
      PROVE  Len(j) < Len(c) /\ Pre(j, c) /\ Turn(c, Len(j)) = s /\ up2[c] = <<j>>
  <2>1. j # k
    BY <1>1, <1>8 DEF Null
  <2>2. CASE j = at /\ s = Turn(k, Len(at))
    <3>1. c = k
      BY <1>1, <1>8, <2>1, <2>2
    <3> QED BY <1>2, <2>2, <3>1
  <2>3. CASE ~(j = at /\ s = Turn(k, Len(at)))
    <3>1. kid[j][s] = <<c>> /\ j \in D
      BY <1>1, <1>8, <2>1, <2>3
    <3>2. c \in D
      BY <3>1 DEF Tree, Null
    <3>3. c # k
      BY <3>2
    <3> QED BY <1>2, <3>1, <3>2, <3>3 DEF Tree
  <2> QED BY <2>2, <2>3
<1>9. \A j \in D2 : up2[j] = Null <=> top = <<j>>
  <2> TAKE j \in D2
  <2>1. CASE j = k
    <3>1. up2[j] # Null
      BY <1>2, <2>1 DEF Null
    <3>2. top # <<j>>
      BY <2>1 DEF Tree, Null
    <3> QED BY <3>1, <3>2
  <2>2. CASE j # k
    BY <1>2, <2>2 DEF Tree
  <2> QED BY <2>1, <2>2
<1>10. ASSUME NEW j \in D2, NEW p \in D2, up2[j] = <<p>>
       PROVE  \E s \in Sides : kid2[p][s] = <<j>>
  <2>1. CASE j = k
    <3>1. p = at
      BY <1>2, <1>10, <2>1
    <3> QED BY <1>1, <1>3, <2>1, <3>1
  <2>2. CASE j # k
    <3>1. up[j] = <<p>> /\ j \in D
      BY <1>2, <1>10, <2>2
    <3>2. p \in D
      BY <3>1 DEF Tree, Null
    <3>3. PICK s \in Sides : kid[p][s] = <<j>>
      BY <3>1, <3>2 DEF Tree
    <3>4. ~(p = at /\ s = Turn(k, Len(at)))
      BY <3>3 DEF Null
    <3>5. kid2[p][s] = <<j>>
      BY <1>1, <3>2, <3>3, <3>4
    <3> QED BY <3>5
  <2> QED BY <2>1, <2>2
<1> QED BY <1>4, <1>5, <1>6, <1>7, <1>8, <1>9, <1>10 DEF Tree, kid2, up2

KidAbove(D, kid, at, k) ==
    [j \in D \cup {k} |-> [s \in Sides |->
        IF j = k THEN IF s = Turn(at, Len(k)) THEN <<at>> ELSE Null
        ELSE IF kid[j][s] = <<at>> THEN <<k>> ELSE kid[j][s]]]
UpAbove(D, up, at, k) ==
    [j \in D \cup {k} |-> IF j = k THEN up[at] ELSE IF j = at THEN <<k>> ELSE up[j]]
TopAbove(up, top, at, k) == IF up[at] = Null THEN <<k>> ELSE top

LEMMA InsertAbove ==
  ASSUME NEW D, NEW kid, NEW up, NEW top, Tree(D, kid, up, top),
         NEW at \in D, NEW k \in Keys, k \notin D, Pre(k, at), Len(k) < Len(at),
         \A p \in D : up[at] = <<p>> => Len(p) < Len(k)
  PROVE  Tree(D \cup {k}, KidAbove(D, kid, at, k), UpAbove(D, up, at, k), TopAbove(up, top, at, k))
<1> DEFINE D2 == D \cup {k}
           kid2 == KidAbove(D, kid, at, k)
           up2 == UpAbove(D, up, at, k)
           top2 == TopAbove(up, top, at, k)
<1>1. \A j \in D2, s \in Sides :
         kid2[j][s] = IF j = k THEN IF s = Turn(at, Len(k)) THEN <<at>> ELSE Null
                      ELSE IF kid[j][s] = <<at>> THEN <<k>> ELSE kid[j][s]
  BY DEF KidAbove
<1>2. \A j \in D2 : up2[j] = IF j = k THEN up[at] ELSE IF j = at THEN <<k>> ELSE up[j]
  BY DEF UpAbove
<1>3. at # k /\ Turn(at, Len(k)) \in Sides
  BY DEF Turn, Sides
<1>4. top2 = IF up[at] = Null THEN <<k>> ELSE top
  BY DEF TopAbove
<1>5. k \in Keys /\ at \in Keys /\ D \subseteq Keys
  BY DEF Tree
<1> HIDE DEF kid2, up2, top2
<1>6. D2 \subseteq Keys
  BY DEF Tree
<1>7. \A j \in D2, s \in Sides : kid2[j][s] = Null \/ \E c \in D2 : kid2[j][s] = <<c>>
  BY <1>1 DEF Tree
<1>8. \A j \in D2 : up2[j] = Null \/ \E p \in D2 : up2[j] = <<p>>
  BY <1>2 DEF Tree
<1>9. (top2 = Null <=> D2 = {}) /\ (top2 = Null \/ \E j \in D2 : top2 = <<j>>)
  BY <1>4 DEF Tree, Null
<1>10. ASSUME NEW j \in D2, NEW c \in D2, NEW s \in Sides, kid2[j][s] = <<c>>
       PROVE  Len(j) < Len(c) /\ Pre(j, c) /\ Turn(c, Len(j)) = s /\ up2[c] = <<j>>
  <2>1. CASE j = k
    <3>1. s = Turn(at, Len(k)) /\ c = at
      BY <1>1, <1>10, <2>1 DEF Null
    <3> QED BY <1>2, <1>3, <2>1, <3>1
  <2>2. CASE j # k /\ kid[j][s] = <<at>>
    <3>1. c = k
      BY <1>1, <1>10, <2>2
    <3>2. j \in D
      BY <2>2
    <3>3. up[at] = <<j>> /\ Pre(j, at) /\ Turn(at, Len(j)) = s
      BY <2>2, <3>2 DEF Tree
    <3>4. Len(j) < Len(k)
      BY <3>2, <3>3
    <3>5. Pre(j, k)
      <4>1. Len(j) \in Nat /\ Len(k) \in Nat
        BY <1>5, <3>2, KeyType
      <4> QED BY <1>5, <3>2, <3>3, <3>4, <4>1, PreOfSame
    <3>6. Turn(k, Len(j)) = Turn(at, Len(j))
      BY <1>5, <3>2, <3>4, TurnOfPre
    <3> QED BY <1>2, <3>1, <3>3, <3>4, <3>5, <3>6
  <2>3. CASE j # k /\ kid[j][s] # <<at>>
    <3>1. kid[j][s] = <<c>> /\ j \in D
      BY <1>1, <1>10, <2>3
    <3>2. c \in D /\ c # at
      BY <2>3, <3>1 DEF Tree, Null
    <3>3. c # k
      BY <3>2
    <3> QED BY <1>2, <3>1, <3>2, <3>3 DEF Tree
  <2> QED BY <2>1, <2>2, <2>3
<1>11. \A j \in D2 : up2[j] = Null <=> top2 = <<j>>
  <2> TAKE j \in D2
  <2>1. CASE j = k
    <3>1. ASSUME up[at] # Null PROVE top # <<k>>
      BY DEF Tree, Null
    <3> QED BY <1>2, <1>4, <2>1, <3>1
  <2>2. CASE j = at
    <3>1. up2[j] # Null
      BY <1>2, <1>3, <2>2 DEF Null
    <3>2. top2 # <<j>>
      <4>1. CASE up[at] = Null
        BY <1>3, <1>4, <2>2, <4>1
      <4>2. CASE up[at] # Null
        BY <1>4, <2>2, <4>2 DEF Tree
      <4> QED BY <4>1, <4>2
    <3> QED BY <3>1, <3>2
  <2>3. CASE j # k /\ j # at
    <3>1. up2[j] = up[j] /\ j \in D
      BY <1>2, <2>3
    <3>2. up[j] = Null <=> top = <<j>>
      BY <3>1 DEF Tree
    <3>3. CASE up[at] = Null
      <4>1. top = <<at>>
        BY <3>3 DEF Tree
      <4>2. top # <<j>> /\ top2 # <<j>>
        BY <1>4, <2>3, <3>3, <4>1
      <4> QED BY <3>1, <3>2, <4>2
    <3>4. CASE up[at] # Null
      BY <1>4, <3>1, <3>2, <3>4
    <3> QED BY <3>3, <3>4
  <2> QED BY <2>1, <2>2, <2>3
<1>12. ASSUME NEW j \in D2, NEW p \in D2, up2[j] = <<p>>
       PROVE  \E s \in Sides : kid2[p][s] = <<j>>
  <2>1. CASE j = k
    <3>1. up[at] = <<p>>
      BY <1>2, <1>12, <2>1
    <3>2. p \in D /\ p # k
      BY <3>1 DEF Tree, Null
    <3>3. PICK s \in Sides : kid[p][s] = <<at>>
      BY <3>1, <3>2 DEF Tree
    <3>4. kid2[p][s] = <<k>>
      BY <1>1, <3>2, <3>3
    <3> QED BY <2>1, <3>4
  <2>2. CASE j = at
    <3>1. p = k
      BY <1>2, <1>3, <1>12, <2>2
    <3> QED BY <1>1, <1>3, <2>2, <3>1
  <2>3. CASE j # k /\ j # at
    <3>1. up[j] = <<p>> /\ j \in D
      BY <1>2, <1>12, <2>3
    <3>2. p \in D /\ p # k
      BY <3>1 DEF Tree, Null
    <3>3. PICK s \in Sides : kid[p][s] = <<j>>
      BY <3>1, <3>2 DEF Tree
    <3>4. kid2[p][s] = <<j>>
      BY <1>1, <2>3, <3>2, <3>3
    <3> QED BY <3>4
  <2> QED BY <2>1, <2>2, <2>3
<1> QED BY <1>6, <1>7, <1>8, <1>9, <1>10, <1>11, <1>12 DEF Tree, kid2, up2, top2

-----------------------------------------------------------------------------
(* Recursive functions.  One that goes on to something of a smaller rank      *)
(* exists: if it did not, it would not below some least rank.                 *)

Follows(f, D, go, next, here) ==
    \A k \in D : f[k] = IF k \in go THEN here[k] \o f[next[k]] ELSE here[k]

LEMMA Recursion ==
  ASSUME NEW D, NEW go \in SUBSET D, NEW next \in [go -> D],
         NEW top \in Nat, NEW rank \in [D -> 0..top], \A k \in go : rank[next[k]] < rank[k],
         NEW here \in [D -> Seq(D)]
  PROVE  \E f \in [D -> Seq(D)] : Follows(f, D, go, next, here)
<1> USE DEF Follows
<1> DEFINE Low(n) == {k \in D : rank[k] < n}
           Good(n) == \E f \in [Low(n) -> Seq(D)] :
                         \A k \in Low(n) : f[k] = IF k \in go THEN here[k] \o f[next[k]] ELSE here[k]
           S == {n \in Nat : ~Good(n)}
<1>1. ASSUME S # {} PROVE FALSE
  <2>1. S \in SUBSET Nat
    OBVIOUS
  <2>2. PICK n \in S : \A m \in S : n <= m
    <3> HIDE DEF S
    <3> QED BY <1>1, <2>1, LeastNumber
  <2>0. n \in Nat
    OBVIOUS
  <2>3. ~Good(n)
    OBVIOUS
  <2>4. n # 0
    <3>1. Low(0) = {}
      OBVIOUS
    <3>2. [k \in {} |-> << >>] \in [Low(0) -> Seq(D)]
      BY <3>1
    <3>3. Good(0)
      <4> HIDE DEF Low
      <4> QED BY <3>1, <3>2
    <3> HIDE DEF Good
    <3> QED BY <2>3, <3>3
  <2>5. Good(n - 1)
    <3>1. n - 1 \in Nat /\ n - 1 < n
      BY <2>0, <2>4
    <3>2. n - 1 \notin S
      <4> HIDE DEF S
      <4> QED BY <2>2, <2>0, <3>1
    <3> HIDE DEF Good
    <3> QED BY <3>1, <3>2
  <2>6. PICK f \in [Low(n - 1) -> Seq(D)] :
           \A k \in Low(n - 1) : f[k] = IF k \in go THEN here[k] \o f[next[k]] ELSE here[k]
    BY <2>5
  <2> DEFINE g == [k \in Low(n) |-> IF k \in go THEN here[k] \o f[next[k]] ELSE here[k]]
  <2>7. \A k \in Low(n) : k \in go => next[k] \in Low(n - 1)
    BY <2>0
  <2>8. \A k \in Low(n - 1) : k \in Low(n)
    BY <2>0
  <2>9. g \in [Low(n) -> Seq(D)]
    <3>1. ASSUME NEW k \in Low(n)
          PROVE  (IF k \in go THEN here[k] \o f[next[k]] ELSE here[k]) \in Seq(D)
      <4>1. here[k] \in Seq(D)
        OBVIOUS
      <4>2. CASE k \in go
        <5>1. f[next[k]] \in Seq(D)
          <6> HIDE DEF Low
          <6> QED BY <2>7, <4>2
        <5> QED BY <4>1, <4>2, <5>1
      <4> QED BY <4>1, <4>2
    <3> HIDE DEF Low
    <3> QED BY <3>1
  <2>10. ASSUME NEW k \in Low(n)
         PROVE  g[k] = IF k \in go THEN here[k] \o g[next[k]] ELSE here[k]
    <3> HIDE DEF Low
    <3>1. CASE k \in go
      <4>1. next[k] \in Low(n - 1) /\ next[k] \in Low(n)
        BY <2>7, <2>8, <3>1
      <4>2. g[next[k]] = f[next[k]]
        BY <2>6, <4>1
      <4> QED BY <3>1, <4>2
    <3> QED BY <3>1
  <2>11. Good(n)
    <3> HIDE DEF g, Low
    <3> QED BY <2>9, <2>10
  <2> QED BY <2>3, <2>11
<1>2. top + 1 \in Nat /\ top + 1 \notin S
  <2> HIDE DEF S
  <2> QED BY <1>1
<1>3. Good(top + 1)
  <2> HIDE DEF Good
  <2> QED BY <1>2
<1>4. Low(top + 1) = D
  OBVIOUS
<1> HIDE DEF Low
<1> QED BY <1>3, <1>4

\* The same, of a function that only goes on.
LastOf(f, D, go, next) == [k \in D |-> IF k \in go THEN f[next[k]] ELSE k]

LEMMA TailRecursion ==
  ASSUME NEW D, NEW go \in SUBSET D, NEW next \in [go -> D],
         NEW top \in Nat, NEW rank \in [D -> 0..top], \A k \in go : rank[next[k]] < rank[k]
  PROVE  \E f : f = LastOf(f, D, go, next)
<1> DEFINE here == [k \in D |-> IF k \in go THEN << >> ELSE <<k>>]
<1>1. here \in [D -> Seq(D)]
  OBVIOUS
<1>2. PICK g \in [D -> Seq(D)] : Follows(g, D, go, next, here)
  <2> HIDE DEF here
  <2>1. \A k \in go : rank[next[k]] < rank[k]
    OBVIOUS
  <2>2. go \in SUBSET D /\ next \in [go -> D] /\ top \in Nat /\ rank \in [D -> 0..top]
    OBVIOUS
  <2> QED BY <1>1, <2>1, <2>2, Recursion, Zenon
<1> DEFINE f == [k \in D |-> g[k][1]]
<1>3. ASSUME NEW k \in D
      PROVE  f[k] = IF k \in go THEN f[next[k]] ELSE k
  <2>1. CASE k \in go
    <3>1. g[k] = << >> \o g[next[k]] /\ next[k] \in D
      BY <1>2, <2>1 DEF Follows
    <3>2. g[k] = g[next[k]]
      BY <3>1
    <3> QED BY <2>1, <3>1, <3>2
  <2>2. CASE k \notin go
    BY <1>2, <2>2 DEF Follows
  <2> QED BY <2>1, <2>2
<1>4. f = [k \in D |-> IF k \in go THEN f[next[k]] ELSE k]
  <2>1. [k \in D |-> f[k]] = [k \in D |-> IF k \in go THEN f[next[k]] ELSE k]
    <3> HIDE DEF f
    <3> QED BY <1>3
  <2> QED BY <2>1
<1> QED BY <1>4 DEF LastOf

-----------------------------------------------------------------------------
(* The tree of the model *)

Kid == [k \in DOMAIN node |-> [s \in Sides |-> node[k][s]]]
Up == [k \in DOMAIN node |-> node[k].parent]
Pointers == {Null} \cup {<<k>> : k \in Keys}
NodeType == [has : BOOLEAN, l : Pointers, r : Pointers, parent : Pointers, expiration : Nat]

TreeInv ==
    /\ Tree(DOMAIN node, Kid, Up, head)
    /\ node \in [DOMAIN node -> NodeType]
    /\ \A k \in DOMAIN node : ~node[k].has => node[k].l # Null /\ node[k].r # Null

\* What the shape says of a node of the model.
LEMMA NodeShape ==
  ASSUME TreeInv, NEW k \in DOMAIN node
  PROVE  /\ k \in Keys /\ Len(k) \in 0..Width
         /\ node[k].has \in BOOLEAN /\ node[k].expiration \in Nat
         /\ \A s \in Sides :
              /\ Kid[k][s] = node[k][s]
              /\ node[k][s] # Null =>
                   /\ node[k][s][1] \in DOMAIN node /\ node[k][s] = <<node[k][s][1]>>
                   /\ Len(k) < Len(node[k][s][1]) /\ Pre(k, node[k][s][1])
                   /\ Turn(node[k][s][1], Len(k)) = s
         /\ Up[k] = node[k].parent
         /\ node[k].parent # Null =>
              /\ node[k].parent[1] \in DOMAIN node /\ node[k].parent = <<node[k].parent[1]>>
              /\ Len(node[k].parent[1]) < Len(k) /\ Pre(node[k].parent[1], k)
         /\ ~node[k].has => \A s \in Sides : node[k][s] # Null
<1>1. Tree(DOMAIN node, Kid, Up, head)
  BY DEF TreeInv
<1>2. k \in Keys /\ Len(k) \in 0..Width
  <2>1. k \in Keys
    BY <1>1 DEF Tree
  <2> QED BY <2>1, KeyType
<1>3. node[k].has \in BOOLEAN /\ node[k].expiration \in Nat
  BY DEF TreeInv, NodeType
<1>4. /\ \A s \in Sides : Kid[k][s] = node[k][s]
      /\ Up[k] = node[k].parent
  BY DEF Kid, Up
<1>5. ASSUME NEW s \in Sides, node[k][s] # Null
      PROVE  /\ node[k][s][1] \in DOMAIN node /\ node[k][s] = <<node[k][s][1]>>
             /\ Len(k) < Len(node[k][s][1]) /\ Pre(k, node[k][s][1])
             /\ Turn(node[k][s][1], Len(k)) = s
  <2>1. PICK c \in DOMAIN node : Kid[k][s] = <<c>>
    BY <1>1, <1>4, <1>5 DEF Tree
  <2>2. node[k][s] = <<c>> /\ node[k][s][1] = c
    BY <1>4, <2>1
  <2>3. Len(k) < Len(c) /\ Pre(k, c) /\ Turn(c, Len(k)) = s
    BY <1>1, <2>1 DEF Tree
  <2> QED BY <2>2, <2>3
<1>6. ASSUME node[k].parent # Null
      PROVE  /\ node[k].parent[1] \in DOMAIN node /\ node[k].parent = <<node[k].parent[1]>>
             /\ Len(node[k].parent[1]) < Len(k) /\ Pre(node[k].parent[1], k)
  <2>1. PICK p \in DOMAIN node : Up[k] = <<p>>
    BY <1>1, <1>4, <1>6 DEF Tree
  <2>2. node[k].parent = <<p>> /\ node[k].parent[1] = p
    BY <1>4, <2>1
  <2>3. Len(p) < Len(k) /\ Pre(p, k)
    BY <1>1, <2>1, ParentPre
  <2> QED BY <2>2, <2>3
<1>7. ~node[k].has => \A s \in Sides : node[k][s] # Null
  BY DEF TreeInv, Sides
<1> QED BY <1>2, <1>3, <1>4, <1>5, <1>6, <1>7

LEMMA AddressIsKey ==
  ASSUME NEW a \in Address
  PROVE  a \in Keys /\ Len(a) = Width /\ \A n \in 0..Width-1 : Side(a, n) = Turn(a, n)
<1>1. a \in Keys /\ Len(a) = Width
  BY WidthType, IsKey DEF Address
<1> QED BY <1>1 DEF Side, Turn

LEMMA SideType == ASSUME NEW a, NEW n PROVE Side(a, n) \in Sides
BY DEF Side, Sides

-----------------------------------------------------------------------------
(* The descent and the climb *)

Goes(a, length) ==
    {k \in DOMAIN node : (Len(k) < length \/ ~node[k].has) /\ node[k][Side(a, Len(k))] # Null}
Child(k, a) == node[k][Side(a, Len(k))][1]

\* m continues k, on the side of a at every node from k to m.
Follow(a, k, m) ==
    /\ m \in DOMAIN node /\ Pre(k, m)
    /\ \A p \in DOMAIN node : Pre(k, p) /\ Pre(p, m) /\ Len(p) < Len(m) =>
          m[Len(p) + 1] = a[Len(p) + 1]

LEMMA ChildIs ==
  ASSUME TreeInv, NEW a \in Address, NEW k \in DOMAIN node, node[k][Side(a, Len(k))] # Null
  PROVE  /\ Child(k, a) \in DOMAIN node /\ Len(k) < Len(Child(k, a)) /\ Pre(k, Child(k, a))
         /\ Len(k) + 1 \in 1..Width
         /\ Turn(a, Len(k)) = Side(a, Len(k)) /\ Turn(Child(k, a), Len(k)) = Side(a, Len(k))
         /\ Child(k, a)[Len(k) + 1] = a[Len(k) + 1]
<1>1. /\ Child(k, a) \in DOMAIN node /\ Len(k) < Len(Child(k, a)) /\ Pre(k, Child(k, a))
      /\ Turn(Child(k, a), Len(k)) = Side(a, Len(k))
  BY SideType, NodeShape DEF Child
<1>2. /\ k \in Keys /\ Len(k) \in 0..Width /\ Child(k, a) \in Keys /\ Len(Child(k, a)) \in 0..Width
  BY <1>1, NodeShape
<1>3. Len(k) \in 0..Width-1
  BY <1>1, <1>2, WidthType
<1>4. Turn(a, Len(k)) = Side(a, Len(k)) /\ a \in Keys /\ Len(a) = Width
  BY <1>3, AddressIsKey
<1>5. Child(k, a)[Len(k) + 1] = a[Len(k) + 1]
  <2>1. Len(k) \in Nat /\ Len(k) < Len(a)
    BY <1>3, <1>4, WidthType
  <2> QED BY <1>1, <1>2, <1>4, <2>1, SameTurn
<1> QED BY <1>1, <1>3, <1>4, <1>5, WidthType

\* One step down, and then as far as one likes.
LEMMA FollowOn ==
  ASSUME TreeInv, NEW a \in Address, NEW k \in DOMAIN node, node[k][Side(a, Len(k))] # Null,
         NEW m, Follow(a, Child(k, a), m)
  PROVE  Follow(a, k, m)
<1> DEFINE c == Child(k, a)
<1>1. /\ c \in DOMAIN node /\ Len(k) < Len(c) /\ Pre(k, c)
      /\ Turn(a, Len(k)) = Side(a, Len(k)) /\ Turn(c, Len(k)) = Side(a, Len(k))
      /\ c[Len(k) + 1] = a[Len(k) + 1]
  BY ChildIs
<1> HIDE DEF c
<1>2. m \in DOMAIN node /\ Pre(c, m)
  BY DEF Follow, c
<1>3. \A p \in DOMAIN node : p \in Keys /\ Len(p) \in Nat
  BY NodeShape
<1>4. Pre(k, m)
  BY <1>1, <1>2, <1>3, PreTrans
<1>5. ASSUME NEW p \in DOMAIN node, Pre(k, p), Pre(p, m), Len(p) < Len(m)
      PROVE  m[Len(p) + 1] = a[Len(p) + 1]
  <2>1. CASE Len(p) = Len(k)
    <3>1. Len(c) \in Nat /\ Len(k) + 1 \in 1..Len(c)
      BY <1>1, <1>3
    <3>2. m[Len(k) + 1] = c[Len(k) + 1]
      BY <1>2, <3>1 DEF Pre
    <3> QED BY <1>1, <2>1, <3>2
  <2>2. CASE Len(k) < Len(p)
    <3>0. Tree(DOMAIN node, Kid, Up, head)
      BY DEF TreeInv
    <3>1. PICK d \in DOMAIN node : Kid[k][Turn(p, Len(k))] = <<d>> /\ Pre(d, p)
      BY <1>5, <2>2, <3>0, Descend
    <3>2. Turn(p, Len(k)) = Turn(m, Len(k))
      BY <1>2, <1>3, <1>5, <2>2, TurnOfPre
    <3>3. Turn(c, Len(k)) = Turn(m, Len(k))
      BY <1>1, <1>2, <1>3, TurnOfPre
    <3>4. node[k][Side(a, Len(k))] = <<c>>
      BY SideType, NodeShape DEF c, Child
    <3>5. Kid[k][Side(a, Len(k))] = node[k][Side(a, Len(k))]
      BY SideType, NodeShape
    <3>6. d = c
      BY <1>1, <3>1, <3>2, <3>3, <3>4, <3>5
    <3> QED BY <1>5, <3>1, <3>6 DEF Follow, c
  <2>3. Len(k) <= Len(p)
    BY <1>5 DEF Pre
  <2> QED BY <1>3, <2>1, <2>2, <2>3
<1> QED BY <1>2, <1>4, <1>5 DEF Follow

\* A descent ends at a node where it may stop.
LEMMA LandingIs ==
  ASSUME TreeInv, head # Null, NEW a \in Address, NEW length \in 0..Width
  PROVE  /\ Landing(a, length) \in DOMAIN node \ Goes(a, length)
         /\ \A p \in DOMAIN node : Pre(p, Landing(a, length)) /\ Len(p) < Len(Landing(a, length)) =>
               Landing(a, length)[Len(p) + 1] = a[Len(p) + 1]
<1> DEFINE D == DOMAIN node
           go == Goes(a, length)
           next == [k \in go |-> Child(k, a)]
           rank == [k \in D |-> Width - Len(k)]
           down == CHOOSE f : f = LastOf(f, D, go, next)
<1>1. Tree(D, Kid, Up, head)
  BY DEF TreeInv
<1>2. \A k \in D : k \in Keys /\ Len(k) \in 0..Width
  BY NodeShape
<1>3. \A k \in go : k \in D /\ node[k][Side(a, Len(k))] # Null
  BY DEF Goes
<1>4. \A k \in go : Child(k, a) \in D /\ Len(k) < Len(Child(k, a))
  BY <1>3, ChildIs
<1>5. down = LastOf(down, D, go, next)
  <2>1. go \in SUBSET D /\ next \in [go -> D] /\ Width \in Nat
    BY <1>4, WidthType DEF Goes
  <2>2. rank \in [D -> 0..Width]
    BY <1>2, WidthType
  <2>3. \A k \in go : rank[next[k]] < rank[k]
    <3> TAKE k \in go
    <3>1. k \in D /\ next[k] \in D /\ Len(k) < Len(next[k])
      BY <1>3, <1>4
    <3> QED BY <1>2, <3>1, WidthType
  <2>4. \E f : f = LastOf(f, D, go, next)
    <3> HIDE DEF D, go, next, rank
    <3> QED BY <2>1, <2>2, <2>3, TailRecursion
  <2> HIDE DEF D, go, next
  <2> QED BY <2>4
<1>6. PICK h \in D : head = <<h>>
  BY <1>1 DEF Tree
<1>7. Landing(a, length) = down[h]
  BY <1>6 DEF Landing, Goes, Child, LastOf
<1> HIDE DEF down
<1>8. \A k \in D : down[k] = IF k \in go THEN down[Child(k, a)] ELSE k
  BY <1>5 DEF LastOf
<1> DEFINE S == {k \in D : ~(down[k] \in D \ go /\ Follow(a, k, down[k]))}
<1>9. ASSUME S # {} PROVE FALSE
  <2>1. S \subseteq Keys
    BY <1>2
  <2>2. PICK k \in S : \A j \in S : Len(j) <= Len(k)
    <3> HIDE DEF S
    <3> QED BY <1>9, <2>1, Longest
  <2>3. CASE k \in go
    <3>1. Child(k, a) \in D /\ Len(k) < Len(Child(k, a)) /\ Child(k, a) \notin S
      BY <1>2, <1>4, <2>2, <2>3
    <3>2. Follow(a, k, down[Child(k, a)])
      BY <1>3, <2>3, <3>1, FollowOn
    <3> QED BY <1>8, <2>3, <3>1, <3>2
  <2>4. CASE k \notin go
    <3>1. down[k] = k /\ k \in D
      BY <1>8, <2>4
    <3>2. Follow(a, k, k)
      <4>1. Pre(k, k)
        BY <1>2, <3>1, PreItself
      <4>2. \A p \in D : ~(Pre(k, p) /\ Len(p) < Len(k))
        BY <1>2, <3>1 DEF Pre
      <4> QED BY <3>1, <4>1, <4>2 DEF Follow
    <3> QED BY <2>4, <3>1, <3>2
  <2> QED BY <2>3, <2>4
<1>10. down[h] \in D \ go /\ Follow(a, h, down[h])
  BY <1>9
<1>11. \A p \in D : Pre(h, p)
  BY <1>1, <1>6, TopFirst
<1> QED BY <1>7, <1>10, <1>11 DEF Follow

\* A climb ends at the shortest node at or above its start that has differ bits.
LEMMA ClimbIs ==
  ASSUME TreeInv, NEW from \in DOMAIN node, NEW differ \in 0..Len(from)
  PROVE  /\ Climb(from, differ) \in DOMAIN node /\ Pre(Climb(from, differ), from)
         /\ differ <= Len(Climb(from, differ))
         /\ \A p \in DOMAIN node : node[Climb(from, differ)].parent = <<p>> => Len(p) < differ
<1> DEFINE D == DOMAIN node
           go == {k \in D : node[k].parent # Null /\ Len(node[k].parent[1]) >= differ}
           next == [k \in go |-> node[k].parent[1]]
           rank == [k \in D |-> Len(k)]
           up == CHOOSE f : f = LastOf(f, D, go, next)
           Ends(k, m) == /\ m \in D /\ Pre(m, k) /\ differ <= Len(m)
                         /\ \A p \in D : node[m].parent = <<p>> => Len(p) < differ
<1>2. \A k \in D : k \in Keys /\ Len(k) \in 0..Width /\ Len(k) \in Nat
  BY NodeShape, WidthType
<1>3. differ \in Nat
  BY <1>2
<1>4. \A k \in go : /\ k \in D /\ node[k].parent[1] \in D /\ Len(node[k].parent[1]) < Len(k)
                    /\ Pre(node[k].parent[1], k) /\ differ <= Len(node[k].parent[1])
  <2> TAKE k \in go
  <2>1. k \in D /\ node[k].parent # Null /\ Len(node[k].parent[1]) >= differ
    OBVIOUS
  <2>2. /\ node[k].parent[1] \in D /\ Len(node[k].parent[1]) < Len(k)
        /\ Pre(node[k].parent[1], k)
    <3> HIDE DEF go
    <3> QED BY <2>1, NodeShape
  <2> QED BY <1>2, <1>3, <2>1, <2>2
<1>5. up = LastOf(up, D, go, next)
  <2>1. go \in SUBSET D /\ next \in [go -> D] /\ Width \in Nat
    BY <1>4, WidthType
  <2>2. rank \in [D -> 0..Width]
    BY <1>2
  <2>3. \A k \in go : rank[next[k]] < rank[k]
    BY <1>4
  <2>4. \E f : f = LastOf(f, D, go, next)
    <3> HIDE DEF D, go, next, rank
    <3> QED BY <2>1, <2>2, <2>3, TailRecursion
  <2> HIDE DEF D, go, next
  <2> QED BY <2>4
<1>6. Climb(from, differ) = up[from]
  BY DEF Climb, LastOf
<1> HIDE DEF up
<1>7. \A k \in D : up[k] = IF k \in go THEN up[node[k].parent[1]] ELSE k
  BY <1>5 DEF LastOf
<1> DEFINE S == {k \in D : differ <= Len(k) /\ ~Ends(k, up[k])}
<1>8. ASSUME S # {} PROVE FALSE
  <2>1. S \subseteq Keys
    BY <1>2
  <2>2. PICK k \in S : \A j \in S : Len(k) <= Len(j)
    <3> HIDE DEF S
    <3> QED BY <1>8, <2>1, Shortest
  <2>3. CASE k \in go
    <3> DEFINE p == node[k].parent[1]
    <3>1. k \in D /\ p \in D /\ Len(p) < Len(k) /\ Pre(p, k) /\ differ <= Len(p)
      BY <1>4, <2>3
    <3> HIDE DEF p
    <3>2. p \notin S
      <4> HIDE DEF S
      <4> QED BY <1>2, <2>2, <3>1
    <3>3. Ends(p, up[p]) /\ up[k] = up[p]
      BY <1>7, <2>3, <3>1, <3>2 DEF p
    <3>4. Pre(up[p], k)
      BY <1>2, <3>1, <3>3, PreTrans
    <3> QED BY <3>3, <3>4
  <2>4. CASE k \notin go
    <3>1. up[k] = k /\ k \in D /\ differ <= Len(k)
      BY <1>7, <2>4
    <3>2. Pre(k, k)
      BY <1>2, <3>1, PreItself
    <3>3. ASSUME NEW p \in D, node[k].parent = <<p>>
          PROVE  Len(p) < differ
      <4>1. node[k].parent # Null /\ node[k].parent[1] = p
        BY <3>3 DEF Null
      <4>2. ~(Len(p) >= differ)
        BY <2>4, <3>1, <4>1
      <4> QED BY <1>2, <1>3, <4>2
    <3> QED BY <3>1, <3>2, <3>3
  <2> QED BY <2>3, <2>4
<1>9. from \in D /\ differ <= Len(from)
  BY <1>2
<1>10. Ends(from, up[from])
  BY <1>8, <1>9
<1> QED BY <1>6, <1>10

\* The bits an address and a node share, of at most length.
LEMMA DifferIs ==
  ASSUME NEW a \in Address, NEW length \in 0..Width, NEW k \in Keys
  PROVE  /\ DifferBit(a, length, k) \in Nat
         /\ DifferBit(a, length, k) <= length /\ DifferBit(a, length, k) <= Len(k)
         /\ \A i \in 1..DifferBit(a, length, k) : a[i] = k[i]
         /\ DifferBit(a, length, k) < length /\ DifferBit(a, length, k) < Len(k) =>
               a[DifferBit(a, length, k) + 1] # k[DifferBit(a, length, k) + 1]
<1> DEFINE check == IF Len(k) < length THEN Len(k) ELSE length
           S == {check} \cup {i \in 0..check-1 : a[i + 1] # k[i + 1]}
           d == Min(S)
<1>1. Len(k) \in Nat /\ length \in Nat /\ check \in Nat
  BY KeyType, WidthType
<1>2. check <= Len(k) /\ check <= length /\ (check = Len(k) \/ check = length)
  BY <1>1
<1> HIDE DEF check
<1>3. S \in SUBSET Nat /\ S # {}
  BY <1>1
<1>4. d \in S /\ \A i \in S : d <= i
  <2> HIDE DEF S
  <2> QED BY <1>3, MinIsLeast
<1>5. DifferBit(a, length, k) = d
  BY DEF DifferBit, check
<1> HIDE DEF d
<1>6. d \in Nat /\ d <= check
  BY <1>1, <1>4
<1>7. ASSUME NEW i \in 1..d, a[i] # k[i]
      PROVE  FALSE
  <2>1. i - 1 \in 0..check-1 /\ (i - 1) + 1 = i
    BY <1>1, <1>6
  <2>2. i - 1 \in S
    BY <1>7, <2>1
  <2>3. d <= i - 1
    BY <1>4, <2>2
  <2> QED BY <1>6, <2>3
<1>8. d < length /\ d < Len(k) => a[d + 1] # k[d + 1]
  BY <1>1, <1>2, <1>4
<1> QED BY <1>1, <1>2, <1>5, <1>6, <1>7, <1>8

-----------------------------------------------------------------------------
(* Where a key goes *)

\* at is a longest node that shares d bits with the key, or one below the place of the key.
Place(key, m, d, at) ==
    /\ key \in Keys /\ m \in DOMAIN node /\ at \in DOMAIN node /\ Pre(at, m)
    /\ d \in Nat /\ d <= Len(key) /\ d <= Len(at)
    /\ \A i \in 1..d : at[i] = key[i]
    /\ \A p \in DOMAIN node : node[at].parent = <<p>> => Len(p) < d
    /\ d < Len(key) => \A n \in DOMAIN node : d < Len(n) => \E i \in 1..d+1 : n[i] # key[i]

LEMMA KeyPlace ==
  ASSUME TreeInv, head # Null, NEW a \in Address, NEW length \in 0..Width,
         NEW m, m = Landing(a, length), NEW d, d = DifferBit(a, length, m)
  PROVE  Place(First(a, length), m, d, Climb(m, d))
<1> DEFINE D == DOMAIN node
           key == First(a, length)
           at == Climb(m, d)
<1>1. a \in Keys /\ Len(a) = Width
  BY AddressIsKey
<1>2. key \in Keys /\ Len(key) = length /\ \A i \in 1..length : key[i] = a[i]
  <2>1. length \in 0..Len(a)
    BY <1>1
  <2> QED BY <1>1, <2>1, FirstBits DEF First
<1>3. \A k \in D : k \in Keys /\ Len(k) \in 0..Width /\ Len(k) \in Nat
  BY NodeShape, WidthType
<1>4. m \in D \ Goes(a, length)
  BY LandingIs
<1>5. \A p \in D : Pre(p, m) /\ Len(p) < Len(m) => m[Len(p) + 1] = a[Len(p) + 1]
  BY LandingIs
<1>6. /\ d \in Nat /\ d <= length /\ d <= Len(m)
      /\ \A i \in 1..d : a[i] = m[i]
      /\ d < length /\ d < Len(m) => a[d + 1] # m[d + 1]
  BY <1>3, <1>4, DifferIs
<1>7. /\ at \in D /\ Pre(at, m) /\ d <= Len(at)
      /\ \A p \in D : node[at].parent = <<p>> => Len(p) < d
  <2>1. m \in D /\ d \in 0..Len(m)
    BY <1>3, <1>4, <1>6
  <2> QED BY <2>1, ClimbIs
<1> HIDE DEF at, key
<1>8. \A i \in 1..d : at[i] = key[i]
  <2> TAKE i \in 1..d
  <2>1. i \in 1..Len(at) /\ i \in 1..length
    BY <1>3, <1>6, <1>7, WidthType
  <2> QED BY <1>2, <1>6, <1>7, <2>1 DEF Pre
<1>9. ASSUME d < length, NEW n \in D, d < Len(n), \A i \in 1..d+1 : n[i] = key[i]
      PROVE  FALSE
  <2>1. Tree(D, Kid, Up, head)
    BY DEF TreeInv
  <2>2. \A i \in 1..d+1 : i \in 1..length
    BY <1>6, <1>9, WidthType
  <2>3. \A i \in 1..d+1 : n[i] = a[i]
    BY <1>2, <1>9, <2>2
  <2>4. d + 1 \in 1..d+1
    BY <1>6
  <2>5. CASE d < Len(m)
    <3>1. \A i \in 1..d : n[i] = m[i]
      BY <1>6, <2>3
    <3>2. n[d + 1] # m[d + 1]
      BY <1>6, <1>9, <2>3, <2>4, <2>5
    <3>3. PICK g \in D : Len(g) = d /\ Pre(g, n) /\ Pre(g, m)
      <4>1. m \in D /\ d \in Nat
        BY <1>4, <1>6
      <4> QED BY <1>9, <2>1, <2>5, <3>1, <3>2, <4>1, Branching
    <3>4. m[d + 1] = a[d + 1]
      BY <1>5, <2>5, <3>3
    <3> QED BY <2>3, <2>4, <3>2, <3>4
  <2>6. CASE d = Len(m)
    <3>1. Pre(m, n)
      <4>1. \A i \in 1..d : m[i] = n[i]
        BY <1>6, <2>3
      <4> QED BY <1>9, <2>6, <4>1, <1>3, <1>4 DEF Pre
    <3>2. PICK c \in D : Kid[m][Turn(n, Len(m))] = <<c>>
      BY <1>4, <1>9, <2>1, <2>6, <3>1, Descend
    <3>3. Turn(n, Len(m)) = Turn(a, Len(m))
      BY <2>3, <2>4, <2>6 DEF Turn
    <3>4. Turn(a, Len(m)) = Side(a, Len(m))
      <4>1. Len(m) \in 0..Width-1
        BY <1>6, <1>9, <2>6, WidthType
      <4> QED BY <4>1, AddressIsKey
    <3>5. Kid[m][Side(a, Len(m))] = node[m][Side(a, Len(m))]
      BY <1>4, SideType, NodeShape
    <3>6. node[m][Side(a, Len(m))] = <<c>>
      BY <3>2, <3>3, <3>4, <3>5
    <3>7. m \in Goes(a, length)
      <4>1. m \in DOMAIN node /\ Len(m) < length
        BY <1>4, <1>9, <2>6
      <4>2. node[m][Side(a, Len(m))] # Null
        BY <3>6 DEF Null
      <4> QED BY <4>1, <4>2 DEF Goes
    <3> QED BY <1>4, <3>7
  <2> QED BY <1>3, <1>4, <1>6, <2>5, <2>6
<1> QED BY <1>2, <1>4, <1>6, <1>7, <1>8, <1>9 DEF Place, key, at

\* No node has the bits shared, but at.
LEMMA BranchIsNew ==
  ASSUME TreeInv, NEW key, NEW m, NEW d, NEW at, Place(key, m, d, at),
         First(key, d) \in DOMAIN node
  PROVE  Len(at) = d /\ at = First(key, d)
<1>1. key \in Keys /\ at \in DOMAIN node /\ d \in Nat /\ d <= Len(key) /\ d <= Len(at)
  BY DEF Place
<1>2. Len(key) \in Nat /\ at \in Keys /\ Len(at) \in Nat
  BY <1>1, KeyType, NodeShape
<1>3. d \in 0..Len(key)
  BY <1>1, <1>2
<1>4. First(key, d) \in Keys /\ Len(First(key, d)) = d
  BY <1>1, <1>3, FirstBits
<1>5. Pre(First(key, d), at)
  <2>1. \A i \in 1..d : First(key, d)[i] = at[i]
    BY DEF Place, First
  <2> QED BY <1>1, <1>4, <2>1 DEF Pre
<1>6. ASSUME d < Len(at) PROVE FALSE
  <2>1. Tree(DOMAIN node, Kid, Up, head)
    BY DEF TreeInv
  <2>2. PICK p \in DOMAIN node : Up[at] = <<p>> /\ Len(First(key, d)) <= Len(p)
    BY <1>1, <1>4, <1>5, <1>6, <2>1, NoneBetween
  <2>3. node[at].parent = <<p>>
    BY <1>1, <2>2 DEF Up
  <2>4. Len(p) < d
    BY <2>3 DEF Place
  <2>5. Len(p) \in Nat
    BY NodeShape
  <2> QED BY <1>1, <1>4, <2>2, <2>4, <2>5
<1>7. Len(at) = d
  BY <1>1, <1>2, <1>6
<1>8. at = First(key, d)
  BY <1>2, <1>4, <1>5, <1>7, SameKey
<1> QED BY <1>7, <1>8

-----------------------------------------------------------------------------
(* What a change of a node changes *)

LEMMA NewIs ==
  ASSUME NEW p \in Pointers, NEW e \in Nat
  PROVE  /\ New(p, e) \in NodeType /\ New(p, e).has /\ New(p, e).parent = p
         /\ New(p, e).expiration = e /\ \A s \in Sides : New(p, e)[s] = Null
BY DEF New, NodeType, Pointers, Sides

LEMMA Redirected ==
  ASSUME NEW n \in NodeType, NEW s \in Sides, NEW p \in Pointers
  PROVE  /\ [n EXCEPT ![s] = p] \in NodeType
         /\ [n EXCEPT ![s] = p].has = n.has /\ [n EXCEPT ![s] = p].parent = n.parent
         /\ [n EXCEPT ![s] = p].expiration = n.expiration
         /\ \A t \in Sides : [n EXCEPT ![s] = p][t] = IF t = s THEN p ELSE n[t]
<1>1. CASE s = "l"
  BY <1>1 DEF NodeType, Sides
<1>2. CASE s = "r"
  BY <1>2 DEF NodeType, Sides
<1> QED BY <1>1, <1>2 DEF Sides

With(n, s, q) == [n EXCEPT ![s] = q]

LEMMA NewWith ==
  ASSUME NEW p \in Pointers, NEW e \in Nat, NEW s \in Sides, NEW q \in Pointers
  PROVE  /\ With(New(p, e), s, q) \in NodeType /\ With(New(p, e), s, q).has
         /\ With(New(p, e), s, q).parent = p /\ With(New(p, e), s, q).expiration = e
         /\ \A t \in Sides : With(New(p, e), s, q)[t] = IF t = s THEN q ELSE Null
<1> DEFINE n == New(p, e)
<1>1. /\ n \in NodeType /\ n.has /\ n.parent = p /\ n.expiration = e
      /\ \A t \in Sides : n[t] = Null
  BY NewIs
<1> HIDE DEF n
<1>2. /\ With(n, s, q) \in NodeType /\ With(n, s, q).has
      /\ With(n, s, q).parent = p /\ With(n, s, q).expiration = e
      /\ \A t \in Sides : With(n, s, q)[t] = IF t = s THEN q ELSE Null
  <2>1. CASE s = "l"
    BY <1>1, <2>1 DEF With, NodeType, Sides
  <2>2. CASE s = "r"
    BY <1>1, <2>2 DEF With, NodeType, Sides
  <2> QED BY <2>1, <2>2 DEF Sides
<1> QED BY <1>2 DEF n

LEMMA Reparented ==
  ASSUME NEW n \in NodeType, NEW p \in Pointers
  PROVE  /\ [n EXCEPT !.parent = p] \in NodeType
         /\ [n EXCEPT !.parent = p].has = n.has /\ [n EXCEPT !.parent = p].parent = p
         /\ [n EXCEPT !.parent = p].expiration = n.expiration
         /\ \A t \in Sides : [n EXCEPT !.parent = p][t] = n[t]
BY DEF NodeType, Sides

\* The next tree, from what its nodes are.
LEMMA NextShape ==
  ASSUME NEW D, NEW kid, NEW up, Tree(D, kid, up, head'),
         kid = [j \in D |-> [s \in Sides |-> kid[j][s]]], up = [j \in D |-> up[j]],
         DOMAIN node' = D, node' \in [D -> NodeType],
         \A j \in D : (\A s \in Sides : node'[j][s] = kid[j][s]) /\ node'[j].parent = up[j],
         \A j \in D : ~node'[j].has => \A s \in Sides : node'[j][s] # Null
  PROVE  TreeInv'
<1>1. Kid' = [j \in D |-> [s \in Sides |-> node'[j][s]]] /\ Up' = [j \in D |-> node'[j].parent]
  BY DEF Kid, Up
<1>2. Kid' = [j \in D |-> [s \in Sides |-> kid[j][s]]] /\ Up' = [j \in D |-> up[j]]
  <2>1. \A j \in D : [s \in Sides |-> node'[j][s]] = [s \in Sides |-> kid[j][s]]
    OBVIOUS
  <2> QED BY <1>1, <2>1
<1>3. Kid' = kid /\ Up' = up
  BY <1>2
<1>4. Tree(DOMAIN node', Kid', Up', head')
  BY <1>3
<1> QED BY <1>4 DEF TreeInv, Sides

Listed == {k \in DOMAIN node : node[k].has}

\* The key has the expiration, and no other key has changed.
Stored(key, e) ==
    /\ Listed' = Listed \cup {key} /\ node'[key].expiration = e
    /\ \A j \in Listed \ {key} : node'[j].expiration = node[j].expiration

LEMMA FirstPut ==
  ASSUME TreeInv, NEW key \in Keys, NEW e \in Nat, PutFirst(key, e)
  PROVE  TreeInv' /\ Stored(key, e)
<1> DEFINE D == {key}
           kid == [j \in D |-> [s \in Sides |-> Null]]
           up == [j \in D |-> Null]
<1>1. head' = <<key>> /\ node' = AddNode(node, key, New(Null, e)) /\ head = Null
  BY DEF PutFirst
<1>2. DOMAIN node = {}
  BY <1>1 DEF TreeInv, Tree
<1>3. node' = [j \in D |-> New(Null, e)]
  BY <1>1, <1>2 DEF AddNode
<1>4. /\ New(Null, e) \in NodeType /\ New(Null, e).has /\ New(Null, e).parent = Null
      /\ New(Null, e).expiration = e /\ \A s \in Sides : New(Null, e)[s] = Null
  <2>1. Null \in Pointers
    BY DEF Pointers
  <2> QED BY <2>1, NewIs
<1>5. Tree(D, kid, up, head')
  BY <1>1 DEF Tree, Null
<1>6. TreeInv'
  <2>1. kid = [j \in D |-> [s \in Sides |-> kid[j][s]]] /\ up = [j \in D |-> up[j]]
    OBVIOUS
  <2>2. DOMAIN node' = D /\ node' \in [D -> NodeType]
    BY <1>3, <1>4
  <2>3. \A j \in D : (\A s \in Sides : node'[j][s] = kid[j][s]) /\ node'[j].parent = up[j]
    BY <1>3, <1>4
  <2>4. \A j \in D : node'[j].has
    BY <1>3, <1>4
  <2> HIDE DEF D, kid, up
  <2> QED BY <1>5, <2>1, <2>2, <2>3, <2>4, NextShape
<1>7. Listed = {} /\ Listed' = {key} /\ node'[key].expiration = e
  BY <1>2, <1>3, <1>4 DEF Listed
<1> QED BY <1>6, <1>7 DEF Stored

LEMMA FoundPut ==
  ASSUME TreeInv, NEW key, NEW m, NEW d, NEW at, Place(key, m, d, at), NEW e \in Nat,
         PutFound(key, at, d, e)
  PROVE  TreeInv' /\ Stored(key, e)
<1> DEFINE D == DOMAIN node
           n == [[node[at] EXCEPT !.has = TRUE] EXCEPT !.expiration = e]
<1>1. /\ d = Len(key) /\ Len(at) = Len(key) /\ head' = head
      /\ node' = [node EXCEPT ![at].has = TRUE, ![at].expiration = e]
  BY DEF PutFound
<1>2. key \in Keys /\ at \in D /\ at \in Keys /\ d \in Nat /\ \A i \in 1..d : at[i] = key[i]
  BY NodeShape DEF Place
<1>3. at = key
  <2>1. Pre(at, key)
    BY <1>1, <1>2 DEF Pre
  <2> QED BY <1>1, <1>2, <2>1, SameKey
<1>4. node \in [D -> NodeType] /\ node[at] \in NodeType
  <2>1. node \in [D -> NodeType]
    BY DEF TreeInv
  <2> QED BY <1>2, <2>1
<1>5. /\ n \in NodeType /\ n.has /\ n.expiration = e /\ n.parent = node[at].parent
      /\ \A s \in Sides : n[s] = node[at][s]
  BY <1>4 DEF NodeType, Sides
<1>6. DOMAIN node' = D /\ \A j \in D : node'[j] = IF j = at THEN n ELSE node[j]
  BY <1>1, <1>2, <1>4
<1> HIDE DEF n
<1>7. node' \in [D -> NodeType]
  <2>1. node' = [j \in D |-> node'[j]]
    BY <1>1
  <2>2. \A j \in D : node'[j] \in NodeType
    BY <1>4, <1>5, <1>6
  <2> QED BY <2>1, <2>2
<1>8. TreeInv'
  <2>1. Tree(D, Kid, Up, head')
    BY <1>1 DEF TreeInv
  <2>2. Kid = [j \in D |-> [s \in Sides |-> Kid[j][s]]] /\ Up = [j \in D |-> Up[j]]
    BY DEF Kid, Up
  <2>3. ASSUME NEW j \in D
        PROVE  /\ \A s \in Sides : node'[j][s] = Kid[j][s]
               /\ node'[j].parent = Up[j]
               /\ ~node'[j].has => \A s \in Sides : node'[j][s] # Null
    <3>1. (\A s \in Sides : Kid[j][s] = node[j][s]) /\ Up[j] = node[j].parent
      BY DEF Kid, Up
    <3>2. CASE j = at
      BY <1>5, <1>6, <3>1, <3>2
    <3>3. CASE j # at
      BY <1>6, <3>1, <3>3, NodeShape
    <3> QED BY <3>2, <3>3
  <2> QED BY <1>6, <1>7, <2>1, <2>2, <2>3, NextShape
<1>9. Listed' = Listed \cup {key}
  BY <1>2, <1>3, <1>5, <1>6 DEF Listed
<1>10. node'[key].expiration = e /\ \A j \in Listed \ {key} : node'[j].expiration = node[j].expiration
  BY <1>2, <1>3, <1>5, <1>6 DEF Listed
<1> QED BY <1>8, <1>9, <1>10 DEF Stored

\* A longer node that has the shared bits goes to the other side.
LEMMA Parts ==
  ASSUME TreeInv, NEW key, NEW m, NEW d, NEW at, Place(key, m, d, at), d < Len(key),
         NEW n \in DOMAIN node, d < Len(n), \A i \in 1..d : n[i] = key[i]
  PROVE  Turn(n, d) # Turn(key, d)
<1>1. key \in Keys /\ n \in Keys /\ d \in Nat
  BY NodeShape DEF Place
<1>2. \E i \in 1..d+1 : n[i] # key[i]
  BY DEF Place
<1>3. n[d + 1] # key[d + 1]
  <2>1. \A i \in 1..d+1 : i \in 1..d \/ i = d + 1
    BY <1>1
  <2> QED BY <1>2, <2>1
<1> QED BY <1>1, <1>3, SameTurn

LEMMA BelowPut ==
  ASSUME TreeInv, NEW key, NEW m, NEW d, NEW at, Place(key, m, d, at), NEW e \in Nat,
         NEW address, \A n \in 0..Len(key)-1 : Side(address, n) = Turn(key, n),
         PutBelow(key, at, d, address, e)
  PROVE  TreeInv' /\ Stored(key, e)
<1> DEFINE D == DOMAIN node
           side == Side(address, Len(at))
           n == [node[at] EXCEPT ![side] = <<key>>]
           new == New(<<at>>, e)
           kid == KidBelow(D, Kid, at, key)
           up == UpBelow(D, Up, at, key)
           D2 == D \cup {key}
<1>1. /\ d # Len(key) \/ Len(at) # Len(key)
      /\ Len(at) = d /\ head' = head
      /\ node' = AddNode([node EXCEPT ![at][side] = <<key>>], key, new)
  BY DEF PutBelow
<1>2. /\ key \in Keys /\ at \in D /\ d \in Nat /\ d <= Len(key) /\ Len(key) \in Nat
      /\ \A i \in 1..d : at[i] = key[i]
  <2>1. key \in Keys /\ at \in D /\ d \in Nat /\ d <= Len(key) /\ \A i \in 1..d : at[i] = key[i]
    BY DEF Place
  <2> QED BY <2>1, KeyType
<1>3. d < Len(key) /\ Pre(at, key)
  BY <1>1, <1>2 DEF Pre
<1>4. side = Turn(key, d) /\ side \in Sides
  <2>1. d \in 0..Len(key)-1
    BY <1>2, <1>3
  <2> QED BY <1>1, <2>1, SideType
<1> HIDE DEF side
<1>5. key \notin D
  <2>1. Turn(key, d) = Turn(key, d) /\ \A i \in 1..d : key[i] = key[i]
    OBVIOUS
  <2> QED BY <1>3, <2>1, Parts
<1>6. Tree(D, Kid, Up, head)
  BY DEF TreeInv
<1>7. Kid[at][Turn(key, d)] = Null
  <2>1. ASSUME Kid[at][Turn(key, d)] # Null PROVE FALSE
    <3>1. PICK c \in D : Kid[at][Turn(key, d)] = <<c>>
      BY <1>2, <1>4, <1>6, <2>1 DEF Tree
    <3>2. Len(at) < Len(c) /\ Pre(at, c) /\ Turn(c, Len(at)) = Turn(key, d)
      BY <1>2, <1>4, <1>6, <3>1 DEF Tree
    <3>3. \A i \in 1..d : c[i] = key[i]
      BY <1>1, <1>2, <3>2 DEF Pre
    <3> QED BY <1>1, <1>3, <3>2, <3>3, Parts
  <2> QED BY <2>1
<1>8. Tree(D2, kid, up, head')
  BY <1>1, <1>2, <1>3, <1>5, <1>6, <1>7, InsertBelow
<1>9. node \in [D -> NodeType] /\ node[at] \in NodeType /\ <<key>> \in Pointers /\ <<at>> \in Pointers
  <2>1. node \in [D -> NodeType] /\ at \in Keys
    BY <1>2, NodeShape DEF TreeInv
  <2> QED BY <1>2, <2>1 DEF Pointers
<1>10. /\ n \in NodeType /\ n.has = node[at].has /\ n.parent = node[at].parent
       /\ n.expiration = node[at].expiration
       /\ \A s \in Sides : n[s] = IF s = side THEN <<key>> ELSE node[at][s]
  BY <1>4, <1>9, Redirected
<1>11. /\ new \in NodeType /\ new.has /\ new.parent = <<at>> /\ new.expiration = e
       /\ \A s \in Sides : new[s] = Null
  BY <1>9, NewIs
<1>12. /\ node' = [j \in D2 |-> node'[j]]
       /\ \A j \in D2 : node'[j] = IF j = key THEN new ELSE IF j = at THEN n ELSE node[j]
  BY <1>1, <1>2, <1>9 DEF AddNode
<1> HIDE DEF n, new
<1>13. \A j \in D2 : node'[j] \in NodeType
  BY <1>9, <1>10, <1>11, <1>12
<1>14. TreeInv'
  <2>1. kid = [j \in D2 |-> [s \in Sides |-> kid[j][s]]] /\ up = [j \in D2 |-> up[j]]
    BY DEF KidBelow, UpBelow
  <2>2. DOMAIN node' = D2 /\ node' \in [D2 -> NodeType]
    <3> HIDE DEF D2
    <3> QED BY <1>12, <1>13
  <2>3. ASSUME NEW j \in D2
        PROVE  /\ \A s \in Sides : node'[j][s] = kid[j][s]
               /\ node'[j].parent = up[j]
               /\ ~node'[j].has => \A s \in Sides : node'[j][s] # Null
    <3>1. /\ \A s \in Sides : kid[j][s] = IF j = key THEN Null
               ELSE IF j = at /\ s = Turn(key, Len(at)) THEN <<key>> ELSE Kid[j][s]
          /\ up[j] = IF j = key THEN <<at>> ELSE Up[j]
      BY DEF KidBelow, UpBelow
    <3>2. CASE j = key
      BY <1>11, <1>12, <3>1, <3>2
    <3>3. CASE j # key
      <4>1. (\A s \in Sides : Kid[j][s] = node[j][s]) /\ Up[j] = node[j].parent
        BY <3>3 DEF Kid, Up
      <4>2. ~node[j].has => \A s \in Sides : node[j][s] # Null
        BY <3>3, NodeShape
      <4>3. <<key>> # Null
        BY DEF Null
      <4> HIDE DEF kid, up
      <4>4. CASE j = at
        <5>1. node'[j] = n
          BY <1>12, <3>3, <4>4
        <5>2. side = Turn(key, Len(at))
          BY <1>1, <1>4
        <5>3. \A s \in Sides : kid[j][s] = IF s = side THEN <<key>> ELSE node[j][s]
          BY <3>1, <3>3, <4>1, <4>4, <5>2
        <5>4. up[j] = node[j].parent
          BY <3>1, <3>3, <4>1
        <5> QED BY <1>10, <4>2, <4>3, <4>4, <5>1, <5>3, <5>4
      <4>5. CASE j # at
        <5>1. node'[j] = node[j]
          BY <1>12, <3>3, <4>5
        <5> QED BY <3>1, <3>3, <4>1, <4>2, <4>5, <5>1
      <4> QED BY <4>4, <4>5
    <3> QED BY <3>2, <3>3
  <2> HIDE DEF D2, kid, up
  <2> QED BY <1>8, <2>1, <2>2, <2>3, NextShape
<1>15. Listed' = Listed \cup {key}
  BY <1>2, <1>5, <1>10, <1>11, <1>12 DEF Listed
<1>16. node'[key].expiration = e /\ \A j \in Listed \ {key} : node'[j].expiration = node[j].expiration
  BY <1>2, <1>10, <1>11, <1>12 DEF Listed
<1> QED BY <1>14, <1>15, <1>16 DEF Stored

\* The nodes once k is between at and its parent.
Hung(at, k) == [Hang(node, node[at].parent, at, k) EXCEPT ![at].parent = <<k>>]

LEMMA HangIs ==
  ASSUME TreeInv, NEW at \in DOMAIN node, NEW k \in Keys
  PROVE  LET h == Hang(node, node[at].parent, at, k) IN
         /\ h \in [DOMAIN node -> NodeType]
         /\ \A j \in DOMAIN node :
               /\ h[j].has = node[j].has /\ h[j].expiration = node[j].expiration
               /\ h[j].parent = node[j].parent
               /\ \A s \in Sides : h[j][s] = IF node[j][s] = <<at>> THEN <<k>> ELSE node[j][s]
<1> DEFINE D == DOMAIN node
           parent == node[at].parent
           h == Hang(node, parent, at, k)
<1>1. Tree(D, Kid, Up, head) /\ node \in [D -> NodeType] /\ <<k>> \in Pointers
  BY DEF TreeInv, Pointers
<1>2. \A j \in D : (\A s \in Sides : Kid[j][s] = node[j][s]) /\ Up[j] = node[j].parent
  BY DEF Kid, Up
<1>3. \A j \in D, s \in Sides : node[j][s] = <<at>> => parent = <<j>> /\ Turn(at, Len(j)) = s
  BY <1>1, <1>2 DEF Tree
<1>4. CASE parent = Null
  <2>1. h = node
    BY <1>4 DEF Hang
  <2>2. \A j \in D, s \in Sides : node[j][s] # <<at>>
    BY <1>3, <1>4 DEF Null
  <2> QED BY <1>1, <2>1, <2>2
<1>5. CASE parent # Null
  <2> DEFINE p == parent[1]
             side == IF node[p].r = <<at>> THEN "r" ELSE "l"
             n == [node[p] EXCEPT ![side] = <<k>>]
  <2>1. p \in D /\ parent = <<p>> /\ side \in Sides
    BY <1>5, NodeShape DEF Sides
  <2>2. PICK t \in Sides : node[p][t] = <<at>>
    <3> HIDE DEF p, parent, side, n, h
    <3>1. Up[at] = <<p>>
      BY <1>2, <2>1 DEF parent
    <3>2. \E t \in Sides : Kid[p][t] = <<at>>
      BY <1>1, <2>1, <3>1 DEF Tree
    <3> QED BY <1>2, <2>1, <3>2
  <2>3. \A s \in Sides : node[p][s] = <<at>> <=> s = side
    <3>1. \A s \in Sides : node[p][s] = <<at>> => s = t
      BY <1>3, <2>1, <2>2
    <3>2. t = side
      <4>1. CASE t = "r"
        BY <2>2, <4>1
      <4>2. CASE t = "l"
        <5>1. node[p].r # <<at>>
          BY <3>1, <4>2 DEF Sides
        <5> QED BY <4>2, <5>1
      <4> QED BY <4>1, <4>2 DEF Sides
    <3> QED BY <2>2, <3>1, <3>2
  <2>4. h = [node EXCEPT ![p][side] = <<k>>]
    BY <1>5 DEF Hang
  <2> HIDE DEF side
  <2>5. /\ n \in NodeType /\ n.has = node[p].has /\ n.parent = node[p].parent
        /\ n.expiration = node[p].expiration
        /\ \A s \in Sides : n[s] = IF s = side THEN <<k>> ELSE node[p][s]
    BY <1>1, <2>1, Redirected
  <2>6. h \in [D -> NodeType] /\ \A j \in D : h[j] = IF j = p THEN n ELSE node[j]
    <3>1. h = [j \in D |-> IF j = p THEN n ELSE node[j]]
      BY <1>1, <2>1, <2>4
    <3> HIDE DEF h, n
    <3> QED BY <1>1, <2>5, <3>1
  <2>7. \A j \in D, s \in Sides : j # p => node[j][s] # <<at>>
    BY <1>3, <2>1
  <2> HIDE DEF h, n, p
  <2>8. ASSUME NEW j \in D
        PROVE  /\ h[j].has = node[j].has /\ h[j].expiration = node[j].expiration
               /\ h[j].parent = node[j].parent
               /\ \A s \in Sides : h[j][s] = IF node[j][s] = <<at>> THEN <<k>> ELSE node[j][s]
    <3>1. CASE j = p
      <4>1. h[j] = n
        BY <2>6, <3>1
      <4> QED BY <2>3, <2>5, <3>1, <4>1
    <3>2. CASE j # p
      <4>1. h[j] = node[j]
        BY <2>6, <3>2
      <4> QED BY <2>7, <3>2, <4>1
    <3> QED BY <3>1, <3>2
  <2> QED BY <2>6, <2>8 DEF h
<1> QED BY <1>4, <1>5

LEMMA HungIs ==
  ASSUME TreeInv, NEW at \in DOMAIN node, NEW k \in Keys
  PROVE  /\ Hung(at, k) \in [DOMAIN node -> NodeType]
         /\ \A j \in DOMAIN node :
               /\ Hung(at, k)[j].has = node[j].has
               /\ Hung(at, k)[j].expiration = node[j].expiration
               /\ Hung(at, k)[j].parent = IF j = at THEN <<k>> ELSE node[j].parent
               /\ \A s \in Sides :
                     Hung(at, k)[j][s] = IF node[j][s] = <<at>> THEN <<k>> ELSE node[j][s]
<1> DEFINE D == DOMAIN node
           h == Hang(node, node[at].parent, at, k)
           n == [h[at] EXCEPT !.parent = <<k>>]
<1>1. /\ h \in [D -> NodeType]
      /\ \A j \in D :
            /\ h[j].has = node[j].has /\ h[j].expiration = node[j].expiration
            /\ h[j].parent = node[j].parent
            /\ \A s \in Sides : h[j][s] = IF node[j][s] = <<at>> THEN <<k>> ELSE node[j][s]
  BY HangIs
<1> HIDE DEF h
<1>2. h[at] \in NodeType /\ <<k>> \in Pointers
  BY <1>1 DEF Pointers
<1>3. /\ n \in NodeType /\ n.has = h[at].has /\ n.parent = <<k>> /\ n.expiration = h[at].expiration
      /\ \A s \in Sides : n[s] = h[at][s]
  BY <1>2, Reparented
<1>4. Hung(at, k) = [j \in D |-> IF j = at THEN n ELSE h[j]]
  BY <1>1 DEF Hung, h
<1> HIDE DEF n
<1>5. ASSUME NEW j \in D
      PROVE  /\ Hung(at, k)[j] \in NodeType
             /\ Hung(at, k)[j].has = node[j].has
             /\ Hung(at, k)[j].expiration = node[j].expiration
             /\ Hung(at, k)[j].parent = IF j = at THEN <<k>> ELSE node[j].parent
             /\ \A s \in Sides :
                   Hung(at, k)[j][s] = IF node[j][s] = <<at>> THEN <<k>> ELSE node[j][s]
  <2>1. CASE j = at
    <3>1. Hung(at, k)[j] = n
      BY <1>4, <2>1
    <3> QED BY <1>1, <1>3, <2>1, <3>1
  <2>2. CASE j # at
    <3>1. Hung(at, k)[j] = h[j]
      BY <1>4, <2>2
    <3> QED BY <1>1, <2>2, <3>1
  <2> QED BY <2>1, <2>2
<1>6. Hung(at, k) = [j \in D |-> Hung(at, k)[j]]
  BY <1>4
<1> QED BY <1>5, <1>6

\* What there is to know of the place when at has more bits than are shared.
LEMMA AbovePlace ==
  ASSUME TreeInv, NEW key, NEW m, NEW d, NEW at, Place(key, m, d, at), Len(at) # d
  PROVE  /\ at \in DOMAIN node /\ First(key, d) \in Keys /\ First(key, d) \notin DOMAIN node
         /\ Len(First(key, d)) = d /\ Pre(First(key, d), key)
         /\ Pre(First(key, d), at) /\ d < Len(at)
         /\ \A p \in DOMAIN node : Up[at] = <<p>> => Len(p) < d
<1>1. /\ key \in Keys /\ at \in DOMAIN node /\ d \in Nat /\ d <= Len(key) /\ d <= Len(at)
      /\ \A i \in 1..d : at[i] = key[i]
      /\ \A p \in DOMAIN node : node[at].parent = <<p>> => Len(p) < d
  BY DEF Place
<1>2. at \in Keys /\ Len(at) \in Nat /\ Len(key) \in Nat
  BY <1>1, NodeShape, KeyType
<1>3. d \in 0..Len(key) /\ d < Len(at)
  BY <1>1, <1>2
<1>4. First(key, d) \in Keys /\ Len(First(key, d)) = d /\ Pre(First(key, d), key)
  BY <1>1, <1>3, FirstBits
<1>5. First(key, d) \notin DOMAIN node
  BY BranchIsNew
<1>6. Pre(First(key, d), at)
  <2>1. \A i \in 1..d : First(key, d)[i] = at[i]
    BY <1>1 DEF First
  <2> QED BY <1>1, <1>4, <2>1 DEF Pre
<1>7. Up[at] = node[at].parent
  BY <1>1 DEF Up
<1> QED BY <1>1, <1>3, <1>4, <1>5, <1>6, <1>7

LEMMA AbovePut ==
  ASSUME TreeInv, NEW key, NEW m, NEW d, NEW at, Place(key, m, d, at), NEW e \in Nat,
         PutAbove(key, m, at, d, e)
  PROVE  TreeInv' /\ Stored(key, e)
<1> DEFINE D == DOMAIN node
           parent == node[at].parent
           side == Side(m, Len(key))
           new == With(New(parent, e), side, <<at>>)
           h == Hung(at, key)
           kid == KidAbove(D, Kid, at, key)
           up == UpAbove(D, Up, at, key)
           D2 == D \cup {key}
<1>1. /\ Len(at) # d /\ d = Len(key)
      /\ node' = AddNode(h, key, new)
      /\ head' = IF parent = Null THEN <<key>> ELSE head
  BY DEF PutAbove, Hung, With
<1>2. First(key, d) = key
  <2>1. key \in Keys
    BY DEF Place
  <2>2. d \in 0..Len(key)
    BY <1>1, <2>1, KeyType
  <2> QED BY <1>1, <2>1, <2>2, FirstBits, SameKey
<1>3. /\ at \in D /\ key \in Keys /\ key \notin D /\ Pre(key, at) /\ Len(key) < Len(at)
      /\ \A p \in D : Up[at] = <<p>> => Len(p) < Len(key)
  BY <1>1, <1>2, AbovePlace
<1>4. side = Turn(at, Len(key)) /\ side \in Sides
  <2>1. m \in D /\ Pre(at, m)
    BY DEF Place
  <2>2. /\ m \in Keys /\ at \in Keys /\ key \in Keys
        /\ Len(m) \in 0..Width /\ Len(at) \in 0..Width /\ Len(key) \in Nat
    BY <1>3, <2>1, NodeShape, KeyType
  <2>3. Len(key) < Width
    BY <1>3, <2>2, WidthType
  <2>4. side = Turn(m, Len(key))
    BY <2>3 DEF Side, Turn
  <2>5. Turn(at, Len(key)) = Turn(m, Len(key))
    BY <1>3, <2>1, <2>2, TurnOfPre
  <2> QED BY <2>4, <2>5, SideType
<1> HIDE DEF side
<1>5. Tree(D, Kid, Up, head)
  BY DEF TreeInv
<1>6. Up[at] = parent /\ parent \in Pointers /\ node[at] \in NodeType /\ <<at>> \in Pointers
  <2>1. node[at] \in NodeType /\ at \in Keys
    BY <1>3, NodeShape DEF TreeInv
  <2> QED BY <1>3, <2>1 DEF Up, NodeType, Pointers
<1>7. Tree(D2, kid, up, head')
  <2>1. head' = TopAbove(Up, head, at, key)
    BY <1>1, <1>6 DEF TopAbove
  <2> QED BY <1>3, <1>5, <2>1, InsertAbove
<1>8. /\ new \in NodeType /\ new.has /\ new.parent = parent /\ new.expiration = e
      /\ \A s \in Sides : new[s] = IF s = side THEN <<at>> ELSE Null
  <2>1. parent \in Pointers /\ side \in Sides /\ <<at>> \in Pointers
    BY <1>4, <1>6
  <2> QED BY <2>1, NewWith
<1>9. /\ h \in [D -> NodeType]
      /\ \A j \in D :
            /\ h[j].has = node[j].has /\ h[j].expiration = node[j].expiration
            /\ h[j].parent = IF j = at THEN <<key>> ELSE node[j].parent
            /\ \A s \in Sides : h[j][s] = IF node[j][s] = <<at>> THEN <<key>> ELSE node[j][s]
  BY <1>3, HungIs
<1>10. /\ node' = [j \in D2 |-> node'[j]]
       /\ \A j \in D2 : node'[j] = IF j = key THEN new ELSE h[j]
  BY <1>1, <1>9 DEF AddNode
<1> HIDE DEF new, h
<1>11. \A j \in D2 : node'[j] \in NodeType
  BY <1>8, <1>9, <1>10
<1>12. TreeInv'
  <2>1. kid = [j \in D2 |-> [s \in Sides |-> kid[j][s]]] /\ up = [j \in D2 |-> up[j]]
    BY DEF KidAbove, UpAbove
  <2>2. DOMAIN node' = D2 /\ node' \in [D2 -> NodeType]
    <3> HIDE DEF D2
    <3> QED BY <1>10, <1>11
  <2>3. ASSUME NEW j \in D2
        PROVE  /\ \A s \in Sides : node'[j][s] = kid[j][s]
               /\ node'[j].parent = up[j]
               /\ ~node'[j].has => \A s \in Sides : node'[j][s] # Null
    <3>1. /\ \A s \in Sides : kid[j][s] = IF j = key THEN IF s = Turn(at, Len(key)) THEN <<at>> ELSE Null
               ELSE IF Kid[j][s] = <<at>> THEN <<key>> ELSE Kid[j][s]
          /\ up[j] = IF j = key THEN Up[at] ELSE IF j = at THEN <<key>> ELSE Up[j]
      BY DEF KidAbove, UpAbove
    <3> HIDE DEF kid, up
    <3>2. CASE j = key
      <4>1. node'[j] = new
        BY <1>10, <3>2
      <4> QED BY <1>4, <1>6, <1>8, <3>1, <3>2, <4>1
    <3>3. CASE j # key
      <4>1. (\A s \in Sides : Kid[j][s] = node[j][s]) /\ Up[j] = node[j].parent
        BY <3>3 DEF Kid, Up
      <4>2. ~node[j].has => \A s \in Sides : node[j][s] # Null
        BY <3>3, NodeShape
      <4>3. <<key>> # Null
        BY DEF Null
      <4>4. node'[j] = h[j] /\ j \in D
        BY <1>10, <3>3
      <4> QED BY <1>9, <3>1, <3>3, <4>1, <4>2, <4>3, <4>4
    <3> QED BY <3>2, <3>3
  <2> HIDE DEF D2, kid, up
  <2> QED BY <1>7, <2>1, <2>2, <2>3, NextShape
<1>13. Listed' = Listed \cup {key}
  BY <1>3, <1>8, <1>9, <1>10 DEF Listed
<1>14. node'[key].expiration = e /\ \A j \in Listed \ {key} : node'[j].expiration = node[j].expiration
  BY <1>3, <1>8, <1>9, <1>10 DEF Listed
<1> QED BY <1>12, <1>13, <1>14 DEF Stored

LEMMA BesidePut ==
  ASSUME TreeInv, NEW key, NEW m, NEW d, NEW at, Place(key, m, d, at), NEW e \in Nat,
         NEW address, \A n \in 0..Len(key)-1 : Side(address, n) = Turn(key, n),
         SubSeq(address, 1, d) = First(key, d),
         PutBeside(key, at, d, address, e)
  PROVE  TreeInv' /\ Stored(key, e)
<1> DEFINE D == DOMAIN node
           parent == node[at].parent
           glue == First(key, d)
           side == Side(address, d)
           right == side = "r"
           g == [has |-> FALSE, parent |-> parent, expiration |-> 0,
                 l |-> IF right THEN <<at>> ELSE <<key>>, r |-> IF right THEN <<key>> ELSE <<at>>]
           new == New(<<glue>>, e)
           h == Hung(at, glue)
           D1 == D \cup {glue}
           kid1 == KidAbove(D, Kid, at, glue)
           up1 == UpAbove(D, Up, at, glue)
           D2 == D1 \cup {key}
           kid == KidBelow(D1, kid1, glue, key)
           up == UpBelow(D1, up1, glue, key)
<1>1. /\ Len(at) # d /\ d # Len(key)
      /\ node' = AddNode(AddNode(h, glue, g), key, new)
      /\ head' = IF parent = Null THEN <<glue>> ELSE head
  BY DEF PutBeside, Hung
<1>2. /\ at \in D /\ glue \in Keys /\ glue \notin D /\ Len(glue) = d
      /\ Pre(glue, key) /\ Pre(glue, at) /\ d < Len(at)
      /\ \A p \in D : Up[at] = <<p>> => Len(p) < d
  BY <1>1, AbovePlace
<1>3. /\ key \in Keys /\ d \in Nat /\ d <= Len(key) /\ Len(key) \in Nat
      /\ at \in Keys /\ Len(at) \in Nat /\ \A i \in 1..d : at[i] = key[i]
  <2>1. key \in Keys /\ d \in Nat /\ d <= Len(key) /\ \A i \in 1..d : at[i] = key[i]
    BY DEF Place
  <2> QED BY <1>2, <2>1, KeyType, NodeShape
<1>4. d < Len(key)
  BY <1>1, <1>3
<1>5. side = Turn(key, d) /\ side \in Sides
  <2>1. d \in 0..Len(key)-1
    BY <1>3, <1>4
  <2> QED BY <2>1, SideType
<1>6. key \notin D /\ key # glue /\ key # at /\ at # glue
  <2>1. Turn(key, d) = Turn(key, d) /\ \A i \in 1..d : key[i] = key[i]
    OBVIOUS
  <2>2. key \notin D
    BY <1>4, <2>1, Parts
  <2> QED BY <1>2, <1>4, <2>2
<1>7. Turn(at, d) # side /\ Turn(at, d) \in Sides
  <2>1. Turn(at, d) # Turn(key, d)
    BY <1>2, <1>3, <1>4, Parts
  <2> QED BY <1>5, <2>1 DEF Turn, Sides
<1> HIDE DEF side
<1>8. Tree(D, Kid, Up, head)
  BY DEF TreeInv
<1>9. /\ Up[at] = parent /\ parent \in Pointers /\ node[at] \in NodeType
      /\ <<at>> \in Pointers /\ <<key>> \in Pointers /\ <<glue>> \in Pointers
  <2>1. node[at] \in NodeType
    BY <1>2 DEF TreeInv
  <2> HIDE DEF glue
  <2> QED BY <1>2, <1>3, <2>1 DEF Up, NodeType, Pointers
<1> HIDE DEF glue
<1>10. Tree(D1, kid1, up1, head')
  <2>1. head' = TopAbove(Up, head, at, glue)
    BY <1>1, <1>9 DEF TopAbove
  <2> QED BY <1>2, <1>8, <2>1, InsertAbove
<1>11. Tree(D2, kid, up, head')
  <2>1. kid1[glue][Turn(key, d)] = Null
    <3>1. glue \in D1 /\ Turn(key, d) \in Sides /\ Turn(key, d) # Turn(at, Len(glue))
      BY <1>2, <1>5, <1>7
    <3> QED BY <3>1 DEF KidAbove
  <2>2. glue \in D1 /\ key \notin D1
    BY <1>6
  <2> HIDE DEF D1, kid1, up1
  <2> QED BY <1>2, <1>3, <1>4, <1>10, <2>1, <2>2, InsertBelow
<1>12. /\ g \in NodeType /\ ~g.has /\ g.parent = parent
       /\ \A s \in Sides : g[s] = IF s = side THEN <<key>> ELSE <<at>>
  BY <1>5, <1>9 DEF NodeType, Sides
<1>13. /\ new \in NodeType /\ new.has /\ new.parent = <<glue>> /\ new.expiration = e
       /\ \A s \in Sides : new[s] = Null
  BY <1>9, NewIs
<1>14. /\ h \in [D -> NodeType]
       /\ \A j \in D :
             /\ h[j].has = node[j].has /\ h[j].expiration = node[j].expiration
             /\ h[j].parent = IF j = at THEN <<glue>> ELSE node[j].parent
             /\ \A s \in Sides : h[j][s] = IF node[j][s] = <<at>> THEN <<glue>> ELSE node[j][s]
  BY <1>2, HungIs
<1> HIDE DEF new, h, g
<1>15. /\ node' = [j \in D2 |-> node'[j]]
       /\ \A j \in D2 : node'[j] = IF j = key THEN new ELSE IF j = glue THEN g ELSE h[j]
  BY <1>1, <1>14 DEF AddNode
<1>16. \A j \in D2 : node'[j] \in NodeType
  BY <1>12, <1>13, <1>14, <1>15
<1>17. TreeInv'
  <2>1. kid = [j \in D2 |-> [s \in Sides |-> kid[j][s]]] /\ up = [j \in D2 |-> up[j]]
    BY DEF KidBelow, UpBelow
  <2>2. DOMAIN node' = D2 /\ node' \in [D2 -> NodeType]
    <3> HIDE DEF D2
    <3> QED BY <1>15, <1>16
  <2>3. ASSUME NEW j \in D2
        PROVE  /\ \A s \in Sides : node'[j][s] = kid[j][s]
               /\ node'[j].parent = up[j]
               /\ ~node'[j].has => \A s \in Sides : node'[j][s] # Null
    <3>1. /\ \A s \in Sides : kid[j][s] = IF j = key THEN Null
               ELSE IF j = glue /\ s = side THEN <<key>> ELSE kid1[j][s]
          /\ up[j] = IF j = key THEN <<glue>> ELSE up1[j]
      BY <1>2, <1>5 DEF KidBelow, UpBelow
    <3>2. j # key =>
            /\ \A s \in Sides : kid1[j][s] =
                  IF j = glue THEN IF s = Turn(at, Len(glue)) THEN <<at>> ELSE Null
                  ELSE IF Kid[j][s] = <<at>> THEN <<glue>> ELSE Kid[j][s]
            /\ up1[j] = IF j = glue THEN Up[at] ELSE IF j = at THEN <<glue>> ELSE Up[j]
      BY DEF KidAbove, UpAbove
    <3> HIDE DEF kid, up, kid1, up1
    <3>3. CASE j = key
      <4>1. node'[j] = new
        BY <1>15, <3>3
      <4> QED BY <1>13, <3>1, <3>3, <4>1
    <3>4. CASE j = glue
      <4>1. node'[j] = g /\ j # key
        BY <1>6, <1>15, <3>4
      <4>2. \A s \in Sides : s # side <=> s = Turn(at, Len(glue))
        BY <1>2, <1>5, <1>7 DEF Sides
      <4>3. \A s \in Sides : node'[j][s] = kid[j][s]
        BY <1>12, <3>1, <3>2, <3>4, <4>1, <4>2
      <4>4. node'[j].parent = up[j]
        BY <1>9, <1>12, <3>1, <3>2, <3>4, <4>1
      <4>5. \A s \in Sides : node'[j][s] # Null
        <5>1. <<key>> # Null /\ <<at>> # Null
          BY DEF Null
        <5> QED BY <1>12, <4>1, <5>1
      <4> QED BY <4>3, <4>4, <4>5
    <3>5. CASE j # key /\ j # glue
      <4>0. j \in D
        BY <3>5
      <4>1. (\A s \in Sides : Kid[j][s] = node[j][s]) /\ Up[j] = node[j].parent
        BY <4>0 DEF Kid, Up
      <4>2. ~node[j].has => \A s \in Sides : node[j][s] # Null
        BY <4>0, NodeShape
      <4>3. <<glue>> # Null
        BY DEF Null
      <4>4. node'[j] = h[j]
        BY <1>15, <3>5
      <4> QED BY <1>14, <3>1, <3>2, <3>5, <4>0, <4>1, <4>2, <4>3, <4>4
    <3> QED BY <3>3, <3>4, <3>5
  <2> HIDE DEF D2, kid, up
  <2> QED BY <1>11, <2>1, <2>2, <2>3, NextShape
<1>18. Listed' = Listed \cup {key}
  <2>1. Listed' = {j \in D2 : node'[j].has}
    BY <1>15 DEF Listed
  <2>2. node'[key].has /\ ~node'[glue].has
    BY <1>6, <1>12, <1>13, <1>15
  <2>3. \A j \in D : j # key => node'[j].has = node[j].has
    BY <1>2, <1>14, <1>15
  <2> QED BY <1>2, <1>6, <2>1, <2>2, <2>3 DEF Listed
<1>19. node'[key].expiration = e /\ \A j \in Listed \ {key} : node'[j].expiration = node[j].expiration
  BY <1>2, <1>6, <1>13, <1>14, <1>15 DEF Listed
<1> QED BY <1>17, <1>18, <1>19 DEF Stored

-----------------------------------------------------------------------------
(* The keys of entries, and the steps *)

KeyOf(entry) == SubSeq(Masked(entry), 1, PrefixLength(entry))

LEMMA EntryType ==
  ASSUME NEW entry \in Entries, Accepted(entry)
  PROVE  /\ ToIPv6(entry) \in Address /\ Masked(entry) \in Address
         /\ MaskOf(entry) \in 0..Len(entry.bits) /\ PrefixLength(entry) \in 0..Width
         /\ Len(entry.bits) \in Nat /\ entry.bits \in [1..Len(entry.bits) -> Bit]
         /\ entry.expiration \in Nat
<1>1. entry.family # "none" /\ (entry.mask # << >> => entry.mask[1] \in 0..Len(entry.bits))
  BY DEF Accepted
<1>2. entry.mask \in Seq(Int) /\ entry.expiration \in Nat
  BY EntriesAssumption
<1>3. CASE entry.family = "ipv4"
  <2>1. entry.bits \in [1..ShortWidth -> Bit]
    BY <1>3, EntriesAssumption
  <2>2. Len(entry.bits) = ShortWidth /\ entry.bits \in Seq(Bit)
    BY <2>1, WidthType
  <2>3. Mapped \o entry.bits \in Seq(Bit) /\ Len(Mapped \o entry.bits) = Width
    BY <2>2, WidthAssumption
  <2>4. ToIPv6(entry) \in Address
    <3> DEFINE x == Mapped \o entry.bits
    <3>1. x \in Address
      <4> HIDE DEF x
      <4>1. x \in Seq(Bit) /\ Len(x) = Width
        BY <2>3 DEF x
      <4> QED BY <4>1, WidthType DEF Address
    <3> QED BY <1>3, <3>1 DEF ToIPv6
  <2>5. MaskOf(entry) \in 0..Len(entry.bits)
    BY <1>1, <2>2, WidthType DEF MaskOf
  <2>6. PrefixLength(entry) \in 0..Width
    BY <1>3, <2>2, <2>5, WidthAssumption, WidthType DEF PrefixLength
  <2>7. Masked(entry) \in Address
    BY <2>4 DEF Masked, Address, Bit
  <2> QED BY <1>2, <2>1, <2>2, <2>4, <2>5, <2>6, <2>7, WidthType
<1>4. CASE entry.family # "ipv4"
  <2>1. entry.bits \in [1..Width -> Bit]
    BY <1>1, <1>4, EntriesAssumption
  <2>2. Len(entry.bits) = Width
    BY <2>1, WidthType
  <2>4. ToIPv6(entry) \in Address
    BY <1>4, <2>1 DEF ToIPv6, Address
  <2>5. MaskOf(entry) \in 0..Len(entry.bits)
    BY <1>1, <2>2, WidthType DEF MaskOf
  <2>6. PrefixLength(entry) \in 0..Width
    BY <1>4, <2>2, <2>5 DEF PrefixLength
  <2>7. Masked(entry) \in Address
    BY <2>4 DEF Masked, Address, Bit
  <2> QED BY <1>2, <2>1, <2>2, <2>4, <2>5, <2>6, <2>7, WidthType
<1> QED BY <1>3, <1>4

LEMMA SubSeqIsFirst ==
  ASSUME NEW k \in Keys, NEW n \in 0..Len(k)
  PROVE  SubSeq(k, 1, n) = First(k, n)
<1>1. k \in Seq(Bit) /\ n \in Nat /\ Len(k) \in Nat
  <2>1. Len(k) \in Nat /\ k \in [1..Len(k) -> Bit]
    BY KeyType, WidthType
  <2> QED BY <2>1
<1>2. SubSeq(k, 1, n) = [i \in 1..n |-> k[i]]
  BY <1>1
<1> QED BY <1>2 DEF First

LEMMA KeyIs ==
  ASSUME NEW entry \in Entries, Accepted(entry)
  PROVE  /\ KeyOf(entry) = First(Masked(entry), PrefixLength(entry))
         /\ KeyOf(entry) \in Keys /\ Len(KeyOf(entry)) = PrefixLength(entry)
         /\ \A n \in 0..Len(KeyOf(entry))-1 : Side(Masked(entry), n) = Turn(KeyOf(entry), n)
         /\ \A n \in 0..Len(KeyOf(entry)) : SubSeq(Masked(entry), 1, n) = First(KeyOf(entry), n)
<1> DEFINE a == Masked(entry)
           l == PrefixLength(entry)
           key == KeyOf(entry)
<1>1. a \in Address /\ a \in Keys /\ Len(a) = Width /\ l \in 0..Len(a) /\ Width \in Nat
  BY EntryType, AddressIsKey, WidthType
<1>2. key = First(a, l)
  BY <1>1, SubSeqIsFirst DEF KeyOf
<1>3. key \in Keys /\ Len(key) = l
  BY <1>1, <1>2, FirstBits
<1>4. \A i \in 1..l : key[i] = a[i]
  BY <1>2 DEF First
<1> HIDE DEF a, l, key
<1>5. ASSUME NEW n \in 0..Len(key)-1
      PROVE  Side(a, n) = Turn(key, n)
  <2>1. n \in 0..Width-1 /\ n + 1 \in 1..l
    BY <1>1, <1>3
  <2>2. Side(a, n) = Turn(a, n)
    BY <1>1, <2>1, AddressIsKey
  <2> QED BY <1>4, <2>1, <2>2 DEF Turn
<1>6. ASSUME NEW n \in 0..Len(key)
      PROVE  SubSeq(a, 1, n) = First(key, n)
  <2>1. n \in 0..Len(a)
    BY <1>1, <1>3
  <2>2. SubSeq(a, 1, n) = First(a, n)
    BY <1>1, <2>1, SubSeqIsFirst
  <2>3. \A i \in 1..n : a[i] = key[i]
    <3>1. \A i \in 1..n : i \in 1..l
      BY <1>1, <1>3
    <3> QED BY <1>4, <3>1
  <2>4. First(a, n) = First(key, n)
    BY <2>3 DEF First
  <2> QED BY <2>2, <2>4
<1> QED BY <1>2, <1>3, <1>5, <1>6 DEF a, l, key

LEMMA AddStep ==
  ASSUME TreeInv, NEW entry \in Entries, Add(entry)
  PROVE  /\ TreeInv' /\ Stored(KeyOf(entry), entry.expiration)
         /\ listed' = [net \in DOMAIN listed \cup {Covered(entry)} |->
                          IF net = Covered(entry) THEN entry.expiration ELSE listed[net]]
<1> DEFINE a == Masked(entry)
           key == KeyOf(entry)
           e == entry.expiration
           m == Landing(a, Len(key))
           d == DifferBit(a, Len(key), m)
           at == Climb(m, d)
<1>1. /\ Accepted(entry)
      /\ \/ PutFirst(key, e)
         \/ /\ head # Null
            /\ \/ PutFound(key, at, d, e)
               \/ PutBelow(key, at, d, a, e)
               \/ PutAbove(key, m, at, d, e)
               \/ PutBeside(key, at, d, a, e)
  BY DEF Add, KeyOf
<1>2. a \in Address /\ PrefixLength(entry) \in 0..Width /\ e \in Nat
  BY <1>1, EntryType
<1>3. /\ key = First(a, Len(key)) /\ key \in Keys /\ Len(key) \in 0..Width
      /\ \A n \in 0..Len(key)-1 : Side(a, n) = Turn(key, n)
      /\ \A n \in 0..Len(key) : SubSeq(a, 1, n) = First(key, n)
  BY <1>1, <1>2, KeyIs
<1> HIDE DEF a, key, e
<1>4. ASSUME head # Null
      PROVE  Place(key, m, d, at) /\ SubSeq(a, 1, d) = First(key, d)
  <2>1. Place(key, m, d, at)
    <3>1. Place(First(a, Len(key)), m, d, at)
      BY <1>2, <1>3, <1>4, KeyPlace
    <3> QED BY <1>3, <3>1
  <2>2. d \in 0..Len(key)
    BY <1>3, <2>1, KeyType DEF Place
  <2> QED BY <1>3, <2>1, <2>2
<1> HIDE DEF m, d, at
<1>5. TreeInv' /\ Stored(key, e)
  BY <1>1, <1>2, <1>3, <1>4, FirstPut, FoundPut, BelowPut, AbovePut, BesidePut
<1> QED BY <1>5 DEF Add, key, e

LEMMA TreeInit == ASSUME Init PROVE TreeInv
<1>1. head = Null /\ DOMAIN node = {} /\ node = [k \in {} |-> 0]
  BY DEF Init
<1>2. Tree(DOMAIN node, Kid, Up, head)
  BY <1>1 DEF Tree, Null
<1>3. node \in [DOMAIN node -> NodeType]
  BY <1>1
<1> QED BY <1>1, <1>2, <1>3 DEF TreeInv

LEMMA TreeUnchanged == ASSUME TreeInv, UNCHANGED vars PROVE TreeInv'
BY DEF TreeInv, Kid, Up, vars

-----------------------------------------------------------------------------
(* The tree is a map *)

\* Every step of radix_put_if_absent puts the key and its expiration in the map
\* of prefixes, whichever nodes it adds, and takes nothing else out of it.
THEOREM TreeIsAMap == Spec => IsAPrefixMap
<1>1. Init => Map!Init
  BY DEF Init, Map!Init
<1>2. ASSUME TreeInv, [Next]_vars
      PROVE  [Map!Next]_[k \in {j \in DOMAIN node : node[j].has} |-> node[k].expiration]
  <2> DEFINE map == [k \in {j \in DOMAIN node : node[j].has} |-> node[k].expiration]
  <2>1. CASE UNCHANGED vars
    BY <2>1 DEF vars
  <2>2. ASSUME NEW entry \in Entries, Add(entry)
        PROVE  Map!Next
    <3> DEFINE key == KeyOf(entry)
               e == entry.expiration
    <3>1. Stored(key, e)
      BY <1>2, <2>2, AddStep
    <3>2. key \in Keys
      <4>1. Accepted(entry)
        BY <2>2 DEF Add
      <4> QED BY <4>1, KeyIs
    <3> HIDE DEF key
    <3>3. map = [k \in Listed |-> node[k].expiration]
      BY DEF Listed
    <3>4. map' = [k \in Listed' |-> node'[k].expiration]
      BY DEF Listed
    <3> HIDE DEF map
    <3>5. map' = [q \in DOMAIN map \cup {key} |-> IF q = key THEN e ELSE map[q]]
      <4>1. DOMAIN map = Listed /\ Listed' = Listed \cup {key}
        BY <3>1, <3>3 DEF Stored
      <4>2. \A q \in Listed' : node'[q].expiration = IF q = key THEN e ELSE map[q]
        BY <3>1, <3>3, <4>1 DEF Stored
      <4> HIDE DEF e
      <4> QED BY <3>4, <4>1, <4>2
    <3>6. Map!Put(key, e)
      BY <3>5 DEF Map!Put, map
    <3>7. e \in {x.expiration : x \in Entries}
      OBVIOUS
    <3> QED BY <3>2, <3>6, <3>7 DEF Map!Next, Keys
  <2> QED BY <1>2, <2>1, <2>2 DEF Next
<1>3. ASSUME TreeInv, [Next]_vars PROVE TreeInv'
  BY <1>3, AddStep, TreeUnchanged DEF Next
<1> QED BY <1>1, <1>2, <1>3, TreeInit, PTL DEF Spec, IsAPrefixMap, Map!Spec

-----------------------------------------------------------------------------
(* The way of a match *)

\* A list of nodes above a and below k, in order, with all that have a prefix of a.
OnTheWay(a, k, way) ==
    /\ way \in Seq(Keys)
    /\ \A i \in 1..Len(way) : way[i] \in Listed /\ Pre(k, way[i])
    /\ \A i, j \in 1..Len(way) : i < j => Len(way[i]) < Len(way[j])
    /\ \A n \in Listed : Pre(k, n) /\ Pre(n, a) => \E i \in 1..Len(way) : way[i] = n

Here(k) == IF node[k].has THEN <<k>> ELSE << >>

\* What a node of the tree below which nothing is searched has.
LEMMA WayStops ==
  ASSUME TreeInv, NEW a \in Address, NEW k \in DOMAIN node,
         ~(Len(k) < Width /\ node[k][Side(a, Len(k))] # Null)
  PROVE  OnTheWay(a, k, Here(k))
<1>1. k \in Keys /\ Len(k) \in 0..Width /\ Pre(k, k) /\ node[k].has \in BOOLEAN
  BY NodeShape, PreItself
<1>2. ASSUME NEW n \in Listed, Pre(k, n), Pre(n, a)
      PROVE  n = k
  <2>1. n \in DOMAIN node /\ n \in Keys /\ Len(n) \in 0..Width
    <3>1. n \in DOMAIN node
      BY DEF Listed
    <3> QED BY <3>1, NodeShape
  <2>2. ASSUME Len(k) < Len(n) PROVE FALSE
    <3>1. Tree(DOMAIN node, Kid, Up, head)
      BY DEF TreeInv
    <3>2. PICK c \in DOMAIN node : Kid[k][Turn(n, Len(k))] = <<c>>
      BY <1>2, <2>1, <2>2, <3>1, Descend
    <3>3. Len(k) \in 0..Width-1
      BY <1>1, <2>1, <2>2, WidthType
    <3>4. Turn(n, Len(k)) = Side(a, Len(k))
      <4>1. a \in Keys /\ Turn(a, Len(k)) = Side(a, Len(k))
        BY <3>3, AddressIsKey
      <4> QED BY <1>1, <1>2, <2>1, <2>2, <4>1, TurnOfPre
    <3>5. Kid[k][Side(a, Len(k))] = node[k][Side(a, Len(k))]
      BY SideType, NodeShape
    <3>6. node[k][Side(a, Len(k))] # Null /\ Len(k) < Width
      <4>1. <<c>> # Null
        BY DEF Null
      <4>2. node[k][Side(a, Len(k))] = <<c>>
        BY <3>2, <3>4, <3>5, Zenon
      <4>3. node[k][Side(a, Len(k))] # Null
        BY <4>1, <4>2, Zenon
      <4> QED BY <3>3, <4>3, WidthType
    <3> QED BY <3>6
  <2>3. Len(k) = Len(n)
    BY <1>1, <1>2, <2>1, <2>2, WidthType DEF Pre
  <2> QED BY <1>1, <1>2, <2>1, <2>3, SameKey
<1>3. CASE node[k].has
  <2>1. Here(k) = <<k>> /\ k \in Listed
    BY <1>3 DEF Here, Listed
  <2> QED BY <1>1, <1>2, <2>1 DEF OnTheWay
<1>4. CASE ~node[k].has
  <2>1. Here(k) = << >> /\ k \notin Listed
    BY <1>4 DEF Here, Listed
  <2> QED BY <1>1, <1>2, <2>1 DEF OnTheWay
<1> QED BY <1>1, <1>3, <1>4

\* And one below which the search goes on.
LEMMA WayGoesOn ==
  ASSUME TreeInv, NEW a \in Address, NEW k \in DOMAIN node, node[k][Side(a, Len(k))] # Null,
         NEW way, OnTheWay(a, Child(k, a), way)
  PROVE  OnTheWay(a, k, Here(k) \o way)
<1> DEFINE c == Child(k, a)
           all == Here(k) \o way
<1>1. /\ c \in DOMAIN node /\ Len(k) < Len(c) /\ Pre(k, c)
      /\ Len(k) + 1 \in 1..Width /\ Turn(a, Len(k)) = Side(a, Len(k))
  BY ChildIs
<1>2. \A n \in DOMAIN node : n \in Keys /\ Len(n) \in 0..Width /\ Len(n) \in Nat /\ Pre(n, n)
  BY NodeShape, PreItself, WidthType
<1>3. /\ way \in Seq(Keys)
      /\ \A i \in 1..Len(way) : way[i] \in Listed /\ Pre(c, way[i])
      /\ \A i, j \in 1..Len(way) : i < j => Len(way[i]) < Len(way[j])
      /\ \A n \in Listed : Pre(c, n) /\ Pre(n, a) => \E i \in 1..Len(way) : way[i] = n
  BY DEF OnTheWay
<1>4. node[k][Side(a, Len(k))] = <<c>> /\ Kid[k][Side(a, Len(k))] = node[k][Side(a, Len(k))]
  BY SideType, NodeShape DEF Child
<1> HIDE DEF c
<1>5. Listed \subseteq DOMAIN node
  BY DEF Listed
<1>6. \A i \in 1..Len(way) : Pre(k, way[i]) /\ Len(k) < Len(way[i])
  <2> TAKE i \in 1..Len(way)
  <2>1. way[i] \in DOMAIN node /\ Pre(c, way[i])
    BY <1>3, <1>5
  <2>2. Pre(k, way[i])
    BY <1>1, <1>2, <2>1, PreTrans
  <2> QED BY <1>1, <1>2, <2>1, <2>2 DEF Pre
<1>7. ASSUME NEW n \in Listed, Pre(k, n), Pre(n, a), n # k
      PROVE  Pre(c, n)
  <2>1. n \in DOMAIN node /\ Len(k) < Len(n)
    <3>1. n \in DOMAIN node
      BY <1>5
    <3>2. Len(k) # Len(n)
      BY <1>2, <1>7, <3>1, SameKey
    <3> QED BY <1>2, <1>7, <3>1, <3>2 DEF Pre
  <2>2. Tree(DOMAIN node, Kid, Up, head)
    BY DEF TreeInv
  <2>3. PICK x \in DOMAIN node : Kid[k][Turn(n, Len(k))] = <<x>> /\ Pre(x, n)
    BY <1>7, <2>1, <2>2, Descend
  <2>4. Turn(n, Len(k)) = Side(a, Len(k))
    <3>1. a \in Keys
      BY AddressIsKey
    <3> QED BY <1>1, <1>2, <1>7, <2>1, <3>1, TurnOfPre
  <2>5. x = c
    BY <1>4, <2>3, <2>4
  <2> QED BY <2>3, <2>5
<1>8. CASE node[k].has
  <2>1. Here(k) = <<k>> /\ k \in Listed /\ k \in Keys
    BY <1>2, <1>8 DEF Here, Listed
  <2>2. all \in Seq(Keys) /\ Len(all) = Len(way) + 1 /\ Len(way) \in Nat
    BY <1>3, <2>1
  <2>3. all[1] = k /\ \A i \in 1..Len(way) : all[i + 1] = way[i]
    BY <1>3, <2>1
  <2> HIDE DEF all
  <2>4. \A i \in 1..Len(all) : i = 1 \/ (i - 1 \in 1..Len(way) /\ all[i] = way[i - 1])
    <3> TAKE i \in 1..Len(all)
    <3>1. i = 1 \/ (i - 1 \in 1..Len(way) /\ (i - 1) + 1 = i)
      BY <2>2
    <3> QED BY <2>3, <3>1
  <2>5. \A i \in 1..Len(all) : all[i] \in Listed /\ Pre(k, all[i])
    BY <1>2, <1>3, <1>6, <2>1, <2>3, <2>4
  <2>6. ASSUME NEW i \in 1..Len(all), NEW j \in 1..Len(all), i < j
        PROVE  Len(all[i]) < Len(all[j])
    <3>1. j - 1 \in 1..Len(way) /\ all[j] = way[j - 1]
      BY <2>4, <2>6
    <3>2. CASE i = 1
      BY <1>6, <2>3, <3>1, <3>2
    <3>3. CASE i # 1
      <4>1. i - 1 \in 1..Len(way) /\ all[i] = way[i - 1] /\ i - 1 < j - 1
        BY <2>4, <2>6, <3>3
      <4> QED BY <1>3, <3>1, <4>1
    <3> QED BY <3>2, <3>3
  <2>7. ASSUME NEW n \in Listed, Pre(k, n), Pre(n, a)
        PROVE  \E i \in 1..Len(all) : all[i] = n
    <3>1. CASE n = k
      <4>1. 1 \in 1..Len(all)
        BY <2>2
      <4> QED BY <2>3, <3>1, <4>1
    <3>2. CASE n # k
      <4>1. PICK i \in 1..Len(way) : way[i] = n
        BY <1>3, <1>7, <2>7, <3>2
      <4>2. i + 1 \in 1..Len(all) /\ all[i + 1] = n
        BY <2>2, <2>3, <4>1
      <4> QED BY <4>2
    <3> QED BY <3>1, <3>2
  <2> QED BY <2>2, <2>5, <2>6, <2>7 DEF OnTheWay, all
<1>9. CASE ~node[k].has
  <2>1. Here(k) = << >> /\ k \notin Listed
    BY <1>9 DEF Here, Listed
  <2>2. all = way
    BY <1>3, <2>1
  <2> HIDE DEF all
  <2>3. \A n \in Listed : Pre(k, n) /\ Pre(n, a) => Pre(c, n)
    BY <1>7, <2>1
  <2> QED BY <1>3, <1>6, <2>2, <2>3 DEF OnTheWay, all
<1>10. node[k].has \in BOOLEAN
  BY NodeShape
<1> QED BY <1>8, <1>9, <1>10

LEMMA WayIs ==
  ASSUME TreeInv, NEW a \in Address, NEW h \in DOMAIN node, head = <<h>>
  PROVE  OnTheWay(a, h, Way(a))
<1> DEFINE D == DOMAIN node
           go == {k \in D : Len(k) < Width /\ node[k][Side(a, Len(k))] # Null}
           next == [k \in go |-> Child(k, a)]
           here == [k \in D |-> Here(k)]
           rank == [k \in D |-> Width - Len(k)]
           All(f) == [k \in D |-> IF k \in go THEN here[k] \o f[next[k]] ELSE here[k]]
           down == CHOOSE f : f = All(f)
<1>1. \A k \in D : k \in Keys /\ Len(k) \in 0..Width
  BY NodeShape
<1>2. \A k \in go : k \in D /\ node[k][Side(a, Len(k))] # Null
  OBVIOUS
<1>3. \A k \in go : Child(k, a) \in D /\ Len(k) < Len(Child(k, a))
  <2> HIDE DEF go
  <2> QED BY <1>2, ChildIs
<1>4. down = All(down)
  <2>1. go \in SUBSET D /\ next \in [go -> D] /\ Width \in Nat
    BY <1>3, WidthType
  <2>2. rank \in [D -> 0..Width]
    BY <1>1, WidthType
  <2>3. \A k \in go : rank[next[k]] < rank[k]
    <3> TAKE k \in go
    <3>1. k \in D /\ next[k] \in D /\ Len(k) < Len(next[k])
      BY <1>3
    <3> QED BY <1>1, <3>1, WidthType
  <2>4. here \in [D -> Seq(D)]
    <3>1. ASSUME NEW k \in D PROVE Here(k) \in Seq(D)
      <4>1. << >> \in Seq(D) /\ <<k>> \in Seq(D)
        OBVIOUS
      <4> HIDE DEF D
      <4> QED BY <4>1 DEF Here
    <3> QED BY <3>1
  <2>5. PICK f \in [D -> Seq(D)] : Follows(f, D, go, next, here)
    <3> HIDE DEF D, go, next, rank, here
    <3> QED BY <2>1, <2>2, <2>3, <2>4, Recursion
  <2>6. f = All(f)
    <3> HIDE DEF D, go, next, here
    <3> QED BY <2>5 DEF Follows
  <2> HIDE DEF All
  <2> QED BY <2>6
<1>5. Way(a) = down[h]
  <2>1. head # Null /\ head[1] = h
    BY DEF Null
  <2> QED BY <2>1 DEF Way, Child, Here
<1> HIDE DEF down
<1>6. \A k \in D : down[k] = IF k \in go THEN Here(k) \o down[Child(k, a)] ELSE Here(k)
  BY <1>4
<1> DEFINE S == {k \in D : ~OnTheWay(a, k, down[k])}
<1>7. ASSUME S # {} PROVE FALSE
  <2>1. S \subseteq Keys
    BY <1>1
  <2>2. PICK k \in S : \A j \in S : Len(j) <= Len(k)
    <3> HIDE DEF S
    <3> QED BY <1>7, <2>1, Longest
  <2>3. k \in D /\ ~OnTheWay(a, k, down[k])
    OBVIOUS
  <2>4. CASE k \in go
    <3>1. Child(k, a) \in D /\ Len(k) < Len(Child(k, a))
      BY <1>3, <2>4
    <3>2. Child(k, a) \notin S
      <4> HIDE DEF S
      <4> QED BY <1>1, <2>2, <2>3, <3>1
    <3>3. OnTheWay(a, Child(k, a), down[Child(k, a)])
      BY <3>1, <3>2
    <3>4. OnTheWay(a, k, Here(k) \o down[Child(k, a)])
      <4> HIDE DEF go
      <4> QED BY <1>2, <2>3, <2>4, <3>3, WayGoesOn
    <3> QED BY <1>6, <2>3, <2>4, <3>4
  <2>5. CASE k \notin go
    <3>1. OnTheWay(a, k, Here(k))
      BY <2>3, <2>5, WayStops
    <3> QED BY <1>6, <2>3, <2>5, <3>1
  <2> QED BY <2>4, <2>5
<1> QED BY <1>5, <1>7

\* What is found is the longest prefix listed.
LEMMA FoundIs ==
  ASSUME TreeInv, NEW a \in Address
  PROVE  \/ Found(a) = Null /\ \A n \in Listed : ~Pre(n, a)
         \/ \E n \in Listed : /\ Found(a) = <<n>> /\ Pre(n, a)
                              /\ \A x \in Listed : Pre(x, a) => Len(x) <= Len(n)
<1> DEFINE way == Way(a)
           agreeing == {i \in DOMAIN way : Agrees(a, way[i])}
<1>0. Tree(DOMAIN node, Kid, Up, head)
  BY DEF TreeInv
<1>1. CASE head = Null
  <2>1. DOMAIN node = {}
    BY <1>0, <1>1 DEF Tree
  <2>2. way = << >>
    BY <1>1 DEF Way
  <2>3. agreeing = {}
    BY <2>2
  <2>4. Found(a) = Null
    BY <2>3 DEF Found
  <2> QED BY <2>1, <2>4 DEF Listed
<1>2. CASE head # Null
  <2>1. PICK h \in DOMAIN node : head = <<h>>
    BY <1>0, <1>2 DEF Tree
  <2>2. OnTheWay(a, h, way)
    BY <2>1, WayIs
  <2>3. \A n \in Listed : Pre(h, n) /\ n \in Keys /\ Len(n) \in Nat
    BY <1>0, <2>1, TopFirst, NodeShape, WidthType DEF Listed
  <2>4. a \in Keys /\ Len(a) = Width
    BY AddressIsKey
  <2>5. Found(a) = IF agreeing = {} THEN Null ELSE <<way[Max(agreeing)]>>
    BY DEF Found
  <2> HIDE DEF way
  <2>6. /\ way \in Seq(Keys) /\ DOMAIN way = 1..Len(way) /\ Len(way) \in Nat
        /\ \A i \in 1..Len(way) : way[i] \in Listed
        /\ \A i, j \in 1..Len(way) : i < j => Len(way[i]) < Len(way[j])
        /\ \A n \in Listed : Pre(n, a) => \E i \in 1..Len(way) : way[i] = n
    BY <2>2, <2>3 DEF OnTheWay
  <2>7. \A n \in Listed : Agrees(a, n) <=> Pre(n, a)
    <3> TAKE n \in Listed
    <3>0. n \in Keys /\ Len(n) \in Nat /\ n \in [1..Len(n) -> Bit]
      BY <2>3, KeyType
    <3>1. CASE Len(n) <= Len(a)
      <4>1. Len(n) \in 0..Len(a)
        BY <2>4, <3>0, <3>1, WidthType
      <4>2. SubSeq(a, 1, Len(n)) = First(a, Len(n))
        BY <2>4, <4>1, SubSeqIsFirst
      <4>3. First(a, Len(n)) = n <=> \A i \in 1..Len(n) : n[i] = a[i]
        BY <3>0 DEF First
      <4> QED BY <3>1, <4>2, <4>3 DEF Agrees, Pre
    <3>2. CASE ~(Len(n) <= Len(a))
      <4>1. Len(n) \in 0..Width
        BY <3>0, KeyType
      <4> QED BY <2>4, <3>2, <4>1, WidthType
    <3> QED BY <3>1, <3>2
  <2>8. CASE agreeing = {}
    <3>1. ASSUME NEW n \in Listed, Pre(n, a) PROVE FALSE
      <4>1. PICK i \in 1..Len(way) : way[i] = n
        BY <2>6, <3>1
      <4>2. i \in agreeing
        BY <2>6, <2>7, <3>1, <4>1
      <4> QED BY <2>8, <4>2
    <3> QED BY <2>5, <2>8, <3>1
  <2>9. CASE agreeing # {}
    <3> DEFINE max == Max(agreeing)
    <3>1. max \in agreeing /\ \A i \in agreeing : max >= i
      <4>1. agreeing \in SUBSET (1..Len(way)) /\ Len(way) \in Nat
        BY <2>6
      <4> HIDE DEF agreeing
      <4> QED BY <2>9, <4>1, MaxIsGreatest
    <3> HIDE DEF max
    <3>2. max \in 1..Len(way) /\ way[max] \in Listed /\ Pre(way[max], a)
      BY <2>6, <2>7, <3>1
    <3>3. ASSUME NEW x \in Listed, Pre(x, a)
          PROVE  Len(x) <= Len(way[max])
      <4>1. PICK i \in 1..Len(way) : way[i] = x
        BY <2>6, <3>3
      <4>2. i \in agreeing
        BY <2>6, <2>7, <3>3, <4>1
      <4>3. i < max \/ i = max
        BY <3>1, <3>2, <4>2
      <4> QED BY <2>3, <2>6, <3>2, <4>1, <4>3
    <3> QED BY <2>5, <2>9, <3>2, <3>3 DEF max
  <2> QED BY <2>8, <2>9
<1> QED BY <1>1, <1>2

-----------------------------------------------------------------------------
(* Networks as sets of addresses *)

Cov(k) == {a \in Address : Pre(k, a)}

\* A network is within another exactly when it continues its bits.
LEMMA CovSubset ==
  ASSUME NEW j \in Keys, NEW k \in Keys
  PROVE  Cov(j) \subseteq Cov(k) <=> Pre(k, j)
<1>0. Len(j) \in 0..Width /\ Len(k) \in 0..Width /\ Width \in Nat
  BY KeyType, WidthType
<1>1. ASSUME Pre(k, j) PROVE Cov(j) \subseteq Cov(k)
  BY <1>1, PreTrans, AddressIsKey DEF Cov
<1>2. ASSUME Cov(j) \subseteq Cov(k) PROVE Pre(k, j)
  <2> DEFINE a == [i \in 1..Width |-> IF i <= Len(j) THEN j[i]
                                      ELSE IF i <= Len(k) THEN 1 - k[i] ELSE 0]
  <2>1. a \in Address
    <3>1. ASSUME NEW i \in 1..Width PROVE a[i] \in Bit
      <4>1. CASE i <= Len(j)
        <5>1. i \in 1..Len(j)
          BY <1>0, <4>1
        <5> QED BY <4>1, <5>1, KeyType
      <4>2. CASE ~(i <= Len(j)) /\ i <= Len(k)
        <5>1. i \in 1..Len(k)
          BY <1>0, <4>2
        <5>2. k[i] \in Bit
          BY <5>1, KeyType
        <5> QED BY <4>2, <5>2 DEF Bit
      <4>3. CASE ~(i <= Len(j)) /\ ~(i <= Len(k))
        BY <4>3 DEF Bit
      <4> QED BY <4>1, <4>2, <4>3
    <3> QED BY <3>1 DEF Address
  <2>2. Len(a) = Width /\ a \in Keys
    BY <2>1, AddressIsKey
  <2>3. Pre(j, a)
    <3>1. \A i \in 1..Len(j) : j[i] = a[i]
      BY <1>0
    <3> HIDE DEF a
    <3> QED BY <1>0, <2>2, <3>1 DEF Pre
  <2>4. Pre(k, a)
    <3> HIDE DEF a
    <3> QED BY <1>2, <2>1, <2>3 DEF Cov
  <2>5. ASSUME Len(j) < Len(k) PROVE FALSE
    <3>1. Len(j) + 1 \in 1..Len(k) /\ Len(j) + 1 \in 1..Width /\ ~(Len(j) + 1 <= Len(j))
      BY <1>0, <2>5
    <3>2. a[Len(j) + 1] = 1 - k[Len(j) + 1]
      BY <1>0, <3>1
    <3>3. k[Len(j) + 1] \in Bit
      BY <3>1, KeyType
    <3>4. k[Len(j) + 1] = a[Len(j) + 1]
      <4> HIDE DEF a
      <4> QED BY <2>4, <3>1 DEF Pre
    <3> HIDE DEF a
    <3> QED BY <3>2, <3>3, <3>4 DEF Bit
  <2> HIDE DEF a
  <2> QED BY <1>0, <2>2, <2>3, <2>4, <2>5, PreOfSame
<1> QED BY <1>1, <1>2

LEMMA CovSame ==
  ASSUME NEW j \in Keys, NEW k \in Keys, Cov(j) = Cov(k)
  PROVE  j = k
<1>1. Pre(j, k) /\ Pre(k, j)
  BY CovSubset
<1>2. Len(j) = Len(k)
  BY <1>1, KeyType, WidthType DEF Pre
<1> QED BY <1>1, <1>2, SameKey

\* The addresses of a network as it is written are those of its key.
LEMMA CoveredIs ==
  ASSUME NEW entry \in Entries, Accepted(entry)
  PROVE  Covered(entry) = Cov(KeyOf(entry))
<1> DEFINE n == MaskOf(entry)
           l == PrefixLength(entry)
           prefix == SubSeq(entry.bits, 1, n)
           bits == IF entry.family = "ipv4" THEN Mapped \o prefix ELSE prefix
           key == KeyOf(entry)
<1>1. /\ ToIPv6(entry) \in Address /\ n \in 0..Len(entry.bits) /\ l \in 0..Width
      /\ Len(entry.bits) \in Nat /\ entry.bits \in [1..Len(entry.bits) -> Bit]
  BY EntryType
<1>2. key = First(Masked(entry), l) /\ key \in Keys /\ Len(key) = l
  BY KeyIs
<1>3. \A i \in 1..l : key[i] = ToIPv6(entry)[i]
  <2> TAKE i \in 1..l
  <2>1. i \in 1..Width /\ i <= l
    BY <1>1, WidthType
  <2> HIDE DEF l
  <2> QED BY <1>2, <2>1 DEF First, Masked, l
<1>4. prefix \in Seq(Bit) /\ Len(prefix) = n /\ \A i \in 1..n : prefix[i] = entry.bits[i]
  BY <1>1
<1> HIDE DEF prefix, n
<1>5. bits \in Seq(Bit) /\ Len(bits) = l /\ \A i \in 1..l : bits[i] = ToIPv6(entry)[i]
  <2>1. CASE entry.family = "ipv4"
    <3>1. l = Len(Mapped) + n /\ ToIPv6(entry) = Mapped \o entry.bits
      BY <1>1, <2>1, WidthType DEF PrefixLength, ToIPv6, n
    <3> HIDE DEF l
    <3>2. Mapped \in Seq(Bit) /\ entry.bits \in Seq(Bit) /\ n \in Nat
      BY <1>1, WidthAssumption
    <3>3. bits \in Seq(Bit) /\ Len(bits) = l
      <4>1. bits = Mapped \o prefix
        BY <2>1
      <4>2. Mapped \o prefix \in Seq(Bit) /\ Len(Mapped \o prefix) = Len(Mapped) + Len(prefix)
        BY <1>4, <3>2
      <4> HIDE DEF bits
      <4> QED BY <1>4, <3>1, <4>1, <4>2
    <3>4. \A i \in 1..l : bits[i] = ToIPv6(entry)[i]
      <4> TAKE i \in 1..l
      <4>1. CASE i <= Len(Mapped)
        BY <1>4, <2>1, <3>1, <3>2, <4>1
      <4>2. CASE ~(i <= Len(Mapped))
        <5>1. i - Len(Mapped) \in 1..n
          BY <3>1, <3>2, <4>2
        <5>2. (Mapped \o prefix)[i] = prefix[i - Len(Mapped)]
          BY <1>4, <3>1, <3>2, <4>2
        <5>3. (Mapped \o entry.bits)[i] = entry.bits[i - Len(Mapped)]
          BY <1>1, <3>1, <3>2, <4>2
        <5> QED BY <1>4, <2>1, <3>1, <5>1, <5>2, <5>3
      <4> QED BY <4>1, <4>2
    <3> QED BY <3>3, <3>4
  <2>2. CASE entry.family # "ipv4"
    <3>1. l = n /\ ToIPv6(entry) = entry.bits
      BY <1>1, <2>2 DEF PrefixLength, ToIPv6, n
    <3> QED BY <1>4, <2>2, <3>1
  <2> QED BY <2>1, <2>2
<1>6. bits = key
  <2>1. key \in Seq(Bit)
    <3>1. Len(key) \in Nat /\ key \in [1..Len(key) -> Bit]
      BY <1>2, KeyType
    <3> QED BY <3>1
  <2> HIDE DEF bits, key, l
  <2> QED BY <1>2, <1>3, <1>5, <2>1
<1>7. Covered(entry) = {a \in Address : IsPrefix(bits, a)}
  BY DEF Covered, prefix, n
<1> HIDE DEF bits, key, l
<1>8. ASSUME NEW a \in Address
      PROVE  IsPrefix(key, a) <=> Pre(key, a)
  <2>1. a \in Keys /\ Len(a) = Width /\ Len(key) \in 0..Width /\ Width \in Nat
    BY <1>1, <1>2, AddressIsKey, WidthType
  <2>2. SubSeq(a, 1, Len(key)) = First(a, Len(key)) /\ SubSeq(key, 1, Len(key)) = First(key, Len(key))
    BY <1>2, <2>1, SubSeqIsFirst
  <2>3. First(key, Len(key)) = First(a, Len(key)) <=> \A i \in 1..Len(key) : key[i] = a[i]
    BY DEF First
  <2> QED BY <2>2, <2>3 DEF IsPrefix, Pre
<1>9. {a \in Address : IsPrefix(key, a)} = {a \in Address : Pre(key, a)}
  BY <1>8
<1> QED BY <1>6, <1>7, <1>9 DEF Cov, key

-----------------------------------------------------------------------------
(* Which network decides *)

\* The tree holds the networks listed, with the last expiration of each.
ListedInv ==
    /\ DOMAIN listed = {Cov(k) : k \in Listed}
    /\ \A k \in Listed : listed[Cov(k)] = node[k].expiration

LEMMA ListedStep ==
  ASSUME TreeInv, ListedInv, NEW entry \in Entries, Add(entry)
  PROVE  ListedInv'
<1> DEFINE key == KeyOf(entry)
           e == entry.expiration
<1>1. Stored(key, e)
  BY AddStep
<1>2. listed' = [net \in DOMAIN listed \cup {Cov(key)} |-> IF net = Cov(key) THEN e ELSE listed[net]]
  <2>1. Covered(entry) = Cov(key)
    BY CoveredIs DEF Add
  <2> QED BY <2>1, AddStep
<1>3. key \in Keys
  BY KeyIs DEF Add
<1>4. Listed \subseteq Keys
  BY NodeShape DEF Listed
<1> HIDE DEF key, e
<1>5. Listed' = Listed \cup {key} /\ node'[key].expiration = e
      /\ \A j \in Listed \ {key} : node'[j].expiration = node[j].expiration
  BY <1>1 DEF Stored
<1>6. DOMAIN listed' = {Cov(k) : k \in Listed'}
  BY <1>2, <1>5 DEF ListedInv
<1>7. ASSUME NEW k \in Listed'
      PROVE  listed'[Cov(k)] = node'[k].expiration
  <2>1. CASE k = key
    BY <1>2, <1>5, <2>1
  <2>2. CASE k # key
    <3>1. k \in Listed /\ Cov(k) # Cov(key)
      BY <1>3, <1>4, <1>5, <2>2, CovSame
    <3> QED BY <1>2, <1>5, <2>2, <3>1 DEF ListedInv
  <2> QED BY <2>1, <2>2
<1>8. ListedInv' = (/\ DOMAIN listed' = {Cov(k) : k \in Listed'}
                    /\ \A k \in Listed' : listed'[Cov(k)] = node'[k].expiration)
  BY DEF ListedInv, Cov
<1> QED BY <1>6, <1>7, <1>8

LEMMA MatchIs ==
  ASSUME TreeInv, ListedInv, NEW a \in Address, NEW now
  PROVE  Match(a, now) <=>
            \E net \in DOMAIN listed :
               /\ a \in net
               /\ \A other \in DOMAIN listed : a \in other => net \subseteq other
               /\ listed[net] = 0 \/ listed[net] >= now
<1> DEFINE Deciding(net) == /\ net \in DOMAIN listed /\ a \in net
                            /\ \A other \in DOMAIN listed : a \in other => net \subseteq other
<1>1. \A k \in Listed : k \in Keys /\ Len(k) \in Nat /\ node[k].expiration \in Nat
  BY NodeShape, WidthType DEF Listed
<1>2. /\ \A net \in DOMAIN listed : \E k \in Listed : net = Cov(k)
      /\ \A k \in Listed : Cov(k) \in DOMAIN listed /\ listed[Cov(k)] = node[k].expiration
  BY DEF ListedInv
<1>3. \A k : a \in Cov(k) <=> Pre(k, a)
  BY DEF Cov
<1>4. a \in Keys
  BY AddressIsKey
<1>5. CASE Found(a) = Null /\ \A n \in Listed : ~Pre(n, a)
  <2>1. ~Match(a, now)
    BY <1>5 DEF Match
  <2>2. \A net \in DOMAIN listed : a \notin net
    BY <1>2, <1>3, <1>5
  <2> QED BY <2>1, <2>2
<1>6. ASSUME NEW n \in Listed, Found(a) = <<n>>, Pre(n, a),
             \A x \in Listed : Pre(x, a) => Len(x) <= Len(n)
      PROVE  Match(a, now) <=> \E net \in DOMAIN listed : Deciding(net) /\ (listed[net] = 0 \/ listed[net] >= now)
  <2>1. Match(a, now) <=> (node[n].expiration > 0 => node[n].expiration >= now)
    BY <1>6 DEF Match, Null
  <2>2. Match(a, now) <=> listed[Cov(n)] = 0 \/ listed[Cov(n)] >= now
    <3>1. node[n].expiration > 0 <=> node[n].expiration # 0
      BY <1>1
    <3> QED BY <1>2, <2>1, <3>1
  <2>3. Deciding(Cov(n))
    <3>1. ASSUME NEW other \in DOMAIN listed, a \in other
          PROVE  Cov(n) \subseteq other
      <4>1. PICK k \in Listed : other = Cov(k)
        BY <1>2
      <4>2. Pre(k, a) /\ Len(k) <= Len(n)
        BY <1>3, <1>6, <3>1, <4>1
      <4>3. Pre(k, n)
        BY <1>1, <1>4, <1>6, <4>2, PreOfSame
      <4> QED BY <1>1, <4>1, <4>3, CovSubset
    <3> QED BY <1>2, <1>3, <1>6, <3>1
  <2>4. ASSUME NEW net, Deciding(net)
        PROVE  net = Cov(n)
    <3>1. net \subseteq Cov(n) /\ Cov(n) \subseteq net
      BY <2>3, <2>4
    <3> QED BY <3>1
  <2> HIDE DEF Deciding
  <2>5. \A net \in DOMAIN listed : Deciding(net) => net = Cov(n)
    BY <2>4
  <2>6. Cov(n) \in DOMAIN listed
    BY <1>2
  <2> QED BY <2>2, <2>3, <2>5, <2>6
<1>7. CASE \E n \in Listed : /\ Found(a) = <<n>> /\ Pre(n, a)
                             /\ \A x \in Listed : Pre(x, a) => Len(x) <= Len(n)
  BY <1>6, <1>7
<1> QED BY <1>5, <1>7, FoundIs

\* An address matches exactly when the smallest network listed that holds it has
\* not expired, whatever the order of the list and the shape of the tree
\* (ip_match::ip_match and match), for addresses of any width.
THEOREM SmallestDecides == Spec => []SmallestNetworkDecides
<1>1. Init => TreeInv /\ ListedInv
  <2> SUFFICES ASSUME Init PROVE ListedInv
    BY TreeInit
  <2>1. DOMAIN node = {} /\ DOMAIN listed = {}
    BY DEF Init
  <2> QED BY <2>1 DEF ListedInv, Listed
<1>2. ASSUME TreeInv, ListedInv, [Next]_vars
      PROVE  TreeInv' /\ ListedInv'
  <2>1. CASE UNCHANGED vars
    BY <1>2, <2>1, TreeUnchanged DEF ListedInv, Listed, Cov, vars
  <2>2. ASSUME NEW entry \in Entries, Add(entry)
        PROVE  TreeInv' /\ ListedInv'
    BY <1>2, <2>2, AddStep, ListedStep
  <2> QED BY <1>2, <2>1, <2>2 DEF Next
<1>3. TreeInv /\ ListedInv => SmallestNetworkDecides
  BY MatchIs DEF SmallestNetworkDecides
<1> QED BY <1>1, <1>2, <1>3, PTL DEF Spec

-----------------------------------------------------------------------------
(* The shape of the tree *)

LEMMA ShapeIs == ASSUME TreeInv PROVE TreeShape
<1> DEFINE D == DOMAIN node
<1>1. Tree(D, Kid, Up, head) /\ node \in [D -> NodeType]
  BY DEF TreeInv
<1>2. head \in Pointer /\ (head = Null <=> node = [k \in {} |-> 0])
  <2>1. head = Null <=> D = {}
    BY <1>1 DEF Tree
  <2>2. D = {} <=> node = [k \in {} |-> 0]
    BY <1>1
  <2>3. head \in Pointer
    BY <1>1 DEF Tree, Pointer
  <2> QED BY <2>1, <2>2, <2>3
<1>3. ASSUME NEW k \in D
      PROVE  /\ k \in Keys /\ node[k].has \in BOOLEAN /\ node[k].expiration \in Nat
             /\ node[k].l \in Pointer /\ node[k].r \in Pointer /\ node[k].parent \in Pointer
             /\ ~node[k].has => node[k].l # Null /\ node[k].r # Null
  <2>1. /\ k \in Keys /\ node[k].has \in BOOLEAN /\ node[k].expiration \in Nat
        /\ \A s \in Sides : node[k][s] # Null =>
              node[k][s][1] \in D /\ node[k][s] = <<node[k][s][1]>>
        /\ node[k].parent # Null => node[k].parent[1] \in D /\ node[k].parent = <<node[k].parent[1]>>
        /\ ~node[k].has => \A s \in Sides : node[k][s] # Null
    BY NodeShape
  <2>2. \A s \in Sides : node[k][s] \in Pointer
    BY <2>1 DEF Pointer
  <2>3. node[k].parent \in Pointer
    BY <2>1 DEF Pointer
  <2> QED BY <2>1, <2>2, <2>3 DEF Sides
<1>4. ASSUME NEW k \in D, NEW side \in Sides, node[k][side] # Null
      PROVE  LET child == node[k][side][1] IN
             IsPrefixOf(k, child) /\ Side(child, Len(k)) = side /\ node[child].parent = <<k>>
  <2> DEFINE c == node[k][side][1]
  <2>1. /\ c \in D /\ node[k][side] = <<c>> /\ Kid[k][side] = node[k][side]
        /\ Len(k) < Len(c) /\ Pre(k, c) /\ Turn(c, Len(k)) = side
    BY <1>4, NodeShape
  <2> HIDE DEF c
  <2>2. k \in Keys /\ c \in Keys /\ Len(k) \in 0..Width /\ Len(c) \in 0..Width /\ Width \in Nat
    BY <2>1, NodeShape, WidthType
  <2>3. Up[c] = <<k>> /\ Up[c] = node[c].parent
    BY <1>1, <2>1 DEF Tree, Up
  <2>4. Side(c, Len(k)) = side
    BY <2>1, <2>2 DEF Side, Turn
  <2>5. SubSeq(c, 1, Len(k)) = k
    <3>1. Len(k) \in 0..Len(c)
      BY <2>1, <2>2
    <3>2. SubSeq(c, 1, Len(k)) = First(c, Len(k))
      BY <2>2, <3>1, SubSeqIsFirst
    <3>3. First(c, Len(k)) \in Keys /\ Len(First(c, Len(k))) = Len(k)
      BY <2>2, <3>1, FirstBits
    <3>4. Pre(k, First(c, Len(k)))
      BY <2>1, <3>3 DEF Pre, First
    <3> QED BY <2>2, <3>2, <3>3, <3>4, SameKey
  <2> QED BY <2>1, <2>3, <2>4, <2>5 DEF IsPrefixOf, c
<1>5. ASSUME NEW k \in D
      PROVE  IF node[k].parent = Null THEN head = <<k>> ELSE Contains(Children(node[k].parent[1]), k)
  <2>1. Up[k] = node[k].parent
    BY DEF Up
  <2>2. CASE node[k].parent = Null
    BY <1>1, <2>1, <2>2 DEF Tree
  <2>3. CASE node[k].parent # Null
    <3> DEFINE p == node[k].parent[1]
    <3>1. p \in D /\ node[k].parent = <<p>>
      BY <2>3, NodeShape
    <3> HIDE DEF p
    <3>2. PICK s \in Sides : Kid[p][s] = <<k>>
      <4>1. Up[k] = <<p>>
        BY <2>1, <3>1
      <4> HIDE DEF D
      <4> QED BY <1>1, <3>1, <4>1 DEF Tree
    <3>3. Kid[p][s] = node[p][s] /\ node[p].l \in Pointer /\ node[p].r \in Pointer
      BY <1>3, <3>1, NodeShape
    <3>4. \A x \in Pointer : x = << >> \/ \E y \in D : x = <<y>>
      BY DEF Pointer, Null
    <3>5. Contains(node[p].l \o node[p].r, k)
      <4>1. CASE s = "l"
        <5>1. node[p].l = <<k>>
          BY <3>2, <3>3, <4>1
        <5>2. node[p].r \in Seq(D)
          <6>1. node[p].r = << >> \/ \E y \in D : node[p].r = <<y>>
            BY <3>3, <3>4
          <6>2. \A y \in D : <<y>> \in Seq(D)
            OBVIOUS
          <6>3. << >> \in Seq(D)
            OBVIOUS
          <6> HIDE DEF D
          <6> QED BY <6>1, <6>2, <6>3
        <5>3. (<<k>> \o node[p].r)[1] = k /\ 1 \in 1..Len(<<k>> \o node[p].r)
          BY <5>2
        <5> QED BY <5>1, <5>3 DEF Contains
      <4>2. CASE s = "r"
        <5>1. node[p].r = <<k>>
          BY <3>2, <3>3, <4>2
        <5>2. node[p].l = << >> \/ \E y \in D : node[p].l = <<y>>
          BY <3>3, <3>4
        <5>3. CASE node[p].l = << >>
          BY <5>1, <5>3 DEF Contains
        <5>4. ASSUME NEW y \in D, node[p].l = <<y>>
              PROVE  Contains(node[p].l \o node[p].r, k)
          <6>1. (<<y>> \o <<k>>)[2] = k /\ 2 \in 1..Len(<<y>> \o <<k>>)
            OBVIOUS
          <6> QED BY <5>1, <5>4, <6>1 DEF Contains
        <5> QED BY <5>2, <5>3, <5>4
      <4> QED BY <4>1, <4>2 DEF Sides
    <3> QED BY <2>3, <3>5 DEF Children, p
  <2> QED BY <2>2, <2>3
<1> QED BY <1>2, <1>3, <1>4, <1>5 DEF TreeShape, Keys, Sides

\* Every insertion leaves a tree in which pointers go both ways, children are on
\* the side of their bits and a node without a prefix has two children, which the
\* descent of radix_put_if_absent relies on.
THEOREM ShapeKept == Spec => []TreeShape
<1>1. TreeInv /\ [Next]_vars => TreeInv'
  BY AddStep, TreeUnchanged DEF Next
<1> QED BY <1>1, TreeInit, ShapeIs, PTL DEF Spec

=============================================================================
