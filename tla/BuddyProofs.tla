---------------------------- MODULE BuddyProofs ----------------------------
(***************************************************************************)
(* The tree of the buddy allocator, for every number of pages: each node   *)
(* that the allocator looks at holds the longest free run below it, and    *)
(* the tree implements the lowest-fit allocator of PageAlloc.              *)
(***************************************************************************)
EXTENDS Buddy, FiniteSetTheorems, WellFoundedInduction, TLAPS

\* A set of naturals that is not empty has a least element.
LEMMA LeastElement ==
  ASSUME NEW S \in SUBSET Nat, S # {}
  PROVE  \E x \in S : \A y \in S : x <= y
<1>1. S \subseteq Nat
  OBVIOUS
<1>2. PICK x \in S : \A y \in S : ~ (<<y, x>> \in OpToRel(<, Nat))
  BY <1>1, NatLessThanWellFounded, WFMin, Zenon
<1>3. \A y \in S : ~ (y < x)
  BY <1>1, <1>2, Zenon DEF OpToRel
<1> QED BY <1>1, <1>3

-----------------------------------------------------------------------------
(***************************************************************************)
(* Recursive functions: each of the definitions below is the function that *)
(* satisfies its equation, because there is one.                           *)
(***************************************************************************)
Steps(N, S, z, J, G) ==
  \E f \in [0 .. N -> S] : \A i \in 0 .. N : f[i] = IF i = 0 THEN z ELSE G[<<i, f[J[i]]>>]

\* A value for every index, from that of an index before it.
LEMMA FromBefore ==
  ASSUME NEW N \in Nat, NEW S, NEW z \in S,
         NEW J \in [1 .. N -> 0 .. N], \A i \in 1 .. N : J[i] < i,
         NEW G \in [(1 .. N) \X S -> S]
  PROVE  Steps(N, S, z, J, G)
<1> DEFINE Follows(f, n) == \A i \in 0 .. n : f[i] = IF i = 0 THEN z ELSE G[<<i, f[J[i]]>>]
           Bad == {n \in 0 .. N : ~ \E f \in [0 .. n -> S] : Follows(f, n)}
<1>1. SUFFICES ASSUME Bad # {} PROVE FALSE
  <2>1. N \notin Bad
    BY <1>1
  <2> QED BY <2>1 DEF Steps
<1>2. PICK n \in Bad : \A y \in Bad : n <= y
  <2>1. Bad \in SUBSET Nat
    OBVIOUS
  <2> HIDE DEF Bad
  <2> QED BY <1>1, <2>1, LeastElement
<1>3. CASE n = 0
  <2>1. [i \in 0 .. 0 |-> z] \in [0 .. 0 -> S] /\ Follows([i \in 0 .. 0 |-> z], 0)
    OBVIOUS
  <2> QED BY <1>2, <1>3, <2>1
<1>4. CASE n # 0
  <2>1. n - 1 \in 0 .. N /\ n - 1 \notin Bad /\ n \in 1 .. N
    <3>1. n \in 0 .. N
      BY <1>2
    <3> HIDE DEF Bad
    <3> QED BY <1>2, <1>4, <3>1
  <2>2. PICK f \in [0 .. n - 1 -> S] : Follows(f, n - 1)
    BY <2>1
  <2> DEFINE g == [i \in 0 .. n |-> IF i = n THEN G[<<n, f[J[n]]>>] ELSE f[i]]
  <2>3. J[n] \in 0 .. n - 1 /\ f[J[n]] \in S /\ <<n, f[J[n]]>> \in (1 .. N) \X S
    BY <2>1, <2>2
  <2>4. g \in [0 .. n -> S]
    <3>1. G[<<n, f[J[n]]>>] \in S
      BY <2>3
    <3>2. \A i \in 0 .. n : i # n => i \in 0 .. n - 1
      BY <2>1
    <3> QED BY <2>2, <3>1, <3>2
  <2>5. ASSUME NEW i \in 0 .. n PROVE g[i] = IF i = 0 THEN z ELSE G[<<i, g[J[i]]>>]
    <3>1. i # 0 => J[i] \in 0 .. n - 1 /\ g[J[i]] = f[J[i]]
      BY <2>1, <2>5
    <3>2. CASE i = n
      BY <2>1, <3>1, <3>2, <1>4
    <3>3. CASE i # n
      <4>1. i \in 0 .. n - 1 /\ g[i] = f[i]
        BY <2>1, <3>3
      <4> QED BY <2>2, <3>1, <4>1
    <3> QED BY <3>2, <3>3
  <2> QED BY <1>2, <2>4, <2>5
<1> QED BY <1>3, <1>4

LEMMA Pow2Is ==
  /\ Pow2 \in [0 .. Width -> Nat]
  /\ \A k \in 0 .. Width : Pow2[k] = IF k = 0 THEN 1 ELSE 2 * Pow2[k - 1]
<1> DEFINE Eq(f) == f = [k \in 0 .. Width |-> IF k = 0 THEN 1 ELSE 2 * f[k - 1]]
           J == [i \in 1 .. Width |-> i - 1]
           G == [t \in (1 .. Width) \X Nat |-> 2 * t[2]]
<1>1. Width \in Nat
  BY DEF Width
<1>2. PICK f \in [0 .. Width -> Nat] :
         \A i \in 0 .. Width : f[i] = IF i = 0 THEN 1 ELSE G[<<i, f[J[i]]>>]
  <2>1. J \in [1 .. Width -> 0 .. Width] /\ \A i \in 1 .. Width : J[i] < i
    BY <1>1
  <2>2. G \in [(1 .. Width) \X Nat -> Nat] /\ 1 \in Nat
    OBVIOUS
  <2> HIDE DEF J, G
  <2>3. Steps(Width, Nat, 1, J, G)
    BY <1>1, <2>1, <2>2, FromBefore
  <2> QED BY <2>3, Zenon DEF Steps
<1>3. ASSUME NEW i \in 0 .. Width PROVE f[i] = IF i = 0 THEN 1 ELSE 2 * f[i - 1]
  <2>1. i # 0 => i \in 1 .. Width /\ i - 1 \in 0 .. Width /\ J[i] = i - 1
    BY <1>1
  <2>2. i # 0 => <<i, f[i - 1]>> \in (1 .. Width) \X Nat /\ G[<<i, f[i - 1]>>] = 2 * f[i - 1]
    BY <2>1, <1>2
  <2> HIDE DEF J, G
  <2> QED BY <1>2, <2>1, <2>2
<1>4. Eq(f)
  BY <1>2, <1>3
<1>5. Pow2 = CHOOSE h : Eq(h)
  BY Zenon DEF Pow2
<1>6. Eq(Pow2)
  <2> HIDE DEF Eq
  <2> QED BY <1>4, <1>5, Zenon
<1>7. ASSUME NEW h, Eq(h) PROVE h = f
  <2>1. DOMAIN h = 0 .. Width
    BY <1>7
  <2> DEFINE Bad == {i \in 0 .. Width : h[i] # f[i]}
  <2>2. SUFFICES ASSUME Bad # {} PROVE FALSE
    BY <2>1, <1>2, <1>7
  <2>3. PICK i \in Bad : \A y \in Bad : i <= y
    <3>1. Bad \in SUBSET Nat
      OBVIOUS
    <3> HIDE DEF Bad
    <3> QED BY <2>2, <3>1, LeastElement
  <2>4. i # 0 => i - 1 \in 0 .. Width /\ i - 1 \notin Bad
    BY <2>3, <1>1
  <2>5. h[i] = IF i = 0 THEN 1 ELSE 2 * h[i - 1]
    BY <1>7
  <2> QED BY <2>3, <2>4, <2>5, <1>3
<1> QED BY <1>2, <1>3, <1>6, <1>7

-----------------------------------------------------------------------------
(***************************************************************************)
(* Powers of two.                                                          *)
(***************************************************************************)
LEMMA Pow2Step ==
  /\ Pow2[0] = 1
  /\ \A k \in 0 .. Width : Pow2[k] \in Nat \ {0}
  /\ \A k \in 0 .. Width - 1 : k + 1 \in 0 .. Width /\ Pow2[k + 1] = 2 * Pow2[k]
<1>1. Width \in Nat
  BY DEF Width
<1>2. Pow2[0] = 1
  BY <1>1, Pow2Is
<1>3. \A k \in 0 .. Width - 1 : k + 1 \in 0 .. Width /\ Pow2[k + 1] = 2 * Pow2[k]
  BY <1>1, Pow2Is
<1>4. ASSUME NEW S, S = {k \in 0 .. Width : Pow2[k] = 0}, S # {} PROVE FALSE
  <2>1. S \in SUBSET Nat
    BY <1>4
  <2>2. PICK k \in S : \A y \in S : k <= y
    BY <1>4, <2>1, LeastElement
  <2>3. k \in 0 .. Width /\ Pow2[k] = 0 /\ k # 0 /\ k - 1 \in 0 .. Width
    BY <1>1, <1>2, <1>4, <2>2
  <2>4. Pow2[k] = 2 * Pow2[k - 1] /\ Pow2[k - 1] \in Nat
    BY <2>3, Pow2Is
  <2>5. k - 1 \in S
    BY <1>4, <2>3, <2>4
  <2> QED BY <2>2, <2>3, <2>5
<1>5. \A k \in 0 .. Width : Pow2[k] # 0
  BY <1>4
<1>6. \A k \in 0 .. Width : Pow2[k] \in Nat
  BY Pow2Is
<1> QED BY <1>2, <1>3, <1>5, <1>6

\* Of two powers, the lower divides the higher.
LEMMA PowersDivide ==
  ASSUME NEW j \in 0 .. Width, NEW k \in j .. Width
  PROVE  \E r \in Nat \ {0} : Pow2[k] = r * Pow2[j]
<1> DEFINE Bad == {n \in j .. Width : ~ \E r \in Nat \ {0} : Pow2[n] = r * Pow2[j]}
<1>1. Width \in Nat
  BY DEF Width
<1>2. SUFFICES ASSUME Bad # {} PROVE FALSE
  OBVIOUS
<1>3. PICK n \in Bad : \A y \in Bad : n <= y
  <2>1. Bad \in SUBSET Nat
    BY <1>1
  <2> HIDE DEF Bad
  <2> QED BY <1>2, <2>1, LeastElement
<1>4. n \in j .. Width /\ ~ \E r \in Nat \ {0} : Pow2[n] = r * Pow2[j]
  BY <1>3
<1>5. n # j
  <2>1. Pow2[j] = 1 * Pow2[j]
    BY Pow2Step
  <2> QED BY <1>4, <2>1
<1>6. n - 1 \in j .. Width /\ n - 1 \notin Bad /\ n - 1 \in 0 .. Width - 1
  <2> HIDE DEF Bad
  <2> QED BY <1>1, <1>3, <1>4, <1>5
<1>7. PICK r \in Nat \ {0} : Pow2[n - 1] = r * Pow2[j]
  BY <1>6
<1>8. Pow2[n] = 2 * Pow2[n - 1]
  BY <1>1, <1>4, <1>6, Pow2Step
<1>9. PICK a \in Nat : a = Pow2[j]
  BY Pow2Step
<1>10. 2 * (r * a) = (2 * r) * a
  OBVIOUS
<1>11. 2 * r \in Nat \ {0}
  OBVIOUS
<1> QED BY <1>4, <1>7, <1>8, <1>9, <1>10, <1>11

LEMMA PowersOrdered ==
  ASSUME NEW j \in 0 .. Width, NEW k \in 0 .. Width
  PROVE  /\ j < k => 2 * Pow2[j] <= Pow2[k]
         /\ j < k => \E r \in Nat \ {0} : Pow2[k] = (2 * r) * Pow2[j]
         /\ Pow2[j] = Pow2[k] => j = k
         /\ Pow2[j] < Pow2[k] <=> j < k
<1>1. ASSUME NEW a \in 0 .. Width, NEW b \in 0 .. Width, a < b
      PROVE  2 * Pow2[a] <= Pow2[b] /\ \E r \in Nat \ {0} : Pow2[b] = (2 * r) * Pow2[a]
  <2>1. b - 1 \in a .. Width /\ b - 1 \in 0 .. Width - 1 /\ b - 1 + 1 = b /\ Width \in Nat
    BY <1>1 DEF Width
  <2>2. PICK r \in Nat \ {0} : Pow2[b - 1] = r * Pow2[a]
    BY <2>1, PowersDivide
  <2>3. Pow2[b] = 2 * Pow2[b - 1]
    BY <2>1, Pow2Step
  <2>4. PICK x \in Nat \ {0} : x = Pow2[a]
    BY Pow2Step
  <2>5. 2 * (r * x) = (2 * r) * x /\ r * x >= 1 * x
    OBVIOUS
  <2> QED BY <2>2, <2>3, <2>4, <2>5
<1>2. Pow2[j] \in Nat \ {0} /\ Pow2[k] \in Nat \ {0} /\ j \in Int /\ k \in Int
  BY Pow2Step
<1>3. CASE j < k
  BY <1>1, <1>2, <1>3
<1>4. CASE k < j
  BY <1>1, <1>2, <1>4
<1>5. CASE j = k
  BY <1>2, <1>5
<1> QED BY <1>2, <1>3, <1>4, <1>5

Powers == {Pow2[k] : k \in 0 .. Width - 1}

\* Of two powers, the lower divides the higher, an even number of times if it
\* is lower indeed; and half of a power other than 1 is one.
LEMMA PowersHold ==
  ASSUME NEW u \in Powers, NEW v \in Powers
  PROVE  /\ u \in Nat \ {0} /\ v \in Nat \ {0} /\ 1 \in Powers
         /\ u <= v => \E r \in Nat \ {0} : v = r * u
         /\ u < v => 2 * u <= v
         /\ v # 1 => v \div 2 \in Powers /\ v = 2 * (v \div 2)
<1>1. PICK j \in 0 .. Width - 1, k \in 0 .. Width - 1 : u = Pow2[j] /\ v = Pow2[k]
  BY DEF Powers
<1>2. j \in 0 .. Width /\ k \in 0 .. Width /\ Width \in Nat /\ Width > 0
  BY DEF Width
<1>3. u \in Nat \ {0} /\ v \in Nat \ {0} /\ 1 \in Powers
  BY <1>1, <1>2, Pow2Step DEF Powers
<1>4. u < v <=> j < k
  BY <1>1, <1>2, PowersOrdered
<1>5. u <= v => \E r \in Nat \ {0} : v = r * u
  <2>1. u <= v => k \in j .. Width
    <3>1. u <= v => ~ (k < j)
      <4>1. k < j => v < u
        BY <1>1, <1>2, PowersOrdered
      <4> QED BY <1>3, <4>1
    <3> QED BY <1>2, <3>1
  <2> QED BY <1>1, <1>2, <2>1, PowersDivide
<1>6. u < v => 2 * u <= v
  BY <1>1, <1>2, <1>4, PowersOrdered
<1>7. ASSUME v # 1 PROVE v \div 2 \in Powers /\ v = 2 * (v \div 2)
  <2>1. k # 0
    BY <1>1, <1>7, Pow2Step
  <2>2. k - 1 \in 0 .. Width - 1 /\ k - 1 + 1 = k
    BY <1>2, <2>1
  <2>3. v = 2 * Pow2[k - 1] /\ Pow2[k - 1] \in Powers /\ Pow2[k - 1] \in Nat
    BY <1>1, <1>2, <2>2, Pow2Step DEF Powers
  <2> QED BY <1>3, <2>3
<1> QED BY <1>3, <1>5, <1>6, <1>7

-----------------------------------------------------------------------------
(***************************************************************************)
(* The nodes.                                                              *)
(***************************************************************************)
LEMMA SizeIs == Size \in Powers /\ Size \in Nat \ {0}
<1>1. Size \in Powers
  BY BuddyAssumption DEF Powers
<1> QED BY <1>1, PowersHold

\* What the assumption says of the other constants.
LEMMA BoundsAre ==
  /\ Kernel \in Nat /\ Kernel <= Size /\ Requests \subseteq 0 .. Size
  /\ MaxRef \in Nat /\ MaxRef >= 1
<1>1. Kernel \in 0 .. Size /\ Requests \subseteq 0 .. Size /\ MaxRef \in Nat \ {0}
  BY BuddyAssumption, Zenon
<1> QED BY <1>1, SizeIs

Inner == 0 .. Size - 2

\* Children and parents.
LEMMA Family ==
  /\ 0 \in Nodes /\ Nodes \in SUBSET Nat /\ Inner \subseteq Nodes
  /\ \A i \in Inner : /\ Left(i) \in Nodes /\ Right(i) \in Nodes /\ Left(i) # Right(i)
                      /\ Left(i) > i /\ Right(i) > i
                      /\ Parent(Left(i)) = i /\ Parent(Right(i)) = i
  /\ \A i \in Nodes \ {0} : /\ Parent(i) \in Inner /\ Parent(i) < i
                            /\ i = Left(Parent(i)) \/ i = Right(Parent(i))
<1> USE SizeIs DEF Nodes, Inner, Left, Right, Parent
<1>1. 0 \in Nodes /\ Nodes \in SUBSET Nat /\ Inner \subseteq Nodes
  OBVIOUS
<1>2. ASSUME NEW i \in Inner
      PROVE  /\ Left(i) \in Nodes /\ Right(i) \in Nodes /\ Left(i) # Right(i)
             /\ Left(i) > i /\ Right(i) > i
             /\ Parent(Left(i)) = i /\ Parent(Right(i)) = i
  OBVIOUS
<1>3. ASSUME NEW i \in Nodes \ {0}
      PROVE  /\ Parent(i) \in Inner /\ Parent(i) < i
             /\ i = Left(Parent(i)) \/ i = Right(Parent(i))
  OBVIOUS
<1> QED BY <1>1, <1>2, <1>3

LEMMA NodeSizeIs ==
  /\ NodeSize \in [Nodes -> Nat]
  /\ \A i \in Nodes : NodeSize[i] = IF i = 0 THEN Size ELSE NodeSize[Parent(i)] \div 2
<1> DEFINE Eq(f) == f = [i \in Nodes |-> IF i = 0 THEN Size ELSE f[Parent(i)] \div 2]
           N == 2 * Size - 2
           J == [i \in 1 .. N |-> Parent(i)]
           G == [t \in (1 .. N) \X Nat |-> t[2] \div 2]
<1>1. N \in Nat /\ Nodes = 0 .. N
  BY SizeIs DEF Nodes
<1>2. \A i \in 1 .. N : Parent(i) \in 0 .. N /\ Parent(i) < i
  BY <1>1 DEF Parent
<1>3. PICK f \in [0 .. N -> Nat] : \A i \in 0 .. N : f[i] = IF i = 0 THEN Size ELSE G[<<i, f[J[i]]>>]
  <2>1. J \in [1 .. N -> 0 .. N] /\ \A i \in 1 .. N : J[i] < i
    <3> HIDE DEF N
    <3> QED BY <1>2
  <2>2. G \in [(1 .. N) \X Nat -> Nat] /\ Size \in Nat
    BY SizeIs
  <2> HIDE DEF J, G, N
  <2>3. Steps(N, Nat, Size, J, G)
    BY <1>1, <2>1, <2>2, FromBefore
  <2> QED BY <2>3, Zenon DEF Steps
<1>4. ASSUME NEW i \in Nodes PROVE f[i] = IF i = 0 THEN Size ELSE f[Parent(i)] \div 2
  <2>1. i # 0 => i \in 1 .. N /\ Parent(i) \in 0 .. N /\ J[i] = Parent(i)
    <3> HIDE DEF N
    <3>1. i # 0 => i \in 1 .. N
      BY <1>1
    <3> QED BY <1>2, <3>1
  <2>2. i # 0 => <<i, f[Parent(i)]>> \in (1 .. N) \X Nat /\ G[<<i, f[Parent(i)]>>] = f[Parent(i)] \div 2
    <3> HIDE DEF N
    <3> QED BY <2>1, <1>3
  <2>3. i \in 0 .. N
    BY <1>1
  <2> HIDE DEF J, G, N
  <2> QED BY <1>3, <2>1, <2>2, <2>3
<1>5. Eq(f)
  BY <1>1, <1>3, <1>4
<1>6. NodeSize = CHOOSE h : Eq(h)
  BY Zenon DEF NodeSize
<1>7. Eq(NodeSize)
  <2> HIDE DEF Eq
  <2> QED BY <1>5, <1>6, Zenon
<1>8. DOMAIN NodeSize = Nodes /\ \A i \in Nodes : NodeSize[i] = IF i = 0 THEN Size ELSE NodeSize[Parent(i)] \div 2
  BY <1>7
<1>9. ASSUME NEW S, S = {i \in Nodes : NodeSize[i] # f[i]}, S # {} PROVE FALSE
  <2>1. S \in SUBSET Nat
    BY <1>9, Family
  <2>2. PICK i \in S : \A y \in S : i <= y
    BY <1>9, <2>1, LeastElement
  <2>3. i \in Nodes /\ NodeSize[i] # f[i]
    BY <1>9, <2>2
  <2>4. i # 0 => Parent(i) \in Nodes /\ Parent(i) < i /\ Parent(i) \in Int /\ i \in Int
    <3>1. Nodes \subseteq Int /\ Inner \subseteq Nodes
      BY Family
    <3>2. i # 0 => Parent(i) \in Inner /\ Parent(i) < i
      BY <2>3, Family, Zenon
    <3> QED BY <2>3, <3>1, <3>2
  <2>5. i # 0 => Parent(i) \notin S
    BY <2>2, <2>4
  <2>6. i # 0 => NodeSize[Parent(i)] = f[Parent(i)]
    BY <1>9, <2>4, <2>5
  <2> QED BY <1>4, <1>8, <2>3, <2>6
<1>10. \A i \in Nodes : NodeSize[i] = f[i]
  <2>1. {i \in Nodes : NodeSize[i] # f[i]} = {}
    BY <1>9
  <2> QED BY <2>1
<1>11. \A i \in Nodes : NodeSize[i] \in Nat
  <2> HIDE DEF N
  <2> QED BY <1>1, <1>3, <1>10
<1>12. NodeSize = [i \in Nodes |-> NodeSize[i]]
  BY <1>7
<1>13. NodeSize \in [Nodes -> Nat]
  BY <1>11, <1>12
<1> QED BY <1>8, <1>13

\* Node i is one of the q nodes of its level, in which the pages are shared
\* out evenly.
InLevel(i, q) ==
  /\ q \in Nat \ {0} /\ q * NodeSize[i] = Size /\ q <= i + 1 /\ i + 1 < 2 * q
  /\ NodeSize[i] \in Powers

LEMMA EveryNodeInLevel == \A i \in Nodes : \E q \in Nat \ {0} : InLevel(i, q)
<1> DEFINE Bad == {i \in Nodes : ~ \E q \in Nat \ {0} : InLevel(i, q)}
<1>1. SUFFICES ASSUME Bad # {} PROVE FALSE
  OBVIOUS
<1>2. PICK i \in Bad : \A y \in Bad : i <= y
  <2>1. Bad \in SUBSET Nat
    BY Family
  <2> HIDE DEF Bad
  <2> QED BY <1>1, <2>1, LeastElement
<1>3. i \in Nodes /\ i \in Nat /\ \A q \in Nat \ {0} : ~ InLevel(i, q)
  BY <1>2, Family
<1>4. CASE i = 0
  <2>1. InLevel(0, 1)
    BY NodeSizeIs, SizeIs, Family DEF InLevel
  <2> QED BY <1>3, <1>4, <2>1
<1>5. CASE i # 0
  <2> DEFINE j == Parent(i)
  <2>1. j \in Inner /\ j \in Nodes /\ j < i /\ (i = 2 * j + 1 \/ i = 2 * j + 2) /\ j \in Nat /\ j <= Size - 2
    BY <1>3, <1>5, Family, SizeIs DEF Left, Right, Inner
  <2>2. NodeSize[i] = NodeSize[j] \div 2
    BY <1>3, <1>5, NodeSizeIs
  <2>3. j \notin Bad
    <3> HIDE DEF j, Bad
    <3> QED BY <1>2, <1>3, <2>1
  <2> HIDE DEF j
  <2>4. PICK q \in Nat \ {0} : InLevel(j, q)
    BY <2>1, <2>3
  <2>5. NodeSize[j] # 1
    BY <2>1, <2>4, SizeIs DEF InLevel
  <2>6. NodeSize[i] \in Powers /\ NodeSize[j] = 2 * NodeSize[i] /\ NodeSize[i] \in Nat
    BY <2>2, <2>4, <2>5, PowersHold DEF InLevel
  <2>7. (2 * q) * NodeSize[i] = Size
    BY <2>4, <2>6 DEF InLevel
  <2>8. InLevel(i, 2 * q)
    BY <2>1, <2>4, <2>6, <2>7, <1>3 DEF InLevel
  <2> QED BY <1>3, <2>8
<1> QED BY <1>4, <1>5

\* The pages of a node follow those of the nodes before it in its level.
LEMMA PlaceInLevel ==
  ASSUME NEW i \in Nodes, NEW q \in Nat \ {0}, InLevel(i, q)
  PROVE  /\ FirstPage(i) = (i + 1 - q) * NodeSize[i] /\ i + 1 - q \in 0 .. q - 1
         /\ FirstPage(i) \in Nat /\ FirstPage(i) + NodeSize[i] <= Size
<1>1. PICK s \in Nat \ {0}, n \in Nat, j \in Nat :
         s = NodeSize[i] /\ n = Size /\ j = i + 1 /\ i \in Nat
  <2>1. NodeSize[i] \in Powers
    BY DEF InLevel
  <2>2. NodeSize[i] \in Nat \ {0}
    BY <2>1, PowersHold
  <2>3. i \in Nat /\ i + 1 \in Nat
    BY Family
  <2> QED BY <2>2, <2>3, SizeIs
<1>2. n = q * s /\ q <= j /\ j < 2 * q
  BY <1>1 DEF InLevel
<1>3. PICK m \in Nat : m = j - q
  BY <1>1, <1>2
<1>4. m < q /\ j = m + q
  BY <1>2, <1>3
<1>5. (m + q) * s = m * s + q * s
  OBVIOUS
<1>6. m * s \in Nat /\ m * s + s <= q * s
  <2>1. m + 1 <= q => (m + 1) * s <= q * s
    OBVIOUS
  <2>2. (m + 1) * s = m * s + s
    OBVIOUS
  <2> QED BY <1>4, <2>1, <2>2
<1>7. FirstPage(i) = m * s
  <2>1. FirstPage(i) = j * s - n
    BY <1>1 DEF FirstPage
  <2>2. j * s = m * s + q * s
    BY <1>4, <1>5
  <2> QED BY <1>2, <1>6, <2>1, <2>2
<1>8. i + 1 - q = m /\ m \in 0 .. q - 1
  BY <1>1, <1>3, <1>4
<1>9. (i + 1 - q) * NodeSize[i] = m * s
  BY <1>1, <1>8
<1> QED BY <1>1, <1>2, <1>6, <1>7, <1>8, <1>9

\* The first page and the size of a node.
LEMMA NodePages ==
  /\ \A i \in Nodes : /\ FirstPage(i) \in Nat /\ NodeSize[i] \in Nat /\ NodeSize[i] > 0
                      /\ NodeSize[i] \in Powers /\ FirstPage(i) + NodeSize[i] <= Size
                      /\ FirstPage(i) \in Span(i) /\ FirstPage(i) \in Pages
                      /\ Span(i) \subseteq Pages /\ NodeSize[i] <= Size
                      /\ i \in Inner <=> NodeSize[i] > 1
  /\ NodeSize[0] = Size /\ FirstPage(0) = 0 /\ Span(0) = Pages
  /\ \A p \in Pages : LeafOf(p) \in Nodes /\ NodeSize[LeafOf(p)] = 1 /\ FirstPage(LeafOf(p)) = p
<1>1. ASSUME NEW i \in Nodes
      PROVE  /\ FirstPage(i) \in Nat /\ NodeSize[i] \in Nat /\ NodeSize[i] > 0
             /\ NodeSize[i] \in Powers /\ FirstPage(i) + NodeSize[i] <= Size
             /\ FirstPage(i) \in Span(i) /\ FirstPage(i) \in Pages
             /\ Span(i) \subseteq Pages /\ NodeSize[i] <= Size
             /\ i \in Inner <=> NodeSize[i] > 1
  <2>1. PICK q \in Nat \ {0} : InLevel(i, q)
    BY EveryNodeInLevel
  <2>2. FirstPage(i) \in Nat /\ FirstPage(i) + NodeSize[i] <= Size
    BY <2>1, PlaceInLevel
  <2>3. NodeSize[i] \in Nat /\ NodeSize[i] > 0 /\ NodeSize[i] \in Powers
    BY <2>1, PowersHold DEF InLevel
  <2>4. FirstPage(i) \in Span(i) /\ FirstPage(i) \in Pages /\ Span(i) \subseteq Pages /\ NodeSize[i] <= Size
    BY <2>2, <2>3, SizeIs DEF Span, Pages
  <2>5. i \in Inner <=> NodeSize[i] > 1
    <3>1. PICK n \in Nat, s \in Nat \ {0} : n = Size /\ s = NodeSize[i] /\ q * s = n /\ q <= i + 1 /\ i + 1 < 2 * q /\ i \in Nat
      BY <2>1, <2>3, SizeIs, Family DEF InLevel
    <3>2. CASE s = 1
      BY <3>1, <3>2 DEF Inner
    <3>3. CASE s >= 2
      <4>1. q * s >= q * 2
        BY <3>1, <3>3
      <4> QED BY <3>1, <3>3, <4>1 DEF Inner
    <3> QED BY <3>1, <3>2, <3>3
  <2> QED BY <2>2, <2>3, <2>4, <2>5
<1>2. NodeSize[0] = Size /\ FirstPage(0) = 0
  BY NodeSizeIs, Family, SizeIs DEF FirstPage
<1>3. Span(0) = Pages
  BY <1>2, SizeIs DEF Span, Pages
<1>4. ASSUME NEW p \in Pages
      PROVE  LeafOf(p) \in Nodes /\ NodeSize[LeafOf(p)] = 1 /\ FirstPage(LeafOf(p)) = p
  <2>1. LeafOf(p) \in Nodes /\ LeafOf(p) \notin Inner /\ LeafOf(p) + 1 = p + Size
    BY SizeIs DEF LeafOf, Nodes, Inner, Pages
  <2>2. NodeSize[LeafOf(p)] = 1
    <3>1. NodeSize[LeafOf(p)] \in Nat /\ NodeSize[LeafOf(p)] > 0 /\ ~ (NodeSize[LeafOf(p)] > 1)
      BY <1>1, <2>1
    <3> QED BY <3>1
  <2> QED BY <2>1, <2>2, SizeIs DEF FirstPage, Pages
<1> QED BY <1>1, <1>2, <1>3, <1>4

\* The pages of two nodes are apart, or those of one are among those of the other.
LEMMA SpansNest ==
  ASSUME NEW i \in Nodes, NEW k \in Nodes, NodeSize[k] <= NodeSize[i]
  PROVE  /\ Span(k) \subseteq Span(i) \/ Span(k) \cap Span(i) = {}
         /\ NodeSize[k] = NodeSize[i] /\ Span(k) \subseteq Span(i) => k = i
         /\ NodeSize[k] # NodeSize[i] => k > i
<1>1. PICK q \in Nat \ {0}, h \in Nat \ {0} : InLevel(i, q) /\ InLevel(k, h)
  BY EveryNodeInLevel
<1>2. PICK r \in Nat \ {0} : NodeSize[i] = r * NodeSize[k]
  BY NodePages, PowersHold
<1>3. PICK s \in Nat \ {0}, a \in Nat, b \in Nat :
         s = NodeSize[k] /\ a = i + 1 - q /\ b = k + 1 - h /\ NodeSize[i] = r * s
  BY <1>1, <1>2, PlaceInLevel, NodePages
<1>4. FirstPage(k) = b * s /\ FirstPage(i) = a * (r * s)
  BY <1>1, <1>3, PlaceInLevel
<1>5. PICK c \in Nat : c = a * r
  OBVIOUS
<1>6. a * (r * s) = c * s /\ c * s + r * s = (c + r) * s
  BY <1>5
<1>7. Span(k) = b * s .. b * s + s - 1 /\ Span(i) = c * s .. c * s + r * s - 1
  BY <1>3, <1>4, <1>6 DEF Span
<1>8. b * s + s = (b + 1) * s /\ b * s \in Nat /\ c * s \in Nat /\ r * s \in Nat
  OBVIOUS
<1>9. b * s \in Span(k) /\ b * s + s - 1 \in Span(k)
  BY <1>7, <1>8
<1>10. ASSUME b < c PROVE Span(k) \cap Span(i) = {}
  <2>1. (b + 1) * s <= c * s
    BY <1>10
  <2> QED BY <1>7, <1>8, <2>1
<1>11. ASSUME b >= c + r PROVE Span(k) \cap Span(i) = {}
  <2>1. b * s >= (c + r) * s
    BY <1>11
  <2> QED BY <1>6, <1>7, <1>8, <2>1
<1>12. ASSUME b >= c, b < c + r PROVE Span(k) \subseteq Span(i)
  <2>1. b * s >= c * s
    BY <1>12
  <2>2. (b + 1) * s <= (c + r) * s
    BY <1>12
  <2> QED BY <1>6, <1>7, <1>8, <2>1, <2>2
<1>13. Span(k) \subseteq Span(i) \/ Span(k) \cap Span(i) = {}
  BY <1>10, <1>11, <1>12
<1>14. PICK n \in Nat : n = Size /\ h * s = n /\ q * (r * s) = n
  BY <1>1, <1>3, SizeIs DEF InLevel
<1>15. PICK d \in Nat : d = q * r
  OBVIOUS
<1>16. q * (r * s) = d * s
  BY <1>15
<1>17. h = d
  <2>1. ~ (h < d)
    <3>1. h + 1 <= d => (h + 1) * s <= d * s
      OBVIOUS
    <3>2. (h + 1) * s = h * s + s
      OBVIOUS
    <3> QED BY <1>14, <1>16, <3>1, <3>2
  <2>2. ~ (d < h)
    <3>1. d + 1 <= h => (d + 1) * s <= h * s
      OBVIOUS
    <3>2. (d + 1) * s = d * s + s
      OBVIOUS
    <3> QED BY <1>14, <1>16, <3>1, <3>2
  <2> QED BY <2>1, <2>2
<1>18. i \in Nat /\ k \in Nat /\ q <= i + 1 /\ i + 1 < 2 * q /\ h <= k + 1 /\ k + 1 < 2 * h
  BY <1>1, Family DEF InLevel
<1>19. ASSUME NodeSize[k] = NodeSize[i], Span(k) \subseteq Span(i) PROVE k = i
  <2>1. r = 1
    <3>1. r >= 2 => r * s >= 2 * s
      OBVIOUS
    <3> QED BY <1>3, <1>19, <3>1
  <2>2. h = q /\ c = a
    BY <1>5, <1>15, <1>17, <2>1
  <2>3. c * s <= b * s /\ b * s < c * s + s
    <3>1. r * s = s
      BY <2>1
    <3>2. b * s \in c * s .. c * s + s - 1
      BY <1>7, <1>9, <1>19, <3>1
    <3> QED BY <1>8, <3>2
  <2>4. ~ (b < c) /\ ~ (b > c)
    <3>1. b + 1 <= c => (b + 1) * s <= c * s
      OBVIOUS
    <3>2. c + 1 <= b => (c + 1) * s <= b * s
      OBVIOUS
    <3>3. (c + 1) * s = c * s + s
      OBVIOUS
    <3> QED BY <1>8, <2>3, <3>1, <3>2, <3>3
  <2> QED BY <1>3, <1>18, <2>2, <2>4
<1>20. ASSUME NodeSize[k] # NodeSize[i] PROVE k > i
  <2>1. r >= 2
    BY <1>3, <1>20
  <2>2. d >= q * 2
    BY <1>15, <2>1
  <2> QED BY <1>17, <1>18, <2>2
<1> QED BY <1>13, <1>19, <1>20

-----------------------------------------------------------------------------
(***************************************************************************)
(* The tree.                                                               *)
(***************************************************************************)
Under(k, i) == Span(k) \subseteq Span(i)
Apart(k, i) == Span(k) \cap Span(i) = {}

\* Of two nodes, one is under the other or they are apart; a node that is
\* under another one comes after it, and has at most half of its pages.
LEMMA UnderOrApart ==
  ASSUME NEW i \in Nodes, NEW k \in Nodes
  PROVE  /\ Under(k, i) \/ Under(i, k) \/ Apart(k, i)
         /\ Under(k, i) /\ Under(i, k) => k = i
         /\ Under(k, i) => ~ Apart(k, i)
         /\ Under(k, i) /\ k # i => /\ k > i /\ 2 * NodeSize[k] <= NodeSize[i] /\ i \in Inner
                                    /\ FirstPage(i) <= FirstPage(k)
         /\ Under(k, i) => NodeSize[k] <= NodeSize[i]
         /\ Under(k, i) /\ NodeSize[k] = NodeSize[i] => k = i
         /\ Under(i, i)
<1>1. /\ FirstPage(i) \in Nat /\ NodeSize[i] \in Nat /\ NodeSize[i] > 0 /\ NodeSize[i] \in Powers
      /\ FirstPage(k) \in Nat /\ NodeSize[k] \in Nat /\ NodeSize[k] > 0 /\ NodeSize[k] \in Powers
      /\ Span(i) = FirstPage(i) .. FirstPage(i) + NodeSize[i] - 1
      /\ Span(k) = FirstPage(k) .. FirstPage(k) + NodeSize[k] - 1
  BY NodePages DEF Span
<1>2. PICK f \in Nat, s \in Nat \ {0}, g \in Nat, t \in Nat \ {0} :
         /\ f = FirstPage(i) /\ s = NodeSize[i] /\ g = FirstPage(k) /\ t = NodeSize[k]
         /\ Span(i) = f .. f + s - 1 /\ Span(k) = g .. g + t - 1
  BY <1>1
<1>3. Under(k, i) \/ Under(i, k) \/ Apart(k, i)
  <2>1. CASE t <= s
    BY <1>2, <2>1, SpansNest DEF Under, Apart
  <2>2. CASE s <= t
    BY <1>2, <2>2, SpansNest DEF Under, Apart
  <2> QED BY <2>1, <2>2
<1>4. ASSUME Under(k, i) PROVE g >= f /\ g + t <= f + s /\ ~ Apart(k, i)
  <2>1. g \in Span(k) /\ g + t - 1 \in Span(k)
    BY <1>2
  <2>2. g \in Span(i) /\ g + t - 1 \in Span(i)
    BY <1>4, <2>1 DEF Under
  <2>3. g \in f .. f + s - 1 /\ g + t - 1 \in f .. f + s - 1
    BY <1>2, <2>2
  <2> QED BY <2>1, <2>2, <2>3 DEF Apart
<1>5. ASSUME Under(k, i), t = s PROVE k = i
  <2>1. NodeSize[k] = NodeSize[i] /\ NodeSize[k] <= NodeSize[i] /\ Span(k) \subseteq Span(i)
    BY <1>2, <1>5 DEF Under
  <2> QED BY <2>1, SpansNest
<1>6. ASSUME Under(k, i), Under(i, k) PROVE k = i
  <2>1. t <= s
    BY <1>4, <1>6
  <2>2. f >= g /\ f + s <= g + t
    <3>1. f \in Span(i) /\ f + s - 1 \in Span(i)
      BY <1>2
    <3>2. f \in g .. g + t - 1 /\ f + s - 1 \in g .. g + t - 1
      BY <1>2, <1>6, <3>1 DEF Under
    <3> QED BY <3>2
  <2>3. t = s
    BY <1>4, <1>6, <2>2
  <2> QED BY <1>5, <1>6, <2>3
<1>7. ASSUME Under(k, i), k # i PROVE k > i /\ 2 * t <= s /\ i \in Inner
  <2>1. t # s /\ t <= s
    BY <1>4, <1>5, <1>7
  <2>2. k > i
    <3>1. NodeSize[k] <= NodeSize[i] /\ NodeSize[k] # NodeSize[i]
      BY <1>2, <2>1
    <3> QED BY <3>1, SpansNest
  <2>3. 2 * t <= s
    <3>1. t < s /\ t \in Powers /\ s \in Powers
      BY <1>1, <1>2, <2>1
    <3> QED BY <3>1, PowersHold
  <2>4. i \in Inner
    <3>1. s > 1
      BY <2>3
    <3>2. NodeSize[i] > 1
      BY <1>2, <3>1
    <3> QED BY <3>2, NodePages
  <2> QED BY <2>2, <2>3, <2>4
<1>8. Under(i, i)
  BY DEF Under
<1>9. Under(k, i) => t <= s
  BY <1>4
<1> QED BY <1>2, <1>3, <1>4, <1>5, <1>6, <1>7, <1>8, <1>9

\* The children of an inner node share its pages.
LEMMA Children ==
  ASSUME NEW i \in Inner
  PROVE  /\ i \in Nodes /\ Left(i) \in Nodes /\ Right(i) \in Nodes
         /\ NodeSize[i] = 2 * NodeSize[Left(i)] /\ NodeSize[Right(i)] = NodeSize[Left(i)]
         /\ FirstPage(Left(i)) = FirstPage(i)
         /\ FirstPage(Right(i)) = FirstPage(i) + NodeSize[Left(i)]
         /\ Under(Left(i), i) /\ Under(Right(i), i) /\ Apart(Left(i), Right(i))
         /\ Span(i) = Span(Left(i)) \cup Span(Right(i))
<1> DEFINE l == Left(i)
           r == Right(i)
<1>1. i \in Nodes /\ l \in Nodes /\ r \in Nodes /\ i \in Nat /\ l > i /\ r > i /\ Parent(l) = i /\ Parent(r) = i
  BY Family
<1>2. l + 1 = 2 * (i + 1) /\ r + 1 = 2 * (i + 1) + 1 /\ l # 0 /\ r # 0
  BY <1>1 DEF Left, Right
<1>3. NodeSize[l] = NodeSize[i] \div 2 /\ NodeSize[r] = NodeSize[i] \div 2
  <2> HIDE DEF l, r
  <2> QED BY <1>1, <1>2, NodeSizeIs
<1>4. NodeSize[i] \in Powers /\ NodeSize[i] > 1
  BY <1>1, NodePages
<1>5. NodeSize[i] = 2 * (NodeSize[i] \div 2) /\ NodeSize[i] \div 2 \in Nat
  BY <1>4, PowersHold
<1>6. PICK s \in Nat \ {0}, f \in Nat, n \in Nat, j \in Nat :
         /\ s = NodeSize[l] /\ NodeSize[r] = s /\ NodeSize[i] = 2 * s /\ f = FirstPage(i)
         /\ n = Size /\ j = i + 1
  <2> HIDE DEF l, r
  <2> QED BY <1>1, <1>3, <1>4, <1>5, NodePages, SizeIs
<1>7. f = j * (2 * s) - n
  BY <1>6 DEF FirstPage
<1>8. FirstPage(l) = (2 * j) * s - n /\ FirstPage(r) = (2 * j + 1) * s - n
  <2>1. l + 1 = 2 * j /\ r + 1 = 2 * j + 1
    BY <1>2, <1>6
  <2> HIDE DEF l, r
  <2> QED BY <1>6, <2>1 DEF FirstPage
<1>9. (2 * j) * s = j * (2 * s) /\ (2 * j + 1) * s = (2 * j) * s + s /\ j * (2 * s) \in Nat
  OBVIOUS
<1>10. FirstPage(l) = f /\ FirstPage(r) = f + s
  BY <1>6, <1>7, <1>8, <1>9
<1>11. Span(l) = f .. f + s - 1 /\ Span(r) = f + s .. f + s + s - 1 /\ Span(i) = f .. f + 2 * s - 1
  BY <1>6, <1>10 DEF Span
<1>12. Under(l, i) /\ Under(r, i) /\ Apart(l, r) /\ Span(i) = Span(l) \cup Span(r)
  <2> HIDE DEF l, r
  <2> QED BY <1>11 DEF Under, Apart
<1> QED BY <1>1, <1>6, <1>10, <1>12

\* What is under a node is the node itself or under one of its children.
LEMMA UnderChild ==
  ASSUME NEW i \in Nodes, NEW k \in Nodes, Under(k, i), k # i
  PROVE  i \in Inner /\ (Under(k, Left(i)) \/ Under(k, Right(i)))
<1>1. i \in Inner /\ 2 * NodeSize[k] <= NodeSize[i]
  BY UnderOrApart
<1>2. Left(i) \in Nodes /\ Right(i) \in Nodes /\ NodeSize[i] = 2 * NodeSize[Left(i)]
      /\ NodeSize[Right(i)] = NodeSize[Left(i)] /\ Span(i) = Span(Left(i)) \cup Span(Right(i))
  BY <1>1, Children
<1>3. NodeSize[k] <= NodeSize[Left(i)] /\ NodeSize[k] <= NodeSize[Right(i)]
  <2>1. NodeSize[k] \in Nat /\ NodeSize[Left(i)] \in Nat
    BY <1>2, NodePages
  <2> QED BY <1>1, <1>2, <2>1
<1>4. Under(k, Left(i)) \/ Apart(k, Left(i))
  BY <1>2, <1>3, SpansNest DEF Under, Apart
<1>5. Under(k, Right(i)) \/ Apart(k, Right(i))
  BY <1>2, <1>3, SpansNest DEF Under, Apart
<1>6. FirstPage(k) \in Span(k) /\ FirstPage(k) \in Span(i)
  BY NodePages DEF Under
<1> QED BY <1>1, <1>2, <1>4, <1>5, <1>6 DEF Apart

\* The parent of a node that is under another one is under it too.
LEMMA UnderParent ==
  ASSUME NEW i \in Nodes, NEW k \in Nodes, Under(k, i), k # i
  PROVE  k # 0 /\ Parent(k) \in Nodes /\ Under(Parent(k), i) /\ Parent(k) < k
<1>1. k > i /\ i \in Nat /\ k \in Nat
  BY UnderOrApart, Family
<1>2. k # 0
  BY <1>1
<1> DEFINE j == Parent(k)
<1>3. j \in Inner /\ j \in Nodes /\ j < k /\ (k = Left(j) \/ k = Right(j))
  BY <1>2, Family
<1> HIDE DEF j
<1>4. Under(k, j) /\ Left(j) \in Nodes /\ Right(j) \in Nodes /\ Apart(Left(j), Right(j))
  BY <1>3, Children
<1>5. ~ Apart(i, j)
  <2>1. FirstPage(k) \in Span(k)
    BY NodePages
  <2> QED BY <2>1, <1>4 DEF Under, Apart
<1>6. Under(i, j) /\ i # j => FALSE
  <2> SUFFICES ASSUME Under(i, j), i # j PROVE FALSE
    OBVIOUS
  <2>1. Under(i, Left(j)) \/ Under(i, Right(j))
    BY <1>3, UnderChild
  <2>2. FirstPage(k) \in Span(k) /\ FirstPage(k) \in Span(i)
    BY NodePages DEF Under
  <2>3. Under(i, k)
    BY <1>3, <1>4, <2>1, <2>2 DEF Under, Apart
  <2> QED BY <2>3, UnderOrApart
<1>7. Under(j, i) \/ Under(i, j) \/ Apart(i, j)
  BY <1>3, UnderOrApart
<1>8. Under(j, i)
  BY <1>5, <1>6, <1>7 DEF Under
<1> QED BY <1>2, <1>3, <1>8 DEF j

-----------------------------------------------------------------------------
(***************************************************************************)
(* The runs of the allocator are nodes.                                    *)
(***************************************************************************)
\* Quotient and remainder are the only ones.
LEMMA DivMod ==
  ASSUME NEW d \in Nat \ {0}, NEW q \in Nat, NEW r \in 0 .. d - 1
  PROVE  (q * d + r) \div d = q /\ (q * d + r) % d = r
<1>1. PICK x \in Nat : x = q * d + r
  OBVIOUS
<1>2. PICK k \in Int, m \in 0 .. d - 1 : k = x \div d /\ m = x % d /\ x = d * k + m
  OBVIOUS
<1>3. k <= q
  <2> SUFFICES ASSUME k >= q + 1 PROVE FALSE
    OBVIOUS
  <2>1. d * k >= d * (q + 1)
    OBVIOUS
  <2> QED BY <2>1, <1>1, <1>2
<1>4. k >= q
  <2> SUFFICES ASSUME k + 1 <= q PROVE FALSE
    OBVIOUS
  <2>1. d * (k + 1) <= d * q
    OBVIOUS
  <2> QED BY <2>1, <1>1, <1>2
<1> QED BY <1>1, <1>2, <1>3, <1>4

LEMMA Quotient ==
  ASSUME NEW n \in Nat, NEW d \in Nat \ {0}
  PROVE  /\ n \div d \in Nat /\ n % d \in 0 .. d - 1 /\ n = (n \div d) * d + (n % d)
         /\ n < d => n \div d = 0
<1>1. PICK k \in Int, m \in 0 .. d - 1 : k = n \div d /\ m = n % d /\ n = d * k + m
  OBVIOUS
<1>2. k >= 0
  <2> SUFFICES ASSUME k <= -1 PROVE FALSE
    OBVIOUS
  <2>1. d * k <= d * (-1)
    OBVIOUS
  <2> QED BY <2>1, <1>1
<1>3. n < d => k = 0
  <2> SUFFICES ASSUME n < d, k >= 1 PROVE FALSE
    BY <1>2
  <2>1. d * k >= d * 1
    OBVIOUS
  <2> QED BY <2>1, <1>1
<1>4. d * k = k * d
  OBVIOUS
<1> QED BY <1>1, <1>2, <1>3, <1>4

\* A node starts at a multiple of its size.
LEMMA NodesAligned == \A k \in Nodes : FirstPage(k) % NodeSize[k] = 0
<1> SUFFICES ASSUME NEW k \in Nodes PROVE FirstPage(k) % NodeSize[k] = 0
  OBVIOUS
<1>1. PICK q \in Nat \ {0} : InLevel(k, q)
  BY EveryNodeInLevel
<1>2. PICK a \in Nat, s \in Nat \ {0} : s = NodeSize[k] /\ FirstPage(k) = a * s
  <2>1. NodeSize[k] \in Nat \ {0}
    BY NodePages
  <2>2. FirstPage(k) = (k + 1 - q) * NodeSize[k] /\ k + 1 - q \in Nat
    BY <1>1, PlaceInLevel
  <2> QED BY <2>1, <2>2
<1>3. (a * s + 0) % s = 0 /\ a * s + 0 = a * s
  <2>1. 0 \in 0 .. s - 1
    OBVIOUS
  <2> QED BY <2>1, DivMod
<1> QED BY <1>2, <1>3

\* A run that starts at a multiple of its size is a node.
LEMMA RunIsNode ==
  ASSUME NEW m \in Powers, m <= Size, NEW p \in Pages, p % m = 0
  PROVE  \E k \in Nodes : NodeSize[k] = m /\ FirstPage(k) = p
<1>1. m \in Nat \ {0} /\ p \in Nat /\ p < Size
  BY PowersHold, SizeIs DEF Pages
<1>2. PICK q \in Nat \ {0}, n \in Nat : n = Size /\ n = q * m
  <2>1. Size \in Powers /\ Size \in Nat
    BY SizeIs
  <2>2. \E q \in Nat \ {0} : Size = q * m
    BY <2>1, PowersHold
  <2> QED BY <2>1, <2>2
<1>3. PICK c \in Nat : p = c * m
  <2>1. p = (p \div m) * m + (p % m) /\ p \div m \in Nat
    BY <1>1, Quotient
  <2>2. PICK c \in Nat : c = p \div m
    BY <2>1
  <2>3. p = c * m + 0
    BY <2>1, <2>2
  <2>4. c * m \in Nat
    BY <1>1
  <2> QED BY <2>3, <2>4
<1>4. c < q
  <2> SUFFICES ASSUME c >= q PROVE FALSE
    OBVIOUS
  <2>1. c * m >= q * m
    BY <1>1
  <2> QED BY <2>1, <1>1, <1>2, <1>3
<1>5. q <= n
  <2>1. q * m >= q * 1
    BY <1>1
  <2> QED BY <1>2, <2>1
<1>6. PICK k \in Nat : k = q + c - 1 /\ k \in Nodes
  BY <1>2, <1>4, <1>5 DEF Nodes
<1>7. PICK h \in Nat \ {0} : InLevel(k, h)
  BY <1>6, EveryNodeInLevel
<1>8. PICK t \in Nat \ {0} : t = NodeSize[k] /\ t \in Powers /\ h * t = n /\ h <= q + c /\ q + c < 2 * h
  <2>1. NodeSize[k] \in Nat \ {0} /\ NodeSize[k] \in Powers
    BY <1>6, NodePages
  <2>2. k + 1 = q + c
    BY <1>6
  <2> QED BY <1>2, <1>7, <2>1, <2>2 DEF InLevel
<1>9. ~ (t < m)
  <2> SUFFICES ASSUME 2 * t <= m PROVE FALSE
    BY <1>1, <1>8, PowersHold
  <2>1. q * m >= q * (2 * t)
    BY <1>1
  <2>2. q * (2 * t) = (2 * q) * t
    OBVIOUS
  <2>3. h < 2 * q => h * t < (2 * q) * t
    <3>1. h + 1 <= 2 * q => (h + 1) * t <= (2 * q) * t
      OBVIOUS
    <3>2. (h + 1) * t = h * t + t
      OBVIOUS
    <3>3. (2 * q) * t \in Nat
      OBVIOUS
    <3> QED BY <3>1, <3>2, <3>3
  <2> QED BY <1>1, <1>2, <1>4, <1>8, <2>1, <2>2, <2>3
<1>10. ~ (m < t)
  <2> SUFFICES ASSUME 2 * m <= t PROVE FALSE
    BY <1>1, <1>8, PowersHold
  <2>1. h * t >= h * (2 * m)
    BY <1>1
  <2>2. h * (2 * m) = (2 * h) * m
    BY <1>1
  <2>3. q < 2 * h => q * m < (2 * h) * m
    <3>1. q + 1 <= 2 * h => (q + 1) * m <= (2 * h) * m
      BY <1>1
    <3>2. (q + 1) * m = q * m + m
      BY <1>1
    <3>3. (2 * h) * m \in Nat /\ q * m \in Nat
      BY <1>1
    <3> QED BY <1>1, <3>1, <3>2, <3>3
  <2>4. h * t \in Nat /\ (2 * h) * m \in Nat
    BY <1>1
  <2> QED BY <1>1, <1>2, <1>4, <1>8, <2>1, <2>2, <2>3, <2>4
<1>11. t = m
  BY <1>1, <1>9, <1>10
<1>12. h = q
  <2>1. ~ (h < q)
    <3>1. h + 1 <= q => (h + 1) * m <= q * m
      BY <1>1
    <3>2. (h + 1) * m = h * m + m /\ h * m = n
      BY <1>1, <1>8, <1>11
    <3> QED BY <1>1, <1>2, <3>1, <3>2
  <2>2. ~ (q < h)
    <3>1. q + 1 <= h => (q + 1) * m <= h * m
      BY <1>1
    <3>2. (q + 1) * m = q * m + m /\ h * m = n
      BY <1>1, <1>8, <1>11
    <3> QED BY <1>1, <1>2, <3>1, <3>2
  <2> QED BY <2>1, <2>2
<1>13. FirstPage(k) = (k + 1 - q) * m /\ k + 1 - q = c
  <2>1. FirstPage(k) = (k + 1 - h) * NodeSize[k]
    BY <1>6, <1>7, PlaceInLevel
  <2>2. k + 1 - q = c
    BY <1>6
  <2> QED BY <1>8, <1>11, <1>12, <2>1, <2>2
<1> QED BY <1>3, <1>6, <1>8, <1>11, <1>13

\* The sizes of nodes are the powers of two up to that of the tree.
LEMMA NodeSizesAre == NodeSizes = {m \in Powers : m <= Size}
<1>1. \A i \in Nodes : NodeSize[i] \in {m \in Powers : m <= Size}
  BY NodePages
<1>2. ASSUME NEW m \in Powers, m <= Size PROVE \E k \in Nodes : NodeSize[k] = m
  <2>1. m \in Nat \ {0} /\ 0 \in Pages
    BY PowersHold, SizeIs DEF Pages
  <2>2. 0 % m = 0
    BY <2>1, Quotient
  <2> QED BY <1>2, <2>1, <2>2, RunIsNode
<1> QED BY <1>1, <1>2 DEF NodeSizes

-----------------------------------------------------------------------------
(***************************************************************************)
(* The rounding of a request, bit by bit.                                  *)
(***************************************************************************)
LEMMA BitOf ==
  ASSUME NEW n \in Nat, NEW k \in 0 .. Width - 1
  PROVE  /\ k \in Bits(n) <=> (n \div Pow2[k]) % 2 = 1
         /\ n < Pow2[k] => k \notin Bits(n)
         /\ Pow2[k] <= n /\ n < Pow2[k + 1] => k \in Bits(n)
<1>1. PICK a \in Nat \ {0} : a = Pow2[k] /\ Pow2[k + 1] = 2 * a
  <2>1. k \in 0 .. Width
    BY DEF Width
  <2> QED BY <2>1, Pow2Step
<1>2. k \in Bits(n) <=> (n \div a) % 2 = 1
  BY <1>1 DEF Bits
<1>3. n < a => n \div a = 0
  BY Quotient
<1>4. ASSUME a <= n, n < 2 * a PROVE n \div a = 1
  <2>1. PICK r \in 0 .. a - 1 : n = 1 * a + r
    <3>1. n - a \in 0 .. a - 1 /\ n = 1 * a + (n - a)
      BY <1>4
    <3> QED BY <3>1
  <2> QED BY <2>1, DivMod
<1> QED BY <1>1, <1>2, <1>3, <1>4

\* The highest bit of a number.
LEMMA HighestBit ==
  ASSUME NEW n \in Nat \ {0}, n < Pow2[Width]
  PROVE  \E h \in 0 .. Width - 1 : Pow2[h] <= n /\ n < Pow2[h + 1]
<1> DEFINE S == {k \in 0 .. Width : n < Pow2[k]}
<1>1. Width \in Nat
  BY DEF Width
<1>2. S # {} /\ S \in SUBSET Nat
  BY <1>1
<1>3. PICK k \in S : \A y \in S : k <= y
  <2> HIDE DEF S
  <2> QED BY <1>2, LeastElement
<1>4. k \in 0 .. Width /\ n < Pow2[k] /\ k # 0
  BY <1>3, Pow2Step
<1>5. k - 1 \in 0 .. Width - 1 /\ k - 1 \in 0 .. Width /\ k - 1 + 1 = k
  BY <1>1, <1>4
<1>6. k - 1 \notin S
  <2> HIDE DEF S
  <2> QED BY <1>3, <1>4, <1>5
<1>7. ~ (n < Pow2[k - 1]) /\ Pow2[k - 1] \in Nat
  BY <1>5, <1>6, Pow2Step
<1> QED BY <1>4, <1>5, <1>7

\* Numbers with the same bits are the same.
LEMMA BitsDetermine ==
  ASSUME NEW x \in Nat, NEW y \in Nat, x < Pow2[Width], y < Pow2[Width], Bits(x) = Bits(y)
  PROVE  x = y
<1> DEFINE Same(k) == x \div Pow2[k] = y \div Pow2[k]
           Bad == {i \in 0 .. Width : ~ Same(Width - i)}
<1>1. Width \in Nat /\ Width - 0 = Width
  BY DEF Width
<1>2. SUFFICES ASSUME Bad # {} PROVE FALSE
  <2>1. Same(Width - Width)
    BY <1>1, <1>2
  <2>2. x \div 1 = y \div 1
    BY <1>1, <2>1, Pow2Step
  <2>3. x = (x \div 1) * 1 + (x % 1) /\ x % 1 \in 0 .. 0 /\ y = (y \div 1) * 1 + (y % 1) /\ y % 1 \in 0 .. 0
    <3>1. 1 \in Nat \ {0} /\ 0 .. 1 - 1 = 0 .. 0
      OBVIOUS
    <3> QED BY <3>1, Quotient
  <2> QED BY <2>2, <2>3
<1>3. PICK i \in Bad : \A z \in Bad : i <= z
  <2>1. Bad \in SUBSET Nat
    BY <1>1
  <2> HIDE DEF Bad
  <2> QED BY <1>2, <2>1, LeastElement
<1>4. i \in 0 .. Width /\ ~ Same(Width - i)
  BY <1>3
<1>5. i # 0
  <2>1. x \div Pow2[Width] = 0 /\ y \div Pow2[Width] = 0
    <3>1. Pow2[Width] \in Nat \ {0}
      BY <1>1, Pow2Step
    <3> QED BY <3>1, Quotient
  <2> QED BY <1>1, <1>4, <2>1
<1> DEFINE k == Width - i
<1>6. k \in 0 .. Width - 1 /\ k + 1 = Width - (i - 1) /\ i - 1 \in 0 .. Width /\ k \in 0 .. Width
  BY <1>1, <1>4, <1>5
<1>7. i - 1 \notin Bad
  <2> HIDE DEF Bad
  <2> QED BY <1>3, <1>4, <1>6
<1>8. Same(k + 1)
  BY <1>6, <1>7
<1> HIDE DEF k
<1>9. PICK a \in Nat \ {0} : a = Pow2[k] /\ Pow2[k + 1] = 2 * a
  BY <1>6, Pow2Step
<1>10. ASSUME NEW n \in Nat
       PROVE  n \div a = 2 * (n \div (2 * a)) + ((n \div a) % 2)
  <2>1. PICK c \in Nat, r \in 0 .. a - 1 : c = n \div a /\ n = c * a + r
    BY Quotient
  <2>2. PICK d \in Nat, b \in 0 .. 1 : d = c \div 2 /\ b = c % 2 /\ c = d * 2 + b
    OBVIOUS
  <2>3. c * a = d * (2 * a) + b * a
    BY <2>2
  <2>4. b * a + r \in 0 .. 2 * a - 1
    <3>1. b = 0 \/ b = 1
      BY <2>2
    <3>2. 0 * a = 0 /\ 1 * a = a
      OBVIOUS
    <3> QED BY <2>1, <3>1, <3>2
  <2>5. n = d * (2 * a) + (b * a + r)
    BY <2>1, <2>3
  <2>6. n \div (2 * a) = d
    <3>1. PICK m \in 0 .. 2 * a - 1 : m = b * a + r
      BY <2>4
    <3>2. PICK e \in Nat \ {0} : e = 2 * a
      OBVIOUS
    <3>3. (d * e + m) \div e = d
      BY <3>1, <3>2, DivMod
    <3> QED BY <2>5, <3>1, <3>2, <3>3
  <2> QED BY <2>1, <2>2, <2>6
<1>11. (x \div a) % 2 = (y \div a) % 2
  <2>1. (x \div a) % 2 \in 0 .. 1 /\ (y \div a) % 2 \in 0 .. 1
    <3>1. x \div a \in Nat /\ y \div a \in Nat
      BY Quotient
    <3> QED BY <3>1
  <2>2. (x \div a) % 2 = 1 <=> (y \div a) % 2 = 1
    BY <1>6, <1>9, BitOf
  <2> QED BY <2>1, <2>2
<1>12. x \div (2 * a) = y \div (2 * a)
  BY <1>8, <1>9
<1>13. x \div a = y \div a
  BY <1>10, <1>11, <1>12
<1> QED BY <1>4, <1>9, <1>13 DEF k

\* The number whose bits are all those up to bit h.
LEMMA AllOnes ==
  ASSUME NEW h \in 0 .. Width - 1
  PROVE  Pow2[h + 1] - 1 \in Nat /\ Bits(Pow2[h + 1] - 1) = 0 .. h
<1>1. h + 1 \in 0 .. Width /\ Pow2[h + 1] \in Nat \ {0} /\ Width \in Nat /\ h \in Nat
  BY Pow2Step DEF Width
<1>2. PICK n \in Nat : n = Pow2[h + 1] - 1
  BY <1>1
<1>3. ASSUME NEW k \in 0 .. Width - 1, k > h PROVE k \notin Bits(n)
  <2>1. k \in 0 .. Width /\ k \in Nat
    BY <1>1
  <2>2. Pow2[h + 1] <= Pow2[k]
    <3>1. h + 1 < k \/ h + 1 = k
      BY <1>1, <1>3, <2>1
    <3>2. h + 1 < k => 2 * Pow2[h + 1] <= Pow2[k]
      BY <1>1, <2>1, PowersOrdered
    <3>3. Pow2[k] \in Nat
      BY <2>1, Pow2Step
    <3> QED BY <1>1, <3>1, <3>2, <3>3
  <2>3. n < Pow2[k]
    BY <1>1, <1>2, <2>1, <2>2, Pow2Step
  <2> QED BY <2>3, BitOf
<1>4. ASSUME NEW k \in 0 .. Width - 1, k <= h PROVE k \in Bits(n)
  <2>1. k \in 0 .. Width /\ k < h + 1
    BY <1>1, <1>4
  <2>2. PICK r \in Nat \ {0} : Pow2[h + 1] = (2 * r) * Pow2[k]
    BY <1>1, <2>1, PowersOrdered
  <2>3. PICK a \in Nat \ {0} : a = Pow2[k]
    BY <2>1, Pow2Step
  <2>4. PICK c \in Nat : c = 2 * r - 1
    OBVIOUS
  <2>5. (2 * r) * a = c * a + a
    BY <2>4
  <2>6. n = c * a + (a - 1)
    <3>1. c * a \in Nat
      OBVIOUS
    <3> QED BY <1>2, <2>2, <2>3, <2>5, <3>1
  <2>7. n \div a = c
    <3>1. a - 1 \in 0 .. a - 1
      OBVIOUS
    <3> QED BY <2>6, <3>1, DivMod
  <2>8. c % 2 = 1
    <3>1. r - 1 \in Nat /\ c = (r - 1) * 2 + 1 /\ 1 \in 0 .. 2 - 1 /\ 2 \in Nat \ {0}
      BY <2>4
    <3> QED BY <3>1, DivMod
  <2> QED BY <2>3, <2>7, <2>8, BitOf
<1>5. Bits(n) = 0 .. h
  <2>1. Bits(n) \subseteq 0 .. Width - 1
    BY DEF Bits
  <2>2. ASSUME NEW k \in 0 .. Width - 1 PROVE k \in Bits(n) <=> k \in 0 .. h
    <3>1. k <= h \/ k > h
      BY <1>1
    <3> QED BY <1>1, <1>3, <1>4, <3>1
  <2>3. 0 .. h \subseteq 0 .. Width - 1
    BY <1>1
  <2> QED BY <2>1, <2>2, <2>3
<1> QED BY <1>2, <1>5

\* Or-ing a number with its shifts sets every bit below the highest one.
LEMMA ShiftsFill ==
  ASSUME NEW B, NEW h \in 0 .. Width - 1, B \subseteq 0 .. h, NEW w \in Nat,
         \A j \in 0 .. w - 1 : j <= h => h - j \in B
  PROVE  /\ OrShifted(B, w) \subseteq 0 .. h
         /\ \A j \in 0 .. 2 * w - 1 : j <= h => h - j \in OrShifted(B, w)
<1>1. Width \in Nat /\ h \in Nat
  BY DEF Width
<1>2. OrShifted(B, w) \subseteq 0 .. h
  <2>1. ASSUME NEW k \in 0 .. Width - 1, k + w \in B PROVE k \in 0 .. h
    <3>1. k + w \in 0 .. h
      BY <2>1
    <3> QED BY <1>1, <3>1
  <2> QED BY <2>1 DEF OrShifted
<1>3. ASSUME NEW j \in 0 .. 2 * w - 1, j <= h PROVE h - j \in OrShifted(B, w)
  <2>1. CASE j < w
    <3>1. j \in 0 .. w - 1
      BY <2>1
    <3> QED BY <1>3, <3>1 DEF OrShifted
  <2>2. CASE j >= w
    <3>1. j - w \in 0 .. w - 1 /\ j - w <= h /\ h - (j - w) = (h - j) + w /\ h - j \in 0 .. Width - 1
      BY <1>1, <1>3, <2>2
    <3> QED BY <3>1 DEF OrShifted
  <2> QED BY <2>1, <2>2
<1> QED BY <1>2, <1>3

\* fixsize makes the next power of two of a number.
LEMMA FixSizeIs ==
  ASSUME NEW n \in 2 .. Size
  PROVE  \E h \in 0 .. Width - 1 : /\ Pow2[h] <= n - 1 /\ n - 1 < Pow2[h + 1]
                                   /\ FixSize(n) = Pow2[h + 1]
<1>1. PICK t \in 0 .. Width - 1 : Size = Pow2[t]
  BY BuddyAssumption
<1>2. Width \in Nat /\ Width = 16 /\ t \in 0 .. Width /\ Width \in 0 .. Width /\ t < Width
  BY DEF Width
<1>3. Pow2[Width] \in Nat /\ Size \in Nat /\ 2 * Size <= Pow2[Width]
  BY <1>1, <1>2, Pow2Step, PowersOrdered
<1>4. PICK x \in Nat \ {0} : x = n - 1 /\ x < Pow2[Width] /\ x < Size
  BY <1>3
<1>5. PICK h \in 0 .. Width - 1 : Pow2[h] <= x /\ x < Pow2[h + 1]
  BY <1>4, HighestBit
<1>6. h \in Bits(x) /\ Bits(x) \subseteq 0 .. h
  <2>1. h \in Bits(x)
    BY <1>4, <1>5, BitOf
  <2>2. ASSUME NEW k \in 0 .. Width - 1, k > h PROVE k \notin Bits(x)
    <3>1. h + 1 \in 0 .. Width /\ k \in 0 .. Width /\ h \in Nat /\ k \in Nat
      BY <1>2
    <3>2. Pow2[h + 1] <= Pow2[k]
      <4>1. h + 1 < k \/ h + 1 = k
        BY <2>2, <3>1
      <4>2. h + 1 < k => 2 * Pow2[h + 1] <= Pow2[k]
        BY <3>1, PowersOrdered
      <4>3. Pow2[h + 1] \in Nat /\ Pow2[k] \in Nat
        BY <3>1, Pow2Step
      <4> QED BY <4>1, <4>2, <4>3
    <3>3. Pow2[h + 1] \in Nat /\ Pow2[k] \in Nat
      BY <3>1, Pow2Step
    <3>4. x < Pow2[k]
      BY <1>4, <1>5, <3>2, <3>3
    <3> QED BY <1>4, <3>4, BitOf
  <2>3. Bits(x) \subseteq 0 .. Width - 1
    BY DEF Bits
  <2> QED BY <1>2, <2>1, <2>2, <2>3
<1>7. PICK B1, B2, B3, B4, B5, B6 :
         /\ B1 = OrShifted(Bits(x), 1) /\ B2 = OrShifted(B1, 2) /\ B3 = OrShifted(B2, 4)
         /\ B4 = OrShifted(B3, 8) /\ B5 = OrShifted(B4, 16) /\ B6 = OrShifted(B5, 32)
  OBVIOUS
<1>8. FixSize(n) = WithBits(B6) + 1
  BY <1>4, <1>7, Zenon DEF FixSize
<1> DEFINE Filled(B, w) == B \subseteq 0 .. h /\ \A j \in 0 .. w - 1 : j <= h => h - j \in B
<1>9. Filled(Bits(x), 1)
  BY <1>2, <1>6
<1>10. ASSUME NEW B, NEW w \in Nat, Filled(B, w) PROVE Filled(OrShifted(B, w), 2 * w)
  BY <1>10, ShiftsFill
<1> HIDE DEF Filled
<1>11. Filled(B1, 2)
  <2>1. Filled(B1, 2 * 1)
    BY <1>7, <1>9, <1>10
  <2> QED BY <2>1
<1>12. Filled(B2, 4)
  <2>1. Filled(B2, 2 * 2)
    BY <1>7, <1>10, <1>11
  <2> QED BY <2>1
<1>13. Filled(B3, 8)
  <2>1. Filled(B3, 2 * 4)
    BY <1>7, <1>10, <1>12
  <2> QED BY <2>1
<1>14. Filled(B4, 16)
  <2>1. Filled(B4, 2 * 8)
    BY <1>7, <1>10, <1>13
  <2> QED BY <2>1
<1>15. Filled(B5, 32)
  <2>1. Filled(B5, 2 * 16)
    BY <1>7, <1>10, <1>14
  <2> QED BY <2>1
<1>16. Filled(B6, 64)
  <2>1. Filled(B6, 2 * 32)
    BY <1>7, <1>10, <1>15
  <2> QED BY <2>1
<1>17. B6 = 0 .. h
  <2>1. ASSUME NEW k \in 0 .. h PROVE k \in B6
    <3>1. h - k \in 0 .. 64 - 1 /\ h - k <= h /\ h - (h - k) = k
      BY <1>2
    <3> QED BY <1>16, <3>1 DEF Filled
  <2> QED BY <1>16, <2>1 DEF Filled
<1>18. PICK m \in Nat : m = Pow2[h + 1] - 1 /\ Bits(m) = B6
  BY <1>17, AllOnes
<1>19. h + 1 \in 0 .. Width /\ h \in 0 .. Width /\ Pow2[h + 1] = 2 * Pow2[h] /\ Pow2[h] \in Nat \ {0}
  BY <1>2, Pow2Step
<1>20. m < 2 * Size
  BY <1>3, <1>4, <1>5, <1>18, <1>19
<1>21. WithBits(B6) = m
  <2>1. m \in 0 .. 2 * Size - 1
    BY <1>3, <1>20
  <2>2. ASSUME NEW y \in 0 .. 2 * Size - 1, Bits(y) = B6 PROVE y = m
    BY <1>3, <1>18, <1>20, <2>2, BitsDetermine
  <2> QED BY <1>18, <2>1, <2>2, Zenon DEF WithBits
<1>22. FixSize(n) = Pow2[h + 1]
  BY <1>8, <1>18, <1>19, <1>21
<1> QED BY <1>4, <1>5, <1>22

\* A request is rounded to the least size of a node that suffices.
LEMMA RoundedIs ==
  ASSUME NEW n \in 0 .. Size
  PROVE  Rounded(n) \in NodeSizes /\ n <= Rounded(n) /\ \A m \in NodeSizes : n <= m => Rounded(n) <= m
<1>1. Size \in Nat \ {0} /\ n \in Nat /\ NodeSizes = {m \in Powers : m <= Size} /\ NodeSizes \subseteq Nat \ {0}
  <2>1. \A m \in Powers : m \in Nat \ {0}
    BY PowersHold
  <2>2. Size \in Nat \ {0} /\ n \in Nat
    BY SizeIs
  <2>3. NodeSizes = {m \in Powers : m <= Size}
    BY NodeSizesAre
  <2>4. NodeSizes \subseteq Nat \ {0}
    BY <2>1, <2>3
  <2> QED BY <2>2, <2>3, <2>4
<1>2. PICK t \in 0 .. Width - 1 : Size = Pow2[t]
  BY BuddyAssumption
<1>3. Width \in Nat /\ t \in 0 .. Width /\ Width \in 0 .. Width /\ t < Width
  BY DEF Width
<1>4. CASE n = 0
  <2>1. Rounded(n) = 1
    BY <1>4 DEF Rounded
  <2>2. 1 \in Powers
    BY SizeIs, PowersHold
  <2> QED BY <1>1, <1>4, <2>1, <2>2
<1>5. CASE n # 0 /\ IsPowerOf2(n)
  <2>1. Rounded(n) = n
    BY <1>5 DEF Rounded
  <2>2. Size < Pow2[Width] /\ Pow2[Width] \in Nat
    BY <1>2, <1>3, PowersOrdered, Pow2Step
  <2>3. n \in Nat \ {0} /\ n < Pow2[Width]
    BY <1>1, <1>5, <2>2
  <2>4. PICK h \in 0 .. Width - 1 : Pow2[h] <= n /\ n < Pow2[h + 1]
    BY <2>3, HighestBit
  <2>5. Pow2[h] \in Nat /\ Pow2[h + 1] \in Nat
    <3>1. h \in 0 .. Width /\ h + 1 \in 0 .. Width
      BY <1>3
    <3> QED BY <3>1, Pow2Step
  <2>6. n = Pow2[h]
    <3> SUFFICES ASSUME Pow2[h] <= n - 1 PROVE FALSE
      BY <1>1, <2>4, <2>5
    <3>1. n - 1 \in Nat /\ n - 1 < Pow2[h + 1]
      BY <2>3, <2>4, <2>5
    <3>2. h \in Bits(n) /\ h \in Bits(n - 1)
      BY <1>1, <2>4, <3>1, BitOf
    <3> QED BY <1>5, <3>2 DEF IsPowerOf2
  <2>7. n \in Powers
    BY <2>6 DEF Powers
  <2> QED BY <1>1, <2>1, <2>7
<1>6. CASE n # 0 /\ ~ IsPowerOf2(n)
  <2>1. Rounded(n) = FixSize(n)
    BY <1>6 DEF Rounded
  <2>2. n # 1
    <3>1. \A k \in 0 .. Width - 1 : k \notin Bits(0)
      <4>1. \A k \in 0 .. Width - 1 : Pow2[k] \in Nat \ {0} /\ 0 < Pow2[k] /\ 0 \in Nat
        BY <1>3, Pow2Step
      <4> QED BY <4>1, BitOf
    <3>2. Bits(0) = {}
      BY <3>1 DEF Bits
    <3> QED BY <1>6, <3>2 DEF IsPowerOf2
  <2>3. n \in 2 .. Size
    BY <1>1, <1>6, <2>2
  <2>4. PICK h \in 0 .. Width - 1 : Pow2[h] <= n - 1 /\ n - 1 < Pow2[h + 1] /\ FixSize(n) = Pow2[h + 1]
    BY <2>3, FixSizeIs
  <2>5. h \in 0 .. Width /\ h + 1 \in 0 .. Width /\ h \in Nat
    BY <1>3
  <2>6. Pow2[h] \in Nat /\ Pow2[h + 1] \in Nat /\ Pow2[h] < n /\ n <= Pow2[h + 1]
    BY <1>1, <2>3, <2>4, <2>5, Pow2Step
  <2>7. ASSUME NEW j \in 0 .. Width - 1, n <= Pow2[j] PROVE h < j /\ Pow2[h + 1] <= Pow2[j]
    <3>1. j \in 0 .. Width /\ Pow2[j] \in Nat
      BY <1>3, Pow2Step
    <3>2. Pow2[h] < Pow2[j]
      BY <1>1, <2>6, <2>7, <3>1
    <3>3. h < j
      BY <2>5, <3>1, <3>2, PowersOrdered
    <3>4. h + 1 = j \/ h + 1 < j
      BY <2>5, <3>1, <3>3
    <3>5. h + 1 < j => 2 * Pow2[h + 1] <= Pow2[j]
      BY <2>5, <3>1, PowersOrdered
    <3> QED BY <2>6, <3>1, <3>3, <3>4, <3>5
  <2>8. h < t /\ Pow2[h + 1] <= Size
    BY <1>2, <2>3, <2>7
  <2>9. Pow2[h + 1] \in Powers
    <3>1. h + 1 \in 0 .. Width - 1
      BY <1>3, <2>5, <2>8
    <3> QED BY <3>1 DEF Powers
  <2>10. \A m \in NodeSizes : n <= m => Pow2[h + 1] <= m
    BY <1>1, <2>7 DEF Powers
  <2> QED BY <1>1, <2>1, <2>4, <2>6, <2>8, <2>9, <2>10
<1> QED BY <1>4, <1>5, <1>6

-----------------------------------------------------------------------------
(***************************************************************************)
(* The walks over the tree.                                                *)
(***************************************************************************)
Rises(S, z, I, G) ==
  \E f \in [Nodes -> S] :
    \A i \in Nodes : f[i] = IF i \in I THEN G[<<i, f[Left(i)], f[Right(i)]>>] ELSE z[i]

\* A value for every node, from those of its children.
LEMMA FromChildren ==
  ASSUME NEW S, NEW z \in [Nodes -> S], NEW I \in SUBSET Inner,
         NEW G \in [Nodes \X S \X S -> S]
  PROVE  Rises(S, z, I, G)
<1> DEFINE N == 2 * Size - 1
           Follows(f, n) == \A i \in Nodes : i >= N - n =>
             f[i] = IF i \in I THEN G[<<i, f[Left(i)], f[Right(i)]>>] ELSE z[i]
           Bad == {n \in 0 .. N : ~ \E f \in [Nodes -> S] : Follows(f, n)}
<1>1. N \in Nat /\ Nodes = 0 .. N - 1
  BY SizeIs DEF Nodes
<1>2. SUFFICES ASSUME Bad # {} PROVE FALSE
  <2>1. N \in 0 .. N /\ N \notin Bad /\ N - N = 0 /\ \A i \in Nodes : i >= 0
    BY <1>1, <1>2
  <2>2. PICK f \in [Nodes -> S] : Follows(f, N)
    BY <2>1
  <2>3. \A i \in Nodes : f[i] = IF i \in I THEN G[<<i, f[Left(i)], f[Right(i)]>>] ELSE z[i]
    <3> HIDE DEF N
    <3> QED BY <2>1, <2>2
  <2> QED BY <2>3 DEF Rises
<1>3. PICK n \in Bad : \A y \in Bad : n <= y
  <2>1. Bad \in SUBSET Nat
    BY <1>1
  <2> HIDE DEF Bad
  <2> QED BY <1>2, <2>1, LeastElement
<1>4. n \in 0 .. N /\ ~ \E f \in [Nodes -> S] : Follows(f, n)
  BY <1>3
<1>5. n # 0
  <2>1. Follows(z, 0)
    BY <1>1
  <2> HIDE DEF Follows
  <2> QED BY <1>4, <2>1
<1>6. n - 1 \in 0 .. N /\ n - 1 \notin Bad
  <2> HIDE DEF Bad, N
  <2> QED BY <1>1, <1>3, <1>4, <1>5
<1>7. PICK f \in [Nodes -> S] : Follows(f, n - 1)
  BY <1>6
<1> DEFINE m == N - n
           v == IF m \in I THEN G[<<m, f[Left(m)], f[Right(m)]>>] ELSE z[m]
           g == [f EXCEPT ![m] = v]
<1>8. m \in Nodes /\ N - (n - 1) = m + 1 /\ m \in Nat
  <2> HIDE DEF N
  <2> QED BY <1>1, <1>4, <1>5
<1> HIDE DEF m, N
<1>9. v \in S
  <2>1. m \in I => Left(m) \in Nodes /\ Right(m) \in Nodes
    BY Family
  <2> QED BY <1>7, <1>8, <2>1
<1> HIDE DEF v
<1>10. g \in [Nodes -> S]
  BY <1>7, <1>8, <1>9
<1>11. \A i \in Nodes : i # m => g[i] = f[i]
  BY <1>7
<1>12. g[m] = v
  BY <1>7, <1>8
<1> HIDE DEF g
<1>13. ASSUME NEW i \in Nodes, i >= m
       PROVE  g[i] = IF i \in I THEN G[<<i, g[Left(i)], g[Right(i)]>>] ELSE z[i]
  <2>1. i \in I => /\ Left(i) \in Nodes /\ Right(i) \in Nodes /\ Left(i) > i /\ Right(i) > i
                   /\ i \in Nat /\ Left(i) \in Nat /\ Right(i) \in Nat
    BY Family
  <2>2. i \in I => Left(i) # m /\ Right(i) # m
    BY <1>8, <1>13, <2>1
  <2>3. i \in I => g[Left(i)] = f[Left(i)] /\ g[Right(i)] = f[Right(i)]
    BY <1>11, <2>1, <2>2
  <2>4. CASE i = m
    BY <1>12, <2>3, <2>4 DEF v
  <2>5. CASE i # m
    <3>1. i >= N - (n - 1)
      BY <1>8, <1>13, <2>5, Family
    <3>2. f[i] = IF i \in I THEN G[<<i, f[Left(i)], f[Right(i)]>>] ELSE z[i]
      BY <1>7, <3>1
    <3> QED BY <1>11, <2>3, <2>5, <3>2
  <2> QED BY <2>4, <2>5
<1>14. Follows(g, n)
  BY <1>13 DEF m
<1> HIDE DEF Follows
<1> QED BY <1>4, <1>10, <1>14

Inherit(D, f, h) == \A i \in D : (\A c \in D : c > i => h[c] = f[c]) => h[i] = f[i]

\* What the children hand on, from the leaves up, holds of every node.
LEMMA FromLeaves ==
  ASSUME NEW D \in SUBSET Nodes, NEW f, NEW h,
         Inherit(D, f, h)
  PROVE  \A i \in D : h[i] = f[i]
<1> DEFINE N == 2 * Size - 1
           Bad == {n \in 0 .. N : N - n \in D /\ h[N - n] # f[N - n]}
<1>1. N \in Nat /\ Nodes = 0 .. N - 1
  BY SizeIs DEF Nodes
<1>2. SUFFICES ASSUME Bad # {} PROVE FALSE
  <2>1. ASSUME NEW i \in D PROVE h[i] = f[i]
    <3>1. i \in 0 .. N - 1 /\ N - i \in 0 .. N /\ N - (N - i) = i
      BY <1>1
    <3>2. N - i \notin Bad
      BY <1>2
    <3> HIDE DEF N
    <3> QED BY <3>1, <3>2
  <2> QED BY <2>1
<1>3. PICK n \in Bad : \A y \in Bad : n <= y
  <2>1. Bad \in SUBSET Nat
    BY <1>1
  <2> HIDE DEF Bad
  <2> QED BY <1>2, <2>1, LeastElement
<1>4. n \in 0 .. N /\ N - n \in D /\ h[N - n] # f[N - n]
  BY <1>3
<1>5. ASSUME NEW c \in D, c > N - n PROVE h[c] = f[c]
  <2>1. c \in 0 .. N - 1 /\ N - c \in 0 .. N /\ N - (N - c) = c /\ N - c < n
    <3> HIDE DEF N
    <3> QED BY <1>1, <1>4, <1>5
  <2>2. N - c \notin Bad
    <3> HIDE DEF Bad, N
    <3> QED BY <1>1, <1>3, <1>4, <2>1
  <2> HIDE DEF N
  <2> QED BY <2>1, <2>2
<1> HIDE DEF N
<1> QED BY <1>4, <1>5 DEF Inherit

Tree == [Nodes -> Nat]

\* The nodes on the way from node i up to the root.
LEMMA WayUp ==
  ASSUME NEW i \in Nodes, NEW k \in Nodes
  PROVE  (Span(i) \subseteq Span(k) /\ k < i) <=> (Under(i, k) /\ k # i)
<1>1. i \in Nat /\ k \in Nat
  BY Family
<1>2. Under(i, k) /\ k # i => i > k
  BY UnderOrApart
<1> QED BY <1>1, <1>2 DEF Under

\* buddy_free leaves every node above as its children make it ...
LEMMA MergedUp ==
  ASSUME NEW bm \in Tree, NEW i \in Nodes, NEW v \in Nat
  PROVE  /\ Rebuilt(bm, i, v, Merged) \in Tree /\ Rebuilt(bm, i, v, Merged)[i] = v
         /\ \A k \in Nodes :
              /\ ~ Under(i, k) => Rebuilt(bm, i, v, Merged)[k] = bm[k]
              /\ Under(i, k) /\ k # i =>
                   Rebuilt(bm, i, v, Merged)[k] =
                     Merged(NodeSize[k], Rebuilt(bm, i, v, Merged)[Left(k)], Rebuilt(bm, i, v, Merged)[Right(k)])
<1> DEFINE Eq(f) == f = [k \in Nodes |->
              IF k = i THEN v
              ELSE IF Span(i) \subseteq Span(k) /\ k < i
              THEN Merged(NodeSize[k], f[Left(k)], f[Right(k)])
              ELSE bm[k]]
           I == {k \in Nodes : Under(i, k) /\ k # i}
           z == [bm EXCEPT ![i] = v]
           G == [t \in Nodes \X Nat \X Nat |-> Merged(NodeSize[t[1]], t[2], t[3])]
<1>1. I \in SUBSET Inner /\ z \in [Nodes -> Nat] /\ z[i] = v /\ \A k \in Nodes \ {i} : z[k] = bm[k]
  BY UnderOrApart DEF Tree
<1>2. G \in [Nodes \X Nat \X Nat -> Nat]
  <2>1. ASSUME NEW k \in Nodes, NEW l \in Nat, NEW r \in Nat PROVE Merged(NodeSize[k], l, r) \in Nat
    BY NodePages DEF Merged, Larger
  <2> QED BY <2>1
<1>3. \A k \in Nodes, l \in Nat, r \in Nat : G[<<k, l, r>>] = Merged(NodeSize[k], l, r)
  OBVIOUS
<1> HIDE DEF I, z, G
<1>4. PICK f \in [Nodes -> Nat] :
         \A k \in Nodes : f[k] = IF k \in I THEN G[<<k, f[Left(k)], f[Right(k)]>>] ELSE z[k]
  <2>1. Rises(Nat, z, I, G)
    BY <1>1, <1>2, FromChildren
  <2> QED BY <2>1 DEF Rises
<1>5. ASSUME NEW k \in Nodes
      PROVE  f[k] = IF k = i THEN v
                    ELSE IF Span(i) \subseteq Span(k) /\ k < i
                    THEN Merged(NodeSize[k], f[Left(k)], f[Right(k)]) ELSE bm[k]
  <2>1. k \in I <=> Span(i) \subseteq Span(k) /\ k < i
    BY WayUp DEF I
  <2>2. k \in I => Left(k) \in Nodes /\ Right(k) \in Nodes /\ k # i
    BY <1>1, Family DEF I
  <2>3. k \in I => G[<<k, f[Left(k)], f[Right(k)]>>] = Merged(NodeSize[k], f[Left(k)], f[Right(k)])
    BY <1>3, <1>4, <2>2
  <2> QED BY <1>1, <1>4, <2>1, <2>2, <2>3
<1>6. Eq(f)
  BY <1>5
<1> DEFINE new == Rebuilt(bm, i, v, Merged)
<1>7. new = CHOOSE h : Eq(h)
  BY Zenon DEF Rebuilt
<1>8. Eq(new)
  <2> HIDE DEF Eq, new
  <2> QED BY <1>6, <1>7, Zenon
<1> HIDE DEF new
<1>9. /\ DOMAIN new = Nodes
      /\ \A k \in Nodes : new[k] = IF k = i THEN v
                                   ELSE IF Span(i) \subseteq Span(k) /\ k < i
                                   THEN Merged(NodeSize[k], new[Left(k)], new[Right(k)]) ELSE bm[k]
  BY <1>8
<1>10. \A k \in Nodes : new[k] = f[k]
  <2>1. ASSUME NEW k \in Nodes, \A c \in Nodes : c > k => new[c] = f[c] PROVE new[k] = f[k]
    <3>1. Span(i) \subseteq Span(k) /\ k < i =>
            Left(k) \in Nodes /\ Right(k) \in Nodes /\ Left(k) > k /\ Right(k) > k
      BY <1>1, WayUp, Family DEF I
    <3> QED BY <1>5, <1>9, <2>1, <3>1
  <2>2. Inherit(Nodes, f, new)
    BY <2>1 DEF Inherit
  <2> QED BY <2>2, FromLeaves
<1>11. new \in Tree
  <2>1. new = [k \in Nodes |-> new[k]]
    BY <1>8
  <2> QED BY <1>4, <1>10, <2>1 DEF Tree
<1>12. new[i] = v
  BY <1>9
<1>13. ASSUME NEW k \in Nodes, ~ Under(i, k) PROVE new[k] = bm[k]
  <2>1. k # i /\ ~ (Span(i) \subseteq Span(k) /\ k < i)
    BY <1>13, WayUp, UnderOrApart
  <2> QED BY <1>9, <2>1
<1>14. ASSUME NEW k \in Nodes, Under(i, k), k # i
       PROVE  new[k] = Merged(NodeSize[k], new[Left(k)], new[Right(k)])
  <2>1. Span(i) \subseteq Span(k) /\ k < i
    BY <1>14, WayUp
  <2> QED BY <1>9, <1>14, <2>1
<1> QED BY <1>11, <1>12, <1>13, <1>14 DEF new

\* ... and so does buddy_alloc.
LEMMA LongestUp ==
  ASSUME NEW bm \in Tree, NEW i \in Nodes, NEW v \in Nat
  PROVE  /\ Rebuilt(bm, i, v, LongestOfTwo) \in Tree /\ Rebuilt(bm, i, v, LongestOfTwo)[i] = v
         /\ \A k \in Nodes :
              /\ ~ Under(i, k) => Rebuilt(bm, i, v, LongestOfTwo)[k] = bm[k]
              /\ Under(i, k) /\ k # i =>
                   Rebuilt(bm, i, v, LongestOfTwo)[k] =
                     LongestOfTwo(NodeSize[k], Rebuilt(bm, i, v, LongestOfTwo)[Left(k)], Rebuilt(bm, i, v, LongestOfTwo)[Right(k)])
<1> DEFINE Eq(f) == f = [k \in Nodes |->
              IF k = i THEN v
              ELSE IF Span(i) \subseteq Span(k) /\ k < i
              THEN LongestOfTwo(NodeSize[k], f[Left(k)], f[Right(k)])
              ELSE bm[k]]
           I == {k \in Nodes : Under(i, k) /\ k # i}
           z == [bm EXCEPT ![i] = v]
           G == [t \in Nodes \X Nat \X Nat |-> LongestOfTwo(NodeSize[t[1]], t[2], t[3])]
<1>1. I \in SUBSET Inner /\ z \in [Nodes -> Nat] /\ z[i] = v /\ \A k \in Nodes \ {i} : z[k] = bm[k]
  BY UnderOrApart DEF Tree
<1>2. G \in [Nodes \X Nat \X Nat -> Nat]
  <2>1. ASSUME NEW k \in Nodes, NEW l \in Nat, NEW r \in Nat PROVE LongestOfTwo(NodeSize[k], l, r) \in Nat
    BY NodePages DEF LongestOfTwo, Larger
  <2> QED BY <2>1
<1>3. \A k \in Nodes, l \in Nat, r \in Nat : G[<<k, l, r>>] = LongestOfTwo(NodeSize[k], l, r)
  OBVIOUS
<1> HIDE DEF I, z, G
<1>4. PICK f \in [Nodes -> Nat] :
         \A k \in Nodes : f[k] = IF k \in I THEN G[<<k, f[Left(k)], f[Right(k)]>>] ELSE z[k]
  <2>1. Rises(Nat, z, I, G)
    BY <1>1, <1>2, FromChildren
  <2> QED BY <2>1 DEF Rises
<1>5. ASSUME NEW k \in Nodes
      PROVE  f[k] = IF k = i THEN v
                    ELSE IF Span(i) \subseteq Span(k) /\ k < i
                    THEN LongestOfTwo(NodeSize[k], f[Left(k)], f[Right(k)]) ELSE bm[k]
  <2>1. k \in I <=> Span(i) \subseteq Span(k) /\ k < i
    BY WayUp DEF I
  <2>2. k \in I => Left(k) \in Nodes /\ Right(k) \in Nodes /\ k # i
    BY <1>1, Family DEF I
  <2>3. k \in I => G[<<k, f[Left(k)], f[Right(k)]>>] = LongestOfTwo(NodeSize[k], f[Left(k)], f[Right(k)])
    BY <1>3, <1>4, <2>2
  <2> QED BY <1>1, <1>4, <2>1, <2>2, <2>3
<1>6. Eq(f)
  BY <1>5
<1> DEFINE new == Rebuilt(bm, i, v, LongestOfTwo)
<1>7. new = CHOOSE h : Eq(h)
  BY Zenon DEF Rebuilt
<1>8. Eq(new)
  <2> HIDE DEF Eq, new
  <2> QED BY <1>6, <1>7, Zenon
<1> HIDE DEF new
<1>9. /\ DOMAIN new = Nodes
      /\ \A k \in Nodes : new[k] = IF k = i THEN v
                                   ELSE IF Span(i) \subseteq Span(k) /\ k < i
                                   THEN LongestOfTwo(NodeSize[k], new[Left(k)], new[Right(k)]) ELSE bm[k]
  BY <1>8
<1>10. \A k \in Nodes : new[k] = f[k]
  <2>1. ASSUME NEW k \in Nodes, \A c \in Nodes : c > k => new[c] = f[c] PROVE new[k] = f[k]
    <3>1. Span(i) \subseteq Span(k) /\ k < i =>
            Left(k) \in Nodes /\ Right(k) \in Nodes /\ Left(k) > k /\ Right(k) > k
      BY <1>1, WayUp, Family DEF I
    <3> QED BY <1>5, <1>9, <2>1, <3>1
  <2>2. Inherit(Nodes, f, new)
    BY <2>1 DEF Inherit
  <2> QED BY <2>2, FromLeaves
<1>11. new \in Tree
  <2>1. new = [k \in Nodes |-> new[k]]
    BY <1>8
  <2> QED BY <1>4, <1>10, <2>1 DEF Tree
<1>12. new[i] = v
  BY <1>9
<1>13. ASSUME NEW k \in Nodes, ~ Under(i, k) PROVE new[k] = bm[k]
  <2>1. k # i /\ ~ (Span(i) \subseteq Span(k) /\ k < i)
    BY <1>13, WayUp, UnderOrApart
  <2> QED BY <1>9, <2>1
<1>14. ASSUME NEW k \in Nodes, Under(i, k), k # i
       PROVE  new[k] = LongestOfTwo(NodeSize[k], new[Left(k)], new[Right(k)])
  <2>1. Span(i) \subseteq Span(k) /\ k < i
    BY <1>14, WayUp
  <2> QED BY <1>9, <1>14, <2>1
<1> QED BY <1>11, <1>12, <1>13, <1>14 DEF new

\* The climb of buddy_free ends at the node above that holds 0, if no node on
\* the way does.
LEMMA HolderIs ==
  ASSUME NEW bm \in Tree, NEW p \in Pages, NEW a \in Nodes, bm[a] = 0, Under(LeafOf(p), a),
         \A k \in Nodes : Under(k, a) /\ k # a => bm[k] # 0
  PROVE  Holder(bm, p) = a
<1> DEFINE Eq(f) == f = [i \in Nodes |-> IF bm[i] = 0 \/ i = 0 THEN i ELSE f[Parent(i)]]
           N == 2 * Size - 2
           J == [i \in 1 .. N |-> Parent(i)]
           G == [t \in (1 .. N) \X Nodes |-> IF bm[t[1]] = 0 THEN t[1] ELSE t[2]]
<1>1. N \in Nat /\ Nodes = 0 .. N
  BY SizeIs DEF Nodes
<1>2. \A i \in 1 .. N : Parent(i) \in 0 .. N /\ Parent(i) < i
  BY <1>1 DEF Parent
<1>3. PICK f \in [0 .. N -> Nodes] :
         \A i \in 0 .. N : f[i] = IF i = 0 THEN 0 ELSE G[<<i, f[J[i]]>>]
  <2>1. J \in [1 .. N -> 0 .. N] /\ \A i \in 1 .. N : J[i] < i
    <3> HIDE DEF N
    <3> QED BY <1>2
  <2>2. G \in [(1 .. N) \X Nodes -> Nodes] /\ 0 \in Nodes
    <3>1. 1 .. N \subseteq Nodes /\ 0 \in Nodes
      BY <1>1
    <3> HIDE DEF N
    <3> QED BY <3>1
  <2> HIDE DEF J, G, N
  <2>3. Steps(N, Nodes, 0, J, G)
    BY <1>1, <2>1, <2>2, FromBefore
  <2> QED BY <2>3, Zenon DEF Steps
<1>4. ASSUME NEW i \in Nodes PROVE f[i] = IF bm[i] = 0 \/ i = 0 THEN i ELSE f[Parent(i)]
  <2>1. i # 0 => i \in 1 .. N /\ Parent(i) \in 0 .. N /\ J[i] = Parent(i)
    <3> HIDE DEF N
    <3>1. i # 0 => i \in 1 .. N
      BY <1>1
    <3> QED BY <1>2, <3>1
  <2>2. i # 0 => <<i, f[Parent(i)]>> \in (1 .. N) \X Nodes
                 /\ G[<<i, f[Parent(i)]>>] = IF bm[i] = 0 THEN i ELSE f[Parent(i)]
    <3> HIDE DEF N
    <3> QED BY <2>1, <1>3
  <2>3. i \in 0 .. N
    BY <1>1
  <2> HIDE DEF J, G, N
  <2> QED BY <1>3, <2>1, <2>2, <2>3
<1>5. Eq(f)
  <2>1. f = [i \in Nodes |-> f[i]]
    BY <1>1, <1>3
  <2> QED BY <1>4, <2>1
<1> DEFINE up == CHOOSE h : Eq(h)
<1>6. Holder(bm, p) = up[LeafOf(p)]
  BY Zenon DEF Holder
<1>7. Eq(up)
  <2> HIDE DEF Eq
  <2> QED BY <1>5, Zenon
<1> HIDE DEF up
<1>8. \A i \in Nodes : up[i] = IF bm[i] = 0 \/ i = 0 THEN i ELSE up[Parent(i)]
  BY <1>7
<1> DEFINE Bad == {k \in Nodes : Under(k, a) /\ up[k] # a}
<1>9. SUFFICES ASSUME Bad # {} PROVE FALSE
  BY <1>6, NodePages
<1>10. PICK k \in Bad : \A y \in Bad : k <= y
  <2>1. Bad \in SUBSET Nat
    BY Family
  <2> HIDE DEF Bad
  <2> QED BY <1>9, <2>1, LeastElement
<1>11. k \in Nodes /\ Under(k, a) /\ up[k] # a
  BY <1>10
<1>12. k # a
  BY <1>8, <1>11
<1>13. k # 0 /\ Parent(k) \in Nodes /\ Under(Parent(k), a) /\ Parent(k) < k
  BY <1>11, <1>12, UnderParent
<1>14. Parent(k) \notin Bad
  <2>1. k \in Nat /\ Parent(k) \in Nat
    BY <1>11, <1>13, Family
  <2> HIDE DEF Bad
  <2> QED BY <1>10, <1>13, <2>1
<1>15. up[Parent(k)] = a
  BY <1>13, <1>14
<1>16. up[k] = up[Parent(k)]
  BY <1>8, <1>11, <1>12, <1>13
<1> QED BY <1>11, <1>15, <1>16

AtLeast(n) == {k \in Nodes : NodeSize[k] >= n}

\* What buddy_alloc goes through on its way down.
Descent(bm, n, way) ==
  \A i \in AtLeast(n) :
    way[i] = IF NodeSize[i] = n THEN i
              ELSE IF bm[Left(i)] >= n THEN way[Left(i)] ELSE way[Right(i)]

LEMMA WayDown ==
  ASSUME NEW n \in NodeSizes
  PROVE  /\ 0 \in AtLeast(n) /\ AtLeast(n) \subseteq Nodes
         /\ \A i \in AtLeast(n) : NodeSize[i] # n =>
              i \in Inner /\ NodeSize[i] > n /\ Left(i) \in AtLeast(n) /\ Right(i) \in AtLeast(n)
<1>1. n \in Powers /\ n <= Size /\ n \in Nat \ {0}
  BY NodeSizesAre, PowersHold
<1>2. 0 \in AtLeast(n)
  BY <1>1, NodePages, Family DEF AtLeast
<1>3. ASSUME NEW i \in AtLeast(n), NodeSize[i] # n
      PROVE  i \in Inner /\ NodeSize[i] > n /\ Left(i) \in AtLeast(n) /\ Right(i) \in AtLeast(n)
  <2>1. i \in Nodes /\ NodeSize[i] \in Powers /\ NodeSize[i] \in Nat /\ NodeSize[i] > n
    BY <1>1, <1>3, NodePages DEF AtLeast
  <2>2. 2 * n <= NodeSize[i]
    BY <1>1, <2>1, PowersHold
  <2>3. i \in Inner
    <3>1. NodeSize[i] > 1
      BY <1>1, <2>1
    <3> QED BY <2>1, <3>1, NodePages
  <2>4. /\ Left(i) \in Nodes /\ Right(i) \in Nodes
        /\ NodeSize[i] = 2 * NodeSize[Left(i)] /\ NodeSize[Right(i)] = NodeSize[Left(i)]
    BY <2>3, Children
  <2>5. NodeSize[Left(i)] \in Nat
    BY <2>4, NodePages
  <2>6. NodeSize[Left(i)] >= n
    BY <1>1, <2>2, <2>4, <2>5
  <2> QED BY <2>1, <2>3, <2>4, <2>6 DEF AtLeast
<1> QED BY <1>2, <1>3 DEF AtLeast

LEMMA ChosenIs ==
  ASSUME NEW bm \in Tree, NEW n \in NodeSizes
  PROVE  \E way \in [AtLeast(n) -> Nodes] : Chosen(bm, n) = way[0] /\ Descent(bm, n, way)
<1> DEFINE Eq(f) == f = [i \in {k \in Nodes : NodeSize[k] >= n} |->
              IF NodeSize[i] = n THEN i
              ELSE IF bm[Left(i)] >= n THEN f[Left(i)] ELSE f[Right(i)]]
           D == AtLeast(n)
           I == {k \in D : NodeSize[k] # n}
           z == [k \in Nodes |-> k]
           G == [t \in Nodes \X Nodes \X Nodes |-> IF bm[Left(t[1])] >= n THEN t[2] ELSE t[3]]
<1>1. I \in SUBSET Inner /\ z \in [Nodes -> Nodes] /\ \A k \in Nodes : z[k] = k
  BY WayDown
<1>2. G \in [Nodes \X Nodes \X Nodes -> Nodes]
  OBVIOUS
<1>3. \A k \in Nodes, l \in Nodes, r \in Nodes : G[<<k, l, r>>] = IF bm[Left(k)] >= n THEN l ELSE r
  OBVIOUS
<1>4. D \in SUBSET Nodes /\ D = {k \in Nodes : NodeSize[k] >= n} /\ 0 \in D
  BY WayDown DEF AtLeast
<1>5. \A i \in D : i \in I => Left(i) \in D /\ Right(i) \in D /\ Left(i) > i /\ Right(i) > i
  BY <1>1, WayDown, Family
<1>6. \A i \in D : i \in I <=> NodeSize[i] # n
  OBVIOUS
<1> HIDE DEF I, z, G, D
<1>7. PICK g \in [Nodes -> Nodes] :
         \A k \in Nodes : g[k] = IF k \in I THEN G[<<k, g[Left(k)], g[Right(k)]>>] ELSE z[k]
  <2>1. Rises(Nodes, z, I, G)
    BY <1>1, <1>2, FromChildren
  <2> QED BY <2>1 DEF Rises
<1> DEFINE f == [k \in D |-> g[k]]
<1>8. f \in [D -> Nodes] /\ \A k \in D : f[k] = g[k]
  BY <1>4, <1>7
<1> HIDE DEF f
<1>9. ASSUME NEW i \in D
      PROVE  f[i] = IF NodeSize[i] = n THEN i
                    ELSE IF bm[Left(i)] >= n THEN f[Left(i)] ELSE f[Right(i)]
  <2>1. CASE NodeSize[i] = n
    BY <1>1, <1>4, <1>6, <1>7, <1>8, <2>1
  <2>2. CASE NodeSize[i] # n
    <3>1. i \in I /\ Left(i) \in D /\ Right(i) \in D /\ i \in Nodes /\ Left(i) \in Nodes /\ Right(i) \in Nodes
      BY <1>4, <1>5, <1>6, <2>2
    <3>2. g[i] = G[<<i, g[Left(i)], g[Right(i)]>>] /\ g[Left(i)] \in Nodes /\ g[Right(i)] \in Nodes
      BY <1>7, <3>1
    <3>3. g[i] = IF bm[Left(i)] >= n THEN g[Left(i)] ELSE g[Right(i)]
      BY <1>3, <3>1, <3>2
    <3> QED BY <1>8, <2>2, <3>1, <3>3
  <2> QED BY <2>1, <2>2
<1>10. Eq(f)
  <2>1. f = [k \in D |-> f[k]]
    BY <1>8
  <2> QED BY <1>4, <1>9, <2>1
<1> DEFINE way == CHOOSE h : Eq(h)
<1>11. Chosen(bm, n) = way[0]
  BY Zenon DEF Chosen
<1>12. Eq(way)
  <2> HIDE DEF Eq
  <2> QED BY <1>10, Zenon
<1> HIDE DEF way
<1>13. /\ way = [i \in D |-> way[i]]
       /\ \A i \in D : way[i] = IF NodeSize[i] = n THEN i
                                 ELSE IF bm[Left(i)] >= n THEN way[Left(i)] ELSE way[Right(i)]
  BY <1>4, <1>12
<1>14. \A i \in D : way[i] = f[i]
  <2>1. ASSUME NEW i \in D, \A c \in D : c > i => way[c] = f[c] PROVE way[i] = f[i]
    <3>1. NodeSize[i] # n => Left(i) \in D /\ Right(i) \in D /\ Left(i) > i /\ Right(i) > i
      BY <1>5, <1>6
    <3> QED BY <1>9, <1>13, <2>1, <3>1
  <2>2. Inherit(D, f, way)
    BY <2>1 DEF Inherit
  <2> QED BY <1>4, <2>2, FromLeaves
<1>15. way \in [D -> Nodes]
  BY <1>8, <1>13, <1>14
<1> QED BY <1>11, <1>13, <1>15 DEF D, Descent

-----------------------------------------------------------------------------
(***************************************************************************)
(* What the tree says when the nodes of a set A are allocated.             *)
(***************************************************************************)
\* No allocated node is this one or above it: buddy_alloc can look at it.
Open(A, k) == \A a \in A : ~ Under(k, a)

\* A free node and those below it hold no page of an allocated one.
Free(A, k) == \A a \in A : Apart(k, a)

Consistent(A, bm) ==
  /\ A \in SUBSET Nodes /\ bm \in Tree
  /\ \A a \in A : bm[a] = 0
  /\ \A a \in A, b \in A : a # b => Apart(a, b)
  /\ \A a \in A, k \in Nodes : Under(k, a) /\ k # a => bm[k] = NodeSize[k]
  /\ \A k \in Nodes : Open(A, k) =>
       bm[k] = IF k \in Inner THEN Merged(NodeSize[k], bm[Left(k)], bm[Right(k)]) ELSE 1

\* A node holds the size of the longest free node below it.
Exact(A, bm, i) ==
  /\ \A k \in Nodes : Under(k, i) /\ Free(A, k) => NodeSize[k] <= bm[i]
  /\ bm[i] # 0 => \E k \in Nodes : Under(k, i) /\ Free(A, k) /\ NodeSize[k] = bm[i]

\* No node claims more pages than it has.
LEMMA Bounded ==
  ASSUME NEW bm \in Tree,
         \A k \in Nodes : \/ bm[k] <= NodeSize[k]
                          \/ k \in Inner /\ bm[k] \in {Merged(NodeSize[k], bm[Left(k)], bm[Right(k)]),
                                                       LongestOfTwo(NodeSize[k], bm[Left(k)], bm[Right(k)])}
  PROVE  \A k \in Nodes : bm[k] <= NodeSize[k]
<1> DEFINE f == [k \in Nodes |-> TRUE]
           h == [k \in Nodes |-> bm[k] <= NodeSize[k]]
<1>1. ASSUME NEW i \in Nodes, \A c \in Nodes : c > i => h[c] = f[c] PROVE h[i] = f[i]
  <2>1. CASE bm[i] <= NodeSize[i]
    BY <2>1
  <2>2. CASE /\ i \in Inner
             /\ bm[i] \in {Merged(NodeSize[i], bm[Left(i)], bm[Right(i)]),
                           LongestOfTwo(NodeSize[i], bm[Left(i)], bm[Right(i)])}
    <3>1. /\ Left(i) \in Nodes /\ Right(i) \in Nodes /\ Left(i) > i /\ Right(i) > i
          /\ NodeSize[i] = 2 * NodeSize[Left(i)] /\ NodeSize[Right(i)] = NodeSize[Left(i)]
      BY <2>2, Family, Children
    <3>2. bm[Left(i)] <= NodeSize[Left(i)] /\ bm[Right(i)] <= NodeSize[Right(i)]
      BY <1>1, <3>1
    <3>3. PICK s \in Nat, l \in Nat, r \in Nat :
             s = NodeSize[Left(i)] /\ l = bm[Left(i)] /\ r = bm[Right(i)]
      BY <3>1, NodePages DEF Tree
    <3>4. l <= s /\ r <= s /\ bm[i] \in {Merged(2 * s, l, r), LongestOfTwo(2 * s, l, r)} /\ NodeSize[i] = 2 * s
      BY <2>2, <3>1, <3>2, <3>3
    <3>5. bm[i] <= NodeSize[i]
      BY <3>3, <3>4 DEF Merged, LongestOfTwo, Larger
    <3> QED BY <3>5
  <2>3. \/ bm[i] <= NodeSize[i]
        \/ i \in Inner /\ bm[i] \in {Merged(NodeSize[i], bm[Left(i)], bm[Right(i)]),
                                     LongestOfTwo(NodeSize[i], bm[Left(i)], bm[Right(i)])}
    OBVIOUS
  <2> QED BY <2>1, <2>2, <2>3
<1>2. Inherit(Nodes, f, h)
  <2> HIDE DEF f, h
  <2> QED BY <1>1 DEF Inherit
<1>3. \A k \in Nodes : h[k] = f[k]
  <2> HIDE DEF f, h
  <2> QED BY <1>2, FromLeaves
<1> QED BY <1>3

LEMMA ConsistentBounded ==
  ASSUME NEW A, NEW bm, Consistent(A, bm)
  PROVE  \A k \in Nodes : bm[k] \in Nat /\ bm[k] <= NodeSize[k]
<1>1. bm \in Tree /\ A \in SUBSET Nodes
  BY DEF Consistent
<1>2. ASSUME NEW k \in Nodes
      PROVE  \/ bm[k] <= NodeSize[k]
             \/ k \in Inner /\ bm[k] \in {Merged(NodeSize[k], bm[Left(k)], bm[Right(k)]),
                                          LongestOfTwo(NodeSize[k], bm[Left(k)], bm[Right(k)])}
  <2>1. NodeSize[k] \in Nat /\ NodeSize[k] > 0
    BY NodePages
  <2>2. CASE Open(A, k)
    <3>1. bm[k] = IF k \in Inner THEN Merged(NodeSize[k], bm[Left(k)], bm[Right(k)]) ELSE 1
      BY <2>2 DEF Consistent
    <3> QED BY <2>1, <3>1
  <2>3. CASE ~ Open(A, k)
    <3>1. PICK a \in A : Under(k, a)
      BY <2>3 DEF Open
    <3>2. bm[k] = 0 \/ bm[k] = NodeSize[k]
      BY <3>1 DEF Consistent
    <3> QED BY <2>1, <3>2
  <2> QED BY <2>2, <2>3
<1>3. \A k \in Nodes : bm[k] <= NodeSize[k]
  BY <1>1, <1>2, Bounded
<1> QED BY <1>1, <1>3 DEF Tree

\* A node is open, allocated, or below an allocated one; so are the children
\* of an open node, except that none is below an allocated one.
LEMMA OpenChild ==
  ASSUME NEW A \in SUBSET Nodes, NEW i \in Inner, Open(A, i), NEW c \in {Left(i), Right(i)}
  PROVE  Open(A, c) \/ c \in A
<1> SUFFICES ASSUME NEW a \in A, Under(c, a), c # a PROVE FALSE
  BY DEF Open
<1>1. c \in Nodes /\ Parent(c) = i /\ a \in Nodes
  BY Family
<1>2. Under(i, a)
  BY <1>1, UnderParent
<1> QED BY <1>2 DEF Open

\* A leaf that can be looked at is free.
LEMMA OpenLeaf ==
  ASSUME NEW A \in SUBSET Nodes, NEW i \in Nodes, i \notin Inner
  PROVE  /\ Open(A, i) => Free(A, i)
         /\ \A k \in Nodes : Under(k, i) => k = i
<1>1. \A k \in Nodes : Under(k, i) => k = i
  BY UnderOrApart
<1>2. ASSUME Open(A, i), NEW a \in A PROVE Apart(i, a)
  <2>1. a \in Nodes /\ ~ Under(i, a)
    BY <1>2 DEF Open
  <2>2. Under(a, i) => a = i
    BY <1>1, <2>1
  <2> QED BY <2>1, <2>2, UnderOrApart
<1> QED BY <1>1, <1>2 DEF Free

\* What is under a free node is free.
LEMMA FreeBelow ==
  ASSUME NEW A, NEW i, NEW k, Free(A, i), Under(k, i)
  PROVE  Free(A, k)
BY DEF Free, Under, Apart

LEMMA ExactAbove ==
  ASSUME NEW A, NEW bm, Consistent(A, bm), NEW i \in Inner, Open(A, i),
         Exact(A, bm, Left(i)), Exact(A, bm, Right(i))
  PROVE  Exact(A, bm, i)
<1>1. /\ i \in Nodes /\ Left(i) \in Nodes /\ Right(i) \in Nodes
      /\ NodeSize[i] = 2 * NodeSize[Left(i)] /\ NodeSize[Right(i)] = NodeSize[Left(i)]
      /\ Under(Left(i), i) /\ Under(Right(i), i) /\ Span(i) = Span(Left(i)) \cup Span(Right(i))
  BY Children
<1>2. PICK s \in Nat \ {0}, l \in Nat, r \in Nat :
         /\ s = NodeSize[Left(i)] /\ s = NodeSize[Right(i)] /\ NodeSize[i] = 2 * s
         /\ l = bm[Left(i)] /\ r = bm[Right(i)] /\ l <= s /\ r <= s
  <2>1. NodeSize[Left(i)] \in Nat \ {0}
    BY <1>1, NodePages
  <2> QED BY <1>1, <2>1, ConsistentBounded
<1>3. bm[i] = Merged(2 * s, l, r)
  BY <1>1, <1>2 DEF Consistent
<1>4. /\ l = s /\ r = s => bm[i] = 2 * s
      /\ ~ (l = s /\ r = s) => bm[i] = Larger(l, r)
      /\ bm[i] >= l /\ bm[i] >= r
  BY <1>2, <1>3 DEF Merged, Larger
<1>5. ASSUME NEW k \in Nodes, Under(k, i), Free(A, k) PROVE NodeSize[k] <= bm[i]
  <2>1. CASE k = i
    <3>1. Free(A, Left(i)) /\ Free(A, Right(i))
      BY <1>1, <1>5, <2>1, FreeBelow
    <3>2. NodeSize[Left(i)] <= bm[Left(i)] /\ NodeSize[Right(i)] <= bm[Right(i)]
      <4>1. Under(Left(i), Left(i)) /\ Under(Right(i), Right(i))
        BY DEF Under
      <4> QED BY <1>1, <3>1, <4>1 DEF Exact
    <3>3. s <= l /\ s <= r
      BY <1>2, <3>2
    <3> QED BY <1>2, <1>4, <2>1, <3>3
  <2>2. CASE k # i
    <3>1. Under(k, Left(i)) \/ Under(k, Right(i))
      BY <1>1, <1>5, <2>2, UnderChild
    <3>2. NodeSize[k] <= l \/ NodeSize[k] <= r
      BY <1>2, <1>5, <3>1 DEF Exact
    <3>3. NodeSize[k] \in Nat /\ bm[i] \in Nat
      BY <1>1, NodePages, ConsistentBounded
    <3> QED BY <1>2, <1>4, <3>2, <3>3
  <2> QED BY <2>1, <2>2
<1>6. ASSUME bm[i] # 0 PROVE \E k \in Nodes : Under(k, i) /\ Free(A, k) /\ NodeSize[k] = bm[i]
  <2>1. CASE l = s /\ r = s
    <3>1. PICK k \in Nodes : Under(k, Left(i)) /\ Free(A, k) /\ NodeSize[k] = s
      BY <1>2, <2>1 DEF Exact
    <3>2. PICK j \in Nodes : Under(j, Right(i)) /\ Free(A, j) /\ NodeSize[j] = s
      BY <1>2, <2>1 DEF Exact
    <3>3. k = Left(i)
      BY <1>1, <1>2, <3>1, UnderOrApart
    <3>4. j = Right(i)
      BY <1>1, <1>2, <3>2, UnderOrApart
    <3>5. Free(A, i)
      BY <1>1, <3>1, <3>2, <3>3, <3>4 DEF Free, Apart
    <3>6. Under(i, i)
      BY DEF Under
    <3> QED BY <1>1, <1>2, <1>4, <2>1, <3>5, <3>6
  <2>2. CASE ~ (l = s /\ r = s)
    <3>1. (bm[i] = l /\ l # 0) \/ (bm[i] = r /\ r # 0)
      BY <1>4, <1>6, <2>2 DEF Larger
    <3>2. CASE bm[i] = l /\ l # 0
      <4>1. PICK k \in Nodes : Under(k, Left(i)) /\ Free(A, k) /\ NodeSize[k] = l
        BY <1>2, <3>2 DEF Exact
      <4> QED BY <1>1, <3>2, <4>1 DEF Under
    <3>3. CASE bm[i] = r /\ r # 0
      <4>1. PICK k \in Nodes : Under(k, Right(i)) /\ Free(A, k) /\ NodeSize[k] = r
        BY <1>2, <3>3 DEF Exact
      <4> QED BY <1>1, <3>3, <4>1 DEF Under
    <3> QED BY <3>1, <3>2, <3>3
  <2> QED BY <2>1, <2>2
<1> QED BY <1>5, <1>6 DEF Exact

\* Every node that is open or allocated is exact.
LEMMA ConsistentExact ==
  ASSUME NEW A, NEW bm, Consistent(A, bm)
  PROVE  \A i \in Nodes : Open(A, i) \/ i \in A => Exact(A, bm, i)
<1> DEFINE f == [k \in Nodes |-> TRUE]
           h == [k \in Nodes |-> Open(A, k) \/ k \in A => Exact(A, bm, k)]
<1>1. ASSUME NEW i \in Nodes, \A c \in Nodes : c > i => (Open(A, c) \/ c \in A => Exact(A, bm, c)),
             Open(A, i) \/ i \in A
      PROVE  Exact(A, bm, i)
  <2>1. A \in SUBSET Nodes
    BY DEF Consistent
  <2>2. CASE i \in A
    <3>1. bm[i] = 0
      BY <2>2 DEF Consistent
    <3>2. ASSUME NEW k \in Nodes, Under(k, i), Free(A, k) PROVE FALSE
      <4>1. Apart(k, i)
        BY <2>2, <3>2 DEF Free
      <4> QED BY <3>2, <4>1, UnderOrApart
    <3> QED BY <3>1, <3>2 DEF Exact
  <2>3. CASE Open(A, i) /\ i \in Inner
    <3>1. Left(i) \in Nodes /\ Right(i) \in Nodes /\ Left(i) > i /\ Right(i) > i
      BY <2>3, Family
    <3>2. (Open(A, Left(i)) \/ Left(i) \in A) /\ (Open(A, Right(i)) \/ Right(i) \in A)
      BY <2>1, <2>3, OpenChild
    <3>3. Exact(A, bm, Left(i)) /\ Exact(A, bm, Right(i))
      BY <1>1, <3>1, <3>2
    <3> QED BY <2>3, <3>3, ExactAbove
  <2>4. CASE Open(A, i) /\ i \notin Inner
    <3>1. bm[i] = 1
      BY <2>4 DEF Consistent
    <3>2. NodeSize[i] = 1
      <4>1. NodeSize[i] \in Nat /\ NodeSize[i] > 0 /\ ~ (NodeSize[i] > 1)
        BY <2>4, NodePages
      <4> QED BY <4>1
    <3>3. Free(A, i) /\ \A k \in Nodes : Under(k, i) => k = i
      BY <2>1, <2>4, OpenLeaf
    <3>4. Under(i, i)
      BY DEF Under
    <3> QED BY <3>1, <3>2, <3>3, <3>4 DEF Exact
  <2> QED BY <1>1, <2>2, <2>3, <2>4
<1>2. ASSUME NEW i \in Nodes, \A c \in Nodes : c > i => h[c] = f[c] PROVE h[i] = f[i]
  <2>1. \A c \in Nodes : c > i => (Open(A, c) \/ c \in A => Exact(A, bm, c))
    BY <1>2
  <2> QED BY <1>1, <2>1
<1>3. Inherit(Nodes, f, h)
  <2> HIDE DEF f, h
  <2> QED BY <1>2 DEF Inherit
<1>4. \A k \in Nodes : h[k] = f[k]
  <2> HIDE DEF f, h
  <2> QED BY <1>3, FromLeaves
<1> QED BY <1>4

\* A free node is open and full, and so is every node below it.
LEMMA FreeIsFull ==
  ASSUME NEW A, NEW bm, Consistent(A, bm), NEW i \in Nodes, Free(A, i)
  PROVE  Open(A, i) /\ bm[i] = NodeSize[i] /\ \A k \in Nodes : Under(k, i) => bm[k] = NodeSize[k]
<1>1. ASSUME NEW k \in Nodes, Under(k, i) PROVE Open(A, k) /\ bm[k] = NodeSize[k]
  <2>1. Free(A, k)
    BY <1>1, FreeBelow
  <2>2. Open(A, k)
    <3>1. A \in SUBSET Nodes
      BY DEF Consistent
    <3>2. ASSUME NEW a \in A PROVE ~ Under(k, a)
      <4>1. a \in Nodes /\ Apart(k, a)
        BY <2>1, <3>1 DEF Free
      <4> QED BY <4>1, UnderOrApart
    <3> QED BY <3>2 DEF Open
  <2>3. NodeSize[k] <= bm[k]
    <3>1. Under(k, k)
      BY DEF Under
    <3> QED BY <2>1, <2>2, <3>1, ConsistentExact DEF Exact
  <2>4. bm[k] \in Nat /\ bm[k] <= NodeSize[k] /\ NodeSize[k] \in Nat
    BY ConsistentBounded, NodePages
  <2> QED BY <2>2, <2>3, <2>4
<1>2. Under(i, i)
  BY DEF Under
<1> QED BY <1>1, <1>2

\* A full open node is free.
LEMMA FullIsFree ==
  ASSUME NEW A, NEW bm, Consistent(A, bm), NEW i \in Nodes, Open(A, i), bm[i] = NodeSize[i]
  PROVE  Free(A, i)
<1>1. bm[i] # 0
  BY NodePages
<1>2. PICK k \in Nodes : Under(k, i) /\ Free(A, k) /\ NodeSize[k] = bm[i]
  BY <1>1, ConsistentExact DEF Exact
<1>3. k = i
  BY <1>2, UnderOrApart
<1> QED BY <1>2, <1>3

\* Nodes that are not above node i are above none that is above it.
LEMMA NotAbove ==
  ASSUME NEW i \in Nodes, NEW k \in Inner, ~ Under(i, k)
  PROVE  ~ Under(i, Left(k)) /\ ~ Under(i, Right(k))
BY Children DEF Under

\* buddy_alloc leaves a consistent tree, in which the node it took is allocated.
LEMMA TakenConsistent ==
  ASSUME NEW A, NEW bm, Consistent(A, bm), NEW i \in Nodes, Free(A, i)
  PROVE  Consistent(A \cup {i}, Taken(bm, i))
<1> DEFINE new == Taken(bm, i)
           B == A \cup {i}
<1>1. A \in SUBSET Nodes /\ bm \in Tree
  BY DEF Consistent
<1>2. /\ new \in Tree /\ new[i] = 0
      /\ \A k \in Nodes :
           /\ ~ Under(i, k) => new[k] = bm[k]
           /\ Under(i, k) /\ k # i => new[k] = LongestOfTwo(NodeSize[k], new[Left(k)], new[Right(k)])
  <2>1. new = Rebuilt(bm, i, 0, LongestOfTwo)
    BY DEF Taken
  <2> DEFINE taken == Rebuilt(bm, i, 0, LongestOfTwo)
  <2>2. /\ taken \in Tree /\ taken[i] = 0
        /\ \A k \in Nodes :
             /\ ~ Under(i, k) => taken[k] = bm[k]
             /\ Under(i, k) /\ k # i => taken[k] = LongestOfTwo(NodeSize[k], taken[Left(k)], taken[Right(k)])
    <3>1. 0 \in Nat
      OBVIOUS
    <3> HIDE DEF taken
    <3> QED BY <1>1, <3>1, LongestUp, ZenonT(60) DEF taken
  <2> HIDE DEF new, taken
  <2> QED BY <2>1, <2>2 DEF taken
<1> HIDE DEF new
<1>3. \A a \in A : ~ Under(i, a) /\ ~ Under(a, i) /\ a # i
  <2> SUFFICES ASSUME NEW a \in A PROVE ~ Under(i, a) /\ ~ Under(a, i) /\ a # i
    OBVIOUS
  <2>1. a \in Nodes /\ Apart(i, a)
    BY <1>1 DEF Free
  <2>2. Apart(a, i) /\ Under(i, i)
    BY <2>1 DEF Apart, Under
  <2> QED BY <2>1, <2>2, UnderOrApart
<1>4. \A b \in B : new[b] = 0
  BY <1>1, <1>2, <1>3 DEF Consistent
<1>5. \A a \in B, b \in B : a # b => Apart(a, b)
  BY DEF Consistent, Free, Apart
<1>6. ASSUME NEW b \in B, NEW k \in Nodes, Under(k, b), k # b PROVE new[k] = NodeSize[k]
  <2>1. CASE b = i
    <3>1. ~ Under(i, k)
      BY <1>6, <2>1, UnderOrApart
    <3>2. bm[k] = NodeSize[k]
      BY <1>6, <2>1, FreeIsFull
    <3> QED BY <1>2, <3>1, <3>2
  <2>2. CASE b \in A
    <3>1. ~ Under(i, k)
      BY <1>3, <1>6, <2>2 DEF Under
    <3>2. bm[k] = NodeSize[k]
      BY <1>6, <2>2 DEF Consistent
    <3> QED BY <1>2, <3>1, <3>2
  <2> QED BY <2>1, <2>2
<1>7. \A k \in Nodes : new[k] \in Nat /\ new[k] <= NodeSize[k]
  <2>1. ASSUME NEW k \in Nodes
        PROVE  \/ new[k] <= NodeSize[k]
               \/ k \in Inner /\ new[k] \in {Merged(NodeSize[k], new[Left(k)], new[Right(k)]),
                                             LongestOfTwo(NodeSize[k], new[Left(k)], new[Right(k)])}
    <3>1. CASE k = i
      BY <1>2, <3>1, NodePages
    <3>2. CASE Under(i, k) /\ k # i
      BY <1>2, <3>2, UnderOrApart
    <3>3. CASE ~ Under(i, k)
      BY <1>2, <3>3, ConsistentBounded
    <3> QED BY <3>1, <3>2, <3>3
  <2> QED BY <1>2, <2>1, Bounded DEF Tree
<1>8. ASSUME NEW k \in Nodes, Open(B, k)
      PROVE  new[k] = IF k \in Inner THEN Merged(NodeSize[k], new[Left(k)], new[Right(k)]) ELSE 1
  <2>1. Open(A, k) /\ ~ Under(k, i)
    BY <1>8 DEF Open
  <2>2. k # i
    BY <2>1 DEF Under
  <2>3. CASE ~ Under(i, k)
    <3>1. bm[k] = IF k \in Inner THEN Merged(NodeSize[k], bm[Left(k)], bm[Right(k)]) ELSE 1
      BY <2>1 DEF Consistent
    <3>2. k \in Inner => new[Left(k)] = bm[Left(k)] /\ new[Right(k)] = bm[Right(k)]
      BY <1>2, <2>3, NotAbove, Family
    <3> QED BY <1>2, <2>3, <3>1, <3>2
  <2>4. CASE Under(i, k)
    <3>1. k \in Inner /\ (Under(i, Left(k)) \/ Under(i, Right(k)))
      BY <2>2, <2>4, UnderChild
    <3>2. /\ Left(k) \in Nodes /\ Right(k) \in Nodes
          /\ NodeSize[k] = 2 * NodeSize[Left(k)] /\ NodeSize[Right(k)] = NodeSize[Left(k)]
      BY <3>1, Children
    <3>3. ASSUME NEW c \in Nodes, Under(i, c) PROVE new[c] < NodeSize[c]
      <4>1. NodeSize[c] \in Nat /\ NodeSize[c] > 0
        BY NodePages
      <4>2. CASE c = i
        BY <1>2, <4>1, <4>2
      <4>3. CASE c # i
        <5>1. c \in Inner
          BY <3>3, <4>3, UnderChild
        <5>2. /\ Left(c) \in Nodes /\ Right(c) \in Nodes
              /\ NodeSize[c] = 2 * NodeSize[Left(c)] /\ NodeSize[Right(c)] = NodeSize[Left(c)]
          BY <5>1, Children
        <5>3. new[c] = LongestOfTwo(NodeSize[c], new[Left(c)], new[Right(c)])
          BY <1>2, <3>3, <4>3
        <5>4. PICK s \in Nat, l \in Nat, r \in Nat :
                 s = NodeSize[Left(c)] /\ l = new[Left(c)] /\ r = new[Right(c)] /\ l <= s /\ r <= s
          BY <1>7, <5>2, NodePages
        <5>5. s > 0
          BY <5>2, <5>4, NodePages
        <5> QED BY <5>2, <5>3, <5>4, <5>5 DEF LongestOfTwo, Larger
      <4> QED BY <4>2, <4>3
    <3>4. new[Left(k)] < NodeSize[Left(k)] \/ new[Right(k)] < NodeSize[Right(k)]
      BY <3>1, <3>2, <3>3
    <3>5. PICK s \in Nat, l \in Nat, r \in Nat :
             s = NodeSize[Left(k)] /\ l = new[Left(k)] /\ r = new[Right(k)] /\ l <= s /\ r <= s
      BY <1>7, <3>2, NodePages
    <3>6. l + r # 2 * s
      BY <3>2, <3>4, <3>5
    <3>7. Merged(NodeSize[k], l, r) = LongestOfTwo(NodeSize[k], l, r)
      BY <3>2, <3>5, <3>6 DEF Merged, LongestOfTwo
    <3> QED BY <1>2, <2>2, <2>4, <3>1, <3>5, <3>7
  <2> QED BY <2>3, <2>4
<1>9. B \in SUBSET Nodes
  BY <1>1
<1> HIDE DEF B
<1>10. Consistent(B, new)
  BY <1>2, <1>4, <1>5, <1>6, <1>8, <1>9 DEF Consistent
<1> QED BY <1>10 DEF B, new

\* buddy_free leaves a consistent tree without the node that it released.
LEMMA GivenConsistent ==
  ASSUME NEW A, NEW bm, Consistent(A, bm), NEW a \in A
  PROVE  Consistent(A \ {a}, Rebuilt(bm, a, NodeSize[a], Merged))
<1> DEFINE new == Rebuilt(bm, a, NodeSize[a], Merged)
           B == A \ {a}
<1>1. A \in SUBSET Nodes /\ bm \in Tree /\ a \in Nodes /\ NodeSize[a] \in Nat
  BY NodePages DEF Consistent
<1>2. /\ new \in Tree /\ new[a] = NodeSize[a]
      /\ \A k \in Nodes :
           /\ ~ Under(a, k) => new[k] = bm[k]
           /\ Under(a, k) /\ k # a => new[k] = Merged(NodeSize[k], new[Left(k)], new[Right(k)])
  BY <1>1, MergedUp
<1> HIDE DEF new
<1>3. \A b \in B : b \in Nodes /\ ~ Under(a, b) /\ ~ Under(b, a) /\ b # a
  <2> SUFFICES ASSUME NEW b \in B PROVE b \in Nodes /\ ~ Under(a, b) /\ ~ Under(b, a) /\ b # a
    OBVIOUS
  <2>1. b \in Nodes /\ Apart(a, b) /\ Apart(b, a) /\ b # a
    BY <1>1 DEF Consistent
  <2> QED BY <1>1, <2>1, UnderOrApart
<1>4. \A b \in B : new[b] = 0
  BY <1>2, <1>3 DEF Consistent
<1>5. \A b \in B, c \in B : b # c => Apart(b, c)
  BY DEF Consistent
<1>6. ASSUME NEW b \in B, NEW k \in Nodes, Under(k, b), k # b PROVE new[k] = NodeSize[k]
  <2>1. ~ Under(a, k)
    BY <1>3, <1>6 DEF Under
  <2>2. bm[k] = NodeSize[k]
    BY <1>6 DEF Consistent
  <2> QED BY <1>2, <2>1, <2>2
<1>7. \A k \in Nodes : Under(k, a) => new[k] = NodeSize[k]
  <2> SUFFICES ASSUME NEW k \in Nodes, Under(k, a), k # a PROVE new[k] = NodeSize[k]
    BY <1>2
  <2>1. ~ Under(a, k)
    BY <1>1, UnderOrApart
  <2>2. bm[k] = NodeSize[k]
    BY DEF Consistent
  <2> QED BY <1>2, <2>1, <2>2
<1>8. ASSUME NEW k \in Nodes, Open(B, k)
      PROVE  new[k] = IF k \in Inner THEN Merged(NodeSize[k], new[Left(k)], new[Right(k)]) ELSE 1
  <2>1. CASE Under(k, a) /\ k \in Inner
    <3>1. /\ Left(k) \in Nodes /\ Right(k) \in Nodes
          /\ NodeSize[k] = 2 * NodeSize[Left(k)] /\ NodeSize[Right(k)] = NodeSize[Left(k)]
          /\ Under(Left(k), a) /\ Under(Right(k), a)
      BY <2>1, Children DEF Under
    <3>2. new[k] = NodeSize[k] /\ new[Left(k)] = NodeSize[Left(k)] /\ new[Right(k)] = NodeSize[Right(k)]
      BY <1>7, <2>1, <3>1
    <3>3. NodeSize[Left(k)] \in Nat
      BY <3>1, NodePages
    <3> QED BY <2>1, <3>1, <3>2, <3>3 DEF Merged
  <2>2. CASE Under(k, a) /\ k \notin Inner
    <3>1. new[k] = NodeSize[k]
      BY <1>7, <2>2
    <3>2. NodeSize[k] \in Nat /\ NodeSize[k] > 0 /\ ~ (NodeSize[k] > 1)
      BY <2>2, NodePages
    <3> QED BY <2>2, <3>1, <3>2
  <2>3. CASE ~ Under(k, a) /\ Under(a, k)
    <3>1. k # a
      BY <2>3
    <3>2. k \in Inner
      BY <1>1, <2>3, <3>1, UnderChild
    <3> QED BY <1>2, <2>3, <3>1, <3>2
  <2>4. CASE ~ Under(k, a) /\ ~ Under(a, k)
    <3>1. Open(A, k)
      BY <1>8, <2>4 DEF Open
    <3>2. bm[k] = IF k \in Inner THEN Merged(NodeSize[k], bm[Left(k)], bm[Right(k)]) ELSE 1
      BY <3>1 DEF Consistent
    <3>3. k \in Inner => new[Left(k)] = bm[Left(k)] /\ new[Right(k)] = bm[Right(k)]
      BY <1>1, <1>2, <2>4, NotAbove, Family
    <3> QED BY <1>2, <2>4, <3>2, <3>3
  <2> QED BY <2>1, <2>2, <2>3, <2>4
<1>9. B \in SUBSET Nodes
  BY <1>1
<1> HIDE DEF B
<1>10. Consistent(B, new)
  BY <1>2, <1>4, <1>5, <1>6, <1>8, <1>9 DEF Consistent
<1> QED BY <1>10 DEF B, new

\* Nothing is above the root.
LEMMA RootSeen ==
  ASSUME NEW A \in SUBSET Nodes
  PROVE  Open(A, 0) \/ 0 \in A
<1> SUFFICES ASSUME NEW a \in A, Under(0, a), a # 0 PROVE FALSE
  BY DEF Open
<1>1. a \in Nodes /\ 0 \in Nodes /\ a \in Nat
  BY Family
<1>2. 0 > a
  BY <1>1, UnderOrApart
<1> QED BY <1>1, <1>2

\* The first of the free nodes of n pages below node i.
Lowest(A, n, i, c) ==
  /\ c \in Nodes /\ Under(c, i) /\ NodeSize[c] = n /\ Free(A, c)
  /\ \A k \in Nodes : Under(k, i) /\ NodeSize[k] = n /\ Free(A, k) => FirstPage(c) <= FirstPage(k)

\* One step down: to the left if there is a run of that length.
LEMMA LowestBelow ==
  ASSUME NEW A, NEW bm, Consistent(A, bm), NEW n \in NodeSizes, NEW i \in Inner,
         Open(A, i), n < NodeSize[i], n <= bm[i], NEW l, NEW r,
         Open(A, Left(i)) /\ n <= bm[Left(i)] => Lowest(A, n, Left(i), l),
         Open(A, Right(i)) /\ n <= bm[Right(i)] => Lowest(A, n, Right(i), r)
  PROVE  Lowest(A, n, i, IF bm[Left(i)] >= n THEN l ELSE r)
<1>1. /\ i \in Nodes /\ Left(i) \in Nodes /\ Right(i) \in Nodes
      /\ NodeSize[i] = 2 * NodeSize[Left(i)] /\ NodeSize[Right(i)] = NodeSize[Left(i)]
      /\ FirstPage(Left(i)) = FirstPage(i) /\ FirstPage(Right(i)) = FirstPage(i) + NodeSize[Left(i)]
      /\ Under(Left(i), i) /\ Under(Right(i), i)
  BY Children
<1>2. A \in SUBSET Nodes /\ n \in Nat \ {0} /\ n \in Powers
  <2>1. n \in Powers
    BY NodeSizesAre
  <2> QED BY <2>1, PowersHold DEF Consistent
<1>3. PICK s \in Nat \ {0}, x \in Nat, y \in Nat :
         /\ s = NodeSize[Left(i)] /\ s = NodeSize[Right(i)] /\ NodeSize[i] = 2 * s
         /\ x = bm[Left(i)] /\ y = bm[Right(i)] /\ x <= s /\ y <= s
  <2>1. NodeSize[Left(i)] \in Nat \ {0}
    BY <1>1, NodePages
  <2> QED BY <1>1, <2>1, ConsistentBounded
<1>4. n <= s
  <2>1. 2 * n <= NodeSize[i]
    <3>1. NodeSize[i] \in Powers
      BY <1>1, NodePages
    <3> QED BY <1>2, <3>1, PowersHold
  <2> QED BY <1>2, <1>3, <2>1
<1>5. ASSUME NEW k \in Nodes, Under(k, i), NodeSize[k] = n
      PROVE  Under(k, Left(i)) \/ Under(k, Right(i))
  <2>1. k # i
    BY <1>2, <1>3, <1>4, <1>5
  <2> QED BY <1>1, <1>5, <2>1, UnderChild
<1>6. ASSUME NEW c \in {Left(i), Right(i)}, n <= bm[c] PROVE Open(A, c)
  <2>1. c \notin A
    <3>1. c \in A => bm[c] = 0
      BY DEF Consistent
    <3> QED BY <1>2, <1>6, <3>1
  <2> QED BY <1>2, <2>1, OpenChild
<1>7. CASE bm[Left(i)] >= n
  <2>1. Lowest(A, n, Left(i), l)
    <3>1. n <= bm[Left(i)]
      BY <1>2, <1>3, <1>7
    <3> QED BY <1>6, <3>1
  <2>2. l \in Nodes /\ Under(l, i)
    BY <1>1, <2>1 DEF Lowest, Under
  <2>3. ASSUME NEW k \in Nodes, Under(k, i), NodeSize[k] = n, Free(A, k)
        PROVE  FirstPage(l) <= FirstPage(k)
    <3>1. CASE Under(k, Left(i))
      BY <2>1, <2>3, <3>1 DEF Lowest
    <3>2. CASE Under(k, Right(i))
      <4>1. FirstPage(l) < FirstPage(Right(i))
        <5>1. FirstPage(l) \in Span(l) /\ Under(l, Left(i))
          BY <2>1, <2>2, NodePages DEF Lowest
        <5>2. FirstPage(l) \in Span(Left(i))
          BY <5>1 DEF Under
        <5>3. FirstPage(Left(i)) \in Nat
          BY <1>1, NodePages
        <5> QED BY <1>1, <1>3, <5>2, <5>3 DEF Span
      <4>2. FirstPage(Right(i)) <= FirstPage(k)
        <5>1. FirstPage(k) \in Span(k)
          BY NodePages
        <5>2. FirstPage(k) \in Span(Right(i))
          BY <3>2, <5>1 DEF Under
        <5>3. FirstPage(Right(i)) \in Nat
          BY <1>1, NodePages
        <5> QED BY <1>3, <5>2, <5>3 DEF Span
      <4>3. FirstPage(l) \in Nat /\ FirstPage(k) \in Nat /\ FirstPage(Right(i)) \in Nat
        BY <1>1, <2>2, NodePages
      <4> QED BY <4>1, <4>2, <4>3
    <3> QED BY <1>5, <2>3, <3>1, <3>2
  <2>4. Lowest(A, n, i, l)
    BY <2>1, <2>2, <2>3 DEF Lowest
  <2> QED BY <1>7, <2>4
<1>8. CASE ~ (bm[Left(i)] >= n)
  <2>1. x < n
    BY <1>2, <1>3, <1>8
  <2>2. bm[i] = Merged(2 * s, x, y)
    BY <1>1, <1>3 DEF Consistent
  <2>3. n <= bm[Right(i)]
    BY <1>2, <1>3, <1>4, <2>1, <2>2 DEF Merged, Larger
  <2>4. Lowest(A, n, Right(i), r)
    BY <1>6, <2>3
  <2>5. r \in Nodes /\ Under(r, i)
    BY <1>1, <2>4 DEF Lowest, Under
  <2>6. ASSUME NEW k \in Nodes, Under(k, i), NodeSize[k] = n, Free(A, k)
        PROVE  FirstPage(r) <= FirstPage(k)
    <3>1. ~ Under(k, Left(i))
      <4>1. Exact(A, bm, Left(i))
        BY <1>1, <1>2, OpenChild, ConsistentExact
      <4>2. Under(k, Left(i)) => n <= x
        BY <1>3, <2>6, <4>1 DEF Exact
      <4> QED BY <1>2, <2>1, <4>2
    <3>2. Under(k, Right(i))
      BY <1>5, <2>6, <3>1
    <3> QED BY <2>4, <2>6, <3>2 DEF Lowest
  <2>7. Lowest(A, n, i, r)
    BY <2>4, <2>5, <2>6 DEF Lowest
  <2> QED BY <1>8, <2>7
<1> QED BY <1>7, <1>8

\* buddy_alloc descends to the first free node of the size that it looks for.
LEMMA ChosenIsLowest ==
  ASSUME NEW A, NEW bm, Consistent(A, bm), NEW n \in NodeSizes, n <= bm[0]
  PROVE  Lowest(A, n, 0, Chosen(bm, n))
<1>1. A \in SUBSET Nodes /\ bm \in Tree /\ 0 \in Nodes
  BY Family DEF Consistent
<1>2. PICK way \in [AtLeast(n) -> Nodes] : Chosen(bm, n) = way[0] /\ Descent(bm, n, way)
  BY <1>1, ChosenIs
<1>3. n \in Nat \ {0}
  <2>1. n \in Powers
    BY NodeSizesAre
  <2> QED BY <2>1, PowersHold
<1> DEFINE D == AtLeast(n)
           f == [k \in D |-> TRUE]
           h == [k \in D |-> Open(A, k) /\ n <= bm[k] => Lowest(A, n, k, way[k])]
<1>4. ASSUME NEW i \in D, Open(A, i), n <= bm[i],
             \A c \in D : c > i => (Open(A, c) /\ n <= bm[c] => Lowest(A, n, c, way[c]))
      PROVE  Lowest(A, n, i, way[i])
  <2>1. i \in Nodes /\ NodeSize[i] \in Nat
    BY WayDown, NodePages
  <2>2. CASE NodeSize[i] = n
    <3>1. way[i] = i
      BY <1>2, <2>2 DEF Descent
    <3>2. bm[i] = NodeSize[i]
      BY <1>3, <1>4, <2>1, <2>2, ConsistentBounded
    <3>3. Free(A, i)
      BY <1>4, <2>1, <3>2, FullIsFree
    <3>4. ASSUME NEW k \in Nodes, Under(k, i), NodeSize[k] = n PROVE FirstPage(i) <= FirstPage(k)
      <4>1. k = i
        BY <2>1, <2>2, <3>4, UnderOrApart
      <4> QED BY <2>1, <4>1, NodePages
    <3> QED BY <2>1, <2>2, <3>1, <3>3, <3>4 DEF Lowest, Under
  <2>3. CASE NodeSize[i] # n
    <3>1. i \in Inner /\ NodeSize[i] > n /\ Left(i) \in D /\ Right(i) \in D
      BY <2>3, WayDown
    <3>2. Left(i) > i /\ Right(i) > i
      BY <3>1, Family
    <3>3. /\ Open(A, Left(i)) /\ n <= bm[Left(i)] => Lowest(A, n, Left(i), way[Left(i)])
          /\ Open(A, Right(i)) /\ n <= bm[Right(i)] => Lowest(A, n, Right(i), way[Right(i)])
      BY <1>4, <3>1, <3>2
    <3>4. n < NodeSize[i]
      BY <1>3, <2>1, <3>1
    <3>5. Lowest(A, n, i, IF bm[Left(i)] >= n THEN way[Left(i)] ELSE way[Right(i)])
      BY <1>4, <3>1, <3>3, <3>4, LowestBelow
    <3>6. way[i] = IF bm[Left(i)] >= n THEN way[Left(i)] ELSE way[Right(i)]
      BY <1>2, <2>3 DEF Descent
    <3> QED BY <3>5, <3>6
  <2> QED BY <2>2, <2>3
<1>5. ASSUME NEW i \in D, \A c \in D : c > i => h[c] = f[c] PROVE h[i] = f[i]
  <2>1. \A c \in D : c > i => (Open(A, c) /\ n <= bm[c] => Lowest(A, n, c, way[c]))
    <3> HIDE DEF D
    <3> QED BY <1>5
  <2>2. Open(A, i) /\ n <= bm[i] => Lowest(A, n, i, way[i])
    BY <1>4, <2>1
  <2> HIDE DEF D
  <2> QED BY <2>2
<1>6. D \in SUBSET Nodes /\ 0 \in D
  BY WayDown
<1>7. Inherit(D, f, h)
  <2> HIDE DEF f, h, D
  <2> QED BY <1>5 DEF Inherit
<1>8. \A k \in D : h[k] = f[k]
  <2> HIDE DEF f, h, D
  <2> QED BY <1>6, <1>7, FromLeaves
<1>9. Open(A, 0)
  <2>1. 0 \notin A
    <3>1. 0 \in A => bm[0] = 0
      BY DEF Consistent
    <3> QED BY <1>3, <3>1
  <2> QED BY <1>1, <2>1, RootSeen
<1>10. Open(A, 0) /\ n <= bm[0] => Lowest(A, n, 0, way[0])
  <2> HIDE DEF D
  <2> QED BY <1>6, <1>8
<1> QED BY <1>2, <1>9, <1>10

\* The climb of buddy_free from the first page of a run finds the run.
LEMMA HolderOfRun ==
  ASSUME NEW A, NEW bm, Consistent(A, bm), NEW a \in A
  PROVE  Holder(bm, FirstPage(a)) = a
<1>1. a \in Nodes /\ bm \in Tree /\ bm[a] = 0 /\ \A k \in Nodes : Under(k, a) /\ k # a => bm[k] = NodeSize[k]
  BY DEF Consistent
<1>2. FirstPage(a) \in Pages /\ FirstPage(a) \in Span(a) /\ FirstPage(a) \in Nat
  BY <1>1, NodePages
<1>3. Under(LeafOf(FirstPage(a)), a)
  <2>1. Span(LeafOf(FirstPage(a))) = FirstPage(a) .. FirstPage(a) + 1 - 1
    BY <1>2, NodePages DEF Span
  <2>2. Span(LeafOf(FirstPage(a))) = {FirstPage(a)}
    BY <1>2, <2>1
  <2> QED BY <1>2, <2>2 DEF Under
<1>4. \A k \in Nodes : Under(k, a) /\ k # a => bm[k] # 0
  BY <1>1, NodePages
<1> QED BY <1>1, <1>2, <1>3, <1>4, HolderIs

\* A free node is known at the root.
LEMMA RootHolds ==
  ASSUME NEW A, NEW bm, Consistent(A, bm), NEW k \in Nodes, Free(A, k)
  PROVE  NodeSize[k] <= bm[0]
<1>1. A \in SUBSET Nodes /\ 0 \in Nodes
  BY Family DEF Consistent
<1>2. Under(k, 0)
  BY NodePages DEF Under
<1>3. 0 \notin A
  <2>1. ~ Apart(k, 0)
    BY <1>1, <1>2, UnderOrApart
  <2> QED BY <2>1 DEF Free
<1>4. Exact(A, bm, 0)
  BY <1>1, <1>3, RootSeen, ConsistentExact
<1> QED BY <1>2, <1>4 DEF Exact

-----------------------------------------------------------------------------
(***************************************************************************)
(* The pages in use at boot.                                               *)
(***************************************************************************)
LEMMA BootIs ==
  /\ Boot[0] = NodeSize
  /\ \A k \in 1 .. Kernel : Boot[k] = Taken(Boot[k - 1], Chosen(Boot[k - 1], 1))
<1> DEFINE Eq(f) == f = [k \in 0 .. Kernel |->
              IF k = 0 THEN NodeSize ELSE Taken(f[k - 1], Chosen(f[k - 1], 1))]
           J == [i \in 1 .. Kernel |-> i - 1]
           G == [t \in (1 .. Kernel) \X Tree |-> Taken(t[2], Chosen(t[2], 1))]
<1>1. Kernel \in Nat
  BY BoundsAre, SizeIs
<1>2. ASSUME NEW bm \in Tree PROVE Taken(bm, Chosen(bm, 1)) \in Tree
  <2>1. 1 \in NodeSizes
    BY SizeIs, PowersHold, NodeSizesAre
  <2>2. PICK d \in [AtLeast(1) -> Nodes] : Chosen(bm, 1) = d[0]
    BY <2>1, ChosenIs
  <2>3. Chosen(bm, 1) \in Nodes
    BY <2>1, <2>2, WayDown
  <2> QED BY <2>3, LongestUp DEF Taken
<1>3. PICK f \in [0 .. Kernel -> Tree] :
         \A i \in 0 .. Kernel : f[i] = IF i = 0 THEN NodeSize ELSE G[<<i, f[J[i]]>>]
  <2>1. J \in [1 .. Kernel -> 0 .. Kernel] /\ \A i \in 1 .. Kernel : J[i] < i
    BY <1>1
  <2>2. NodeSize \in Tree
    BY NodeSizeIs DEF Tree
  <2>3. G \in [(1 .. Kernel) \X Tree -> Tree]
    BY <1>2
  <2> HIDE DEF J, G
  <2>4. Steps(Kernel, Tree, NodeSize, J, G)
    BY <1>1, <2>1, <2>2, <2>3, FromBefore
  <2> QED BY <2>4, Zenon DEF Steps
<1>4. ASSUME NEW i \in 0 .. Kernel
      PROVE  f[i] = IF i = 0 THEN NodeSize ELSE Taken(f[i - 1], Chosen(f[i - 1], 1))
  <2>1. i # 0 => i \in 1 .. Kernel /\ i - 1 \in 0 .. Kernel /\ J[i] = i - 1
    BY <1>1
  <2>2. i # 0 => <<i, f[i - 1]>> \in (1 .. Kernel) \X Tree
    BY <2>1, <1>3
  <2>3. i # 0 => G[<<i, f[i - 1]>>] = Taken(f[i - 1], Chosen(f[i - 1], 1))
    BY <2>2
  <2> HIDE DEF J, G
  <2> QED BY <1>3, <2>1, <2>3
<1>5. Eq(f)
  BY <1>3, <1>4
<1>6. Boot = CHOOSE h : Eq(h)
  BY Zenon DEF Boot
<1>7. Eq(Boot)
  <2> HIDE DEF Eq
  <2> QED BY <1>5, <1>6, Zenon
<1>8. \A k \in 0 .. Kernel :
        Boot[k] = IF k = 0 THEN NodeSize ELSE Taken(Boot[k - 1], Chosen(Boot[k - 1], 1))
  BY <1>7
<1>9. 0 \in 0 .. Kernel /\ \A k \in 1 .. Kernel : k \in 0 .. Kernel /\ k # 0
  BY <1>1
<1> QED BY <1>8, <1>9

\* A node of one page.
LEMMA OnePage ==
  ASSUME NEW k \in Nodes, NodeSize[k] = 1
  PROVE  Span(k) = {FirstPage(k)}
<1>1. FirstPage(k) \in Nat /\ Span(k) = FirstPage(k) .. FirstPage(k) + 1 - 1
  BY NodePages DEF Span
<1> QED BY <1>1

\* The leaves of the pages below page k.
Leaves(k) == {LeafOf(p) : p \in 0 .. k - 1}

\* An untouched tree is a free one.
LEMMA FreshConsistent == Consistent(Leaves(0), NodeSize)
<1>1. Leaves(0) = {}
  BY DEF Leaves
<1>2. NodeSize \in Tree
  BY NodeSizeIs DEF Tree
<1>3. ASSUME NEW k \in Nodes
      PROVE  NodeSize[k] = IF k \in Inner THEN Merged(NodeSize[k], NodeSize[Left(k)], NodeSize[Right(k)]) ELSE 1
  <2>1. CASE k \in Inner
    <3>1. /\ Left(k) \in Nodes /\ NodeSize[k] = 2 * NodeSize[Left(k)]
          /\ NodeSize[Right(k)] = NodeSize[Left(k)]
      BY <2>1, Children
    <3>2. NodeSize[Left(k)] \in Nat
      BY <3>1, NodePages
    <3>3. NodeSize[Left(k)] + NodeSize[Right(k)] = NodeSize[k]
      BY <3>1, <3>2
    <3> QED BY <2>1, <3>3 DEF Merged
  <2>2. CASE k \notin Inner
    BY <2>2, NodePages
  <2> QED BY <2>1, <2>2
<1> QED BY <1>1, <1>2, <1>3 DEF Consistent

\* buddy_init takes the pages in order: the next one is the lowest free one.
LEMMA BootStep ==
  ASSUME NEW k \in 0 .. Kernel - 1, NEW bm, Consistent(Leaves(k), bm)
  PROVE  Chosen(bm, 1) = LeafOf(k) /\ Consistent(Leaves(k + 1), Taken(bm, LeafOf(k)))
<1>1. k \in Pages /\ k \in Nat /\ \A p \in 0 .. k - 1 : p \in Pages
  BY BoundsAre, SizeIs DEF Pages
<1>2. LeafOf(k) \in Nodes /\ NodeSize[LeafOf(k)] = 1 /\ FirstPage(LeafOf(k)) = k
  BY <1>1, NodePages
<1>3. \A p \in 0 .. k - 1 : LeafOf(p) \in Nodes /\ Span(LeafOf(p)) = {p}
  BY <1>1, NodePages, OnePage
<1>4. Free(Leaves(k), LeafOf(k))
  <2>1. Span(LeafOf(k)) = {k}
    BY <1>2, OnePage
  <2>2. \A p \in 0 .. k - 1 : p # k
    BY <1>1
  <2> QED BY <1>3, <2>1, <2>2 DEF Free, Apart, Leaves
<1>5. 1 \in NodeSizes
  BY SizeIs, PowersHold, NodeSizesAre
<1>6. Lowest(Leaves(k), 1, 0, Chosen(bm, 1))
  <2>1. 1 <= bm[0]
    BY <1>2, <1>4, RootHolds
  <2> QED BY <1>5, <2>1, ChosenIsLowest
<1>7. Chosen(bm, 1) = LeafOf(k)
  <2> DEFINE c == Chosen(bm, 1)
  <2>1. c \in Nodes /\ NodeSize[c] = 1 /\ Free(Leaves(k), c)
    BY <1>6 DEF Lowest
  <2>2. FirstPage(c) <= k
    <3>1. Under(LeafOf(k), 0)
      BY <1>2, NodePages DEF Under
    <3> QED BY <1>2, <1>4, <1>6, <3>1 DEF Lowest
  <2>3. FirstPage(c) \in Nat /\ Span(c) = {FirstPage(c)}
    BY <2>1, NodePages, OnePage
  <2> HIDE DEF c
  <2>4. FirstPage(c) = k
    <3>1. ASSUME FirstPage(c) \in 0 .. k - 1 PROVE FALSE
      <4>1. LeafOf(FirstPage(c)) \in Leaves(k) /\ Span(LeafOf(FirstPage(c))) = {FirstPage(c)}
        BY <1>3, <3>1 DEF Leaves
      <4> QED BY <2>1, <2>3, <4>1 DEF Free, Apart
    <3>2. FirstPage(c) = k \/ FirstPage(c) \in 0 .. k - 1
      BY <1>1, <2>2, <2>3
    <3> QED BY <3>1, <3>2
  <2>5. Under(c, LeafOf(k))
    BY <1>2, <2>3, <2>4, OnePage DEF Under
  <2>6. c = LeafOf(k)
    BY <1>2, <2>1, <2>5, UnderOrApart
  <2> QED BY <2>6 DEF c
<1>8. Leaves(k + 1) = Leaves(k) \cup {LeafOf(k)}
  <2>1. 0 .. k + 1 - 1 = (0 .. k - 1) \cup {k}
    BY <1>1
  <2> QED BY <2>1 DEF Leaves
<1> QED BY <1>2, <1>4, <1>7, <1>8, TakenConsistent

LEMMA BootConsistent ==
  /\ Consistent(Leaves(Kernel), Boot[Kernel])
  /\ \A k \in 1 .. Kernel : Chosen(Boot[k - 1], 1) = LeafOf(k - 1)
<1>1. Kernel \in Nat
  BY BoundsAre, SizeIs
<1> DEFINE Bad == {k \in 0 .. Kernel : ~ Consistent(Leaves(k), Boot[k])}
<1>2. Bad = {}
  <2>1. SUFFICES ASSUME Bad # {} PROVE FALSE
    OBVIOUS
  <2>2. PICK k \in Bad : \A y \in Bad : k <= y
    <3>1. Bad \in SUBSET Nat
      OBVIOUS
    <3> HIDE DEF Bad
    <3> QED BY <2>1, <3>1, LeastElement
  <2>3. k \in 0 .. Kernel /\ ~ Consistent(Leaves(k), Boot[k])
    BY <2>2
  <2>4. k # 0
    BY <2>3, BootIs, FreshConsistent
  <2>5. k - 1 \in 0 .. Kernel - 1 /\ k \in 1 .. Kernel /\ k - 1 + 1 = k /\ k - 1 \notin Bad /\ k - 1 \in 0 .. Kernel
    BY <1>1, <2>2, <2>3, <2>4
  <2>6. Consistent(Leaves(k - 1), Boot[k - 1])
    BY <2>5
  <2> HIDE DEF Bad
  <2>7. Chosen(Boot[k - 1], 1) = LeafOf(k - 1) /\ Consistent(Leaves(k - 1 + 1), Taken(Boot[k - 1], LeafOf(k - 1)))
    BY <2>5, <2>6, BootStep
  <2>8. Boot[k] = Taken(Boot[k - 1], Chosen(Boot[k - 1], 1))
    BY <2>5, BootIs
  <2> QED BY <2>3, <2>5, <2>7, <2>8
<1>3. \A k \in 0 .. Kernel : Consistent(Leaves(k), Boot[k])
  BY <1>2
<1> HIDE DEF Bad
<1>4. \A k \in 1 .. Kernel : k - 1 \in 0 .. Kernel - 1 /\ k - 1 \in 0 .. Kernel
  BY <1>1
<1> QED BY <1>1, <1>3, <1>4, BootStep

-----------------------------------------------------------------------------
(***************************************************************************)
(* The inductive invariant: the tree and the counters describe the same    *)
(* allocated nodes.                                                        *)
(***************************************************************************)
\* A page has references if an allocated node starts there.
Counted(A, rc) ==
  /\ rc \in [Pages -> 0 .. MaxRef]
  /\ \A p \in Pages : rc[p] > 0 <=> \E a \in A : FirstPage(a) = p

Describe(A, bm, rc) == Consistent(A, bm) /\ Counted(A, rc)

TreeInv == down \in BOOLEAN /\ \E A \in SUBSET Nodes : Describe(A, bitmap, ref_cnt)

\* Allocated nodes start at different pages.
LEMMA StartsDiffer ==
  ASSUME NEW A, NEW bm, Consistent(A, bm), NEW a \in A, NEW b \in A, FirstPage(a) = FirstPage(b)
  PROVE  a = b
<1>1. a \in Nodes /\ b \in Nodes /\ (a # b => Apart(a, b))
  BY DEF Consistent
<1>2. FirstPage(a) \in Span(a) /\ FirstPage(b) \in Span(b)
  BY <1>1, NodePages
<1> QED BY <1>1, <1>2 DEF Apart

\* The kernel's own pages are in use at first.
LEMMA BootDescribed == Init => Describe(Leaves(Kernel), bitmap, ref_cnt) /\ down = FALSE
<1> SUFFICES ASSUME Init PROVE Describe(Leaves(Kernel), bitmap, ref_cnt) /\ down = FALSE
  OBVIOUS
<1>1. Kernel \in Nat /\ Kernel <= Size /\ Size \in Nat /\ MaxRef \in Nat /\ MaxRef >= 1
  BY BoundsAre, SizeIs
<1>2. \A p \in 0 .. Kernel - 1 : p \in Pages /\ FirstPage(LeafOf(p)) = p
  <2>1. \A p \in 0 .. Kernel - 1 : p \in Pages
    BY <1>1 DEF Pages
  <2> QED BY <2>1, NodePages
<1> DEFINE inUse == {FirstPage(Chosen(Boot[k - 1], 1)) : k \in 1 .. Kernel}
<1>3. inUse = 0 .. Kernel - 1
  <2>1. inUse = {FirstPage(LeafOf(k - 1)) : k \in 1 .. Kernel}
    BY BootConsistent
  <2>2. \A k \in 1 .. Kernel : k - 1 \in 0 .. Kernel - 1
    BY <1>1
  <2>3. \A p \in 0 .. Kernel - 1 : p + 1 \in 1 .. Kernel /\ p + 1 - 1 = p
    BY <1>1
  <2> HIDE DEF inUse
  <2>4. \A k \in 1 .. Kernel : FirstPage(LeafOf(k - 1)) = k - 1
    BY <1>2, <2>2
  <2>5. inUse = {k - 1 : k \in 1 .. Kernel}
    BY <2>1, <2>4
  <2> QED BY <2>2, <2>3, <2>5
<1>4. ref_cnt = [p \in Pages |-> IF p \in inUse THEN 1 ELSE 0] /\ bitmap = Boot[Kernel] /\ down = FALSE
  BY DEF Init
<1> HIDE DEF inUse
<1>5. ref_cnt \in [Pages -> 0 .. MaxRef]
  BY <1>1, <1>4
<1>6. ASSUME NEW p \in Pages PROVE ref_cnt[p] > 0 <=> \E a \in Leaves(Kernel) : FirstPage(a) = p
  <2>1. ref_cnt[p] > 0 <=> p \in 0 .. Kernel - 1
    BY <1>3, <1>4
  <2>2. (\E a \in Leaves(Kernel) : FirstPage(a) = p) <=> \E q \in 0 .. Kernel - 1 : FirstPage(LeafOf(q)) = p
    BY DEF Leaves
  <2> QED BY <1>2, <2>1, <2>2
<1> QED BY <1>4, <1>5, <1>6, BootConsistent DEF Describe, Counted

\* alloc_pages takes the lowest free node of the rounded size.
LEMMA AllocDescribed ==
  ASSUME NEW A, Describe(A, bitmap, ref_cnt), NEW n \in Requests, AllocPages(n)
  PROVE  /\ Lowest(A, Rounded(n), 0, Chosen(bitmap, Rounded(n)))
         /\ Describe(A \cup {Chosen(bitmap, Rounded(n))}, bitmap', ref_cnt')
         /\ down' = down
<1> DEFINE c == Chosen(bitmap, Rounded(n))
<1>1. Consistent(A, bitmap) /\ Counted(A, ref_cnt)
  BY DEF Describe
<1>2. n \in 0 .. Size
  BY BoundsAre
<1>3. Rounded(n) \in NodeSizes /\ Rounded(n) \in Nat
  <2>1. Rounded(n) \in NodeSizes
    BY <1>2, RoundedIs
  <2>2. Rounded(n) \in Powers
    BY <2>1, NodeSizesAre
  <2> QED BY <2>1, <2>2, PowersHold
<1>4. Rounded(n) <= bitmap[0]
  <2>1. bitmap[0] \in Nat
    BY <1>1, Family DEF Consistent, Tree
  <2> QED BY <1>3, <2>1 DEF AllocPages
<1>5. Lowest(A, Rounded(n), 0, c)
  BY <1>1, <1>3, <1>4, ChosenIsLowest
<1>6. c \in Nodes /\ Free(A, c)
  BY <1>5 DEF Lowest
<1>7. bitmap' = Taken(bitmap, c) /\ ref_cnt' = [ref_cnt EXCEPT ![FirstPage(c)] = 1] /\ down' = down
  BY DEF AllocPages
<1> HIDE DEF c
<1>8. Consistent(A \cup {c}, bitmap')
  BY <1>1, <1>6, <1>7, TakenConsistent
<1>9. Counted(A \cup {c}, ref_cnt')
  <2>1. FirstPage(c) \in Pages /\ 1 \in 0 .. MaxRef
    BY <1>6, NodePages, BoundsAre
  <2>2. ref_cnt' \in [Pages -> 0 .. MaxRef]
    BY <1>1, <1>7, <2>1 DEF Counted
  <2>3. ASSUME NEW p \in Pages PROVE ref_cnt'[p] > 0 <=> \E a \in A \cup {c} : FirstPage(a) = p
    <3>1. CASE p = FirstPage(c)
      <4>1. ref_cnt'[p] = 1
        BY <1>1, <1>7, <2>1, <3>1 DEF Counted
      <4> QED BY <3>1, <4>1
    <3>2. CASE p # FirstPage(c)
      <4>1. ref_cnt'[p] = ref_cnt[p]
        BY <1>1, <1>7, <2>1, <3>2 DEF Counted
      <4>2. ref_cnt[p] > 0 <=> \E a \in A : FirstPage(a) = p
        BY <1>1 DEF Counted
      <4> QED BY <3>2, <4>1, <4>2
    <3> QED BY <3>1, <3>2
  <2> QED BY <2>2, <2>3 DEF Counted
<1> QED BY <1>5, <1>7, <1>8, <1>9 DEF c, Describe

\* deref_page gives back the node that starts at the page, if no reference is left.
LEMMA DerefDescribed ==
  ASSUME NEW A, Describe(A, bitmap, ref_cnt), NEW p \in Pages, DerefPage(p)
  PROVE  \E a \in A : /\ FirstPage(a) = p
                      /\ ref_cnt[p] = 1 => Describe(A \ {a}, bitmap', ref_cnt')
                      /\ ref_cnt[p] # 1 => Describe(A, bitmap', ref_cnt') /\ bitmap' = bitmap
<1>1. Consistent(A, bitmap) /\ Counted(A, ref_cnt)
  BY DEF Describe
<1>2. ref_cnt \in [Pages -> 0 .. MaxRef] /\ MaxRef \in Nat
  BY <1>1, BoundsAre DEF Counted
<1>3. ref_cnt[p] \in 1 .. MaxRef
  BY <1>2 DEF DerefPage
<1>4. PICK a \in A : FirstPage(a) = p
  BY <1>1, <1>3 DEF Counted
<1>5. a \in Nodes /\ bitmap[a] = 0 /\ Holder(bitmap, p) = a
  BY <1>1, <1>4, HolderOfRun DEF Consistent
<1>6. /\ ref_cnt' = [ref_cnt EXCEPT ![p] = @ - 1]
      /\ bitmap' = IF ref_cnt'[p] = 0 THEN Given(bitmap, p) ELSE bitmap
  BY DEF DerefPage
<1>7. ref_cnt' \in [Pages -> 0 .. MaxRef] /\ ref_cnt'[p] = ref_cnt[p] - 1
  BY <1>2, <1>3, <1>6
<1>8. \A q \in Pages : q # p => ref_cnt'[q] = ref_cnt[q]
  BY <1>2, <1>6
<1>9. \A q \in Pages : ref_cnt[q] > 0 <=> \E b \in A : FirstPage(b) = q
  BY <1>1 DEF Counted
<1>10. ASSUME ref_cnt[p] = 1 PROVE Describe(A \ {a}, bitmap', ref_cnt')
  <2>1. ref_cnt'[p] = 0
    BY <1>7, <1>10
  <2>2. bitmap' = Rebuilt(bitmap, a, NodeSize[a], Merged)
    <3>1. Given(bitmap, p) = Rebuilt(bitmap, a, NodeSize[a], Merged)
      BY <1>5 DEF Given
    <3> QED BY <1>6, <2>1, <3>1
  <2>3. Consistent(A \ {a}, bitmap')
    BY <1>1, <2>2, GivenConsistent
  <2>4. ASSUME NEW q \in Pages PROVE ref_cnt'[q] > 0 <=> \E b \in A \ {a} : FirstPage(b) = q
    <3>1. CASE q = p
      <4>1. ASSUME NEW b \in A \ {a} PROVE FirstPage(b) # p
        BY <1>1, <1>4, StartsDiffer
      <4> QED BY <2>1, <3>1, <4>1
    <3>2. CASE q # p
      <4>1. ref_cnt'[q] = ref_cnt[q] /\ \A b \in A : FirstPage(b) = q => b # a
        BY <1>4, <1>8, <3>2
      <4> QED BY <1>9, <4>1
    <3> QED BY <3>1, <3>2
  <2> QED BY <1>7, <2>3, <2>4 DEF Describe, Counted
<1>11. ASSUME ref_cnt[p] # 1 PROVE Describe(A, bitmap', ref_cnt') /\ bitmap' = bitmap
  <2>1. ref_cnt'[p] # 0 /\ ref_cnt'[p] > 0
    BY <1>3, <1>7, <1>11
  <2>2. bitmap' = bitmap
    BY <1>6, <2>1
  <2>3. ASSUME NEW q \in Pages PROVE ref_cnt'[q] > 0 <=> \E b \in A : FirstPage(b) = q
    BY <1>4, <1>8, <1>9, <2>1
  <2> QED BY <1>1, <1>7, <2>2, <2>3 DEF Describe, Counted
<1> QED BY <1>4, <1>10, <1>11

\* ref_page adds a reference to a run.
LEMMA RefDescribed ==
  ASSUME NEW A, Describe(A, bitmap, ref_cnt), NEW p \in Pages, RefPage(p)
  PROVE  Describe(A, bitmap', ref_cnt') /\ bitmap' = bitmap
<1>1. Consistent(A, bitmap) /\ Counted(A, ref_cnt) /\ bitmap' = bitmap
  BY DEF Describe, RefPage
<1>2. ref_cnt \in [Pages -> 0 .. MaxRef] /\ MaxRef \in Nat
  BY <1>1, BoundsAre DEF Counted
<1>3. CASE ref_cnt[p] = 0
  BY <1>1, <1>3 DEF RefPage, Describe
<1>4. CASE ref_cnt[p] # 0
  <2>1. ref_cnt' = [ref_cnt EXCEPT ![p] = @ + 1] /\ ref_cnt[p] < MaxRef
    BY <1>4 DEF RefPage
  <2>2. ref_cnt[p] \in 1 .. MaxRef - 1
    BY <1>2, <1>4, <2>1
  <2>3. ref_cnt' \in [Pages -> 0 .. MaxRef] /\ ref_cnt'[p] > 0
    BY <1>2, <2>1, <2>2
  <2>4. ASSUME NEW q \in Pages PROVE ref_cnt'[q] > 0 <=> ref_cnt[q] > 0
    <3>1. q # p => ref_cnt'[q] = ref_cnt[q]
      BY <1>2, <2>1
    <3> QED BY <2>2, <2>3, <3>1
  <2> QED BY <1>1, <2>3, <2>4 DEF Describe, Counted
<1> QED BY <1>3, <1>4

\* The pages of callers are pages.
LEMMA CallersHavePages == CallerPages \subseteq Pages
BY BoundsAre, SizeIs DEF CallerPages, Pages

LEMMA TreeStarts == Init => TreeInv
<1> SUFFICES ASSUME Init PROVE TreeInv
  OBVIOUS
<1>1. Leaves(Kernel) \in SUBSET Nodes
  BY BootDescribed DEF Describe, Consistent
<1> QED BY <1>1, BootDescribed DEF TreeInv

LEMMA TreeSteps == TreeInv /\ [Next]_vars => TreeInv'
<1> SUFFICES ASSUME TreeInv, [Next]_vars PROVE TreeInv'
  OBVIOUS
<1>1. PICK A \in SUBSET Nodes : Describe(A, bitmap, ref_cnt)
  BY DEF TreeInv
<1>2. down \in BOOLEAN
  BY DEF TreeInv
<1>3. \A B : Describe(B, bitmap', ref_cnt') /\ down' \in BOOLEAN => TreeInv'
  BY DEF TreeInv, Describe, Consistent
<1>4. ASSUME NEW n \in Requests, AllocPages(n) PROVE TreeInv'
  BY <1>1, <1>2, <1>3, <1>4, AllocDescribed
<1>5. ASSUME NEW n \in Requests, OutOfMemory(n) PROVE TreeInv'
  BY <1>1, <1>3, <1>5 DEF OutOfMemory
<1>6. ASSUME NEW p \in CallerPages, RefPage(p) PROVE TreeInv'
  <2>1. down' = down
    BY <1>6 DEF RefPage
  <2> QED BY <1>1, <1>2, <1>3, <1>6, <2>1, CallersHavePages, RefDescribed
<1>7. ASSUME NEW p \in CallerPages, DerefPage(p) PROVE TreeInv'
  <2>1. down' = down
    BY <1>7 DEF DerefPage
  <2> QED BY <1>1, <1>2, <1>3, <1>7, <2>1, CallersHavePages, DerefDescribed
<1>8. CASE UNCHANGED vars
  BY <1>1, <1>2, <1>3, <1>8 DEF vars
<1> QED BY <1>4, <1>5, <1>6, <1>7, <1>8 DEF Next, FreePages

\* The bits, counters and sizes stay within their bounds.
THEOREM BuddyTyped == Spec => []TypeOK
<1>1. ASSUME TreeInv PROVE TypeOK
  <2>1. PICK A \in SUBSET Nodes : Describe(A, bitmap, ref_cnt)
    BY <1>1 DEF TreeInv
  <2>2. Consistent(A, bitmap) /\ Counted(A, ref_cnt)
    BY <2>1 DEF Describe
  <2>3. bitmap \in [Nodes -> Nat]
    BY <2>2 DEF Consistent, Tree
  <2>4. \A k \in Nodes : bitmap[k] \in 0 .. Size
    <3>1. \A k \in Nodes : bitmap[k] \in Nat /\ bitmap[k] <= NodeSize[k] /\ NodeSize[k] <= Size /\ NodeSize[k] \in Nat
      BY <2>2, ConsistentBounded, NodePages
    <3> QED BY <3>1, SizeIs
  <2> QED BY <1>1, <2>2, <2>3, <2>4 DEF TypeOK, TreeInv, Counted
<1>2. Spec => []TreeInv
  BY TreeStarts, TreeSteps, PTL DEF Spec
<1> QED BY <1>1, <1>2, PTL

-----------------------------------------------------------------------------
(***************************************************************************)
(* What callers see: runs of pages.                                        *)
(***************************************************************************)
\* The sizes of the runs, by their first pages, when A is allocated.
SizesFor(A, sz) ==
  \A p \in Pages : /\ (\A a \in A : FirstPage(a) # p) => sz[p] = 0
                   /\ \A a \in A : FirstPage(a) = p => sz[p] = NodeSize[a]

RunSizes(bm, rc) == [p \in Pages |-> IF rc[p] = 0 THEN 0 ELSE NodeSize[Holder(bm, p)]]

\* SizeOf finds the size of every run.
LEMMA SizesFound ==
  ASSUME NEW A, NEW bm, NEW rc, Describe(A, bm, rc)
  PROVE  SizesFor(A, RunSizes(bm, rc))
<1>1. Consistent(A, bm) /\ rc \in [Pages -> 0 .. MaxRef] /\ \A p \in Pages : rc[p] > 0 <=> \E a \in A : FirstPage(a) = p
  BY DEF Describe, Counted
<1>2. ASSUME NEW p \in Pages, \A a \in A : FirstPage(a) # p PROVE RunSizes(bm, rc)[p] = 0
  <2>1. rc[p] = 0
    BY <1>1, <1>2, BoundsAre
  <2> QED BY <2>1 DEF RunSizes
<1>3. ASSUME NEW p \in Pages, NEW a \in A, FirstPage(a) = p PROVE RunSizes(bm, rc)[p] = NodeSize[a]
  <2>1. rc[p] # 0
    BY <1>1, <1>3
  <2>2. Holder(bm, p) = a
    BY <1>1, <1>3, HolderOfRun
  <2> QED BY <2>1, <2>2 DEF RunSizes
<1> QED BY <1>2, <1>3 DEF SizesFor

\* A run is taken ...
LEMMA SizesTaken ==
  ASSUME NEW A, NEW bm, NEW rc, Describe(A, bm, rc), NEW c \in Nodes, Free(A, c),
         NEW bm2, NEW rc2, Describe(A \cup {c}, bm2, rc2)
  PROVE  RunSizes(bm2, rc2) = [RunSizes(bm, rc) EXCEPT ![FirstPage(c)] = NodeSize[c]]
<1> DEFINE old == RunSizes(bm, rc)
           new == [old EXCEPT ![FirstPage(c)] = NodeSize[c]]
<1>1. old = [p \in Pages |-> old[p]]
  BY DEF RunSizes
<1>2. SizesFor(A, old)
  BY SizesFound
<1> HIDE DEF old
<1>3. FirstPage(c) \in Pages /\ FirstPage(c) \in Span(c)
  BY NodePages
<1>4. \A a \in A : FirstPage(a) # FirstPage(c)
  <2>1. \A a \in A : a \in Nodes /\ FirstPage(a) \in Span(a)
    BY NodePages DEF Describe, Consistent
  <2> QED BY <1>3, <2>1 DEF Free, Apart
<1>5. \A p \in Pages : new[p] = IF p = FirstPage(c) THEN NodeSize[c] ELSE old[p]
  BY <1>1
<1>6. SizesFor(A \cup {c}, new)
  <2> HIDE DEF new
  <2>1. ASSUME NEW p \in Pages, \A a \in A \cup {c} : FirstPage(a) # p PROVE new[p] = 0
    BY <1>2, <1>5, <2>1 DEF SizesFor
  <2>2. ASSUME NEW p \in Pages, NEW a \in A \cup {c}, FirstPage(a) = p PROVE new[p] = NodeSize[a]
    <3>1. CASE a = c
      BY <1>5, <2>2, <3>1
    <3>2. CASE a # c
      <4>1. a \in A /\ p # FirstPage(c)
        BY <1>4, <2>2, <3>2
      <4> QED BY <1>2, <1>5, <2>2, <4>1 DEF SizesFor
    <3> QED BY <3>1, <3>2
  <2> QED BY <2>1, <2>2 DEF SizesFor
<1>7. new = [p \in Pages |-> new[p]]
  BY <1>1
<1>8. SizesFor(A \cup {c}, RunSizes(bm2, rc2)) /\ RunSizes(bm2, rc2) = [p \in Pages |-> RunSizes(bm2, rc2)[p]]
  <2>1. SizesFor(A \cup {c}, RunSizes(bm2, rc2))
    BY SizesFound
  <2> QED BY <2>1 DEF RunSizes
<1> HIDE DEF new
<1>9. RunSizes(bm2, rc2) = new
  <2> DEFINE s2 == RunSizes(bm2, rc2)
  <2>1. SizesFor(A \cup {c}, s2) /\ s2 = [p \in Pages |-> s2[p]]
    BY <1>8
  <2> HIDE DEF s2
  <2>2. \A p \in Pages : s2[p] = new[p]
    BY <1>6, <2>1 DEF SizesFor
  <2>3. s2 = new
    BY <1>7, <2>1, <2>2
  <2> QED BY <2>3 DEF s2
<1> QED BY <1>9 DEF new, old

\* ... and released ...
LEMMA SizesReleased ==
  ASSUME NEW A, NEW bm, NEW rc, Describe(A, bm, rc), NEW a \in A,
         NEW bm2, NEW rc2, Describe(A \ {a}, bm2, rc2)
  PROVE  RunSizes(bm2, rc2) = [RunSizes(bm, rc) EXCEPT ![FirstPage(a)] = 0]
<1> DEFINE old == RunSizes(bm, rc)
           s2 == RunSizes(bm2, rc2)
<1>1. old = [p \in Pages |-> old[p]] /\ s2 = [p \in Pages |-> s2[p]]
  BY DEF RunSizes
<1>2. SizesFor(A, old) /\ SizesFor(A \ {a}, s2)
  BY SizesFound
<1> HIDE DEF old, s2
<1>3. \A b \in A : FirstPage(b) = FirstPage(a) => b = a
  BY StartsDiffer DEF Describe
<1>4. ASSUME NEW p \in Pages PROVE s2[p] = IF p = FirstPage(a) THEN 0 ELSE old[p]
  <2>1. CASE p = FirstPage(a)
    <3>1. \A b \in A \ {a} : FirstPage(b) # p
      BY <1>3, <2>1
    <3> QED BY <1>2, <2>1, <3>1 DEF SizesFor
  <2>2. CASE p # FirstPage(a)
    <3>1. \A b \in A : FirstPage(b) = p => b \in A \ {a}
      BY <2>2
    <3> QED BY <1>2, <2>2, <3>1 DEF SizesFor
  <2> QED BY <2>1, <2>2
<1>5. s2 = [old EXCEPT ![FirstPage(a)] = 0]
  BY <1>1, <1>4
<1> QED BY <1>5 DEF old, s2

\* ... and otherwise stays.
LEMMA SizesKept ==
  ASSUME NEW A, NEW bm, NEW rc, Describe(A, bm, rc), NEW bm2, NEW rc2, Describe(A, bm2, rc2)
  PROVE  RunSizes(bm2, rc2) = RunSizes(bm, rc)
<1> DEFINE s == RunSizes(bm, rc)
           s2 == RunSizes(bm2, rc2)
<1>1. s = [p \in Pages |-> s[p]] /\ s2 = [p \in Pages |-> s2[p]]
  BY DEF RunSizes
<1>2. SizesFor(A, s) /\ SizesFor(A, s2)
  BY SizesFound
<1> HIDE DEF s, s2
<1>3. \A p \in Pages : s[p] = s2[p]
  BY <1>2 DEF SizesFor
<1>4. s = s2
  BY <1>1, <1>3
<1> QED BY <1>4 DEF s, s2

\* The run of an allocated node is its pages.
LEMMA RunsAreNodes ==
  ASSUME NEW A, Describe(A, bitmap, ref_cnt)
  PROVE  /\ \A a \in A : FirstPage(a) \in Pages /\ ref_cnt[FirstPage(a)] > 0 /\ Run(FirstPage(a)) = Span(a)
         /\ {Run(p) : p \in {q \in Pages : ref_cnt[q] > 0}} = {Span(a) : a \in A}
<1>1. Consistent(A, bitmap) /\ \A p \in Pages : ref_cnt[p] > 0 <=> \E a \in A : FirstPage(a) = p
  BY DEF Describe, Counted
<1>2. ASSUME NEW a \in A
      PROVE  FirstPage(a) \in Pages /\ ref_cnt[FirstPage(a)] > 0 /\ Run(FirstPage(a)) = Span(a)
  <2>1. a \in Nodes /\ FirstPage(a) \in Pages
    BY <1>1, NodePages DEF Consistent
  <2>2. ref_cnt[FirstPage(a)] > 0
    BY <1>1, <2>1
  <2>3. ref_cnt[FirstPage(a)] # 0
    BY <2>2
  <2>4. SizeOf(FirstPage(a)) = NodeSize[a]
    BY <1>1, <2>3, HolderOfRun DEF SizeOf
  <2> QED BY <2>1, <2>2, <2>4 DEF Run, Span
<1>3. ASSUME NEW p \in Pages, ref_cnt[p] > 0 PROVE \E a \in A : Run(p) = Span(a)
  <2>1. PICK a \in A : FirstPage(a) = p
    BY <1>1, <1>3
  <2>2. Run(p) = Span(a)
    BY <1>2, <2>1
  <2> QED BY <2>2
<1> QED BY <1>2, <1>3

\* Every node that buddy_alloc can look at holds the longest free run below it.
THEOREM BuddyTreeIsExact == Spec => []TreeExact
<1>1. ASSUME TreeInv PROVE TreeExact
  <2>1. PICK A \in SUBSET Nodes : Describe(A, bitmap, ref_cnt)
    BY <1>1 DEF TreeInv
  <2>2. Consistent(A, bitmap)
    BY <2>1 DEF Describe
  <2> DEFINE runs == {Run(p) : p \in {q \in Pages : ref_cnt[q] > 0}}
             busy == UNION runs
             below(i) == {k \in Nodes : Span(k) \subseteq Span(i) /\ Span(k) \cap busy = {}}
  <2>3. runs = {Span(a) : a \in A}
    BY <2>1, RunsAreNodes
  <2>4. ASSUME NEW k \in Nodes PROVE Span(k) \cap busy = {} <=> Free(A, k)
    BY <2>3 DEF Free, Apart
  <2>5. ASSUME NEW i \in Nodes, \A r \in runs : ~(Span(i) \subseteq r /\ Span(i) # r)
        PROVE  Open(A, i) \/ i \in A
    <3>1. SUFFICES ASSUME NEW a \in A, Under(i, a) PROVE i \in A
      BY DEF Open
    <3>2. Span(i) = Span(a)
      <4>1. Span(a) \in runs
        BY <2>3
      <4> HIDE DEF runs
      <4> QED BY <2>5, <3>1, <4>1 DEF Under
    <3>3. Under(a, i)
      BY <3>2 DEF Under
    <3> QED BY <3>1, <3>3, UnderOrApart
  <2>6. ASSUME NEW i \in Nodes, \A r \in runs : ~(Span(i) \subseteq r /\ Span(i) # r)
        PROVE  /\ \A k \in below(i) : NodeSize[k] <= bitmap[i]
               /\ bitmap[i] # 0 => \E k \in below(i) : NodeSize[k] = bitmap[i]
    <3>1. Exact(A, bitmap, i)
      BY <2>2, <2>5, <2>6, ConsistentExact
    <3> HIDE DEF busy, runs
    <3>2. \A k \in Nodes : k \in below(i) <=> Under(k, i) /\ Free(A, k)
      BY <2>4 DEF Under
    <3>3. below(i) \subseteq Nodes
      OBVIOUS
    <3> HIDE DEF below
    <3> QED BY <3>1, <3>2, <3>3 DEF Exact
  <2> QED BY <2>6, Zenon DEF TreeExact
<1>2. Spec => []TreeInv
  BY TreeStarts, TreeSteps, PTL DEF Spec
<1> QED BY <1>1, <1>2, PTL

-----------------------------------------------------------------------------
(***************************************************************************)
(* The tree implements PageAlloc.                                          *)
(***************************************************************************)
\* The free runs of m pages are the free nodes of m pages.
LEMMA FreeRunsAreNodes ==
  ASSUME NEW A, NEW bm, NEW rc, Describe(A, bm, rc), NEW m \in NodeSizes
  PROVE  Allocator!RunsIn(Allocator!FreePages(RunSizes(bm, rc)), m) =
           {FirstPage(k) : k \in {j \in Nodes : NodeSize[j] = m /\ Free(A, j)}}
<1> DEFINE sz == RunSizes(bm, rc)
           F == Allocator!FreePages(sz)
<1>1. Consistent(A, bm) /\ SizesFor(A, sz)
  BY SizesFound DEF Describe
<1>2. Allocator!Pages = Pages /\ Pages \subseteq Nat
  BY SizeIs DEF Allocator!Pages, Pages
<1>3. m \in Powers /\ m <= Size /\ m \in Nat \ {0}
  BY NodeSizesAre, PowersHold
<1> HIDE DEF sz
<1>4. ASSUME NEW a \in A PROVE a \in Nodes /\ Allocator!Run(FirstPage(a), sz[FirstPage(a)]) = Span(a)
  <2>1. a \in Nodes /\ FirstPage(a) \in Pages
    BY <1>1, NodePages DEF Consistent
  <2>2. sz[FirstPage(a)] = NodeSize[a]
    BY <1>1, <2>1 DEF SizesFor
  <2> QED BY <2>1, <2>2 DEF Allocator!Run, Span
<1>5. ASSUME NEW p \in Pages PROVE Allocator!Run(p, sz[p]) = {} \/ \E a \in A : Allocator!Run(p, sz[p]) = Span(a)
  <2>1. CASE \A a \in A : FirstPage(a) # p
    <3>1. sz[p] = 0 /\ p \in Nat
      BY <1>1, <1>2, <2>1 DEF SizesFor
    <3> QED BY <3>1 DEF Allocator!Run
  <2>2. CASE \E a \in A : FirstPage(a) = p
    BY <1>4, <2>2
  <2> QED BY <2>1, <2>2
<1>6. Allocator!Busy(sz) = UNION {Span(a) : a \in A}
  <2>1. Allocator!Busy(sz) \subseteq UNION {Span(a) : a \in A}
    BY <1>2, <1>5 DEF Allocator!Busy
  <2>2. \A a \in A : Span(a) \subseteq Allocator!Busy(sz)
    <3>1. \A a \in A : FirstPage(a) \in Pages
      BY <1>4, NodePages
    <3> QED BY <1>2, <1>4, <3>1 DEF Allocator!Busy
  <2> QED BY <2>1, <2>2
<1>7. F = Pages \ UNION {Span(a) : a \in A}
  BY <1>2, <1>6 DEF Allocator!FreePages
<1> HIDE DEF F
<1>8. ASSUME NEW k \in Nodes, NodeSize[k] = m
      PROVE  Allocator!Run(FirstPage(k), m) = Span(k) /\ (Span(k) \subseteq F <=> Free(A, k))
  <2>1. Allocator!Run(FirstPage(k), m) = Span(k)
    BY <1>8 DEF Allocator!Run, Span
  <2>2. Span(k) \subseteq Pages
    BY NodePages
  <2>3. Span(k) \subseteq F <=> Span(k) \cap (UNION {Span(a) : a \in A}) = {}
    BY <1>7, <2>2
  <2>4. Span(k) \cap (UNION {Span(a) : a \in A}) = {} <=> Free(A, k)
    BY DEF Free, Apart
  <2> QED BY <2>1, <2>3, <2>4
<1>9. ASSUME NEW k \in Nodes, NodeSize[k] = m, Free(A, k)
      PROVE  FirstPage(k) \in Allocator!RunsIn(F, m)
  <2>1. Span(k) \subseteq F /\ FirstPage(k) \in Span(k) /\ FirstPage(k) % m = 0
    BY <1>8, <1>9, NodePages, NodesAligned
  <2> QED BY <1>8, <1>9, <2>1 DEF Allocator!RunsIn
<1>10. ASSUME NEW p \in Allocator!RunsIn(F, m)
       PROVE  \E k \in Nodes : NodeSize[k] = m /\ Free(A, k) /\ FirstPage(k) = p
  <2>1. p \in F /\ p % m = 0 /\ Allocator!Run(p, m) \subseteq F
    BY DEF Allocator!RunsIn
  <2>2. p \in Pages
    BY <1>7, <2>1
  <2>3. PICK k \in Nodes : NodeSize[k] = m /\ FirstPage(k) = p
    BY <1>3, <2>1, <2>2, RunIsNode
  <2> QED BY <1>8, <2>1, <2>3
<1>11. Allocator!RunsIn(F, m) = {FirstPage(k) : k \in {j \in Nodes : NodeSize[j] = m /\ Free(A, j)}}
  BY <1>9, <1>10
<1> QED BY <1>11 DEF F, sz

\* Both sides round a request in the same way.
LEMMA RoundedAlike ==
  ASSUME NEW n \in 0 .. Size
  PROVE  Allocator!Rounded(n) = {Rounded(n)} /\ Rounded(n) \in NodeSizes
<1>1. Rounded(n) \in NodeSizes /\ n <= Rounded(n) /\ \A m \in NodeSizes : n <= m => Rounded(n) <= m
  BY RoundedIs
<1>2. \A m \in NodeSizes : m \in Nat
  BY NodeSizesAre, PowersHold
<1>3. n \in Nat
  BY SizeIs
<1>4. Rounded(n) \in Allocator!Rounded(n)
  BY <1>1, <1>2, <1>3 DEF Allocator!Rounded
<1>5. ASSUME NEW m \in Allocator!Rounded(n) PROVE m = Rounded(n)
  <2>1. m \in NodeSizes /\ m >= n /\ \A k \in NodeSizes : k >= n => m <= k
    BY DEF Allocator!Rounded
  <2>2. m <= Rounded(n) /\ Rounded(n) <= m
    BY <1>1, <1>2, <1>3, <2>1
  <2> QED BY <1>1, <1>2, <2>1, <2>2
<1> QED BY <1>1, <1>4, <1>5

\* The sizes that the refinement mapping gives to the runs.
LEMMA MappedSizes ==
  /\ [p \in Pages |-> SizeOf(p)] = RunSizes(bitmap, ref_cnt)
  /\ [p \in Pages |-> SizeOf(p)]' = RunSizes(bitmap', ref_cnt')
BY DEF RunSizes, SizeOf

LEMMA AllocatorInit == Init => Allocator!Init
<1> SUFFICES ASSUME Init PROVE Allocator!Init
  OBVIOUS
<1>1. Describe(Leaves(Kernel), bitmap, ref_cnt) /\ down = FALSE
  BY BootDescribed
<1>2. SizesFor(Leaves(Kernel), RunSizes(bitmap, ref_cnt))
  BY <1>1, SizesFound
<1>3. Allocator!Pages = Pages /\ Kernel \in Nat /\ Kernel <= Size /\ Size \in Nat
  BY BoundsAre, SizeIs DEF Allocator!Pages, Pages
<1> DEFINE boot == [p \in Pages |-> IF p < Kernel THEN 1 ELSE 0]
<1>4. \A q \in 0 .. Kernel - 1 : q \in Pages /\ NodeSize[LeafOf(q)] = 1 /\ FirstPage(LeafOf(q)) = q
  <2>1. \A q \in 0 .. Kernel - 1 : q \in Pages
    BY <1>3 DEF Pages
  <2> QED BY <2>1, NodePages
<1>5. ASSUME NEW p \in Pages
      PROVE  /\ p < Kernel <=> \E a \in Leaves(Kernel) : FirstPage(a) = p
             /\ RunSizes(bitmap, ref_cnt)[p] = boot[p]
  <2>1. p < Kernel <=> p \in 0 .. Kernel - 1
    BY <1>3 DEF Pages
  <2>2. p \in 0 .. Kernel - 1 <=> \E a \in Leaves(Kernel) : FirstPage(a) = p
    BY <1>4 DEF Leaves
  <2>3. CASE p < Kernel
    <3>1. RunSizes(bitmap, ref_cnt)[p] = NodeSize[LeafOf(p)]
      BY <1>2, <1>4, <2>1, <2>3 DEF SizesFor, Leaves
    <3> QED BY <1>4, <2>1, <2>2, <2>3, <3>1
  <2>4. CASE ~(p < Kernel)
    BY <1>2, <2>1, <2>2, <2>4 DEF SizesFor
  <2> QED BY <2>3, <2>4
<1>6. RunSizes(bitmap, ref_cnt) = boot
  <2>1. RunSizes(bitmap, ref_cnt) = [p \in Pages |-> RunSizes(bitmap, ref_cnt)[p]]
    BY DEF RunSizes
  <2> QED BY <1>5, <2>1
<1>7. ref_cnt = boot
  <2>1. Counted(Leaves(Kernel), ref_cnt)
    BY <1>1 DEF Describe
  <2>2. ref_cnt \in [Pages -> {0, 1}]
    <3> DEFINE inUse == {FirstPage(Chosen(Boot[k - 1], 1)) : k \in 1 .. Kernel}
    <3>1. ref_cnt = [p \in Pages |-> IF p \in inUse THEN 1 ELSE 0]
      BY DEF Init
    <3> HIDE DEF inUse
    <3> QED BY <3>1
  <2>3. \A p \in Pages : ref_cnt[p] > 0 <=> p < Kernel
    BY <1>5, <2>1 DEF Counted
  <2>4. \A p \in Pages : ref_cnt[p] = boot[p]
    BY <2>2, <2>3
  <2> QED BY <2>2, <2>4
<1> QED BY <1>1, <1>3, <1>6, <1>7, MappedSizes DEF Allocator!Init

LEMMA AllocatorStep == TreeInv /\ [Next]_vars => [Allocator!Next]_(Allocator!vars)
<1> SUFFICES ASSUME TreeInv, [Next]_vars PROVE Allocator!Next \/ UNCHANGED Allocator!vars
  OBVIOUS
<1> DEFINE sz == [p \in Pages |-> SizeOf(p)]
<1>1. PICK A \in SUBSET Nodes : Describe(A, bitmap, ref_cnt)
  BY DEF TreeInv
<1>2. Consistent(A, bitmap) /\ ref_cnt \in [Pages -> 0 .. MaxRef] /\ MaxRef \in Nat
  BY <1>1, BoundsAre DEF Describe, Counted
<1>3. Allocator!Pages = Pages
  BY DEF Allocator!Pages, Pages
<1>4. sz = RunSizes(bitmap, ref_cnt) /\ sz' = RunSizes(bitmap', ref_cnt')
  BY MappedSizes
<1>5. ASSUME NEW n \in Requests
      PROVE  /\ Rounded(n) \in NodeSizes /\ Allocator!Rounded(n) = {Rounded(n)}
             /\ Allocator!RunsIn(Allocator!FreePages(sz), Rounded(n)) =
                  {FirstPage(k) : k \in {j \in Nodes : NodeSize[j] = Rounded(n) /\ Free(A, j)}}
  <2>1. n \in 0 .. Size
    BY BoundsAre
  <2>2. Rounded(n) \in NodeSizes /\ Allocator!Rounded(n) = {Rounded(n)}
    BY <2>1, RoundedAlike
  <2> QED BY <1>1, <1>4, <2>2, FreeRunsAreNodes
<1>6. ASSUME NEW n \in Requests, AllocPages(n) PROVE Allocator!Alloc(n)
  <2> DEFINE m == Rounded(n)
             c == Chosen(bitmap, m)
             runs == Allocator!RunsIn(Allocator!FreePages(sz), m)
  <2>1. Lowest(A, m, 0, c) /\ Describe(A \cup {c}, bitmap', ref_cnt') /\ down' = down
    BY <1>1, <1>6, AllocDescribed
  <2>2. c \in Nodes /\ NodeSize[c] = m /\ Free(A, c)
    BY <2>1 DEF Lowest
  <2>3. ~down /\ ref_cnt' = [ref_cnt EXCEPT ![FirstPage(c)] = 1]
    BY <1>6 DEF AllocPages
  <2>4. runs = {FirstPage(k) : k \in {j \in Nodes : NodeSize[j] = m /\ Free(A, j)}}
    BY <1>5
  <2>5. sz' = [sz EXCEPT ![FirstPage(c)] = m]
    BY <1>1, <1>4, <2>1, <2>2, SizesTaken
  <2> HIDE DEF c, runs
  <2>6. FirstPage(c) \in runs
    BY <2>2, <2>4
  <2>7. \A q \in runs : FirstPage(c) <= q
    <3>1. \A k \in Nodes : Under(k, 0)
      BY NodePages DEF Under
    <3> QED BY <2>1, <2>4, <3>1 DEF Lowest
  <2>8. Allocator!Rounded(n) = {m}
    BY <1>5
  <2> HIDE DEF m
  <2>9. Allocator!IsFirst(FirstPage(c), runs)
    BY <2>6, <2>7 DEF Allocator!IsFirst
  <2> USE DEF runs
  <2> HIDE DEF sz
  <2>10. \E mm \in Allocator!Rounded(n) : \E p \in Allocator!RunsIn(Allocator!FreePages(sz), mm) :
           /\ Allocator!IsFirst(p, Allocator!RunsIn(Allocator!FreePages(sz), mm))
           /\ sz' = [sz EXCEPT ![p] = mm]
           /\ ref_cnt' = [ref_cnt EXCEPT ![p] = 1]
    BY <2>3, <2>5, <2>6, <2>8, <2>9, Zenon
  <2> QED BY <2>1, <2>3, <2>10 DEF Allocator!Alloc, sz
<1>7. ASSUME NEW n \in Requests, OutOfMemory(n) PROVE Allocator!OutOfMemory(n)
  <2>1. ~down /\ down' = TRUE /\ bitmap[0] < Rounded(n) /\ bitmap' = bitmap /\ ref_cnt' = ref_cnt
    BY <1>7 DEF OutOfMemory
  <2>2. Allocator!RunsIn(Allocator!FreePages(sz), Rounded(n)) = {}
    <3>1. ASSUME NEW k \in Nodes, NodeSize[k] = Rounded(n), Free(A, k) PROVE FALSE
      <4>1. Rounded(n) <= bitmap[0]
        BY <1>2, <3>1, RootHolds
      <4>2. bitmap[0] \in Nat /\ Rounded(n) \in Nat
        BY <1>2, <3>1, Family, NodePages DEF Consistent, Tree
      <4> QED BY <2>1, <4>1, <4>2
    <3> QED BY <1>5, <3>1
  <2>3. sz' = sz
    BY <1>4, <2>1
  <2>4. \A mm \in Allocator!Rounded(n) : Allocator!RunsIn(Allocator!FreePages(sz), mm) = {}
    BY <1>5, <2>2
  <2> QED BY <2>1, <2>3, <2>4 DEF Allocator!OutOfMemory
<1>8. ASSUME NEW p \in Pages, RefPage(p) PROVE Allocator!Ref(p) \/ UNCHANGED Allocator!vars
  <2>1. ~down /\ down' = down /\ bitmap' = bitmap
    BY <1>8 DEF RefPage
  <2>2. sz' = sz
    BY <1>1, <1>4, <1>8, RefDescribed, SizesKept
  <2>3. CASE ref_cnt[p] = 0
    <3>1. ref_cnt' = ref_cnt
      BY <1>8, <2>3 DEF RefPage
    <3> QED BY <2>1, <2>2, <3>1 DEF Allocator!vars
  <2>4. CASE ref_cnt[p] # 0
    <3>1. ref_cnt' = [ref_cnt EXCEPT ![p] = @ + 1] /\ ref_cnt[p] > 0
      BY <1>2, <1>8, <2>4 DEF RefPage
    <3> QED BY <2>1, <2>2, <3>1 DEF Allocator!Ref
  <2> QED BY <2>3, <2>4
<1>9. ASSUME NEW p \in Pages, DerefPage(p) PROVE Allocator!Deref(p)
  <2>1. ~down /\ down' = down /\ ref_cnt[p] # 0 /\ ref_cnt' = [ref_cnt EXCEPT ![p] = @ - 1]
    BY <1>9 DEF DerefPage
  <2>2. ref_cnt[p] > 0
    BY <1>2, <2>1
  <2>3. PICK a \in A : /\ FirstPage(a) = p
                       /\ ref_cnt[p] = 1 => Describe(A \ {a}, bitmap', ref_cnt')
                       /\ ref_cnt[p] # 1 => Describe(A, bitmap', ref_cnt')
    BY <1>1, <1>9, DerefDescribed
  <2>4. sz' = IF ref_cnt[p] = 1 THEN [sz EXCEPT ![p] = 0] ELSE sz
    <3>1. CASE ref_cnt[p] = 1
      BY <1>1, <1>4, <2>3, <3>1, SizesReleased
    <3>2. CASE ref_cnt[p] # 1
      BY <1>1, <1>4, <2>3, <3>2, SizesKept
    <3> QED BY <3>1, <3>2
  <2> QED BY <2>1, <2>2, <2>4 DEF Allocator!Deref
<1>10. CASE UNCHANGED vars
  <2>1. sz' = sz
    BY <1>4, <1>10 DEF vars
  <2> QED BY <1>10, <2>1 DEF vars, Allocator!vars
<1>11. CallerPages \subseteq Pages
  BY CallersHavePages
<1> QED BY <1>3, <1>6, <1>7, <1>8, <1>9, <1>10, <1>11, Zenon DEF Next, FreePages, Allocator!Next

\* For every number of pages, requests and references, the tree hands out and
\* takes back the runs that the allocator of mm.h promises.
THEOREM BuddyImplementsPageAlloc == Spec => ImplementsPageAlloc
<1>1. Init => TreeInv /\ Allocator!Init
  BY TreeStarts, AllocatorInit
<1>2. TreeInv /\ [Next]_vars => TreeInv' /\ [Allocator!Next]_(Allocator!vars)
  BY TreeSteps, AllocatorStep
<1> QED
  BY <1>1, <1>2, PTL DEF Spec, ImplementsPageAlloc, Allocator!Spec

\* A run that is in use is one allocated node, so no page belongs to two runs,
\* and a page with references starts a run.
THEOREM BuddyRunsAreApart == Spec => [](Allocator!RunsDisjoint /\ Allocator!HeldIffReferenced)
<1>1. ASSUME TreeInv PROVE Allocator!RunsDisjoint /\ Allocator!HeldIffReferenced
  <2>1. PICK A \in SUBSET Nodes : Describe(A, bitmap, ref_cnt)
    BY <1>1 DEF TreeInv
  <2>2. Consistent(A, bitmap) /\ \A p \in Pages : ref_cnt[p] > 0 <=> \E a \in A : FirstPage(a) = p
    BY <2>1 DEF Describe, Counted
  <2>3. Allocator!Pages = Pages /\ Pages \subseteq Nat
    BY SizeIs DEF Allocator!Pages, Pages
  <2> DEFINE sz == [p \in Pages |-> SizeOf(p)]
  <2>4. SizesFor(A, sz)
    BY <2>1, SizesFound, MappedSizes
  <2> HIDE DEF sz
  <2>5. ASSUME NEW p \in Pages
        PROVE  \/ sz[p] = 0 /\ ~ (ref_cnt[p] > 0) /\ Allocator!Run(p, sz[p]) = {}
               \/ sz[p] > 0 /\ ref_cnt[p] > 0 /\ \E a \in A : FirstPage(a) = p /\ Allocator!Run(p, sz[p]) = Span(a)
    <3>1. CASE \A a \in A : FirstPage(a) # p
      <4>1. sz[p] = 0 /\ ~ (ref_cnt[p] > 0) /\ p \in Nat
        BY <2>2, <2>3, <2>4, <3>1 DEF SizesFor
      <4>2. Allocator!Run(p, 0) = {}
        BY <4>1 DEF Allocator!Run
      <4> QED BY <4>1, <4>2
    <3>2. CASE \E a \in A : FirstPage(a) = p
      <4>1. PICK a \in A : FirstPage(a) = p
        BY <3>2
      <4>2. sz[p] = NodeSize[a] /\ ref_cnt[p] > 0 /\ a \in Nodes
        BY <2>2, <2>4, <4>1 DEF SizesFor, Consistent
      <4>3. NodeSize[a] > 0
        BY <4>2, NodePages
      <4>4. Allocator!Run(p, sz[p]) = Span(a)
        BY <4>1, <4>2 DEF Allocator!Run, Span
      <4> QED BY <4>1, <4>2, <4>3, <4>4
    <3> QED BY <3>1, <3>2
  <2>6. ASSUME NEW p \in Pages, NEW q \in Pages, p # q
        PROVE  Allocator!Run(p, sz[p]) \cap Allocator!Run(q, sz[q]) = {}
    <3>1. CASE Allocator!Run(p, sz[p]) = {} \/ Allocator!Run(q, sz[q]) = {}
      BY <3>1
    <3>2. CASE ~(Allocator!Run(p, sz[p]) = {} \/ Allocator!Run(q, sz[q]) = {})
      <4>1. PICK a \in A : FirstPage(a) = p /\ Allocator!Run(p, sz[p]) = Span(a)
        BY <2>5, <3>2
      <4>2. PICK b \in A : FirstPage(b) = q /\ Allocator!Run(q, sz[q]) = Span(b)
        BY <2>5, <3>2
      <4>3. Apart(a, b)
        BY <2>2, <2>6, <4>1, <4>2 DEF Consistent
      <4> QED BY <4>1, <4>2, <4>3 DEF Apart
    <3> QED BY <3>1, <3>2
  <2>7. Allocator!RunsDisjoint
    BY <2>3, <2>6 DEF Allocator!RunsDisjoint, Allocator!Disjoint, sz
  <2>8. ASSUME NEW p \in Pages PROVE sz[p] > 0 <=> ref_cnt[p] > 0
    BY <2>5
  <2>9. Allocator!HeldIffReferenced
    BY <2>3, <2>8 DEF Allocator!HeldIffReferenced, sz
  <2> QED BY <2>7, <2>9
<1>2. Spec => []TreeInv
  BY TreeStarts, TreeSteps, PTL DEF Spec
<1> QED BY <1>1, <1>2, PTL
=============================================================================
