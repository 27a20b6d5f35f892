---------------------------- MODULE FilesProofs ----------------------------
(***************************************************************************)
(* What the file system guarantees to disciplined programs, for every      *)
(* volume, directory, table of descriptors and length of a call, with any  *)
(* number of resets between any two sectors: the files on the disk share   *)
(* no cluster, their chains end, and they hold the sizes of their entries; *)
(* and the bytes that they show are those that FileStore promises.         *)
(***************************************************************************)
EXTENDS Files, FiniteSetTheorems, WellFoundedInduction, SequenceTheorems, TLAPS

\* A bounded set of naturals that is not empty has a least element.
LEMMA LeastElement ==
  ASSUME NEW top \in Nat, NEW S \in SUBSET (0 .. top), S # {}
  PROVE  \E x \in S : \A y \in S : x <= y
<1>1. S \subseteq Nat
  OBVIOUS
<1>2. PICK x \in S : \A y \in S : ~ (<<y, x>> \in OpToRel(<, Nat))
  BY <1>1, NatLessThanWellFounded, WFMin, Zenon
<1>3. \A y \in S : ~ (y < x)
  BY <1>1, <1>2, Zenon DEF OpToRel
<1> QED BY <1>1, <1>3

(***************************************************************************)
(* Chains.  Each file that the directory d names has a list of clusters,   *)
(* which the table t links from its first one to its last, long enough for *)
(* its size.  A file without a first cluster has none (the volume was full *)
(* when it was created).  No cluster is twice in these lists.              *)
(***************************************************************************)
UsedIn(d) == {i \in 1 .. DirSlots : d[i].name # Absent}

IsChain(t, c, s) ==
  /\ c = IF Len(s) = 0 THEN Stray ELSE s[1]
  /\ \A j \in 1 .. Len(s) : t[s[j]] = IF j < Len(s) THEN s[j + 1] ELSE Eof

Chains(d) == [UsedIn(d) -> Seq(Clusters)]
Distinct(d, ch) ==
  \A i, k \in UsedIn(d) : \A a \in 1 .. Len(ch[i]), b \in 1 .. Len(ch[k]) :
    ch[i][a] = ch[k][b] => i = k /\ a = b
Chained(t, d, ch) ==
  /\ \A i \in UsedIn(d) : IsChain(t, d[i].start, ch[i]) /\ d[i].size <= SectorSize * Len(ch[i])
  /\ Distinct(d, ch)

Dirs == [1 .. DirSlots -> Entries]
Unique(d) == \A i, k \in UsedIn(d) : d[i].name = d[k].name => i = k

\* A volume is ample if it has room for m clusters of every file, which is
\* what the longest write and the file that is there at first need, and for
\* one cluster that each reset may lose.
Room(m) == m >= 2 /\ MaxOffset <= SectorSize * m /\ DirSlots * m + MaxResets <= NrClusters
Ample == \E m \in Nat : Room(m)
Most == CHOOSE m \in Nat : Room(m)

\* On an ample volume every file has a cluster and none too many, and at most
\* n clusters are taken that belong to no file.
Covered(t, d, ch, lost) ==
  \A c \in Clusters : t[c] # Free =>
    c \in lost \/ \E i \in UsedIn(d) : \E j \in 1 .. Len(ch[i]) : ch[i][j] = c
Spare(t, d, ch, n) ==
  Ample => /\ \A i \in UsedIn(d) : Len(ch[i]) \in 1 .. Most
           /\ \E lost \in SUBSET Clusters : Cardinality(lost) <= n /\ Covered(t, d, ch, lost)

\* A table and a directory that fit together.
Held(t, d, ch, n) == Chained(t, d, ch) /\ Spare(t, d, ch, n)
Volume(t, d, n) ==
  t \in Table /\ d \in Dirs /\ Unique(d) /\ \E ch \in Chains(d) : Held(t, d, ch, n)

\* What the constants are.
LEMMA Numbers ==
  /\ NrClusters \in Nat \ {0, 1} /\ DirSlots \in Nat \ {0} /\ SectorSize \in Nat \ {0}
  /\ SecPerCluster \in Nat \ {0} /\ Absent \notin Names /\ Clusters \subseteq Nat \ {0, 1}
  /\ Stray \notin Clusters /\ Stray \in Nat \ {0, 1} /\ Free \notin Clusters /\ Eof \notin Clusters /\ Free # Eof
BY FilesAssumption DEF Clusters, Stray, Free, Eof

\* A list has elements, at natural places.
LEMMA ChainFacts ==
  ASSUME NEW d, NEW ch \in Chains(d), NEW i \in UsedIn(d)
  PROVE  /\ ch[i] \in Seq(Clusters) /\ Len(ch[i]) \in Nat
         /\ \A j \in 1 .. Len(ch[i]) : ch[i][j] \in Clusters
<1>1. ch[i] \in Seq(Clusters)
  BY DEF Chains
<1> QED BY <1>1, LenProperties, ElementOfSeq

\* A free cluster is in no list.
LEMMA FreeIsUnlisted ==
  ASSUME NEW t, NEW d, NEW ch \in Chains(d), Chained(t, d, ch), NEW c, t[c] = Free,
         NEW i \in UsedIn(d), NEW j \in 1 .. Len(ch[i])
  PROVE  ch[i][j] # c
<1>1. Len(ch[i]) \in Nat /\ \A a \in 1 .. Len(ch[i]) : ch[i][a] \in Clusters
  BY ChainFacts
<1>2. t[ch[i][j]] = IF j < Len(ch[i]) THEN ch[i][j + 1] ELSE Eof
  BY DEF Chained, IsChain
<1>3. j < Len(ch[i]) => ch[i][j + 1] \in Clusters
  BY <1>1
<1> QED BY <1>2, <1>3, Numbers

LEMMA MostIs == ASSUME Ample PROVE Most \in Nat /\ Room(Most)
BY DEF Ample, Most

LEMMA FiniteClusters ==
  /\ IsFiniteSet(Clusters) /\ Cardinality(Clusters) = NrClusters
  /\ \A S \in SUBSET Clusters : IsFiniteSet(S) /\ Cardinality(S) \in Nat
<1>1. 2 \in Int /\ NrClusters + 1 \in Int
  BY Numbers
<1>2. IsFiniteSet(Clusters) /\ Cardinality(Clusters) = NrClusters
  BY <1>1, FS_Interval, Numbers DEF Clusters
<1>3. \A S \in SUBSET Clusters : IsFiniteSet(S)
  BY <1>2, FS_Subset
<1> QED BY <1>2, <1>3, FS_CardinalityType

\* More clusters may be lost.
LEMMA MoreLost ==
  ASSUME NEW t, NEW d, NEW n \in Nat, NEW k \in Nat, n <= k, Volume(t, d, n)
  PROVE  Volume(t, d, k)
<1>1. ASSUME NEW ch \in Chains(d), Spare(t, d, ch, n) PROVE Spare(t, d, ch, k)
  <2> SUFFICES ASSUME Ample PROVE \E lost \in SUBSET Clusters : Cardinality(lost) <= k /\ Covered(t, d, ch, lost)
    BY <1>1 DEF Spare
  <2>1. PICK lost \in SUBSET Clusters : Cardinality(lost) <= n /\ Covered(t, d, ch, lost)
    BY <1>1 DEF Spare
  <2>2. Cardinality(lost) <= k
    BY <2>1, FiniteClusters
  <2> QED BY <2>1, <2>2
<1> QED BY <1>1 DEF Volume, Held

\* A cluster that is taken and belongs to no file is one that is lost.
LEMMA MarkLoses ==
  ASSUME NEW t \in Table, NEW d, NEW ch \in Chains(d), NEW n \in Nat, Spare(t, d, ch, n), NEW c \in Clusters
  PROVE  Spare([t EXCEPT ![c] = Eof], d, ch, n + 1)
<1> SUFFICES ASSUME Ample PROVE \E lost \in SUBSET Clusters : Cardinality(lost) <= n + 1 /\ Covered([t EXCEPT ![c] = Eof], d, ch, lost)
  BY DEF Spare
<1>1. PICK lost \in SUBSET Clusters : Cardinality(lost) <= n /\ Covered(t, d, ch, lost)
  BY DEF Spare
<1>2. PICK more \in SUBSET Clusters : more = lost \cup {c}
  OBVIOUS
<1>3. Cardinality(more) <= n + 1
  <2>1. Cardinality(more) = IF c \in lost THEN Cardinality(lost) ELSE Cardinality(lost) + 1
    BY <1>2, FiniteClusters, FS_AddElement
  <2> QED BY <1>1, <2>1, FiniteClusters
<1>4. Covered([t EXCEPT ![c] = Eof], d, ch, more)
  <2>1. \A x \in Clusters : x # c => [t EXCEPT ![c] = Eof][x] = t[x]
    BY DEF Table
  <2> QED BY <1>1, <1>2, <2>1 DEF Covered
<1> QED BY <1>3, <1>4

\* An ample volume has a free cluster while a file is missing, or short.
LEMMA HasRoom ==
  ASSUME Ample, NEW t, NEW d, NEW ch \in Chains(d), NEW n \in 0 .. MaxResets, Spare(t, d, ch, n),
         NEW i \in 1 .. DirSlots, i \in UsedIn(d) => Len(ch[i]) < Most
  PROVE  FreeClusters(t) # {}
<1> SUFFICES ASSUME \A c \in Clusters : t[c] # Free PROVE FALSE
  BY DEF FreeClusters
<1>1. PICK lost \in SUBSET Clusters : Cardinality(lost) <= n /\ Covered(t, d, ch, lost)
  BY DEF Spare
<1>2. PICK m \in Nat : m = Most /\ m >= 2 /\ DirSlots * m + MaxResets <= NrClusters
  BY MostIs DEF Room
<1>3. PICK A : A = (1 .. DirSlots) \X (1 .. m)
  OBVIOUS
<1>4. IsFiniteSet(A) /\ Cardinality(A) = DirSlots * m /\ <<i, m>> \in A
  <2>1. PICK k \in Nat : k = DirSlots
    BY Numbers
  <2>2. IsFiniteSet(1 .. k) /\ Cardinality(1 .. k) = k /\ IsFiniteSet(1 .. m) /\ Cardinality(1 .. m) = m
    <3>1. \A z \in Nat : IsFiniteSet(1 .. z) /\ Cardinality(1 .. z) = z
      BY FS_Interval
    <3> QED BY <3>1
  <2>3. PICK S, T : S = 1 .. k /\ T = 1 .. m
    OBVIOUS
  <2>4. IsFiniteSet(S \X T) /\ Cardinality(S \X T) = Cardinality(S) * Cardinality(T)
    BY <2>2, <2>3, FS_Product
  <2>5. m \in T /\ i \in S
    BY <1>2, <2>1, <2>3
  <2> QED BY <1>3, <2>1, <2>2, <2>3, <2>4, <2>5
<1>5. PICK P : P = A \ {<<i, m>>}
  OBVIOUS
<1>6. IsFiniteSet(P) /\ Cardinality(P) = DirSlots * m - 1
  <2>1. PICK x : x = <<i, m>>
    OBVIOUS
  <2>2. IsFiniteSet(A \ {x}) /\ Cardinality(A \ {x}) = IF x \in A THEN Cardinality(A) - 1 ELSE Cardinality(A)
    BY <1>4, FS_RemoveElement
  <2> QED BY <1>4, <1>5, <2>1, <2>2
<1>7. PICK rest \in SUBSET Clusters : rest = Clusters \ lost
  OBVIOUS
\* Each of the other clusters has a place in the lists.
<1>8. ASSUME NEW c \in rest PROVE \E p \in P : p[1] \in UsedIn(d) /\ ch[p[1]][p[2]] = c
  <2>1. PICK h \in UsedIn(d) : \E j \in 1 .. Len(ch[h]) : ch[h][j] = c
    BY <1>1, <1>7 DEF Covered
  <2>6. PICK j \in 1 .. Len(ch[h]) : ch[h][j] = c
    BY <2>1
  <2>2. h \in 1 .. DirSlots /\ Len(ch[h]) \in 1 .. m
    BY <1>2 DEF Spare, UsedIn
  <2>3. j \in 1 .. m /\ (h = i => j # m)
    BY <1>2, <2>1, <2>2, <2>6
  <2>7. PICK p : p = <<h, j>>
    OBVIOUS
  <2>4. p = <<h, j>> /\ p[1] = h /\ p[2] = j
    BY <2>7
  <2>5. p \in P
    BY <1>3, <1>5, <2>2, <2>3, <2>4
  <2> QED BY <2>1, <2>4, <2>5, <2>6
<1>9. PICK f : f = [c \in rest |-> CHOOSE p \in P : p[1] \in UsedIn(d) /\ ch[p[1]][p[2]] = c]
  OBVIOUS
<1>10. \A c \in rest : f[c] \in P /\ ch[f[c][1]][f[c][2]] = c
  BY <1>8, <1>9
<1>11. f \in Injection(rest, P)
  BY <1>9, <1>10, SMTT(30) DEF Injection, IsInjective
<1>12. Cardinality(rest) <= Cardinality(P)
  BY <1>6, <1>11, FS_Injection
<1>13. Cardinality(rest) = NrClusters - Cardinality(lost)
  <2>1. Clusters \cap lost = lost
    OBVIOUS
  <2> QED BY <1>7, <2>1, FiniteClusters, FS_Difference, ZenonT(30)
<1>14. PICK a \in Nat : a = DirSlots * m
  BY <1>2, Numbers
<1>15. Cardinality(lost) <= MaxResets /\ Cardinality(lost) \in Nat /\ MaxResets \in Nat
  BY <1>1, FiniteClusters, FilesAssumption
<1> QED BY <1>2, <1>6, <1>12, <1>13, <1>14, <1>15, Numbers

\* A free cluster that becomes the end of a chain of its own disturbs no list.
LEMMA MarkKeeps ==
  ASSUME NEW t \in Table, NEW d, NEW ch \in Chains(d), Chained(t, d, ch),
         NEW c \in Clusters, t[c] = Free
  PROVE  Chained([t EXCEPT ![c] = Eof], d, ch)
<1> DEFINE u == [t EXCEPT ![c] = Eof]
<1>1. ASSUME NEW i \in UsedIn(d), NEW j \in 1 .. Len(ch[i])
      PROVE  u[ch[i][j]] = t[ch[i][j]]
  <2>1. ch[i][j] # c /\ ch[i][j] \in Clusters
    BY FreeIsUnlisted, ChainFacts
  <2> QED BY <2>1 DEF Table
<1> HIDE DEF u
<1>2. \A i \in UsedIn(d) : IsChain(u, d[i].start, ch[i])
  BY <1>1 DEF Chained, IsChain
<1> QED BY <1>2 DEF Chained, u

\* A slot of the directory is taken.
Taken(x, d, k, e) ==
  /\ UsedIn(x) = UsedIn(d) \cup {k} /\ k \notin UsedIn(d)
  /\ x[k] = e /\ \A i \in UsedIn(d) : x[i] = d[i]

LEMMA SlotTaken ==
  ASSUME NEW d \in Dirs, NEW k \in 1 .. DirSlots, d[k].name = Absent, NEW e, e.name # Absent
  PROVE  Taken([d EXCEPT ![k] = e], d, k, e)
<1>1. PICK x : x = [d EXCEPT ![k] = e]
  OBVIOUS
<1>2. x = [i \in 1 .. DirSlots |-> IF i = k THEN e ELSE d[i]]
  BY <1>1 DEF Dirs
<1>3. Taken(x, d, k, e)
  BY <1>2 DEF UsedIn, Taken
<1> QED BY <1>1, <1>3

\* A chain of no cluster, or of one that no file has; the chains of the files
\* with that one among them.
Foreign(d, ch, s) ==
  Len(s) \in {0, 1} /\ \A i \in UsedIn(d) : \A j \in 1 .. Len(ch[i]) : Len(s) = 1 => ch[i][j] # s[1]
Joined(u, x, d, ch, k, s) ==
  \E nch \in Chains(x) : Chained(u, x, nch) /\ nch[k] = s /\ \A i \in UsedIn(d) : nch[i] = ch[i]

\* A file is created: with a cluster of its own, or with none.
LEMMA CreateKeeps ==
  ASSUME NEW u, NEW d \in Dirs, NEW ch \in Chains(d), Chained(u, d, ch),
         NEW k \in 1 .. DirSlots, NEW e, e.size = 0, NEW x, Taken(x, d, k, e), NEW s \in Seq(Clusters),
         IsChain(u, e.start, s), Foreign(d, ch, s)
  PROVE  Joined(u, x, d, ch, k, s)
<1>1. Len(s) \in {0, 1}
  BY DEF Foreign
<1>2. \A i \in UsedIn(d) : \A j \in 1 .. Len(ch[i]) : Len(s) = 1 => ch[i][j] # s[1]
  BY DEF Foreign
<1>3. UsedIn(x) = UsedIn(d) \cup {k} /\ k \notin UsedIn(d) /\ x[k] = e /\ \A i \in UsedIn(d) : x[i] = d[i]
  BY DEF Taken
<1>4. PICK new : new = [i \in UsedIn(x) |-> IF i = k THEN s ELSE ch[i]]
  OBVIOUS
<1>5. new \in Chains(x)
  BY <1>3, <1>4 DEF Chains
<1>6. new[k] = s /\ \A i \in UsedIn(d) : new[i] = ch[i] /\ i # k
  BY <1>3, <1>4
<1>7. ASSUME NEW i \in UsedIn(x) PROVE IsChain(u, x[i].start, new[i]) /\ x[i].size <= SectorSize * Len(new[i])
  <2>1. CASE i = k
    <3>1. SectorSize * Len(s) \in Nat
      BY Numbers
    <3> QED BY <1>3, <1>6, <2>1, <3>1
  <2>2. CASE i # k
    BY <1>3, <1>6, <2>2 DEF Chained
  <2> QED BY <2>1, <2>2
<1>8. Distinct(x, new)
  <2> SUFFICES ASSUME NEW i \in UsedIn(x), NEW h \in UsedIn(x), NEW a \in 1 .. Len(new[i]), NEW b \in 1 .. Len(new[h]),
                      new[i][a] = new[h][b]
               PROVE  i = h /\ a = b
    BY DEF Distinct
  <2>1. CASE i = k /\ h = k
    <3>1. a = 1 /\ b = 1
      BY <1>1, <1>6, <2>1
    <3> QED BY <2>1, <3>1
  <2>2. CASE i = k /\ h # k
    <3>1. a = 1 /\ Len(s) = 1 /\ new[i] = s /\ new[h] = ch[h] /\ h \in UsedIn(d)
      BY <1>1, <1>3, <1>6, <2>2
    <3> QED BY <1>2, <3>1
  <2>3. CASE i # k /\ h = k
    <3>1. new[h] = s /\ new[i] = ch[i] /\ i \in UsedIn(d)
      BY <1>3, <1>6, <2>3
    <3>2. b = 1 /\ Len(s) = 1
      BY <1>1, <3>1
    <3> QED BY <1>2, <3>1, <3>2
  <2>4. CASE i # k /\ h # k
    BY <1>3, <1>6, <2>4 DEF Chained, Distinct
  <2> QED BY <2>1, <2>2, <2>3, <2>4
<1>9. Chained(u, x, new)
  BY <1>7, <1>8 DEF Chained
<1> QED BY <1>5, <1>6, <1>9 DEF Joined

\* The cluster of a new file is no longer lost.
LEMMA CreateSpare ==
  ASSUME NEW t \in Table, NEW d, NEW ch \in Chains(d), NEW n \in Nat, Spare(t, d, ch, n), NEW c \in Clusters,
         NEW x, NEW k, UsedIn(x) = UsedIn(d) \cup {k}, NEW new \in Chains(x), new[k] = << c >>, k \notin UsedIn(d),
         \A i \in UsedIn(d) : new[i] = ch[i]
  PROVE  Spare([t EXCEPT ![c] = Eof], x, new, n)
<1> SUFFICES ASSUME Ample
             PROVE  /\ \A i \in UsedIn(x) : Len(new[i]) \in 1 .. Most
                    /\ \E lost \in SUBSET Clusters : Cardinality(lost) <= n /\ Covered([t EXCEPT ![c] = Eof], x, new, lost)
  BY DEF Spare
<1>1. PICK lost \in SUBSET Clusters : Cardinality(lost) <= n /\ Covered(t, d, ch, lost)
  BY DEF Spare
<1>2. Len(new[k]) = 1 /\ new[k][1] = c
  OBVIOUS
<1>3. 1 \in 1 .. Most
  BY MostIs DEF Room
<1>4. \A i \in UsedIn(x) : Len(new[i]) \in 1 .. Most
  BY <1>2, <1>3 DEF Spare
<1>5. Covered([t EXCEPT ![c] = Eof], x, new, lost)
  <2> SUFFICES ASSUME NEW y \in Clusters, [t EXCEPT ![c] = Eof][y] # Free, y \notin lost
               PROVE  \E i \in UsedIn(x) : \E j \in 1 .. Len(new[i]) : new[i][j] = y
    BY DEF Covered
  <2>1. CASE y = c
    BY <1>2, <2>1
  <2>2. CASE y # c
    <3>1. t[y] # Free
      BY <2>2 DEF Table
    <3>2. PICK i \in UsedIn(d) : \E j \in 1 .. Len(ch[i]) : ch[i][j] = y
      BY <1>1, <3>1 DEF Covered
    <3> QED BY <3>2
  <2> QED BY <2>1, <2>2
<1> QED BY <1>1, <1>4, <1>5

\* A chain grows by a free cluster.
LEMMA ExtendKeeps ==
  ASSUME NEW t \in Table, NEW d \in Dirs, NEW ch \in Chains(d), Chained(t, d, ch),
         NEW c \in Clusters, t[c] = Free, NEW i \in UsedIn(d), NEW m \in Nat \ {0}, m = Len(ch[i])
  PROVE  /\ [ch EXCEPT ![i] = Append(@, c)] \in Chains(d)
         /\ Chained([t EXCEPT ![c] = Eof, ![ch[i][m]] = c], d, [ch EXCEPT ![i] = Append(@, c)])
<1>1. PICK s, last : s = Append(ch[i], c) /\ last = ch[i][m]
  OBVIOUS
<1>2. /\ s \in Seq(Clusters) /\ Len(s) = m + 1 /\ s[m + 1] = c
      /\ (\A j \in 1 .. m : s[j] = ch[i][j]) /\ last \in Clusters /\ last # c
  <2>1. ch[i] \in Seq(Clusters) /\ m \in 1 .. m
    BY ChainFacts
  <2> QED BY <1>1, <2>1, AppendProperties, ChainFacts, FreeIsUnlisted
<1>3. PICK u, new : u = [t EXCEPT ![c] = Eof, ![last] = c] /\ new = [ch EXCEPT ![i] = s]
  OBVIOUS
<1>4. u[c] = Eof /\ u[last] = c /\ \A x \in Clusters \ {c, last} : u[x] = t[x]
  BY <1>2, <1>3 DEF Table
<1>5. new \in Chains(d) /\ new[i] = s /\ \A k \in UsedIn(d) \ {i} : new[k] = ch[k]
  BY <1>2, <1>3 DEF Chains
<1>6. ASSUME NEW k \in UsedIn(d) PROVE IsChain(u, d[k].start, new[k]) /\ d[k].size <= SectorSize * Len(new[k])
  <2>1. IsChain(t, d[k].start, ch[k]) /\ d[k].size <= SectorSize * Len(ch[k])
    BY DEF Chained
  <2>2. CASE k = i
    <3>1. ASSUME NEW j \in 1 .. m + 1 PROVE u[s[j]] = IF j < m + 1 THEN s[j + 1] ELSE Eof
      <4>1. CASE j = m + 1
        BY <1>2, <1>4, <4>1
      <4>2. CASE j = m
        BY <1>1, <1>2, <1>4, <4>2
      <4>3. CASE j < m
        <5>1. j \in 1 .. m /\ j + 1 \in 1 .. m /\ s[j] = ch[i][j] /\ s[j + 1] = ch[i][j + 1]
          BY <1>2, <4>3
        <5>2. ch[i][j] \in Clusters /\ ch[i][j] # c
          BY <5>1, ChainFacts, FreeIsUnlisted
        <5>4. ch[i][j] # last
          <6>1. j \in 1 .. Len(ch[i]) /\ m \in 1 .. Len(ch[i]) /\ j # m
            BY <4>3, <5>1
          <6> QED BY <1>1, <6>1 DEF Chained, Distinct
        <5>3. t[ch[i][j]] = ch[i][j + 1]
          BY <2>1, <2>2, <4>3, <5>1 DEF IsChain
        <5> QED BY <1>4, <4>3, <5>1, <5>2, <5>3, <5>4
      <4> QED BY <4>1, <4>2, <4>3
    <3>2. d[i].start = s[1]
      <4>1. 1 \in 1 .. m
        OBVIOUS
      <4> QED BY <1>2, <2>1, <2>2, <4>1 DEF IsChain
    <3>3. d[i].size <= SectorSize * (m + 1)
      <4>1. SectorSize * (m + 1) = SectorSize * m + SectorSize /\ SectorSize * m \in Nat
        BY Numbers
      <4>2. d[i].size <= SectorSize * m
        BY <2>1, <2>2
      <4>3. d[i].size \in Nat
        BY DEF Dirs, Entries, UsedIn
      <4> QED BY <4>1, <4>2, <4>3, Numbers
    <3> QED BY <1>2, <1>5, <2>2, <3>1, <3>2, <3>3 DEF IsChain
  <2>3. CASE k # i
    <3>1. new[k] = ch[k]
      BY <1>5, <2>3
    <3>2. ASSUME NEW j \in 1 .. Len(ch[k]) PROVE u[ch[k][j]] = t[ch[k][j]]
      <4>1. m \in 1 .. Len(ch[i])
        OBVIOUS
      <4>2. ch[k][j] \in Clusters /\ ch[k][j] # c /\ ch[k][j] # last
        <5>1. ch[k][j] \in Clusters /\ ch[k][j] # c
          BY ChainFacts, FreeIsUnlisted
        <5>2. ch[k][j] # last
          BY <1>1, <2>3, <4>1 DEF Chained, Distinct
        <5> QED BY <5>1, <5>2
      <4> QED BY <1>4, <4>2
    <3> QED BY <2>1, <3>1, <3>2 DEF IsChain
  <2> QED BY <2>2, <2>3
<1>7. Distinct(d, new)
  <2> SUFFICES ASSUME NEW k \in UsedIn(d), NEW h \in UsedIn(d), NEW a \in 1 .. Len(new[k]), NEW b \in 1 .. Len(new[h]),
                      new[k][a] = new[h][b]
               PROVE  k = h /\ a = b
    BY DEF Distinct
  \* A place of the lists is an old one, or the new one at the end of list i.
  <2>1. \A g \in UsedIn(d) : \A z \in 1 .. Len(new[g]) :
          \/ z \in 1 .. Len(ch[g]) /\ new[g][z] = ch[g][z] /\ new[g][z] # c
          \/ g = i /\ z = m + 1 /\ new[g][z] = c
    <3> TAKE g \in UsedIn(d)
    <3> TAKE z \in 1 .. Len(new[g])
    <3>1. CASE g = i
      <4>1. z \in 1 .. m \/ z = m + 1
        BY <1>2, <1>5, <3>1
      <4> QED BY <1>2, <1>5, <3>1, <4>1, FreeIsUnlisted
    <3>2. CASE g # i
      BY <1>5, <3>2, FreeIsUnlisted
    <3> QED BY <3>1, <3>2
  <2>2. CASE new[k][a] = c
    BY <2>1, <2>2
  <2>3. CASE new[k][a] # c
    <3>1. a \in 1 .. Len(ch[k]) /\ b \in 1 .. Len(ch[h]) /\ ch[k][a] = ch[h][b]
      BY <2>1, <2>3
    <3> QED BY <3>1 DEF Chained, Distinct
  <2> QED BY <2>2, <2>3
<1>8. Chained(u, d, new)
  BY <1>6, <1>7 DEF Chained
<1> QED BY <1>1, <1>3, <1>5, <1>8

\* A cluster of a file is not lost.
LEMMA ExtendSpare ==
  ASSUME NEW t \in Table, NEW d, NEW ch \in Chains(d), NEW n \in Nat, Spare(t, d, ch, n), NEW c \in Clusters,
         NEW i \in UsedIn(d), NEW m \in Nat \ {0}, m = Len(ch[i]), Ample => m < Most
  PROVE  Spare([t EXCEPT ![c] = Eof, ![ch[i][m]] = c], d, [ch EXCEPT ![i] = Append(@, c)], n)
<1> SUFFICES ASSUME Ample
             PROVE  Spare([t EXCEPT ![c] = Eof, ![ch[i][m]] = c], d, [ch EXCEPT ![i] = Append(@, c)], n)
  BY DEF Spare
<1>1. PICK s : s = Append(ch[i], c)
  OBVIOUS
<1>2. s \in Seq(Clusters) /\ Len(s) = m + 1 /\ s[m + 1] = c /\ \A j \in 1 .. m : s[j] = ch[i][j]
  <2>1. ch[i] \in Seq(Clusters)
    BY ChainFacts
  <2> QED BY <1>1, <2>1, AppendProperties
<1>3. PICK u, new : u = [t EXCEPT ![c] = Eof, ![ch[i][m]] = c] /\ new = [ch EXCEPT ![i] = s]
  OBVIOUS
<1>4. new[i] = s /\ \A k \in UsedIn(d) \ {i} : new[k] = ch[k]
  BY <1>3 DEF Chains
<1>5. \A k \in UsedIn(d) : Len(new[k]) \in 1 .. Most
  <2>1. m + 1 \in 1 .. Most
    BY MostIs
  <2>2. \A k \in UsedIn(d) : Len(ch[k]) \in 1 .. Most
    BY DEF Spare
  <2> QED BY <1>2, <1>4, <2>1, <2>2
<1>6. PICK lost \in SUBSET Clusters : Cardinality(lost) <= n /\ Covered(t, d, ch, lost)
  BY DEF Spare
<1>7. Covered(u, d, new, lost)
  <2> SUFFICES ASSUME NEW y \in Clusters, u[y] # Free, y \notin lost
               PROVE  \E k \in UsedIn(d) : \E j \in 1 .. Len(new[k]) : new[k][j] = y
    BY DEF Covered
  <2>1. CASE y = c
    <3>1. m + 1 \in 1 .. Len(new[i]) /\ new[i][m + 1] = c
      BY <1>2, <1>4
    <3> QED BY <2>1, <3>1
  <2>2. CASE y = ch[i][m]
    <3>1. m \in 1 .. Len(new[i]) /\ m \in 1 .. m
      BY <1>2, <1>4
    <3> QED BY <1>2, <1>4, <2>2, <3>1
  <2>3. CASE y # c /\ y # ch[i][m]
    <3>1. t[y] # Free
      BY <1>3, <2>3 DEF Table
    <3>2. PICK k \in UsedIn(d) : \E j \in 1 .. Len(ch[k]) : ch[k][j] = y
      BY <1>6, <3>1 DEF Covered
    <3>3. PICK j \in 1 .. Len(ch[k]) : ch[k][j] = y
      BY <3>2
    <3>4. CASE k = i
      <4>1. j \in 1 .. m /\ j \in 1 .. Len(new[i])
        BY <1>2, <1>4, <3>3, <3>4
      <4> QED BY <1>2, <1>4, <3>3, <3>4, <4>1
    <3>5. CASE k # i
      BY <1>4, <3>3, <3>5
    <3> QED BY <3>4, <3>5
  <2> QED BY <2>1, <2>2, <2>3
<1> QED BY <1>1, <1>3, <1>5, <1>6, <1>7 DEF Spare

\* A file grows as far as its clusters reach.
LEMMA GrowKeeps ==
  ASSUME NEW t, NEW d \in Dirs, NEW ch \in Chains(d), Chained(t, d, ch), NEW i \in UsedIn(d),
         NEW z \in Nat, z <= SectorSize * Len(ch[i])
  PROVE  /\ UsedIn([d EXCEPT ![i].size = z]) = UsedIn(d)
         /\ Chained(t, [d EXCEPT ![i].size = z], ch)
<1>1. PICK x : x = [d EXCEPT ![i].size = z]
  OBVIOUS
<1>2. i \in 1 .. DirSlots /\ d[i] \in Entries
  BY DEF UsedIn, Dirs
<1>3. PICK e : e = [d[i] EXCEPT !.size = z]
  OBVIOUS
<1>4. e.name = d[i].name /\ e.start = d[i].start /\ e.size = z
  BY <1>2, <1>3 DEF Entries
<1>5. x = [k \in 1 .. DirSlots |-> IF k = i THEN e ELSE d[k]]
  BY <1>1, <1>3 DEF Dirs
<1>6. \A k \in 1 .. DirSlots : x[k].name = d[k].name /\ x[k].start = d[k].start
                                /\ x[k].size = IF k = i THEN z ELSE d[k].size
  BY <1>4, <1>5
<1>7. UsedIn(x) = UsedIn(d)
  BY <1>6 DEF UsedIn
<1>8. \A k \in UsedIn(d) : k \in 1 .. DirSlots
  BY DEF UsedIn
<1>9. \A k \in UsedIn(d) : IsChain(t, x[k].start, ch[k]) /\ x[k].size <= SectorSize * Len(ch[k])
  BY <1>6, <1>8 DEF Chained
<1>10. Distinct(x, ch)
  BY <1>7 DEF Chained, Distinct
<1> QED BY <1>1, <1>7, <1>9, <1>10 DEF Chained
-----------------------------------------------------------------------------
(***************************************************************************)
(* What the operators of the model return.                                 *)
(***************************************************************************)
LEMMA MinIsLeast ==
  ASSUME NEW n \in Nat, NEW S \in SUBSET (0 .. n), S # {}
  PROVE  Min(S) \in S /\ \A y \in S : Min(S) <= y
BY LeastElement DEF Min

\* allocate_fat32_cluster finds a free cluster, unless the volume is full.
LEMMA AllocatedIs ==
  ASSUME NEW t, NEW last
  PROVE  \/ /\ FreeClusters(t) = {}
            /\ Allocated(t, last).cluster = Stray /\ Allocated(t, last).fat = t
         \/ \E c \in Clusters : /\ t[c] = Free /\ Allocated(t, last).cluster = c
                                /\ Allocated(t, last).fat = Linked(t, c, last)
<1>1. CASE FreeClusters(t) = {}
  BY <1>1 DEF Allocated
<1>2. CASE FreeClusters(t) # {}
  <2>1. FreeClusters(t) \in SUBSET (0 .. NrClusters + 1) /\ NrClusters + 1 \in Nat
    BY Numbers DEF FreeClusters, Clusters
  <2>2. Min(FreeClusters(t)) \in FreeClusters(t)
    BY <1>2, <2>1, MinIsLeast
  <2> QED BY <1>2, <2>2 DEF Allocated, FreeClusters
<1> QED BY <1>1, <1>2

\* Following a chain gives the clusters of its list, and then ends.
LEMMA NthIs ==
  ASSUME NEW t, NEW c, NEW s \in Seq(Clusters), IsChain(t, c, s), NEW k \in Nat \ {0}
  PROVE  Nth(t, c, k) = IF k <= Len(s) THEN s[k] ELSE IF k = 1 THEN Stray ELSE Eof
<1> DEFINE at(i) == IF i <= Len(s) THEN s[i] ELSE IF i = 1 THEN Stray ELSE Eof
           Follows(h) == h = [i \in 1 .. k |-> IF i = 1 THEN c ELSE Next1(t, h[i - 1])]
<1>1. Len(s) \in Nat /\ \A j \in 1 .. Len(s) : s[j] \in Clusters
  BY LenProperties, ElementOfSeq
<1>2. at(1) = c
  BY <1>1 DEF IsChain
<1>3. ASSUME NEW i \in 2 .. k PROVE Next1(t, at(i - 1)) = at(i)
  <2>1. CASE i - 1 <= Len(s)
    <3>1. i - 1 \in 1 .. Len(s) /\ i - 1 + 1 = i
      BY <1>1, <2>1
    <3>2. at(i - 1) = s[i - 1] /\ s[i - 1] \in Clusters
      BY <1>1, <2>1, <3>1
    <3>3. t[s[i - 1]] = IF i - 1 < Len(s) THEN s[i] ELSE Eof
      BY <3>1 DEF IsChain
    <3>4. i - 1 < Len(s) <=> i <= Len(s)
      BY <1>1
    <3>5. at(i) = IF i <= Len(s) THEN s[i] ELSE Eof
      OBVIOUS
    <3> HIDE DEF at
    <3> QED BY <3>2, <3>3, <3>4, <3>5 DEF Next1
  <2>2. CASE ~(i - 1 <= Len(s))
    <3>1. at(i - 1) \in {Stray, Eof} /\ at(i) = Eof
      BY <1>1, <2>2
    <3> HIDE DEF at
    <3> QED BY <3>1, Numbers DEF Next1
  <2> QED BY <2>1, <2>2
<1> HIDE DEF at
<1>4. Follows([i \in 1 .. k |-> at(i)])
  <2>1. PICK h : h = [i \in 1 .. k |-> at(i)]
    OBVIOUS
  <2>2. ASSUME NEW i \in 1 .. k PROVE at(i) = IF i = 1 THEN c ELSE Next1(t, h[i - 1])
    <3>1. CASE i = 1
      BY <1>2, <3>1
    <3>2. CASE i # 1
      <4>1. i \in 2 .. k /\ i - 1 \in 1 .. k
        BY <3>2
      <4> QED BY <1>3, <2>1, <3>2, <4>1
    <3> QED BY <3>1, <3>2
  <2> QED BY <2>1, <2>2
<1>5. PICK f : f = CHOOSE h : Follows(h)
  OBVIOUS
<1>6. Follows(f)
  BY <1>4, <1>5
<1>7. Nth(t, c, k) = f[k]
  BY <1>5 DEF Nth
<1>8. \A i \in 1 .. k : f[i] = at(i)
  <2> DEFINE W == {i \in 1 .. k : f[i] # at(i)}
  <2> SUFFICES ASSUME W # {} PROVE FALSE
    OBVIOUS
  <2>1. W \in SUBSET (0 .. k)
    OBVIOUS
  <2>2. PICK m \in W : \A y \in W : m <= y
    <3> HIDE DEF W
    <3> QED BY <2>1, LeastElement
  <2>3. CASE m = 1
    BY <1>2, <1>6, <2>3
  <2>4. CASE m # 1
    <3>1. m \in 2 .. k /\ m - 1 \in 1 .. k /\ m - 1 \notin W
      BY <2>2, <2>4
    <3>2. f[m - 1] = at(m - 1)
      BY <3>1
    <3>3. f[m] = Next1(t, f[m - 1])
      BY <1>6, <2>4, <3>1
    <3> QED BY <1>3, <3>1, <3>2, <3>3
  <2> QED BY <2>3, <2>4
<1>9. Nth(t, c, k) = at(k)
  BY <1>7, <1>8
<1> QED BY <1>9 DEF at

\* A list has no more elements than there are clusters.
LEMMA ListsAreShort ==
  ASSUME NEW d, NEW ch \in Chains(d), Distinct(d, ch), NEW i \in UsedIn(d)
  PROVE  /\ Len(ch[i]) \in 0 .. NrClusters
         /\ Cardinality({ch[i][j] : j \in 1 .. Len(ch[i])}) = Len(ch[i])
<1>1. PICK s \in Seq(Clusters), n \in Nat : s = ch[i] /\ n = Len(s)
  BY ChainFacts
<1>2. /\ \A j \in 1 .. n : s[j] \in Clusters
      /\ \A j, h \in 1 .. n : s[j] = s[h] => j = h
  BY <1>1, ChainFacts DEF Distinct
<1>3. IsFiniteSet(Clusters) /\ Cardinality(Clusters) = NrClusters
  <2>1. 2 \in Int /\ NrClusters + 1 \in Int
    BY Numbers
  <2> QED BY <2>1, FS_Interval, Numbers DEF Clusters
<1>4. IsFiniteSet(1 .. n) /\ Cardinality(1 .. n) = n
  BY FS_Interval
<1>5. n <= NrClusters
  <2> SUFFICES ASSUME n > NrClusters PROVE FALSE
    BY Numbers
  <2>1. [j \in 1 .. n |-> s[j]] \in [1 .. n -> Clusters]
    BY <1>2
  <2>2. Cardinality(Clusters) < Cardinality(1 .. n)
    BY <1>3, <1>4, Numbers
  <2>3. PICK f : f = [j \in 1 .. n |-> s[j]]
    OBVIOUS
  <2>4. f \in [1 .. n -> Clusters]
    BY <2>1, <2>3
  <2>5. PICK x, y \in 1 .. n : x # y /\ f[x] = f[y]
    BY <1>3, <1>4, <2>2, <2>4, FS_PigeonHole
  <2> QED BY <1>2, <2>3, <2>5
<1>6. Cardinality({s[j] : j \in 1 .. n}) = n
  <2>1. PICK f : f = [j \in 1 .. n |-> s[j]]
    OBVIOUS
  <2>2. f \in Bijection(1 .. n, {s[j] : j \in 1 .. n})
    BY <1>2, <2>1 DEF Bijection, Injection, Surjection, IsInjective
  <2> QED BY <1>4, <2>2, FS_Bijection DEF ExistsBijection
<1> QED BY <1>1, <1>5, <1>6

\* Lists without a common cluster that reach the sizes are all that the two
\* properties of the disk ask for.
LEMMA VolumeIsSound ==
  ASSUME NEW n, Volume(fatDisk, dir, n)
  PROVE  ChainsApart /\ SizeCovered
<1>1. PICK ch \in Chains(dir) : Chained(fatDisk, dir, ch)
  BY DEF Volume, Held
<1>2. Used = UsedIn(dir)
  BY DEF Used, UsedIn
<1>3. ASSUME NEW i \in Used
      PROVE  /\ Chain(dir[i].start) = {ch[i][j] : j \in 1 .. Len(ch[i])}
             /\ Nth(fatDisk, dir[i].start, NrClusters + 1) = Eof
  <2>1. PICK s \in Seq(Clusters) : s = ch[i]
    BY <1>2, ChainFacts
  <2>2. IsChain(fatDisk, dir[i].start, s)
    BY <1>1, <1>2, <2>1 DEF Chained
  <2>3. Len(s) \in 0 .. NrClusters /\ \A j \in 1 .. Len(s) : s[j] \in Clusters
    BY <1>1, <1>2, <2>1, ListsAreShort, ChainFacts DEF Chained
  <2>4. \A k \in Nat \ {0} : Nth(fatDisk, dir[i].start, k) = IF k <= Len(s) THEN s[k] ELSE IF k = 1 THEN Stray ELSE Eof
    BY <2>2, NthIs
  <2>5. \A k \in 1 .. NrClusters : k \in Nat \ {0}
    OBVIOUS
  <2>6. ASSUME NEW x \in Chain(dir[i].start) PROVE x \in {s[j] : j \in 1 .. Len(s)}
    <3>1. PICK k \in 1 .. NrClusters : x = Nth(fatDisk, dir[i].start, k) /\ x \in Clusters
      BY DEF Chain
    <3>2. k <= Len(s) /\ x = s[k]
      BY <2>4, <2>5, <3>1, Numbers
    <3>3. k \in 1 .. Len(s)
      BY <2>3, <3>2
    <3> QED BY <3>2, <3>3
  <2>7. ASSUME NEW j \in 1 .. Len(s) PROVE s[j] \in Chain(dir[i].start)
    <3>1. j \in 1 .. NrClusters /\ j <= Len(s)
      BY <2>3, Numbers
    <3>2. s[j] = Nth(fatDisk, dir[i].start, j)
      BY <2>4, <2>5, <3>1
    <3> QED BY <2>3, <3>1, <3>2 DEF Chain
  <2>8. Nth(fatDisk, dir[i].start, NrClusters + 1) = Eof
    <3>1. NrClusters + 1 \in Nat \ {0} /\ ~(NrClusters + 1 <= Len(s)) /\ NrClusters + 1 # 1
      BY <2>3, Numbers
    <3> QED BY <2>4, <3>1
  <2> QED BY <2>1, <2>6, <2>7, <2>8
<1>4. ChainsApart
  <2>1. ASSUME NEW i \in Used, NEW k \in Used, i # k
        PROVE  Chain(dir[i].start) \cap Chain(dir[k].start) = {}
    <3> SUFFICES ASSUME NEW x \in Chain(dir[i].start), x \in Chain(dir[k].start) PROVE FALSE
      OBVIOUS
    <3>1. PICK a \in 1 .. Len(ch[i]) : x = ch[i][a]
      BY <1>3
    <3>2. PICK b \in 1 .. Len(ch[k]) : x = ch[k][b]
      BY <1>3
    <3> QED BY <1>1, <1>2, <2>1, <3>1, <3>2 DEF Chained, Distinct
  <2> QED BY <1>3, <2>1 DEF ChainsApart
<1>5. SizeCovered
  <2>1. ASSUME NEW i \in Used PROVE dir[i].size <= SectorSize * Cardinality(Chain(dir[i].start))
    <3>1. Cardinality(Chain(dir[i].start)) = Len(ch[i])
      BY <1>1, <1>2, <1>3, ListsAreShort DEF Chained
    <3> QED BY <1>1, <1>2, <3>1 DEF Chained
  <2> QED BY <2>1 DEF SizeCovered
<1> QED BY <1>4, <1>5
-----------------------------------------------------------------------------
(***************************************************************************)
(* The sectors that a call is going to write.  Every table among them fits *)
(* the directory that is on the disk; the last one is the table in memory. *)
(***************************************************************************)
SectorData == [1 .. SectorSize -> Bytes]
Area == [Sectors -> SectorData]
Writes ==
  {DataSector(a, v) : a \in Sectors, v \in SectorData} \cup {FatSector(t) : t \in Table} \cup {DirSector(d) : d \in Dirs}

Latest(q, t) ==
  \/ fatDisk = t /\ \A m \in 1 .. Len(q) : q[m].to # "fat"
  \/ \E m \in 1 .. Len(q) : q[m].to = "fat" /\ q[m].value = t /\ \A h \in m + 1 .. Len(q) : q[h].to # "fat"
Fits(q, d, n) == \A m \in 1 .. Len(q) : q[m].to = "fat" => Volume(q[m].value, d, n)
NoDir(q) == \A m \in 1 .. Len(q) : q[m].to # "dir"

LEMMA SectorKinds ==
  /\ \A a, v : DataSector(a, v).to = "data"
  /\ \A t : FatSector(t).to = "fat" /\ FatSector(t).value = t
  /\ \A d : DirSector(d).to = "dir" /\ DirSector(d).value = d
BY DEF DataSector, FatSector, DirSector

\* A sector of data or the directory is appended: the tables are the same.
LEMMA AppendOther ==
  ASSUME NEW q \in Seq(Writes), NEW t, Latest(q, t), NEW z, Fits(q, dir, z), NEW w \in Writes, w.to # "fat"
  PROVE  /\ Append(q, w) \in Seq(Writes) /\ Latest(Append(q, w), t) /\ Fits(Append(q, w), dir, z)
         /\ Len(Append(q, w)) = Len(q) + 1 /\ Append(q, w)[Len(q) + 1] = w
         /\ \A m \in 1 .. Len(q) : Append(q, w)[m] = q[m]
<1>1. PICK r, n : r = Append(q, w) /\ n = Len(q)
  OBVIOUS
<1>2. n \in Nat /\ r \in Seq(Writes) /\ Len(r) = n + 1 /\ r[n + 1] = w /\ \A m \in 1 .. n : r[m] = q[m]
  BY <1>1, AppendProperties, LenProperties
<1>3. \A m \in 1 .. n + 1 : m \in 1 .. n \/ m = n + 1
  BY <1>2
<1>4. Fits(r, dir, z)
  BY <1>1, <1>2, <1>3 DEF Fits
<1>5. Latest(r, t)
  <2>1. CASE fatDisk = t /\ \A m \in 1 .. n : q[m].to # "fat"
    BY <1>2, <1>3, <2>1 DEF Latest
  <2>2. CASE \E m \in 1 .. n : q[m].to = "fat" /\ q[m].value = t /\ \A h \in m + 1 .. n : q[h].to # "fat"
    <3>1. PICK m \in 1 .. n : q[m].to = "fat" /\ q[m].value = t /\ \A h \in m + 1 .. n : q[h].to # "fat"
      BY <2>2
    <3>2. m \in 1 .. n + 1 /\ r[m] = q[m] /\ \A h \in m + 1 .. n + 1 : h \in 1 .. n + 1 /\ (h \in m + 1 .. n \/ h = n + 1)
      BY <1>2
    <3>3. \A h \in m + 1 .. n + 1 : r[h].to # "fat"
      <4> TAKE h \in m + 1 .. n + 1
      <4>1. CASE h \in m + 1 .. n
        <5>1. h \in 1 .. n
          BY <1>2, <4>1
        <5> QED BY <1>2, <3>1, <4>1, <5>1
      <4>2. CASE h = n + 1
        BY <1>2, <4>2
      <4> QED BY <3>2, <4>1, <4>2
    <3> QED BY <1>2, <3>1, <3>2, <3>3 DEF Latest
  <2> QED BY <1>1, <2>1, <2>2 DEF Latest
<1> QED BY <1>1, <1>2, <1>4, <1>5

\* A table is appended: it is now the latest.
LEMMA AppendTable ==
  ASSUME NEW q \in Seq(Writes), NEW z, Fits(q, dir, z), NEW t \in Table, Volume(t, dir, z)
  PROVE  /\ Append(q, FatSector(t)) \in Seq(Writes) /\ Latest(Append(q, FatSector(t)), t)
         /\ Fits(Append(q, FatSector(t)), dir, z)
         /\ Len(Append(q, FatSector(t))) = Len(q) + 1
         /\ \A m \in 1 .. Len(q) : Append(q, FatSector(t))[m] = q[m]
         /\ Append(q, FatSector(t))[Len(q) + 1] = FatSector(t)
<1>1. PICK r, n, w : r = Append(q, FatSector(t)) /\ n = Len(q) /\ w = FatSector(t)
  OBVIOUS
<1>2. w \in Writes /\ w.to = "fat" /\ w.value = t
  BY <1>1, SectorKinds DEF Writes
<1>3. n \in Nat /\ r \in Seq(Writes) /\ Len(r) = n + 1 /\ r[n + 1] = w /\ \A m \in 1 .. n : r[m] = q[m]
  BY <1>1, <1>2, AppendProperties, LenProperties
<1>4. \A m \in 1 .. n + 1 : m \in 1 .. n \/ m = n + 1
  BY <1>3
<1>5. Fits(r, dir, z)
  BY <1>1, <1>2, <1>3, <1>4 DEF Fits
<1>6. Latest(r, t)
  <2>1. n + 1 \in 1 .. n + 1 /\ n + 1 + 1 .. n + 1 = {}
    BY <1>3
  <2> QED BY <1>2, <1>3, <2>1 DEF Latest
<1> QED BY <1>1, <1>3, <1>5, <1>6
-----------------------------------------------------------------------------
(***************************************************************************)
(* The loop of fat32_write_file on file i of the directory, from offset 0. *)
(* After each turn either a sector outside of the data area was met, or    *)
(* the table still fits the directory, and the loop has ended within the   *)
(* file's clusters, stands at one of them with the clusters before it      *)
(* full, or has no cluster left and will fail in its next turn.            *)
(***************************************************************************)
Turn(s, len, x) ==
  IF s.bad \/ s.done >= len THEN s
  ELSE LET c == Copied(s, len, x) IN IF c.bad \/ c.done >= len THEN c ELSE Advanced(c)

LoopFields == {"fat", "data", "todo", "cluster", "sector", "off", "done", "bad"}

Stands(s, list, len, k) ==
  \/ s.done = len /\ len <= SectorSize * Len(list)
  \/ /\ s.done < len /\ k <= s.done
     /\ \/ ~Ample /\ s.cluster = Stray /\ s.sector \notin Sectors
        \/ /\ s.sector = SectorOf(s.cluster)
           /\ \E j \in 1 .. Len(list) : s.cluster = list[j] /\ s.done = SectorSize * (j - 1)

Sound(s) ==
  /\ s.fat \in Table /\ s.data \in Area /\ s.todo \in Seq(Writes) /\ s.off = 0 /\ s.done \in Nat
  /\ Latest(s.todo, s.fat) /\ Fits(s.todo, dir, resets + 1) /\ NoDir(s.todo)
Loop(s, i, len, k) ==
  /\ DOMAIN s = LoopFields /\ (Ample => ~s.bad)
  /\ ~s.bad => Sound(s) /\ \E ch \in Chains(dir) : Held(s.fat, dir, ch, resets) /\ Stands(s, ch[i], len, k)

\* The fields after a turn's copy.
LEMMA CopiedFields ==
  ASSUME NEW s, DOMAIN s = LoopFields, NEW len \in Nat, NEW x \in Bytes, Sound(s), s.done < len, ~s.bad
  PROVE  /\ DOMAIN Copied(s, len, x) = LoopFields
         /\ s.sector \in Sectors => ~Copied(s, len, x).bad
         /\ ~Copied(s, len, x).bad =>
              /\ Sound(Copied(s, len, x))
              /\ s.sector \in Sectors
              /\ Copied(s, len, x).fat = s.fat /\ Copied(s, len, x).cluster = s.cluster
              /\ Copied(s, len, x).done = IF s.done + SectorSize < len THEN s.done + SectorSize ELSE len
<1>1. PICK c : c = Copied(s, len, x)
  OBVIOUS
<1>2. PICK n : n = Chunk(s.off, len - s.done)
  OBVIOUS
<1>3. n \in 1 .. SectorSize /\ s.done + n = IF s.done + SectorSize < len THEN s.done + SectorSize ELSE len
  BY <1>2, Numbers DEF Chunk, Sound
<1>4. PICK v : v = Patched(s.data[s.sector], s.off, n, x)
  OBVIOUS
<1>5. CASE s.sector \notin Sectors \/ n < 0
  <2>1. c = [s EXCEPT !.bad = TRUE]
    BY <1>1, <1>2, <1>5 DEF Copied
  <2>2. s.sector \notin Sectors
    BY <1>3, <1>5
  <2> QED BY <1>1, <2>1, <2>2 DEF LoopFields
<1>6. CASE s.sector \in Sectors /\ ~(n < 0)
  <2>1. c = [s EXCEPT !.data[s.sector] = v, !.done = @ + n, !.off = 0, !.todo = Append(@, DataSector(s.sector, v))]
    BY <1>1, <1>2, <1>4, <1>6 DEF Copied
  <2>2. /\ DOMAIN c = LoopFields /\ c.fat = s.fat /\ c.cluster = s.cluster /\ c.done = s.done + n /\ c.off = 0 /\ ~c.bad
        /\ c.data = [s.data EXCEPT ![s.sector] = v] /\ c.todo = Append(s.todo, DataSector(s.sector, v))
    BY <2>1 DEF LoopFields
  <2>3. v \in SectorData
    <3>1. s.data[s.sector] \in SectorData
      BY <1>6 DEF Sound, Area
    <3>2. v = [h \in 1 .. SectorSize |-> IF h \in s.off + 1 .. s.off + n THEN x ELSE s.data[s.sector][h]]
      BY <1>4 DEF Patched
    <3> QED BY <3>1, <3>2 DEF SectorData
  <2>4. c.data \in Area
    BY <1>6, <2>2, <2>3 DEF Sound, Area
  <2>5. PICK q, w : q = s.todo /\ w = DataSector(s.sector, v)
    OBVIOUS
  <2>6. w \in Writes /\ w.to = "data"
    BY <1>6, <2>3, <2>5, SectorKinds DEF Writes
  <2>7. q \in Seq(Writes) /\ Latest(q, s.fat) /\ Fits(q, dir, resets + 1) /\ NoDir(q) /\ Len(q) \in Nat
    BY <2>5, LenProperties DEF Sound
  <2>8. /\ Append(q, w) \in Seq(Writes) /\ Latest(Append(q, w), s.fat) /\ Fits(Append(q, w), dir, resets + 1)
        /\ Len(Append(q, w)) = Len(q) + 1 /\ Append(q, w)[Len(q) + 1] = w
        /\ \A m \in 1 .. Len(q) : Append(q, w)[m] = q[m]
    BY <2>6, <2>7, AppendOther
  <2>9. NoDir(Append(q, w))
    <3>1. \A m \in 1 .. Len(q) + 1 : m \in 1 .. Len(q) \/ m = Len(q) + 1
      BY <2>7
    <3> QED BY <2>6, <2>7, <2>8, <3>1 DEF NoDir
  <2>10. c.done \in Nat
    BY <1>3, <2>2 DEF Sound
  <2>11. Sound(c)
    BY <2>2, <2>4, <2>5, <2>8, <2>9, <2>10 DEF Sound
  <2> QED BY <1>1, <1>3, <1>6, <2>2, <2>11
<1> QED BY <1>5, <1>6

\* Following the table, or taking a new cluster, brings the loop to the next
\* cluster of the file.
LEMMA AdvancedKeeps ==
  ASSUME NEW s, DOMAIN s = LoopFields, ~s.bad, Sound(s), NEW ch \in Chains(dir), Held(s.fat, dir, ch, resets),
         NEW i \in UsedIn(dir), NEW j \in 1 .. Len(ch[i]), s.cluster = ch[i][j],
         dir \in Dirs, Unique(dir), NEW len \in Nat, NEW k \in Nat, s.done < len, k <= s.done, s.done = SectorSize * j,
         resets \in 0 .. MaxResets, len <= MaxOffset
  PROVE  Loop(Advanced(s), i, len, k)
<1>1. PICK c : c = Next1(s.fat, s.cluster)
  OBVIOUS
<1>2. Len(ch[i]) \in Nat /\ s.cluster \in Clusters
  BY ChainFacts
<1>3. c = IF j < Len(ch[i]) THEN ch[i][j + 1] ELSE Eof
  BY <1>1, <1>2 DEF Next1, Held, Chained, IsChain
<1>6. Chained(s.fat, dir, ch) /\ Spare(s.fat, dir, ch, resets) /\ resets \in Nat
  BY DEF Held
<1>7. ASSUME Ample PROVE j < Most
  <2>1. PICK m \in Nat : m = Most /\ MaxOffset <= SectorSize * m
    BY <1>7, MostIs DEF Room
  <2>2. SectorSize * j < SectorSize * m /\ j \in Nat
    <3>1. j \in Nat /\ SectorSize * j \in Nat /\ SectorSize * m \in Nat /\ MaxOffset \in Nat
      BY <1>2, Numbers, FilesAssumption
    <3> QED BY <2>1, <3>1
  <2>3. ~(j >= m)
    <3> SUFFICES ASSUME j >= m PROVE FALSE
      OBVIOUS
    <3>1. PICK z \in Nat : j = m + z
      <4>1. j - m \in Nat /\ j = m + (j - m)
        BY <2>2
      <4> QED BY <4>1
    <3>2. SectorSize * (m + z) = SectorSize * m + SectorSize * z /\ SectorSize * z \in Nat /\ SectorSize * m \in Nat
      BY Numbers, SMTT(30)
    <3> QED BY <2>2, <3>1, <3>2
  <2> QED BY <2>1, <2>2, <2>3
<1>4. CASE j < Len(ch[i])
  <2>1. j + 1 \in 1 .. Len(ch[i]) /\ c = ch[i][j + 1] /\ j + 1 - 1 = j
    BY <1>2, <1>3, <1>4
  <2>2. c \in Clusters /\ c # Eof
    BY <2>1, ChainFacts, Numbers
  <2>3. Advanced(s) = [s EXCEPT !.cluster = c, !.sector = SectorOf(c)]
    BY <1>1, <2>2 DEF Advanced
  <2>4. PICK r : r = Advanced(s)
    OBVIOUS
  <2>5. /\ DOMAIN r = LoopFields /\ ~r.bad /\ r.fat = s.fat /\ r.data = s.data /\ r.todo = s.todo /\ r.off = s.off
        /\ r.done = s.done /\ r.cluster = c /\ r.sector = SectorOf(r.cluster)
    BY <2>3, <2>4 DEF LoopFields
  <2>6. Sound(r)
    BY <2>5 DEF Sound
  <2>7. Stands(r, ch[i], len, k)
    BY <2>1, <2>5 DEF Stands
  <2> QED BY <2>4, <2>5, <2>6, <2>7 DEF Loop
<1>5. CASE ~(j < Len(ch[i]))
  <2>1. c = Eof /\ j = Len(ch[i])
    BY <1>2, <1>3, <1>5
  <2>2. PICK a : a = Allocated(s.fat, s.cluster)
    OBVIOUS
  <2>3. Advanced(s) = [s EXCEPT !.cluster = a.cluster, !.sector = SectorOf(a.cluster), !.fat = a.fat,
                                !.todo = IF a.cluster = Stray THEN @ ELSE Append(@, FatSector(a.fat))]
    BY <1>1, <2>1, <2>2 DEF Advanced
  <2>4. PICK r : r = Advanced(s)
    OBVIOUS
  <2>5. /\ DOMAIN r = LoopFields /\ ~r.bad /\ r.fat = a.fat /\ r.data = s.data /\ r.off = s.off
        /\ r.done = s.done /\ r.cluster = a.cluster /\ r.sector = SectorOf(a.cluster)
        /\ r.todo = IF a.cluster = Stray THEN s.todo ELSE Append(s.todo, FatSector(a.fat))
    BY <2>3, <2>4 DEF LoopFields
  <2>6. CASE FreeClusters(s.fat) = {} /\ a.cluster = Stray /\ a.fat = s.fat
    <3>1. Sound(r)
      BY <2>5, <2>6 DEF Sound
    <3>2. SectorOf(Stray) \notin Sectors
      <4>1. SectorOf(Stray) = NrClusters * SecPerCluster
        BY Numbers DEF SectorOf, Stray
      <4> QED BY <4>1, Numbers DEF Sectors
    <3>5. ~Ample
      <4> SUFFICES ASSUME Ample PROVE FALSE
        OBVIOUS
      <4>1. Len(ch[i]) < Most /\ i \in 1 .. DirSlots
        BY <1>7, <2>1 DEF UsedIn
      <4>2. PICK n \in 0 .. MaxResets : n = resets
        OBVIOUS
      <4>3. Spare(s.fat, dir, ch, n)
        BY <1>6, <4>2
      <4> QED BY <2>6, <4>1, <4>3, HasRoom
    <3>3. Stands(r, ch[i], len, k)
      BY <2>5, <2>6, <3>2, <3>5 DEF Stands
    <3>4. Held(r.fat, dir, ch, resets)
      BY <2>5, <2>6
    <3> QED BY <2>4, <2>5, <3>1, <3>3, <3>4 DEF Loop
  <2>7. CASE \E e \in Clusters : s.fat[e] = Free /\ a.cluster = e /\ a.fat = Linked(s.fat, e, s.cluster)
    <3>1. PICK e \in Clusters : s.fat[e] = Free /\ a.cluster = e /\ a.fat = Linked(s.fat, e, s.cluster)
      BY <2>7
    <3>2. PICK m \in Nat \ {0} : m = Len(ch[i]) /\ j = m
      BY <1>2, <2>1
    <3>3. PICK new : new = [ch EXCEPT ![i] = Append(@, e)]
      OBVIOUS
    <3>4. a.fat = [s.fat EXCEPT ![e] = Eof, ![ch[i][m]] = e] /\ s.fat \in Table
      BY <1>2, <3>1, <3>2, Numbers DEF Linked, Sound
    <3>5. new \in Chains(dir) /\ Held(a.fat, dir, new, resets)
      <4>1. PICK t \in Table : t = s.fat
        BY <3>4
      <4>2. Chained(t, dir, ch) /\ t[e] = Free
        BY <1>6, <3>1, <4>1
      <4>4. PICK n \in Nat : n = resets /\ Spare(t, dir, ch, n)
        BY <1>6, <4>1
      <4>5. Spare([t EXCEPT ![e] = Eof, ![ch[i][m]] = e], dir, [ch EXCEPT ![i] = Append(@, e)], n)
        <5>1. Ample => m < Most
          BY <1>7, <3>2
        <5> QED BY <3>2, <4>4, <5>1, ExtendSpare
      <4>3. /\ [ch EXCEPT ![i] = Append(@, e)] \in Chains(dir)
            /\ Chained([t EXCEPT ![e] = Eof, ![ch[i][m]] = e], dir, [ch EXCEPT ![i] = Append(@, e)])
        BY <3>2, <4>2, ExtendKeeps
      <4> QED BY <3>3, <3>4, <4>1, <4>3, <4>4, <4>5 DEF Held
    <3>6. new[i] = Append(ch[i], e)
      BY <3>3 DEF Chains
    <3>7. Len(new[i]) = m + 1 /\ new[i][m + 1] = e
      <4>1. ch[i] \in Seq(Clusters)
        BY ChainFacts
      <4> QED BY <3>2, <3>6, <4>1, AppendProperties
    <3>8. a.fat \in Table
      <4>1. PICK t \in Table : t = s.fat
        BY <3>4
      <4>2. PICK f : f = ch[i][m] /\ f \in Clusters
        BY <1>2, <3>2
      <4>3. [t EXCEPT ![e] = Eof, ![f] = e] \in Table
        BY <4>2 DEF Table
      <4> QED BY <3>4, <4>1, <4>2, <4>3
    <3>9. Volume(a.fat, dir, resets + 1)
      <4>1. PICK n \in Nat : n = resets
        BY <1>6
      <4>2. Volume(a.fat, dir, n)
        BY <3>5, <3>8, <4>1 DEF Volume
      <4> QED BY <4>1, <4>2, MoreLost
    <3>10. PICK q, n : q = s.todo /\ n = Len(q)
      OBVIOUS
    <3>11. q \in Seq(Writes) /\ n \in Nat /\ Fits(q, dir, resets + 1) /\ NoDir(q)
      BY <3>10, LenProperties DEF Sound
    <3>12. /\ Append(q, FatSector(a.fat)) \in Seq(Writes) /\ Latest(Append(q, FatSector(a.fat)), a.fat)
           /\ Fits(Append(q, FatSector(a.fat)), dir, resets + 1) /\ Len(Append(q, FatSector(a.fat))) = n + 1
           /\ (\A g \in 1 .. n : Append(q, FatSector(a.fat))[g] = q[g])
           /\ Append(q, FatSector(a.fat))[n + 1] = FatSector(a.fat)
      BY <3>8, <3>9, <3>10, <3>11, AppendTable
    <3>13. NoDir(Append(q, FatSector(a.fat)))
      <4>1. \A g \in 1 .. n + 1 : g \in 1 .. n \/ g = n + 1
        BY <3>11
      <4> QED BY <3>10, <3>11, <3>12, <4>1, SectorKinds DEF NoDir
    <3>14. r.todo = Append(q, FatSector(a.fat))
      BY <2>5, <3>1, <3>10, Numbers
    <3>15. Sound(r)
      BY <2>5, <3>8, <3>12, <3>13, <3>14 DEF Sound
    <3>16. Stands(r, new[i], len, k)
      <4>1. m + 1 \in 1 .. Len(new[i]) /\ r.cluster = new[i][m + 1] /\ r.done = SectorSize * (m + 1 - 1)
        BY <2>5, <3>1, <3>2, <3>7
      <4>2. r.sector = SectorOf(r.cluster)
        BY <2>5
      <4> QED BY <2>5, <4>1, <4>2 DEF Stands
    <3> QED BY <2>4, <2>5, <3>5, <3>15, <3>16 DEF Loop
  <2> QED BY <2>2, <2>6, <2>7, AllocatedIs
<1> QED BY <1>4, <1>5

\* The sector of a cluster is one of the data area.
LEMMA InArea == ASSUME NEW c \in Clusters PROVE SectorOf(c) \in Sectors
<1>1. PICK z \in 0 .. NrClusters - 1 : z = c - 2
  BY Numbers DEF Clusters
<1>2. PICK y \in Nat : NrClusters = z + 1 + y
  <2>1. NrClusters - 1 - z \in Nat /\ NrClusters = z + 1 + (NrClusters - 1 - z)
    BY Numbers
  <2> QED BY <2>1
<1>3. PICK n \in Nat : n = SecPerCluster /\ n >= 1
  BY Numbers
<1>4. (z + 1 + y) * n = z * n + n + y * n /\ y * n \in Nat /\ z * n \in Nat
  OBVIOUS
<1>5. z * n \in 0 .. NrClusters * n - 1
  BY <1>2, <1>3, <1>4
<1> QED BY <1>1, <1>3, <1>5 DEF SectorOf, Sectors

\* One turn of the loop.
LEMMA TurnKeeps ==
  ASSUME NEW i \in UsedIn(dir), dir \in Dirs, Unique(dir), NEW len \in Nat, NEW x \in Bytes, NEW k \in Nat,
         NEW s, Loop(s, i, len, k), resets \in 0 .. MaxResets, len <= MaxOffset
  PROVE  Loop(Turn(s, len, x), i, len, k + 1)
<1>1. CASE s.bad
  BY <1>1 DEF Turn, Loop
<1>2. CASE ~s.bad
  <2>1. DOMAIN s = LoopFields /\ Sound(s) /\ s.done \in Nat
    BY <1>2 DEF Loop, Sound
  <2>2. PICK ch \in Chains(dir) : Held(s.fat, dir, ch, resets) /\ Stands(s, ch[i], len, k)
    BY <1>2 DEF Loop
  <2>3. CASE s.done >= len
    <3>1. s.done = len /\ len <= SectorSize * Len(ch[i])
      BY <2>1, <2>2, <2>3 DEF Stands
    <3>2. Stands(s, ch[i], len, k + 1)
      BY <3>1 DEF Stands
    <3>3. Turn(s, len, x) = s
      BY <2>3 DEF Turn
    <3> QED BY <2>1, <2>2, <3>2, <3>3 DEF Loop
  <2>4. CASE s.done < len
    <3>1. PICK c : c = Copied(s, len, x)
      OBVIOUS
    <3>2. DOMAIN c = LoopFields
      BY <1>2, <2>1, <2>4, <3>1, CopiedFields
    <3>3. ~(s.done >= len)
      BY <2>1, <2>4
    <3>4. CASE c.bad
      <4>1. Turn(s, len, x) = c
        BY <1>2, <3>1, <3>3, <3>4 DEF Turn
      <4>2. ~Ample
        <5> SUFFICES ASSUME Ample PROVE FALSE
          OBVIOUS
        <5>1. s.sector \notin Sectors
          BY <1>2, <2>1, <2>4, <3>1, <3>4, CopiedFields
        <5>2. PICK j \in 1 .. Len(ch[i]) : s.cluster = ch[i][j] /\ s.sector = SectorOf(s.cluster)
          BY <2>1, <2>2, <2>4 DEF Stands
        <5> QED BY <5>1, <5>2, ChainFacts, InArea
      <4> QED BY <3>2, <3>4, <4>1, <4>2 DEF Loop
    <3>5. CASE ~c.bad
      <4>1. /\ Sound(c) /\ s.sector \in Sectors /\ c.fat = s.fat /\ c.cluster = s.cluster
            /\ c.done = IF s.done + SectorSize < len THEN s.done + SectorSize ELSE len
        BY <1>2, <2>1, <2>4, <3>1, <3>5, CopiedFields
      <4>2. PICK j \in 1 .. Len(ch[i]) : s.cluster = ch[i][j] /\ s.done = SectorSize * (j - 1) /\ k <= s.done
        BY <2>2, <2>1, <2>4, <4>1 DEF Stands
      <4>3. Len(ch[i]) \in Nat /\ j \in Nat
        BY ChainFacts
      <4>4. s.done + SectorSize = SectorSize * j /\ SectorSize * j <= SectorSize * Len(ch[i])
        <5>1. SectorSize * (j - 1) + SectorSize = SectorSize * j
          BY <4>3, Numbers
        <5>2. PICK z \in Nat : Len(ch[i]) = j + z
          <6>1. Len(ch[i]) - j \in Nat /\ Len(ch[i]) = j + (Len(ch[i]) - j)
            BY <4>3
          <6> QED BY <6>1
        <5>3. SectorSize * (j + z) = SectorSize * j + SectorSize * z /\ SectorSize * z \in Nat /\ SectorSize * j \in Nat
          BY <4>3, Numbers
        <5>4. SectorSize * j <= SectorSize * j + SectorSize * z
          BY <5>3
        <5> QED BY <4>2, <5>1, <5>2, <5>3, <5>4
      <4>5. CASE s.done + SectorSize < len
        <5>1. c.done = SectorSize * j /\ c.done < len /\ k + 1 <= c.done
          BY <2>1, <4>1, <4>2, <4>4, <4>5, Numbers
        <5>2. Turn(s, len, x) = Advanced(c)
          <6>1. ~(c.done >= len)
            BY <4>1, <5>1 DEF Sound
          <6> QED BY <1>2, <3>1, <3>3, <3>5, <6>1 DEF Turn
        <5>3. Held(c.fat, dir, ch, resets) /\ c.cluster = ch[i][j] /\ k + 1 \in Nat
          BY <2>2, <4>1, <4>2
        <5>4. Loop(Advanced(c), i, len, k + 1)
          BY <3>2, <3>5, <4>1, <5>1, <5>3, AdvancedKeeps
        <5> QED BY <5>2, <5>4
      <4>6. CASE ~(s.done + SectorSize < len)
        <5>1. c.done = len /\ len <= SectorSize * j
          BY <2>1, <4>1, <4>4, <4>6, Numbers
        <5>2. Turn(s, len, x) = c
          BY <1>2, <3>1, <3>3, <3>5, <5>1 DEF Turn
        <5>3. len <= SectorSize * Len(ch[i])
          <6>1. SectorSize * j \in Nat /\ SectorSize * Len(ch[i]) \in Nat
            BY <4>3, Numbers
          <6> QED BY <4>4, <5>1, <6>1
        <5>4. Stands(c, ch[i], len, k + 1)
          BY <5>1, <5>3 DEF Stands
        <5>5. Held(c.fat, dir, ch, resets)
          BY <2>2, <4>1
        <5> QED BY <3>2, <3>5, <4>1, <5>2, <5>4, <5>5 DEF Loop
      <4> QED BY <4>5, <4>6
    <3> QED BY <3>4, <3>5
  <2> QED BY <2>1, <2>3, <2>4
<1> QED BY <1>1, <1>2

\* The states of the loop, one for each turn.
Running(g, s, len, x, n) == g = [k \in 0 .. n |-> IF k = 0 THEN s ELSE Turn(g[k - 1], len, x)]

LEMMA TurnsExist ==
  ASSUME NEW s, NEW len, NEW x, NEW n \in Nat
  PROVE  \E g : Running(g, s, len, x, n)
<1> DEFINE Runs(g, m) == Running(g, s, len, x, m)
           W == {m \in 0 .. n : ~\E g : Runs(g, m)}
<1> SUFFICES ASSUME W # {} PROVE FALSE
  OBVIOUS
<1>1. PICK m \in W : \A y \in W : m <= y
  <2>1. W \in SUBSET (0 .. n)
    OBVIOUS
  <2> HIDE DEF W
  <2> QED BY <2>1, LeastElement
<1>2. CASE m = 0
  <2>1. PICK g : g = [k \in 0 .. 0 |-> s]
    OBVIOUS
  <2>2. Runs(g, 0)
    <3>1. \A k \in 0 .. 0 : k = 0
      OBVIOUS
    <3> QED BY <2>1, <3>1 DEF Running
  <2> QED BY <1>2, <2>2
<1>3. CASE m # 0
  <2>1. m - 1 \in 0 .. n /\ m - 1 \notin W /\ m \in Nat /\ m >= 1
    BY <1>1, <1>3
  <2>2. PICK g : Runs(g, m - 1)
    BY <2>1
  <2>3. PICK h : h = [k \in 0 .. m |-> IF k = m THEN Turn(g[m - 1], len, x) ELSE g[k]]
    OBVIOUS
  <2>4. ASSUME NEW k \in 0 .. m PROVE h[k] = IF k = 0 THEN s ELSE Turn(h[k - 1], len, x)
    <3>1. CASE k = m
      <4>1. m - 1 \in 0 .. m /\ m - 1 # m
        BY <2>1
      <4>2. h[m - 1] = g[m - 1]
        BY <2>3, <4>1
      <4> QED BY <1>3, <2>3, <3>1, <4>2
    <3>2. CASE k # m
      <4>1. k \in 0 .. m - 1 /\ h[k] = g[k]
        BY <2>1, <2>3, <3>2
      <4>2. g[k] = IF k = 0 THEN s ELSE Turn(g[k - 1], len, x)
        BY <2>2, <4>1 DEF Running
      <4>3. k # 0 => h[k - 1] = g[k - 1]
        <5>1. k # 0 => k - 1 \in 0 .. m /\ k - 1 # m
          BY <2>1, <4>1
        <5> QED BY <2>3, <5>1
      <4> QED BY <4>1, <4>2, <4>3
    <3> QED BY <3>1, <3>2
  <2>5. h = [k \in 0 .. m |-> h[k]]
    BY <2>3
  <2>6. Runs(h, m)
    BY <2>4, <2>5 DEF Running
  <2> QED BY <2>6
<1> QED BY <1>2, <1>3

\* The state of the loop before its first turn, and that all turns lead from
\* it to what is written.
Start(f) ==
  [fat |-> fat, data |-> data, todo |-> << >>, cluster |-> f.file.start,
   sector |-> SectorOf(f.file.start) + f.cfo \div SectorSize,
   off |-> f.cfo % SectorSize, done |-> 0, bad |-> FALSE]

LEMMA WrittenRuns ==
  ASSUME NEW f, NEW len \in Nat, NEW x
  PROVE  \E g : Running(g, Start(f), len, x, len + 1) /\ Written(f, len, x) = g[len + 1]
<1>1. PICK n \in Nat : n = len + 1
  OBVIOUS
<1>6. PICK st : st = Start(f)
  OBVIOUS
<1>2. \E g : Running(g, st, len, x, n)
  BY TurnsExist
<1>3. PICK after : after = CHOOSE g : Running(g, Start(f), len, x, len + 1)
  OBVIOUS
<1>4. Running(after, Start(f), len, x, len + 1)
  BY <1>1, <1>2, <1>3, <1>6
<1>5. Written(f, len, x) = after[len + 1]
  BY <1>3 DEF Written, Turn, Start, Running
<1> QED BY <1>4, <1>5

\* Before the first turn the loop stands at the first cluster of the file.
LEMMA LoopBegins ==
  ASSUME Volume(fat, dir, resets), fatDisk = fat, data \in Area, NEW i \in UsedIn(dir),
         NEW f, f.file = dir[i], f.cfo = 0, NEW len \in Nat \ {0}
  PROVE  Loop(Start(f), i, len, 0)
<1>1. PICK ch \in Chains(dir) : Chained(fat, dir, ch) /\ Held(fat, dir, ch, resets)
  BY DEF Volume, Held
<1>2. PICK s : s = Start(f)
  OBVIOUS
<1>3. 0 % SectorSize = 0 /\ 0 \div SectorSize = 0
  <2>1. \A n \in Nat \ {0} : 0 % n = 0 /\ 0 \div n = 0
    OBVIOUS
  <2> QED BY <2>1, Numbers
<1>4. /\ DOMAIN s = LoopFields /\ ~s.bad /\ s.fat = fat /\ s.data = data /\ s.todo = << >> /\ s.cluster = dir[i].start
      /\ s.sector = SectorOf(dir[i].start) + 0 /\ s.sector = SectorOf(s.cluster) /\ s.off = 0 /\ s.done = 0
  <2>1. \A z \in Int : z + 0 = z
    OBVIOUS
  <2>2. dir[i].start \in Int
    <3>1. dir[i] \in Entries
      BY DEF Volume, Dirs, UsedIn
    <3>2. dir[i].start \in {Free, Stray} \cup Clusters
      BY <3>1 DEF Entries
    <3>3. Free \in Int /\ Stray \in Int
      BY Numbers DEF Free
    <3>4. \A z \in Clusters : z \in Int
      BY Numbers
    <3> QED BY <3>2, <3>3, <3>4
  <2>3. SectorOf(dir[i].start) \in Int
    BY <2>2, Numbers DEF SectorOf
  <2> QED BY <1>2, <1>3, <2>1, <2>3 DEF LoopFields, Start
<1>5. << >> \in Seq(Writes) /\ 1 .. Len(<< >>) = {}
  BY EmptySeq
<1>6. Sound(s)
  BY <1>4, <1>5 DEF Sound, Volume, Latest, Fits, NoDir
<1>7. Stands(s, ch[i], len, 0)
  <2>1. Len(ch[i]) \in Nat /\ IsChain(fat, dir[i].start, ch[i])
    BY <1>1, ChainFacts DEF Chained
  <2>2. CASE Len(ch[i]) = 0
    <3>1. dir[i].start = Stray
      BY <2>1, <2>2 DEF IsChain
    <3>2. SectorOf(Stray) + 0 = NrClusters * SecPerCluster
      BY Numbers DEF SectorOf, Stray
    <3>3. s.sector \notin Sectors
      BY <1>4, <3>1, <3>2, Numbers DEF Sectors
    <3>4. ~Ample
      BY <1>1, <2>2 DEF Held, Spare
    <3> QED BY <1>4, <3>1, <3>3, <3>4 DEF Stands
  <2>3. CASE Len(ch[i]) # 0
    <3>1. 1 \in 1 .. Len(ch[i]) /\ s.cluster = ch[i][1]
      BY <1>4, <2>1, <2>3 DEF IsChain
    <3>2. SectorSize * (1 - 1) = 0
      BY Numbers
    <3> QED BY <1>4, <3>1, <3>2 DEF Stands
  <2> QED BY <2>2, <2>3
<1> QED BY <1>1, <1>2, <1>4, <1>6, <1>7 DEF Loop

\* What fat32_write_file leaves: the file's clusters hold what was written.
LEMMA WrittenIs ==
  ASSUME Volume(fat, dir, resets), fatDisk = fat, data \in Area, NEW i \in UsedIn(dir),
         NEW f, f.file = dir[i], f.cfo = 0, NEW len \in Nat \ {0}, NEW x \in Bytes,
         resets \in 0 .. MaxResets, len <= MaxOffset
  PROVE  \/ Written(f, len, x).bad /\ ~Ample
         \/ /\ ~Written(f, len, x).bad /\ Sound(Written(f, len, x))
            /\ \E ch \in Chains(dir) : Held(Written(f, len, x).fat, dir, ch, resets) /\ len <= SectorSize * Len(ch[i])
<1>1. Loop(Start(f), i, len, 0)
  BY LoopBegins
<1>2. len + 1 \in Nat
  OBVIOUS
<1>5. PICK after : Running(after, Start(f), len, x, len + 1) /\ Written(f, len, x) = after[len + 1]
  BY WrittenRuns
<1>7. \A k \in 0 .. len + 1 : Loop(after[k], i, len, k)
  <2> DEFINE W == {k \in 0 .. len + 1 : ~Loop(after[k], i, len, k)}
  <2> SUFFICES ASSUME W # {} PROVE FALSE
    OBVIOUS
  <2>1. W \in SUBSET (0 .. len + 1)
    OBVIOUS
  <2>2. PICK m \in W : \A y \in W : m <= y
    <3> HIDE DEF W
    <3> QED BY <1>2, <2>1, LeastElement
  <2>3. CASE m = 0
    BY <1>1, <1>5, <2>3 DEF Running
  <2>4. CASE m # 0
    <3>1. m - 1 \in 0 .. len + 1 /\ m - 1 \notin W /\ m \in 0 .. len + 1 /\ m - 1 + 1 = m /\ m - 1 \in Nat
      BY <2>2, <2>4
    <3>2. Loop(after[m - 1], i, len, m - 1)
      BY <3>1
    <3>3. after[m] = Turn(after[m - 1], len, x)
      BY <1>5, <2>4, <3>1 DEF Running
    <3>4. dir \in Dirs /\ Unique(dir)
      BY DEF Volume
    <3>5. Loop(Turn(after[m - 1], len, x), i, len, m - 1 + 1)
      BY <3>1, <3>2, <3>4, TurnKeeps
    <3> QED BY <3>1, <3>3, <3>5
  <2> QED BY <2>3, <2>4
<1>8. PICK w : w = Written(f, len, x)
  OBVIOUS
<1>9. Loop(w, i, len, len + 1)
  <2>1. len + 1 \in 0 .. len + 1
    OBVIOUS
  <2> QED BY <1>5, <1>7, <1>8, <2>1
<1>10. ASSUME ~w.bad
       PROVE  Sound(w) /\ \E ch \in Chains(dir) : Held(w.fat, dir, ch, resets) /\ len <= SectorSize * Len(ch[i])
  <2>1. PICK ch \in Chains(dir) : Sound(w) /\ Held(w.fat, dir, ch, resets) /\ Stands(w, ch[i], len, len + 1)
    BY <1>9, <1>10 DEF Loop
  <2>2. w.done \in Nat /\ ~(w.done < len /\ len + 1 <= w.done)
    BY <2>1 DEF Sound
  <2>3. len <= SectorSize * Len(ch[i])
    BY <2>1, <2>2 DEF Stands
  <2> QED BY <2>1, <2>3
<1>11. Ample => ~w.bad
  BY <1>9 DEF Loop
<1> QED BY <1>8, <1>10, <1>11
-----------------------------------------------------------------------------
(***************************************************************************)
(* The inductive invariant.  The disk fits together now and after each of  *)
(* the sectors that are still to be written, of which the directory is the *)
(* last; and descriptors show the entries as they will be then.            *)
(***************************************************************************)
Coming == IF Len(todo) # 0 /\ todo[Len(todo)].to = "dir" THEN todo[Len(todo)].value ELSE dir

Pending ==
  /\ todo \in Seq(Writes) /\ Latest(todo, fat) /\ Fits(todo, dir, resets + 1)
  /\ \A m \in 1 .. Len(todo) : todo[m].to = "dir" => m = Len(todo)

FdFields == {"opened", "perms", "cfo", "file"}
Descriptors ==
  /\ fds = [d \in Fds |-> fds[d]] /\ avail \in Nat /\ avail >= 3
  /\ \A d \in Fds : DOMAIN fds[d] = FdFields
  /\ \A d \in Fds : fds[d].opened => \E i \in UsedIn(Coming) : Coming[i] = fds[d].file
  /\ \A d, e \in Fds : fds[d].opened /\ fds[e].opened /\ fds[d].file.name = fds[e].file.name => d = e

\* At rest the clusters that belong to no file are those that a reset lost; the
\* one that a new file is about to get may be another.
DiskInv ==
  /\ data \in Area /\ resets \in 0 .. MaxResets
  /\ Volume(fatDisk, dir, resets + 1) /\ Volume(fat, Coming, resets) /\ Pending
FilesInv == DiskInv /\ Descriptors /\ (Ample => ~oops)

\* A call that writes no sector starts and ends with the directory of the disk.
LEMMA WhenReady ==
  ASSUME DiskInv, Ready
  PROVE  Coming = dir /\ fatDisk = fat /\ Volume(fat, dir, resets) /\ dir \in Dirs /\ Unique(dir) /\ Len(todo) = 0
<1>1. Len(todo) = 0 /\ 1 .. Len(todo) = {}
  BY EmptySeq DEF Ready
<1>2. Coming = dir
  BY <1>1 DEF Coming
<1>3. fatDisk = fat
  BY <1>1 DEF DiskInv, Pending, Latest, Fits
<1> QED BY <1>1, <1>2, <1>3 DEF DiskInv, Volume

\* Its sectors and the memory are all that the invariant is about.
LEMMA Untouched ==
  ASSUME DiskInv, UNCHANGED <<disk, fat, todo, resets>>
  PROVE  DiskInv' /\ Coming' = Coming
<1>1. data' = data /\ fatDisk' = fatDisk /\ dir' = dir /\ fat' = fat /\ todo' = todo /\ resets' = resets
  BY DEF disk
<1>2. Coming' = Coming
  BY <1>1 DEF Coming
<1>3. Pending'
  BY <1>1 DEF DiskInv, Pending, Latest, Fits
<1> QED BY <1>1, <1>2, <1>3 DEF DiskInv

LEMMA Unchanged ==
  ASSUME FilesInv, UNCHANGED <<disk, memory, todo, resets>>, Ample => oops' = oops
  PROVE  FilesInv'
<1>1. UNCHANGED <<disk, fat, todo, resets>> /\ fds' = fds /\ avail' = avail
  BY DEF memory
<1>2. DiskInv' /\ Coming' = Coming
  BY <1>1, Untouched DEF FilesInv
<1>3. Descriptors'
  BY <1>1, <1>2 DEF FilesInv, Descriptors
<1> QED BY <1>2, <1>3 DEF FilesInv

\* A disciplined program opens a file once, in a descriptor that is there.
LEMMA OpenKeeps ==
  ASSUME Disciplined, FilesInv, NEW n \in Names, NEW p, Open(n, p)
  PROVE  FilesInv'
<1>1. Ready /\ SlotsOf(n) # {} /\ avail < MAX_FILE_NUMBER /\ avail # MAX_FILE_NUMBER
      /\ \A d \in Fds : fds[d].opened => fds[d].file.name # n
  BY FilesAssumption DEF Open, FilesInv, Descriptors
<1>2. UNCHANGED <<disk, fat, todo, resets, oops>>
      /\ fds' = [fds EXCEPT ![avail] = [opened |-> TRUE, perms |-> p, cfo |-> 0, file |-> dir[Min(SlotsOf(n))]]]
      /\ avail' = avail + 1
  BY <1>1 DEF Open
<1>3. DiskInv' /\ Coming' = Coming /\ Coming = dir
  BY <1>1, <1>2, Untouched, WhenReady DEF FilesInv
<1>4. PICK i : i = Min(SlotsOf(n)) /\ i \in UsedIn(dir) /\ dir[i].name = n
  <2>1. SlotsOf(n) \in SUBSET (0 .. DirSlots) /\ DirSlots \in Nat
    BY Numbers DEF SlotsOf
  <2>2. Min(SlotsOf(n)) \in SlotsOf(n)
    BY <1>1, <2>1, MinIsLeast
  <2>3. n # Absent
    BY Numbers
  <2> QED BY <2>2, <2>3 DEF SlotsOf, UsedIn
<1>5. avail \in Fds /\ avail + 1 \in Nat /\ avail + 1 >= 3
  BY <1>1, FilesAssumption DEF Fds, FilesInv, Descriptors
<1>6. PICK r : r = [opened |-> TRUE, perms |-> p, cfo |-> 0, file |-> dir[i]]
  OBVIOUS
<1>7. DOMAIN r = FdFields /\ r.file = dir[i]
  BY <1>6 DEF FdFields
<1>8. fds' = [d \in Fds |-> IF d = avail THEN r ELSE fds[d]]
  BY <1>2, <1>4, <1>6 DEF FilesInv, Descriptors
<1>9. \A d \in Fds : fds'[d] = IF d = avail THEN r ELSE fds[d]
  BY <1>8
<1>10. fds' = [d \in Fds |-> fds'[d]]
  BY <1>8
<1>11. \A d \in Fds : fds'[d].opened => \E k \in UsedIn(Coming') : Coming'[k] = fds'[d].file
  BY <1>3, <1>4, <1>7, <1>9 DEF FilesInv, Descriptors
<1>12. \A d, e \in Fds : fds'[d].opened /\ fds'[e].opened /\ fds'[d].file.name = fds'[e].file.name => d = e
  BY <1>1, <1>4, <1>7, <1>9 DEF FilesInv, Descriptors
<1>13. \A d \in Fds : DOMAIN fds'[d] = FdFields
  BY <1>7, <1>9 DEF FilesInv, Descriptors
<1> QED BY <1>2, <1>3, <1>5, <1>10, <1>11, <1>12, <1>13 DEF FilesInv, Descriptors

\* The file of a descriptor and whether it is open are all that counts.
LEMMA SameFiles ==
  ASSUME FilesInv, UNCHANGED <<disk, fat, avail, todo, resets, oops>>,
         NEW d \in Fds, NEW r, DOMAIN r = FdFields, r.opened => fds[d].opened /\ r.file = fds[d].file, fds' = [fds EXCEPT ![d] = r]
  PROVE  FilesInv'
<1>1. DiskInv' /\ Coming' = Coming /\ avail' = avail
  BY Untouched DEF FilesInv
<1>2. fds' = [e \in Fds |-> IF e = d THEN r ELSE fds[e]]
  BY DEF FilesInv, Descriptors
<1>3. \A e \in Fds : /\ DOMAIN fds'[e] = FdFields
                     /\ fds'[e].opened => fds[e].opened /\ fds'[e].file = fds[e].file
  BY <1>2 DEF FilesInv, Descriptors
<1>4. fds' = [e \in Fds |-> fds'[e]]
  BY <1>2
<1>5. \A e \in Fds : fds'[e].opened => \E k \in UsedIn(Coming') : Coming'[k] = fds'[e].file
  BY <1>1, <1>3 DEF FilesInv, Descriptors
<1>6. \A e, h \in Fds : fds'[e].opened /\ fds'[h].opened /\ fds'[e].file.name = fds'[h].file.name => e = h
  BY <1>3 DEF FilesInv, Descriptors
<1> QED BY <1>1, <1>3, <1>4, <1>5, <1>6 DEF FilesInv, Descriptors

LEMMA CloseKeeps ==
  ASSUME FilesInv, NEW d \in Fds, Close(d)
  PROVE  FilesInv'
<1>1. DOMAIN Closed = FdFields /\ ~Closed.opened
  BY DEF Closed, FdFields
<1>2. UNCHANGED <<disk, fat, avail, todo, resets, oops>> /\ fds' = [fds EXCEPT ![d] = Closed]
  BY DEF Close
<1> QED BY <1>1, <1>2, SameFiles

\* An offset moves.
LEMMA MoveKeeps ==
  ASSUME FilesInv, UNCHANGED <<disk, fat, avail, todo, resets, oops>>, NEW d \in Fds, NEW o, fds' = [fds EXCEPT ![d].cfo = o]
  PROVE  FilesInv'
<1>1. PICK r : r = [fds[d] EXCEPT !.cfo = o]
  OBVIOUS
<1>2. DOMAIN fds[d] = FdFields
  BY DEF FilesInv, Descriptors
<1>3. DOMAIN r = FdFields /\ r.opened = fds[d].opened /\ r.file = fds[d].file
  BY <1>1, <1>2 DEF FdFields
<1>4. fds' = [fds EXCEPT ![d] = r]
  BY <1>1
<1> QED BY <1>3, <1>4, SameFiles

LEMMA LseekKeeps ==
  ASSUME FilesInv, NEW d \in Fds, NEW o, Lseek(d, o)
  PROVE  FilesInv'
<1>1. PICK base : fds' = [fds EXCEPT ![d].cfo = base + o]
  BY DEF Lseek
<1>2. UNCHANGED <<disk, fat, avail, todo, resets, oops>>
  BY DEF Lseek
<1> QED BY <1>1, <1>2, MoveKeeps

\* The sectors of n bytes.
LEMMA Rounded ==
  ASSUME NEW b \in Nat \ {0}, NEW n \in Nat, NEW m \in Nat, n <= b * m
  PROVE  (n + b - 1) \div b \in Nat /\ (n + b - 1) \div b <= m
<1>1. PICK q \in Int, r \in 0 .. b - 1 : q = (n + b - 1) \div b /\ n + b - 1 = b * q + r
  OBVIOUS
<1>2. q >= 0
  <2> SUFFICES ASSUME q < 0 PROVE FALSE
    OBVIOUS
  <2>1. PICK z \in Nat : q = -1 - z
    <3>1. -1 - q \in Nat /\ q = -1 - (-1 - q)
      OBVIOUS
    <3> QED BY <3>1
  <2>2. b * q = - b - b * z /\ b * z \in Nat
    BY <2>1
  <2> QED BY <1>1, <2>2
<1>3. q <= m
  <2> SUFFICES ASSUME q > m PROVE FALSE
    OBVIOUS
  <2>1. PICK z \in Nat : q = m + 1 + z
    <3>1. q - m - 1 \in Nat /\ q = m + 1 + (q - m - 1)
      OBVIOUS
    <3> QED BY <3>1
  <2>2. b * q = b * m + b + b * z /\ b * z \in Nat /\ b * m \in Nat
    BY <2>1
  <2> QED BY <1>1, <2>2
<1> QED BY <1>1, <1>2, <1>3

\* A read follows the chain no further than the size of the entry needs.
LEMMA ReadKeeps ==
  ASSUME FilesInv, NEW d \in Fds, NEW len \in Lens, Read(d, len)
  PROVE  FilesInv'
<1>1. PICK f : f = fds[d]
  OBVIOUS
<1>2. PICK n : n = IF len > f.file.size THEN f.file.size ELSE len
  OBVIOUS
<1>3. PICK turns : turns = (n + SectorSize - 1) \div SectorSize
  OBVIOUS
<1>4. Coming = dir /\ Volume(fat, dir, resets) /\ dir \in Dirs /\ f.opened
  BY <1>1, WhenReady DEF Read, FilesInv
<1>5. PICK i \in UsedIn(dir) : f.file = dir[i]
  BY <1>1, <1>4 DEF FilesInv, Descriptors
<1>6. PICK ch \in Chains(dir) : Chained(fat, dir, ch)
  BY <1>4 DEF Volume, Held
<1>7. PICK s \in Seq(Clusters), m \in Nat : s = ch[i] /\ m = Len(s)
  BY ChainFacts
<1>8. IsChain(fat, dir[i].start, s) /\ dir[i].size <= SectorSize * m /\ \A j \in 1 .. m : s[j] \in Clusters
  BY <1>6, <1>7, ChainFacts DEF Chained
<1>9. n \in Nat /\ n <= SectorSize * m
  <2>1. dir[i].size \in Nat
    <3>1. dir[i] \in Entries
      BY <1>4 DEF Dirs, UsedIn
    <3> QED BY <3>1 DEF Entries
  <2>2. SectorSize * m \in Nat /\ len \in Nat
    BY Numbers, FilesAssumption
  <2> QED BY <1>2, <1>5, <1>8, <2>1, <2>2
<1>10. turns \in Nat /\ turns <= m
  BY <1>3, <1>9, Numbers, Rounded
<1>11. ASSUME NEW k \in 1 .. turns PROVE SectorOf(Nth(fat, f.file.start, k)) \in Sectors
  <2>1. k \in Nat \ {0} /\ k <= m /\ k \in 1 .. m
    BY <1>10
  <2>2. Nth(fat, dir[i].start, k) = s[k]
    BY <1>7, <1>8, <2>1, NthIs
  <2> QED BY <1>5, <1>8, <2>1, <2>2, InArea
<1>12. UNCHANGED <<disk, fat, avail, todo, resets, oops>> /\ \E z : fds' = [fds EXCEPT ![d].cfo = @ + z]
  BY <1>1, <1>2, <1>3, <1>11 DEF Read
<1>13. PICK z : fds' = [fds EXCEPT ![d].cfo = @ + z]
  BY <1>12
<1>14. PICK o : o = fds[d].cfo + z
  OBVIOUS
<1>15. fds' = [fds EXCEPT ![d].cfo = o]
  BY <1>13, <1>14
<1> QED BY <1>12, <1>15, MoveKeeps

LEMMA ResetKeeps ==
  ASSUME FilesInv, Reset
  PROVE  FilesInv'
<1>1. UNCHANGED <<disk>> /\ oops' = oops /\ resets < MaxResets /\ resets' = resets + 1 /\ fat' = fatDisk /\ fds' = [d \in Fds |-> Closed] /\ avail' = 3 /\ todo' = << >>
  BY DEF Reset, CachedFat
<1>2. << >> \in Seq(Writes) /\ Len(<< >>) = 0 /\ 1 .. Len(<< >>) = {}
  BY EmptySeq
<1>3. data' = data /\ fatDisk' = fatDisk /\ dir' = dir
  BY <1>1 DEF disk
<1>4. Coming' = dir
  BY <1>1, <1>2, <1>3 DEF Coming
<1>5. Pending'
  BY <1>1, <1>2, <1>3 DEF Pending, Latest, Fits
<1>6. DiskInv'
  <2>1. PICK n \in Nat : n = resets + 1 /\ n \in 0 .. MaxResets
    BY <1>1, FilesAssumption DEF DiskInv, FilesInv
  <2>2. Volume(fatDisk, dir, n)
    BY <2>1 DEF DiskInv, FilesInv
  <2>3. Volume(fatDisk, dir, n + 1)
    BY <2>2, MoreLost
  <2>4. data \in Area
    BY DEF DiskInv, FilesInv
  <2> QED BY <1>1, <1>3, <1>4, <1>5, <2>1, <2>2, <2>3, <2>4 DEF DiskInv
<1>7. \A d \in Fds : fds'[d] = Closed
  BY <1>1
<1>8. DOMAIN Closed = FdFields /\ ~Closed.opened
  BY DEF Closed, FdFields
<1>9. Descriptors'
  BY <1>1, <1>7, <1>8 DEF Descriptors
<1> QED BY <1>1, <1>6, <1>9 DEF FilesInv

\* The entry of a file, and its size, after a write.
LEMMA ResizeKeeps ==
  ASSUME NEW t \in Table, NEW d \in Dirs, Unique(d), NEW ch \in Chains(d), NEW n, Held(t, d, ch, n),
         NEW i \in UsedIn(d), NEW z \in Nat, z <= SectorSize * Len(ch[i])
  PROVE  /\ Volume(t, [d EXCEPT ![i].size = z], n) /\ UsedIn([d EXCEPT ![i].size = z]) = UsedIn(d)
         /\ [d EXCEPT ![i].size = z][i] = [d[i] EXCEPT !.size = z]
         /\ \A k \in UsedIn(d) \ {i} : [d EXCEPT ![i].size = z][k] = d[k]
<1>1. PICK x : x = [d EXCEPT ![i].size = z]
  OBVIOUS
<1>2. UsedIn(x) = UsedIn(d) /\ Chained(t, x, ch)
  <2>1. /\ UsedIn([d EXCEPT ![i].size = z]) = UsedIn(d)
        /\ Chained(t, [d EXCEPT ![i].size = z], ch)
    BY GrowKeeps DEF Held
  <2> QED BY <1>1, <2>1
<1>3. i \in 1 .. DirSlots /\ d[i] \in Entries
  BY DEF UsedIn, Dirs
<1>4. PICK e : e = [d[i] EXCEPT !.size = z]
  OBVIOUS
<1>5. e \in Entries /\ e.name = d[i].name
  BY <1>3, <1>4 DEF Entries
<1>6. x = [k \in 1 .. DirSlots |-> IF k = i THEN e ELSE d[k]]
  BY <1>1, <1>4 DEF Dirs
<1>7. x \in Dirs
  BY <1>5, <1>6 DEF Dirs
<1>8. \A k \in 1 .. DirSlots : x[k].name = d[k].name
  BY <1>5, <1>6
<1>9. Unique(x)
  BY <1>2, <1>8 DEF Unique, UsedIn
<1>10. x[i] = e /\ \A k \in UsedIn(d) \ {i} : x[k] = d[k]
  BY <1>3, <1>6 DEF UsedIn
<1>11. ch \in Chains(x)
  BY <1>2 DEF Chains
<1>12. Spare(t, x, ch, n)
  BY <1>2 DEF Held, Spare, Covered
<1>13. Volume(t, x, n)
  BY <1>2, <1>7, <1>9, <1>11, <1>12 DEF Volume, Held
<1> QED BY <1>1, <1>2, <1>4, <1>10, <1>13

\* A write of the whole file from its beginning: every table on its way fits
\* the directory as it is, and the last one also the new size.
LEMMA WriteKeeps ==
  ASSUME Disciplined, FilesInv, NEW j \in Fds, NEW len \in Lens, NEW x \in Bytes, Write(j, len, x)
  PROVE  FilesInv'
<1>1. PICK f, w : f = fds[j] /\ w = Written(f, len, x)
  OBVIOUS
<1>2. /\ Coming = dir /\ fatDisk = fat /\ Volume(fat, dir, resets) /\ dir \in Dirs /\ Unique(dir) /\ data \in Area
      /\ f.opened /\ f.cfo = 0 /\ len \in Nat \ {0} /\ resets \in 0 .. MaxResets
  BY <1>1, WhenReady, FilesAssumption DEF Write, MayUse, FilesInv, DiskInv
<1>3. PICK i \in UsedIn(dir) : f.file = dir[i]
  BY <1>1, <1>2 DEF FilesInv, Descriptors
<1>4. len <= MaxOffset
  BY <1>1, <1>2 DEF Write
<1>5. \/ w.bad /\ ~Ample
      \/ ~w.bad /\ Sound(w) /\ \E ch \in Chains(dir) : Held(w.fat, dir, ch, resets) /\ len <= SectorSize * Len(ch[i])
  BY <1>1, <1>2, <1>3, <1>4, WrittenIs
<1>6. CASE w.bad
  <2>1. UNCHANGED <<disk, memory, todo, resets>>
    BY <1>1, <1>6 DEF Write, Break
  <2> QED BY <1>5, <1>6, <2>1, Unchanged
<1>7. CASE ~w.bad
  <2>4. PICK ch \in Chains(dir) : Sound(w) /\ Held(w.fat, dir, ch, resets) /\ len <= SectorSize * Len(ch[i])
    BY <1>5, <1>7
  <2>5. SlotsOf(f.file.name) = {i} /\ Min({i}) = i
    <3>1. i \in 1 .. DirSlots /\ dir[i].name # Absent
      BY DEF UsedIn
    <3>2. \A k \in 1 .. DirSlots : dir[k].name = dir[i].name => k = i
      BY <1>2, <3>1 DEF Unique, UsedIn
    <3>3. SlotsOf(f.file.name) = {i}
      BY <1>3, <3>1, <3>2 DEF SlotsOf
    <3>4. DirSlots \in Nat /\ {i} \in SUBSET (0 .. DirSlots) /\ {i} # {}
      BY <3>1, Numbers
    <3>5. Min({i}) \in {i}
      BY <3>4, MinIsLeast
    <3> QED BY <3>3, <3>5
  <2>6. PICK z : z = Grown(f.file.size, f.cfo + len)
    OBVIOUS
  <2>7. z \in Nat /\ z <= SectorSize * Len(ch[i])
    <3>1. dir[i] \in Entries /\ dir[i].size \in Nat /\ dir[i].size <= SectorSize * Len(ch[i])
      BY <1>2, <2>4 DEF UsedIn, Dirs, Entries, Held, Chained
    <3>2. z = IF len > dir[i].size THEN len ELSE dir[i].size
      BY <1>2, <1>3, <2>6 DEF Grown
    <3> QED BY <1>2, <2>4, <3>1, <3>2
  <2>8. PICK new : new = [dir EXCEPT ![i].size = z]
    OBVIOUS
  <2>9. /\ Volume(w.fat, new, resets) /\ UsedIn(new) = UsedIn(dir) /\ new[i] = [dir[i] EXCEPT !.size = z]
        /\ \A k \in UsedIn(dir) \ {i} : new[k] = dir[k]
    <3>1. PICK t \in Table : t = w.fat
      BY <2>4 DEF Sound
    <3>2. PICK d \in Dirs : d = dir /\ Unique(d) /\ Held(t, d, ch, resets) /\ i \in UsedIn(d) /\ ch \in Chains(d)
      BY <1>2, <2>4, <3>1
    <3>3. /\ Volume(t, [d EXCEPT ![i].size = z], resets) /\ UsedIn([d EXCEPT ![i].size = z]) = UsedIn(d)
          /\ [d EXCEPT ![i].size = z][i] = [d[i] EXCEPT !.size = z]
          /\ \A k \in UsedIn(d) \ {i} : [d EXCEPT ![i].size = z][k] = d[k]
      BY <2>7, <3>2, ResizeKeeps
    <3> QED BY <2>8, <3>1, <3>2, <3>3
  <2>10. PICK q, s : q = w.todo /\ s = DirSector(new)
    OBVIOUS
  <2>11. q \in Seq(Writes) /\ Latest(q, w.fat) /\ Fits(q, dir, resets + 1) /\ NoDir(q) /\ Len(q) \in Nat /\ s \in Writes /\ s.to = "dir" /\ s.value = new
    <3>1. new \in Dirs
      BY <2>9 DEF Volume
    <3>2. s \in Writes
      BY <2>10, <3>1 DEF Writes
    <3> QED BY <2>4, <2>10, <3>2, SectorKinds, LenProperties DEF Sound
  <2>12. PICK r, n : r = Append(q, s) /\ n = Len(q) /\ n \in Nat
    BY <2>11
  <2>13. /\ r \in Seq(Writes) /\ Latest(r, w.fat) /\ Fits(r, dir, resets + 1) /\ Len(r) = n + 1 /\ r[n + 1] = s
         /\ \A m \in 1 .. n : r[m] = q[m]
    BY <2>11, <2>12, AppendOther
  <2>14. /\ fat' = w.fat /\ todo' = r /\ data' = data /\ fatDisk' = fatDisk /\ dir' = dir /\ avail' = avail
         /\ resets' = resets /\ oops' = oops
         /\ fds' = [fds EXCEPT ![j].cfo = @ + len, ![j].file.size = z]
    BY <1>7, <1>1, <2>5, <2>6, <2>8, <2>10, <2>12 DEF Write, InOrder, disk
  <2>15. Coming' = new
    BY <2>11, <2>12, <2>13, <2>14 DEF Coming
  <2>16. Pending'
    <3>1. \A m \in 1 .. n + 1 : m \in 1 .. n \/ m = n + 1
      BY <2>12
    <3>2. \A m \in 1 .. n + 1 : r[m].to = "dir" => m = n + 1
      BY <2>11, <2>12, <2>13, <3>1 DEF NoDir
    <3> QED BY <2>13, <2>14, <3>2 DEF Pending, Latest, Fits
  <2>17. DiskInv'
    <3>1. Volume(fatDisk, dir, resets + 1)
      BY DEF FilesInv, DiskInv
    <3> QED BY <1>2, <2>9, <2>14, <2>15, <2>16, <3>1 DEF DiskInv
  <2>18. PICK g : g = [fds[j] EXCEPT !.cfo = @ + len, !.file.size = z]
    OBVIOUS
  <2>19. DOMAIN g = FdFields /\ g.file = new[i]
    <3>1. DOMAIN fds[j] = FdFields
      BY DEF FilesInv, Descriptors
    <3>2. g.file = [dir[i] EXCEPT !.size = z]
      BY <1>1, <1>3, <2>18, <3>1 DEF FdFields
    <3> QED BY <2>9, <2>18, <3>1, <3>2
  <2>20. fds' = [e \in Fds |-> IF e = j THEN g ELSE fds[e]]
    BY <2>14, <2>18 DEF FilesInv, Descriptors
  <2>21. new[i].name = dir[i].name
    <3>1. dir[i] \in Entries
      BY <1>2 DEF UsedIn, Dirs
    <3> QED BY <2>9, <3>1 DEF Entries
  <2>22. ASSUME NEW e \in Fds, fds'[e].opened
         PROVE  /\ fds'[e].file.name = fds[e].file.name /\ fds[e].opened
                /\ \E k \in UsedIn(Coming') : Coming'[k] = fds'[e].file
    <3>1. CASE e = j
      BY <1>1, <1>2, <1>3, <2>9, <2>15, <2>19, <2>20, <2>21, <3>1
    <3>2. CASE e # j
      <4>1. fds'[e] = fds[e]
        BY <2>20, <3>2
      <4>2. PICK k \in UsedIn(dir) : dir[k] = fds[e].file
        BY <1>2, <2>22, <4>1 DEF FilesInv, Descriptors
      <4>3. k # i
        BY <1>1, <1>2, <1>3, <2>22, <3>2, <4>1, <4>2 DEF FilesInv, Descriptors
      <4> QED BY <2>9, <2>15, <2>22, <4>1, <4>2, <4>3
    <3> QED BY <3>1, <3>2
  <2>23. Descriptors'
    <3>1. fds' = [e \in Fds |-> fds'[e]]
      BY <2>20
    <3>2. \A e \in Fds : DOMAIN fds'[e] = FdFields
      BY <2>19, <2>20 DEF FilesInv, Descriptors
    <3>3. \A e, h \in Fds : fds'[e].opened /\ fds'[h].opened /\ fds'[e].file.name = fds'[h].file.name => e = h
      BY <2>22 DEF FilesInv, Descriptors
    <3> QED BY <2>14, <2>22, <3>1, <3>2, <3>3 DEF FilesInv, Descriptors
  <2> QED BY <2>14, <2>17, <2>23 DEF FilesInv
<1> QED BY <1>6, <1>7

\* A file is created: the table is written before the entry that needs it.
LEMMA CreateInvariant ==
  ASSUME Disciplined, FilesInv, NEW n \in Names, Create(n)
  PROVE  FilesInv'
<1>1. /\ Coming = dir /\ fatDisk = fat /\ Volume(fat, dir, resets) /\ dir \in Dirs /\ Unique(dir) /\ data \in Area
      /\ fat \in Table /\ n # Absent /\ resets \in 0 .. MaxResets /\ resets \in Nat
  BY WhenReady, Numbers DEF Create, FilesInv, DiskInv, Volume
<1>2. PICK ch \in Chains(dir) : Chained(fat, dir, ch) /\ Spare(fat, dir, ch, resets)
  BY <1>1 DEF Volume, Held
<1>3. PICK k : k = Min(SlotsOf(Absent)) /\ k \in 1 .. DirSlots /\ dir[k].name = Absent
  <2>1. SlotsOf(Absent) \in SUBSET (0 .. DirSlots) /\ DirSlots \in Nat /\ SlotsOf(Absent) # {}
    BY Numbers DEF SlotsOf, Create
  <2>2. Min(SlotsOf(Absent)) \in SlotsOf(Absent)
    BY <2>1, MinIsLeast
  <2> QED BY <2>2 DEF SlotsOf
<1>4. PICK a : a = Allocated(fat, 0)
  OBVIOUS
<1>5. PICK e : e = [name |-> n, start |-> a.cluster, size |-> 0]
  OBVIOUS
<1>6. PICK new : new = [dir EXCEPT ![k] = e]
  OBVIOUS
<1>7. PICK q : q = IF a.cluster = Stray THEN << >> ELSE << FatSector(a.fat) >>
  OBVIOUS
<1>8. /\ fat' = a.fat /\ todo' = Append(q, DirSector(new))
      /\ data' = data /\ fatDisk' = fatDisk /\ dir' = dir /\ fds' = fds /\ avail' = avail
      /\ resets' = resets /\ oops' = oops
  BY <1>3, <1>4, <1>5, <1>6, <1>7 DEF Create, InOrder, disk
<1>9. << >> \in Seq(Writes) /\ Len(<< >>) = 0 /\ 1 .. Len(<< >>) = {}
  BY EmptySeq
<1>10. Latest(<< >>, fat) /\ Fits(<< >>, dir, resets + 1) /\ NoDir(<< >>)
  BY <1>1, <1>9 DEF Latest, Fits, NoDir
\* The table is sound with the entry and without it, before the entry is on
\* the disk and after.
<1>11. /\ q \in Seq(Writes) /\ Latest(q, a.fat) /\ Fits(q, dir, resets + 1) /\ NoDir(q)
       /\ a.fat \in Table /\ a.cluster \in {Free, Stray} \cup Clusters
       /\ \E nch \in Chains(new) : Held(a.fat, new, nch, resets)
  <2>1. CASE FreeClusters(fat) = {} /\ a.cluster = Stray /\ a.fat = fat
    <3>1. q = << >>
      BY <1>7, <2>1
    <3>2. << >> \in Seq(Clusters) /\ IsChain(a.fat, e.start, << >>)
      BY <1>5, <1>9, <2>1, EmptySeq DEF IsChain
    <3>4. ~Ample
      <4> SUFFICES ASSUME Ample PROVE FALSE
        OBVIOUS
      <4>1. PICK z \in 0 .. MaxResets : z = resets
        BY <1>1
      <4>2. Spare(fat, dir, ch, z) /\ k \in 1 .. DirSlots /\ k \notin UsedIn(dir)
        BY <1>2, <1>3, <4>1 DEF UsedIn
      <4> QED BY <2>1, <4>2, HasRoom
    <3>3. \E nch \in Chains([dir EXCEPT ![k] = e]) : Held(a.fat, [dir EXCEPT ![k] = e], nch, resets)
      <4>1. e.name # Absent /\ e.size = 0
        BY <1>1, <1>5
      <4>2. Chained(a.fat, dir, ch)
        BY <1>2, <2>1
      <4>3. PICK d \in Dirs : d = dir /\ Chained(a.fat, d, ch) /\ d[k].name = Absent /\ ch \in Chains(d)
        BY <1>1, <1>3, <4>2
      <4>4. PICK s \in Seq(Clusters) : IsChain(a.fat, e.start, s) /\ Len(s) = 0
        BY <1>9, <3>2
      <4>5. k \in 1 .. DirSlots
        BY <1>3
      <4>6. Foreign(d, ch, s)
        BY <4>4 DEF Foreign
      <4>7. PICK y, u : y = [d EXCEPT ![k] = e] /\ u = a.fat
        OBVIOUS
      <4>8. Chained(u, d, ch) /\ IsChain(u, e.start, s) /\ Taken(y, d, k, e)
        BY <4>1, <4>3, <4>4, <4>5, <4>7, SlotTaken
      <4>9. Joined(u, y, d, ch, k, s)
        BY <4>1, <4>3, <4>4, <4>5, <4>6, <4>8, CreateKeeps
      <4> QED BY <3>4, <4>3, <4>7, <4>9 DEF Held, Spare, Joined
    <3> QED BY <1>1, <1>6, <1>10, <1>9, <2>1, <3>1, <3>3
  <2>2. CASE \E c \in Clusters : fat[c] = Free /\ a.cluster = c /\ a.fat = Linked(fat, c, 0)
    <3>1. PICK c \in Clusters : fat[c] = Free /\ a.cluster = c /\ a.fat = Linked(fat, c, 0)
      BY <2>2
    <3>2. a.fat = [fat EXCEPT ![c] = Eof]
      BY <3>1 DEF Linked
    <3>3. a.fat \in Table /\ a.fat[c] = Eof
      BY <1>1, <3>2 DEF Table
    <3>4. Chained(a.fat, dir, ch)
      BY <1>1, <1>2, <3>1, <3>2, MarkKeeps
    <3>5. Volume(a.fat, dir, resets + 1)
      <4>1. PICK t \in Table, z \in Nat : t = fat /\ z = resets
        BY <1>1
      <4>2. Spare([t EXCEPT ![c] = Eof], dir, ch, z + 1)
        BY <1>2, <4>1, MarkLoses
      <4> QED BY <1>1, <3>2, <3>3, <3>4, <4>1, <4>2 DEF Volume, Held
    <3>6. q = << FatSector(a.fat) >> /\ q = Append(<< >>, FatSector(a.fat))
      <4>1. q = << FatSector(a.fat) >>
        BY <1>7, <3>1, Numbers
      <4> QED BY <4>1
    <3>7. q \in Seq(Writes) /\ Latest(q, a.fat) /\ Fits(q, dir, resets + 1) /\ Len(q) = 1 /\ q[1] = FatSector(a.fat)
      <4>1. PICK t \in Table : t = a.fat
        BY <3>3
      <4>2. PICK z : z = << >> /\ z \in Seq(Writes) /\ Fits(z, dir, resets + 1) /\ Len(z) = 0
        BY <1>9, <1>10
      <4>3. /\ Append(z, FatSector(t)) \in Seq(Writes) /\ Latest(Append(z, FatSector(t)), t) /\ Fits(Append(z, FatSector(t)), dir, resets + 1)
            /\ Len(Append(z, FatSector(t))) = Len(z) + 1 /\ Append(z, FatSector(t))[Len(z) + 1] = FatSector(t)
        BY <3>5, <4>1, <4>2, AppendTable
      <4> QED BY <3>6, <4>1, <4>2, <4>3
    <3>8. NoDir(q)
      BY <3>7, SectorKinds DEF NoDir
    <3>9. PICK s : s = << c >>
      OBVIOUS
    <3>10. s \in Seq(Clusters) /\ Len(s) = 1 /\ s[1] = c
      BY <3>9
    <3>11. IsChain(a.fat, e.start, s)
      BY <1>5, <3>1, <3>3, <3>10 DEF IsChain
    <3>12. \A i \in UsedIn(dir) : \A j \in 1 .. Len(ch[i]) : ch[i][j] # s[1]
      BY <1>2, <3>1, <3>10, FreeIsUnlisted
    <3>13. \E nch \in Chains([dir EXCEPT ![k] = e]) : Held(a.fat, [dir EXCEPT ![k] = e], nch, resets)
      <4>1. e.name # Absent /\ e.size = 0 /\ k \in 1 .. DirSlots
        BY <1>1, <1>3, <1>5
      <4>2. PICK d \in Dirs : d = dir /\ Chained(a.fat, d, ch) /\ d[k].name = Absent /\ ch \in Chains(d)
                              /\ \A i \in UsedIn(d) : \A j \in 1 .. Len(ch[i]) : ch[i][j] # s[1]
        BY <1>1, <1>3, <3>4, <3>12
      <4>3. PICK y : y = [d EXCEPT ![k] = e]
        OBVIOUS
      <4>4. UsedIn(y) = UsedIn(d) \cup {k}
            /\ \E nch \in Chains(y) : Chained(a.fat, y, nch) /\ nch[k] = s /\ \A i \in UsedIn(d) : nch[i] = ch[i]
        <5>1. PICK u : u = a.fat
          OBVIOUS
        <5>2. Chained(u, d, ch) /\ IsChain(u, e.start, s) /\ Taken(y, d, k, e)
          BY <3>11, <4>1, <4>2, <4>3, <5>1, SlotTaken
        <5>3. Foreign(d, ch, s) /\ s \in Seq(Clusters)
          BY <3>10, <4>2 DEF Foreign
        <5>4. Joined(u, y, d, ch, k, s)
          BY <4>1, <4>2, <5>2, <5>3, CreateKeeps
        <5> QED BY <5>1, <5>2, <5>4 DEF Taken, Joined
      <4>5. PICK nch \in Chains(y) : Chained(a.fat, y, nch) /\ nch[k] = s /\ \A i \in UsedIn(d) : nch[i] = ch[i]
        BY <4>4
      <4>6. PICK t \in Table, z \in Nat : t = fat /\ z = resets
        BY <1>1
      <4>7. Spare([t EXCEPT ![c] = Eof], y, nch, z)
        <5>1. Spare(t, d, ch, z) /\ UsedIn(y) = UsedIn(d) \cup {k} /\ k \notin UsedIn(d) /\ nch[k] = << c >>
          BY <1>2, <3>9, <4>2, <4>3, <4>4, <4>5, <4>6 DEF UsedIn
        <5> QED BY <4>2, <4>5, <5>1, CreateSpare
      <4> QED BY <3>2, <4>2, <4>3, <4>5, <4>6, <4>7 DEF Held
    <3> QED BY <1>6, <3>1, <3>3, <3>7, <3>8, <3>13
  <2> QED BY <1>4, <2>1, <2>2, AllocatedIs
<1>12. e \in Entries /\ e.name = n
  BY <1>5, <1>11 DEF Entries
<1>13. new = [i \in 1 .. DirSlots |-> IF i = k THEN e ELSE dir[i]]
  BY <1>1, <1>6 DEF Dirs
<1>14. new \in Dirs
  BY <1>1, <1>12, <1>13 DEF Dirs
<1>15. UsedIn(new) = UsedIn(dir) \cup {k} /\ k \notin UsedIn(dir) /\ new[k] = e /\ \A i \in UsedIn(dir) : new[i] = dir[i]
  BY <1>1, <1>3, <1>12, <1>13 DEF UsedIn
<1>16. Unique(new)
  <2>1. \A i \in UsedIn(dir) : dir[i].name # n
    BY DEF Create, SlotsOf, UsedIn
  <2> QED BY <1>1, <1>12, <1>15, <2>1 DEF Unique
<1>17. Volume(a.fat, new, resets)
  BY <1>11, <1>14, <1>16 DEF Volume
<1>18. PICK s : s = DirSector(new) /\ s \in Writes /\ s.to = "dir" /\ s.value = new
  BY <1>14, SectorKinds DEF Writes
<1>19. PICK r, m : r = Append(q, s) /\ m = Len(q) /\ m \in Nat
  BY <1>11, LenProperties
<1>20. /\ r \in Seq(Writes) /\ Latest(r, a.fat) /\ Fits(r, dir, resets + 1) /\ Len(r) = m + 1 /\ r[m + 1] = s
       /\ \A h \in 1 .. m : r[h] = q[h]
  BY <1>11, <1>18, <1>19, AppendOther
<1>21. todo' = r
  BY <1>8, <1>18, <1>19
<1>22. Coming' = new
  BY <1>18, <1>19, <1>20, <1>21 DEF Coming
<1>23. Pending'
  <2>1. \A h \in 1 .. m + 1 : h \in 1 .. m \/ h = m + 1
    BY <1>19
  <2>2. \A h \in 1 .. m + 1 : r[h].to = "dir" => h = m + 1
    BY <1>11, <1>19, <1>20, <2>1 DEF NoDir
  <2> QED BY <1>8, <1>20, <1>21, <2>2 DEF Pending, Latest, Fits
<1>24. DiskInv'
  <2>1. Volume(fatDisk, dir, resets + 1)
    BY DEF FilesInv, DiskInv
  <2> QED BY <1>1, <1>8, <1>17, <1>22, <1>23, <2>1 DEF DiskInv
<1>25. Descriptors'
  BY <1>1, <1>8, <1>15, <1>22 DEF FilesInv, Descriptors
<1> QED BY <1>8, <1>24, <1>25 DEF FilesInv

\* One more sector is on the disk.
LEMMA SectorKeeps ==
  ASSUME FilesInv, WriteSector
  PROVE  FilesInv'
<1>1. todo \in Seq(Writes) /\ todo # << >> /\ todo' = Tail(todo) /\ fat' = fat /\ fds' = fds /\ avail' = avail
      /\ resets' = resets /\ oops' = oops /\ resets \in 0 .. MaxResets
  BY DEF WriteSector, memory, FilesInv, DiskInv, Pending
<1>2. PICK w, n : w = todo[1] /\ n = Len(todo) /\ n \in Nat \ {0} /\ w \in Writes /\ w = Head(todo)
  BY <1>1, HeadTailProperties, LenProperties, EmptySeq, ElementOfSeq
<1>3. /\ Tail(todo) \in Seq(Writes) /\ Len(Tail(todo)) = n - 1
      /\ \A m \in 1 .. n - 1 : Tail(todo)[m] = todo[m + 1]
  BY <1>1, <1>2, HeadTailProperties
<1>4. PICK r : r = Tail(todo)
  OBVIOUS
<1>5. /\ r \in Seq(Writes) /\ Len(r) = n - 1 /\ \A m \in 1 .. n - 1 : r[m] = todo[m + 1]
  BY <1>3, <1>4
<1>6. /\ data' = IF w.to = "data" THEN [data EXCEPT ![w.at] = w.value] ELSE data
      /\ fatDisk' = IF w.to = "fat" THEN w.value ELSE fatDisk
      /\ dir' = IF w.to = "dir" THEN w.value ELSE dir
      /\ todo' = r
  BY <1>1, <1>2, <1>4 DEF WriteSector
<1>7. 1 \in 1 .. n /\ \A m \in 1 .. n - 1 : m + 1 \in 1 .. n /\ m \in 1 .. n
  BY <1>2
<1>8. data' \in Area
  <2>1. CASE w.to = "data"
    <3>1. w.at \in Sectors /\ w.value \in SectorData
      BY <1>2, <2>1 DEF Writes, DataSector, FatSector, DirSector
    <3>2. data \in Area
      BY DEF FilesInv, DiskInv
    <3> QED BY <1>6, <2>1, <3>1, <3>2 DEF Area
  <2> QED BY <1>6, <2>1 DEF FilesInv, DiskInv
<1>9. w.to \in {"data", "fat", "dir"}
  BY <1>2 DEF Writes, DataSector, FatSector, DirSector
<1>10. \A m \in 1 .. n : todo[m].to = "dir" => m = n
  BY <1>2 DEF FilesInv, DiskInv, Pending
<1>16. PICK z \in Nat : z = resets + 1
  BY <1>1
<1>11. Latest(todo, fat) /\ Fits(todo, dir, z) /\ Volume(fat, Coming, resets) /\ Volume(fatDisk, dir, z)
  BY <1>16 DEF FilesInv, DiskInv, Pending
<1>12. \A m \in 1 .. n - 1 : r[m].to = "dir" => m = n - 1
  BY <1>2, <1>5, <1>7, <1>10
\* The table in memory is still the last one to be written.
<1>13. \/ fatDisk' = fat /\ \A m \in 1 .. n - 1 : r[m].to # "fat"
       \/ \E m \in 1 .. n - 1 : r[m].to = "fat" /\ r[m].value = fat /\ \A h \in m + 1 .. n - 1 : r[h].to # "fat"
  <2>1. CASE fatDisk = fat /\ \A m \in 1 .. n : todo[m].to # "fat"
    BY <1>2, <1>5, <1>6, <1>7, <2>1
  <2>2. CASE \E m \in 1 .. n : todo[m].to = "fat" /\ todo[m].value = fat /\ \A h \in m + 1 .. n : todo[h].to # "fat"
    <3>1. PICK m \in 1 .. n : todo[m].to = "fat" /\ todo[m].value = fat /\ \A h \in m + 1 .. n : todo[h].to # "fat"
      BY <2>2
    <3>2. CASE m = 1
      <4>1. \A h \in 1 .. n - 1 : h + 1 \in m + 1 .. n
        BY <1>2, <3>2
      <4> QED BY <1>2, <1>5, <1>6, <3>1, <3>2, <4>1
    <3>3. CASE m # 1
      <4>1. m - 1 \in 1 .. n - 1 /\ m - 1 + 1 = m /\ \A h \in m - 1 + 1 .. n - 1 : h \in 1 .. n - 1 /\ h + 1 \in m + 1 .. n
        BY <1>2, <3>3
      <4>2. r[m - 1] = todo[m] /\ \A h \in m - 1 + 1 .. n - 1 : r[h].to # "fat"
        BY <1>5, <3>1, <4>1
      <4> QED BY <3>1, <4>1, <4>2
    <3> QED BY <3>2, <3>3
  <2> QED BY <1>2, <1>11, <2>1, <2>2 DEF Latest
<1>14. CASE w.to = "dir"
  <2>1. n = 1 /\ n - 1 = 0
    BY <1>2, <1>7, <1>10, <1>14
  <2>2. fatDisk = fat /\ fatDisk' = fat
    <3>1. 1 .. n - 1 = {}
      BY <2>1
    <3> QED BY <1>6, <1>13, <1>14, <3>1
  <2>3. Coming = w.value /\ dir' = w.value
    BY <1>2, <1>6, <1>14, <2>1 DEF Coming
  <2>4. Coming' = dir'
    BY <1>5, <1>6, <2>1 DEF Coming
  <2>5. Pending'
    <3>1. Len(r) = 0 /\ 1 .. Len(r) = {}
      BY <1>5, <2>1
    <3>2. Latest(todo, fat)' /\ Fits(todo, dir, resets + 1)'
      BY <1>1, <1>6, <2>2, <3>1 DEF Latest, Fits
    <3> QED BY <1>5, <1>6, <3>1, <3>2 DEF Pending
  <2>6. DiskInv'
    <3>1. PICK n0 \in Nat : n0 = resets
      BY <1>1
    <3>2. Volume(fat, w.value, n0 + 1)
      BY <1>11, <2>3, <3>1, MoreLost
    <3> QED BY <1>1, <1>8, <1>11, <2>2, <2>3, <2>4, <2>5, <3>1, <3>2 DEF DiskInv
  <2> QED BY <1>1, <2>3, <2>4, <2>6 DEF FilesInv, Descriptors
<1>15. CASE w.to # "dir"
  <2>1. dir' = dir
    BY <1>6, <1>15
  <2>2. Coming' = Coming
    <3>1. CASE n = 1
      BY <1>2, <1>5, <1>6, <1>15, <2>1, <3>1 DEF Coming
    <3>2. CASE n # 1
      <4>1. n - 1 # 0 /\ n - 1 \in 1 .. n - 1 /\ n - 1 + 1 = n /\ n # 0
        BY <1>2, <3>2
      <4>2. r[n - 1] = todo[n]
        BY <1>5, <4>1
      <4>3. Len(todo') = n - 1 /\ todo'[n - 1] = todo[n]
        BY <1>5, <1>6, <4>2
      <4> QED BY <1>2, <2>1, <4>1, <4>3 DEF Coming
    <3> QED BY <3>1, <3>2
  <2>3. Volume(fatDisk', dir, z)
    BY <1>2, <1>6, <1>7, <1>11 DEF Fits
  <2>4. Fits(r, dir, z)
    BY <1>2, <1>5, <1>7, <1>11 DEF Fits
  <2>5. Pending'
    BY <1>1, <1>5, <1>6, <1>12, <1>13, <1>16, <2>1, <2>4 DEF Pending, Latest, Fits
  <2>6. DiskInv'
    BY <1>1, <1>8, <1>11, <1>16, <2>1, <2>2, <2>3, <2>5 DEF DiskInv
  <2> QED BY <1>1, <2>2, <2>6 DEF FilesInv, Descriptors
<1> QED BY <1>14, <1>15

\* The volume that another system left fits together.
LEMMA InitKeeps ==
  ASSUME Init
  PROVE  FilesInv
<1>1. PICK size \in {1, SectorSize + 1} :
        /\ dir = [i \in 1 .. DirSlots |-> IF i = 1 THEN [name |-> Old, start |-> 2, size |-> size] ELSE NoEntry]
        /\ fatDisk = [c \in Clusters |-> IF c = 2 THEN IF size = 1 THEN Eof ELSE 3
                                         ELSE IF c = 3 /\ size > 1 THEN Eof ELSE Free]
  BY DEF Init
<1>2. /\ data = [s \in Sectors |-> [i \in 1 .. SectorSize |-> 0]] /\ fat = fatDisk /\ todo = << >>
      /\ fds = [d \in Fds |-> Closed] /\ avail = 3 /\ resets = 0 /\ oops = FALSE
  BY DEF Init
<1>3. 2 \in Clusters /\ 3 \in Clusters /\ 2 # 3 /\ 1 \in 1 .. DirSlots /\ size \in Nat
  BY Numbers DEF Clusters
<1>4. NoEntry \in Entries /\ NoEntry.name = Absent
  BY DEF NoEntry, Entries
<1>5. PICK e : e = [name |-> Old, start |-> 2, size |-> size]
  OBVIOUS
<1>6. e \in Entries /\ e.name = Old /\ e.name # Absent /\ e.start = 2 /\ e.size = size
  BY <1>3, <1>5, FilesAssumption DEF Entries
<1>7. \A i \in 1 .. DirSlots : dir[i] = IF i = 1 THEN e ELSE NoEntry
  BY <1>1, <1>5
<1>8. dir \in Dirs /\ UsedIn(dir) = {1} /\ dir[1] = e
  <2>1. dir = [i \in 1 .. DirSlots |-> IF i = 1 THEN e ELSE NoEntry]
    BY <1>1, <1>5
  <2>2. dir \in Dirs
    BY <1>4, <1>6, <2>1 DEF Dirs
  <2>3. UsedIn(dir) = {1}
    BY <1>3, <1>4, <1>6, <1>7 DEF UsedIn
  <2> QED BY <1>3, <1>7, <2>2, <2>3
<1>9. Unique(dir)
  BY <1>8 DEF Unique
<1>10. fatDisk \in Table
  BY <1>1, <1>3 DEF Table
<1>11. \E s \in Seq(Clusters) : /\ IsChain(fatDisk, 2, s) /\ size <= SectorSize * Len(s)
                                /\ \A a, b \in 1 .. Len(s) : s[a] = s[b] => a = b
                                /\ Len(s) \in 1 .. 2 /\ \A c \in Clusters : fatDisk[c] # Free => \E j \in 1 .. Len(s) : s[j] = c
  <2>1. CASE size = 1
    <3>1. PICK s : s = << 2 >>
      OBVIOUS
    <3>2. s \in Seq(Clusters) /\ Len(s) = 1 /\ s[1] = 2
      BY <1>3, <3>1
    <3>3. fatDisk[2] = Eof
      BY <1>1, <1>3, <2>1
    <3>4. IsChain(fatDisk, 2, s)
      BY <3>2, <3>3 DEF IsChain
    <3>5. SectorSize * 1 = SectorSize /\ SectorSize >= 1
      BY Numbers
    <3>6. size <= SectorSize * Len(s)
      BY <2>1, <3>2, <3>5
    <3>7. \A a, b \in 1 .. Len(s) : s[a] = s[b] => a = b
      BY <3>2
    <3>8. s \in Seq(Clusters)
      BY <3>2
    <3>9. \A c \in Clusters : fatDisk[c] # Free => \E j \in 1 .. Len(s) : s[j] = c
      BY <1>1, <2>1, <3>2
    <3>10. Len(s) \in 1 .. 2
      BY <3>2
    <3> QED BY <3>4, <3>6, <3>7, <3>8, <3>9, <3>10
  <2>2. CASE size # 1
    <3>1. PICK s : s = << 2, 3 >>
      OBVIOUS
    <3>2. s \in Seq(Clusters) /\ Len(s) = 2 /\ s[1] = 2 /\ s[2] = 3
      BY <1>3, <3>1
    <3>3. size = SectorSize + 1 /\ size > 1
      BY <1>1, <2>2, Numbers
    <3>4. fatDisk[2] = 3 /\ fatDisk[3] = Eof
      BY <1>1, <1>3, <2>2, <3>3
    <3>5. IsChain(fatDisk, 2, s)
      BY <3>2, <3>4 DEF IsChain
    <3>6. SectorSize * 2 = SectorSize + SectorSize /\ SectorSize >= 1
      BY Numbers
    <3>7. size <= SectorSize * Len(s)
      BY <3>2, <3>3, <3>6, Numbers
    <3>8. \A a, b \in 1 .. Len(s) : s[a] = s[b] => a = b
      <4>1. \A a \in 1 .. Len(s) : a = 1 \/ a = 2
        BY <3>2
      <4> QED BY <1>3, <3>2, <4>1
    <3>9. s \in Seq(Clusters)
      BY <3>2
    <3>10. \A c \in Clusters : fatDisk[c] # Free => \E j \in 1 .. Len(s) : s[j] = c
      <4>1. 1 \in 1 .. Len(s) /\ 2 \in 1 .. Len(s)
        BY <3>2
      <4> QED BY <1>1, <3>2, <4>1
    <3>11. Len(s) \in 1 .. 2
      BY <3>2
    <3> QED BY <3>5, <3>7, <3>8, <3>9, <3>10, <3>11
  <2> QED BY <2>1, <2>2
<1>12. PICK s \in Seq(Clusters) : /\ IsChain(fatDisk, 2, s) /\ size <= SectorSize * Len(s)
                                  /\ \A a, b \in 1 .. Len(s) : s[a] = s[b] => a = b
                                  /\ Len(s) \in 1 .. 2 /\ \A c \in Clusters : fatDisk[c] # Free => \E j \in 1 .. Len(s) : s[j] = c
  BY <1>11
<1>13. PICK ch : ch = [i \in {1} |-> s]
  OBVIOUS
<1>14. ch \in Chains(dir) /\ ch[1] = s
  BY <1>8, <1>13 DEF Chains
<1>15. Chained(fatDisk, dir, ch)
  BY <1>6, <1>8, <1>12, <1>14 DEF Chained, Distinct
<1>25. Spare(fatDisk, dir, ch, 0)
  <2> SUFFICES ASSUME Ample
               PROVE  /\ \A i \in UsedIn(dir) : Len(ch[i]) \in 1 .. Most
                      /\ \E lost \in SUBSET Clusters : Cardinality(lost) <= 0 /\ Covered(fatDisk, dir, ch, lost)
    BY DEF Spare
  <2>1. Len(s) \in 1 .. Most
    <3>1. PICK m \in Nat : m = Most /\ m >= 2
      BY MostIs DEF Room
    <3>2. PICK n : n = Len(s) /\ n \in 1 .. 2
      BY <1>12
    <3> QED BY <3>1, <3>2
  <2>2. Cardinality({}) <= 0
    BY FS_EmptySet
  <2>3. Covered(fatDisk, dir, ch, {})
    BY <1>8, <1>12, <1>14 DEF Covered
  <2>4. {} \in SUBSET Clusters
    OBVIOUS
  <2> QED BY <1>8, <1>14, <2>1, <2>2, <2>3, <2>4
<1>16. Volume(fatDisk, dir, 0)
  BY <1>8, <1>9, <1>10, <1>14, <1>15, <1>25 DEF Volume, Held
<1>26. Volume(fatDisk, dir, 0 + 1)
  BY <1>16, MoreLost
<1>27. resets \in 0 .. MaxResets
  BY <1>2, FilesAssumption
<1>17. << >> \in Seq(Writes) /\ Len(<< >>) = 0 /\ 1 .. Len(<< >>) = {}
  BY EmptySeq
<1>18. Len(todo) = 0 /\ 1 .. Len(todo) = {} /\ todo \in Seq(Writes)
  BY <1>2, <1>17
<1>19. Pending
  BY <1>2, <1>18 DEF Pending, Latest, Fits
<1>20. Coming = dir
  BY <1>18 DEF Coming
<1>21. data \in Area
  BY <1>2, FilesAssumption DEF Area, SectorData
<1>22. \A d \in Fds : fds[d] = Closed
  BY <1>2
<1>23. DOMAIN Closed = FdFields /\ ~Closed.opened
  BY DEF Closed, FdFields
<1>24. Descriptors
  BY <1>2, <1>22, <1>23 DEF Descriptors
<1> QED BY <1>2, <1>16, <1>19, <1>20, <1>21, <1>24, <1>26, <1>27 DEF FilesInv, DiskInv

LEMMA StepKeeps ==
  ASSUME Disciplined, FilesInv, [Next]_vars
  PROVE  FilesInv'
<1>1. CASE UNCHANGED vars
  BY <1>1, Unchanged DEF vars, disk, memory
<1>2. CASE \E n \in Names : Create(n)
  BY <1>2, CreateInvariant
<1>3. CASE \E n \in Names : \E p \in Flags : Open(n, p)
  BY <1>3, OpenKeeps
<1>4. CASE \E d \in Fds : Close(d)
  BY <1>4, CloseKeeps
<1>5. CASE \E d \in Fds : \E o \in Offsets : Lseek(d, o)
  BY <1>5, LseekKeeps
<1>6. CASE \E d \in Fds : \E len \in Lens : Read(d, len)
  BY <1>6, ReadKeeps
<1>7. CASE \E d \in Fds : \E len \in Lens : \E x \in Bytes : Write(d, len, x)
  BY <1>7, WriteKeeps
<1>8. CASE WriteSector
  BY <1>8, SectorKeeps
<1>9. CASE Reset
  BY <1>9, ResetKeeps
<1> QED BY <1>1, <1>2, <1>3, <1>4, <1>5, <1>6, <1>7, <1>8, <1>9 DEF Next

\* The invariant of the file system under disciplined programs: the disk, the
\* sectors still to be written and the memory fit together.
THEOREM FilesInvariant == ASSUME Disciplined PROVE Spec => []FilesInv
<1>1. Init => FilesInv
  BY InitKeeps
<1>2. FilesInv /\ [Next]_vars => FilesInv'
  BY StepKeeps
<1> QED BY <1>1, <1>2, PTL DEF Spec

\* ChainsApart: whatever sector of open, write or create a reset prevents, the
\* files on the disk share no cluster and their chains end
\* (allocate_fat32_cluster, fat32_write_file and fat32_create_file).
THEOREM FilesKeepApart == ASSUME Disciplined PROVE Spec => []ChainsApart
<1>1. FilesInv => ChainsApart
  BY VolumeIsSound DEF FilesInv, DiskInv
<1> QED BY <1>1, FilesInvariant, PTL

\* Contained: when the volume has room for the clusters of every file and one
\* for each reset, no call touches a sector outside of the data area, by way of
\* the number that allocate_fat32_cluster returns from a full volume.
THEOREM CallsAreContained == ASSUME Disciplined, Ample PROVE Spec => []Contained
<1>1. FilesInv => Contained
  BY DEF FilesInv, Contained
<1> QED BY <1>1, FilesInvariant, PTL

\* SizeCovered: the size in an entry never exceeds what its chain holds, since
\* the entry is written after the clusters that it needs.
THEOREM SizesAreCovered == ASSUME Disciplined PROVE Spec => []SizeCovered
<1>1. FilesInv => SizeCovered
  BY VolumeIsSound DEF FilesInv, DiskInv
<1> QED BY <1>1, FilesInvariant, PTL
-----------------------------------------------------------------------------
(***************************************************************************)
(* The contents of the files.  Byte p of a file is in the j-th cluster of  *)
(* its chain; the contents depend on a table only as far as sizes go.      *)
(***************************************************************************)
Slots(d, n) == {i \in 1 .. DirSlots : d[i].name = n}
Byte(a, t, c, p) ==
  LET s == SectorOf(Nth(t, c, (p - 1) \div SectorSize + 1))
  IN  IF s \in Sectors THEN a[s][((p - 1) % SectorSize) + 1] ELSE Absent
FileText(a, t, e) == [p \in 1 .. e.size |-> Byte(a, t, e.start, p)]
Text(a, t, d, n) == IF Slots(d, n) = {} THEN Absent ELSE FileText(a, t, d[Min(Slots(d, n))])

LEMMA ContentsAre ==
  ASSUME NEW n
  PROVE  Contents(n) = Text(data, fatDisk, dir, n) /\ Contents(n)' = Text(data', fatDisk', dir', n)
BY DEF Contents, ByteAt, SlotsOf, Text, FileText, Slots, Byte

LEMMA OneSlot ==
  ASSUME NEW d, Unique(d), NEW i \in UsedIn(d)
  PROVE  Slots(d, d[i].name) = {i} /\ Min({i}) = i /\ d[i].name # Absent
<1>1. i \in 1 .. DirSlots /\ d[i].name # Absent
  BY DEF UsedIn
<1>2. \A k \in 1 .. DirSlots : d[k].name = d[i].name => k = i
  BY <1>1 DEF Unique, UsedIn
<1>3. Slots(d, d[i].name) = {i}
  BY <1>1, <1>2 DEF Slots
<1>4. DirSlots \in Nat /\ {i} \in SUBSET (0 .. DirSlots) /\ {i} # {}
  BY <1>1, Numbers
<1>5. Min({i}) \in {i}
  BY <1>4, MinIsLeast
<1> QED BY <1>1, <1>3, <1>5

LEMMA TextIs ==
  ASSUME NEW a, NEW t, NEW d, Unique(d), NEW i \in UsedIn(d)
  PROVE  Text(a, t, d, d[i].name) = FileText(a, t, d[i])
BY OneSlot DEF Text

LEMMA TextIsNone ==
  ASSUME NEW a, NEW t, NEW d, NEW n, Slots(d, n) = {}
  PROVE  Text(a, t, d, n) = Absent
BY DEF Text

\* A name that has no entry, or that of one.
LEMMA Named ==
  ASSUME NEW d, NEW n, n # Absent
  PROVE  Slots(d, n) = {} \/ \E i \in UsedIn(d) : d[i].name = n
BY DEF Slots, UsedIn

LEMMA Positions ==
  ASSUME NEW p \in Nat \ {0}
  PROVE  \E j \in Nat \ {0} : \E o \in 1 .. SectorSize :
           /\ p = SectorSize * (j - 1) + o /\ (p - 1) \div SectorSize + 1 = j /\ ((p - 1) % SectorSize) + 1 = o
           /\ SectorSize * (j - 1) \in Nat
<1>1. PICK b \in Nat \ {0} : b = SectorSize
  BY Numbers
<1>2. PICK y \in Nat : y = p - 1
  OBVIOUS
<1>3. PICK q \in Int, r \in Int : q = y \div b /\ r = y % b
  BY <1>1
<1>4. y = b * q + r /\ r \in 0 .. b - 1
  BY <1>1, <1>3
<1>5. q >= 0
  <2> SUFFICES ASSUME q < 0 PROVE FALSE
    OBVIOUS
  <2>1. PICK z \in Nat : q = -1 - z
    <3>1. -1 - q \in Nat /\ q = -1 - (-1 - q)
      OBVIOUS
    <3> QED BY <3>1
  <2>2. b * q = - b - b * z /\ b * z \in Nat
    BY <2>1
  <2> QED BY <1>4, <2>2
<1>6. PICK j \in Nat \ {0} : j = q + 1
  BY <1>5
<1>7. PICK o \in 1 .. b : o = r + 1
  BY <1>4
<1>8. b * (j - 1) = b * q /\ b * q \in Nat
  BY <1>5, <1>6
<1>9. p = b * (j - 1) + o
  BY <1>2, <1>4, <1>7, <1>8
<1> QED BY <1>1, <1>2, <1>3, <1>6, <1>7, <1>8, <1>9

\* The sector of the j-th cluster of the chain from c; a cluster that a file
\* of z bytes needs.
At(t, c, j) == SectorOf(Nth(t, c, j))
Needed(z) == {j \in Nat \ {0} : SectorSize * (j - 1) < z}

Located(p, j, o) ==
  /\ p = SectorSize * (j - 1) + o
  /\ \A z \in Nat : p <= z => j \in Needed(z)
  /\ \A a, t, c : Byte(a, t, c, p) = IF At(t, c, j) \in Sectors THEN a[At(t, c, j)][o] ELSE Absent

LEMMA ByteIs ==
  ASSUME NEW p \in Nat \ {0}
  PROVE  \E j \in Nat \ {0} : \E o \in 1 .. SectorSize : Located(p, j, o)
<1>1. PICK j \in Nat \ {0} : \E o \in 1 .. SectorSize :
        /\ p = SectorSize * (j - 1) + o /\ (p - 1) \div SectorSize + 1 = j /\ ((p - 1) % SectorSize) + 1 = o
        /\ SectorSize * (j - 1) \in Nat
  BY Positions
<1>3. PICK o \in 1 .. SectorSize :
        /\ p = SectorSize * (j - 1) + o /\ (p - 1) \div SectorSize + 1 = j /\ ((p - 1) % SectorSize) + 1 = o
        /\ SectorSize * (j - 1) \in Nat
  BY <1>1
<1>2. \A z \in Nat : p <= z => j \in Needed(z)
  BY <1>3, Numbers DEF Needed
<1>4. \A a, t, c : Byte(a, t, c, p) = IF At(t, c, j) \in Sectors THEN a[At(t, c, j)][o] ELSE Absent
  BY <1>3 DEF Byte, At
<1>5. Located(p, j, o)
  BY <1>2, <1>3, <1>4 DEF Located
<1> QED BY <1>5

\* The sectors of two clusters are two sectors.
LEMMA SectorsApart ==
  ASSUME NEW c \in Clusters, NEW e \in Clusters, SectorOf(c) = SectorOf(e)
  PROVE  c = e
<1>1. PICK b \in Nat \ {0} : b = SecPerCluster
  BY Numbers
<1>2. PICK x \in Nat : x = c - 2
  BY Numbers DEF Clusters
<1>3. PICK y \in Nat : y = e - 2
  BY Numbers DEF Clusters
<1>4. x * b = y * b
  BY <1>1, <1>2, <1>3 DEF SectorOf
<1>5. ASSUME NEW u \in Nat, NEW v \in Nat, u < v PROVE u * b < v * b
  <2>1. PICK z \in Nat : v = u + 1 + z
    <3>1. v - u - 1 \in Nat /\ v = u + 1 + (v - u - 1)
      BY <1>5
    <3> QED BY <3>1
  <2>2. (u + 1 + z) * b = u * b + b + z * b /\ z * b \in Nat /\ u * b \in Nat
    OBVIOUS
  <2> QED BY <2>1, <2>2
<1>6. x * b \in Nat /\ y * b \in Nat
  OBVIOUS
<1>7. ~(x < y) /\ ~(y < x)
  BY <1>4, <1>5, <1>6
<1>8. x = y
  BY <1>7
<1>9. c \in Nat /\ e \in Nat
  BY Numbers
<1> QED BY <1>2, <1>3, <1>8, <1>9

\* Less in units is less.
LEMMA Scaled ==
  ASSUME NEW b \in Nat \ {0}, NEW u \in Nat, NEW v \in Nat
  PROVE  /\ b * u < b * v => u < v
         /\ u < v => b * u + b <= b * v
         /\ b * u \in Nat /\ b * v \in Nat
<1>1. b * u \in Nat /\ b * v \in Nat
  OBVIOUS
<1>2. ASSUME v <= u PROVE b * v <= b * u
  <2>1. PICK z \in Nat : u = v + z
    <3>1. u - v \in Nat /\ u = v + (u - v)
      BY <1>2
    <3> QED BY <3>1
  <2>2. b * (v + z) = b * v + b * z /\ b * z \in Nat
    OBVIOUS
  <2> QED BY <2>1, <2>2
<1>3. ASSUME u < v PROVE b * u + b <= b * v
  <2>1. PICK z \in Nat : v = u + 1 + z
    <3>1. v - u - 1 \in Nat /\ v = u + 1 + (v - u - 1)
      BY <1>3
    <3> QED BY <3>1
  <2>2. b * (u + 1 + z) = b * u + b + b * z /\ b * z \in Nat
    OBVIOUS
  <2> QED BY <2>1, <2>2
<1> QED BY <1>1, <1>2, <1>3

\* The clusters of a chain are those of its list.
LEMMA PlaceIs ==
  ASSUME NEW t, NEW d, NEW ch \in Chains(d), Chained(t, d, ch), NEW i \in UsedIn(d), NEW j \in Nat \ {0}
  PROVE  IF j <= Len(ch[i]) THEN j \in 1 .. Len(ch[i]) /\ Nth(t, d[i].start, j) = ch[i][j] /\ ch[i][j] \in Clusters
                            ELSE Nth(t, d[i].start, j) \notin Clusters
<1>1. PICK s : s = ch[i]
  OBVIOUS
<1>2. s \in Seq(Clusters) /\ Len(s) \in Nat /\ \A k \in 1 .. Len(s) : s[k] \in Clusters
  BY <1>1, ChainFacts
<1>3. IsChain(t, d[i].start, s)
  BY <1>1 DEF Chained
<1>4. PICK c : c = d[i].start
  OBVIOUS
<1>5. Nth(t, c, j) = IF j <= Len(s) THEN s[j] ELSE IF j = 1 THEN Stray ELSE Eof
  BY <1>2, <1>3, <1>4, NthIs
<1> QED BY <1>1, <1>2, <1>4, <1>5, Numbers

LEMMA PlaceExists ==
  ASSUME NEW t, NEW d \in Dirs, NEW ch \in Chains(d), Chained(t, d, ch), NEW i \in UsedIn(d), NEW j \in Needed(d[i].size)
  PROVE  j \in 1 .. Len(ch[i]) /\ Nth(t, d[i].start, j) = ch[i][j] /\ ch[i][j] \in Clusters
<1>1. PICK m \in Nat : m = Len(ch[i])
  BY ChainFacts
<1>2. d[i].size \in Nat /\ d[i].size <= SectorSize * m
  BY <1>1 DEF UsedIn, Dirs, Entries, Chained
<1>3. j \in Nat \ {0} /\ j - 1 \in Nat /\ SectorSize * (j - 1) < d[i].size
  BY DEF Needed
<1>4. SectorSize * (j - 1) \in Nat /\ SectorSize * m \in Nat
  BY <1>3, Numbers
<1>5. SectorSize * (j - 1) < SectorSize * m
  BY <1>2, <1>3, <1>4
<1>6. j - 1 < m
  BY <1>3, <1>5, Numbers, Scaled
<1>7. j <= Len(ch[i])
  BY <1>1, <1>3, <1>6
<1> QED BY <1>3, <1>7, PlaceIs

LEMMA PlacesApart ==
  ASSUME NEW t, NEW d, NEW ch \in Chains(d), Chained(t, d, ch), NEW i \in UsedIn(d), NEW h \in UsedIn(d),
         NEW j \in Nat \ {0}, NEW k \in Nat \ {0}, Nth(t, d[i].start, j) \in Clusters, Nth(t, d[h].start, k) \in Clusters,
         At(t, d[i].start, j) = At(t, d[h].start, k)
  PROVE  i = h /\ j = k
<1>1. j \in 1 .. Len(ch[i]) /\ Nth(t, d[i].start, j) = ch[i][j]
  BY PlaceIs
<1>2. k \in 1 .. Len(ch[h]) /\ Nth(t, d[h].start, k) = ch[h][k]
  BY PlaceIs
<1>3. ch[i][j] = ch[h][k]
  BY <1>1, <1>2, SectorsApart DEF At
<1> QED BY <1>1, <1>2, <1>3 DEF Chained, Distinct

\* Two tables lead from the entries of d to the same clusters.
Alike(t, u, d) ==
  \A i \in UsedIn(d) : \A j \in Needed(d[i].size) : Nth(t, d[i].start, j) = Nth(u, d[i].start, j)

LEMMA SameText ==
  ASSUME NEW a, NEW t, NEW u, NEW d \in Dirs, Unique(d), Alike(t, u, d), NEW n, n # Absent
  PROVE  Text(a, t, d, n) = Text(a, u, d, n)
<1>1. CASE Slots(d, n) = {}
  BY <1>1, TextIsNone
<1>2. CASE \E i \in UsedIn(d) : d[i].name = n
  <2>1. PICK i \in UsedIn(d) : d[i].name = n
    BY <1>2
  <2>2. PICK c, z : c = d[i].start /\ z = d[i].size
    OBVIOUS
  <2>3. z \in Nat
    BY <2>2 DEF UsedIn, Dirs, Entries
  <2>4. ASSUME NEW p \in 1 .. z PROVE Byte(a, t, c, p) = Byte(a, u, c, p)
    <3>1. p \in Nat \ {0} /\ p <= z
      BY <2>3
    <3>2. PICK j, o : Located(p, j, o)
      BY <3>1, ByteIs
    <3>4. j \in Needed(z)
      BY <2>3, <3>1, <3>2 DEF Located
    <3>3. At(t, c, j) = At(u, c, j)
      BY <2>2, <3>4 DEF Alike, At
    <3> QED BY <3>2, <3>3 DEF Located
  <2>5. Text(a, t, d, n) = FileText(a, t, d[i]) /\ Text(a, u, d, n) = FileText(a, u, d[i])
    BY <2>1, TextIs
  <2>6. \A p \in 1 .. d[i].size : Byte(a, t, d[i].start, p) = Byte(a, u, d[i].start, p)
    BY <2>2, <2>4
  <2> QED BY <2>5, <2>6 DEF FileText
<1> QED BY <1>1, <1>2, Named
-----------------------------------------------------------------------------
(***************************************************************************)
(* What the loop writes.  With s.done bytes done, the clusters they need   *)
(* from c on are there, for each of them its sector is among those to be   *)
(* written, and nothing else is; the rest of the data area is as it was,   *)
(* and so are the other files and the bytes that the entry of this one     *)
(* shows.                                                                  *)
(***************************************************************************)
New(a, q, len, x, j) == [o \in 1 .. SectorSize |-> IF SectorSize * (j - 1) + o <= len THEN x ELSE a[q][o]]
Sent(a, q, len, x, j) == DataSector(q, New(a, q, len, x, j))
Plan(s, c, len, x) ==
  /\ Alike(s.fat, fat, dir)
  /\ \A m \in 1 .. Len(s.todo) : s.todo[m].to = "fat" => Alike(s.todo[m].value, fat, dir)
  /\ \A m \in 1 .. Len(s.todo) : s.todo[m].to = "data" =>
       \E j \in Needed(s.done) : s.todo[m] = Sent(data, At(s.fat, c, j), len, x, j)
  /\ \A j \in Needed(s.done) : /\ Nth(s.fat, c, j) \in Clusters
                               /\ \E m \in 1 .. Len(s.todo) : s.todo[m] = Sent(data, At(s.fat, c, j), len, x, j)
  /\ \A q \in Sectors : s.data[q] = data[q] \/ \E j \in Needed(s.done) : q = At(s.fat, c, j)

\* A chain that grows keeps its clusters.
LEMMA ExtendSame ==
  ASSUME NEW t \in Table, NEW d \in Dirs, NEW ch \in Chains(d), Chained(t, d, ch),
         NEW e \in Clusters, t[e] = Free, NEW i \in UsedIn(d), NEW m \in Nat \ {0}, m = Len(ch[i]),
         NEW h \in UsedIn(d), NEW j \in Nat \ {0}, Nth(t, d[h].start, j) \in Clusters
  PROVE  Nth(Linked(t, e, ch[i][m]), d[h].start, j) = Nth(t, d[h].start, j)
<1>11. PICK u : u = Linked(t, e, ch[i][m])
  OBVIOUS
<1>1. u = [t EXCEPT ![e] = Eof, ![ch[i][m]] = e]
  <2>1. m \in 1 .. Len(ch[i])
    OBVIOUS
  <2>2. ch[i][m] \in Clusters
    BY <2>1, ChainFacts
  <2> QED BY <1>11, <2>2, Numbers DEF Linked
<1>2. PICK new : new = [ch EXCEPT ![i] = Append(@, e)]
  OBVIOUS
<1>3. new \in Chains(d) /\ Chained(u, d, new)
  <2>1. /\ [ch EXCEPT ![i] = Append(@, e)] \in Chains(d)
        /\ Chained([t EXCEPT ![e] = Eof, ![ch[i][m]] = e], d, [ch EXCEPT ![i] = Append(@, e)])
    BY ExtendKeeps
  <2> QED BY <1>1, <1>2, <2>1
<1>4. j \in 1 .. Len(ch[h]) /\ Nth(t, d[h].start, j) = ch[h][j]
  BY PlaceIs
<1>5. PICK s : s = ch[i]
  OBVIOUS
<1>6. s \in Seq(Clusters) /\ Len(s) = m /\ Len(ch[h]) \in Nat
  BY <1>5, ChainFacts
<1>7. Len(Append(s, e)) = m + 1 /\ \A k \in 1 .. m : Append(s, e)[k] = s[k]
  BY <1>6, AppendProperties
<1>8. new = [k \in UsedIn(d) |-> IF k = i THEN Append(s, e) ELSE ch[k]]
  BY <1>2, <1>5 DEF Chains
<1>9. j <= Len(new[h]) /\ new[h][j] = ch[h][j]
  <2>1. CASE h = i
    BY <1>4, <1>5, <1>6, <1>7, <1>8, <2>1
  <2>2. CASE h # i
    BY <1>4, <1>6, <1>8, <2>2
  <2> QED BY <2>1, <2>2
<1>10. Nth(u, d[h].start, j) = new[h][j]
  BY <1>3, <1>9, PlaceIs
<1> QED BY <1>4, <1>9, <1>10, <1>11

LEMMA ExtendAlike ==
  ASSUME NEW t \in Table, NEW d \in Dirs, NEW ch \in Chains(d), Chained(t, d, ch),
         NEW e \in Clusters, t[e] = Free, NEW i \in UsedIn(d), NEW m \in Nat \ {0}, m = Len(ch[i]),
         NEW v, Alike(t, v, d)
  PROVE  Alike(Linked(t, e, ch[i][m]), v, d)
<1>1. PICK u : u = Linked(t, e, ch[i][m])
  OBVIOUS
<1>2. ASSUME NEW h \in UsedIn(d), NEW k \in Needed(d[h].size) PROVE Nth(u, d[h].start, k) = Nth(v, d[h].start, k)
  <2>1. Nth(t, d[h].start, k) = ch[h][k] /\ ch[h][k] \in Clusters
    BY PlaceExists
  <2>2. k \in Nat \ {0}
    BY DEF Needed
  <2>3. Nth(Linked(t, e, ch[i][m]), d[h].start, k) = Nth(t, d[h].start, k)
    BY <2>1, <2>2, ExtendSame
  <2> QED BY <1>1, <2>3 DEF Alike
<1> QED BY <1>1, <1>2 DEF Alike

LEMMA NeededFacts ==
  /\ Needed(0) = {}
  /\ \A y \in Nat, z \in Nat : y <= z => Needed(y) \subseteq Needed(z)
  /\ \A j \in Nat \ {0} : Needed(SectorSize * (j - 1)) = 1 .. j - 1
<1>1. PICK b \in Nat \ {0} : b = SectorSize
  BY Numbers
<1>2. ASSUME NEW j \in Nat \ {0} PROVE j - 1 \in Nat /\ SectorSize * (j - 1) \in Nat /\ b * (j - 1) = SectorSize * (j - 1)
  BY <1>1
<1>3. Needed(0) = {}
  BY <1>2 DEF Needed
<1>4. \A y \in Nat, z \in Nat : y <= z => Needed(y) \subseteq Needed(z)
  BY <1>2 DEF Needed
<1>5. ASSUME NEW j \in Nat \ {0} PROVE Needed(SectorSize * (j - 1)) = 1 .. j - 1
  <2>1. PICK u \in Nat : u = j - 1
    BY <1>2
  <2>2. ASSUME NEW k \in Nat \ {0} PROVE SectorSize * (k - 1) < SectorSize * u <=> k - 1 < u
    <3>1. PICK v \in Nat : v = k - 1
      BY <1>2
    <3>2. (b * v < b * u => v < u) /\ (v < u => b * v + b <= b * u) /\ b * v \in Nat /\ b * u \in Nat
      BY <1>1, Scaled
    <3> QED BY <1>1, <3>1, <3>2
  <2>3. \A k \in Nat \ {0} : k \in Needed(SectorSize * u) <=> k - 1 < u
    BY <2>2 DEF Needed
  <2>4. \A k : k \in Needed(SectorSize * u) => k \in Nat \ {0}
    BY DEF Needed
  <2>5. \A k : k \in 1 .. u <=> k \in Nat \ {0} /\ k - 1 < u
    OBVIOUS
  <2>6. Needed(SectorSize * u) = 1 .. u
    BY <2>3, <2>4, <2>5
  <2> QED BY <2>1, <2>6
<1> QED BY <1>3, <1>4, <1>5

LEMMA PlanBegins ==
  ASSUME NEW f, NEW c, NEW len, NEW x
  PROVE  Plan(Start(f), c, len, x)
<1>1. PICK s : s = Start(f)
  OBVIOUS
<1>2. s.fat = fat /\ s.data = data /\ s.todo = << >> /\ s.done = 0
  BY <1>1 DEF Start
<1>3. 1 .. Len(s.todo) = {}
  BY <1>2, EmptySeq
<1>4. Alike(fat, fat, dir)
  BY DEF Alike
<1> QED BY <1>1, <1>2, <1>3, <1>4, NeededFacts DEF Plan

\* The sector of the current cluster: as it was, with the bytes from the
\* call as far as these go.
LEMMA PlanCopies ==
  ASSUME NEW s, DOMAIN s = LoopFields, ~s.bad, Sound(s), NEW ch \in Chains(dir), Chained(s.fat, dir, ch),
         NEW i \in UsedIn(dir), NEW j \in 1 .. Len(ch[i]), s.sector = SectorOf(ch[i][j]), s.done = SectorSize * (j - 1),
         NEW len \in Nat, NEW x \in Bytes, s.done < len, Plan(s, dir[i].start, len, x), ~Copied(s, len, x).bad
  PROVE  Plan(Copied(s, len, x), dir[i].start, len, x)
<1>1. PICK c : c = Copied(s, len, x)
  OBVIOUS
<1>2. PICK n : n = Chunk(s.off, len - s.done)
  OBVIOUS
<1>3. PICK v : v = Patched(s.data[s.sector], s.off, n, x)
  OBVIOUS
<1>4. PICK t : t = s.fat
  OBVIOUS
<1>5. PICK p, q : p = dir[i].start /\ q = s.sector
  OBVIOUS
<1>6. Len(ch[i]) \in Nat /\ j \in Nat \ {0} /\ ch[i][j] \in Clusters
  BY ChainFacts
<1>7. Nth(t, p, j) = ch[i][j] /\ q = At(t, p, j) /\ q \in Sectors
  <2>1. Nth(t, p, j) = ch[i][j]
    BY <1>4, <1>5, <1>6, PlaceIs
  <2> QED BY <1>5, <1>6, <2>1, InArea DEF At
<1>8. Needed(s.done) = 1 .. j - 1
  BY <1>6, NeededFacts
\* Its sector is not yet written, so it holds what it held.
<1>9. s.data[q] = data[q]
  <2> SUFFICES ASSUME s.data[q] # data[q] PROVE FALSE
    OBVIOUS
  <2>1. PICK k \in Needed(s.done) : q = At(t, p, k)
    BY <1>4, <1>5, <1>7 DEF Plan
  <2>2. k \in Nat \ {0} /\ k # j
    BY <1>6, <1>8, <2>1
  <2>3. Nth(t, p, k) \in Clusters
    BY <1>4, <1>5, <2>1 DEF Plan
  <2>4. /\ Chained(t, dir, ch) /\ Nth(t, dir[i].start, j) \in Clusters /\ Nth(t, dir[i].start, k) \in Clusters
        /\ At(t, dir[i].start, j) = At(t, dir[i].start, k)
    BY <1>4, <1>5, <1>6, <1>7, <2>1, <2>3
  <2> QED BY <1>6, <2>2, <2>4, PlacesApart
<1>10. s.off = 0 /\ s.done \in Nat
  BY DEF Sound
<1>11. n = (IF len - s.done < SectorSize THEN len - s.done ELSE SectorSize) /\ n \in Nat
  BY <1>2, <1>10, Numbers DEF Chunk
<1>12. v = New(data, q, len, x, j)
  <2>1. ASSUME NEW o \in 1 .. SectorSize PROVE o \in 0 + 1 .. 0 + n <=> SectorSize * (j - 1) + o <= len
    BY <1>10, <1>11, Numbers, SMTT(30)
  <2>2. v = [o \in 1 .. SectorSize |-> IF o \in 0 + 1 .. 0 + n THEN x ELSE data[q][o]]
    BY <1>3, <1>5, <1>9, <1>10 DEF Patched
  <2> QED BY <2>1, <2>2 DEF New
<1>13. c = [s EXCEPT !.data[s.sector] = v, !.done = @ + n, !.off = 0, !.todo = Append(@, DataSector(s.sector, v))]
  <2>1. ~(s.sector \notin Sectors \/ n < 0)
    BY <1>5, <1>7, <1>11
  <2> QED BY <1>1, <1>2, <1>3, <2>1 DEF Copied
<1>14. /\ c.fat = t /\ c.done = s.done + n
       /\ c.data = [s.data EXCEPT ![q] = v] /\ c.todo = Append(s.todo, Sent(data, q, len, x, j))
  BY <1>4, <1>5, <1>12, <1>13 DEF LoopFields, Sent
<1>15. PICK r, m, w : r = c.todo /\ m = Len(s.todo) /\ w = Sent(data, q, len, x, j)
  OBVIOUS
<1>16. /\ m \in Nat /\ Len(r) = m + 1 /\ r[m + 1] = w /\ (\A k \in 1 .. m : r[k] = s.todo[k])
       /\ \A k \in 1 .. m + 1 : k \in 1 .. m \/ k = m + 1
  <2>1. s.todo \in Seq(Writes)
    BY DEF Sound
  <2>2. w \in Writes
    <3>1. s.data[q] \in SectorData
      BY <1>7 DEF Sound, Area
    <3>2. New(data, q, len, x, j) \in SectorData
      BY <1>9, <3>1 DEF New, SectorData
    <3> QED BY <1>7, <1>15, <3>2 DEF Sent, Writes
  <2>3. PICK z \in Seq(Writes) : z = s.todo
    BY <2>1
  <2>4. r = Append(z, w) /\ m = Len(z)
    BY <1>14, <1>15, <2>3
  <2>5. m \in Nat /\ Len(r) = m + 1 /\ r[m + 1] = w /\ \A k \in 1 .. m : r[k] = z[k]
    BY <2>2, <2>4, AppendProperties, LenProperties
  <2> QED BY <2>3, <2>5
<1>17. w.to = "data"
  BY <1>15, SectorKinds DEF Sent
<1>18. Needed(s.done) \subseteq Needed(c.done) /\ j \in Needed(c.done) /\ \A k \in Needed(c.done) : k \in Needed(s.done) \/ k = j
  <2>1. c.done \in Nat /\ s.done <= c.done /\ s.done < c.done /\ c.done <= s.done + SectorSize
    <3>1. PICK y \in Nat : y = s.done /\ y < len
      BY <1>10
    <3>2. PICK b \in Nat \ {0} : b = SectorSize
      BY Numbers
    <3>3. n = IF len - y < b THEN len - y ELSE b
      BY <1>11, <3>1, <3>2
    <3>4. y + n \in Nat /\ y < y + n /\ y + n <= y + b
      BY <1>11, <3>1, <3>3
    <3> QED BY <1>14, <3>1, <3>2, <3>4
  <2>2. SectorSize * j = s.done + SectorSize /\ SectorSize * j \in Nat
    BY <1>6, Numbers
  <2>3. Needed(SectorSize * j) = 1 .. j
    <3>1. PICK k \in Nat \ {0} : k = j + 1
      BY <1>6
    <3>2. Needed(SectorSize * (k - 1)) = 1 .. k - 1
      BY NeededFacts
    <3> QED BY <1>6, <3>1, <3>2
  <2>4. Needed(c.done) \subseteq 1 .. j
    BY <2>1, <2>2, <2>3, NeededFacts
  <2>5. j \in Needed(c.done)
    BY <1>6, <2>1 DEF Needed
  <2> QED BY <1>6, <1>8, <1>10, <2>1, <2>4, <2>5, NeededFacts
<1>19. Alike(c.fat, fat, dir) /\ \A k \in 1 .. Len(r) : r[k].to = "fat" => Alike(r[k].value, fat, dir)
  <2>1. Alike(t, fat, dir) /\ \A k \in 1 .. m : s.todo[k].to = "fat" => Alike(s.todo[k].value, fat, dir)
    BY <1>4, <1>15 DEF Plan
  <2> QED BY <1>14, <1>16, <1>17, <2>1
<1>20. ASSUME NEW k \in 1 .. Len(r), r[k].to = "data"
       PROVE  \E h \in Needed(c.done) : r[k] = Sent(data, At(t, p, h), len, x, h)
  <2>1. CASE k = m + 1
    BY <1>7, <1>15, <1>16, <1>18, <2>1
  <2>2. CASE k \in 1 .. m
    <3>1. s.todo[k].to = "data" /\ k \in 1 .. Len(s.todo)
      BY <1>15, <1>16, <1>20, <2>2
    <3>2. \E h \in Needed(s.done) : s.todo[k] = Sent(data, At(t, p, h), len, x, h)
      BY <1>4, <1>5, <3>1 DEF Plan
    <3> QED BY <1>16, <1>18, <2>2, <3>2
  <2> QED BY <1>16, <2>1, <2>2
<1>21. ASSUME NEW h \in Needed(c.done)
       PROVE  Nth(t, p, h) \in Clusters /\ \E k \in 1 .. Len(r) : r[k] = Sent(data, At(t, p, h), len, x, h)
  <2>1. CASE h = j
    <3>1. m + 1 \in 1 .. Len(r)
      BY <1>16
    <3> QED BY <1>6, <1>7, <1>15, <1>16, <2>1, <3>1
  <2>2. CASE h \in Needed(s.done)
    <3>1. Nth(t, p, h) \in Clusters /\ \E k \in 1 .. Len(s.todo) : s.todo[k] = Sent(data, At(t, p, h), len, x, h)
      BY <1>4, <1>5, <2>2 DEF Plan
    <3>2. \A k \in 1 .. m : k \in 1 .. Len(r)
      BY <1>16
    <3> QED BY <1>15, <1>16, <3>1, <3>2
  <2> QED BY <1>18, <2>1, <2>2
<1>22. ASSUME NEW z \in Sectors PROVE c.data[z] = data[z] \/ \E h \in Needed(c.done) : z = At(t, p, h)
  <2>1. CASE z = q
    BY <1>7, <1>18, <2>1
  <2>2. CASE z # q
    <3>1. c.data[z] = s.data[z]
      BY <1>14, <2>2 DEF Sound, Area
    <3> QED BY <1>4, <1>5, <1>18, <3>1 DEF Plan
  <2> QED BY <2>1, <2>2
<1> QED BY <1>1, <1>5, <1>14, <1>15, <1>19, <1>20, <1>21, <1>22, SMTT(30) DEF Plan

\* Going on to the next cluster leaves all that as it is: a table in which
\* the chain is longer is one more sector to write.
LEMMA PlanAdvances ==
  ASSUME NEW s, DOMAIN s = LoopFields, ~s.bad, Sound(s), dir \in Dirs, NEW ch \in Chains(dir), Chained(s.fat, dir, ch),
         NEW i \in UsedIn(dir), NEW j \in 1 .. Len(ch[i]), s.cluster = ch[i][j], NEW len, NEW x,
         Plan(s, dir[i].start, len, x)
  PROVE  Plan(Advanced(s), dir[i].start, len, x)
<1>1. PICK c, p, r : c = Next1(s.fat, s.cluster) /\ p = dir[i].start /\ r = Advanced(s)
  OBVIOUS
<1>2. Len(ch[i]) \in Nat /\ s.cluster \in Clusters
  BY ChainFacts
<1>3. c = IF j < Len(ch[i]) THEN ch[i][j + 1] ELSE Eof
  BY <1>1, <1>2 DEF Next1, Chained, IsChain
<1>4. ASSUME r.fat = s.fat, r.todo = s.todo, r.done = s.done, r.data = s.data PROVE Plan(r, p, len, x)
  BY <1>1, <1>4 DEF Plan
<1>5. CASE j < Len(ch[i])
  <2>1. c \in Clusters /\ c # Eof
    <3>1. j + 1 \in 1 .. Len(ch[i])
      BY <1>2, <1>5
    <3> QED BY <1>3, <1>5, <3>1, ChainFacts, Numbers
  <2>2. r = [s EXCEPT !.cluster = c, !.sector = SectorOf(c)]
    BY <1>1, <2>1 DEF Advanced
  <2> QED BY <1>1, <1>4, <2>2 DEF LoopFields
<1>6. CASE ~(j < Len(ch[i]))
  <2>1. c = Eof /\ j = Len(ch[i])
    BY <1>2, <1>3, <1>6
  <2>2. PICK a : a = Allocated(s.fat, s.cluster)
    OBVIOUS
  <2>3. r = [s EXCEPT !.cluster = a.cluster, !.sector = SectorOf(a.cluster), !.fat = a.fat,
                      !.todo = IF a.cluster = Stray THEN @ ELSE Append(@, FatSector(a.fat))]
    BY <1>1, <2>1, <2>2 DEF Advanced
  <2>5. /\ r.fat = a.fat /\ r.data = s.data /\ r.done = s.done
        /\ r.todo = IF a.cluster = Stray THEN s.todo ELSE Append(s.todo, FatSector(a.fat))
    BY <2>3 DEF LoopFields
  <2>6. CASE FreeClusters(s.fat) = {} /\ a.cluster = Stray /\ a.fat = s.fat
    BY <1>1, <1>4, <2>5, <2>6
  <2>7. CASE \E e \in Clusters : s.fat[e] = Free /\ a.cluster = e /\ a.fat = Linked(s.fat, e, s.cluster)
    <3>1. PICK e \in Clusters : s.fat[e] = Free /\ a.cluster = e /\ a.fat = Linked(s.fat, e, s.cluster)
      BY <2>7
    <3>2. PICK m \in Nat \ {0} : m = Len(ch[i]) /\ j = m
      BY <1>2, <2>1
    <3>3. PICK t \in Table : t = s.fat
      BY DEF Sound
    <3>4. PICK u : u = a.fat
      OBVIOUS
    <3>5. u = [t EXCEPT ![e] = Eof, ![ch[i][m]] = e]
      BY <1>2, <3>1, <3>2, <3>3, <3>4, Numbers DEF Linked
    <3>6. ASSUME NEW h \in UsedIn(dir), NEW k \in Nat \ {0}, Nth(t, dir[h].start, k) \in Clusters
          PROVE  Nth(u, dir[h].start, k) = Nth(t, dir[h].start, k)
      <4>1. Chained(t, dir, ch) /\ t[e] = Free
        BY <3>1, <3>3
      <4>2. Nth(Linked(t, e, ch[i][m]), dir[h].start, k) = Nth(t, dir[h].start, k)
        BY <3>2, <3>6, <4>1, ExtendSame
      <4> QED BY <3>1, <3>2, <3>3, <3>4, <4>2
    <3>7. Alike(u, fat, dir)
      <4>1. Alike(t, fat, dir)
        BY <3>3 DEF Plan
      <4>2. Chained(t, dir, ch) /\ t[e] = Free
        BY <3>1, <3>3
      <4>3. Alike(Linked(t, e, ch[i][m]), fat, dir)
        BY <3>2, <4>1, <4>2, ExtendAlike
      <4> QED BY <1>2, <3>1, <3>2, <3>3, <3>4, <4>3
    <3>8. \A k \in Needed(s.done) : Nth(u, p, k) = Nth(t, p, k) /\ Nth(t, p, k) \in Clusters /\ At(u, p, k) = At(t, p, k)
      <4> TAKE k \in Needed(s.done)
      <4>1. Nth(t, dir[i].start, k) \in Clusters /\ k \in Nat \ {0}
        BY <3>3 DEF Plan, Needed
      <4> QED BY <1>1, <3>6, <4>1 DEF At
    <3>9. PICK q, g, w : q = s.todo /\ g = Len(q) /\ w = FatSector(u)
      OBVIOUS
    <3>10. w.to = "fat" /\ w.value = u
      BY <3>9, SectorKinds
    <3>11. PICK z : z = r.todo
      OBVIOUS
    <3>12. /\ g \in Nat /\ Len(z) = g + 1 /\ z[g + 1] = w /\ (\A k \in 1 .. g : z[k] = q[k])
           /\ \A k \in 1 .. g + 1 : k \in 1 .. g \/ k = g + 1
      <4>1. z = Append(q, w)
        BY <2>5, <3>1, <3>4, <3>9, <3>11, Numbers
      <4>2. q \in Seq(Writes)
        BY <3>9 DEF Sound
      <4>3. u \in Table
        <5>1. PICK f : f = ch[i][m] /\ f \in Clusters
          BY <1>2, <3>2
        <5>2. [t EXCEPT ![e] = Eof, ![f] = e] \in Table
          BY <5>1 DEF Table
        <5> QED BY <3>5, <5>1, <5>2
      <4>4. w \in Writes
        BY <3>9, <4>3 DEF Writes
      <4>5. g \in Nat /\ Len(z) = g + 1 /\ z[g + 1] = w /\ \A k \in 1 .. g : z[k] = q[k]
        BY <3>9, <4>1, <4>2, <4>4, AppendProperties, LenProperties
      <4> QED BY <4>5
    <3>13. \A k \in 1 .. Len(z) : z[k].to = "fat" => Alike(z[k].value, fat, dir)
      <4>1. \A k \in 1 .. g : q[k].to = "fat" => Alike(q[k].value, fat, dir)
        BY <3>9 DEF Plan
      <4> QED BY <3>7, <3>10, <3>12, <4>1
    <3>14. \A k \in 1 .. Len(z) : z[k].to = "data" => \E h \in Needed(s.done) : z[k] = Sent(data, At(u, p, h), len, x, h)
      <4>1. \A k \in 1 .. g : q[k].to = "data" => \E h \in Needed(s.done) : q[k] = Sent(data, At(t, p, h), len, x, h)
        BY <1>1, <3>3, <3>9 DEF Plan
      <4> QED BY <3>8, <3>10, <3>12, <4>1
    <3>15. \A h \in Needed(s.done) : Nth(u, p, h) \in Clusters /\ \E k \in 1 .. Len(z) : z[k] = Sent(data, At(u, p, h), len, x, h)
      <4> TAKE h \in Needed(s.done)
      <4>1. PICK k \in 1 .. g : q[k] = Sent(data, At(t, p, h), len, x, h)
        BY <1>1, <3>3, <3>9 DEF Plan
      <4>2. k \in 1 .. Len(z)
        BY <3>12
      <4> QED BY <3>8, <3>12, <4>1, <4>2
    <3>16. \A y \in Sectors : s.data[y] = data[y] \/ \E h \in Needed(s.done) : y = At(u, p, h)
      <4>1. \A y \in Sectors : s.data[y] = data[y] \/ \E h \in Needed(s.done) : y = At(t, p, h)
        BY <1>1, <3>3 DEF Plan
      <4> QED BY <3>8, <4>1
    <3> QED BY <1>1, <2>5, <3>4, <3>7, <3>11, <3>13, <3>14, <3>15, <3>16 DEF Plan
  <2> QED BY <2>2, <2>6, <2>7, AllocatedIs
<1> QED BY <1>5, <1>6

LEMMA PlanTurn ==
  ASSUME NEW i \in UsedIn(dir), dir \in Dirs, NEW len \in Nat, NEW x \in Bytes, NEW k \in Nat, NEW s,
         Loop(s, i, len, k), ~s.bad => Plan(s, dir[i].start, len, x), ~Turn(s, len, x).bad
  PROVE  Plan(Turn(s, len, x), dir[i].start, len, x)
<1>1. CASE s.bad
  BY <1>1 DEF Turn
<1>2. CASE ~s.bad /\ s.done >= len
  BY <1>2 DEF Turn
<1>3. CASE ~s.bad /\ ~(s.done >= len)
  <2>1. DOMAIN s = LoopFields /\ Sound(s) /\ s.done \in Nat /\ Plan(s, dir[i].start, len, x)
    BY <1>3 DEF Loop, Sound
  <2>2. PICK ch \in Chains(dir) : Held(s.fat, dir, ch, resets) /\ Stands(s, ch[i], len, k)
    BY <1>3 DEF Loop
  <2>3. PICK c : c = Copied(s, len, x)
    OBVIOUS
  <2>4. s.done < len
    BY <1>3, <2>1
  <2>5. CASE c.bad
    BY <1>3, <2>3, <2>5 DEF Turn
  <2>6. CASE ~c.bad
    <3>1. /\ DOMAIN c = LoopFields /\ Sound(c) /\ s.sector \in Sectors /\ c.fat = s.fat /\ c.cluster = s.cluster
      BY <1>3, <2>1, <2>3, <2>4, <2>6, CopiedFields
    <3>2. PICK j \in 1 .. Len(ch[i]) : s.cluster = ch[i][j] /\ s.done = SectorSize * (j - 1) /\ s.sector = SectorOf(s.cluster)
      BY <2>1, <2>2, <2>4, <3>1 DEF Stands
    <3>3. Chained(s.fat, dir, ch)
      BY <2>2 DEF Held
    <3>4. Plan(c, dir[i].start, len, x)
      BY <1>3, <2>1, <2>3, <2>4, <2>6, <3>2, <3>3, PlanCopies
    <3>5. CASE c.done >= len
      BY <1>3, <2>3, <3>4, <3>5 DEF Turn
    <3>6. CASE ~(c.done >= len)
      <4>1. Turn(s, len, x) = Advanced(c)
        BY <1>3, <2>3, <2>6, <3>6 DEF Turn
      <4>2. Plan(Advanced(c), dir[i].start, len, x)
        BY <2>6, <3>1, <3>2, <3>3, <3>4, PlanAdvances
      <4> QED BY <4>1, <4>2
    <3> QED BY <3>5, <3>6
  <2> QED BY <2>5, <2>6
<1> QED BY <1>1, <1>2, <1>3

LEMMA WrittenPlan ==
  ASSUME Volume(fat, dir, resets), fatDisk = fat, data \in Area, NEW i \in UsedIn(dir),
         NEW f, f.file = dir[i], f.cfo = 0, NEW len \in Nat \ {0}, NEW x \in Bytes,
         resets \in 0 .. MaxResets, len <= MaxOffset, ~Written(f, len, x).bad
  PROVE  Plan(Written(f, len, x), dir[i].start, len, x) /\ Written(f, len, x).done = len
<1>1. dir \in Dirs /\ Unique(dir)
  BY DEF Volume
<1>2. PICK n \in Nat : n = len + 1
  OBVIOUS
<1>3. PICK g : Running(g, Start(f), len, x, n) /\ Written(f, len, x) = g[n]
  BY <1>2, WrittenRuns
<1> DEFINE Good(k) == Loop(g[k], i, len, k) /\ (~g[k].bad => Plan(g[k], dir[i].start, len, x))
           W == {k \in 0 .. n : ~Good(k)}
<1>4. Good(n)
  <2> SUFFICES ASSUME W # {} PROVE FALSE
    BY <1>2
  <2>1. PICK m \in W : \A y \in W : m <= y
    <3>1. W \in SUBSET (0 .. n)
      OBVIOUS
    <3> HIDE DEF W
    <3> QED BY <3>1, LeastElement
  <2>2. CASE m = 0
    <3>1. g[0] = Start(f)
      BY <1>3 DEF Running
    <3> QED BY <2>1, <2>2, <3>1, LoopBegins, PlanBegins
  <2>3. CASE m # 0
    <3>1. PICK h \in Nat : m = h + 1 /\ h \in 0 .. n /\ m \in 0 .. n
      <4>1. m - 1 \in Nat /\ m = m - 1 + 1 /\ m - 1 \in 0 .. n
        BY <2>1, <2>3
      <4> QED BY <2>1, <4>1
    <3>2. Good(h)
      BY <2>1, <3>1
    <3>3. g[m] = Turn(g[h], len, x)
      <4>1. m - 1 = h
        BY <3>1
      <4> QED BY <1>3, <2>3, <3>1, <4>1 DEF Running
    <3>4. Loop(Turn(g[h], len, x), i, len, h + 1)
      BY <1>1, <3>2, TurnKeeps
    <3>5. ~Turn(g[h], len, x).bad => Plan(Turn(g[h], len, x), dir[i].start, len, x)
      BY <1>1, <3>2, PlanTurn
    <3>6. Good(m)
      BY <3>1, <3>3, <3>4, <3>5
    <3> QED BY <2>1, <3>6
  <2> QED BY <2>2, <2>3
<1>5. g[n].done = len
  <2>1. PICK ch \in Chains(dir) : Sound(g[n]) /\ Stands(g[n], ch[i], len, n)
    BY <1>3, <1>4 DEF Loop
  <2>2. g[n].done \in Nat /\ ~(g[n].done < len /\ n <= g[n].done)
    BY <1>2, <2>1 DEF Sound
  <2> QED BY <2>1, <2>2 DEF Stands
<1> QED BY <1>3, <1>4, <1>5
-----------------------------------------------------------------------------
(***************************************************************************)
(* The refinement of FileStore.  Beside FilesInv it needs that every table *)
(* on its way leads from the entries on the disk to the same clusters, and *)
(* what is still to be written: of a file that is created no data, of a    *)
(* write those of its clusters that do not hold the new bytes yet.         *)
(***************************************************************************)
Resized(x, d, i, z) ==
  /\ UsedIn(x) = UsedIn(d) /\ x[i].name = d[i].name /\ x[i].start = d[i].start /\ x[i].size = z
  /\ \A k \in UsedIn(d) \ {i} : x[k] = d[k]

Creates(k, e) ==
  /\ call = {} /\ k \in 1 .. DirSlots /\ e.name \in Names /\ e.size = 0 /\ Slots(dir, e.name) = {}
  /\ Taken(Coming, dir, k, e)
  /\ \A m \in 1 .. Len(todo) : todo[m].to # "data"

Remains(c, len, x) ==
  /\ \A m \in 1 .. Len(todo) : todo[m].to = "data" =>
       \E j \in Needed(len) : todo[m] = Sent(data, At(fat, c, j), len, x, j)
  /\ \A j \in Needed(len) :
       /\ Nth(fat, c, j) \in Clusters
       /\ \/ data[At(fat, c, j)] = New(data, At(fat, c, j), len, x, j)
          \/ \E m \in 1 .. Len(todo) : todo[m] = Sent(data, At(fat, c, j), len, x, j)

Stores(i, len, x) ==
  /\ i \in UsedIn(dir) /\ len \in Nat \ {0} /\ x \in Bytes
  /\ call = {[name |-> dir[i].name, at |-> 0, data |-> [p \in 1 .. len |-> x]]}
  /\ Resized(Coming, dir, i, Grown(dir[i].size, len))
  /\ Remains(dir[i].start, len, x)

StoreInv ==
  /\ Alike(fat, fatDisk, dir)
  /\ \A m \in 1 .. Len(todo) : todo[m].to = "fat" => Alike(todo[m].value, fatDisk, dir)
  /\ \/ Len(todo) = 0 /\ call = {}
     \/ /\ Len(todo) # 0 /\ todo[Len(todo)].to = "dir"
        /\ (\E k, e : Creates(k, e)) \/ (\E i, len, x : Stores(i, len, x))

LEMMA AlikeFacts ==
  ASSUME NEW t, NEW u, NEW d
  PROVE  /\ Alike(t, t, d)
         /\ Alike(t, u, d) => Alike(u, t, d)
         /\ \A v : Alike(t, u, d) /\ Alike(u, v, d) => Alike(t, v, d)
BY DEF Alike

LEMMA StoreUntouched ==
  ASSUME StoreInv, UNCHANGED <<disk, fat, todo, call>>
  PROVE  StoreInv'
<1>1. data' = data /\ fatDisk' = fatDisk /\ dir' = dir /\ fat' = fat /\ todo' = todo /\ call' = call
  BY DEF disk
<1>2. Coming' = Coming
  BY <1>1 DEF Coming
<1>3. ASSUME NEW k, NEW e PROVE Creates(k, e) => Creates(k, e)'
  BY <1>1, <1>2 DEF Creates
<1>4. ASSUME NEW i, NEW len, NEW x PROVE Stores(i, len, x) => Stores(i, len, x)'
  BY <1>1, <1>2 DEF Stores, Remains
<1> QED BY <1>1, <1>3, <1>4 DEF StoreInv

LEMMA ResetStore ==
  ASSUME Reset
  PROVE  StoreInv'
<1>1. fatDisk' = fatDisk /\ dir' = dir /\ fat' = fatDisk /\ todo' = << >> /\ call' = {}
  BY DEF Reset, CachedFat, disk
<1>2. Len(todo') = 0 /\ 1 .. Len(todo') = {}
  BY <1>1, EmptySeq
<1> QED BY <1>1, <1>2, AlikeFacts DEF StoreInv

LEMMA CreateStore ==
  ASSUME Disciplined, FilesInv, StoreInv, NEW n \in Names, Create(n)
  PROVE  StoreInv'
<1>1. /\ Coming = dir /\ fatDisk = fat /\ Volume(fat, dir, resets) /\ dir \in Dirs /\ Unique(dir)
      /\ fat \in Table /\ n # Absent
  BY WhenReady, Numbers DEF Create, FilesInv, DiskInv, Volume
<1>2. PICK ch \in Chains(dir) : Chained(fat, dir, ch)
  BY <1>1 DEF Volume, Held
<1>3. PICK k : k = Min(SlotsOf(Absent)) /\ k \in 1 .. DirSlots /\ dir[k].name = Absent
  <2>1. SlotsOf(Absent) \in SUBSET (0 .. DirSlots) /\ DirSlots \in Nat /\ SlotsOf(Absent) # {}
    BY Numbers DEF SlotsOf, Create
  <2>2. Min(SlotsOf(Absent)) \in SlotsOf(Absent)
    BY <2>1, MinIsLeast
  <2> QED BY <2>2 DEF SlotsOf
<1>4. PICK a : a = Allocated(fat, 0)
  OBVIOUS
<1>5. PICK e : e = [name |-> n, start |-> a.cluster, size |-> 0]
  OBVIOUS
<1>6. PICK new : new = [dir EXCEPT ![k] = e]
  OBVIOUS
<1>7. PICK q : q = IF a.cluster = Stray THEN << >> ELSE << FatSector(a.fat) >>
  OBVIOUS
<1>8. PICK s : s = DirSector(new) /\ s.to = "dir" /\ s.value = new
  BY SectorKinds
<1>9. fat' = a.fat /\ todo' = Append(q, s) /\ data' = data /\ fatDisk' = fatDisk /\ dir' = dir /\ call' = call
  BY <1>3, <1>4, <1>5, <1>6, <1>7, <1>8 DEF Create, InOrder, disk
<1>10. e.name = n /\ e.size = 0
  BY <1>5
<1>11. Taken(new, dir, k, e)
  BY <1>1, <1>3, <1>6, <1>10, SlotTaken
<1>12. PICK r : r = todo'
  OBVIOUS
<1>13. /\ Len(r) \in Nat \ {0} /\ r[Len(r)] = s
       /\ \A m \in 1 .. Len(r) : m = Len(r) \/ (a.cluster # Stray /\ r[m] = FatSector(a.fat))
  <2>1. PICK w : w = FatSector(a.fat)
    OBVIOUS
  <2>2. PICK S : S = {w, s}
    OBVIOUS
  <2>3. q \in Seq(S) /\ Len(q) \in {0, 1} /\ (Len(q) = 1 => a.cluster # Stray /\ q[1] = w)
    <3>1. CASE a.cluster = Stray
      BY <1>7, <3>1, EmptySeq
    <3>2. CASE a.cluster # Stray
      <4>1. q = << w >>
        BY <1>7, <2>1, <3>2
      <4> QED BY <2>2, <3>2, <4>1
    <3> QED BY <3>1, <3>2
  <2>4. Len(r) = Len(q) + 1 /\ r[Len(q) + 1] = s /\ \A m \in 1 .. Len(q) : r[m] = q[m]
    <3>1. r = Append(q, s) /\ s \in S
      BY <1>9, <1>12, <2>2
    <3> QED BY <2>3, <3>1, AppendProperties
  <2>5. PICK n0 : n0 = Len(q) /\ n0 \in {0, 1}
    BY <2>3
  <2>6. Len(r) = n0 + 1 /\ r[n0 + 1] = s /\ \A m \in 1 .. n0 : r[m] = q[m]
    BY <2>4, <2>5
  <2>7. \A m \in 1 .. n0 + 1 : m = n0 + 1 \/ (m = 1 /\ n0 = 1 /\ m \in 1 .. n0)
    BY <2>5
  <2> QED BY <2>1, <2>3, <2>5, <2>6, <2>7
<1>14. Alike(a.fat, fat, dir)
  <2>1. CASE a.fat = fat
    BY <2>1, AlikeFacts
  <2>2. CASE \E c \in Clusters : fat[c] = Free /\ a.cluster = c /\ a.fat = Linked(fat, c, 0)
    <3>1. PICK c \in Clusters : fat[c] = Free /\ a.fat = Linked(fat, c, 0)
      BY <2>2
    <3>2. PICK u : u = a.fat
      OBVIOUS
    <3>3. u = [fat EXCEPT ![c] = Eof]
      BY <3>1, <3>2 DEF Linked
    <3>4. Chained(u, dir, ch)
      BY <1>1, <1>2, <3>1, <3>3, MarkKeeps
    <3>5. ASSUME NEW h \in UsedIn(dir), NEW j \in Needed(dir[h].size) PROVE Nth(u, dir[h].start, j) = Nth(fat, dir[h].start, j)
      <4>1. Nth(u, dir[h].start, j) = ch[h][j]
        BY <1>1, <3>4, PlaceExists
      <4>2. Nth(fat, dir[h].start, j) = ch[h][j]
        BY <1>1, <1>2, PlaceExists
      <4> QED BY <4>1, <4>2
    <3> QED BY <3>2, <3>5 DEF Alike
  <2> QED BY <1>4, <2>1, <2>2, AllocatedIs
<1>15. Coming' = new
  BY <1>8, <1>9, <1>12, <1>13 DEF Coming
<1>16. \A m \in 1 .. Len(r) : r[m].to # "data" /\ (r[m].to = "fat" => r[m].value = a.fat)
  BY <1>8, <1>13, SectorKinds
<1>17. Slots(dir, n) = {}
  BY DEF Create, SlotsOf, Slots
<1>18. Creates(k, e)'
  <2>1. call = {}
    <3>1. Len(todo) = 0
      BY WhenReady DEF Create, FilesInv
    <3> QED BY <3>1 DEF StoreInv
  <2> QED BY <1>3, <1>9, <1>10, <1>11, <1>12, <1>15, <1>16, <1>17, <2>1 DEF Creates
<1> QED BY <1>1, <1>8, <1>9, <1>12, <1>13, <1>14, <1>16, <1>18 DEF StoreInv

LEMMA WriteStore ==
  ASSUME Disciplined, FilesInv, StoreInv, NEW j \in Fds, NEW len \in Lens, NEW x \in Bytes, Write(j, len, x)
  PROVE  StoreInv'
<1>1. PICK f, w : f = fds[j] /\ w = Written(f, len, x)
  OBVIOUS
<1>2. /\ Coming = dir /\ fatDisk = fat /\ Volume(fat, dir, resets) /\ dir \in Dirs /\ Unique(dir) /\ data \in Area
      /\ f.opened /\ f.cfo = 0 /\ len \in Nat \ {0} /\ resets \in 0 .. MaxResets
  BY <1>1, WhenReady, FilesAssumption DEF Write, MayUse, FilesInv, DiskInv
<1>3. PICK i \in UsedIn(dir) : f.file = dir[i]
  BY <1>1, <1>2 DEF FilesInv, Descriptors
<1>4. len <= MaxOffset
  BY <1>1, <1>2 DEF Write
<1>5. CASE w.bad
  <2>1. UNCHANGED <<disk, fat, todo, call>>
    BY <1>1, <1>5 DEF Write, Break, memory
  <2> QED BY <2>1, StoreUntouched
<1>6. CASE ~w.bad
  <2>1. Plan(w, dir[i].start, len, x) /\ w.done = len
    BY <1>1, <1>2, <1>3, <1>4, <1>6, WrittenPlan
  <2>2. Sound(w)
    BY <1>1, <1>2, <1>3, <1>4, <1>6, WrittenIs
  <2>3. SlotsOf(f.file.name) = {i} /\ Min({i}) = i
    BY <1>2, <1>3, OneSlot DEF SlotsOf, Slots
  <2>4. PICK z : z = Grown(dir[i].size, len)
    OBVIOUS
  <2>5. z = Grown(f.file.size, f.cfo + len) /\ f.cfo + len = len
    <3>1. 0 + len = len
      BY <1>2
    <3> QED BY <1>2, <1>3, <2>4, <3>1
  <2>6. PICK new : new = [dir EXCEPT ![i].size = z]
    OBVIOUS
  <2>7. Resized(new, dir, i, z)
    <3>1. new = [k \in 1 .. DirSlots |-> IF k = i THEN [dir[i] EXCEPT !.size = z] ELSE dir[k]]
      BY <1>2, <2>6 DEF Dirs
    <3>2. i \in 1 .. DirSlots /\ dir[i] \in Entries
      BY <1>2 DEF UsedIn, Dirs
    <3>3. PICK e : e = [dir[i] EXCEPT !.size = z]
      OBVIOUS
    <3>4. e.name = dir[i].name /\ e.start = dir[i].start /\ e.size = z
      BY <3>2, <3>3 DEF Entries
    <3>5. new = [k \in 1 .. DirSlots |-> IF k = i THEN e ELSE dir[k]]
      BY <3>1, <3>3
    <3>6. UsedIn(new) = UsedIn(dir)
      BY <3>2, <3>4, <3>5 DEF UsedIn
    <3>7. \A k \in UsedIn(dir) \ {i} : new[k] = dir[k]
      BY <3>5 DEF UsedIn
    <3> QED BY <3>2, <3>4, <3>5, <3>6, <3>7 DEF Resized
  <2>8. PICK q, s, n : q = w.todo /\ s = DirSector(new) /\ n = Len(q) /\ s.to = "dir" /\ s.value = new
    BY SectorKinds
  <2>9. PICK r : r = Append(q, s)
    OBVIOUS
  <2>10. n \in Nat /\ Len(r) = n + 1 /\ r[n + 1] = s /\ \A m \in 1 .. n : r[m] = q[m]
    <3>1. q \in Seq(Writes)
      BY <2>2, <2>8 DEF Sound
    <3>2. PICK S : S = Writes \cup {s}
      OBVIOUS
    <3>3. q \in Seq(S) /\ s \in S
      BY <3>1, <3>2
    <3> QED BY <2>8, <2>9, <3>3, AppendProperties, LenProperties
  <2>11. /\ fat' = w.fat /\ todo' = r /\ data' = data /\ fatDisk' = fatDisk /\ dir' = dir
         /\ call' = {[name |-> f.file.name, at |-> f.cfo, data |-> [p \in 1 .. len |-> x]]}
    BY <1>6, <1>1, <2>3, <2>5, <2>6, <2>8, <2>9 DEF Write, InOrder, disk
  <2>12. Coming' = new
    <3>1. n + 1 # 0
      BY <2>10
    <3> QED BY <2>8, <2>10, <2>11, <3>1 DEF Coming
  <2>13. \A m \in 1 .. n + 1 : m \in 1 .. n \/ m = n + 1
    BY <2>10
  <2>14. Alike(fat', fatDisk', dir') /\ \A m \in 1 .. Len(r) : r[m].to = "fat" => Alike(r[m].value, fatDisk', dir')
    BY <1>2, <2>1, <2>8, <2>10, <2>11, <2>13 DEF Plan
  <2>15. Remains(dir[i].start, len, x)'
    <3>1. PICK c, t : c = dir[i].start /\ t = w.fat
      OBVIOUS
    <3>2. \A m \in 1 .. Len(r) : r[m].to = "data" => \E h \in Needed(len) : r[m] = Sent(data, At(t, c, h), len, x, h)
      <4>1. \A m \in 1 .. n : q[m].to = "data" => \E h \in Needed(len) : q[m] = Sent(data, At(t, c, h), len, x, h)
        BY <2>1, <2>8, <3>1 DEF Plan
      <4> QED BY <2>8, <2>10, <2>13, <4>1
    <3>3. \A h \in Needed(len) : Nth(t, c, h) \in Clusters /\ \E m \in 1 .. Len(r) : r[m] = Sent(data, At(t, c, h), len, x, h)
      <4> TAKE h \in Needed(len)
      <4>1. PICK m \in 1 .. n : Nth(t, c, h) \in Clusters /\ q[m] = Sent(data, At(t, c, h), len, x, h)
        BY <2>1, <2>8, <3>1 DEF Plan
      <4>2. m \in 1 .. Len(r)
        BY <2>10
      <4> QED BY <2>10, <4>1, <4>2
    <3>4. fat' = t /\ data' = data /\ todo' = r /\ dir' = dir
      BY <2>11, <3>1
    <3> QED BY <3>1, <3>2, <3>3, <3>4 DEF Remains
  <2>16. Stores(i, len, x)'
    <3>1. i \in UsedIn(dir') /\ Resized(Coming', dir', i, Grown(dir'[i].size, len)) /\ dir' = dir
      BY <2>4, <2>7, <2>11, <2>12
    <3>2. call' = {[name |-> dir[i].name, at |-> 0, data |-> [p \in 1 .. len |-> x]]}
      BY <1>2, <1>3, <2>11
    <3> QED BY <1>2, <2>15, <3>1, <3>2 DEF Stores
  <2>17. Len(r) # 0 /\ r[Len(r)].to = "dir"
    BY <2>8, <2>10
  <2> QED BY <2>11, <2>14, <2>16, <2>17 DEF StoreInv
<1> QED BY <1>5, <1>6

-----------------------------------------------------------------------------
(***************************************************************************)
(* One more sector is on the disk: what is still to be written stays as it *)
(* was, except for that sector.                                            *)
(***************************************************************************)
\* The first of the sectors that are still to be written, and what is left.
Onward(w, n) ==
  /\ n \in Nat \ {0} /\ n = Len(todo) /\ w \in Writes /\ w = todo[1]
  /\ Len(todo') = n - 1 /\ \A m \in 1 .. n - 1 : todo'[m] = todo[m + 1] /\ m + 1 \in 1 .. n
  /\ data' = IF w.to = "data" THEN [data EXCEPT ![w.at] = w.value] ELSE data
  /\ fatDisk' = IF w.to = "fat" THEN w.value ELSE fatDisk
  /\ dir' = IF w.to = "dir" THEN w.value ELSE dir
  /\ fat' = fat /\ call' = IF n = 1 THEN {} ELSE call
  /\ w.to \in {"data", "fat", "dir"} /\ (w.to = "dir" => n = 1)

LEMMA NextSector ==
  ASSUME FilesInv, WriteSector
  PROVE  \E n, w : Onward(w, n)
<1>1. PICK w, n, r : w = todo[1] /\ n = Len(todo) /\ r = Tail(todo)
  OBVIOUS
<1>2. todo \in Seq(Writes) /\ todo # << >> /\ w = Head(todo) /\ todo' = r
  BY <1>1 DEF WriteSector, FilesInv, DiskInv, Pending
<1>3. n \in Nat \ {0} /\ w \in Writes
  BY <1>1, <1>2, HeadTailProperties, LenProperties, EmptySeq, ElementOfSeq
<1>4. Len(r) = n - 1 /\ \A m \in 1 .. n - 1 : r[m] = todo[m + 1]
  BY <1>1, <1>2, HeadTailProperties
<1>5. \A m \in 1 .. n - 1 : m + 1 \in 1 .. n
  BY <1>3
<1>6. w.to \in {"data", "fat", "dir"}
  BY <1>3 DEF Writes, DataSector, FatSector, DirSector
<1>7. w.to = "dir" => n = 1
  <2>1. 1 \in 1 .. n
    BY <1>3
  <2> QED BY <1>1, <2>1 DEF FilesInv, DiskInv, Pending
<1>8. todo' = << >> <=> n = 1
  <2>1. r \in Seq(Writes) /\ (r = << >> <=> Len(r) = 0)
    BY <1>1, <1>2, HeadTailProperties, EmptySeq
  <2> QED BY <1>2, <1>3, <1>4, <2>1
<1>9. /\ data' = IF w.to = "data" THEN [data EXCEPT ![w.at] = w.value] ELSE data
      /\ fatDisk' = IF w.to = "fat" THEN w.value ELSE fatDisk
      /\ dir' = IF w.to = "dir" THEN w.value ELSE dir
      /\ fat' = fat /\ call' = IF n = 1 THEN {} ELSE call
  BY <1>2, <1>8 DEF WriteSector, memory
<1> QED BY <1>1, <1>2, <1>3, <1>4, <1>5, <1>6, <1>7, <1>9 DEF Onward

\* The sectors that a write goes to are in the data area, one for each of its
\* clusters, and of the bytes that the directory shows no others are there.
LEMMA Writable ==
  ASSUME FilesInv, NEW i, NEW len, NEW x, Stores(i, len, x), NEW h \in Needed(len)
  PROVE  /\ At(fat, dir[i].start, h) \in Sectors
         /\ \A k \in Needed(len) : At(fat, dir[i].start, k) = At(fat, dir[i].start, h) => k = h
         /\ \A g \in UsedIn(dir) : \A k \in Needed(dir[g].size) :
              At(fat, dir[g].start, k) \in Sectors /\ (At(fat, dir[g].start, k) = At(fat, dir[i].start, h) => g = i /\ k = h)
<1>1. PICK d \in Dirs : d = Coming
  BY DEF FilesInv, DiskInv, Volume
<1>2. PICK ch \in Chains(d) : Chained(fat, d, ch)
  BY <1>1 DEF FilesInv, DiskInv, Volume, Held
<1>3. /\ i \in UsedIn(d) /\ d[i].start = dir[i].start /\ UsedIn(d) = UsedIn(dir) /\ d[i].size = Grown(dir[i].size, len)
      /\ \A g \in UsedIn(dir) \ {i} : g \in UsedIn(d) /\ d[g] = dir[g]
  BY <1>1 DEF Stores, Resized
<1>4. \A k \in Needed(len) : Nth(fat, d[i].start, k) \in Clusters /\ k \in Nat \ {0}
  BY <1>3 DEF Stores, Remains, Needed
<1>5. At(fat, dir[i].start, h) \in Sectors
  BY <1>3, <1>4, InArea DEF At
<1>6. ASSUME NEW k \in Needed(len), At(fat, dir[i].start, k) = At(fat, dir[i].start, h) PROVE k = h
  <2>1. Nth(fat, d[i].start, k) \in Clusters /\ k \in Nat \ {0} /\ Nth(fat, d[i].start, h) \in Clusters /\ h \in Nat \ {0}
        /\ At(fat, d[i].start, k) = At(fat, d[i].start, h)
    BY <1>3, <1>4, <1>6
  <2> QED BY <1>2, <1>3, <2>1, PlacesApart
<1>7. ASSUME NEW g \in UsedIn(dir), NEW k \in Needed(dir[g].size)
      PROVE  At(fat, dir[g].start, k) \in Sectors /\ (At(fat, dir[g].start, k) = At(fat, dir[i].start, h) => g = i /\ k = h)
  <2>1. g \in UsedIn(d) /\ d[g].start = dir[g].start /\ k \in Nat \ {0} /\ k \in Needed(d[g].size)
    <3>1. CASE g = i
      <4>1. dir[i].size \in Nat /\ len \in Nat /\ d[i].size \in Nat
        <5>1. dir \in Dirs
          BY DEF FilesInv, DiskInv, Volume
        <5> QED BY <1>1, <1>3, <3>1, <5>1 DEF Stores, UsedIn, Dirs, Entries
      <4>2. dir[i].size <= d[i].size
        BY <1>3, <4>1 DEF Grown
      <4> QED BY <1>3, <3>1, <4>1, <4>2, NeededFacts DEF Needed
    <3>2. CASE g # i
      BY <1>3, <3>2 DEF Needed
    <3> QED BY <3>1, <3>2
  <2>2. Nth(fat, d[g].start, k) \in Clusters
    <3>1. g \in UsedIn(d) /\ k \in Needed(d[g].size)
      BY <2>1
    <3>2. Nth(fat, d[g].start, k) = ch[g][k] /\ ch[g][k] \in Clusters
      BY <1>2, <3>1, PlaceExists
    <3> QED BY <3>2
  <2>3. Nth(fat, d[i].start, h) \in Clusters /\ h \in Nat \ {0}
    BY <1>4
  <2>4. At(fat, d[g].start, k) = At(fat, d[i].start, h) => g = i /\ k = h
    BY <1>2, <1>3, <2>1, <2>2, <2>3, PlacesApart
  <2>5. At(fat, d[g].start, k) \in Sectors
    BY <2>2, InArea DEF At
  <2> QED BY <1>3, <2>1, <2>4, <2>5
<1> QED BY <1>5, <1>6, <1>7

\* One of the sectors of a write is on the disk: it is now as it shall be, and
\* what the others shall be is the same.
Wrote(a, q, v) == a[q] = v /\ \A s \in Sectors : s # q => a[s] = data[s]

LEMMA SectorWritten ==
  ASSUME FilesInv, NEW i, NEW len, NEW x, Stores(i, len, x), NEW j \in Needed(len),
         NEW p, p = At(fat, dir[i].start, j), NEW a, Wrote(a, p, New(data, p, len, x, j)), NEW h \in Needed(len)
  PROVE  New(a, At(fat, dir[i].start, h), len, x, h) = New(data, At(fat, dir[i].start, h), len, x, h)
<1>1. PICK q : q = At(fat, dir[i].start, h) /\ q \in Sectors /\ (q = p => h = j)
  BY Writable
<1>2. CASE q = p
  <2>1. h = j /\ a[q] = New(data, q, len, x, h)
    BY <1>1, <1>2 DEF Wrote
  <2>2. \A o \in 1 .. SectorSize : a[q][o] = IF SectorSize * (h - 1) + o <= len THEN x ELSE data[q][o]
    <3>1. PICK v : v = New(data, q, len, x, h)
      OBVIOUS
    <3>2. a[q] = v
      BY <2>1, <3>1
    <3>3. \A o \in 1 .. SectorSize : v[o] = IF SectorSize * (h - 1) + o <= len THEN x ELSE data[q][o]
      BY <3>1 DEF New
    <3> QED BY <3>2, <3>3
  <2>3. New(a, q, len, x, h) = New(data, q, len, x, h)
    <3>1. \A o \in 1 .. SectorSize : (IF SectorSize * (h - 1) + o <= len THEN x ELSE a[q][o])
                                     = IF SectorSize * (h - 1) + o <= len THEN x ELSE data[q][o]
      BY <2>2
    <3> QED BY <3>1 DEF New
  <2> QED BY <1>1, <2>3
<1>3. CASE q # p
  <2>1. a[q] = data[q]
    BY <1>1, <1>3 DEF Wrote
  <2>2. New(a, q, len, x, h) = New(data, q, len, x, h)
    BY <2>1 DEF New
  <2> QED BY <1>1, <2>2
<1> QED BY <1>2, <1>3

LEMMA SectorStore ==
  ASSUME FilesInv, StoreInv, WriteSector
  PROVE  StoreInv'
<1>1. PICK n, w : Onward(w, n)
  BY NextSector
<1>2. n \in Nat \ {0} /\ n = Len(todo) /\ w = todo[1] /\ Len(todo') = n - 1 /\ 1 \in 1 .. n
  BY <1>1 DEF Onward
<1>3. /\ Alike(fat, fatDisk, dir) /\ todo[n].to = "dir"
      /\ \A m \in 1 .. n : todo[m].to = "fat" => Alike(todo[m].value, fatDisk, dir)
      /\ (\E k, e : Creates(k, e)) \/ (\E i, len, x : Stores(i, len, x))
  BY <1>2 DEF StoreInv
<1>4. CASE n = 1
  <2>1. w.to = "dir" /\ Len(todo') = 0 /\ call' = {} /\ fatDisk' = fatDisk /\ fat' = fat /\ 1 .. Len(todo') = {}
    BY <1>1, <1>2, <1>3, <1>4 DEF Onward
  <2>2. fatDisk = fat
    <3>1. \A m \in 1 .. n : todo[m].to # "fat"
      BY <1>2, <1>4, <2>1
    <3> QED BY <1>2, <3>1 DEF FilesInv, DiskInv, Pending, Latest
  <2> QED BY <2>1, <2>2, AlikeFacts DEF StoreInv
<1>5. CASE n # 1
  <2>1. PICK z : z = n - 1 /\ z \in Nat \ {0} /\ Len(todo') = z /\ z \in 1 .. z /\ z + 1 = n
    BY <1>2, <1>5
  <2>2. \A m \in 1 .. z : todo'[m] = todo[m + 1] /\ m + 1 \in 1 .. n
    BY <1>1, <2>1 DEF Onward
  <2>3. dir' = dir /\ call' = call /\ fat' = fat /\ w.to \in {"data", "fat"}
    BY <1>1, <1>5 DEF Onward
  <2>4. todo'[z].to = "dir" /\ todo'[z] = todo[n]
    BY <1>3, <2>1, <2>2
  <2>5. Coming' = Coming
    BY <1>2, <2>1, <2>3, <2>4 DEF Coming
  <2>6. Alike(fat', fatDisk', dir') /\ \A m \in 1 .. z : todo'[m].to = "fat" => Alike(todo'[m].value, fatDisk', dir')
    <3>1. \A m \in 1 .. z : todo'[m].to = "fat" => Alike(todo'[m].value, fatDisk, dir)
      BY <1>3, <2>2
    <3>2. CASE w.to = "fat"
      <4>1. fatDisk' = w.value /\ Alike(w.value, fatDisk, dir)
        BY <1>1, <1>2, <1>3, <3>2 DEF Onward
      <4>2. Alike(fatDisk, w.value, dir)
        BY <4>1, AlikeFacts
      <4>3. \A t : Alike(t, fatDisk, dir) => Alike(t, w.value, dir)
        BY <4>2, AlikeFacts
      <4> QED BY <1>3, <2>3, <3>1, <4>1, <4>3
    <3>3. CASE w.to # "fat"
      <4>1. fatDisk' = fatDisk
        BY <1>1, <3>3 DEF Onward
      <4> QED BY <1>3, <2>3, <3>1, <4>1
    <3> QED BY <3>2, <3>3
  <2>7. ASSUME NEW k, NEW e, Creates(k, e) PROVE Creates(k, e)'
    <3>1. \A m \in 1 .. z : todo'[m].to # "data"
      BY <1>2, <2>2, <2>7 DEF Creates
    <3> QED BY <2>1, <2>3, <2>5, <2>7, <3>1 DEF Creates
  <2>8. ASSUME NEW i, NEW len, NEW x, Stores(i, len, x) PROVE Stores(i, len, x)'
    <3>1. PICK c : c = dir[i].start
      OBVIOUS
    <3>2. /\ \A m \in 1 .. n : todo[m].to = "data" => \E j \in Needed(len) : todo[m] = Sent(data, At(fat, c, j), len, x, j)
          /\ \A j \in Needed(len) :
               /\ Nth(fat, c, j) \in Clusters
               /\ \/ data[At(fat, c, j)] = New(data, At(fat, c, j), len, x, j)
                  \/ \E m \in 1 .. n : todo[m] = Sent(data, At(fat, c, j), len, x, j)
      BY <1>2, <2>8, <3>1 DEF Stores, Remains
    <3>3. /\ \A j \in Needed(len) : New(data', At(fat, c, j), len, x, j) = New(data, At(fat, c, j), len, x, j)
          /\ \A j \in Needed(len) : data[At(fat, c, j)] = New(data, At(fat, c, j), len, x, j) => data'[At(fat, c, j)] = New(data, At(fat, c, j), len, x, j)
          /\ \A j \in Needed(len) : w = Sent(data, At(fat, c, j), len, x, j) => data'[At(fat, c, j)] = New(data, At(fat, c, j), len, x, j)
      <4>1. CASE w.to = "data"
        <5>1. PICK j \in Needed(len) : w = Sent(data, At(fat, c, j), len, x, j)
          BY <1>2, <3>2, <4>1
        <5>2. w.at = At(fat, c, j) /\ w.value = New(data, At(fat, c, j), len, x, j)
          BY <5>1 DEF Sent, DataSector
        <5>3. PICK p, a, v : p = At(fat, dir[i].start, j) /\ a = data' /\ v = New(data, p, len, x, j)
          OBVIOUS
        <5>4. Wrote(a, p, v)
          <6>1. p \in Sectors
            BY <2>8, <5>3, Writable
          <6>2. a = [data EXCEPT ![p] = v]
            BY <1>1, <3>1, <4>1, <5>2, <5>3 DEF Onward
          <6> QED BY <6>1, <6>2 DEF Wrote, FilesInv, DiskInv, Area
        <5>5. \A h \in Needed(len) : New(a, At(fat, dir[i].start, h), len, x, h) = New(data, At(fat, dir[i].start, h), len, x, h)
          <6>1. Wrote(a, p, New(data, p, len, x, j))
            BY <5>3, <5>4
          <6> QED BY <2>8, <5>3, <6>1, SectorWritten
        <5>6. \A h \in Needed(len) : /\ At(fat, c, h) \in Sectors
                                     /\ At(fat, c, h) = At(fat, c, j) => h = j
          BY <2>8, <3>1, Writable
        <5>7. \A h \in Needed(len) : w = Sent(data, At(fat, c, h), len, x, h) => At(fat, c, h) = At(fat, c, j)
          BY <5>2 DEF Sent, DataSector
        <5> QED BY <3>1, <5>3, <5>4, <5>5, <5>6, <5>7 DEF Wrote
      <4>2. CASE w.to # "data"
        <5>1. data' = data
          BY <1>1, <4>2 DEF Onward
        <5>2. \A j \in Needed(len) : w # Sent(data, At(fat, c, j), len, x, j)
          BY <4>2, SectorKinds DEF Sent
        <5> QED BY <5>1, <5>2
      <4> QED BY <4>1, <4>2
    <3>4. \A j \in Needed(len) : Sent(data', At(fat, c, j), len, x, j) = Sent(data, At(fat, c, j), len, x, j)
      BY <3>3 DEF Sent
    <3>5. \A m \in 1 .. z : todo'[m].to = "data" => \E j \in Needed(len) : todo'[m] = Sent(data', At(fat, c, j), len, x, j)
      BY <2>2, <3>2, <3>4
    <3>6. ASSUME NEW j \in Needed(len)
          PROVE  \/ data'[At(fat, c, j)] = New(data', At(fat, c, j), len, x, j)
                 \/ \E m \in 1 .. z : todo'[m] = Sent(data', At(fat, c, j), len, x, j)
      <4>1. CASE data[At(fat, c, j)] = New(data, At(fat, c, j), len, x, j) \/ w = Sent(data, At(fat, c, j), len, x, j)
        BY <3>3, <4>1
      <4>2. CASE \E m \in 1 .. n : todo[m] = Sent(data, At(fat, c, j), len, x, j) /\ m # 1
        <5>1. PICK m \in 1 .. n : todo[m] = Sent(data, At(fat, c, j), len, x, j) /\ m # 1
          BY <4>2
        <5>2. PICK y : y = m - 1 /\ y \in 1 .. z /\ y + 1 = m
          BY <2>1, <5>1
        <5> QED BY <2>2, <3>4, <5>1, <5>2
      <4> QED BY <1>2, <3>2, <4>1, <4>2
    <3>7. Remains(dir[i].start, len, x)'
      BY <2>1, <2>3, <3>1, <3>2, <3>5, <3>6 DEF Remains
    <3> QED BY <2>3, <2>5, <2>8, <3>7 DEF Stores
  <2> QED BY <1>3, <2>1, <2>4, <2>6, <2>7, <2>8 DEF StoreInv
<1> QED BY <1>4, <1>5

-----------------------------------------------------------------------------
(***************************************************************************)
(* The steps of FileStore.  A sector of the table changes no byte of any   *)
(* file, one of data changes bytes of the file that is being written to    *)
(* new ones, and the entry ends the write or makes the file.               *)
(***************************************************************************)
\* A function on an initial segment of the naturals is a sequence.
LEMMA AsLong ==
  ASSUME NEW S, NEW n \in Nat, NEW s \in [1 .. n -> S]
  PROVE  s \in Seq(S) /\ Len(s) = n
<1>1. s \in Seq(S)
  BY SeqDef
<1>2. DOMAIN s = 1 .. n /\ DOMAIN s = 1 .. Len(s) /\ Len(s) \in Nat
  BY <1>1, LenProperties
<1> QED BY <1>1, <1>2

\* The bytes of a file are bytes, as many as its entry says.
LEMMA TextBytes ==
  ASSUME NEW a \in Area, NEW t, NEW d \in Dirs, NEW ch \in Chains(d), Chained(t, d, ch), NEW i \in UsedIn(d)
  PROVE  /\ d[i].size \in Nat /\ d[i].name \in Names /\ d[i].name # Absent
         /\ FileText(a, t, d[i]) \in Seq(Bytes) /\ Len(FileText(a, t, d[i])) = d[i].size
         /\ \A p \in 1 .. d[i].size : FileText(a, t, d[i])[p] = Byte(a, t, d[i].start, p)
         /\ FileText(a, t, d[i]) # Absent
<1>1. PICK z : z = d[i].size
  OBVIOUS
<1>2. z \in Nat /\ d[i].name \in Names /\ d[i].name # Absent
  BY <1>1 DEF UsedIn, Dirs, Entries
<1>3. ASSUME NEW p \in 1 .. z PROVE Byte(a, t, d[i].start, p) \in Bytes
  <2>1. p \in Nat \ {0} /\ p <= z
    BY <1>2
  <2>2. PICK j \in Nat \ {0} : \E o \in 1 .. SectorSize : Located(p, j, o)
    BY <2>1, ByteIs
  <2>7. PICK o \in 1 .. SectorSize : Located(p, j, o)
    BY <2>2
  <2>3. j \in Needed(d[i].size)
    BY <1>1, <1>2, <2>1, <2>7 DEF Located
  <2>4. Nth(t, d[i].start, j) = ch[i][j] /\ ch[i][j] \in Clusters
    BY <2>3, PlaceExists
  <2>5. At(t, d[i].start, j) \in Sectors
    BY <2>4, InArea DEF At
  <2>6. \A q \in Sectors : \A y \in 1 .. SectorSize : a[q][y] \in Bytes
    BY DEF Area, SectorData
  <2> QED BY <2>7, <2>5, <2>6 DEF Located
<1>4. PICK s : s = FileText(a, t, d[i])
  OBVIOUS
<1>5. s = [p \in 1 .. z |-> Byte(a, t, d[i].start, p)]
  BY <1>1, <1>4 DEF FileText
<1>6. s \in [1 .. z -> Bytes]
  BY <1>3, <1>5
<1>7. s \in Seq(Bytes) /\ Len(s) = z
  BY <1>2, <1>6, AsLong
<1>8. s # Absent
  BY <1>7, FilesAssumption
<1> QED BY <1>1, <1>2, <1>4, <1>5, <1>7, <1>8

\* The contents as the abstract specification has them.
Stored == [n \in Names |-> Contents(n)]

LEMMA StoredIs ==
  /\ Stored = [n \in Names |-> Text(data, fatDisk, dir, n)]
  /\ Stored' = [n \in Names |-> Text(data', fatDisk', dir', n)]
BY ContentsAre DEF Stored

LEMMA SameStored ==
  ASSUME UNCHANGED disk
  PROVE  Stored' = Stored
BY StoredIs DEF disk

\* A write at offset 0.
Filled(len, x) == [p \in 1 .. len |-> x]
Wanted(s, m, len, x) == [p \in 1 .. Grown(m, len) |-> IF p <= len THEN x ELSE s[p]]

LEMMA OverwrittenIs ==
  ASSUME NEW m \in Nat, NEW len \in Nat, NEW x, NEW s, Len(s) = m
  PROVE  Store!Overwritten(s, 0, Filled(len, x)) = Wanted(s, m, len, x)
<1>1. PICK d : d = Filled(len, x)
  OBVIOUS
<1>2. Len(d) = len /\ \A p \in 1 .. len : d[p] = x
  <2>1. d \in [1 .. len -> {x}]
    BY <1>1 DEF Filled
  <2> QED BY <1>1, <2>1, AsLong DEF Filled
<1>3. Store!Longer(m, 0 + Len(d)) = Grown(m, len)
  BY <1>2 DEF Store!Longer, Grown
<1>4. Grown(m, len) \in Nat
  BY DEF Grown
<1>5. \A p \in 1 .. Grown(m, len) : (IF p \in 0 + 1 .. 0 + Len(d) THEN d[p - 0] ELSE s[p]) = IF p <= len THEN x ELSE s[p]
  <2> TAKE p \in 1 .. Grown(m, len)
  <2>1. p - 0 = p /\ (p \in 0 + 1 .. 0 + Len(d) <=> p \in 1 .. len) /\ (p \in 1 .. len <=> p <= len)
    BY <1>2, <1>4
  <2> QED BY <1>2, <2>1
<1>6. Store!Overwritten(s, 0, d) = [p \in 1 .. Grown(m, len) |-> IF p \in 0 + 1 .. 0 + Len(d) THEN d[p - 0] ELSE s[p]]
  BY <1>3 DEF Store!Overwritten
<1> QED BY <1>1, <1>5, <1>6 DEF Wanted

LEMMA Mixed ==
  ASSUME NEW m \in Nat, NEW len \in Nat, NEW x, NEW s, NEW t, Len(s) = m, Len(t) = m,
         \A p \in 1 .. m : t[p] = s[p] \/ (p <= len /\ t[p] = x)
  PROVE  Store!Between(t, s, Store!Overwritten(s, 0, Filled(len, x)))
<1>1. PICK new : new = Store!Overwritten(s, 0, Filled(len, x))
  OBVIOUS
<1>2. new = [p \in 1 .. Grown(m, len) |-> IF p <= len THEN x ELSE s[p]]
  BY <1>1, OverwrittenIs DEF Wanted
<1>3. \A p \in 1 .. m : p \in 1 .. Grown(m, len)
  BY DEF Grown
<1>4. \A p \in 1 .. m : t[p] = new[p] \/ (p <= m /\ t[p] = s[p])
  BY <1>2, <1>3
<1> QED BY <1>1, <1>4 DEF Store!Between

\* One of the sectors of a write: the bytes that it holds are new, and those
\* of the others, and of other files, are the same.
LEMMA ByteWritten ==
  ASSUME FilesInv, Alike(fat, fatDisk, dir), NEW i, NEW len, NEW x, Stores(i, len, x), NEW j \in Needed(len),
         NEW q, q = At(fat, dir[i].start, j), NEW a, Wrote(a, q, New(data, q, len, x, j)),
         NEW g \in UsedIn(dir), NEW p \in 1 .. dir[g].size
  PROVE  \/ Byte(a, fatDisk, dir[g].start, p) = Byte(data, fatDisk, dir[g].start, p)
         \/ g = i /\ p <= len /\ Byte(a, fatDisk, dir[g].start, p) = x
<1>1. dir[g].size \in Nat /\ p \in Nat \ {0} /\ p <= dir[g].size
  <2>1. dir \in Dirs
    BY DEF FilesInv, DiskInv, Volume
  <2>2. dir[g].size \in Nat
    BY <2>1 DEF UsedIn, Dirs, Entries
  <2> QED BY <2>2
<1>2. PICK k \in Nat \ {0} : \E o \in 1 .. SectorSize : Located(p, k, o)
  BY <1>1, ByteIs
<1>3. PICK o \in 1 .. SectorSize : Located(p, k, o)
  BY <1>2
<1>4. k \in Needed(dir[g].size)
  BY <1>1, <1>3 DEF Located
<1>5. PICK h : h = At(fat, dir[g].start, k) /\ h = At(fatDisk, dir[g].start, k) /\ h \in Sectors
  BY <1>4, Writable DEF Alike, At
<1>6. Byte(a, fatDisk, dir[g].start, p) = a[h][o] /\ Byte(data, fatDisk, dir[g].start, p) = data[h][o]
  BY <1>3, <1>5 DEF Located
<1>7. CASE h # q
  BY <1>5, <1>6, <1>7 DEF Wrote
<1>8. CASE h = q
  <2>1. g = i /\ k = j
    <3>1. \A y \in UsedIn(dir) : \A z \in Needed(dir[y].size) : At(fat, dir[y].start, z) = At(fat, dir[i].start, j) => y = i /\ z = j
      BY Writable
    <3> QED BY <1>4, <1>5, <1>8, <3>1
  <2>2. PICK v : v = New(data, q, len, x, j)
    OBVIOUS
  <2>3. v[o] = IF p <= len THEN x ELSE data[h][o]
    BY <1>3, <1>8, <2>1, <2>2 DEF New, Located
  <2>4. a[h] = v
    BY <1>8, <2>2 DEF Wrote
  <2> QED BY <1>6, <2>1, <2>3, <2>4
<1> QED BY <1>7, <1>8

\* The directory of the disk, and the lists of clusters of its files.
LEMMA OnDisk ==
  ASSUME FilesInv
  PROVE  /\ dir \in Dirs /\ Unique(dir) /\ data \in Area
         /\ \E ch \in Chains(dir) : Chained(fatDisk, dir, ch)
BY DEF FilesInv, DiskInv, Volume, Held

\* Contents of a file that has an entry.
LEMMA StoredText ==
  ASSUME FilesInv, NEW i \in UsedIn(dir)
  PROVE  /\ dir[i].name \in Names /\ dir[i].size \in Nat
         /\ Stored[dir[i].name] = FileText(data, fatDisk, dir[i])
         /\ Stored[dir[i].name] \in Seq(Bytes) /\ Len(Stored[dir[i].name]) = dir[i].size
         /\ \A p \in 1 .. dir[i].size : Stored[dir[i].name][p] = Byte(data, fatDisk, dir[i].start, p)
         /\ Stored[dir[i].name] # Absent
<1>1. PICK ch \in Chains(dir) : Chained(fatDisk, dir, ch)
  BY OnDisk
<1>2. dir \in Dirs /\ Unique(dir) /\ data \in Area
  BY OnDisk
<1>3. PICK n : n = dir[i].name /\ n \in Names
  BY <1>1, <1>2, TextBytes
<1>4. Stored[n] = Text(data, fatDisk, dir, n)
  BY <1>3, StoredIs
<1>5. Text(data, fatDisk, dir, n) = FileText(data, fatDisk, dir[i])
  BY <1>2, <1>3, TextIs
<1>6. PICK s : s = FileText(data, fatDisk, dir[i])
  OBVIOUS
<1>7. /\ dir[i].size \in Nat /\ s \in Seq(Bytes) /\ Len(s) = dir[i].size
      /\ \A p \in 1 .. dir[i].size : s[p] = Byte(data, fatDisk, dir[i].start, p)
      /\ s # Absent
  BY <1>1, <1>2, <1>6, TextBytes, ZenonT(30)
<1>8. Stored[dir[i].name] = s
  BY <1>3, <1>4, <1>5, <1>6
<1> QED BY <1>3, <1>6, <1>7, <1>8

\* A sector of the table: it leads to the same bytes.
LEMMA TableStep ==
  ASSUME FilesInv, StoreInv, NEW n, NEW w, Onward(w, n), w.to = "fat", Quiet
  PROVE  Store!Next
<1>1. n \in Nat \ {0} /\ n = Len(todo) /\ w = todo[1] /\ 1 \in 1 .. n /\ data' = data /\ dir' = dir /\ fatDisk' = w.value
  BY DEF Onward
<1>2. todo[n].to = "dir" /\ Alike(w.value, fatDisk, dir)
  BY <1>1 DEF StoreInv
<1>3. n # 1 /\ call' = call
  BY <1>1, <1>2 DEF Onward
<1>4. ASSUME NEW f \in Names PROVE Text(data', fatDisk', dir', f) = Text(data, fatDisk, dir, f)
  <2>1. f # Absent
    BY Numbers
  <2> QED BY <1>1, <1>2, <2>1, OnDisk, SameText
<1>5. Stored' = Stored
  BY <1>4, StoredIs
<1> QED BY <1>3, <1>5 DEF Store!Next, Stored, Quiet, Nothing

\* A sector of data is one of the file that is being written.
LEMMA DataStep ==
  ASSUME FilesInv, StoreInv, NEW n, NEW w, Onward(w, n), w.to = "data", Quiet
  PROVE  Store!Next
<1>1. /\ n \in Nat \ {0} /\ n = Len(todo) /\ w = todo[1] /\ 1 \in 1 .. n /\ dir' = dir /\ fatDisk' = fatDisk
      /\ data' = [data EXCEPT ![w.at] = w.value]
  BY DEF Onward
<1>2. todo[n].to = "dir" /\ Alike(fat, fatDisk, dir)
  BY <1>1 DEF StoreInv
<1>3. n # 1 /\ call' = call
  BY <1>1, <1>2 DEF Onward
<1>4. PICK i, len, x : Stores(i, len, x)
  BY <1>1 DEF StoreInv, Creates
<1>5. i \in UsedIn(dir) /\ len \in Nat /\ x \in Bytes
  BY <1>4 DEF Stores
<1>6. PICK j \in Needed(len) : w = Sent(data, At(fat, dir[i].start, j), len, x, j)
  BY <1>1, <1>4 DEF Stores, Remains
<1>7. PICK q, a : q = At(fat, dir[i].start, j) /\ a = data' /\ q \in Sectors
  BY <1>4, Writable
<1>8. Wrote(a, q, New(data, q, len, x, j))
  <2>1. PICK v : v = New(data, q, len, x, j)
    OBVIOUS
  <2>2. w.at = q /\ w.value = v
    BY <1>6, <1>7, <2>1 DEF Sent, DataSector
  <2>3. a = [data EXCEPT ![q] = v] /\ data \in Area
    BY <1>1, <1>7, <2>2, OnDisk
  <2> QED BY <1>7, <2>1, <2>3 DEF Wrote, Area
<1>9. ASSUME NEW g \in UsedIn(dir), NEW p \in 1 .. dir[g].size
      PROVE  \/ Byte(a, fatDisk, dir[g].start, p) = Byte(data, fatDisk, dir[g].start, p)
             \/ g = i /\ p <= len /\ Byte(a, fatDisk, dir[g].start, p) = x
  BY <1>2, <1>4, <1>7, <1>8, ByteWritten
<1>10. PICK m, old, new, f : m = dir[i].size /\ f = dir[i].name /\ old = Stored[f] /\ new = Stored'[f]
  OBVIOUS
<1>11. /\ m \in Nat /\ f \in Names /\ Len(old) = m
       /\ \A p \in 1 .. m : old[p] = Byte(data, fatDisk, dir[i].start, p)
  BY <1>5, <1>10, StoredText
<1>12. new = [p \in 1 .. m |-> Byte(a, fatDisk, dir[i].start, p)]
  <2>1. new = Text(a, fatDisk, dir, f)
    BY <1>1, <1>7, <1>10, <1>11, StoredIs
  <2>2. Text(a, fatDisk, dir, f) = FileText(a, fatDisk, dir[i])
    BY <1>5, <1>10, OnDisk, TextIs
  <2> QED BY <1>10, <2>1, <2>2 DEF FileText
<1>13. Len(new) = m
  <2>1. new \in [1 .. m -> {Byte(a, fatDisk, dir[i].start, p) : p \in 1 .. m}]
    BY <1>12
  <2> QED BY <1>11, <2>1, AsLong
<1>14. \A p \in 1 .. m : new[p] = old[p] \/ (p <= len /\ new[p] = x)
  BY <1>5, <1>9, <1>10, <1>11, <1>12
<1>15. Store!Between(new, old, Store!Overwritten(old, 0, Filled(len, x)))
  BY <1>5, <1>11, <1>13, <1>14, Mixed
<1>16. ASSUME NEW h \in Names \ {f} PROVE Stored'[h] = Stored[h]
  <2>1. h \in Names /\ h # Absent /\ h # f
    BY Numbers
  <2>2. Stored[h] = Text(data, fatDisk, dir, h) /\ Stored'[h] = Text(a, fatDisk, dir, h)
    BY <1>1, <1>7, <2>1, StoredIs
  <2>3. CASE Slots(dir, h) = {}
    BY <2>2, <2>3, TextIsNone
  <2>4. CASE \E g \in UsedIn(dir) : dir[g].name = h
    <3>1. PICK g \in UsedIn(dir) : dir[g].name = h
      BY <2>4
    <3>2. g # i
      BY <1>10, <2>1, <3>1
    <3>3. \A p \in 1 .. dir[g].size : Byte(a, fatDisk, dir[g].start, p) = Byte(data, fatDisk, dir[g].start, p)
      BY <1>9, <3>2
    <3>4. Text(data, fatDisk, dir, h) = FileText(data, fatDisk, dir[g]) /\ Text(a, fatDisk, dir, h) = FileText(a, fatDisk, dir[g])
      BY <3>1, OnDisk, TextIs
    <3> QED BY <2>2, <3>3, <3>4 DEF FileText
  <2> QED BY <2>1, <2>3, <2>4, Named
<1>17. PICK u : u = [name |-> f, at |-> 0, data |-> Filled(len, x)] /\ call = {u}
  BY <1>4, <1>10 DEF Stores, Filled
<1>18. u.name = f /\ u.at = 0 /\ u.data = Filled(len, x)
  BY <1>17
<1>19. Store!Progress(u)
  <2>1. Store!OthersUnchanged(f)
    BY <1>16 DEF Store!OthersUnchanged, Stored
  <2>2. Store!Between(Stored'[f], Stored[f], Store!Overwritten(Stored[f], 0, Filled(len, x)))
    BY <1>10, <1>15
  <2> QED BY <1>3, <1>18, <2>1, <2>2 DEF Store!Progress, Stored
<1> QED BY <1>17, <1>19 DEF Store!Next, Quiet, Nothing

\* Two directories with the same entry of a name, or with none.
Kept(d, e, h) ==
  /\ \A g \in UsedIn(d) : d[g].name = h => g \in UsedIn(e) /\ e[g] = d[g]
  /\ \A g \in UsedIn(e) : e[g].name = h => g \in UsedIn(d) /\ d[g].name = h

LEMMA OtherText ==
  ASSUME NEW a, NEW t, NEW d, NEW e, Unique(d), Unique(e), NEW h, h # Absent, Kept(d, e, h)
  PROVE  Text(a, t, e, h) = Text(a, t, d, h)
<1>1. CASE \E g \in UsedIn(d) : d[g].name = h
  <2>1. PICK g \in UsedIn(d) : d[g].name = h /\ g \in UsedIn(e) /\ e[g] = d[g]
    BY <1>1 DEF Kept
  <2>2. Text(a, t, d, h) = FileText(a, t, d[g])
    BY <2>1, TextIs
  <2>3. g \in UsedIn(e) /\ e[g].name = h
    BY <2>1
  <2>4. Text(a, t, e, h) = FileText(a, t, e[g])
    BY <2>3, TextIs
  <2> QED BY <2>1, <2>2, <2>4
<1>2. CASE ~\E g \in UsedIn(d) : d[g].name = h
  <2>1. ~\E g \in UsedIn(e) : e[g].name = h
    BY <1>2 DEF Kept
  <2>2. Slots(d, h) = {} /\ Slots(e, h) = {}
    BY <1>2, <2>1, Named
  <2> QED BY <2>2, TextIsNone
<1> QED BY <1>1, <1>2

LEMMA NoBytes ==
  ASSUME NEW a, NEW t, NEW e, e.size = 0
  PROVE  FileText(a, t, e) = << >>
<1>1. PICK s : s = FileText(a, t, e)
  OBVIOUS
<1>2. s = [p \in 1 .. 0 |-> Byte(a, t, e.start, p)]
  BY <1>1 DEF FileText
<1>3. s \in [1 .. 0 -> {}]
  BY <1>2
<1>4. s \in Seq({}) /\ Len(s) = 0
  BY <1>3, AsLong
<1> QED BY <1>1, <1>4, EmptySeq

LEMMA DirFacts ==
  ASSUME FilesInv, NEW n, NEW w, Onward(w, n), w.to = "dir"
  PROVE  /\ n = 1 /\ n = Len(todo) /\ w = todo[n] /\ dir' = Coming /\ data' = data /\ fatDisk' = fatDisk /\ fatDisk = fat /\ call' = {}
         /\ Coming \in Dirs /\ Unique(Coming)
<1>1. n = 1 /\ n = Len(todo) /\ w = todo[n] /\ dir' = w.value /\ data' = data /\ fatDisk' = fatDisk /\ call' = {}
  BY DEF Onward
<1>2. Coming = w.value
  BY <1>1 DEF Coming
<1>3. \A m \in 1 .. Len(todo) : todo[m].to # "fat"
  <2>1. \A m \in 1 .. 1 : m = 1
    OBVIOUS
  <2>2. todo[1].to = "dir" /\ Len(todo) = 1
    BY <1>1
  <2> QED BY <2>1, <2>2
<1>4. fatDisk = fat
  BY <1>3 DEF FilesInv, DiskInv, Pending, Latest
<1>5. Coming \in Dirs /\ Unique(Coming)
  BY DEF FilesInv, DiskInv, Volume
<1> QED BY <1>1, <1>2, <1>4, <1>5

\* The entry of a new file.
LEMMA EntryCreates ==
  ASSUME FilesInv, NEW n, NEW w, Onward(w, n), w.to = "dir", Quiet, NEW k, NEW e, Creates(k, e)
  PROVE  Store!Next
<1>1. PICK d : d = Coming /\ d \in Dirs /\ Unique(d)
  BY DirFacts
<1>2. dir' = d /\ data' = data /\ fatDisk' = fatDisk /\ call' = {}
  BY <1>1, DirFacts
<1>3. PICK f : f = e.name
  OBVIOUS
<1>4. f \in Names /\ f # Absent /\ call = {} /\ e.size = 0 /\ Slots(dir, f) = {}
  BY <1>3, Numbers DEF Creates
<1>5. UsedIn(d) = UsedIn(dir) \cup {k} /\ k \notin UsedIn(dir) /\ d[k] = e /\ \A g \in UsedIn(dir) : d[g] = dir[g]
  BY <1>1 DEF Creates, Taken
<1>6. Stored[f] = Absent
  BY <1>4, StoredIs, TextIsNone
<1>7. Text(data, fatDisk, d, f) = << >>
  <2>1. k \in UsedIn(d) /\ d[k].name = f /\ d[k] = e
    BY <1>3, <1>5
  <2>2. Text(data, fatDisk, d, f) = FileText(data, fatDisk, e)
    BY <1>1, <2>1, TextIs
  <2> QED BY <1>4, <2>2, NoBytes
<1>8. ASSUME NEW h \in Names, h # f PROVE Text(data, fatDisk, d, h) = Text(data, fatDisk, dir, h)
  <2>1. h # Absent
    BY Numbers
  <2>2. \A g \in UsedIn(dir) : dir[g].name = h => g \in UsedIn(d) /\ d[g] = dir[g]
    BY <1>5
  <2>3. \A g \in UsedIn(d) : d[g].name = h => g \in UsedIn(dir) /\ dir[g].name = h
    BY <1>3, <1>5, <1>8
  <2>4. Kept(dir, d, h)
    BY <2>2, <2>3 DEF Kept
  <2> QED BY <1>1, <2>1, <2>4, OnDisk, OtherText
<1>9. Stored' = [Stored EXCEPT ![f] = << >>]
  <2>1. Stored' = [h \in Names |-> Text(data, fatDisk, d, h)]
    BY <1>2, StoredIs
  <2>2. Stored = [h \in Names |-> Text(data, fatDisk, dir, h)]
    BY StoredIs
  <2> QED BY <1>7, <1>8, <2>1, <2>2
<1>10. Store!Create(f)
  BY <1>2, <1>4, <1>6, <1>9 DEF Store!Create, Stored
<1> QED BY <1>4, <1>10 DEF Store!Next, Quiet, Nothing

\* The entry of a file that was written: all its new bytes are on the disk.
LEMMA EntryEnds ==
  ASSUME FilesInv, NEW n, NEW w, Onward(w, n), w.to = "dir", Quiet, NEW i, NEW len, NEW x, Stores(i, len, x)
  PROVE  Store!Next
<1>1. PICK d : d = Coming /\ d \in Dirs /\ Unique(d)
  BY DirFacts
<1>2. dir' = d /\ data' = data /\ fatDisk' = fatDisk /\ call' = {} /\ fatDisk = fat
  BY <1>1, DirFacts
<1>3. PICK f, c, m, z : f = dir[i].name /\ c = dir[i].start /\ m = dir[i].size /\ z = Grown(m, len)
  OBVIOUS
<1>4. i \in UsedIn(dir) /\ len \in Nat /\ x \in Bytes
  BY DEF Stores
<1>5. /\ i \in UsedIn(d) /\ d[i].name = f /\ d[i].start = c /\ d[i].size = z
      /\ UsedIn(d) = UsedIn(dir) /\ \A g \in UsedIn(dir) \ {i} : d[g] = dir[g]
  BY <1>1, <1>3 DEF Stores, Resized
<1>6. PICK old : /\ old = Stored[f] /\ f \in Names /\ m \in Nat /\ Len(old) = m
                 /\ \A p \in 1 .. m : old[p] = Byte(data, fatDisk, c, p)
  BY <1>3, <1>4, StoredText
<1>7. z \in Nat
  BY <1>3, <1>4, <1>6 DEF Grown
<1>8. ASSUME NEW p \in 1 .. z, p <= len PROVE Byte(data, fatDisk, c, p) = x
  <2>1. p \in Nat \ {0}
    BY <1>7
  <2>2. PICK j \in Nat \ {0} : \E o \in 1 .. SectorSize : Located(p, j, o)
    BY <2>1, ByteIs
  <2>3. PICK o \in 1 .. SectorSize : Located(p, j, o)
    BY <2>2
  <2>4. j \in Needed(len)
    BY <1>4, <1>8, <2>3 DEF Located
  <2>5. PICK q : q = At(fat, c, j) /\ q \in Sectors
    BY <1>3, <2>4, Writable
  <2>6. data[q] = New(data, q, len, x, j)
    <3>1. \A y \in 1 .. Len(todo) : todo[y].to = "dir"
      BY DirFacts
    <3>2. \A y \in 1 .. Len(todo) : todo[y] # Sent(data, At(fat, c, j), len, x, j)
      BY <3>1, SectorKinds DEF Sent
    <3> QED BY <1>3, <2>4, <2>5, <3>2 DEF Stores, Remains
  <2>7. PICK v : v = New(data, q, len, x, j)
    OBVIOUS
  <2>8. v[o] = x
    BY <1>8, <2>3, <2>7 DEF New, Located
  <2> QED BY <1>2, <2>3, <2>5, <2>6, <2>7, <2>8 DEF Located
<1>9. Text(data, fatDisk, d, f) = Wanted(old, m, len, x)
  <2>1. Text(data, fatDisk, d, f) = FileText(data, fatDisk, d[i])
    BY <1>1, <1>5, TextIs
  <2>2. FileText(data, fatDisk, d[i]) = [p \in 1 .. z |-> Byte(data, fatDisk, c, p)]
    BY <1>5 DEF FileText
  <2>3. \A p \in 1 .. z : Byte(data, fatDisk, c, p) = IF p <= len THEN x ELSE old[p]
    <3> TAKE p \in 1 .. z
    <3>1. CASE p <= len
      BY <1>8, <3>1
    <3>2. CASE ~(p <= len)
      <4>1. p \in 1 .. m
        BY <1>3, <1>4, <1>6, <1>7, <3>2 DEF Grown
      <4> QED BY <1>6, <3>2, <4>1
    <3> QED BY <3>1, <3>2
  <2> QED BY <1>3, <2>1, <2>2, <2>3 DEF Wanted
<1>10. Store!Overwritten(old, 0, Filled(len, x)) = Wanted(old, m, len, x)
  BY <1>4, <1>6, OverwrittenIs
<1>11. ASSUME NEW h \in Names, h # f PROVE Text(data, fatDisk, d, h) = Text(data, fatDisk, dir, h)
  <2>1. h # Absent
    BY Numbers
  <2>2. \A g \in UsedIn(dir) : dir[g].name = h => g \in UsedIn(d) /\ d[g] = dir[g]
    BY <1>3, <1>5, <1>11
  <2>3. \A g \in UsedIn(d) : d[g].name = h => g \in UsedIn(dir) /\ dir[g].name = h
    BY <1>3, <1>5, <1>11
  <2>4. Kept(dir, d, h)
    BY <2>2, <2>3 DEF Kept
  <2> QED BY <1>1, <2>1, <2>4, OnDisk, OtherText
<1>12. PICK u : u = [name |-> f, at |-> 0, data |-> Filled(len, x)] /\ call = {u}
  BY <1>3 DEF Stores, Filled
<1>13. u.name = f /\ u.at = 0 /\ u.data = Filled(len, x)
  BY <1>12
<1>14. Stored' = [Stored EXCEPT ![f] = Store!Overwritten(@, 0, Filled(len, x))]
  <2>1. Stored' = [h \in Names |-> Text(data, fatDisk, d, h)]
    BY <1>2, StoredIs
  <2>2. Stored = [h \in Names |-> Text(data, fatDisk, dir, h)]
    BY StoredIs
  <2>3. PICK new : new = Store!Overwritten(old, 0, Filled(len, x)) /\ new = Text(data, fatDisk, d, f)
    BY <1>9, <1>10
  <2>4. Stored' = [Stored EXCEPT ![f] = new]
    BY <1>11, <2>1, <2>2, <2>3
  <2> QED BY <1>6, <2>3, <2>4
<1>15. Store!End(u)
  BY <1>2, <1>13, <1>14 DEF Store!End, Stored
<1> QED BY <1>12, <1>15 DEF Store!Next, Quiet, Nothing

LEMMA SectorStep ==
  ASSUME FilesInv, StoreInv, WriteSector
  PROVE  Store!Next
<1>1. PICK n, w : Onward(w, n)
  BY NextSector
<1>2. w.to \in {"data", "fat", "dir"} /\ Len(todo) # 0 /\ Quiet
  BY <1>1 DEF Onward, WriteSector
<1>3. (\E k, e : Creates(k, e)) \/ (\E i, len, x : Stores(i, len, x))
  BY <1>2 DEF StoreInv
<1> QED BY <1>1, <1>2, <1>3, TableStep, DataStep, EntryCreates, EntryEnds

-----------------------------------------------------------------------------
(***************************************************************************)
(* What a read returns is put together from whole sectors, h[i] from the   *)
(* first i of them.                                                        *)
(***************************************************************************)
Joins(h, q, m) == h = [i \in 1 .. m |-> IF i = 1 THEN q[i] ELSE h[i - 1] \o q[i]]

LEMMA JoinsExist ==
  ASSUME NEW q, NEW n \in Nat
  PROVE  \E h : Joins(h, q, n)
<1> DEFINE W == {m \in 0 .. n : ~\E h : Joins(h, q, m)}
<1> SUFFICES ASSUME W # {} PROVE FALSE
  OBVIOUS
<1>1. PICK m \in W : \A y \in W : m <= y
  <2>1. W \in SUBSET (0 .. n)
    OBVIOUS
  <2> HIDE DEF W
  <2> QED BY <2>1, LeastElement
<1>2. CASE m = 0
  <2>1. PICK h : h = [i \in 1 .. 0 |-> q]
    OBVIOUS
  <2>2. Joins(h, q, 0)
    BY <2>1 DEF Joins
  <2> QED BY <1>1, <1>2, <2>2
<1>3. CASE m # 0
  <2>1. m - 1 \in 0 .. n /\ m - 1 \notin W /\ m \in Nat /\ m >= 1
    BY <1>1, <1>3
  <2>2. PICK g : Joins(g, q, m - 1)
    BY <2>1
  <2>3. PICK h : h = [i \in 1 .. m |-> IF i = m THEN IF m = 1 THEN q[m] ELSE g[m - 1] \o q[m] ELSE g[i]]
    OBVIOUS
  <2>4. ASSUME NEW i \in 1 .. m PROVE h[i] = IF i = 1 THEN q[i] ELSE h[i - 1] \o q[i]
    <3>1. i # 1 => i - 1 \in 1 .. m /\ i - 1 # m
      BY <2>1
    <3>2. i # 1 => h[i - 1] = g[i - 1]
      BY <2>3, <3>1
    <3>3. CASE i = m
      BY <2>3, <3>2, <3>3
    <3>4. CASE i # m
      <4>1. i \in 1 .. m - 1 /\ h[i] = g[i]
        BY <2>1, <2>3, <3>4
      <4>2. g[i] = IF i = 1 THEN q[i] ELSE g[i - 1] \o q[i]
        BY <2>2, <4>1 DEF Joins
      <4> QED BY <3>2, <4>1, <4>2
    <3> QED BY <3>3, <3>4
  <2>5. h = [i \in 1 .. m |-> h[i]]
    BY <2>3
  <2>6. Joins(h, q, m)
    BY <2>4, <2>5 DEF Joins
  <2> QED BY <1>1, <2>6
<1> QED BY <1>2, <1>3

\* s is i sequences of length b, one after the other.
Flat(s, S, b, q, i) ==
  /\ s \in Seq(S) /\ Len(s) = b * i
  /\ \A j \in 1 .. i : \A o \in 1 .. b : s[b * (j - 1) + o] = q[j][o]

LEMMA JoinedFlat ==
  ASSUME NEW S, NEW b \in Nat \ {0}, NEW i \in Nat, NEW q, NEW s, Flat(s, S, b, q, i),
         NEW t \in [1 .. b -> S], t = q[i + 1]
  PROVE  Flat(s \o t, S, b, q, i + 1)
<1>1. PICK c : c = b * i /\ c \in Nat
  OBVIOUS
<1>2. PICK u : u = s \o t
  OBVIOUS
<1>3. t \in Seq(S) /\ Len(t) = b
  BY AsLong
<1>4. s \in Seq(S) /\ Len(s) = c
  BY <1>1 DEF Flat
<1>5. /\ u \in Seq(S) /\ Len(u) = c + b
      /\ \A k \in 1 .. c + b : u[k] = IF k <= c THEN s[k] ELSE t[k - c]
  <2>1. /\ s \o t \in Seq(S) /\ Len(s \o t) = Len(s) + Len(t)
        /\ \A k \in 1 .. Len(s) + Len(t) : (s \o t)[k] = IF k <= Len(s) THEN s[k] ELSE t[k - Len(s)]
    BY <1>3, <1>4, ConcatProperties, ZenonT(30)
  <2> QED BY <1>2, <1>3, <1>4, <2>1
<1>6. b * (i + 1) = c + b
  BY <1>1
<1>7. ASSUME NEW j \in 1 .. i + 1, NEW o \in 1 .. b PROVE u[b * (j - 1) + o] = q[j][o]
  <2>1. PICK y \in Nat : y = j - 1
    OBVIOUS
  <2>2. PICK e : e = b * y /\ e \in Nat
    OBVIOUS
  <2>3. CASE j = i + 1
    <3>1. e = c /\ e + o \in 1 .. c + b /\ ~(e + o <= c) /\ e + o - c = o
      BY <1>1, <2>1, <2>2, <2>3
    <3> QED BY <1>5, <2>1, <2>2, <2>3, <3>1
  <2>4. CASE j # i + 1
    <3>1. j \in 1 .. i /\ y < i
      BY <2>1, <2>4
    <3>2. e + b <= c
      BY <1>1, <2>2, <3>1, Scaled
    <3>3. e + o \in 1 .. c + b /\ e + o <= c
      BY <1>1, <2>2, <3>2
    <3>4. s[e + o] = q[j][o]
      BY <2>1, <2>2, <3>1 DEF Flat
    <3> QED BY <1>5, <2>1, <2>2, <3>3, <3>4
  <2> QED BY <2>3, <2>4
<1> QED BY <1>2, <1>5, <1>6, <1>7 DEF Flat

LEMMA FlattenIs ==
  ASSUME NEW S, NEW b \in Nat \ {0}, NEW n \in Nat, NEW q \in [1 .. n -> [1 .. b -> S]]
  PROVE  Flat(FlattenSeq(q), S, b, q, n)
<1>1. Len(q) = n
  BY AsLong
<1>2. CASE n = 0
  <2>1. FlattenSeq(q) = q
    BY <1>1, <1>2 DEF FlattenSeq
  <2>2. q \in [1 .. 0 -> S]
    BY <1>2
  <2>3. q \in Seq(S) /\ Len(q) = 0 /\ b * 0 = 0 /\ 1 .. 0 = {}
    BY <2>2, AsLong
  <2> QED BY <1>2, <2>1, <2>3 DEF Flat
<1>3. CASE n # 0
  <2>1. PICK h : h = CHOOSE g : Joins(g, q, Len(q))
    OBVIOUS
  <2>2. Joins(h, q, n)
    <3>1. \E g : Joins(g, q, n)
      BY JoinsExist
    <3> QED BY <1>1, <2>1, <3>1
  <2>3. FlattenSeq(q) = h[n]
    BY <1>1, <1>3, <2>1 DEF FlattenSeq, Joins
  <2>4. \A i \in 1 .. n : h[i] = IF i = 1 THEN q[i] ELSE h[i - 1] \o q[i]
    BY <2>2 DEF Joins
  <2> DEFINE W == {i \in 1 .. n : ~Flat(h[i], S, b, q, i)}
  <2>5. SUFFICES ASSUME W # {} PROVE FALSE
    <3>1. n \in 1 .. n
      BY <1>3
    <3> QED BY <2>3, <3>1
  <2>6. PICK m \in W : \A y \in W : m <= y
    <3>1. W \in SUBSET (0 .. n)
      OBVIOUS
    <3> HIDE DEF W
    <3> QED BY <2>5, <3>1, LeastElement
  <2>7. m \in 1 .. n /\ ~Flat(h[m], S, b, q, m)
    BY <2>6
  <2>8. CASE m = 1
    <3>1. PICK t \in [1 .. b -> S] : t = q[1] /\ t = h[1]
      BY <2>4, <2>7, <2>8
    <3>2. t \in Seq(S) /\ Len(t) = b /\ b * 1 = b /\ b * (1 - 1) = 0
      BY <3>1, AsLong
    <3>3. \A j \in 1 .. 1 : \A o \in 1 .. b : t[b * (j - 1) + o] = q[j][o]
      <4>1. \A j \in 1 .. 1 : j = 1
        OBVIOUS
      <4>2. \A o \in 1 .. b : 0 + o = o
        OBVIOUS
      <4> QED BY <3>1, <3>2, <4>1, <4>2
    <3> QED BY <2>7, <2>8, <3>1, <3>2, <3>3 DEF Flat
  <2>9. CASE m # 1
    <3>1. PICK i \in Nat : i = m - 1 /\ m = i + 1 /\ i \in 1 .. n /\ i \notin W
      <4>1. m - 1 \in Nat /\ m = m - 1 + 1 /\ m - 1 \in 1 .. n /\ m - 1 < m
        BY <2>7, <2>9
      <4> QED BY <2>6, <4>1
    <3>2. Flat(h[i], S, b, q, i)
      BY <3>1
    <3>3. PICK s, t : s = h[i] /\ t = q[i + 1] /\ t \in [1 .. b -> S]
      BY <2>7, <3>1
    <3>4. Flat(s \o t, S, b, q, i + 1)
      BY <3>2, <3>3, JoinedFlat
    <3>5. h[m] = s \o t
      BY <2>4, <2>7, <2>9, <3>1, <3>3
    <3> QED BY <2>7, <3>1, <3>4, <3>5
  <2> QED BY <2>8, <2>9
<1> QED BY <1>2, <1>3

\* Whole sectors are enough.
LEMMA RoundedUp ==
  ASSUME NEW b \in Nat \ {0}, NEW n \in Nat
  PROVE  /\ (n + b - 1) \div b \in Nat /\ n <= b * ((n + b - 1) \div b)
         /\ \A k \in Nat \ {0} : b * (k - 1) < n => k \in 1 .. (n + b - 1) \div b
<1>1. PICK q \in Int, r \in 0 .. b - 1 : q = (n + b - 1) \div b /\ n + b - 1 = b * q + r
  OBVIOUS
<1>2. q >= 0
  <2> SUFFICES ASSUME q < 0 PROVE FALSE
    OBVIOUS
  <2>1. PICK z \in Nat : q = -1 - z
    <3>1. -1 - q \in Nat /\ q = -1 - (-1 - q)
      OBVIOUS
    <3> QED BY <3>1
  <2>2. b * q = - b - b * z /\ b * z \in Nat
    BY <2>1
  <2> QED BY <1>1, <2>2
<1>3. PICK e \in Nat : e = b * q
  BY <1>2
<1>4. n <= e
  BY <1>1, <1>3
<1>5. ASSUME NEW k \in Nat \ {0}, b * (k - 1) < n PROVE k \in 1 .. q
  <2>1. PICK y \in Nat : y = k - 1
    OBVIOUS
  <2>2. PICK g \in Nat : g = b * y
    OBVIOUS
  <2>3. g < e
    BY <1>4, <1>5, <2>1, <2>2
  <2>4. y < q
    BY <1>2, <1>3, <2>2, <2>3, Scaled
  <2> QED BY <1>2, <2>1, <2>4
<1> QED BY <1>1, <1>2, <1>3, <1>4, <1>5

LEMMA QuietStep ==
  ASSUME Quiet, UNCHANGED disk, call' \in {call, {}}
  PROVE  Store!Next
<1>1. Stored' = Stored
  BY SameStored
<1> QED BY <1>1 DEF Store!Next, Store!Reset, Stored, Quiet, Nothing

\* A read at offset 0 returns the bytes of the file from its first one on.
LEMMA ReadStep ==
  ASSUME Disciplined, FilesInv, StoreInv, NEW d \in Fds, NEW len \in Lens, Read(d, len)
  PROVE  Store!Next
<1>1. PICK f : f = fds[d]
  OBVIOUS
<1>2. PICK n : n = IF len > f.file.size THEN f.file.size ELSE len
  OBVIOUS
<1>3. PICK turns : turns = (n + SectorSize - 1) \div SectorSize
  OBVIOUS
<1>4. PICK sectors : sectors = [k \in 1 .. turns |-> SectorOf(Nth(fat, f.file.start, k))]
  OBVIOUS
<1>5. /\ Coming = dir /\ fatDisk = fat /\ f.opened /\ f.cfo = 0 /\ Len(todo) = 0 /\ len \in Nat
  BY <1>1, WhenReady, FilesAssumption DEF Read, MayUse, FilesInv
<1>6. PICK i \in UsedIn(dir) : f.file = dir[i]
  BY <1>1, <1>5 DEF FilesInv, Descriptors
<1>7. call = {}
  BY <1>5 DEF StoreInv
<1>8. CASE \E k \in 1 .. turns : sectors[k] \notin Sectors
  <2>1. Break
    BY <1>1, <1>2, <1>3, <1>4, <1>8 DEF Read
  <2> QED BY <2>1, QuietStep DEF Break
<1>9. CASE ~\E k \in 1 .. turns : sectors[k] \notin Sectors
  <2>1. PICK q, r : q = [k \in 1 .. turns |-> data[sectors[k]]] /\ r = reply'
    OBVIOUS
  <2>2. /\ r = [name |-> f.file.name, at |-> f.cfo, asked |-> len, data |-> FlattenSeq(q)]
        /\ UNCHANGED <<disk, call>>
    BY <1>1, <1>2, <1>3, <1>4, <1>9, <2>1 DEF Read
  <2>3. PICK m, c, s : /\ m = dir[i].size /\ c = dir[i].start /\ s = Stored[dir[i].name]
                       /\ m \in Nat /\ s \in Seq(Bytes) /\ Len(s) = m /\ s # Absent /\ dir[i].name \in Names
                       /\ \A p \in 1 .. m : s[p] = Byte(data, fatDisk, c, p)
    BY StoredText
  <2>4. n = (IF 0 + len < m THEN 0 + len ELSE m) /\ n \in Nat /\ n <= m
    BY <1>2, <1>5, <1>6, <2>3
  <2>5. PICK b \in Nat \ {0} : b = SectorSize
    BY Numbers
  <2>6. turns \in Nat /\ n <= b * turns /\ \A k \in Nat \ {0} : b * (k - 1) < n => k \in 1 .. turns
    BY <1>3, <2>4, <2>5, RoundedUp
  <2>7. PICK t : t = FlattenSeq(q)
    OBVIOUS
  <2>8. Flat(t, Bytes, b, q, turns)
    <3>1. \A k \in 1 .. turns : sectors[k] \in Sectors
      BY <1>9
    <3>2. \A a \in Sectors : data[a] \in [1 .. b -> Bytes]
      BY <2>5, OnDisk DEF Area, SectorData
    <3>3. q \in [1 .. turns -> [1 .. b -> Bytes]]
      BY <2>1, <3>1, <3>2
    <3> QED BY <2>6, <2>7, <3>3, FlattenIs
  <2>9. t \in Seq(Bytes) /\ Len(t) = b * turns /\ b * turns \in Nat
    BY <2>6, <2>8 DEF Flat
  <2>10. ASSUME NEW p \in 1 .. n PROVE t[p] = s[p]
    <3>1. p \in Nat \ {0} /\ p <= n /\ p \in 1 .. m
      BY <2>3, <2>4
    <3>2. PICK k \in Nat \ {0} : \E o \in 1 .. SectorSize : Located(p, k, o)
      BY <3>1, ByteIs
    <3>3. PICK o \in 1 .. SectorSize : Located(p, k, o)
      BY <3>2
    <3>4. k \in 1 .. turns
      <4>1. k \in Needed(n)
        BY <2>4, <3>1, <3>3 DEF Located
      <4> QED BY <2>5, <2>6, <4>1 DEF Needed
    <3>5. t[p] = q[k][o]
      BY <2>5, <2>8, <3>3, <3>4 DEF Flat, Located
    <3>6. q[k] = data[At(fatDisk, c, k)] /\ At(fatDisk, c, k) \in Sectors
      BY <1>4, <1>5, <1>6, <1>9, <2>1, <2>3, <3>4 DEF At
    <3>7. s[p] = data[At(fatDisk, c, k)][o]
      BY <2>3, <3>1, <3>3, <3>6 DEF Located
    <3> QED BY <3>5, <3>6, <3>7
  <2>11. PICK x, y : x = SubSeq(t, 1, n) /\ y = SubSeq(s, 1, n)
    OBVIOUS
  <2>12. x \in Seq(Bytes) /\ Len(x) = n /\ \A p \in 1 .. n : x[p] = t[p]
    <3>1. 1 \in 1 .. Len(t) + 1 /\ n \in 1 - 1 .. Len(t)
      BY <2>4, <2>6, <2>9
    <3> QED BY <2>4, <2>9, <2>11, <3>1, SubSeqProperties
  <2>13. y \in Seq(Bytes) /\ Len(y) = n /\ \A p \in 1 .. n : y[p] = s[p]
    <3>1. 1 \in 1 .. Len(s) + 1 /\ n \in 1 - 1 .. Len(s)
      BY <2>3, <2>4
    <3> QED BY <2>3, <2>4, <2>11, <3>1, SubSeqProperties
  <2>14. x = y
    BY <2>10, <2>12, <2>13, SeqEqual
  <2>15. r.name = dir[i].name /\ r.at = 0 /\ r.asked = len /\ r.data = t
    BY <1>5, <1>6, <2>2, <2>7
  <2>16. r # << >>
    <3>1. "name" \in DOMAIN r
      BY <2>2
    <3>2. DOMAIN << >> = 1 .. 0
      OBVIOUS
    <3> QED BY <3>1, <3>2
  <2>17. Store!Available(s, r) = n
    BY <2>3, <2>4, <2>15 DEF Store!Available
  <2>18. SubSeq(r.data, 1, Len(SubSeq(s, r.at + 1, Store!Available(s, r)))) = SubSeq(s, r.at + 1, Store!Available(s, r))
    <3>1. SubSeq(s, r.at + 1, Store!Available(s, r)) = y
      <4>1. r.at + 1 = 1
        BY <2>15
      <4> QED BY <2>11, <2>17, <4>1
    <3> QED BY <2>11, <2>13, <2>14, <2>15, <3>1
  <2>19. Store!Read(r)
    <3>1. Stored' = Stored /\ call' = call
      BY <2>2, SameStored
    <3>2. Stored[r.name] = s
      BY <2>3, <2>15
    <3> QED BY <1>7, <2>3, <2>18, <3>1, <3>2 DEF Store!Read, Stored
  <2> QED BY <2>1, <2>16, <2>19 DEF Store!Next, Nothing
<1> QED BY <1>8, <1>9

\* A write begins: the disk is as it was.
LEMMA BeginStep ==
  ASSUME Disciplined, FilesInv, StoreInv, NEW j \in Fds, NEW len \in Lens, NEW x \in Bytes, Write(j, len, x)
  PROVE  Store!Next
<1>1. PICK f, w : f = fds[j] /\ w = Written(f, len, x)
  OBVIOUS
<1>2. Coming = dir /\ f.opened /\ f.cfo = 0 /\ len \in Nat /\ Len(todo) = 0
  BY <1>1, WhenReady, FilesAssumption DEF Write, MayUse, FilesInv
<1>3. PICK i \in UsedIn(dir) : f.file = dir[i]
  BY <1>1, <1>2 DEF FilesInv, Descriptors
<1>4. call = {}
  BY <1>2 DEF StoreInv
<1>5. CASE w.bad
  <2>1. Break
    BY <1>1, <1>5 DEF Write
  <2> QED BY <2>1, QuietStep DEF Break
<1>6. CASE ~w.bad
  <2>1. PICK u : u = [name |-> f.file.name, at |-> f.cfo, data |-> Filled(len, x)]
    OBVIOUS
  <2>2. call' = {u} /\ Quiet /\ UNCHANGED disk
    BY <1>1, <1>6, <2>1 DEF Write, Filled
  <2>3. u.name = dir[i].name /\ u.at = 0 /\ u.data = Filled(len, x)
    BY <1>2, <1>3, <2>1
  <2>4. u.data \in Seq(Bytes)
    <3>1. Filled(len, x) \in [1 .. len -> Bytes]
      BY DEF Filled
    <3> QED BY <1>2, <2>3, <3>1, AsLong
  <2>5. Stored[u.name] # Absent /\ u.at <= Len(Stored[u.name])
    <3>1. Len(Stored[dir[i].name]) \in Nat /\ Stored[dir[i].name] # Absent
      BY StoredText
    <3> QED BY <2>3, <3>1
  <2>6. Store!Begin(u)
    BY <1>4, <2>2, <2>4, <2>5, SameStored DEF Store!Begin, Stored
  <2> QED BY <2>2, <2>6 DEF Store!Next, Quiet, Nothing
<1> QED BY <1>5, <1>6

LEMMA StoreBegins ==
  ASSUME Init
  PROVE  StoreInv /\ Store!Init
<1>1. fat = fatDisk /\ todo = << >> /\ call = {} /\ reply = << >>
  BY DEF Init, Nothing
<1>2. Len(todo) = 0 /\ 1 .. Len(todo) = {}
  BY <1>1, EmptySeq
<1>3. StoreInv
  BY <1>1, <1>2, AlikeFacts DEF StoreInv
<1>4. ASSUME NEW n \in Names PROVE Stored[n] = Absent \/ Stored[n] \in Seq(Bytes)
  <2>1. n # Absent /\ FilesInv
    BY Numbers, InitKeeps
  <2>2. CASE Slots(dir, n) = {}
    BY <2>2, StoredIs, TextIsNone
  <2>3. CASE \E i \in UsedIn(dir) : dir[i].name = n
    BY <2>1, <2>3, StoredText
  <2> QED BY <2>1, <2>2, <2>3, Named
<1> QED BY <1>1, <1>3, <1>4 DEF Store!Init, Stored, Nothing

LEMMA StoreStep ==
  ASSUME Disciplined, FilesInv, StoreInv, [Next]_vars
  PROVE  StoreInv' /\ [Store!Next]_(Store!storeVars)
<1>1. CASE UNCHANGED vars
  <2>1. UNCHANGED <<disk, fat, todo, call>> /\ UNCHANGED <<call, reply>>
    BY <1>1 DEF vars, disk
  <2>2. Stored' = Stored
    BY <2>1, SameStored
  <2> QED BY <2>1, <2>2, StoreUntouched DEF Store!storeVars, Stored
<1>2. CASE \E n \in Names : Create(n)
  <2>1. PICK n \in Names : Create(n)
    BY <1>2
  <2>2. Quiet /\ UNCHANGED disk /\ call' = call
    BY <2>1 DEF Create
  <2> QED BY <2>1, <2>2, CreateStore, QuietStep
\* The calls that write nothing.
<1>3. CASE Quiet /\ UNCHANGED <<disk, fat, todo, call>>
  <2>1. UNCHANGED disk /\ call' = call
    BY <1>3
  <2> QED BY <1>3, <2>1, StoreUntouched, QuietStep
<1>4. ASSUME NEW n \in Names, NEW p \in Flags, Open(n, p) PROVE Quiet /\ UNCHANGED <<disk, fat, todo, call>>
  BY <1>4 DEF Open, Break, memory
<1>5. ASSUME NEW d \in Fds, Close(d) PROVE Quiet /\ UNCHANGED <<disk, fat, todo, call>>
  BY <1>5 DEF Close
<1>6. ASSUME NEW d \in Fds, NEW o \in Offsets, Lseek(d, o) PROVE Quiet /\ UNCHANGED <<disk, fat, todo, call>>
  BY <1>6 DEF Lseek
<1>7. CASE \E d \in Fds : \E len \in Lens : Read(d, len)
  <2>1. PICK d \in Fds, len \in Lens : Read(d, len)
    BY <1>7
  <2>2. UNCHANGED <<disk, fat, todo, call>>
    BY <2>1 DEF Read, Break, memory
  <2> QED BY <2>1, <2>2, StoreUntouched, ReadStep
<1>8. CASE \E d \in Fds : \E len \in Lens : \E x \in Bytes : Write(d, len, x)
  BY <1>8, WriteStore, BeginStep
<1>9. CASE WriteSector
  BY <1>9, SectorStore, SectorStep
<1>10. CASE Reset
  <2>1. Quiet /\ UNCHANGED disk /\ call' = {}
    BY <1>10 DEF Reset
  <2> QED BY <1>10, <2>1, ResetStore, QuietStep
<1> QED BY <1>1, <1>2, <1>3, <1>4, <1>5, <1>6, <1>7, <1>8, <1>9, <1>10 DEF Next

\* The calls implement files that are sequences of bytes (fat32_write_file and
\* its callers): of a file that is being written the disk shows, between any two
\* sectors and after any reset, old bytes and new ones in its old length or the
\* new one; of every other file what it showed before; and a read returns it.
THEOREM FilesImplementFileStore == ASSUME Disciplined PROVE Spec => ImplementsFileStore
<1>1. Init => FilesInv /\ StoreInv /\ Store!Init
  BY InitKeeps, StoreBegins
<1>2. FilesInv /\ StoreInv /\ [Next]_vars => FilesInv' /\ StoreInv' /\ [Store!Next]_(Store!storeVars)
  BY StepKeeps, StoreStep
<1> QED BY <1>1, <1>2, PTL DEF Spec, ImplementsFileStore, Store!Spec
=============================================================================
