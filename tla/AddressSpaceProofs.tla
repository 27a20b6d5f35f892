------------------------- MODULE AddressSpaceProofs -------------------------
(***************************************************************************)
(* Proofs about AddressSpace, for programs whose segment is one page long  *)
(* and otherwise any number of processes, pages of stack, frames, contents *)
(* and any order of faults, forks, loads and exits.  With longer segments  *)
(* the theorems are false: see MCAddressSpaceSegment.cfg.                  *)
(***************************************************************************)
EXTENDS AddressSpace, FiniteSetTheorems, TLAPS

(***************************************************************************)
(* The inductive invariant.  The references cover the mappings only while  *)
(* a process maps a frame at most once (do_fork counts a child once) and   *)
(* while a frame that is referred to starts a run in use, so that what the *)
(* allocator hands out is mapped by nobody.                                *)
(***************************************************************************)
OnceEach ==
  \A p \in live : \A v, u \in Mapped(p) : pte[p][v].frame = pte[p][u].frame => v = u
Referred == \A f \in Pages : refs[f] > 0 => size[f] > 0

IInv ==
  /\ TypeOK
  /\ RefsCoverMappings
  /\ SharedReadOnly
  /\ OnceEach
  /\ Referred

\* The type of a page table.
Tables == [Procs -> [VPages -> [v : BOOLEAN, frame : Pages, w : BOOLEAN, s : BOOLEAN]]]

-----------------------------------------------------------------------------
\* The mappings of a frame are finitely many.
LEMMA MappingsFinite ==
  ASSUME NEW l \in SUBSET Procs, NEW S \in SUBSET (l \X VPages)
  PROVE  IsFiniteSet(S) /\ Cardinality(S) \in Nat
<1>1. IsFiniteSet(l)
  BY FS_Subset, AddressSpaceAssumption
<1>2. IsFiniteSet(VPages)
  <2>1. IsFiniteSet(Image) /\ IsFiniteSet(Stack)
    BY FS_Interval, AddressSpaceAssumption DEF Image, Stack
  <2> QED
    BY <2>1, FS_Union DEF VPages
<1>3. IsFiniteSet(l \X VPages)
  BY <1>1, <1>2, FS_Product
<1> QED
  BY <1>3, FS_Subset, FS_CardinalityType

\* Fewer mappings need no more references.
LEMMA FewerMappings ==
  ASSUME NEW l \in SUBSET Procs, NEW S \in SUBSET (l \X VPages), NEW T \in SUBSET S
  PROVE  Cardinality(T) <= Cardinality(S)
BY MappingsFinite, FS_Subset

\* What the allocator has left is mapped by no live process.
LEMMA FreeIsUnmapped ==
  ASSUME TypeOK, RefsCoverMappings, Referred, NEW f \in Free
  PROVE  /\ f \in Pages
         /\ size[f] = 0
         /\ refs[f] = 0
         /\ \A p \in live : \A v \in Mapped(p) : pte[p][v].frame # f
<1>1. f \in Pages /\ f \in Nat
  BY DEF Free, FreePages, Pages
<1>2. size[f] = 0
  <2>1. ASSUME size[f] > 0 PROVE FALSE
    <3>1. f \in Run(f, size[f])
      BY <1>1, <2>1 DEF Run, TypeOK
    <3> QED
      BY <1>1, <3>1 DEF Busy, Free, FreePages
  <2> QED
    BY <1>1, <2>1 DEF TypeOK
<1>3. refs[f] = 0
  BY <1>1, <1>2 DEF TypeOK, Referred
<1>4. Mappings(f) = {}
  <2>1. Mappings(f) \in SUBSET (live \X VPages) /\ live \in SUBSET Procs
    BY DEF Mappings, TypeOK
  <2>2. IsFiniteSet(Mappings(f)) /\ Cardinality(Mappings(f)) \in Nat
    BY <2>1, MappingsFinite
  <2>3. Cardinality(Mappings(f)) <= 0
    BY <1>1, <1>3 DEF RefsCoverMappings
  <2> QED
    BY <2>2, <2>3, FS_EmptySet
<1>5. ASSUME NEW p \in live, NEW v \in Mapped(p), pte[p][v].frame = f
      PROVE  FALSE
  <2>1. <<p, v>> \in Mappings(f)
    BY <1>5 DEF Mappings, Mapped
  <2> QED
    BY <1>4, <2>1
<1> QED
  BY <1>1, <1>2, <1>3, <1>5

\* The facts of the type invariant that the steps below use.
LEMMA TypeFacts ==
  ASSUME TypeOK
  PROVE  /\ pte \in Tables
         /\ live \in SUBSET Procs
         /\ size \in [Pages -> Nat] /\ refs \in [Pages -> Nat]
         /\ \A f : Mappings(f) \in SUBSET (live \X VPages)
         /\ \A p \in live : \A v \in Mapped(p) : pte[p][v].frame \in Pages
BY DEF TypeOK, Tables, Mappings, Mapped

-----------------------------------------------------------------------------
(***************************************************************************)
(* Mapping a page to a frame of its own, as CopyOnWrite and DemandPage do. *)
(***************************************************************************)
LEMMA PrivateEntry ==
  ASSUME IInv, NEW p \in live, NEW v \in VPages, NEW f \in Free,
         pte' = [pte EXCEPT ![p][v] = Entry(f, TRUE, FALSE)], live' = live
  PROVE  /\ pte' \in Tables
         /\ SharedReadOnly'
         /\ OnceEach'
         /\ Mappings(f)' \subseteq {<<p, v>>}
         /\ \A g : g # f => Mappings(g)' \subseteq Mappings(g) \ {<<p, v>>}
<1>1. /\ pte \in Tables /\ p \in Procs /\ f \in Pages
      /\ \A q \in live : \A u \in Mapped(q) : pte[q][u].frame # f
  BY TypeFacts, FreeIsUnmapped DEF IInv
<1>2. \A q \in Procs, u \in VPages :
        pte'[q][u] = IF q = p /\ u = v THEN Entry(f, TRUE, FALSE) ELSE pte[q][u]
  BY <1>1 DEF Tables
<1>3. Entry(f, TRUE, FALSE) \in [v : BOOLEAN, frame : Pages, w : BOOLEAN, s : BOOLEAN]
  BY <1>1 DEF Entry
<1>4. pte' \in Tables
  BY <1>1, <1>3 DEF Tables
<1>5. Entry(f, TRUE, FALSE).frame = f /\ live \in SUBSET Procs
  BY TypeFacts DEF Entry, IInv
<1>6. ASSUME NEW q \in live, NEW u \in VPages, pte'[q][u].v
      PROVE  \/ q = p /\ u = v /\ pte'[q][u].frame = f
             \/ /\ ~(q = p /\ u = v)
                /\ pte'[q][u] = pte[q][u] /\ pte[q][u].v
                /\ pte'[q][u].frame # f
  <2>1. CASE q = p /\ u = v
    BY <1>2, <1>5, <2>1
  <2>2. CASE ~(q = p /\ u = v)
    <3>1. pte'[q][u] = pte[q][u]
      BY <1>2, <1>5, <2>2
    <3>2. u \in Mapped(q)
      BY <1>6, <3>1 DEF Mapped
    <3> QED
      BY <1>1, <1>6, <2>2, <3>1, <3>2
  <2> QED
    BY <2>1, <2>2
<1>7. SharedReadOnly'
  <2> SUFFICES ASSUME NEW q \in live', NEW r \in live',
                      NEW u \in Mapped(q)', NEW x \in Mapped(r)',
                      q # r \/ u # x, pte'[q][u].frame = pte'[r][x].frame
               PROVE  ~pte'[q][u].w
    BY ZenonT(30) DEF SharedReadOnly
  <2>0. /\ u \in VPages /\ x \in VPages /\ pte'[q][u].v /\ pte'[r][x].v
        /\ q \in live /\ r \in live
    BY DEF Mapped
  <2>1. \/ q = p /\ u = v /\ pte'[q][u].frame = f
        \/ /\ pte'[q][u] = pte[q][u] /\ pte[q][u].v
           /\ pte'[q][u].frame # f
    BY <1>6, <2>0
  <2>2. \/ r = p /\ x = v /\ pte'[r][x].frame = f
        \/ /\ pte'[r][x] = pte[r][x] /\ pte[r][x].v
           /\ pte'[r][x].frame # f
    BY <1>6, <2>0
  <2>3. /\ pte'[q][u] = pte[q][u] /\ pte[q][u].v
        /\ pte'[r][x] = pte[r][x] /\ pte[r][x].v
    BY <2>1, <2>2
  <2> QED
    BY <2>0, <2>3 DEF IInv, SharedReadOnly, Mapped
<1>8. OnceEach'
  <2> SUFFICES ASSUME NEW q \in live', NEW u \in Mapped(q)', NEW x \in Mapped(q)',
                      u # x, pte'[q][u].frame = pte'[q][x].frame
               PROVE  FALSE
    BY DEF OnceEach
  <2>0. u \in VPages /\ x \in VPages /\ pte'[q][u].v /\ pte'[q][x].v /\ q \in live
    BY DEF Mapped
  <2>1. \/ q = p /\ u = v /\ pte'[q][u].frame = f
        \/ pte'[q][u] = pte[q][u] /\ pte[q][u].v /\ pte'[q][u].frame # f
    BY <1>6, <2>0
  <2>2. \/ q = p /\ x = v /\ pte'[q][x].frame = f
        \/ pte'[q][x] = pte[q][x] /\ pte[q][x].v /\ pte'[q][x].frame # f
    BY <1>6, <2>0
  <2>3. /\ pte'[q][u] = pte[q][u] /\ pte[q][u].v
        /\ pte'[q][x] = pte[q][x] /\ pte[q][x].v
    BY <2>1, <2>2
  <2> QED
    BY <2>0, <2>3, ZenonT(30) DEF IInv, OnceEach, Mapped
<1>9. ASSUME NEW g, NEW m \in Mappings(g)'
      PROVE  \E q \in live, u \in VPages :
               m = <<q, u>> /\ pte'[q][u].v /\ pte'[q][u].frame = g
  <2>1. m \in live \X VPages /\ pte'[m[1]][m[2]].v /\ pte'[m[1]][m[2]].frame = g
    BY <1>9 DEF Mappings
  <2>2. m = <<m[1], m[2]>> /\ m[1] \in live /\ m[2] \in VPages
    BY <2>1
  <2> QED
    BY <2>1, <2>2
<1>10. ASSUME NEW m \in Mappings(f)'
       PROVE  m = <<p, v>>
  <2>1. PICK q \in live, u \in VPages :
          m = <<q, u>> /\ pte'[q][u].v /\ pte'[q][u].frame = f
    BY <1>9, <1>10
  <2> QED
    BY <1>6, <2>1
<1>11. ASSUME NEW g, g # f, NEW m \in Mappings(g)'
       PROVE  m \in Mappings(g) /\ m # <<p, v>>
  <2>1. PICK q \in live, u \in VPages :
          m = <<q, u>> /\ pte'[q][u].v /\ pte'[q][u].frame = g
    BY <1>9
  <2>2. m # <<p, v>> /\ pte[q][u].v /\ pte[q][u].frame = g
    BY <1>6, <1>11, <2>1
  <2> QED
    BY <2>1, <2>2 DEF Mappings
<1> QED
  BY <1>4, <1>7, <1>8, <1>10, <1>11

\* Counting the mappings of a frame: at most one, and one fewer.
LEMMA OneMapping ==
  ASSUME NEW pv, NEW S \in SUBSET {pv}
  PROVE  Cardinality(S) <= 1
<1>1. IsFiniteSet({pv}) /\ Cardinality({pv}) = 1
  BY FS_Singleton
<1>2. Cardinality(S) <= Cardinality({pv})
  BY <1>1, FS_Subset
<1> QED
  BY <1>1, <1>2

LEMMA OneMore ==
  ASSUME NEW S, IsFiniteSet(S), NEW x
  PROVE  /\ IsFiniteSet(S \cup {x})
         /\ Cardinality(S \cup {x}) <= Cardinality(S) + 1
<1>1. /\ IsFiniteSet(S \cup {x})
      /\ \/ Cardinality(S \cup {x}) = Cardinality(S)
         \/ Cardinality(S \cup {x}) = Cardinality(S) + 1
  BY FS_AddElement
<1>2. Cardinality(S) \in Nat
  BY FS_CardinalityType
<1> QED
  BY <1>1, <1>2

LEMMA OneMappingFewer ==
  ASSUME NEW l \in SUBSET Procs, NEW S \in SUBSET (l \X VPages), NEW pv \in S,
         NEW T \in SUBSET (S \ {pv})
  PROVE  /\ Cardinality(T) <= Cardinality(S) - 1
         /\ Cardinality(S) \in Nat \ {0}
<1>1. IsFiniteSet(S) /\ Cardinality(S) \in Nat
  BY MappingsFinite
<1>2. /\ IsFiniteSet(S \ {pv})
      /\ Cardinality(S \ {pv}) = Cardinality(S) - 1
  BY <1>1, FS_RemoveElement
<1>3. Cardinality(S \ {pv}) \in Nat
  BY <1>2, FS_CardinalityType
<1>4. Cardinality(T) <= Cardinality(S \ {pv})
  BY <1>2, FS_Subset
<1> QED
  BY <1>1, <1>2, <1>3, <1>4

-----------------------------------------------------------------------------
(***************************************************************************)
(* One lemma per action.                                                   *)
(***************************************************************************)
LEMMA ResetKeeps ==
  ASSUME IInv, OutOfMemory
  PROVE  IInv'
BY DEF OutOfMemory, IInv, TypeOK, RefsCoverMappings, Mappings, SharedReadOnly,
       Mapped, OnceEach, Referred

LEMMA StoreKeeps ==
  ASSUME IInv, NEW p \in Procs, NEW v \in VPages, NEW y \in Values, Store(p, v, y)
  PROVE  IInv'
<1>1. TypeOK'
  BY DEF Store, IInv, TypeOK
<1>2. RefsCoverMappings' /\ SharedReadOnly' /\ OnceEach' /\ Referred'
  BY DEF Store, IInv, RefsCoverMappings, Mappings, SharedReadOnly, Mapped, OnceEach,
         Referred
<1> QED
  BY <1>1, <1>2 DEF IInv

LEMMA CopyOnWriteKeeps ==
  ASSUME IInv, NEW p \in Procs, NEW v \in VPages, CopyOnWrite(p, v)
  PROVE  IInv'
<1> DEFINE old == pte[p][v].frame
<1>1. CASE Free = {} /\ OutOfMemory
  BY <1>1, ResetKeeps
<1>2. CASE \E f \in Lowest(Free, 1) :
             /\ content' = [content EXCEPT ![f] = content[old]]
             /\ pte' = [pte EXCEPT ![p][v] = Entry(f, TRUE, FALSE)]
             /\ refs' = [DerefRefs(refs, old) EXCEPT ![f] = 1]
             /\ size' = [DerefSize(size, refs, old) EXCEPT ![f] = 1]
             /\ UNCHANGED <<live, down, wild>>
  <2>1. PICK f \in Free :
             /\ content' = [content EXCEPT ![f] = content[old]]
             /\ pte' = [pte EXCEPT ![p][v] = Entry(f, TRUE, FALSE)]
             /\ refs' = [DerefRefs(refs, old) EXCEPT ![f] = 1]
             /\ size' = [DerefSize(size, refs, old) EXCEPT ![f] = 1]
             /\ UNCHANGED <<live, down, wild>>
    BY <1>2 DEF Lowest
  <2>2. /\ p \in live /\ v \in Mapped(p)
        /\ old \in Pages /\ f \in Pages /\ old # f
        /\ size \in [Pages -> Nat] /\ refs \in [Pages -> Nat]
    BY TypeFacts, FreeIsUnmapped DEF CopyOnWrite, Runs, Mapped, IInv
  <2>3. /\ pte' \in Tables /\ SharedReadOnly' /\ OnceEach'
        /\ Mappings(f)' \subseteq {<<p, v>>}
        /\ \A g : g # f => Mappings(g)' \subseteq Mappings(g) \ {<<p, v>>}
    BY <2>1, <2>2, PrivateEntry
  <2>4. \A g \in Pages :
          refs'[g] = IF g = f THEN 1
                     ELSE IF g = old THEN (IF refs[g] = 0 THEN 0 ELSE refs[g] - 1)
                     ELSE refs[g]
    BY <2>1, <2>2 DEF DerefRefs
  <2>5. \A g \in Pages :
          size'[g] = IF g = f THEN 1
                     ELSE IF g = old /\ refs[g] = 1 THEN 0
                     ELSE size[g]
    BY <2>1, <2>2 DEF DerefSize
  <2>6. /\ refs' \in [Pages -> Nat] /\ size' \in [Pages -> Nat]
    BY <2>1, <2>2 DEF DerefRefs, DerefSize
  <2>7. TypeOK'
    <3>1. content' \in [Pages -> Values]
      BY <2>1, <2>2 DEF IInv, TypeOK
    <3> QED
      BY <2>1, <2>3, <2>6, <3>1 DEF IInv, TypeOK, Tables
  <2>8. ASSUME NEW g \in Pages
        PROVE  Cardinality(Mappings(g)') <= refs'[g]
    <3>1. /\ live \in SUBSET Procs /\ Mappings(g) \in SUBSET (live \X VPages)
          /\ refs[g] \in Nat /\ Cardinality(Mappings(g)) <= refs[g]
      BY TypeFacts DEF IInv, RefsCoverMappings, TypeOK
    <3>2. CASE g = f
      BY <2>3, <2>4, <3>2, OneMapping
    <3>3. CASE g = old
      <4>1. <<p, v>> \in Mappings(g)
        BY <2>2, <3>3 DEF Mappings, Mapped
      <4>2. /\ Cardinality(Mappings(g)') <= Cardinality(Mappings(g)) - 1
            /\ Cardinality(Mappings(g)) \in Nat \ {0}
        BY <2>2, <2>3, <3>1, <3>3, <4>1, OneMappingFewer
      <4>3. Cardinality(Mappings(g)') \in Int
        <5>1. Mappings(g)' \in SUBSET (live \X VPages)
          BY <2>2, <2>3, <3>1, <3>3
        <5> QED
          BY <3>1, <5>1, MappingsFinite
      <4>4. refs'[g] = refs[g] - 1
        BY <2>2, <2>4, <3>1, <3>3, <4>2
      <4> QED
        BY <3>1, <4>2, <4>3, <4>4
    <3>4. CASE g # f /\ g # old
      <4>1. Cardinality(Mappings(g)') <= Cardinality(Mappings(g))
        BY <2>3, <3>1, <3>4, FewerMappings
      <4>2. Cardinality(Mappings(g)') \in Nat /\ Cardinality(Mappings(g)) \in Nat
        BY <2>3, <3>1, <3>4, MappingsFinite
      <4> QED
        BY <2>4, <3>1, <3>4, <4>1, <4>2
    <3> QED
      BY <3>2, <3>3, <3>4
  <2>9. Referred'
    BY <2>2, <2>4, <2>5 DEF IInv, Referred
  <2> QED
    BY <2>3, <2>7, <2>8, <2>9 DEF IInv, RefsCoverMappings
<1> QED
  BY <1>1, <1>2 DEF CopyOnWrite

\* What the allocator hands out: the free pages become runs of one page.
LEMMA UsedPages ==
  ASSUME TypeOK, NEW L \in SUBSET Free, L \subseteq Pages
  PROVE  /\ Use(size, L) \in [Pages -> Nat] /\ Use(refs, L) \in [Pages -> Nat]
         /\ \A g \in L : Use(size, L)[g] = 1 /\ Use(refs, L)[g] = 1
         /\ \A g \in Pages \ L : Use(size, L)[g] = size[g] /\ Use(refs, L)[g] = refs[g]
BY DEF Use, TypeOK

LEMMA LowestIsFree ==
  ASSUME NEW k \in Nat
  PROVE  /\ Lowest(Free, k) \in SUBSET Free
         /\ Lowest(Free, k) \subseteq Pages
         /\ k >= 1 => Lowest(Free, 1) \subseteq Lowest(Free, k)
<1>1. Free \subseteq Pages
  BY DEF Free, FreePages
<1>2. ASSUME NEW f \in Lowest(Free, 1), k >= 1
      PROVE  f \in Lowest(Free, k)
  <2>1. IsFiniteSet(Pages)
    BY FS_Interval, PageRunsAssumption DEF Pages
  <2>2. Cardinality({g \in Free : g < f}) \in Nat
    BY <1>1, <2>1, FS_Subset, FS_CardinalityType
  <2> QED
    BY <1>2, <2>2 DEF Lowest
<1> QED
  BY <1>1, <1>2 DEF Lowest

LEMMA DemandPageKeeps ==
  ASSUME IInv, NEW p \in Procs, NEW v \in VPages, DemandPage(p, v)
  PROVE  IInv'
<1>a. PICK k \in Nat :
        k >= 1 /\ k = 1 + IF Stack \cap Mapped(p) = {} THEN TablesFor(1) ELSE 0
  BY DEF TablesFor
<1>0. \/ Cardinality(Free) < k /\ OutOfMemory
      \/ \E f \in Lowest(Free, 1) :
           /\ Cardinality(Free) >= k
           /\ size' = Use(size, Lowest(Free, k))
           /\ refs' = Use(refs, Lowest(Free, k))
           /\ pte' = [pte EXCEPT ![p][v] = Entry(f, TRUE, FALSE)]
           /\ wild' = Dirty(Latest(Free, k, k - 1))
           /\ UNCHANGED <<content, live, down>>
  BY <1>a, Zenon DEF DemandPage
<1>1. CASE Cardinality(Free) < k /\ OutOfMemory
  BY <1>1, ResetKeeps
<1>2. CASE \E f \in Lowest(Free, 1) :
             /\ Cardinality(Free) >= k
             /\ size' = Use(size, Lowest(Free, k))
             /\ refs' = Use(refs, Lowest(Free, k))
             /\ pte' = [pte EXCEPT ![p][v] = Entry(f, TRUE, FALSE)]
             /\ wild' = Dirty(Latest(Free, k, k - 1))
             /\ UNCHANGED <<content, live, down>>
  <2>0. PICK f \in Lowest(Free, 1) :
             /\ size' = Use(size, Lowest(Free, k))
             /\ refs' = Use(refs, Lowest(Free, k))
             /\ pte' = [pte EXCEPT ![p][v] = Entry(f, TRUE, FALSE)]
             /\ wild' = Dirty(Latest(Free, k, k - 1))
             /\ UNCHANGED <<content, live, down>>
    BY <1>2
  <2>a. PICK L \in SUBSET Free : L = Lowest(Free, k)
    BY LowestIsFree
  <2>1. /\ size' = Use(size, L)
        /\ refs' = Use(refs, L)
        /\ pte' = [pte EXCEPT ![p][v] = Entry(f, TRUE, FALSE)]
        /\ wild' = Dirty(Latest(Free, k, k - 1))
        /\ UNCHANGED <<content, live, down>>
    BY <2>0, <2>a
  <2>2. L \in SUBSET Free /\ L \subseteq Pages /\ f \in L
    BY <1>a, <2>a, LowestIsFree
  <2>3. f \in Free /\ p \in live
    BY <2>2 DEF DemandPage, Runs
  <2>4. /\ pte' \in Tables /\ SharedReadOnly' /\ OnceEach'
        /\ Mappings(f)' \subseteq {<<p, v>>}
        /\ \A g : g # f => Mappings(g)' \subseteq Mappings(g) \ {<<p, v>>}
    BY <2>1, <2>3, PrivateEntry
  <2>5. /\ size' \in [Pages -> Nat] /\ refs' \in [Pages -> Nat]
        /\ \A g \in L : size'[g] = 1 /\ refs'[g] = 1
        /\ \A g \in Pages \ L : size'[g] = size[g] /\ refs'[g] = refs[g]
    BY <2>1, <2>2, UsedPages DEF IInv
  <2>6. TypeOK'
    <3>1. wild' \in BOOLEAN
      BY <2>1 DEF Dirty
    <3> QED
      BY <2>1, <2>4, <2>5, <3>1 DEF IInv, TypeOK, Tables
  <2>7. Referred'
    BY <2>2, <2>5 DEF IInv, Referred
  <2>8. ASSUME NEW g \in Pages
        PROVE  Cardinality(Mappings(g)') <= refs'[g]
    <3>1. CASE g = f
      BY <2>2, <2>4, <2>5, <3>1, OneMapping
    <3>2. CASE g # f
      <4>1. /\ live \in SUBSET Procs /\ Mappings(g) \in SUBSET (live \X VPages)
            /\ refs[g] \in Nat /\ Cardinality(Mappings(g)) <= refs[g]
        BY TypeFacts DEF IInv, RefsCoverMappings, TypeOK
      <4>2. /\ Cardinality(Mappings(g)') <= Cardinality(Mappings(g))
            /\ Cardinality(Mappings(g)') \in Nat /\ Cardinality(Mappings(g)) \in Nat
        BY <2>4, <3>2, <4>1, FewerMappings, MappingsFinite
      <4>3. refs'[g] \in Nat /\ refs[g] <= refs'[g]
        <5>1. CASE g \in L
          <6>1. refs[g] = 0
            BY <2>2, <5>1, FreeIsUnmapped DEF IInv
          <6> QED
            BY <2>5, <5>1, <6>1
        <5>2. CASE g \notin L
          BY <2>5, <4>1, <5>2
        <5> QED
          BY <5>1, <5>2
      <4> QED
        BY <4>1, <4>2, <4>3
    <3> QED
      BY <3>1, <3>2
  <2> QED
    BY <2>4, <2>6, <2>7, <2>8 DEF IInv, RefsCoverMappings
<1> QED
  BY <1>0, <1>1, <1>2

LEMMA ExitKeeps ==
  ASSUME IInv, NEW p \in Procs, Exit(p)
  PROVE  IInv'
<1>1. TypeOK' /\ Referred' /\ OnceEach' /\ SharedReadOnly'
  BY DEF Exit, IInv, TypeOK, Referred, OnceEach, SharedReadOnly, Mapped
<1>2. ASSUME NEW g \in Pages
      PROVE  Cardinality(Mappings(g)') <= refs'[g]
  <2>1. /\ live \in SUBSET Procs /\ Mappings(g) \in SUBSET (live \X VPages)
        /\ refs[g] \in Nat /\ Cardinality(Mappings(g)) <= refs[g]
    BY TypeFacts DEF IInv, RefsCoverMappings, TypeOK
  <2>2. Mappings(g)' \subseteq Mappings(g)
    BY DEF Mappings, Exit
  <2>3. /\ Cardinality(Mappings(g)') <= Cardinality(Mappings(g))
        /\ Cardinality(Mappings(g)') \in Nat /\ Cardinality(Mappings(g)) \in Nat
    BY <2>1, <2>2, FewerMappings, MappingsFinite
  <2> QED
    BY <2>1, <2>3 DEF Exit
<1> QED
  BY <1>1, <1>2 DEF IInv, RefsCoverMappings

LEMMA ExecInvalidKeeps ==
  ASSUME IInv, NEW p \in Procs, ExecInvalid(p)
  PROVE  IInv'
<1>1. CASE OutOfMemory
  BY <1>1, ResetKeeps
<1>2. CASE \E b \in Free, n \in Sizes :
             /\ FileRun(b, n)
             /\ size' = [size EXCEPT ![b] = n]
             /\ refs' = [refs EXCEPT ![b] = 1]
             /\ UNCHANGED <<content, pte, live, down, wild>>
  <2>1. PICK b \in Free, n \in Sizes :
             /\ size' = [size EXCEPT ![b] = n]
             /\ refs' = [refs EXCEPT ![b] = 1]
             /\ UNCHANGED <<content, pte, live, down, wild>>
    BY <1>2
  <2>2. /\ b \in Pages /\ refs[b] = 0 /\ n \in Nat /\ n > 0
        /\ size \in [Pages -> Nat] /\ refs \in [Pages -> Nat]
    BY FreeIsUnmapped, TypeFacts, PageRunsAssumption DEF IInv
  <2>3. TypeOK' /\ Referred'
    BY <2>1, <2>2 DEF IInv, TypeOK, Referred
  <2>4. SharedReadOnly' /\ OnceEach'
    BY <2>1 DEF IInv, SharedReadOnly, OnceEach, Mapped
  <2>5. ASSUME NEW g \in Pages
        PROVE  Cardinality(Mappings(g)') <= refs'[g]
    <3>1. /\ live \in SUBSET Procs /\ Mappings(g) \in SUBSET (live \X VPages)
          /\ refs[g] \in Nat /\ Cardinality(Mappings(g)) <= refs[g]
      BY TypeFacts DEF IInv, RefsCoverMappings, TypeOK
    <3>2. Mappings(g)' = Mappings(g) /\ Cardinality(Mappings(g)) \in Nat
      BY <2>1, <3>1, MappingsFinite DEF Mappings
    <3>3. refs'[g] \in Nat /\ refs[g] <= refs'[g]
      BY <2>1, <2>2, <3>1
    <3> QED
      BY <3>1, <3>2, <3>3
  <2> QED
    BY <2>3, <2>4, <2>5 DEF IInv, RefsCoverMappings
<1> QED
  BY <1>1, <1>2 DEF ExecInvalid

LEMMA ForkKeeps ==
  ASSUME IInv, NEW p \in Procs, NEW c \in Procs, Fork(p, c)
  PROVE  IInv'
<1>a. PICK t \in Nat : t = TablesFor(Cardinality(RegionsOf(p)))
  <2>1. IsFiniteSet(RegionsOf(p))
    <3>1. IsFiniteSet(Regions)
      <4>1. IsFiniteSet({Image}) /\ IsFiniteSet({Stack})
        BY FS_Singleton
      <4>2. IsFiniteSet({Image} \cup {Stack})
        BY <4>1, FS_Union
      <4>3. Regions = {Image} \cup {Stack}
        BY DEF Regions
      <4> QED
        BY <4>2, <4>3
    <3> QED
      BY <3>1, FS_Subset DEF RegionsOf
  <2>2. Cardinality(RegionsOf(p)) \in Nat
    BY <2>1, FS_CardinalityType
  <2> QED
    BY <2>2 DEF TablesFor
<1>0. \/ Cardinality(Free) < 6 + t /\ OutOfMemory
      \/ /\ Cardinality(Free) >= 6 + t
         /\ size' = Use(size, Lowest(Free, 6 + t))
         /\ refs' = ForkRefs(Use(refs, Lowest(Free, 6 + t)), p)
         /\ pte' = [pte EXCEPT ![p] = Shared(p), ![c] = Shared(p)]
         /\ live' = live \cup {c}
         /\ wild' = Dirty(Latest(Free, 6 + t, t))
         /\ UNCHANGED <<content, down>>
  BY <1>a, Zenon DEF Fork
<1>1. CASE Cardinality(Free) < 6 + t /\ OutOfMemory
  BY <1>1, ResetKeeps
<1>2. CASE /\ size' = Use(size, Lowest(Free, 6 + t))
           /\ refs' = ForkRefs(Use(refs, Lowest(Free, 6 + t)), p)
           /\ pte' = [pte EXCEPT ![p] = Shared(p), ![c] = Shared(p)]
           /\ live' = live \cup {c}
           /\ wild' = Dirty(Latest(Free, 6 + t, t))
           /\ UNCHANGED <<content, down>>
  <2>a. PICK k \in Nat : k = 6 + t
    OBVIOUS
  <2>b. PICK L \in SUBSET Free : L = Lowest(Free, k) /\ L \subseteq Pages
    BY LowestIsFree
  <2>1. /\ size' = Use(size, L)
        /\ refs' = ForkRefs(Use(refs, L), p)
        /\ pte' = [pte EXCEPT ![p] = Shared(p), ![c] = Shared(p)]
        /\ live' = live \cup {c}
        /\ UNCHANGED <<content, down>>
        /\ wild' \in BOOLEAN
    BY <1>2, <2>a, <2>b DEF Dirty
  <2>2. /\ p \in live /\ c \notin live /\ p # c /\ p \in Procs /\ c \in Procs
        /\ live \in SUBSET Procs
    BY TypeFacts DEF Fork, Runs, IInv
  <2>3. pte \in Tables
    BY TypeFacts DEF IInv
  <2>4. /\ \A q \in Procs : q # p /\ q # c => pte'[q] = pte[q]
        /\ pte'[p] = Shared(p) /\ pte'[c] = Shared(p)
    BY <2>1, <2>2, <2>3 DEF Tables
  <2>5. ASSUME NEW u \in VPages
        PROVE  /\ Shared(p)[u].v = pte[p][u].v
               /\ pte[p][u].v => Shared(p)[u].frame = pte[p][u].frame
               /\ ~Shared(p)[u].w
               /\ Shared(p)[u] \in [v : BOOLEAN, frame : Pages, w : BOOLEAN, s : BOOLEAN]
    <3>1. /\ pte[p][u] \in [v : BOOLEAN, frame : Pages, w : BOOLEAN, s : BOOLEAN]
      BY <2>3 DEF Tables
    <3>2. 0 \in Pages
      BY <3>1, PageRunsAssumption DEF Pages
    <3> QED
      BY <3>1, <3>2 DEF Shared, Entry, NoEntry
  <2>6. pte' \in Tables
    <3>1. Shared(p) \in [VPages -> [v : BOOLEAN, frame : Pages, w : BOOLEAN, s : BOOLEAN]]
      <4>1. Shared(p) = [u \in VPages |-> Shared(p)[u]]
        BY DEF Shared
      <4> QED
        BY <2>5, <4>1
    <3> QED
      BY <2>1, <2>3, <3>1 DEF Tables
  <2>7. ASSUME NEW q \in live', NEW u \in VPages, pte'[q][u].v
        PROVE  \/ /\ q # p /\ q # c /\ q \in live
                  /\ pte'[q][u] = pte[q][u] /\ pte[q][u].v
               \/ /\ q = p \/ q = c
                  /\ pte[p][u].v /\ pte'[q][u].frame = pte[p][u].frame /\ ~pte'[q][u].w
    BY <2>1, <2>2, <2>4, <2>5, <2>7, ZenonT(30)
  <2>8. SharedReadOnly'
    <3> SUFFICES ASSUME NEW q \in live', NEW r \in live',
                        NEW u \in Mapped(q)', NEW x \in Mapped(r)',
                        q # r \/ u # x, pte'[q][u].frame = pte'[r][x].frame
                 PROVE  ~pte'[q][u].w
      BY DEF SharedReadOnly
    <3>1. u \in VPages /\ x \in VPages /\ pte'[q][u].v /\ pte'[r][x].v
      BY DEF Mapped
    <3>2. \/ /\ q # p /\ q # c /\ q \in live
             /\ pte'[q][u] = pte[q][u] /\ pte[q][u].v
          \/ ~pte'[q][u].w
      BY <2>7, <3>1
    <3>3. \/ /\ r # p /\ r # c /\ r \in live
             /\ pte'[r][x] = pte[r][x] /\ pte[r][x].v
          \/ /\ pte[p][x].v /\ pte'[r][x].frame = pte[p][x].frame
      BY <2>7, <3>1
    <3>4. \A a, b \in live : \A y \in VPages, z \in VPages :
            /\ pte[a][y].v /\ pte[b][z].v /\ (a # b \/ y # z)
            /\ pte[a][y].frame = pte[b][z].frame
            => ~pte[a][y].w
      BY DEF IInv, SharedReadOnly, Mapped
    <3>5. CASE /\ q # p /\ q # c /\ q \in live
               /\ pte'[q][u] = pte[q][u] /\ pte[q][u].v
      <4>1. CASE /\ r # p /\ r # c /\ r \in live
                 /\ pte'[r][x] = pte[r][x] /\ pte[r][x].v
        BY <3>1, <3>4, <3>5, <4>1
      <4>2. CASE pte[p][x].v /\ pte'[r][x].frame = pte[p][x].frame
        BY <2>2, <3>1, <3>4, <3>5, <4>2
      <4> QED
        BY <3>3, <4>1, <4>2
    <3> QED
      BY <3>2, <3>5
  <2>9. OnceEach'
    <3> SUFFICES ASSUME NEW q \in live', NEW u \in Mapped(q)', NEW x \in Mapped(q)',
                        pte'[q][u].frame = pte'[q][x].frame
                 PROVE  u = x
      BY DEF OnceEach
    <3>1. u \in VPages /\ x \in VPages /\ pte'[q][u].v /\ pte'[q][x].v
      BY DEF Mapped
    <3>2. PICK a \in live : /\ pte[a][u].v /\ pte'[q][u].frame = pte[a][u].frame
                            /\ pte[a][x].v /\ pte'[q][x].frame = pte[a][x].frame
      BY <2>2, <2>7, <3>1
    <3> QED
      BY <3>1, <3>2 DEF IInv, OnceEach, Mapped
  <2>10. /\ Use(size, L) \in [Pages -> Nat] /\ Use(refs, L) \in [Pages -> Nat]
         /\ \A g \in L : Use(size, L)[g] = 1 /\ Use(refs, L)[g] = 1
         /\ \A g \in Pages \ L : Use(size, L)[g] = size[g] /\ Use(refs, L)[g] = refs[g]
    BY <2>b, UsedPages DEF IInv
  <2>11. \A g \in Pages :
           refs'[g] = IF Use(refs, L)[g] > 0 /\ g \in FramesOf(p)
                      THEN Use(refs, L)[g] + 1 ELSE Use(refs, L)[g]
    BY <2>1 DEF ForkRefs
  <2>12. refs' \in [Pages -> Nat]
    BY <2>1, <2>10 DEF ForkRefs
  <2>13. TypeOK'
    <3>1. live' \subseteq Procs
      BY <2>1, <2>2
    <3> QED
      BY <2>1, <2>6, <2>10, <2>12, <3>1 DEF IInv, TypeOK, Tables
  <2>14. Referred'
    BY <2>1, <2>10, <2>11, <2>b DEF IInv, Referred
  <2>15. ASSUME NEW g \in Pages
         PROVE  Cardinality(Mappings(g)') <= refs'[g]
    <3>1. /\ Mappings(g) \in SUBSET (live \X VPages)
          /\ refs[g] \in Nat /\ Cardinality(Mappings(g)) <= refs[g]
          /\ IsFiniteSet(Mappings(g)) /\ Cardinality(Mappings(g)) \in Nat
      BY <2>2, TypeFacts, MappingsFinite DEF IInv, RefsCoverMappings, TypeOK
    <3>2. Use(refs, L)[g] \in Nat /\ refs[g] <= Use(refs, L)[g]
      <4>1. CASE g \in L
        <5>1. refs[g] = 0
          BY <2>b, <4>1, FreeIsUnmapped DEF IInv
        <5> QED
          BY <2>10, <4>1, <5>1
      <4>2. CASE g \notin L
        BY <2>10, <3>1, <4>2
      <4> QED
        BY <4>1, <4>2
    <3>3. ASSUME NEW m \in Mappings(g)'
          PROVE  \/ m \in Mappings(g)
                 \/ \E u \in VPages : m = <<c, u>> /\ pte[p][u].v /\ pte[p][u].frame = g
      <4>1. m \in live' \X VPages /\ pte'[m[1]][m[2]].v /\ pte'[m[1]][m[2]].frame = g
        BY <3>3 DEF Mappings
      <4>2. PICK q \in live', u \in VPages : m = <<q, u>> /\ m[1] = q /\ m[2] = u
        BY <4>1
      <4>3. pte'[q][u].v /\ pte'[q][u].frame = g
        BY <4>1, <4>2
      <4>4. CASE q # c
        <5>1. q \in live /\ pte[q][u].v /\ pte[q][u].frame = g
          BY <2>2, <2>7, <4>3, <4>4
        <5> QED
          BY <4>2, <5>1 DEF Mappings
      <4>5. CASE q = c
        <5>1. pte[p][u].v /\ pte[p][u].frame = g
          BY <2>7, <4>3, <4>5
        <5> QED
          BY <4>2, <4>5, <5>1
      <4> QED
        BY <4>4, <4>5
    <3>4. CASE g \in FramesOf(p)
      <4>1. PICK u \in Mapped(p) : pte[p][u].frame = g
        BY <3>4 DEF FramesOf
      <4>2. u \in VPages /\ pte[p][u].v
        BY DEF Mapped
      <4>3. Mappings(g)' \subseteq Mappings(g) \cup {<<c, u>>}
        <5>1. ASSUME NEW x \in VPages, pte[p][x].v, pte[p][x].frame = g
              PROVE  x = u
          BY <2>2, <4>1, <4>2, <5>1 DEF IInv, OnceEach, Mapped
        <5> QED
          BY <3>3, <5>1
      <4>4. /\ IsFiniteSet(Mappings(g) \cup {<<c, u>>})
            /\ Cardinality(Mappings(g) \cup {<<c, u>>}) <= Cardinality(Mappings(g)) + 1
        BY <3>1, OneMore
      <4>5. Cardinality(Mappings(g)') <= Cardinality(Mappings(g) \cup {<<c, u>>})
        BY <4>3, <4>4, FS_Subset
      <4>6. /\ Cardinality(Mappings(g)') \in Nat
            /\ Cardinality(Mappings(g) \cup {<<c, u>>}) \in Nat
        BY <4>3, <4>4, FS_Subset, FS_CardinalityType
      <4>7. Cardinality(Mappings(g)) # 0
        <5>1. <<p, u>> \in Mappings(g)
          BY <2>2, <4>1, <4>2 DEF Mappings
        <5> QED
          BY <3>1, <5>1, FS_EmptySet
      <4>8. refs'[g] = Use(refs, L)[g] + 1
        BY <2>11, <3>1, <3>2, <3>4, <4>7
      <4> QED
        BY <3>1, <3>2, <4>4, <4>5, <4>6, <4>8
    <3>5. CASE g \notin FramesOf(p)
      <4>1. Mappings(g)' \subseteq Mappings(g)
        BY <3>3, <3>5 DEF FramesOf, Mapped
      <4>2. /\ Cardinality(Mappings(g)') <= Cardinality(Mappings(g))
            /\ Cardinality(Mappings(g)') \in Nat
        BY <2>2, <3>1, <4>1, FewerMappings, MappingsFinite
      <4> QED
        BY <2>11, <3>1, <3>2, <3>5, <4>2
    <3> QED
      BY <3>4, <3>5
  <2> QED
    BY <2>8, <2>9, <2>13, <2>14, <2>15 DEF IInv, RefsCoverMappings
<1> QED
  BY <1>0, <1>1, <1>2

(***************************************************************************)
(* The page table of a program that has just been loaded, whose segment is *)
(* a single page at the free frame f.                                      *)
(***************************************************************************)
LEMMA LoadedImage ==
  ASSUME ImagePages = 1, NEW f \in Pages
  PROVE  /\ 0 \in VPages
         /\ ImageAt(f)[0] = Entry(f, TRUE, FALSE)
         /\ \A u \in VPages : ImageAt(f)[u].v => u = 0 /\ ImageAt(f)[u].frame = f
         /\ ImageAt(f) \in [VPages -> [v : BOOLEAN, frame : Pages, w : BOOLEAN, s : BOOLEAN]]
<1>1. \A u : u \in Image <=> u = 0
  BY DEF Image
<1>2. f + 0 = f
  BY DEF Pages
<1>3. 0 \in Pages
  BY PageRunsAssumption DEF Pages
<1>4. \A u \in VPages :
        ImageAt(f)[u] = IF u = 0 THEN Entry(f, TRUE, FALSE) ELSE NoEntry
  BY <1>1, <1>2 DEF ImageAt
<1>5. /\ Entry(f, TRUE, FALSE) \in [v : BOOLEAN, frame : Pages, w : BOOLEAN, s : BOOLEAN]
      /\ NoEntry \in [v : BOOLEAN, frame : Pages, w : BOOLEAN, s : BOOLEAN]
      /\ ~NoEntry.v /\ Entry(f, TRUE, FALSE).frame = f
  BY <1>3 DEF Entry, NoEntry
<1>6. 0 \in VPages
  BY <1>1 DEF VPages
<1>7. ImageAt(f) = [u \in VPages |-> ImageAt(f)[u]]
  BY DEF ImageAt
<1> QED
  BY <1>4, <1>5, <1>6, <1>7

LEMMA ExecKeeps ==
  ASSUME IInv, ImagePages = 1, NEW p \in Procs, Exec(p)
  PROVE  IInv'
<1>1. CASE ~CanExec /\ OutOfMemory
  BY <1>1, ResetKeeps
<1>2. CASE \E b \in Free, n \in Sizes :
             /\ FileRun(b, n)
             /\ \E f \in Free, m \in Sizes :
                  LET F == Free \ Run(b, n)
                  IN  /\ CanLoad(F, f, m)
                      /\ size' = [Use(size, LoadPages(F, f, m)) EXCEPT ![b] = n, ![f] = m]
                      /\ refs' = Use(refs, LoadPages(F, f, m) \cup {b, f})
                      /\ wild' = Dirty(NewTables(F, f, m))
                      /\ content' = Use(content, Run(f, ImagePages))
                      /\ pte' = [pte EXCEPT ![p] = ImageAt(f)]
                      /\ UNCHANGED <<live, down>>
  <2>a. PICK b \in Free, n \in Sizes, f \in Free, m \in Sizes :
          LET F == Free \ Run(b, n)
          IN  /\ size' = [Use(size, LoadPages(F, f, m)) EXCEPT ![b] = n, ![f] = m]
              /\ refs' = Use(refs, LoadPages(F, f, m) \cup {b, f})
              /\ wild' = Dirty(NewTables(F, f, m))
              /\ content' = Use(content, Run(f, ImagePages))
              /\ pte' = [pte EXCEPT ![p] = ImageAt(f)]
              /\ UNCHANGED <<live, down>>
    BY <1>2, ZenonT(30)
  <2>b. PICK L \in SUBSET Free : L = LoadPages(Free \ Run(b, n), f, m)
    BY DEF LoadPages, Lowest, AfterRun
  <2>1. /\ size' = [Use(size, L) EXCEPT ![b] = n, ![f] = m]
        /\ refs' = Use(refs, L \cup {b, f})
        /\ content' = Use(content, Run(f, ImagePages))
        /\ pte' = [pte EXCEPT ![p] = ImageAt(f)]
        /\ live' = live /\ down' = down
        /\ wild' \in BOOLEAN
    BY <2>a, <2>b DEF Dirty
  <2>2. /\ p \in live /\ f \in Pages /\ b \in Pages
        /\ n \in Nat /\ n > 0 /\ m \in Nat /\ m > 0
        /\ live \in SUBSET Procs
        /\ L \cup {b, f} \in SUBSET Free /\ L \cup {b, f} \subseteq Pages /\ L \subseteq Pages
    BY FreeIsUnmapped, TypeFacts, PageRunsAssumption
       DEF Exec, Runs, IInv, Free, FreePages
  <2>3. pte \in Tables
    BY TypeFacts DEF IInv
  <2>4. \A q \in Procs : pte'[q] = IF q = p THEN ImageAt(f) ELSE pte[q]
    BY <2>1, <2>3 DEF Tables
  <2>5. pte' \in Tables
    BY <2>1, <2>2, <2>3, LoadedImage DEF Tables
  <2>6. ASSUME NEW q \in live, NEW u \in VPages, pte'[q][u].v
        PROVE  \/ q = p /\ u = 0 /\ pte'[q][u].frame = f
               \/ /\ q # p /\ pte'[q][u] = pte[q][u] /\ pte[q][u].v
                  /\ pte'[q][u].frame # f
    <3>1. CASE q = p
      <4>1. pte'[q] = ImageAt(f)
        BY <2>2, <2>4, <3>1
      <4>2. u = 0 /\ ImageAt(f)[u].frame = f
        BY <2>2, <2>6, <4>1, LoadedImage
      <4> QED
        BY <3>1, <4>1, <4>2
    <3>2. CASE q # p
      <4>1. pte'[q][u] = pte[q][u] /\ q \in live
        BY <2>2, <2>4, <3>2
      <4>2. u \in Mapped(q)
        BY <2>6, <4>1 DEF Mapped
      <4>3. pte[q][u].frame # f
        BY <4>1, <4>2, FreeIsUnmapped DEF IInv
      <4> QED
        BY <2>6, <3>2, <4>1, <4>3
    <3> QED
      BY <3>1, <3>2
  <2>7. SharedReadOnly'
    <3> SUFFICES ASSUME NEW q \in live', NEW r \in live',
                        NEW u \in Mapped(q)', NEW x \in Mapped(r)',
                        q # r \/ u # x, pte'[q][u].frame = pte'[r][x].frame
                 PROVE  ~pte'[q][u].w
      BY DEF SharedReadOnly
    <3>1. /\ u \in VPages /\ x \in VPages /\ pte'[q][u].v /\ pte'[r][x].v
          /\ q \in live /\ r \in live
      BY <2>1 DEF Mapped
    <3>2. /\ pte'[q][u] = pte[q][u] /\ pte[q][u].v
          /\ pte'[r][x] = pte[r][x] /\ pte[r][x].v
      BY <2>6, <3>1
    <3> QED
      BY <3>1, <3>2 DEF IInv, SharedReadOnly, Mapped
  <2>8. OnceEach'
    <3> SUFFICES ASSUME NEW q \in live', NEW u \in Mapped(q)', NEW x \in Mapped(q)',
                        pte'[q][u].frame = pte'[q][x].frame
                 PROVE  u = x
      BY DEF OnceEach
    <3>1. u \in VPages /\ x \in VPages /\ pte'[q][u].v /\ pte'[q][x].v /\ q \in live
      BY <2>1 DEF Mapped
    <3>2. CASE q = p
      BY <2>6, <3>1, <3>2
    <3>3. CASE q # p
      <4>1. /\ pte'[q][u] = pte[q][u] /\ pte[q][u].v
            /\ pte'[q][x] = pte[q][x] /\ pte[q][x].v
        BY <2>6, <3>1, <3>3
      <4> QED
        BY <3>1, <4>1 DEF IInv, OnceEach, Mapped
    <3> QED
      BY <3>2, <3>3
  <2>9. /\ Use(size, L) \in [Pages -> Nat]
        /\ \A g \in L : Use(size, L)[g] = 1
        /\ \A g \in Pages \ L : Use(size, L)[g] = size[g]
    BY <2>2, UsedPages DEF IInv
  <2>10. /\ refs' \in [Pages -> Nat]
         /\ \A g \in L \cup {b, f} : refs'[g] = 1
         /\ \A g \in Pages \ (L \cup {b, f}) : refs'[g] = refs[g]
    BY <2>1, <2>2, UsedPages DEF IInv
  <2>11. size' \in [Pages -> Nat]
    BY <2>1, <2>2, <2>9
  <2>12. \A g \in Pages : size'[g] = IF g = f THEN m ELSE IF g = b THEN n ELSE Use(size, L)[g]
    BY <2>1, <2>2, <2>9
  <2>13. TypeOK'
    <3>1. content' \in [Pages -> Values]
      BY <2>1, AddressSpaceAssumption DEF Use, IInv, TypeOK
    <3> QED
      BY <2>1, <2>5, <2>10, <2>11, <3>1 DEF IInv, TypeOK, Tables
  <2>14. Referred'
    BY <2>2, <2>9, <2>10, <2>12 DEF IInv, Referred
  <2>15. ASSUME NEW g, NEW z \in Mappings(g)'
         PROVE  \/ g = f /\ z = <<p, 0>>
                \/ g # f /\ z \in Mappings(g)
    <3>1. z \in live \X VPages /\ pte'[z[1]][z[2]].v /\ pte'[z[1]][z[2]].frame = g
      BY <2>1, <2>15 DEF Mappings
    <3>2. PICK q \in live, u \in VPages : z = <<q, u>> /\ z[1] = q /\ z[2] = u
      BY <3>1
    <3>3. pte'[q][u].v /\ pte'[q][u].frame = g
      BY <3>1, <3>2
    <3>4. \/ q = p /\ u = 0 /\ g = f
          \/ g # f /\ pte[q][u].v /\ pte[q][u].frame = g
      BY <2>6, <3>3
    <3> QED
      BY <3>2, <3>4 DEF Mappings
  <2>16. ASSUME NEW g \in Pages
         PROVE  Cardinality(Mappings(g)') <= refs'[g]
    <3>1. CASE g = f
      <4>1. Mappings(g)' \subseteq {<<p, 0>>}
        BY <2>15, <3>1
      <4> QED
        BY <2>10, <3>1, <4>1, OneMapping
    <3>2. CASE g # f
      <4>1. /\ Mappings(g) \in SUBSET (live \X VPages)
            /\ refs[g] \in Nat /\ Cardinality(Mappings(g)) <= refs[g]
        BY TypeFacts DEF IInv, RefsCoverMappings, TypeOK
      <4>2. Mappings(g)' \subseteq Mappings(g)
        BY <2>15, <3>2
      <4>3. /\ Cardinality(Mappings(g)') <= Cardinality(Mappings(g))
            /\ Cardinality(Mappings(g)') \in Nat /\ Cardinality(Mappings(g)) \in Nat
        BY <2>2, <4>1, <4>2, FewerMappings, MappingsFinite
      <4>4. refs'[g] \in Nat /\ refs[g] <= refs'[g]
        <5>1. CASE g \in L \cup {b, f}
          <6>1. refs[g] = 0
            BY <2>2, <5>1, FreeIsUnmapped DEF IInv
          <6> QED
            BY <2>10, <5>1, <6>1
        <5>2. CASE g \notin L \cup {b, f}
          BY <2>10, <4>1, <5>2
        <5> QED
          BY <5>1, <5>2
      <4> QED
        BY <4>1, <4>3, <4>4
    <3> QED
      BY <3>1, <3>2
  <2> QED
    BY <2>7, <2>8, <2>13, <2>14, <2>16 DEF IInv, RefsCoverMappings
<1> QED
  BY <1>1, <1>2, Zenon DEF Exec

LEMMA InitEstablishes ==
  ASSUME Init, ImagePages = 1
  PROVE  IInv
<1>a. PICK f \in Pages, m \in Sizes :
        LET F == Pages \ Boot
        IN  /\ size = [Use([g \in Pages |-> 0], Boot \cup LoadPages(F, f, m)) EXCEPT ![f] = m]
            /\ refs = [g \in Pages |-> IF size[g] > 0 THEN 1 ELSE 0]
            /\ content = [g \in Pages |-> IF g \in Run(f, ImagePages) THEN 1 ELSE 0]
            /\ pte = [p \in Procs |-> IF p = First THEN ImageAt(f) ELSE [v \in VPages |-> NoEntry]]
            /\ live = {First}
            /\ down = FALSE
            /\ wild = FALSE
  BY Zenon DEF Init
<1>b. PICK L : L = Boot \cup LoadPages(Pages \ Boot, f, m)
  OBVIOUS
<1>1. /\ size = [Use([g \in Pages |-> 0], L) EXCEPT ![f] = m]
      /\ refs = [g \in Pages |-> IF size[g] > 0 THEN 1 ELSE 0]
      /\ content = [g \in Pages |-> IF g \in Run(f, ImagePages) THEN 1 ELSE 0]
      /\ pte = [p \in Procs |-> IF p = First THEN ImageAt(f) ELSE [v \in VPages |-> NoEntry]]
      /\ live = {First}
      /\ down = FALSE
      /\ wild = FALSE
  BY <1>a, <1>b
<1>2. /\ size \in [Pages -> Nat] /\ refs \in [Pages -> Nat]
      /\ content \in [Pages -> Values]
      /\ size[f] > 0 /\ refs[f] = 1
  <2>1. m \in Nat /\ m > 0
    BY PageRunsAssumption
  <2>2. size \in [Pages -> Nat] /\ size[f] = m
    BY <1>1, <2>1 DEF Use
  <2> QED
    BY <1>1, <2>1, <2>2, AddressSpaceAssumption
<1>3. pte \in Tables
  <2>1. [v \in VPages |-> NoEntry] \in
          [VPages -> [v : BOOLEAN, frame : Pages, w : BOOLEAN, s : BOOLEAN]]
    BY PageRunsAssumption DEF NoEntry, Pages
  <2> QED
    BY <1>1, <2>1, LoadedImage DEF Tables
<1>4. TypeOK
  BY <1>1, <1>2, <1>3, AddressSpaceAssumption DEF TypeOK, Tables
<1>5. \A q \in live : q = First
  BY <1>1
<1>6. pte[First] = ImageAt(f)
  BY <1>1, AddressSpaceAssumption
<1>7. \A q \in live : \A u \in Mapped(q) : u = 0 /\ pte[q][u].frame = f
  <2> SUFFICES ASSUME NEW q \in live, NEW u \in Mapped(q)
               PROVE  u = 0 /\ pte[q][u].frame = f
    OBVIOUS
  <2>1. u \in VPages /\ pte[q][u].v /\ q = First
    BY <1>5 DEF Mapped
  <2>2. ImageAt(f)[u].v
    BY <1>6, <2>1
  <2>3. u = 0 /\ ImageAt(f)[u].frame = f
    BY <2>1, <2>2, LoadedImage
  <2> QED
    BY <1>6, <2>1, <2>3
<1>8. SharedReadOnly /\ OnceEach
  BY <1>5, <1>7 DEF SharedReadOnly, OnceEach
<1>9. Referred
  BY <1>1, <1>2 DEF Referred
<1>10. ASSUME NEW g, NEW z \in Mappings(g)
       PROVE  g = f /\ z = <<First, 0>>
  <2>1. z \in live \X VPages /\ pte[z[1]][z[2]].v /\ pte[z[1]][z[2]].frame = g
    BY <1>10 DEF Mappings
  <2>2. PICK q \in live, u \in VPages : z = <<q, u>> /\ z[1] = q /\ z[2] = u
    BY <2>1
  <2>3. u \in Mapped(q) /\ pte[q][u].frame = g
    BY <2>1, <2>2 DEF Mapped
  <2> QED
    BY <1>5, <1>7, <2>2, <2>3
<1>11. ASSUME NEW g \in Pages
       PROVE  Cardinality(Mappings(g)) <= refs[g]
  <2>1. CASE g = f
    <3>1. Mappings(g) \subseteq {<<First, 0>>}
      BY <1>10
    <3> QED
      BY <1>2, <2>1, <3>1, OneMapping
  <2>2. CASE g # f
    <3>1. Mappings(g) = {}
      BY <1>10, <2>2
    <3>2. Cardinality(Mappings(g)) = 0
      BY <3>1, FS_EmptySet
    <3> QED
      BY <1>2, <3>2
  <2> QED
    BY <2>1, <2>2
<1> QED
  BY <1>4, <1>8, <1>9, <1>11 DEF IInv, RefsCoverMappings

-----------------------------------------------------------------------------
(***************************************************************************)
(* The invariant holds of every step.                                      *)
(***************************************************************************)
LEMMA StepKeeps ==
  ASSUME ImagePages = 1, IInv, [Next]_vars
  PROVE  IInv'
<1>1. ASSUME NEW p \in Procs, NEW v \in VPages, CopyOnWrite(p, v)
      PROVE  IInv'
  BY <1>1, CopyOnWriteKeeps
<1>2. ASSUME NEW p \in Procs, NEW v \in VPages, DemandPage(p, v)
      PROVE  IInv'
  BY <1>2, DemandPageKeeps
<1>3. ASSUME NEW p \in Procs, NEW v \in VPages, NEW x \in Values, Store(p, v, x)
      PROVE  IInv'
  BY <1>3, StoreKeeps
<1>4. ASSUME NEW p \in Procs, NEW c \in Procs, Fork(p, c)
      PROVE  IInv'
  BY <1>4, ForkKeeps
<1>5. ASSUME NEW p \in Procs, Exec(p)
      PROVE  IInv'
  BY <1>5, ExecKeeps
<1>6. ASSUME NEW p \in Procs, ExecInvalid(p)
      PROVE  IInv'
  BY <1>6, ExecInvalidKeeps
<1>7. ASSUME NEW p \in Procs, Exit(p)
      PROVE  IInv'
  BY <1>7, ExitKeeps
<1>8. CASE UNCHANGED vars
  BY <1>8 DEF vars, IInv, TypeOK, RefsCoverMappings, Mappings, SharedReadOnly, Mapped,
              OnceEach, Referred
<1> QED
  BY <1>1, <1>2, <1>3, <1>4, <1>5, <1>6, <1>7, <1>8 DEF Next

(***************************************************************************)
(* Copy-on-write: after any sequence of faults, forks, loads and exits, a  *)
(* frame that two entries of live processes name is writable through       *)
(* neither (do_fork, do_page_fault).                                       *)
(***************************************************************************)
THEOREM SharingIsReadOnly ==
  ASSUME ImagePages = 1
  PROVE  Spec => []SharedReadOnly
<1>1. Init => IInv
  BY InitEstablishes
<1>2. IInv /\ [Next]_vars => IInv'
  BY StepKeeps
<1>3. IInv => SharedReadOnly
  BY DEF IInv
<1> QED
  BY <1>1, <1>2, <1>3, PTL DEF Spec

(***************************************************************************)
(* No early release: ref_page and deref_page keep the counter of a frame   *)
(* at or above the page table entries of live processes that name it.      *)
(***************************************************************************)
THEOREM ReferencesSuffice ==
  ASSUME ImagePages = 1
  PROVE  Spec => []RefsCoverMappings
<1>1. Init => IInv
  BY InitEstablishes
<1>2. IInv /\ [Next]_vars => IInv'
  BY StepKeeps
<1>3. IInv => RefsCoverMappings
  BY DEF IInv
<1> QED
  BY <1>1, <1>2, <1>3, PTL DEF Spec
-----------------------------------------------------------------------------
(***************************************************************************)
(* Private memory.  What a process sees at a page, and the abstract state  *)
(* as a function of it.  A live process always has its image, by which the *)
(* abstract specification tells that it is there.                          *)
(***************************************************************************)
At(p, v) == IF Readable(p, v) THEN content[pte[p][v].frame] ELSE Unmapped
Loaded == \A p \in live : pte[p][0].v
MemInv == IInv /\ Loaded

LEMMA MemoryAt ==
  /\ Memory = [p \in Procs |-> [v \in VPages |-> At(p, v)]]
  /\ Memory' = [p \in Procs |-> [v \in VPages |-> At(p, v)']]
BY DEF Memory, At

LEMMA SameMemory ==
  ASSUME \A p \in Procs, v \in VPages : At(p, v)' = At(p, v)
  PROVE  UNCHANGED Memory
BY MemoryAt

\* One process gets another memory.
LEMMA OtherMemory ==
  ASSUME NEW p \in Procs, NEW g,
         \A q \in Procs \ {p} : \A v \in VPages : At(q, v)' = At(q, v),
         g = [v \in VPages |-> At(p, v)']
  PROVE  Memory' = [Memory EXCEPT ![p] = g]
BY MemoryAt

\* One page of it changes.
LEMMA OtherPage ==
  ASSUME NEW p \in Procs, NEW w \in VPages, NEW x,
         \A q \in Procs, v \in VPages : At(q, v)' = IF q = p /\ v = w THEN x ELSE At(q, v)
  PROVE  Memory' = [Memory EXCEPT ![p][w] = x]
<1>1. [Memory EXCEPT ![p][w] = x] =
        [q \in Procs |-> [v \in VPages |-> IF q = p /\ v = w THEN x ELSE At(q, v)]]
  BY MemoryAt
<1> QED BY <1>1, MemoryAt

\* The abstract specification takes the same processes for live ones.
LEMMA LiveAlike ==
  ASSUME MemInv, ImagePages = 1, NEW p \in Procs
  PROVE  /\ p \in live => p \in User!Live
         /\ p \notin live => p \notin User!Live
<1>1. 0 \in VPages
  BY DEF VPages, Image
<1>2. CASE p \in live
  <2>1. At(p, 0) \in Values
    BY <1>1, <1>2 DEF At, Readable, MemInv, Loaded, IInv, TypeOK
  <2>2. Memory[p][0] # Unmapped
    BY <1>1, <2>1, MemoryAt, AddressSpaceAssumption
  <2>3. User!Nothing[0] = Unmapped
    BY <1>1 DEF User!Nothing, User!VPages, VPages
  <2> QED BY <1>2, <2>2, <2>3 DEF User!Live
<1>3. CASE p \notin live
  <2>1. \A v \in VPages : At(p, v) = Unmapped
    BY <1>3 DEF At, Readable
  <2>2. Memory[p] = User!Nothing
    BY <2>1, MemoryAt DEF User!Nothing, User!VPages, VPages
  <2> QED BY <1>3, <2>2 DEF User!Live
<1> QED BY <1>2, <1>3

\* A live process maps frames, and no free one.
LEMMA FramesSeen ==
  ASSUME MemInv, NEW p \in live, NEW v \in VPages, pte[p][v].v
  PROVE  /\ pte[p][v].frame \in Pages /\ pte[p][v].frame \notin Free
         /\ At(p, v) = content[pte[p][v].frame] /\ At(p, v) \in Values
<1>1. v \in Mapped(p)
  BY DEF Mapped
<1>2. pte[p][v].frame \in Pages
  BY <1>1, TypeFacts DEF MemInv, IInv
<1>3. pte[p][v].frame \notin Free
  BY <1>1, FreeIsUnmapped DEF MemInv, IInv
<1> QED BY <1>2, <1>3 DEF At, Readable, MemInv, IInv, TypeOK

-----------------------------------------------------------------------------
\* The machine is reset: memory is as it was.
LEMMA ResetMaps == ASSUME OutOfMemory PROVE User!Reset /\ UNCHANGED <<pte, live>>
<1>1. UNCHANGED Memory
  BY SameMemory DEF OutOfMemory, At, Readable
<1> QED BY <1>1 DEF OutOfMemory, User!Reset

LEMMA StoreMaps ==
  ASSUME MemInv, NEW p \in Procs, NEW v \in VPages, NEW x \in Values, Store(p, v, x)
  PROVE  User!Store(p, v, x)
<1>1. /\ p \in live /\ pte[p][v].v /\ pte[p][v].w /\ v \in Mapped(p)
      /\ content' = [content EXCEPT ![pte[p][v].frame] = x] /\ UNCHANGED <<pte, live>>
  BY DEF Store, Runs, Mapped
<1>2. ASSUME NEW q \in Procs, NEW u \in VPages
      PROVE  At(q, u)' = IF q = p /\ u = v THEN x ELSE At(q, u)
  <2>1. CASE q = p /\ u = v
    BY <1>1, <2>1, FramesSeen DEF At, Readable, MemInv, IInv, TypeOK
  <2>2. CASE ~(q = p /\ u = v) /\ Readable(q, u)
    <3>1. q \in live /\ u \in Mapped(q) /\ pte[q][u].v
      BY <2>2 DEF Readable, Mapped
    <3>2. pte[q][u].frame # pte[p][v].frame
      BY <1>1, <2>2, <3>1 DEF MemInv, IInv, SharedReadOnly
    <3> QED BY <1>1, <2>2, <3>1, <3>2, FramesSeen DEF At, Readable, MemInv, IInv, TypeOK
  <2>3. CASE ~Readable(q, u)
    BY <1>1, <2>3 DEF At, Readable
  <2> QED BY <2>1, <2>2, <2>3
<1>3. Memory[p][v] # Unmapped
  BY <1>1, MemoryAt, FramesSeen, AddressSpaceAssumption
<1> QED BY <1>2, <1>3, OtherPage DEF User!Store

LEMMA CopyOnWriteMaps ==
  ASSUME MemInv, NEW p \in Procs, NEW v \in VPages, CopyOnWrite(p, v)
  PROVE  User!Reset \/ UNCHANGED <<Memory, down>>
<1>1. CASE ~OutOfMemory
  <2>1. PICK f \in Lowest(Free, 1) :
          /\ content' = [content EXCEPT ![f] = content[pte[p][v].frame]]
          /\ pte' = [pte EXCEPT ![p][v] = Entry(f, TRUE, FALSE)]
          /\ UNCHANGED <<live, down>>
    BY <1>1 DEF CopyOnWrite
  <2>2. f \in Free /\ f \in Pages /\ p \in live /\ pte[p][v].v
    BY <1>1, LowestIsFree DEF CopyOnWrite, Runs, Lowest, Free, FreePages
  <2>3. /\ pte \in Tables /\ content \in [Pages -> Values]
        /\ \A q \in live : \A u \in VPages : pte[q][u].v => pte[q][u].frame # f /\ pte[q][u].frame \in Pages
    BY <2>2, FramesSeen DEF MemInv, IInv, TypeOK, Tables
  <2>4. \A q \in Procs, u \in VPages :
          pte'[q][u] = IF q = p /\ u = v THEN Entry(f, TRUE, FALSE) ELSE pte[q][u]
    BY <2>1, <2>3 DEF Tables
  <2>5. /\ Readable(p, v)' /\ pte'[p][v].frame = f
        /\ \A q \in Procs, u \in VPages : ~(q = p /\ u = v) =>
             (Readable(q, u)' <=> Readable(q, u)) /\ pte'[q][u].frame = pte[q][u].frame
    BY <2>1, <2>2, <2>4 DEF Entry, Readable
  <2>6. /\ content'[f] = content[pte[p][v].frame]
        /\ \A g \in Pages \ {f} : content'[g] = content[g]
    BY <2>1, <2>2, <2>3
  <2>7. ASSUME NEW q \in Procs, NEW u \in VPages PROVE At(q, u)' = At(q, u)
    <3>1. CASE q = p /\ u = v
      <4>1. Readable(p, v)
        BY <2>2 DEF Readable
      <4> QED BY <2>5, <2>6, <3>1, <4>1 DEF At
    <3>2. CASE ~(q = p /\ u = v) /\ Readable(q, u)
      <4>1. pte[q][u].frame \in Pages \ {f}
        BY <2>3, <3>2 DEF Readable
      <4> QED BY <2>5, <2>6, <3>2, <4>1 DEF At
    <3>3. CASE ~(q = p /\ u = v) /\ ~Readable(q, u)
      BY <2>5, <3>3 DEF At
    <3> QED BY <3>1, <3>2, <3>3
  <2> QED BY <2>1, <2>7, SameMemory
<1> QED BY <1>1, ResetMaps

LEMMA DemandPageMaps ==
  ASSUME MemInv, NEW p \in Procs, NEW v \in VPages, DemandPage(p, v)
  PROVE  User!Reset \/ \E x \in Values : User!Touch(p, v, x) /\ UNCHANGED down
<1>1. CASE ~OutOfMemory
  <2>1. PICK f \in Lowest(Free, 1) :
          /\ pte' = [pte EXCEPT ![p][v] = Entry(f, TRUE, FALSE)]
          /\ UNCHANGED <<content, live, down>>
    BY <1>1 DEF DemandPage
  <2>2. f \in Pages /\ p \in live /\ v \in Stack /\ ~pte[p][v].v
    BY DEF DemandPage, Runs, Lowest, Free, FreePages
  <2>3. pte \in Tables /\ content \in [Pages -> Values]
    BY DEF MemInv, IInv, TypeOK, Tables
  <2>4. \A q \in Procs, u \in VPages :
          pte'[q][u] = IF q = p /\ u = v THEN Entry(f, TRUE, FALSE) ELSE pte[q][u]
    BY <2>1, <2>3 DEF Tables
  <2>5. /\ Readable(p, v)' /\ pte'[p][v].frame = f
        /\ \A q \in Procs, u \in VPages : ~(q = p /\ u = v) =>
             (Readable(q, u)' <=> Readable(q, u)) /\ pte'[q][u].frame = pte[q][u].frame
    BY <2>1, <2>2, <2>4 DEF Entry, Readable
  <2>6. PICK x \in Values : x = content[f]
    BY <2>2, <2>3
  <2>7. ASSUME NEW q \in Procs, NEW u \in VPages
        PROVE  At(q, u)' = IF q = p /\ u = v THEN x ELSE At(q, u)
    <3>1. CASE q = p /\ u = v
      <4>1. At(p, v)' = content'[f]
        BY <2>5 DEF At
      <4> QED BY <2>1, <2>6, <3>1, <4>1
    <3>2. CASE ~(q = p /\ u = v)
      <4>1. (Readable(q, u)' <=> Readable(q, u)) /\ pte'[q][u].frame = pte[q][u].frame
        BY <2>5, <3>2
      <4>2. CASE Readable(q, u)
        <5>1. At(q, u)' = content[pte[q][u].frame] /\ At(q, u) = content[pte[q][u].frame]
          BY <2>1, <4>1, <4>2 DEF At
        <5> QED BY <3>2, <5>1
      <4>3. CASE ~Readable(q, u)
        BY <3>2, <4>1, <4>3 DEF At
      <4> QED BY <4>2, <4>3
    <3> QED BY <3>1, <3>2
  <2>8. Memory[p][v] = Unmapped
    BY <2>2, MemoryAt DEF At, Readable
  <2> QED BY <2>1, <2>2, <2>7, <2>8, OtherPage DEF User!Touch
<1> QED BY <1>1, ResetMaps
LEMMA ForkMaps ==
  ASSUME MemInv, ImagePages = 1, NEW p \in Procs, NEW c \in Procs, Fork(p, c)
  PROVE  User!Reset \/ (User!Fork(p, c) /\ UNCHANGED down)
<1>1. CASE ~OutOfMemory
  <2>1. /\ pte' = [pte EXCEPT ![p] = Shared(p), ![c] = Shared(p)] /\ live' = live \cup {c}
        /\ UNCHANGED <<content, down>>
    BY <1>1 DEF Fork
  <2>2. p \in live /\ c \notin live /\ p # c
    BY DEF Fork, Runs
  <2>3. pte \in Tables
    BY DEF MemInv, IInv, TypeOK, Tables
  <2>4. /\ pte'[p] = Shared(p) /\ pte'[c] = Shared(p)
        /\ \A q \in Procs \ {p, c} : pte'[q] = pte[q]
    BY <2>1, <2>2, <2>3 DEF Tables
  <2>5. ASSUME NEW u \in VPages
        PROVE  /\ Shared(p)[u].v = pte[p][u].v
               /\ pte[p][u].v => Shared(p)[u].frame = pte[p][u].frame
    <3>1. pte[p][u].v \in BOOLEAN
      BY <2>3 DEF Tables
    <3> QED BY <3>1 DEF Shared, Entry, NoEntry
  <2>6. ASSUME NEW u \in VPages
        PROVE  /\ At(p, u)' = At(p, u) /\ At(c, u)' = At(p, u)
               /\ \A q \in Procs \ {p, c} : At(q, u)' = At(q, u)
    <3>1. At(p, u)' = At(p, u)
      BY <2>1, <2>2, <2>4, <2>5 DEF At, Readable
    <3>2. At(c, u)' = At(p, u)
      BY <2>1, <2>2, <2>4, <2>5 DEF At, Readable
    <3>3. ASSUME NEW q \in Procs \ {p, c} PROVE At(q, u)' = At(q, u)
      <4>1. pte'[q] = pte[q] /\ (q \in live' <=> q \in live)
        BY <2>1, <2>4
      <4> QED BY <2>1, <4>1 DEF At, Readable
    <3> QED BY <3>1, <3>2, <3>3
  <2>7. PICK g : g = Memory[p]
    OBVIOUS
  <2>8. g = [u \in VPages |-> At(c, u)']
    BY <2>6, <2>7, MemoryAt
  <2>9. Memory' = [Memory EXCEPT ![c] = g]
    <3>1. \A q \in Procs \ {c} : \A u \in VPages : At(q, u)' = At(q, u)
      BY <2>6
    <3> QED BY <2>8, <3>1, OtherMemory
  <2> QED BY <2>1, <2>2, <2>7, <2>9, LiveAlike DEF User!Fork
<1> QED BY <1>1, ResetMaps

LEMMA ExecMaps ==
  ASSUME MemInv, ImagePages = 1, NEW p \in Procs, Exec(p)
  PROVE  /\ User!Reset \/ (User!Exec(p) /\ UNCHANGED down)
         /\ Loaded'
<1>0. p \in live /\ p \in Procs /\ pte \in Tables /\ content \in [Pages -> Values] /\ live \subseteq Procs
  BY DEF Exec, Runs, MemInv, IInv, TypeOK, Tables
<1>1. CASE ~OutOfMemory
  <2>1. PICK f \in Free :
          /\ content' = Use(content, Run(f, ImagePages))
          /\ pte' = [pte EXCEPT ![p] = ImageAt(f)]
          /\ UNCHANGED <<live, down>>
    BY <1>1, Zenon DEF Exec
  <2>2. f \in Pages
    BY DEF Free, FreePages
  <2>3. pte'[p] = ImageAt(f) /\ \A q \in Procs \ {p} : pte'[q] = pte[q]
    BY <1>0, <2>1 DEF Tables
  <2>4. content'[f] = 1 /\ \A g \in Pages \ {f} : content'[g] = content[g]
    <3>1. Run(f, ImagePages) = {f}
      BY <2>2 DEF Run, Pages
    <3> QED BY <2>1, <2>2, <3>1 DEF Use
  <2>5. \A v \in VPages : ImageAt(f)[v] = IF v \in Image THEN Entry(f + v, TRUE, FALSE) ELSE NoEntry
    BY DEF ImageAt
  <2>6. \A v : v \in Image <=> v = 0
    BY DEF Image
  <2>7. f + 0 = f
    BY <2>2 DEF Pages
  <2>8. ASSUME NEW v \in VPages PROVE At(p, v)' = IF v \in Image THEN 1 ELSE Unmapped
    <3>1. CASE v \in Image
      <4>1. pte'[p][v] = Entry(f, TRUE, FALSE)
        BY <2>3, <2>5, <2>6, <2>7, <3>1
      <4>2. Readable(p, v)' /\ pte'[p][v].frame = f
        BY <1>0, <2>1, <4>1 DEF Readable, Entry
      <4> QED BY <2>4, <3>1, <4>2 DEF At
    <3>2. CASE v \notin Image
      <4>1. pte'[p][v] = NoEntry
        BY <2>3, <2>5, <3>2
      <4> QED BY <3>2, <4>1 DEF At, Readable, NoEntry
    <3> QED BY <3>1, <3>2
  <2>9. ASSUME NEW q \in Procs \ {p}, NEW v \in VPages PROVE At(q, v)' = At(q, v)
    <3>1. CASE Readable(q, v)
      <4>1. pte[q][v].frame \in Pages \ {f}
        BY <3>1, FramesSeen DEF Readable
      <4> QED BY <2>1, <2>3, <2>4, <4>1 DEF At, Readable
    <3>2. CASE ~Readable(q, v)
      BY <2>1, <2>3, <3>2 DEF At, Readable
    <3> QED BY <3>1, <3>2
  <2>10. User!Fresh = [v \in VPages |-> At(p, v)']
    BY <2>8 DEF User!Fresh, User!VPages, VPages
  <2>11. Memory' = [Memory EXCEPT ![p] = User!Fresh]
    BY <2>9, <2>10, OtherMemory
  <2>12. Loaded'
    <3>1. pte'[p][0].v
      <4>1. 0 \in Image /\ 0 \in VPages
        BY <2>6 DEF VPages
      <4>2. pte'[p][0] = Entry(f, TRUE, FALSE)
        BY <2>3, <2>5, <2>7, <4>1
      <4> QED BY <4>2 DEF Entry
    <3> QED BY <1>0, <2>1, <2>3, <3>1 DEF Loaded, MemInv
  <2> QED BY <2>1, <2>11, <2>12 DEF User!Exec
<1>2. CASE OutOfMemory
  BY <1>2, ResetMaps DEF MemInv, Loaded
<1> QED BY <1>1, <1>2

LEMMA ExecInvalidMaps ==
  ASSUME NEW p \in Procs, ExecInvalid(p)
  PROVE  User!Reset \/ UNCHANGED <<Memory, down>>
<1>1. CASE ~OutOfMemory
  <2>1. UNCHANGED <<content, pte, live, down>>
    BY <1>1 DEF ExecInvalid
  <2> QED BY <2>1, SameMemory DEF At, Readable
<1> QED BY <1>1, ResetMaps

LEMMA ExitMaps ==
  ASSUME NEW p \in Procs, Exit(p)
  PROVE  User!Exit(p) /\ UNCHANGED down
<1>1. live' = live \ {p} /\ UNCHANGED <<content, pte, down>>
  BY DEF Exit
<1>2. \A q \in Procs \ {p} : \A v \in VPages : At(q, v)' = At(q, v)
  BY <1>1 DEF At, Readable
<1>3. User!Nothing = [v \in VPages |-> At(p, v)']
  BY <1>1 DEF At, Readable, User!Nothing, User!VPages, VPages
<1> QED BY <1>1, <1>2, <1>3, OtherMemory DEF User!Exit

-----------------------------------------------------------------------------
\* No operation takes the image from a process that goes on.
LEMMA LoadedKept ==
  ASSUME MemInv, ImagePages = 1, [Next]_vars
  PROVE  Loaded'
<1>0. pte \in Tables /\ 0 \in VPages /\ live \subseteq Procs
  <2>1. 0 \in VPages
    BY DEF VPages, Image
  <2> QED BY <2>1 DEF MemInv, IInv, TypeOK, Tables
<1>1. ASSUME NEW p \in Procs, NEW v \in VPages, NEW f,
             pte' = [pte EXCEPT ![p][v] = Entry(f, TRUE, FALSE)], UNCHANGED live
      PROVE  Loaded'
  <2>1. ASSUME NEW q \in live PROVE pte'[q][0].v
    <3>1. CASE q = p /\ v = 0
      BY <1>0, <1>1, <3>1 DEF Entry, Tables
    <3>2. CASE ~(q = p /\ v = 0)
      <4>1. pte'[q][0] = pte[q][0] /\ pte[q][0].v
        BY <1>0, <1>1, <3>2 DEF Tables, MemInv, Loaded
      <4> QED BY <4>1
    <3> QED BY <3>1, <3>2
  <2> QED BY <1>1, <2>1 DEF Loaded
<1>2. CASE UNCHANGED <<pte, live>>
  BY <1>2 DEF MemInv, Loaded
<1>3. ASSUME NEW p \in Procs, NEW v \in VPages, CopyOnWrite(p, v) PROVE Loaded'
  <2>1. CASE ~OutOfMemory
    <3>1. PICK f \in Lowest(Free, 1) : pte' = [pte EXCEPT ![p][v] = Entry(f, TRUE, FALSE)] /\ UNCHANGED live
      BY <1>3, <2>1 DEF CopyOnWrite
    <3> QED BY <1>1, <3>1
  <2> QED BY <1>2, <2>1, ResetMaps
<1>4. ASSUME NEW p \in Procs, NEW v \in VPages, DemandPage(p, v) PROVE Loaded'
  <2>1. CASE ~OutOfMemory
    BY <1>1, <1>4, <2>1 DEF DemandPage
  <2> QED BY <1>2, <2>1, ResetMaps
<1>5. ASSUME NEW p \in Procs, NEW c \in Procs, Fork(p, c) PROVE Loaded'
  <2>1. CASE ~OutOfMemory
    <3>1. pte' = [pte EXCEPT ![p] = Shared(p), ![c] = Shared(p)] /\ live' = live \cup {c} /\ p \in live
      BY <1>5, <2>1 DEF Fork, Runs
    <3>2. pte[p][0].v
      BY <3>1 DEF MemInv, Loaded
    <3>3. Shared(p)[0].v
      BY <1>0, <3>2 DEF Shared, Entry
    <3> QED BY <1>0, <3>1, <3>3 DEF Tables, MemInv, Loaded
  <2> QED BY <1>2, <2>1, ResetMaps
<1>6. ASSUME NEW p \in Procs, Exit(p) PROVE Loaded'
  BY <1>6 DEF Exit, MemInv, Loaded
<1>7. ASSUME NEW p \in Procs, ExecInvalid(p) PROVE Loaded'
  <2>1. CASE ~OutOfMemory
    BY <1>2, <1>7, <2>1 DEF ExecInvalid
  <2> QED BY <1>2, <2>1, ResetMaps
<1> QED BY <1>2, <1>3, <1>4, <1>5, <1>6, <1>7, ExecMaps DEF Next, Store, vars

LEMMA InitMaps ==
  ASSUME Init, ImagePages = 1
  PROVE  Loaded /\ User!Init
<1>1. PICK f \in Pages :
        /\ content = [g \in Pages |-> IF g \in Run(f, ImagePages) THEN 1 ELSE 0]
        /\ pte = [p \in Procs |-> IF p = First THEN ImageAt(f) ELSE [v \in VPages |-> NoEntry]]
        /\ live = {First} /\ down = FALSE
  BY Zenon DEF Init
<1>2. content[f] = 1
  BY <1>1 DEF Run, Pages
<1>3. pte[First] = ImageAt(f) /\ First \in Procs
  BY <1>1, AddressSpaceAssumption
<1>4. \A v : v \in Image <=> v = 0
  BY DEF Image
<1>5. f + 0 = f
  BY DEF Pages
<1>6. ASSUME NEW v \in VPages PROVE At(First, v) = IF v \in Image THEN 1 ELSE Unmapped
  <2>1. CASE v \in Image
    <3>1. pte[First][v] = Entry(f, TRUE, FALSE)
      BY <1>3, <1>4, <1>5, <2>1 DEF ImageAt
    <3>2. Readable(First, v) /\ pte[First][v].frame = f
      BY <1>1, <3>1 DEF Readable, Entry
    <3> QED BY <1>2, <2>1, <3>2 DEF At
  <2>2. CASE v \notin Image
    <3>1. pte[First][v] = NoEntry
      BY <1>3, <2>2 DEF ImageAt
    <3> QED BY <2>2, <3>1 DEF At, Readable, NoEntry
  <2> QED BY <2>1, <2>2
<1>7. \A q \in Procs \ {First}, v \in VPages : At(q, v) = Unmapped
  BY <1>1 DEF At, Readable
<1>8. Memory = [q \in Procs |-> IF q = First THEN User!Fresh ELSE User!Nothing]
  <2>1. User!Fresh = [v \in VPages |-> At(First, v)]
    BY <1>6 DEF User!Fresh, User!VPages, VPages
  <2>2. \A q \in Procs \ {First} : User!Nothing = [v \in VPages |-> At(q, v)]
    BY <1>7 DEF User!Nothing, User!VPages, VPages
  <2> QED BY <2>1, <2>2, MemoryAt
<1>9. Loaded
  <2>1. 0 \in VPages /\ pte[First][0] = Entry(f, TRUE, FALSE)
    BY <1>3, <1>4, <1>5 DEF ImageAt, VPages
  <2> QED BY <1>1, <2>1 DEF Loaded, Entry
<1> QED BY <1>1, <1>3, <1>8, <1>9 DEF User!Init

LEMMA NextMaps ==
  ASSUME MemInv, ImagePages = 1, [Next]_vars
  PROVE  [User!Next]_(User!vars)
<1>1. CASE UNCHANGED vars
  <2>1. UNCHANGED Memory
    BY <1>1, SameMemory DEF vars, At, Readable
  <2> QED BY <1>1, <2>1 DEF vars, User!vars
<1>2. ASSUME NEW p \in Procs, p \in live, ~down,
             \/ \E v \in VPages, x \in Values : User!Store(p, v, x) \/ User!Touch(p, v, x)
             \/ \E c \in Procs : User!Fork(p, c)
             \/ User!Exec(p)
             \/ User!Exit(p),
             UNCHANGED down
      PROVE  User!Next
  <2>1. p \in User!Live
    BY <1>2, LiveAlike
  <2>2. User!VPages = VPages
    BY DEF User!VPages, VPages
  <2> QED BY <1>2, <2>1, <2>2 DEF User!Next
<1>3. User!Reset => User!Next
  BY DEF User!Next
<1>4. UNCHANGED <<Memory, down>> => UNCHANGED User!vars
  BY DEF User!vars
<1>5. ASSUME NEW p \in Procs, NEW v \in VPages, CopyOnWrite(p, v) PROVE [User!Next]_(User!vars)
  BY <1>3, <1>4, <1>5, CopyOnWriteMaps
<1>6. ASSUME NEW p \in Procs, NEW v \in VPages, DemandPage(p, v) PROVE User!Next
  BY <1>2, <1>3, <1>6, DemandPageMaps DEF DemandPage, Runs
<1>7. ASSUME NEW p \in Procs, NEW v \in VPages, NEW x \in Values, Store(p, v, x) PROVE User!Next
  BY <1>2, <1>7, StoreMaps DEF Store, Runs
<1>8. ASSUME NEW p \in Procs, NEW c \in Procs, Fork(p, c) PROVE User!Next
  BY <1>2, <1>3, <1>8, ForkMaps DEF Fork, Runs
<1>9. ASSUME NEW p \in Procs, Exec(p) PROVE User!Next
  BY <1>2, <1>3, <1>9, ExecMaps DEF Exec, Runs
<1>10. ASSUME NEW p \in Procs, ExecInvalid(p) PROVE [User!Next]_(User!vars)
  BY <1>3, <1>4, <1>10, ExecInvalidMaps
<1>11. ASSUME NEW p \in Procs, Exit(p) PROVE User!Next
  BY <1>2, <1>11, ExitMaps DEF Exit, Runs
<1> QED BY <1>1, <1>5, <1>6, <1>7, <1>8, <1>9, <1>10, <1>11 DEF Next

(***************************************************************************)
(* Private memory: page tables, faults, copy-on-write and the counters of  *)
(* frames implement a memory for each process that nobody else writes, of  *)
(* which fork makes a copy and which execve replaces by the image.         *)
(***************************************************************************)
THEOREM MemoryIsPrivate ==
  ASSUME ImagePages = 1
  PROVE  Spec => ImplementsUserMemory
<1>1. Init => MemInv /\ User!Init
  BY InitEstablishes, InitMaps DEF MemInv
<1>2. MemInv /\ [Next]_vars => MemInv'
  BY StepKeeps, LoadedKept DEF MemInv
<1>3. MemInv /\ [Next]_vars => [User!Next]_(User!vars)
  BY NextMaps
<1> QED
  BY <1>1, <1>2, <1>3, PTL DEF Spec, ImplementsUserMemory, User!Spec
-----------------------------------------------------------------------------
(***************************************************************************)
(* The allocator under the address spaces, for any requests of any         *)
(* callers, on the same variables: allocations do not overlap and a run is *)
(* in use exactly while it is referred to.  The order in which runs are    *)
(* taken (IsFirst) plays no part: what makes this true is that a run is    *)
(* taken from pages no other run holds.                                    *)
(***************************************************************************)
CONSTANTS Reserved, Requests   \* of PageAlloc

PA == INSTANCE PageAlloc

AllocInv == PA!TypeOK /\ PA!RunsDisjoint /\ PA!HeldIffReferenced

\* A run found among the free pages touches no run in use.
LEMMA FreeRunIsApart ==
  ASSUME NEW sz \in [PA!Pages -> Nat], NEW m \in Nat,
         NEW p \in PA!RunsIn(PA!FreePages(sz), m), NEW q \in PA!Pages
  PROVE  p \in PA!Pages /\ PA!Run(p, m) \cap PA!Run(q, sz[q]) = {}
<1>1. PA!Run(q, sz[q]) \subseteq PA!Busy(sz)
  BY DEF PA!Busy
<1>2. PA!Run(p, m) \subseteq PA!Pages \ PA!Busy(sz) /\ p \in PA!Pages
  BY DEF PA!RunsIn, PA!FreePages
<1> QED
  BY <1>1, <1>2

\* Runs stay disjoint when a run is taken from the free pages.
LEMMA TakingKeepsDisjoint ==
  ASSUME NEW sz \in [PA!Pages -> Nat], PA!Disjoint(sz), NEW m \in Nat,
         NEW p \in PA!RunsIn(PA!FreePages(sz), m)
  PROVE  PA!Disjoint([sz EXCEPT ![p] = m])
<1> DEFINE new == [sz EXCEPT ![p] = m]
<1>1. p \in PA!Pages /\ \A q \in PA!Pages : PA!Run(p, m) \cap PA!Run(q, sz[q]) = {}
  BY FreeRunIsApart DEF PA!RunsIn, PA!FreePages
<1>2. \A q \in PA!Pages : new[q] = IF q = p THEN m ELSE sz[q]
  OBVIOUS
<1>3. ASSUME NEW a \in PA!Pages, NEW b \in PA!Pages, a # b
      PROVE  PA!Run(a, new[a]) \cap PA!Run(b, new[b]) = {}
  <2>1. CASE a = p
    BY <1>1, <1>2, <1>3, <2>1
  <2>2. CASE b = p
    BY <1>1, <1>2, <1>3, <2>2
  <2>3. CASE a # p /\ b # p
    BY <1>2, <1>3, <2>3 DEF PA!Disjoint
  <2> QED
    BY <2>1, <2>2, <2>3
<1> QED
  BY <1>3 DEF PA!Disjoint

\* Runs stay disjoint when one of them is released.
LEMMA ReleaseKeepsDisjoint ==
  ASSUME NEW sz \in [PA!Pages -> Nat], PA!Disjoint(sz), NEW p \in PA!Pages
  PROVE  PA!Disjoint([sz EXCEPT ![p] = 0])
<1> DEFINE new == [sz EXCEPT ![p] = 0]
<1>1. PA!Run(p, 0) = {}
  BY DEF PA!Run, PA!Pages
<1>2. \A q \in PA!Pages : new[q] = IF q = p THEN 0 ELSE sz[q]
  OBVIOUS
<1> QED
  BY <1>1, <1>2 DEF PA!Disjoint

\* The pages in use at boot are runs of one page each.
LEMMA AllocatorStarts == PA!Init => AllocInv
<1> SUFFICES ASSUME PA!Init PROVE AllocInv
  OBVIOUS
<1>1. size \in [PA!Pages -> {0, 1}] /\ refs = size /\ down = FALSE
  BY DEF PA!Init
<1>2. PA!RunsDisjoint
  <2>1. ASSUME NEW p \in PA!Pages
        PROVE  PA!Run(p, size[p]) \subseteq {p}
    <3>1. p \in Nat
      BY DEF PA!Pages
    <3>2. CASE size[p] = 0
      BY <3>1, <3>2 DEF PA!Run
    <3>3. CASE size[p] = 1
      BY <3>1, <3>3 DEF PA!Run
    <3> QED
      BY <1>1, <3>2, <3>3
  <2> QED
    BY <2>1 DEF PA!RunsDisjoint, PA!Disjoint
<1>3. PA!TypeOK
  <2>1. size \in [PA!Pages -> Nat]
    BY <1>1
  <2> QED
    BY <1>1, <2>1 DEF PA!TypeOK
<1>4. PA!HeldIffReferenced
  BY <1>1 DEF PA!HeldIffReferenced
<1> QED
  BY <1>2, <1>3, <1>4 DEF AllocInv

\* One step per operation of the allocator.
LEMMA AllocatorSteps == AllocInv /\ [PA!Next]_(PA!vars) => AllocInv'
<1> SUFFICES ASSUME AllocInv, [PA!Next]_(PA!vars) PROVE AllocInv'
  OBVIOUS
<1> USE PageRunsAssumption DEF AllocInv, PA!TypeOK
<1>1. ASSUME NEW n \in Requests, PA!Alloc(n) PROVE AllocInv'
  <2>1. PICK m \in PA!Rounded(n), p \in PA!Pages :
          /\ p \in PA!RunsIn(PA!FreePages(size), m)
          /\ size' = [size EXCEPT ![p] = m]
          /\ refs' = [refs EXCEPT ![p] = 1]
    <3>1. \A m : PA!RunsIn(PA!FreePages(size), m) \subseteq PA!Pages
      BY DEF PA!RunsIn, PA!FreePages
    <3> QED
      BY <1>1, <3>1, Zenon DEF PA!Alloc
  <2>2. m \in Nat \ {0}
    BY DEF PA!Rounded
  <2>3. PA!TypeOK'
    BY <1>1, <2>1, <2>2 DEF PA!Alloc
  <2>4. PA!RunsDisjoint'
    <3>1. PA!Disjoint([size EXCEPT ![p] = m])
      BY <2>1, <2>2, TakingKeepsDisjoint DEF PA!RunsDisjoint
    <3> QED
      BY <3>1, <2>1 DEF PA!RunsDisjoint, PA!Disjoint
  <2>5. PA!HeldIffReferenced'
    BY <2>1, <2>2 DEF PA!HeldIffReferenced
  <2> QED
    BY <2>3, <2>4, <2>5
<1>2. ASSUME NEW n \in Requests, PA!OutOfMemory(n) PROVE AllocInv'
  BY <1>2 DEF PA!OutOfMemory, PA!RunsDisjoint, PA!Disjoint, PA!HeldIffReferenced
<1>3. ASSUME NEW p \in PA!Pages, PA!Ref(p) PROVE AllocInv'
  <2>1. PA!TypeOK' /\ PA!HeldIffReferenced'
    BY <1>3 DEF PA!Ref, PA!HeldIffReferenced
  <2> QED
    BY <1>3, <2>1 DEF PA!Ref, PA!RunsDisjoint, PA!Disjoint
<1>4. ASSUME NEW p \in PA!Pages, PA!Deref(p) PROVE AllocInv'
  <2>1. refs[p] \in Nat \ {0} /\ refs' = [refs EXCEPT ![p] = @ - 1]
    BY <1>4 DEF PA!Deref
  <2>2. CASE refs[p] = 1
    <3>1. size' = [size EXCEPT ![p] = 0]
      BY <1>4, <2>2 DEF PA!Deref
    <3>2. PA!Disjoint([size EXCEPT ![p] = 0])
      BY ReleaseKeepsDisjoint DEF PA!RunsDisjoint
    <3>3. PA!RunsDisjoint'
      BY <3>1, <3>2 DEF PA!RunsDisjoint, PA!Disjoint
    <3>4. PA!TypeOK' /\ PA!HeldIffReferenced'
      BY <1>4, <2>1, <2>2, <3>1 DEF PA!Deref, PA!HeldIffReferenced
    <3> QED
      BY <3>3, <3>4
  <2>3. CASE refs[p] # 1
    <3>1. size' = size
      BY <1>4, <2>3 DEF PA!Deref
    <3>2. PA!TypeOK' /\ PA!HeldIffReferenced'
      BY <1>4, <2>1, <2>3, <3>1 DEF PA!Deref, PA!HeldIffReferenced
    <3> QED
      BY <3>1, <3>2 DEF PA!RunsDisjoint, PA!Disjoint
  <2> QED
    BY <2>2, <2>3
<1>5. CASE UNCHANGED PA!vars
  BY <1>5 DEF PA!vars, PA!RunsDisjoint, PA!Disjoint, PA!HeldIffReferenced
<1> QED
  BY <1>1, <1>2, <1>3, <1>4, <1>5 DEF PA!Next

\* The allocator of mm.h never hands out a page twice, and keeps a run as long
\* as ref_page and deref_page say so, and no longer.
THEOREM AllocatorIsSafe == PA!Spec => [](PA!TypeOK /\ PA!RunsDisjoint /\ PA!HeldIffReferenced)
<1>1. PA!Spec => []AllocInv
  BY AllocatorStarts, AllocatorSteps, PTL DEF PA!Spec
<1> QED
  BY <1>1, PTL DEF AllocInv
=============================================================================
