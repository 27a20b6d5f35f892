----------------------------- MODULE BaseProofs -----------------------------
(***************************************************************************)
(* What the boot of the base kernel leaves behind, for every size of the   *)
(* image and of memory, every fan-out of the tables and every number of    *)
(* tasks: the kernel stays mapped, the final table is tight, and no page   *)
(* serves twice.                                                           *)
(***************************************************************************)
EXTENDS Base, FiniteSetTheorems, SequenceTheorems, TLAPS

\* The frames are 0 .. Top.
Top == Root + FreePages

Numbers ==
  /\ Fan \in Nat /\ Fan > 0 /\ Span \in Nat /\ Span = Fan * Fan
  /\ PhyIndex \in 0 .. Fan - 1 /\ VirIndex \in 0 .. Fan - 1
  /\ Root \in Nat /\ FreePages \in Nat /\ FreePages > 0 /\ NR_TASKS \in Nat /\ NR_TASKS > 0
  /\ Top \in Nat /\ Top < Span /\ Frames = 0 .. Top
  /\ Free = Root + 1 .. Top /\ Top = Root + FreePages
  /\ Top \div Fan \in Nat /\ 2 + Top \div Fan + NR_TASKS <= FreePages

\* The constants are numbers, and the frames behind the image are the free ones.
LEMMA NumbersHold == Numbers
<1>1. Span = Fan * Fan /\ Span \in Nat /\ Fan \in Nat /\ Fan > 0
  BY BaseAssumption DEF Span
<1>2. /\ TextPages \in Nat \ {0} /\ RodataPages \in Nat \ {0} /\ DataPages \in Nat \ {0}
      /\ FreePages \in Nat \ {0} /\ NR_TASKS \in Nat \ {0}
      /\ PhyIndex \in 0 .. Fan - 1 /\ VirIndex \in 0 .. Fan - 1
  BY BaseAssumption
<1>3. PICK frames \in Nat : frames = TextPages + RodataPages + DataPages + FreePages
  BY <1>2
<1>4. Root \in Nat /\ Top = Root + FreePages /\ Top = frames - 1 /\ Top \in Nat
  BY <1>2, <1>3 DEF Root, Top
<1>5. Top < Span /\ 2 + Top \div Fan + NR_TASKS <= FreePages
  <2>1. frames <= Span /\ 2 + (frames - 1) \div Fan + NR_TASKS <= FreePages
    BY <1>3, BaseAssumption
  <2> QED BY <1>1, <1>4, <2>1
<1>6. Top \div Fan \in Nat
  BY <1>1, <1>4
<1>7. Frames = 0 .. Top
  BY <1>4 DEF Frames
<1>8. Image = 0 .. Root
  BY <1>2, <1>4 DEF Image, Root
<1>9. Free = Root + 1 .. Top
  BY <1>2, <1>4, <1>7, <1>8 DEF Free
<1> QED BY <1>1, <1>2, <1>4, <1>5, <1>6, <1>7, <1>9 DEF Numbers
-----------------------------------------------------------------------------
(***************************************************************************)
(* Indices of tables.                                                      *)
(***************************************************************************)
\* Quotient and remainder are the only ones.
LEMMA DivMod ==
  ASSUME NEW d \in Nat, d > 0, NEW q \in Int, NEW r \in 0 .. d - 1
  PROVE  (q * d + r) \div d = q /\ (q * d + r) % d = r
<1>1. PICK x \in Int : x = q * d + r
  OBVIOUS
<1>2. PICK k \in Int, m \in 0 .. d - 1 : k = x \div d /\ m = x % d /\ x = d * k + m
  OBVIOUS
<1>3. k <= q
  <2> SUFFICES ASSUME k >= q + 1 PROVE FALSE
    OBVIOUS
  <2>1. d * k >= d * (q + 1)
    OBVIOUS
  <2> QED BY <2>1, <1>1, <1>2
<1>4. k >= q
  <2> SUFFICES ASSUME k + 1 <= q PROVE FALSE
    OBVIOUS
  <2>1. d * (k + 1) <= d * q
    OBVIOUS
  <2> QED BY <2>1, <1>1, <1>2
<1> QED BY <1>1, <1>2, <1>3, <1>4

\* The page at entry k of the q-th table of the last level.
Page(q, k) == q * Fan + k

\* Every page is at one place of these tables.
LEMMA PlaceOf ==
  ASSUME NEW p \in 0 .. Span - 1
  PROVE  \E q \in 0 .. Fan - 1, k \in 0 .. Fan - 1 :
           p = Page(q, k) /\ q = p \div Fan /\ k = p % Fan
<1> USE NumbersHold DEF Numbers
<1>1. PICK q \in Int, k \in 0 .. Fan - 1 : q = p \div Fan /\ k = p % Fan /\ p = q * Fan + k
  OBVIOUS
<1>2. q >= 0
  <2> SUFFICES ASSUME q <= -1 PROVE FALSE
    OBVIOUS
  <2>1. q * Fan <= (-1) * Fan
    OBVIOUS
  <2> QED BY <2>1, <1>1
<1>3. q < Fan
  <2> SUFFICES ASSUME q >= Fan PROVE FALSE
    OBVIOUS
  <2>1. q * Fan >= Fan * Fan
    OBVIOUS
  <2> QED BY <2>1, <1>1
<1>4. q \in 0 .. Fan - 1 /\ p = Page(q, k)
  BY <1>1, <1>2, <1>3 DEF Page
<1> HIDE DEF Numbers
<1> QED BY <1>1, <1>4, Zenon

\* Places are in order.
LEMMA PlacesOrdered ==
  ASSUME NEW q \in 0 .. Fan - 1, NEW k \in 0 .. Fan - 1, NEW b \in 0 .. Fan - 1, NEW c \in 0 .. Fan - 1
  PROVE  /\ Page(q, k) \in 0 .. Span - 1 /\ Page(b, 0) <= Page(b, c)
         /\ q < b => Page(q, k) < Page(b, 0)
         /\ Page(q, k) < Page(q, c) <=> k < c
         /\ Page(q, k) = Page(b, c) => q = b /\ k = c
         /\ Page(0, 0) = 0 /\ (Page(q, k) = 0 => q = 0 /\ k = 0)
<1> USE NumbersHold DEF Numbers, Page
<1>1. q * Fan \in Nat /\ b * Fan \in Nat /\ 0 * Fan = 0
  OBVIOUS
<1>2. q * Fan + k < Fan * Fan
  <2>1. q * Fan <= (Fan - 1) * Fan
    OBVIOUS
  <2> QED BY <2>1
<1>3. q < b => q * Fan + k < b * Fan
  <2> SUFFICES ASSUME q + 1 <= b PROVE q * Fan + k < b * Fan
    OBVIOUS
  <2>1. (q + 1) * Fan <= b * Fan
    OBVIOUS
  <2> QED BY <2>1
<1>4. b < q => b * Fan + c < q * Fan
  <2> SUFFICES ASSUME b + 1 <= q PROVE b * Fan + c < q * Fan
    OBVIOUS
  <2>1. (b + 1) * Fan <= q * Fan
    OBVIOUS
  <2> QED BY <2>1
<1>5. q > 0 => q * Fan > 0
  <2>1. q > 0 => q * Fan >= 1 * Fan
    OBVIOUS
  <2> QED BY <2>1
<1>6. Page(q, k) = Page(b, c) => q = b /\ k = c
  BY <1>3, <1>4
<1>7. Page(q, k) = 0 => q = 0 /\ k = 0
  BY <1>1, <1>5
<1> QED BY <1>1, <1>2, <1>3, <1>6, <1>7

\* The page after one is at the next entry, or at the first of the next table.
LEMMA NextPlace ==
  ASSUME NEW q \in Nat, NEW k \in 0 .. Fan - 1
  PROVE  /\ k < Fan - 1 => Page(q, k) + 1 = Page(q, k + 1)
         /\ k = Fan - 1 => Page(q, k) + 1 = Page(q + 1, 0)
<1> USE NumbersHold DEF Numbers, Page
<1>1. (q + 1) * Fan = q * Fan + Fan
  OBVIOUS
<1> QED BY <1>1

\* An address: the index of the root, then the place of the page.
Address(a, q, k) == a * Span + Page(q, k)

\* The three indices that the walk takes from an address.
LEMMA IndicesOf ==
  ASSUME NEW a \in 0 .. Fan - 1, NEW q \in 0 .. Fan - 1, NEW k \in 0 .. Fan - 1
  PROVE  /\ Address(a, q, k) \div Span = a /\ Address(a, q, k) % Span = Page(q, k)
         /\ (Address(a, q, k) \div Fan) % Fan = q /\ Address(a, q, k) % Fan = k
<1> USE NumbersHold DEF Numbers
<1>1. PICK v \in Int, r \in 0 .. Span - 1 : v = Address(a, q, k) /\ r = Page(q, k) /\ v = a * Span + r
  <2>1. Page(q, k) \in 0 .. Span - 1
    BY PlacesOrdered
  <2>2. a * Span + Page(q, k) \in Int
    BY <2>1
  <2> QED BY <2>1, <2>2 DEF Address
<1>2. v \div Span = a /\ v % Span = r
  <2>1. (a * Span + r) \div Span = a /\ (a * Span + r) % Span = r
    BY DivMod
  <2> QED BY <1>1, <2>1
<1>3. PICK w \in Int : w = a * Fan + q
  OBVIOUS
<1>4. v = w * Fan + k
  <2>1. a * Span = (a * Fan) * Fan
    OBVIOUS
  <2>2. w * Fan = (a * Fan) * Fan + q * Fan
    BY <1>3
  <2>3. r = q * Fan + k
    BY <1>1 DEF Page
  <2> QED BY <1>1, <2>1, <2>2, <2>3
<1>5. v \div Fan = w /\ v % Fan = k
  BY <1>4, DivMod
<1>6. w % Fan = q
  BY <1>3, DivMod
<1> QED BY <1>1, <1>2, <1>5, <1>6

\* Every address that the tables translate has such indices.
LEMMA HasIndices ==
  ASSUME NEW v \in 0 .. Fan * Span - 1
  PROVE  \E a \in 0 .. Fan - 1, q \in 0 .. Fan - 1, k \in 0 .. Fan - 1 : v = Address(a, q, k)
<1> USE NumbersHold DEF Numbers
<1>1. PICK a \in Int, r \in 0 .. Span - 1 : v = a * Span + r
  <2>1. v \in Int /\ Span \in Nat /\ Span > 0
    OBVIOUS
  <2> HIDE DEF Numbers
  <2>2. PICK a \in Int, r \in 0 .. Span - 1 : a = v \div Span /\ r = v % Span /\ v = Span * a + r
    BY <2>1
  <2>3. v = a * Span + r
    BY <2>1, <2>2
  <2> QED BY <2>2, <2>3, Zenon
<1>2. a >= 0
  <2> SUFFICES ASSUME a <= -1 PROVE FALSE
    OBVIOUS
  <2>1. a * Span <= (-1) * Span
    OBVIOUS
  <2> QED BY <2>1, <1>1
<1>3. a < Fan
  <2> SUFFICES ASSUME a >= Fan PROVE FALSE
    OBVIOUS
  <2>1. a * Span >= Fan * Span
    OBVIOUS
  <2> QED BY <2>1, <1>1
<1>4. PICK q \in 0 .. Fan - 1, k \in 0 .. Fan - 1 : r = Page(q, k)
  BY PlaceOf
<1>5. a \in 0 .. Fan - 1
  BY <1>2, <1>3
<1>6. v = Address(a, q, k)
  BY <1>1, <1>4 DEF Address
<1> HIDE DEF Numbers
<1> QED BY <1>4, <1>5, <1>6, Zenon
-----------------------------------------------------------------------------
(***************************************************************************)
(* The list of free pages: the lowest n of them, the highest first.        *)
(***************************************************************************)
Down(n) == [i \in 1 .. n |-> Root + n + 1 - i]

LEMMA DownIs ==
  ASSUME NEW n \in Nat
  PROVE  /\ Down(n) \in Seq(Int) /\ Len(Down(n)) = n
         /\ \A i \in 1 .. n : Down(n)[i] = Root + n + 1 - i
         /\ IsInjective(Down(n)) /\ ToSet(Down(n)) = Root + 1 .. Root + n
<1> USE NumbersHold DEF Numbers
<1>1. \A i \in 1 .. n : Down(n)[i] = Root + n + 1 - i /\ Down(n)[i] \in Int
  BY DEF Down
<1>2. Down(n) \in [1 .. n -> Int] /\ DOMAIN Down(n) = 1 .. n
  BY <1>1 DEF Down
<1>3. Down(n) \in Seq(Int) /\ Len(Down(n)) = n
  BY <1>2
<1>4. IsInjective(Down(n))
  BY <1>1, <1>2 DEF IsInjective
<1>5. ToSet(Down(n)) = Root + 1 .. Root + n
  <2>1. \A i \in 1 .. n : Down(n)[i] \in Root + 1 .. Root + n
    BY <1>1
  <2>2. \A p \in Root + 1 .. Root + n : Root + n + 1 - p \in 1 .. n /\ Down(n)[Root + n + 1 - p] = p
    BY <1>1
  <2>3. ToSet(Down(n)) = {Down(n)[i] : i \in 1 .. n}
    BY <1>2 DEF ToSet
  <2> QED BY <2>1, <2>2, <2>3
<1> QED BY <1>1, <1>3, <1>4, <1>5

\* alloc_page takes the highest.
LEMMA TakenFromDown ==
  ASSUME NEW n \in Nat, n > 0
  PROVE  Head(Down(n)) = Root + n /\ Tail(Down(n)) = Down(n - 1)
<1> USE NumbersHold DEF Numbers
<1>1. PICK s \in Seq(Int) : s = Down(n) /\ Len(s) = n /\ \A i \in 1 .. n : s[i] = Root + n + 1 - i
  BY DownIs
<1>2. s # <<>> /\ Head(s) = s[1]
  BY <1>1
<1>3. Head(s) = Root + n
  BY <1>1, <1>2
<1>4. Tail(s) \in Seq(Int) /\ Len(Tail(s)) = n - 1 /\ \A i \in 1 .. n - 1 : Tail(s)[i] = s[i + 1]
  BY <1>1, <1>2, HeadTailProperties
<1>5. \A i \in 1 .. n - 1 : Tail(s)[i] = Root + (n - 1) + 1 - i
  BY <1>1, <1>4
<1>6. PICK m \in Nat : m = n - 1
  OBVIOUS
<1>7. /\ Down(m) \in Seq(Int) /\ Len(Down(m)) = m
      /\ \A i \in 1 .. m : Down(m)[i] = Root + m + 1 - i
  BY DownIs
<1>8. Tail(s) = Down(m)
  <2>1. Len(Tail(s)) = Len(Down(m)) /\ \A i \in 1 .. Len(Tail(s)) : Tail(s)[i] = Down(m)[i]
    BY <1>4, <1>5, <1>6, <1>7
  <2> HIDE DEF Numbers
  <2> QED BY <1>4, <1>7, <2>1, SeqEqual
<1> QED BY <1>1, <1>3, <1>6, <1>8

\* mm_init makes the list of all of them.
LEMMA ReversedIsDown == Reverse([i \in 1 .. FreePages |-> Root + i]) = Down(FreePages)
<1> USE NumbersHold DEF Numbers
<1>1. PICK s : s = [i \in 1 .. FreePages |-> Root + i]
  OBVIOUS
<1>2. Len(s) = FreePages /\ \A i \in 1 .. FreePages : s[i] = Root + i
  BY <1>1
<1>3. \A i \in 1 .. FreePages : s[(Len(s) - i) + 1] = Root + FreePages + 1 - i
  BY <1>2
<1>4. Reverse(s) = Down(FreePages)
  BY <1>2, <1>3 DEF Reverse, Down
<1> QED BY <1>1, <1>4

\* task_init takes NR_TASKS of them.
LEMMA RestOfDown ==
  ASSUME NEW n \in Nat, n >= NR_TASKS
  PROVE  SubSeq(Down(n), NR_TASKS + 1, Len(Down(n))) = Down(n - NR_TASKS)
<1> USE NumbersHold DEF Numbers
<1>1. PICK s \in Seq(Int) : s = Down(n) /\ Len(s) = n /\ \A i \in 1 .. n : s[i] = Root + n + 1 - i
  BY DownIs
<1>2. PICK r : r = SubSeq(s, NR_TASKS + 1, n)
  OBVIOUS
<1>3. r = [i \in 1 .. n - NR_TASKS |-> s[i + NR_TASKS]]
  <2>1. r = [i \in 1 .. (n - (NR_TASKS + 1)) + 1 |-> s[(i + (NR_TASKS + 1)) - 1]]
    BY <1>1, <1>2
  <2>2. (n - (NR_TASKS + 1)) + 1 = n - NR_TASKS
    OBVIOUS
  <2>3. \A i \in 1 .. n - NR_TASKS : (i + (NR_TASKS + 1)) - 1 = i + NR_TASKS
    OBVIOUS
  <2> QED BY <2>1, <2>2, <2>3
<1>4. \A i \in 1 .. n - NR_TASKS : s[i + NR_TASKS] = Root + (n - NR_TASKS) + 1 - i
  BY <1>1
<1>5. r = Down(n - NR_TASKS)
  BY <1>3, <1>4 DEF Down
<1> QED BY <1>1, <1>2, <1>5
-----------------------------------------------------------------------------
(***************************************************************************)
(* The pages of tables.  The first page goes to the table of the middle    *)
(* level, the next ones to those of the last level, when the first of      *)
(* their pages is mapped.                                                  *)
(***************************************************************************)
Indices == 0 .. Fan - 1
Entries == [to : Int, perm : SUBSET {"R", "W", "X"}]
Memory == [Free \cup {Root} -> [Indices -> Entries]]

\* Tables of the last level when n pages are mapped, and tables of both.
LastLevel(n) == (n + (Fan - 1)) \div Fan
Taken(n) == IF n = 0 THEN 0 ELSE 1 + LastLevel(n)

LEMMA LastLevelIs ==
  ASSUME NEW q \in Nat, NEW k \in 0 .. Fan - 1
  PROVE  LastLevel(Page(q, k)) = IF k = 0 THEN q ELSE q + 1
<1> USE NumbersHold DEF Numbers
<1>1. CASE k = 0
  <2>1. LastLevel(Page(q, k)) = (q * Fan + (Fan - 1)) \div Fan
    BY <1>1 DEF LastLevel, Page
  <2> QED BY <1>1, <2>1, DivMod
<1>2. CASE k > 0
  <2>1. PICK r \in 0 .. Fan - 1 : r = k - 1
    BY <1>2
  <2>2. Page(q, k) + (Fan - 1) = (q + 1) * Fan + r
    BY <2>1 DEF Page
  <2>3. q + 1 \in Int
    OBVIOUS
  <2>4. ((q + 1) * Fan + r) \div Fan = q + 1
    BY <2>3, DivMod
  <2> QED BY <1>2, <2>2, <2>4 DEF LastLevel
<1> QED BY <1>1, <1>2

\* One more page takes the tables that its place needs.
LEMMA OneMore ==
  ASSUME NEW q \in 0 .. Fan - 1, NEW k \in 0 .. Fan - 1
  PROVE  /\ Taken(Page(q, k)) = (IF k > 0 THEN q + 2 ELSE IF q = 0 THEN 0 ELSE q + 1)
         /\ Taken(Page(q, k) + 1) = q + 2
<1> USE NumbersHold DEF Numbers
<1>1. Page(q, k) \in Nat /\ (Page(q, k) = 0 <=> q = 0 /\ k = 0)
  BY PlacesOrdered
<1>2. LastLevel(Page(q, k)) = IF k = 0 THEN q ELSE q + 1
  BY LastLevelIs
<1>3. LastLevel(Page(q, k) + 1) = q + 1
  <2>1. CASE k < Fan - 1
    <3>1. Page(q, k) + 1 = Page(q, k + 1) /\ k + 1 \in 0 .. Fan - 1
      BY <2>1, NextPlace
    <3>2. LastLevel(Page(q, k + 1)) = q + 1
      BY <3>1, LastLevelIs
    <3> QED BY <3>1, <3>2
  <2>2. CASE k = Fan - 1
    <3>1. Page(q, k) + 1 = Page(q + 1, 0) /\ q + 1 \in Nat /\ 0 \in 0 .. Fan - 1
      BY <2>2, NextPlace
    <3>2. LastLevel(Page(q + 1, 0)) = q + 1
      BY <3>1, LastLevelIs
    <3> QED BY <3>1, <3>2
  <2> QED BY <2>1, <2>2
<1> HIDE DEF Numbers
<1>4. q \in Int /\ k \in Int
  BY NumbersHold DEF Numbers
<1> QED BY <1>1, <1>2, <1>3, <1>4 DEF Taken

\* The pages suffice.
LEMMA TakenBound ==
  ASSUME NEW n \in 0 .. Top + 1
  PROVE  Taken(n) \in Nat /\ Taken(n) + NR_TASKS <= FreePages
<1> USE NumbersHold DEF Numbers
<1>1. CASE n = 0
  BY <1>1 DEF Taken
<1>2. CASE n > 0
  <2>1. PICK m \in 0 .. Span - 1 : m = n - 1 /\ m <= Top
    BY <1>2
  <2>2. PICK q \in 0 .. Fan - 1, k \in 0 .. Fan - 1 : m = Page(q, k)
    BY PlaceOf
  <2>3. n = Page(q, k) + 1
    BY <2>1, <2>2
  <2>4. Taken(n) = q + 2
    BY <2>3, OneMore
  <2>5. Top \in 0 .. Span - 1
    OBVIOUS
  <2>6. PICK b \in 0 .. Fan - 1, c \in 0 .. Fan - 1 : Top = Page(b, c) /\ b = Top \div Fan
    BY <2>5, PlaceOf
  <2>7. q <= b
    <3> SUFFICES ASSUME b < q PROVE FALSE
      OBVIOUS
    <3>1. Page(b, c) < Page(q, 0) /\ Page(q, 0) <= Page(q, k)
      BY PlacesOrdered
    <3>2. Page(q, 0) \in Int /\ Page(q, k) \in Int
      BY PlacesOrdered
    <3> QED BY <2>1, <2>2, <2>6, <3>1, <3>2
  <2>8. PICK d \in Nat : d = Top \div Fan /\ 2 + d + NR_TASKS <= FreePages
    OBVIOUS
  <2>9. q <= d
    BY <2>6, <2>7, <2>8
  <2> QED BY <2>4, <2>8, <2>9
<1> QED BY <1>1, <1>2
-----------------------------------------------------------------------------
(***************************************************************************)
(* What the tables hold when the pages below n are mapped.                 *)
(***************************************************************************)
Leaf(q) == Top - 1 - q

RootTable(n) == [i \in Indices |-> IF i = VirIndex /\ n > 0 THEN [to |-> Top, perm |-> {}] ELSE NoEntry]
MiddleTable(n) == [q \in Indices |-> IF Page(q, 0) < n THEN [to |-> Leaf(q), perm |-> {}] ELSE NoEntry]
LastTable(q, n) ==
  [k \in Indices |-> IF Page(q, k) < n THEN [to |-> Page(q, k), perm |-> Perm(Page(q, k))] ELSE NoEntry]
LastTables(m, n) == \A q \in Indices : Page(q, 0) < n => m[Leaf(q)] = LastTable(q, n)

PageTables(m, n) ==
  /\ m[Root] = RootTable(n)
  /\ n > 0 => m[Top] = MiddleTable(n)
  /\ LastTables(m, n)

\* Nothing is mapped at first.
LEMMA EmptyTables == RootTable(0) = Cleared /\ MiddleTable(0) = Cleared
                     /\ \A q \in Indices : ~(Page(q, 0) < 0)
<1> USE NumbersHold DEF Numbers
<1>1. \A q \in Indices : Page(q, 0) \in Nat
  BY PlacesOrdered DEF Indices
<1>2. RootTable(0) = Cleared
  BY DEF RootTable, Cleared, Indices
<1>3. MiddleTable(0) = Cleared
  BY <1>1 DEF MiddleTable, Cleared, Indices
<1> QED BY <1>1, <1>2, <1>3

\* Tables that differ in one entry.
LEMMA OneEntry ==
  ASSUME NEW t, NEW u, NEW x \in Indices, NEW e,
         t = [i \in Indices |-> t[i]], u = [i \in Indices |-> u[i]],
         u[x] = e, \A i \in Indices \ {x} : u[i] = t[i]
  PROVE  u = [t EXCEPT ![x] = e]
OBVIOUS

\* The pages below n + 1 are those below n and n.
LEMMA PagesBelow ==
  ASSUME NEW q \in Indices, NEW k \in Indices, NEW n, n = Page(q, k), NEW b \in Indices, NEW c \in Indices
  PROVE  /\ n \in Nat /\ Page(b, c) \in Nat
         /\ b # q \/ c # k => (Page(b, c) < n + 1 <=> Page(b, c) < n)
         /\ Page(q, c) < n <=> c < k
         /\ ~(n < n) /\ n < n + 1
         /\ n = 0 => q = 0 /\ k = 0
<1>1. Page(q, k) \in Nat /\ Page(b, c) \in Nat
  BY PlacesOrdered, NumbersHold DEF Indices, Numbers
<1>2. b # q \/ c # k => Page(b, c) # Page(q, k)
  BY PlacesOrdered DEF Indices
<1>3. Page(q, c) < Page(q, k) <=> c < k
  BY PlacesOrdered DEF Indices
<1>4. Page(q, k) = 0 => q = 0 /\ k = 0
  BY PlacesOrdered DEF Indices
<1> QED BY <1>1, <1>2, <1>3, <1>4

\* What one more page, at entry k of the q-th table, changes in them.
Grown(q, k, n) ==
  /\ RootTable(n + 1) = IF n = 0 THEN [RootTable(n) EXCEPT ![VirIndex] = [to |-> Top, perm |-> {}]]
                                 ELSE RootTable(n)
  /\ MiddleTable(n + 1) = IF k = 0 THEN [MiddleTable(n) EXCEPT ![q] = [to |-> Leaf(q), perm |-> {}]]
                                   ELSE MiddleTable(n)
  /\ LastTable(q, n + 1) = [LastTable(q, n) EXCEPT ![k] = [to |-> n, perm |-> Perm(n)]]
  /\ \A b \in Indices \ {q} : LastTable(b, n + 1) = LastTable(b, n)
  /\ \A b \in Indices \ {q} : Page(b, 0) < n + 1 <=> Page(b, 0) < n
  /\ k = 0 => LastTable(q, n) = Cleared /\ MiddleTable(n)[q] = NoEntry
  /\ k # 0 => Page(q, 0) < n
  /\ n = 0 => q = 0 /\ k = 0

LEMMA TablesGrow ==
  ASSUME NEW q \in Indices, NEW k \in Indices, NEW n, n = Page(q, k)
  PROVE  Grown(q, k, n)
<1>1. 0 \in Indices /\ VirIndex \in Indices /\ \A i \in Indices : i \in Nat
  BY NumbersHold DEF Numbers, Indices
<1>2. n \in Nat /\ n + 1 > 0 /\ (n = 0 => q = 0 /\ k = 0) /\ n < n + 1 /\ ~(n < n)
  <2>1. n \in Nat /\ (n = 0 => q = 0 /\ k = 0)
    BY PagesBelow
  <2> QED BY <2>1
<1>3. \A b \in Indices, c \in Indices : b # q \/ c # k => (Page(b, c) < n + 1 <=> Page(b, c) < n)
  BY PagesBelow
<1>4. \A c \in Indices : Page(q, c) < n <=> c < k
  BY PagesBelow
<1>5. RootTable(n + 1) = IF n = 0 THEN [RootTable(n) EXCEPT ![VirIndex] = [to |-> Top, perm |-> {}]]
                                  ELSE RootTable(n)
  <2>1. CASE n = 0
    <3>1. /\ RootTable(n) = [i \in Indices |-> RootTable(n)[i]]
          /\ RootTable(n + 1) = [i \in Indices |-> RootTable(n + 1)[i]]
      BY DEF RootTable
    <3>2. RootTable(n + 1)[VirIndex] = [to |-> Top, perm |-> {}]
      BY <1>1, <1>2 DEF RootTable
    <3>3. \A i \in Indices \ {VirIndex} : RootTable(n + 1)[i] = RootTable(n)[i]
      BY DEF RootTable
    <3>4. RootTable(n + 1) = [RootTable(n) EXCEPT ![VirIndex] = [to |-> Top, perm |-> {}]]
      BY <1>1, <3>1, <3>2, <3>3, OneEntry
    <3> QED BY <2>1, <3>4
  <2>2. CASE n # 0
    <3>1. n > 0 /\ n + 1 > 0
      BY <1>2, <2>2
    <3>2. RootTable(n + 1) = RootTable(n)
      BY <3>1 DEF RootTable
    <3> QED BY <2>2, <3>2
  <2> QED BY <2>1, <2>2
<1>6. MiddleTable(n + 1) = IF k = 0 THEN [MiddleTable(n) EXCEPT ![q] = [to |-> Leaf(q), perm |-> {}]]
                                    ELSE MiddleTable(n)
  <2>1. \A i \in Indices : i # q \/ k # 0 => MiddleTable(n + 1)[i] = MiddleTable(n)[i]
    BY <1>1, <1>3 DEF MiddleTable
  <2>2. /\ MiddleTable(n) = [i \in Indices |-> MiddleTable(n)[i]]
        /\ MiddleTable(n + 1) = [i \in Indices |-> MiddleTable(n + 1)[i]]
    BY DEF MiddleTable
  <2>3. CASE k = 0
    <3>1. MiddleTable(n + 1)[q] = [to |-> Leaf(q), perm |-> {}]
      BY <1>2, <2>3 DEF MiddleTable
    <3>2. \A i \in Indices \ {q} : MiddleTable(n + 1)[i] = MiddleTable(n)[i]
      BY <2>1
    <3>3. MiddleTable(n + 1) = [MiddleTable(n) EXCEPT ![q] = [to |-> Leaf(q), perm |-> {}]]
      BY <2>2, <3>1, <3>2, OneEntry
    <3> QED BY <2>3, <3>3
  <2>4. CASE k # 0
    BY <2>1, <2>2, <2>4
  <2> QED BY <2>3, <2>4
<1>7. LastTable(q, n + 1) = [LastTable(q, n) EXCEPT ![k] = [to |-> n, perm |-> Perm(n)]]
  <2>1. /\ LastTable(q, n) = [i \in Indices |-> LastTable(q, n)[i]]
        /\ LastTable(q, n + 1) = [i \in Indices |-> LastTable(q, n + 1)[i]]
    BY DEF LastTable
  <2>2. LastTable(q, n + 1)[k] = [to |-> n, perm |-> Perm(n)]
    BY <1>2 DEF LastTable
  <2>3. \A i \in Indices \ {k} : LastTable(q, n + 1)[i] = LastTable(q, n)[i]
    BY <1>3 DEF LastTable
  <2> QED BY <2>1, <2>2, <2>3, OneEntry
<1>8. ASSUME NEW b \in Indices \ {q}
      PROVE  LastTable(b, n + 1) = LastTable(b, n) /\ (Page(b, 0) < n + 1 <=> Page(b, 0) < n)
  BY <1>1, <1>3 DEF LastTable
<1>9. k = 0 => LastTable(q, n) = Cleared /\ MiddleTable(n)[q] = NoEntry
  <2> SUFFICES ASSUME k = 0 PROVE LastTable(q, n) = Cleared /\ MiddleTable(n)[q] = NoEntry
    OBVIOUS
  <2>1. \A c \in Indices : ~(Page(q, c) < n)
    BY <1>1, <1>4
  <2>2. LastTable(q, n) = Cleared
    BY <2>1 DEF LastTable, Cleared, Indices
  <2>3. MiddleTable(n)[q] = NoEntry
    BY <1>2 DEF MiddleTable
  <2> QED BY <2>2, <2>3
<1>10. k # 0 => Page(q, 0) < n
  BY <1>1, <1>4
<1> QED BY <1>2, <1>5, <1>6, <1>7, <1>8, <1>9, <1>10 DEF Grown
-----------------------------------------------------------------------------
(***************************************************************************)
(* create_mapping.                                                         *)
(***************************************************************************)
At(free, tables, at) == [free |-> free, tables |-> tables, at |-> at]

\* An entry that is there is followed.
LEMMA Followed ==
  ASSUME NEW f, NEW t, NEW a, NEW i, t[a][i] # NoEntry
  PROVE  Below(At(f, t, a), i) = At(f, t, t[a][i].to)
BY DEF Below, At

\* Where there is none, the highest free page becomes a table.
LEMMA Made ==
  ASSUME NEW t \in Memory, NEW a \in Free \cup {Root}, NEW i \in Indices,
         NEW n \in 1 .. FreePages, a # Root + n, t[a][i] = NoEntry
  PROVE  \E u \in Memory :
           /\ Below(At(Down(n), t, a), i) = At(Down(n - 1), u, Root + n)
           /\ u[Root + n] = Cleared
           /\ u[a] = [t[a] EXCEPT ![i] = [to |-> Root + n, perm |-> {}]]
           /\ \A p \in (Free \cup {Root}) \ {a, Root + n} : u[p] = t[p]
<1> USE NumbersHold DEF Numbers
<1>1. Head(Down(n)) = Root + n /\ Tail(Down(n)) = Down(n - 1)
  <2>1. n \in Nat /\ n > 0
    OBVIOUS
  <2> HIDE DEF Numbers
  <2> QED BY <2>1, TakenFromDown
<1>2. PICK h \in Free : h = Root + n /\ h # a
  OBVIOUS
<1>3. PICK c : c = [t EXCEPT ![h] = Cleared]
  OBVIOUS
<1>4. PICK u : u = [c EXCEPT ![a][i] = [to |-> h, perm |-> {}]]
  OBVIOUS
<1> HIDE DEF Numbers
<1>5. Below(At(Down(n), t, a), i) = At(Down(n - 1), u, h)
  BY <1>1, <1>2, <1>3, <1>4 DEF Below, NewTable, At
<1>6. Cleared \in [Indices -> Entries]
  BY DEF Cleared, Indices, Entries, NoEntry
<1>7. [to |-> h, perm |-> {}] \in Entries
  BY <1>2, NumbersHold DEF Entries, Numbers
<1>8. c \in Memory /\ c[h] = Cleared /\ \A p \in (Free \cup {Root}) \ {h} : c[p] = t[p]
  BY <1>2, <1>3, <1>6 DEF Memory
<1>9. PICK row \in [Indices -> Entries] : row = [t[a] EXCEPT ![i] = [to |-> h, perm |-> {}]]
  BY <1>7 DEF Memory
<1>10. u = [c EXCEPT ![a] = row]
  BY <1>2, <1>4, <1>8, <1>9
<1>11. u \in Memory /\ u[a] = row /\ u[h] = Cleared /\ \A p \in (Free \cup {Root}) \ {a, h} : u[p] = t[p]
  BY <1>2, <1>8, <1>10 DEF Memory
<1> QED BY <1>2, <1>5, <1>9, <1>11

\* Where the tables are.
LEMMA PlacesOfTables ==
  ASSUME NEW q \in Indices, NEW k \in Indices, Page(q, k) \in Frames
  PROVE  /\ Leaf(q) \in Free /\ Top \in Free /\ Root \notin Free /\ Leaf(q) # Top
         /\ FreePages - (q + 2) \in Nat
         /\ Root + FreePages = Top /\ Root + (FreePages - (q + 1)) = Leaf(q)
         /\ FreePages \in 1 .. FreePages /\ FreePages - (q + 1) \in 1 .. FreePages
<1> USE NumbersHold DEF Numbers, Indices
<1>1. PICK n \in 0 .. Top + 1 : n = Page(q, k) + 1
  OBVIOUS
<1>2. q + 2 + NR_TASKS <= FreePages
  <2>1. Taken(n) = q + 2
    BY <1>1, OneMore
  <2> QED BY <2>1, TakenBound
<1> HIDE DEF Indices
<1>3. q \in Nat
  BY DEF Indices
<1> QED BY <1>2, <1>3 DEF Leaf

\* The first page of a table whose pages begin below n.
LEMMA FirstPlace ==
  ASSUME NEW b \in Indices, NEW n \in Frames, Page(b, 0) < n
  PROVE  0 \in Indices /\ Page(b, 0) \in Frames
<1>1. 0 \in Indices /\ n \in Nat /\ n <= Top /\ Frames = 0 .. Top /\ Top \in Nat
  BY NumbersHold DEF Indices, Numbers
<1>2. Page(b, 0) \in Nat
  BY <1>1, PagesBelow
<1> QED BY <1>1, <1>2

\* The first level of the walk: the table of the middle level is there, or made.
LEMMA MiddleReached ==
  ASSUME NEW m \in Memory, NEW q \in Indices, NEW k \in Indices, NEW n \in Frames, n = Page(q, k),
         PageTables(m, n)
  PROVE  \E u \in Memory :
           /\ Below(At(Down(FreePages - Taken(n)), m, Root), VirIndex)
                = At(Down(IF k = 0 THEN FreePages - (q + 1) ELSE FreePages - (q + 2)), u, Top)
           /\ u[Root] = RootTable(n + 1) /\ u[Top] = MiddleTable(n) /\ LastTables(u, n)
<1>1. VirIndex \in Indices /\ q \in Nat /\ FreePages \in Nat /\ Root \in Nat /\ n \in Nat
  BY NumbersHold DEF Numbers, Indices
<1>2. /\ Top \in Free /\ Root \notin Free /\ Root + FreePages = Top /\ FreePages \in 1 .. FreePages
      /\ FreePages - (q + 2) \in Nat
  BY PlacesOfTables
<1>3. Taken(n) = IF k > 0 THEN q + 2 ELSE IF q = 0 THEN 0 ELSE q + 1
  BY OneMore DEF Indices
<1>4. k \in Nat
  BY NumbersHold DEF Numbers, Indices
<1>5. Grown(q, k, n)
  BY TablesGrow
<1>6. CASE n = 0
  <2>1. q = 0 /\ k = 0 /\ RootTable(n + 1) = [RootTable(n) EXCEPT ![VirIndex] = [to |-> Top, perm |-> {}]]
    BY <1>6, <1>5 DEF Grown
  <2>2. m[Root] = RootTable(n) /\ RootTable(n)[VirIndex] = NoEntry
    BY <1>1, <1>6 DEF PageTables, RootTable
  <2>3. PICK u \in Memory :
          /\ Below(At(Down(FreePages), m, Root), VirIndex) = At(Down(FreePages - 1), u, Top)
          /\ u[Top] = Cleared
          /\ u[Root] = [m[Root] EXCEPT ![VirIndex] = [to |-> Top, perm |-> {}]]
    <3>1. Root # Root + FreePages /\ m[Root][VirIndex] = NoEntry /\ Root \in Free \cup {Root}
      BY <1>2, <2>2
    <3>2. PICK u \in Memory :
            /\ Below(At(Down(FreePages), m, Root), VirIndex) = At(Down(FreePages - 1), u, Root + FreePages)
            /\ u[Root + FreePages] = Cleared
            /\ u[Root] = [m[Root] EXCEPT ![VirIndex] = [to |-> Root + FreePages, perm |-> {}]]
      BY <1>1, <1>2, <3>1, Made
    <3> QED BY <1>2, <3>2
  <2>4. Taken(n) = 0 /\ FreePages - Taken(n) = FreePages /\ FreePages - (q + 1) = FreePages - 1
    BY <1>1, <1>3, <2>1
  <2>5. u[Top] = MiddleTable(n) /\ LastTables(u, n)
    BY <1>6, <2>3, EmptyTables DEF LastTables
  <2> QED BY <2>1, <2>2, <2>3, <2>4, <2>5
<1>7. CASE n # 0
  <2>1. n > 0 /\ RootTable(n + 1) = RootTable(n)
    BY <1>1, <1>7, <1>5 DEF Grown
  <2>2. m[Root] = RootTable(n) /\ m[Top] = MiddleTable(n) /\ LastTables(m, n)
    BY <2>1 DEF PageTables
  <2>3. m[Root][VirIndex] = [to |-> Top, perm |-> {}]
    BY <1>1, <2>1, <2>2 DEF RootTable
  <2>4. m[Root][VirIndex] # NoEntry /\ m[Root][VirIndex].to = Top
    <3>1. Top # -1
      BY <1>2, NumbersHold DEF Numbers
    <3> QED BY <2>3, <3>1 DEF NoEntry
  <2>5. Below(At(Down(FreePages - Taken(n)), m, Root), VirIndex) = At(Down(FreePages - Taken(n)), m, Top)
    BY <2>4, Followed
  <2>6. FreePages - Taken(n) = IF k = 0 THEN FreePages - (q + 1) ELSE FreePages - (q + 2)
    <3>1. k = 0 => q # 0
      <4> SUFFICES ASSUME k = 0, q = 0 PROVE FALSE
        OBVIOUS
      <4>1. n = 0
        BY PlacesOrdered DEF Indices
      <4> QED BY <1>7, <4>1
    <3> QED BY <1>1, <1>3, <1>4, <3>1
  <2> QED BY <2>1, <2>2, <2>5, <2>6
<1> QED BY <1>6, <1>7

\* The second level: the table of the last level is there, or made.
LEMMA LastReached ==
  ASSUME NEW m \in Memory, NEW q \in Indices, NEW k \in Indices, NEW n \in Frames, n = Page(q, k),
         m[Root] = RootTable(n + 1), m[Top] = MiddleTable(n), LastTables(m, n)
  PROVE  \E u \in Memory :
           /\ Below(At(Down(IF k = 0 THEN FreePages - (q + 1) ELSE FreePages - (q + 2)), m, Top), q)
                = At(Down(FreePages - (q + 2)), u, Leaf(q))
           /\ u[Root] = RootTable(n + 1) /\ u[Top] = MiddleTable(n + 1)
           /\ u[Leaf(q)] = LastTable(q, n)
           /\ \A b \in Indices \ {q} : Page(b, 0) < n => u[Leaf(b)] = LastTable(b, n)
<1>1. /\ Leaf(q) \in Free /\ Top \in Free /\ Root \notin Free /\ Leaf(q) # Top
      /\ Root + (FreePages - (q + 1)) = Leaf(q) /\ FreePages - (q + 1) \in 1 .. FreePages
  BY PlacesOfTables
<1>2. q \in Nat /\ FreePages \in Nat /\ Root \in Nat /\ n \in Nat /\ Top \in Nat /\ Free = Root + 1 .. Top
      /\ \A b \in Indices : b \in Nat
  BY NumbersHold DEF Numbers, Indices
<1>3. CASE k = 0
  <2>1. /\ MiddleTable(n + 1) = [MiddleTable(n) EXCEPT ![q] = [to |-> Leaf(q), perm |-> {}]]
        /\ LastTable(q, n) = Cleared /\ MiddleTable(n)[q] = NoEntry
    BY <1>3, TablesGrow DEF Grown
  <2>2. PICK u \in Memory :
          /\ Below(At(Down(FreePages - (q + 1)), m, Top), q) = At(Down((FreePages - (q + 1)) - 1), u, Leaf(q))
          /\ u[Leaf(q)] = Cleared
          /\ u[Top] = [m[Top] EXCEPT ![q] = [to |-> Leaf(q), perm |-> {}]]
          /\ \A p \in (Free \cup {Root}) \ {Top, Leaf(q)} : u[p] = m[p]
    <3>1. Top \in Free \cup {Root} /\ Top # Root + (FreePages - (q + 1)) /\ m[Top][q] = NoEntry
      BY <1>1, <2>1
    <3> QED BY <1>1, <3>1, Made
  <2>3. (FreePages - (q + 1)) - 1 = FreePages - (q + 2)
    BY <1>2
  <2>4. u[Root] = RootTable(n + 1)
    BY <1>1, <2>2
  <2>5. ASSUME NEW b \in Indices \ {q}, Page(b, 0) < n
        PROVE  u[Leaf(b)] = LastTable(b, n)
    <3>1. m[Leaf(b)] = LastTable(b, n)
      BY <2>5 DEF LastTables
    <3>2. 0 \in Indices /\ Page(b, 0) \in Frames
      BY <2>5, FirstPlace
    <3>3. Leaf(b) \in Free /\ Leaf(b) # Top
      BY <3>2, PlacesOfTables
    <3>4. Leaf(b) # Leaf(q)
      BY <1>2, <2>5 DEF Leaf
    <3> QED BY <2>2, <3>1, <3>3, <3>4
  <2> QED BY <1>3, <2>1, <2>2, <2>3, <2>4, <2>5
<1>4. CASE k # 0
  <2>1. MiddleTable(n + 1) = MiddleTable(n) /\ Page(q, 0) < n
    <3>1. Grown(q, k, n)
      BY TablesGrow
    <3> QED BY <1>4, <3>1 DEF Grown
  <2>2. m[Top][q] = [to |-> Leaf(q), perm |-> {}]
    BY <2>1 DEF MiddleTable
  <2>3. m[Top][q] # NoEntry /\ m[Top][q].to = Leaf(q)
    <3>1. Leaf(q) # -1
      BY <1>1, <1>2
    <3> QED BY <2>2, <3>1 DEF NoEntry
  <2>4. Below(At(Down(FreePages - (q + 2)), m, Top), q) = At(Down(FreePages - (q + 2)), m, Leaf(q))
    BY <2>3, Followed
  <2>5. m[Leaf(q)] = LastTable(q, n) /\ \A b \in Indices \ {q} : Page(b, 0) < n => m[Leaf(b)] = LastTable(b, n)
    BY <2>1 DEF LastTables
  <2> QED BY <1>4, <2>1, <2>4, <2>5
<1> QED BY <1>3, <1>4

\* Mapping one more page.
LEMMA MapsOneMore ==
  ASSUME NEW m \in Memory, NEW n \in Frames, PageTables(m, n)
  PROVE  LET v == Virtual(n)
             last == Below(Below(At(Down(FreePages - Taken(n)), m, Root), v \div Span), (v \div Fan) % Fan)
             w == [last.tables EXCEPT ![last.at][v % Fan] = [to |-> n, perm |-> Perm(n)]]
         IN  last.free = Down(FreePages - Taken(n + 1)) /\ w \in Memory /\ PageTables(w, n + 1)
<1>1. n \in 0 .. Span - 1 /\ n \in Nat /\ Root \in Nat /\ VirIndex \in 0 .. Fan - 1
      /\ Free = Root + 1 .. Top /\ Top \in Nat /\ \A b \in Indices : b \in Nat
  BY NumbersHold DEF Numbers, Indices
<1>2. PICK q \in Indices, k \in Indices : n = Page(q, k)
  BY <1>1, PlaceOf DEF Indices
<1>3. Virtual(n) \div Span = VirIndex /\ (Virtual(n) \div Fan) % Fan = q /\ Virtual(n) % Fan = k
  <2>1. Virtual(n) = Address(VirIndex, q, k)
    BY <1>2 DEF Virtual, Address
  <2> QED BY <1>1, <2>1, IndicesOf DEF Indices
<1>4. PICK u \in Memory :
        /\ Below(At(Down(FreePages - Taken(n)), m, Root), VirIndex)
             = At(Down(IF k = 0 THEN FreePages - (q + 1) ELSE FreePages - (q + 2)), u, Top)
        /\ u[Root] = RootTable(n + 1) /\ u[Top] = MiddleTable(n) /\ LastTables(u, n)
  BY <1>2, MiddleReached
<1>5. PICK t \in Memory :
        /\ Below(At(Down(IF k = 0 THEN FreePages - (q + 1) ELSE FreePages - (q + 2)), u, Top), q)
             = At(Down(FreePages - (q + 2)), t, Leaf(q))
        /\ t[Root] = RootTable(n + 1) /\ t[Top] = MiddleTable(n + 1)
        /\ t[Leaf(q)] = LastTable(q, n)
        /\ \A b \in Indices \ {q} : Page(b, 0) < n => t[Leaf(b)] = LastTable(b, n)
  BY <1>2, <1>4, LastReached
<1>6. PICK last : last = Below(Below(At(Down(FreePages - Taken(n)), m, Root), Virtual(n) \div Span), (Virtual(n) \div Fan) % Fan)
  OBVIOUS
<1>7. last.free = Down(FreePages - (q + 2)) /\ last.tables = t /\ last.at = Leaf(q)
  BY <1>3, <1>4, <1>5, <1>6 DEF At
<1>8. PICK e : e = [to |-> n, perm |-> Perm(n)]
  OBVIOUS
<1>9. PICK w : w = [t EXCEPT ![Leaf(q)][k] = e]
  OBVIOUS
<1>10. e \in Entries
  BY <1>1, <1>8 DEF Entries, Perm
<1>11. Leaf(q) \in Free /\ Top \in Free /\ Root \notin Free /\ Leaf(q) # Top
  BY <1>2, PlacesOfTables
<1>12. PICK row \in [Indices -> Entries] : row = [t[Leaf(q)] EXCEPT ![k] = e]
  BY <1>10, <1>11 DEF Memory
<1>13. w \in Memory /\ w[Leaf(q)] = row /\ \A p \in (Free \cup {Root}) \ {Leaf(q)} : w[p] = t[p]
  <2>1. w = [t EXCEPT ![Leaf(q)] = row]
    BY <1>9, <1>11, <1>12 DEF Memory
  <2> QED BY <1>11, <2>1 DEF Memory
<1>14. Grown(q, k, n)
  BY <1>2, TablesGrow
<1>15. LastTables(w, n + 1)
  <2>1. row = LastTable(q, n + 1)
    BY <1>5, <1>8, <1>12, <1>14 DEF Grown
  <2> SUFFICES ASSUME NEW b \in Indices, Page(b, 0) < n + 1 PROVE w[Leaf(b)] = LastTable(b, n + 1)
    BY DEF LastTables
  <2>2. CASE b = q
    BY <1>13, <2>2, <2>1
  <2>3. CASE b # q
    <3>1. Page(b, 0) < n /\ LastTable(b, n + 1) = LastTable(b, n)
      BY <1>14, <2>3 DEF Grown
    <3>2. 0 \in Indices /\ Page(b, 0) \in Frames
      BY <3>1, FirstPlace
    <3>3. Leaf(b) \in Free /\ Leaf(b) # Leaf(q)
      <4>1. Leaf(b) \in Free
        BY <3>2, PlacesOfTables
      <4> QED BY <1>1, <2>3, <4>1 DEF Leaf
    <3> QED BY <1>5, <1>13, <2>3, <3>1, <3>3
  <2> QED BY <2>2, <2>3
<1>16. PageTables(w, n + 1)
  BY <1>5, <1>11, <1>13, <1>15 DEF PageTables
<1>17. Taken(n + 1) = q + 2
  BY <1>2, OneMore DEF Indices
<1> QED BY <1>3, <1>6, <1>7, <1>8, <1>9, <1>13, <1>16, <1>17
-----------------------------------------------------------------------------
(***************************************************************************)
(* The invariant of the boot: each stage finds the page table, the free    *)
(* list and the tables as the ones before it leave them.                   *)
(***************************************************************************)
Before == {"setup_vm", "relocate", "ret", "mm_init", "setup_vm_final"}
After == {"task_init", "start_timer", "run"}
Threaded == {"start_timer", "run"}

TableInUse ==
  satp = IF stage \in {"setup_vm", "relocate"} THEN "bare" ELSE IF stage \in After THEN "swapper" ELSE "early"

PagesGiven ==
  /\ stage \in {"setup_vm_final", "mapping", "task_init"} => kfreelist = Down(FreePages - Taken(todo))
  /\ stage \in Threaded => kfreelist = Down((FreePages - Taken(todo)) - NR_TASKS)
  /\ task = [t \in Tasks |-> IF stage \in Threaded THEN Root + (FreePages - Taken(todo)) - t ELSE -1]

BootInv ==
  /\ stage \in Before \cup {"mapping"} \cup After
  /\ todo \in 0 .. Top + 1
  /\ stage \in Before => todo = 0
  /\ stage \in After => todo = Top + 1
  /\ mem \in Memory
  /\ stage \notin Before => PageTables(mem, todo)
  /\ TableInUse
  /\ PagesGiven

LEMMA InitBootInv == Init => BootInv
<1> SUFFICES ASSUME Init PROVE BootInv
  OBVIOUS
<1>1. stage = "setup_vm" /\ satp = "bare" /\ todo = 0 /\ task = [t \in Tasks |-> -1]
  BY DEF Init
<1>2. mem \in Memory
  <2>1. mem = [p \in Free \cup {Root} |-> [i \in Indices |-> Leftover]]
    BY DEF Init, Indices
  <2>2. Leftover \in Entries
    BY DEF Leftover, Entries
  <2> QED BY <2>1, <2>2 DEF Memory
<1>3. 0 \in 0 .. Top + 1
  BY NumbersHold DEF Numbers
<1> QED BY <1>1, <1>2, <1>3 DEF BootInv, Before, After, Threaded, TableInUse, PagesGiven

\* mm_init links the free pages, and clears the first word of each.
LEMMA MmInitKeeps ==
  ASSUME BootInv, MmInit
  PROVE  BootInv'
<1>1. /\ stage = "mm_init" /\ stage' = "setup_vm_final" /\ satp' = satp /\ todo' = todo /\ task' = task
      /\ kfreelist' = Reverse([i \in 1 .. FreePages |-> Root + i])
      /\ mem' = [p \in DOMAIN mem |-> IF p = Root THEN mem[p] ELSE [mem[p] EXCEPT ![0] = NoEntry]]
  BY DEF MmInit, Step
<1>2. todo = 0 /\ mem \in Memory
  BY <1>1 DEF BootInv, Before
<1>3. kfreelist' = Down(FreePages - Taken(todo'))
  <2>1. Taken(0) = 0 /\ FreePages - 0 = FreePages
    BY NumbersHold DEF Taken, Numbers
  <2> QED BY <1>1, <1>2, <2>1, ReversedIsDown
<1>4. mem' \in Memory
  <2>1. NoEntry \in Entries
    BY DEF NoEntry, Entries
  <2> QED BY <1>1, <1>2, <2>1 DEF Memory
<1> QED BY <1>1, <1>2, <1>3, <1>4 DEF BootInv, Before, After, Threaded, TableInUse, PagesGiven

\* setup_vm_final clears the root.
LEMMA ClearRootKeeps ==
  ASSUME BootInv, ClearRoot
  PROVE  BootInv'
<1>1. /\ stage = "setup_vm_final" /\ stage' = "mapping" /\ satp' = satp /\ todo' = todo /\ task' = task
      /\ kfreelist' = kfreelist /\ mem' = [mem EXCEPT ![Root] = Cleared]
  BY DEF ClearRoot, Step
<1>2. todo = 0 /\ mem \in Memory
  BY <1>1 DEF BootInv, Before
<1>3. mem' \in Memory /\ mem'[Root] = Cleared
  <2>1. Cleared \in [Indices -> Entries]
    BY DEF Cleared, Indices, NoEntry, Entries
  <2> QED BY <1>1, <1>2, <2>1 DEF Memory
<1>4. PageTables(mem', 0)
  BY <1>3, EmptyTables DEF PageTables, LastTables
<1> QED BY <1>1, <1>2, <1>3, <1>4 DEF BootInv, Before, After, Threaded, TableInUse, PagesGiven

\* create_mapping maps the next page.
LEMMA CreateMappingKeeps ==
  ASSUME BootInv, CreateMapping
  PROVE  BootInv'
<1>1. /\ stage = "mapping" /\ todo \in Frames /\ todo' = todo + 1
      /\ stage' = stage /\ satp' = satp /\ task' = task
  BY DEF CreateMapping
<1>2. mem \in Memory /\ PageTables(mem, todo) /\ kfreelist = Down(FreePages - Taken(todo))
  BY <1>1 DEF BootInv, Before, PagesGiven
<1>3. PICK last : last = Below(Below(At(kfreelist, mem, Root), Virtual(todo) \div Span), (Virtual(todo) \div Fan) % Fan)
  OBVIOUS
<1>4. PICK w : w = [last.tables EXCEPT ![last.at][Virtual(todo) % Fan] = [to |-> todo, perm |-> Perm(todo)]]
  OBVIOUS
<1>5. kfreelist' = last.free /\ mem' = w
  BY <1>3, <1>4 DEF CreateMapping, At
<1>6. last.free = Down(FreePages - Taken(todo + 1)) /\ w \in Memory /\ PageTables(w, todo + 1)
  BY <1>1, <1>2, <1>3, <1>4, MapsOneMore
<1>7. todo' \in 0 .. Top + 1
  BY <1>1, NumbersHold DEF Numbers
<1> QED BY <1>1, <1>5, <1>6, <1>7 DEF BootInv, Before, After, Threaded, TableInUse, PagesGiven

\* When all are mapped, the final table is put to use.
LEMMA SetSatpKeeps ==
  ASSUME BootInv, SetSatp
  PROVE  BootInv'
<1>1. /\ stage = "mapping" /\ stage' = "task_init" /\ todo \notin Frames /\ satp' = "swapper"
      /\ todo' = todo /\ task' = task /\ mem' = mem /\ kfreelist' = kfreelist
  BY DEF SetSatp, Step, bootVars
<1>2. todo = Top + 1
  BY <1>1, NumbersHold DEF BootInv, Numbers
<1> QED BY <1>1, <1>2 DEF BootInv, Before, After, Threaded, TableInUse, PagesGiven

\* task_init takes the pages of the tasks.
LEMMA TaskInitKeeps ==
  ASSUME BootInv, TaskInit
  PROVE  BootInv'
<1>1. /\ stage = "task_init" /\ stage' = "start_timer" /\ satp' = satp /\ todo' = todo /\ mem' = mem
      /\ task' = [t \in Tasks |-> kfreelist[t + 1]]
      /\ kfreelist' = SubSeq(kfreelist, NR_TASKS + 1, Len(kfreelist))
  BY DEF TaskInit, Step
<1>2. PICK n \in Nat : n = FreePages - Taken(todo) /\ n >= NR_TASKS
  <2>1. Taken(todo) \in Nat /\ Taken(todo) + NR_TASKS <= FreePages
    BY TakenBound DEF BootInv
  <2> QED BY <2>1, NumbersHold DEF Numbers
<1>3. kfreelist = Down(n)
  BY <1>1, <1>2 DEF BootInv, PagesGiven
<1>4. kfreelist' = Down(n - NR_TASKS)
  BY <1>1, <1>2, <1>3, RestOfDown
<1>5. task' = [t \in Tasks |-> Root + n - t]
  <2>1. \A i \in 1 .. n : Down(n)[i] = Root + n + 1 - i
    BY DownIs
  <2>2. ASSUME NEW t \in Tasks PROVE kfreelist[t + 1] = Root + n - t
    <3>1. t \in Nat /\ t + 1 \in 1 .. n /\ Root \in Nat
      BY <1>2, NumbersHold DEF Tasks, Numbers
    <3> QED BY <1>3, <2>1, <3>1
  <2> QED BY <1>1, <2>2
<1> QED BY <1>1, <1>2, <1>4, <1>5 DEF BootInv, Before, After, Threaded, TableInUse, PagesGiven

\* The other steps of the boot move on, the timer and the threads do not
\* touch what it set up.
LEMMA NextBootInv == BootInv /\ [Next]_vars => BootInv'
<1> SUFFICES ASSUME BootInv, [Next]_vars PROVE BootInv'
  OBVIOUS
<1>1. CASE SetupVm
  BY <1>1 DEF SetupVm, Step, bootVars, BootInv, Before, After, Threaded, TableInUse, PagesGiven
<1>2. CASE Relocate
  BY <1>2 DEF Relocate, Step, bootVars, BootInv, Before, After, Threaded, TableInUse, PagesGiven
<1>3. CASE Returned
  BY <1>3 DEF Returned, Step, bootVars, BootInv, Before, After, Threaded, TableInUse, PagesGiven
<1>4. CASE MmInit
  BY <1>4, MmInitKeeps
<1>5. CASE ClearRoot
  BY <1>5, ClearRootKeeps
<1>6. CASE CreateMapping
  BY <1>6, CreateMappingKeeps
<1>7. CASE SetSatp
  BY <1>7, SetSatpKeeps
<1>8. CASE TaskInit
  BY <1>8, TaskInitKeeps
<1>9. CASE StartTimer
  BY <1>9 DEF StartTimer, bootVars, BootInv, Before, After, Threaded, TableInUse, PagesGiven
<1>10. CASE Timer \/ (\E t \in Threads : DummyTask(t)) \/ UNCHANGED vars
  <2>1. UNCHANGED <<stage, satp, kfreelist, mem, todo, task>>
    BY <1>10 DEF Timer, DummyTask, vars, bootVars
  <2> QED BY <2>1 DEF BootInv, TableInUse, PagesGiven
<1> QED BY <1>1, <1>2, <1>3, <1>4, <1>5, <1>6, <1>7, <1>8, <1>9, <1>10 DEF Next, Boot

LEMMA BootInvariant == Spec => []BootInv
BY InitBootInv, NextBootInv, PTL DEF Spec
-----------------------------------------------------------------------------
(***************************************************************************)
(* What the final table translates.                                        *)
(***************************************************************************)
\* It translates the addresses of the kernel's pages, each to its page.
LEMMA WalkIs ==
  ASSUME PageTables(mem, Top + 1), NEW a \in Indices, NEW q \in Indices, NEW k \in Indices
  PROVE  Walk(Address(a, q, k)) =
           IF a = VirIndex /\ Page(q, k) \in Frames
             THEN [to |-> Page(q, k), perm |-> Perm(Page(q, k))] ELSE NoEntry
<1>1. PICK v : v = Address(a, q, k) /\ v \div Span = a /\ (v \div Fan) % Fan = q /\ v % Fan = k
  BY IndicesOf DEF Indices
<1>2. Top \in Nat /\ Top + 1 > 0 /\ Frames = 0 .. Top /\ 0 \in Indices /\ Page(q, k) \in Nat /\ Page(q, 0) \in Nat
  BY PlacesOrdered, NumbersHold DEF Numbers, Indices
<1>3. mem[Root] = RootTable(Top + 1) /\ mem[Top] = MiddleTable(Top + 1) /\ LastTables(mem, Top + 1)
  BY <1>2 DEF PageTables
<1>4. Page(q, k) \in Frames => Page(q, 0) < Top + 1
  <2>1. Page(q, 0) <= Page(q, k)
    BY PlacesOrdered DEF Indices
  <2> QED BY <1>2, <2>1
<1>5. Page(q, k) \in Frames <=> Page(q, k) < Top + 1
  BY <1>2
<1>6. Walk(v) = LET second == mem[Root][a]
                    third == mem[second.to][q]
                IN  IF second = NoEntry THEN NoEntry ELSE IF third = NoEntry THEN NoEntry ELSE mem[third.to][k]
  BY <1>1 DEF Walk
<1>7. CASE a # VirIndex
  <2>1. mem[Root][a] = NoEntry
    BY <1>3, <1>7 DEF RootTable
  <2> QED BY <1>1, <1>6, <1>7, <2>1
<1>8. CASE a = VirIndex
  <2>1. mem[Root][a] = [to |-> Top, perm |-> {}]
    BY <1>2, <1>3, <1>8 DEF RootTable
  <2>2. mem[Root][a] # NoEntry /\ mem[Root][a].to = Top
    BY <1>2, <2>1 DEF NoEntry
  <2>3. Walk(v) = IF mem[Top][q] = NoEntry THEN NoEntry ELSE mem[mem[Top][q].to][k]
    BY <1>6, <2>2
  <2>4. CASE Page(q, 0) < Top + 1
    <3>1. mem[Top][q] = [to |-> Leaf(q), perm |-> {}] /\ mem[Leaf(q)] = LastTable(q, Top + 1)
      BY <1>3, <2>4 DEF MiddleTable, LastTables
    <3>2. mem[Top][q] # NoEntry /\ mem[Top][q].to = Leaf(q)
      <4>1. Leaf(q) # -1
        <5>1. Page(q, 0) \in Frames
          BY <1>2, <2>4
        <5>2. Leaf(q) \in Free
          BY <1>2, <5>1, PlacesOfTables
        <5> QED BY <5>2, NumbersHold DEF Numbers
      <4> QED BY <3>1, <4>1 DEF NoEntry
    <3>3. Walk(v) = LastTable(q, Top + 1)[k]
      BY <2>3, <3>1, <3>2
    <3> QED BY <1>1, <1>5, <1>8, <3>3 DEF LastTable
  <2>5. CASE ~(Page(q, 0) < Top + 1)
    <3>1. mem[Top][q] = NoEntry
      BY <1>3, <2>5 DEF MiddleTable
    <3> QED BY <1>1, <1>4, <1>8, <2>3, <2>5, <3>1
  <2> QED BY <2>4, <2>5
<1> QED BY <1>7, <1>8

\* The virtual address of a frame has the index of the kernel.
LEMMA AddressOfFrame ==
  ASSUME NEW p \in Frames
  PROVE  \E q \in Indices, k \in Indices :
           /\ p = Page(q, k) /\ Virtual(p) = Address(VirIndex, q, k) /\ Physical(p) = Address(PhyIndex, q, k)
<1>1. p \in 0 .. Span - 1
  BY NumbersHold DEF Numbers
<1>2. PICK q \in Indices, k \in Indices : p = Page(q, k)
  BY <1>1, PlaceOf DEF Indices
<1> QED BY <1>2 DEF Virtual, Physical, Address

LEMMA FrameReached ==
  ASSUME BootInv, NEW p \in Frames
  PROVE  /\ satp = "early" => /\ Translation(Virtual(p)) = [to |-> p, perm |-> {"R", "W", "X"}]
                              /\ Translation(Physical(p)) = [to |-> p, perm |-> {"R", "W", "X"}]
         /\ satp = "swapper" => Translation(Virtual(p)) = [to |-> p, perm |-> Perm(p)]
<1>1. PICK q \in Indices, k \in Indices :
        p = Page(q, k) /\ Virtual(p) = Address(VirIndex, q, k) /\ Physical(p) = Address(PhyIndex, q, k)
  BY AddressOfFrame
<1>2. VirIndex \in Indices /\ PhyIndex \in Indices
  BY NumbersHold DEF Numbers, Indices
<1>3. /\ Virtual(p) \div Span = VirIndex /\ Virtual(p) % Span = p
      /\ Physical(p) \div Span = PhyIndex /\ Physical(p) % Span = p
  BY <1>1, <1>2, IndicesOf DEF Indices
<1>4. ASSUME satp = "swapper" PROVE Translation(Virtual(p)) = [to |-> p, perm |-> Perm(p)]
  <2>1. PageTables(mem, Top + 1)
    BY <1>4 DEF BootInv, TableInUse, Before, After
  <2>2. Walk(Virtual(p)) = [to |-> p, perm |-> Perm(p)]
    BY <1>1, <1>2, <2>1, WalkIs
  <2> QED BY <1>4, <2>2 DEF Translation
<1> QED BY <1>3, <1>4 DEF Translation, EarlyEntries
-----------------------------------------------------------------------------
\* Through both changes of the page table the kernel runs, reads and writes
\* where it thinks it does (head.S, setup_vm, setup_vm_final).
THEOREM KernelStaysMapped == Spec => []KernelReachesItself
<1>1. ASSUME BootInv PROVE KernelReachesItself
  <2>1. Text \subseteq Frames /\ Rodata \subseteq Frames /\ \A p \in Rodata : p \notin Text
    BY BaseAssumption DEF Text, Rodata, Frames, Root
  <2>2. \A p \in Text : Perm(p) = {"X", "R"}
    BY <2>1 DEF Perm
  <2>3. \A p \in Rodata : Perm(p) = {"R"}
    BY <2>1 DEF Perm
  <2>4. \A p \in Frames \ (Text \cup Rodata) : Perm(p) = {"W", "R"}
    BY DEF Perm
  <2>5. ASSUME stage = "ret", NEW p \in Text
        PROVE  Translation(Physical(p)).to = p /\ "X" \in Translation(Physical(p)).perm
    <3>1. satp = "early"
      BY <1>1, <2>5 DEF BootInv, TableInUse, After
    <3>2. Translation(Physical(p)) = [to |-> p, perm |-> {"R", "W", "X"}]
      BY <1>1, <2>1, <3>1, FrameReached
    <3> QED BY <3>2
  <2>6. ASSUME stage \in {"ret"} \/ Virtually
        PROVE  /\ \A p \in Text : Reaches(p, {"R", "X"})
               /\ \A p \in Rodata : Reaches(p, {"R"})
               /\ \A p \in Frames \ (Text \cup Rodata) : Reaches(p, {"R", "W"})
    <3>1. satp \in {"early", "swapper"}
      BY <1>1, <2>6 DEF BootInv, TableInUse, After, Before, Virtually
    <3>2. ASSUME NEW p \in Frames
          PROVE  Translation(Virtual(p)).to = p /\ Perm(p) \subseteq Translation(Virtual(p)).perm
      <4>1. Perm(p) \subseteq {"R", "W", "X"}
        BY DEF Perm
      <4>2. CASE satp = "early"
        <5>1. Translation(Virtual(p)) = [to |-> p, perm |-> {"R", "W", "X"}]
          BY <1>1, <4>2, FrameReached
        <5> QED BY <4>1, <5>1
      <4>3. CASE satp = "swapper"
        <5>1. Translation(Virtual(p)) = [to |-> p, perm |-> Perm(p)]
          BY <1>1, <4>3, FrameReached
        <5> QED BY <5>1
      <4> QED BY <3>1, <4>2, <4>3
    <3> QED BY <2>1, <2>2, <2>3, <2>4, <3>2 DEF Reaches
  <2> QED BY <2>5, <2>6 DEF KernelReachesItself
<1> QED BY <1>1, BootInvariant, PTL

\* The final table maps the kernel's pages and nothing else, none of them
\* both writable and executable, read-only data only readable
\* (setup_vm_final).
THEOREM FinalTableTight == Spec => []FinalTableIsTight
<1>1. ASSUME BootInv PROVE FinalTableIsTight
  <2> SUFFICES ASSUME satp = "swapper", NEW v \in 0 .. Fan * Span - 1, Translation(v) # NoEntry
               PROVE  LET e == Translation(v) IN
                      /\ e.to \in Frames /\ v = Virtual(e.to)
                      /\ ~({"W", "X"} \subseteq e.perm) /\ (e.to \in Rodata => e.perm = {"R"})
    BY DEF FinalTableIsTight
  <2>1. PICK a \in Indices, q \in Indices, k \in Indices : v = Address(a, q, k)
    BY HasIndices DEF Indices
  <2>2. PageTables(mem, Top + 1)
    BY <1>1 DEF BootInv, TableInUse, Before, After
  <2>3. Translation(v) = Walk(v)
    BY DEF Translation
  <2>4. a = VirIndex /\ Page(q, k) \in Frames /\ Walk(v) = [to |-> Page(q, k), perm |-> Perm(Page(q, k))]
    BY <2>1, <2>2, <2>3, WalkIs
  <2>5. v = Virtual(Page(q, k))
    BY <2>1, <2>4 DEF Virtual, Address
  <2>6. PICK p \in Frames : p = Page(q, k)
    BY <2>4
  <2>7. ~({"W", "X"} \subseteq Perm(p))
    BY DEF Perm
  <2>8. p \in Rodata => Perm(p) = {"R"}
    BY BaseAssumption DEF Perm, Text, Rodata
  <2> QED BY <2>3, <2>4, <2>5, <2>6, <2>7, <2>8
<1> QED BY <1>1, BootInvariant, PTL
-----------------------------------------------------------------------------
(***************************************************************************)
(* The pages of the tables are those above the ones on the list and those  *)
(* of the tasks.                                                           *)
(***************************************************************************)
LEMMA TablesAre ==
  ASSUME todo \in 0 .. Top + 1, PageTables(mem, todo)
  PROVE  AllTables = Root + (FreePages - Taken(todo)) + 1 .. Top
<1>1. /\ Top \in Nat /\ Root \in Nat /\ FreePages \in Nat /\ Top = Root + FreePages
      /\ Span \in Nat /\ Top < Span /\ VirIndex \in Indices /\ Indices = 0 .. Fan - 1 /\ Fan \in Nat
      /\ \A i \in Indices : i \in Nat
  BY NumbersHold DEF Numbers, Indices
<1>2. AllTables = Tables \cup UNION {{mem[t][i].to : i \in {j \in Indices : mem[t][j] # NoEntry}} : t \in Tables}
  BY DEF AllTables, Indices
<1>3. Tables = {e.to : e \in {mem[Root][i] : i \in Indices} \ {NoEntry}}
  BY DEF Tables, Indices
<1>4. CASE todo = 0
  <2>1. mem[Root] = [i \in Indices |-> NoEntry]
    BY <1>4, EmptyTables DEF PageTables, Cleared, Indices
  <2>2. Tables = {}
    BY <1>3, <2>1
  <2>3. Taken(todo) = 0
    BY <1>4 DEF Taken
  <2>4. AllTables = {}
    BY <1>2, <2>2
  <2>5. Root + (FreePages - 0) + 1 .. Top = {}
    BY <1>1
  <2> QED BY <2>3, <2>4, <2>5
<1>5. CASE todo # 0
  <2>1. PICK n \in 0 .. Span - 1 : n = todo - 1
    <3>1. todo \in Nat /\ todo >= 1 /\ todo <= Top + 1
      BY <1>1, <1>5
    <3>2. todo - 1 \in 0 .. Span - 1
      BY <1>1, <3>1
    <3> QED BY <3>2
  <2>2. PICK q \in Indices, k \in Indices : n = Page(q, k)
    BY <2>1, PlaceOf DEF Indices
  <2>3. Taken(todo) = q + 2
    <3>1. todo = Page(q, k) + 1
      BY <1>1, <2>1, <2>2
    <3> QED BY <3>1, OneMore DEF Indices
  <2>4. \A b \in Indices : Page(b, 0) < todo <=> b <= q
    <3> SUFFICES ASSUME NEW b \in Indices PROVE Page(b, 0) < todo <=> b <= q
      OBVIOUS
    <3>1. 0 \in Indices /\ b \in Nat /\ q \in Nat
      BY <1>1
    <3>2. Page(b, 0) \in Int /\ Page(q, 0) \in Int /\ Page(q, k) \in Int /\ todo = Page(q, k) + 1
      BY <1>1, <2>1, <2>2, PlacesOrdered
    <3>3. /\ b < q => Page(b, 0) < Page(q, 0)
          /\ q < b => Page(q, k) < Page(b, 0)
          /\ Page(q, 0) <= Page(q, k)
      BY <3>1, PlacesOrdered DEF Indices
    <3> QED BY <3>1, <3>2, <3>3
  <2>5. mem[Root] = RootTable(todo) /\ mem[Top] = MiddleTable(todo) /\ todo > 0
    BY <1>1, <1>5 DEF PageTables
  <2>6. Tables = {Top}
    <3>1. mem[Root][VirIndex] = [to |-> Top, perm |-> {}] /\ \A i \in Indices \ {VirIndex} : mem[Root][i] = NoEntry
      BY <1>1, <2>5 DEF RootTable
    <3>2. mem[Root][VirIndex] # NoEntry
      BY <1>1, <3>1 DEF NoEntry
    <3>3. {mem[Root][i] : i \in Indices} \ {NoEntry} = {[to |-> Top, perm |-> {}]}
      BY <1>1, <3>1, <3>2
    <3>4. Tables = {e.to : e \in {[to |-> Top, perm |-> {}]}}
      BY <1>3, <3>3
    <3> QED BY <3>4
  <2>7. {j \in Indices : mem[Top][j] # NoEntry} = 0 .. q
    <3>1. ASSUME NEW j \in Indices PROVE mem[Top][j] # NoEntry <=> j <= q
      <4>1. mem[Top][j] = IF j <= q THEN [to |-> Leaf(j), perm |-> {}] ELSE NoEntry
        BY <2>4, <2>5 DEF MiddleTable
      <4>2. j <= q => Leaf(j) # -1
        <5>1. q + 2 + NR_TASKS <= FreePages
          BY <2>3, TakenBound
        <5> QED BY <1>1, <5>1, NumbersHold DEF Leaf, Numbers
      <4> QED BY <4>1, <4>2 DEF NoEntry
    <3> QED BY <1>1, <3>1
  <2>8. \A j \in 0 .. q : mem[Top][j].to = Leaf(j)
    <3>1. \A j \in 0 .. q : j \in Indices /\ Page(j, 0) < todo
      BY <1>1, <2>4
    <3> QED BY <2>5, <3>1 DEF MiddleTable
  <2>9. AllTables = {Top} \cup {Leaf(j) : j \in 0 .. q}
    <3>1. AllTables = {Top} \cup {mem[Top][i].to : i \in {j \in Indices : mem[Top][j] # NoEntry}}
      BY <1>2, <2>6
    <3> QED BY <2>7, <2>8, <3>1
  <2>10. {Top} \cup {Leaf(j) : j \in 0 .. q} = Top - 1 - q .. Top
    <3>1. \A j \in 0 .. q : Leaf(j) \in Top - 1 - q .. Top
      BY <1>1 DEF Leaf
    <3>2. \A p \in Top - 1 - q .. Top : p # Top => Top - 1 - p \in 0 .. q /\ p = Leaf(Top - 1 - p)
      BY <1>1 DEF Leaf
    <3>3. Top \in Top - 1 - q .. Top
      BY <1>1
    <3> QED BY <3>1, <3>2, <3>3
  <2> QED BY <1>1, <2>3, <2>9, <2>10
<1> QED BY <1>4, <1>5

\* A page is on the free list, a table or a task_struct: one of the three, and
\* once (alloc_page, free_pages, create_mapping, task_init).
THEOREM PagesStayApart == Spec => []PagesApart
<1>1. ASSUME BootInv PROVE PagesApart
  <2>1. /\ Top \in Nat /\ Root \in Nat /\ FreePages \in Nat /\ Top = Root + FreePages
        /\ NR_TASKS \in Nat /\ NR_TASKS > 0 /\ Free = Root + 1 .. Top
        /\ Tasks = 0 .. NR_TASKS - 1 /\ 0 \in Tasks
    BY NumbersHold DEF Numbers, Tasks
  <2>2. PICK n \in Nat : n = FreePages - Taken(todo) /\ n >= NR_TASKS /\ n <= FreePages
    <3>1. Taken(todo) \in Nat /\ Taken(todo) + NR_TASKS <= FreePages
      BY <1>1, TakenBound DEF BootInv
    <3> QED BY <2>1, <3>1
  <2> DEFINE held == {task[t] : t \in Tasks} \ {-1}
             Parted == /\ IsInjective(kfreelist) /\ ToSet(kfreelist) \cap (AllTables \cup held) = {}
                       /\ AllTables \cap held = {}
                       /\ ToSet(kfreelist) \cup AllTables \cup held = Free
                       /\ task[0] # -1 => Cardinality(held) = NR_TASKS
  <2>3. SUFFICES ASSUME stage \notin Before PROVE Parted
    BY DEF PagesApart, Before
  <2>4. AllTables = Root + n + 1 .. Top
    BY <1>1, <2>2, <2>3, TablesAre DEF BootInv
  <2>5. CASE stage \in {"mapping", "task_init"}
    <3>1. kfreelist = Down(n) /\ task = [t \in Tasks |-> -1]
      BY <1>1, <2>2, <2>5 DEF BootInv, PagesGiven, Threaded
    <3>2. IsInjective(kfreelist) /\ ToSet(kfreelist) = Root + 1 .. Root + n
      BY <3>1, DownIs
    <3>3. held = {} /\ task[0] = -1
      BY <2>1, <3>1
    <3> HIDE DEF held
    <3> QED BY <2>1, <2>2, <2>4, <3>2, <3>3
  <2>6. CASE stage \in Threaded
    <3>1. kfreelist = Down(n - NR_TASKS) /\ task = [t \in Tasks |-> Root + n - t]
      BY <1>1, <2>2, <2>6 DEF BootInv, PagesGiven
    <3>2. PICK m \in Nat : m = n - NR_TASKS /\ n = m + NR_TASKS
      BY <2>1, <2>2
    <3>3. IsInjective(kfreelist) /\ ToSet(kfreelist) = Root + 1 .. Root + m
      BY <3>1, <3>2, DownIs
    <3>4. held = Root + m + 1 .. Root + n
      <4>1. ASSUME NEW t \in Tasks
            PROVE  task[t] \in Root + m + 1 .. Root + n /\ task[t] # -1
        <5>1. t \in 0 .. NR_TASKS - 1 /\ task[t] = Root + n - t
          BY <2>1, <3>1
        <5> QED BY <2>1, <3>2, <5>1
      <4>2. ASSUME NEW p \in Root + m + 1 .. Root + n
            PROVE  p \in held
        <5>1. PICK t \in Int : t = (Root + n) - p
          BY <2>1
        <5>2. t \in 0 .. NR_TASKS - 1 /\ p = Root + n - t /\ p # -1
          BY <2>1, <3>2, <5>1
        <5>3. t \in Tasks /\ task[t] = p
          BY <2>1, <3>1, <5>2
        <5> QED BY <5>2, <5>3
      <4> QED BY <4>1, <4>2
    <3>5. Cardinality(held) = NR_TASKS
      <4>1. Root + m + 1 \in Int /\ Root + n \in Int /\ (Root + n) - (Root + m + 1) + 1 = NR_TASKS
            /\ Root + m + 1 <= Root + n
        <5> HIDE DEF held
        <5> QED BY <2>1, <3>2
      <4>2. Cardinality(Root + m + 1 .. Root + n) = (Root + n) - (Root + m + 1) + 1
        BY <4>1, FS_Interval
      <4> QED BY <3>4, <4>1, <4>2
    <3> HIDE DEF held
    <3>6. PICK a \in Int : a = Root + m /\ Root <= a
      BY <2>1
    <3>7. PICK b \in Int : b = Root + n /\ a <= b /\ b <= Top
      <4> HIDE DEF Parted
      <4>1. PICK b \in Int : b = Root + n
        BY <2>1
      <4>2. a <= b
        BY <2>1, <3>2, <3>6, <4>1
      <4>3. b <= Top
        BY <2>1, <2>2, <4>1
      <4> QED BY <4>1, <4>2, <4>3
    <3>8. ToSet(kfreelist) = Root + 1 .. a /\ held = a + 1 .. b /\ AllTables = b + 1 .. Top
      BY <2>4, <3>3, <3>4, <3>6, <3>7
    <3>9. ToSet(kfreelist) \cap (AllTables \cup held) = {} /\ AllTables \cap held = {}
      BY <2>1, <3>6, <3>7, <3>8
    <3>10. ToSet(kfreelist) \cup AllTables \cup held = Free
      BY <2>1, <3>6, <3>7, <3>8
    <3> QED BY <3>3, <3>5, <3>9, <3>10
  <2>7. stage \in {"mapping", "task_init"} \/ stage \in Threaded
    BY <1>1, <2>3 DEF BootInv, Before, After, Threaded
  <2> HIDE DEF Parted
  <2> QED BY <2>5, <2>6, <2>7
<1> QED BY <1>1, BootInvariant, PTL
=============================================================================
