-------------------------------- MODULE Buddy --------------------------------
(***************************************************************************)
(* The buddy allocator of mm.c: a complete binary tree over the pages,     *)
(* kept in an array, in which every node holds the number of pages of the  *)
(* longest free run below it, and a counter of references for each page.   *)
(*                                                                         *)
(* An allocated node holds 0 and the nodes below it keep their values, so  *)
(* the size of a run is not stored: buddy_free finds it by climbing to the *)
(* first node that holds 0.                                                *)
(***************************************************************************)
EXTENDS Naturals

CONSTANTS
  Size,          \* buddy.size: the number of pages, a power of two
  Kernel,        \* pages in use at boot: kernel image, tree and counters
  Requests,      \* the numbers of pages that callers ask for
  Calls,         \* which of "ref_page", "deref_page", "free_pages" they use
  MaxRef         \* bound of the model on the references to a page

Width == 16      \* bits of a number of pages: PHY_SIZE holds 2^15 of them

\* The powers of two, as shifts compute them.
Pow2[k \in 0 .. Width] == IF k = 0 THEN 1 ELSE 2 * Pow2[k - 1]

ASSUME BuddyAssumption ==
  /\ Size \in {Pow2[k] : k \in 0 .. Width - 1}
  /\ Kernel \in 0 .. Size /\ Requests \subseteq 0 .. Size
  /\ Calls \subseteq {"ref_page", "deref_page", "free_pages"}
  /\ MaxRef \in Nat \ {0}

VARIABLES
  bitmap,        \* bitmap[i]: the longest free run below node i
  ref_cnt,       \* ref_cnt[p]: references to the run that starts at page p
  down           \* out of memory: sbi_ecall reset the machine

vars == <<bitmap, ref_cnt, down>>

Nodes == 0 .. 2 * Size - 2
Pages == 0 .. Size - 1
Left(i) == 2 * i + 1
Right(i) == 2 * i + 2
Parent(i) == (i + 1) \div 2 - 1
Larger(a, b) == IF a > b THEN a ELSE b

\* The pages below a node, and the first of them.
NodeSize[i \in Nodes] == IF i = 0 THEN Size ELSE NodeSize[Parent(i)] \div 2
NodeSizes == {NodeSize[i] : i \in Nodes}
FirstPage(i) == (i + 1) * NodeSize[i] - Size
Span(i) == FirstPage(i) .. FirstPage(i) + NodeSize[i] - 1
LeafOf(p) == p + Size - 1

TypeOK ==
  /\ bitmap \in [Nodes -> 0 .. Size]
  /\ ref_cnt \in [Pages -> 0 .. MaxRef]
  /\ down \in BOOLEAN

-----------------------------------------------------------------------------
\* A number as the set of its bits, and the number with given bits.
Bits(n) == {k \in 0 .. Width - 1 : (n \div Pow2[k]) % 2 = 1}
WithBits(B) == CHOOSE n \in 0 .. 2 * Size - 1 : Bits(n) = B

IsPowerOf2(n) == Bits(n) \cap Bits(n - 1) = {}

\* x | (x >> s), on bits.
OrShifted(B, s) == B \cup {k \in 0 .. Width - 1 : k + s \in B}

\* fixsize: the power of two above a number that is none.
FixSize(n) ==
  LET shifted1 == OrShifted(Bits(n - 1), 1)
      shifted4 == OrShifted(OrShifted(shifted1, 2), 4)
      shifted32 == OrShifted(OrShifted(OrShifted(shifted4, 8), 16), 32)
  IN  WithBits(shifted32) + 1

Rounded(n) == IF n = 0 THEN 1 ELSE IF IsPowerOf2(n) THEN n ELSE FixSize(n)

\* The tree after node i got value v and the loop up to the root gave each
\* of its ancestors a new value from those of its two children.
Rebuilt(bm, i, v, Combine(_, _, _)) ==
  LET new[k \in Nodes] ==
        IF k = i THEN v
        ELSE IF Span(i) \subseteq Span(k) /\ k < i
        THEN Combine(NodeSize[k], new[Left(k)], new[Right(k)])
        ELSE bm[k]
  IN  new

LongestOfTwo(n, l, r) == Larger(l, r)

\* (Fault for a mutant: two free buddies stay two.)
Merged_Never(n, l, r) == Larger(l, r)
Merged(n, l, r) == IF l + r = n THEN n ELSE Larger(l, r)

\* (Fault for a mutant: a left child that fits exactly is passed over.)
Chosen_Strict(bm, n) ==
  LET down_from[i \in {k \in Nodes : NodeSize[k] >= n}] ==
        IF NodeSize[i] = n THEN i
        ELSE IF bm[Left(i)] > n THEN down_from[Left(i)] ELSE down_from[Right(i)]
  IN  down_from[0]

\* The node that buddy_alloc descends to, past nodes of no fewer pages.
Chosen(bm, n) ==
  LET down_from[i \in {k \in Nodes : NodeSize[k] >= n}] ==
        IF NodeSize[i] = n THEN i
        ELSE IF bm[Left(i)] >= n THEN down_from[Left(i)] ELSE down_from[Right(i)]
  IN  down_from[0]

Taken(bm, i) == Rebuilt(bm, i, 0, LongestOfTwo)

\* The node where the climb of buddy_free ends: the first one that holds 0.
Holder(bm, p) ==
  LET up_from[i \in Nodes] ==
        IF bm[i] = 0 \/ i = 0 THEN i ELSE up_from[Parent(i)]
  IN  up_from[LeafOf(p)]

\* buddy_free of a page without references.  The size is doubled on the way
\* up, past the root too when no node held 0.
Given(bm, p) ==
  LET i == Holder(bm, p)
  IN  Rebuilt(bm, i, IF bm[i] = 0 THEN NodeSize[i] ELSE 2 * Size, Merged)

-----------------------------------------------------------------------------
\* buddy_init: a free tree, from which the pages in use are allocated.
Boot[k \in 0 .. Kernel] ==
  IF k = 0 THEN NodeSize ELSE Taken(Boot[k - 1], Chosen(Boot[k - 1], 1))

Init ==
  /\ bitmap = Boot[Kernel]
  /\ LET inUse == {FirstPage(Chosen(Boot[k - 1], 1)) : k \in 1 .. Kernel}
     IN  ref_cnt = [p \in Pages |-> IF p \in inUse THEN 1 ELSE 0]
  /\ down = FALSE

\* alloc_pages
AllocPages(n) ==
  /\ ~down
  /\ bitmap[0] >= Rounded(n)
  /\ LET i == Chosen(bitmap, Rounded(n))
     IN  /\ bitmap' = Taken(bitmap, i)
         /\ ref_cnt' = [ref_cnt EXCEPT ![FirstPage(i)] = 1]
  /\ UNCHANGED down

\* alloc_pages without a run that is long enough.
OutOfMemory(n) ==
  /\ ~down
  /\ bitmap[0] < Rounded(n)
  /\ down' = TRUE
  /\ UNCHANGED <<bitmap, ref_cnt>>

\* Callers never touch the references of the kernel's own pages.
CallerPages == Kernel .. Size - 1

\* ref_page: -1 for a page without references, the counter goes up otherwise.
RefPage(p) ==
  /\ ~down /\ "ref_page" \in Calls
  /\ ref_cnt[p] < MaxRef
  /\ ref_cnt' = IF ref_cnt[p] = 0 THEN ref_cnt ELSE [ref_cnt EXCEPT ![p] = @ + 1]
  /\ UNCHANGED <<bitmap, down>>

\* deref_page: -1 for a page without references; otherwise the counter goes
\* down, and the last reference frees the run.
DerefPage(p) ==
  /\ ~down /\ "deref_page" \in Calls
  /\ ref_cnt[p] # 0
  /\ ref_cnt' = [ref_cnt EXCEPT ![p] = @ - 1]
  /\ bitmap' = IF ref_cnt'[p] = 0 THEN Given(bitmap, p) ELSE bitmap
  /\ UNCHANGED down

\* free_pages of an allocated run, which returns at once: buddy_free does
\* nothing for a page with references, and buddy_alloc gave the run one.
FreePages(p) ==
  /\ ~down /\ "free_pages" \in Calls
  /\ ref_cnt[p] # 0
  /\ UNCHANGED vars

Next ==
  \/ \E n \in Requests : AllocPages(n) \/ OutOfMemory(n)
  \/ \E p \in CallerPages : RefPage(p) \/ DerefPage(p) \/ FreePages(p)

Spec == Init /\ [][Next]_vars

-----------------------------------------------------------------------------
(***************************************************************************)
(* Properties.                                                             *)
(***************************************************************************)

\* The run that starts at a page, as the tree describes it.
SizeOf(p) == IF ref_cnt[p] = 0 THEN 0 ELSE NodeSize[Holder(bitmap, p)]
Run(p) == p .. p + SizeOf(p) - 1

\* Every node that buddy_alloc can look at tells the truth: it holds the size
\* of the longest run of free buddies below it, after any order of splits and
\* merges.  Too much would hand out a page twice; too little would reset the
\* machine, or break up a run, with memory to spare.
TreeExact ==
  LET runs == {Run(p) : p \in {q \in Pages : ref_cnt[q] > 0}}
      busy == UNION runs
      below(i) == {k \in Nodes : Span(k) \subseteq Span(i) /\ Span(k) \cap busy = {}}
  IN  \A i \in Nodes :
        (\A r \in runs : ~(Span(i) \subseteq r /\ Span(i) # r)) =>
          /\ \A k \in below(i) : NodeSize[k] <= bitmap[i]
          /\ bitmap[i] # 0 => \E k \in below(i) : NodeSize[k] = bitmap[i]

Allocator == INSTANCE PageAlloc WITH
               NrPages <- Size,
               Sizes <- NodeSizes,
               Reserved <- Kernel,
               size <- [p \in Pages |-> SizeOf(p)],
               refs <- ref_cnt

\* The tree implements the allocator of mm.h: runs never overlap, keep their
\* size until the last reference goes, and a request fails only if it must.
ImplementsPageAlloc == Allocator!Spec
=============================================================================
