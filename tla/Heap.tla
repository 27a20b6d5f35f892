-------------------------------- MODULE Heap --------------------------------
(***************************************************************************)
(* The heap of user programs (malloc.c): blocks of one size, each with a   *)
(* header; a request takes a run of free blocks, of which only the first   *)
(* is marked.                                                              *)
(***************************************************************************)
EXTENDS Integers, FiniteSets, FiniteSetsExt

CONSTANTS BlkSize, MetaSize   \* BLK_SIZE, BLK_META_SIZE

ASSUME HeapAssumption == BlkSize \in Nat \ {0} /\ MetaSize \in Nat /\ MetaSize < BlkSize

NULL == 0
FreeBlock == [magic |-> TRUE, size |-> 0, free |-> TRUE]

\* What demand paging provides: blocks without the magic number.
RawHeap(n) == [i \in 1 .. n |-> [magic |-> FALSE, size |-> 0, free |-> FALSE]]

Needed(size) == (size + MetaSize) \div BlkSize + 1

IsFreeBlock(h, i) == h[i].magic /\ h[i].free

\* The first call formats the heap.
Formatted(h) == IF h[1].magic THEN h ELSE [i \in DOMAIN h |-> FreeBlock]

\* Where a run of k free blocks begins.
FreeRuns(h, k) == {i \in DOMAIN h : \A j \in i .. i + k - 1 : j \in DOMAIN h /\ IsFreeBlock(h, j)}

\* (Fault for a mutant: the block is not marked.)
Taken_NotMarked(h, i, size) == [h EXCEPT ![i].size = size]
Taken(h, i, size) == [h EXCEPT ![i].free = FALSE, ![i].size = size]

\* malloc: the heap afterwards and the block, or NULL.
Malloc(raw, size) ==
  LET h == Formatted(raw)
      runs == FreeRuns(h, Needed(size))
  IN  IF runs = {} THEN [heap |-> h, ptr |-> NULL]
      ELSE [heap |-> Taken(h, Min(runs), size), ptr |-> Min(runs)]

\* free: every block that the size of the first one stands for.
Free(h, p) ==
  IF p = NULL \/ ~h[p].magic THEN h
  ELSE [i \in DOMAIN h |-> IF i \in p .. p + Needed(h[p].size) - 1 THEN FreeBlock ELSE h[i]]
=============================================================================
