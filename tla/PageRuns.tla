------------------------------ MODULE PageRuns ------------------------------
(***************************************************************************)
(* Runs of physical pages: what the page allocator hands out.  A function  *)
(* sz gives the size of the run that starts at each page, 0 if none does.  *)
(***************************************************************************)
EXTENDS Naturals

CONSTANTS
  NrPages,       \* the pages 0 .. NrPages-1
  Sizes          \* the sizes of the runs handed out

ASSUME PageRunsAssumption ==
  /\ NrPages \in Nat
  /\ Sizes \subseteq Nat \ {0}

Pages == 0 .. NrPages - 1
Run(p, n) == p .. p + n - 1
Busy(sz) == UNION {Run(p, sz[p]) : p \in Pages}

\* The size of the run that a request for n pages gets.
Rounded(n) == {m \in Sizes : m >= n /\ \A k \in Sizes : k >= n => m <= k}

\* The pages that no run holds, and the runs of m pages within a set F of pages.
FreePages(sz) == Pages \ Busy(sz)
RunsIn(F, m) == {p \in F : p % m = 0 /\ Run(p, m) \subseteq F}

\* A request gets the lowest one.
IsFirst(p, S) == p \in S /\ \A q \in S : p <= q

\* No page belongs to two runs: what one owner writes, no other one sees.
Disjoint(sz) ==
  \A p, q \in Pages : p # q => Run(p, sz[p]) \cap Run(q, sz[q]) = {}
=============================================================================
