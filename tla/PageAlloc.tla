------------------------------ MODULE PageAlloc ------------------------------
(***************************************************************************)
(* What the page allocator of the kernel promises (mm.h), without the      *)
(* tree: a request gets the lowest run of free pages that is aligned to    *)
(* its size, with one reference; the run is free again when the last       *)
(* reference goes; a request fails only when no such run is free, and      *)
(* then the machine is reset.                                              *)
(***************************************************************************)
EXTENDS PageRuns

CONSTANTS
  Reserved,      \* the pages below hold the kernel image
  Requests       \* the numbers of pages asked for

VARIABLES
  size,          \* size[p]: pages of the run that starts at p, 0 if none does
  refs,          \* refs[p]: references to the run that starts at p
  down           \* out of memory: the machine has been reset

vars == <<size, refs, down>>

TypeOK ==
  /\ size \in [Pages -> Nat]
  /\ refs \in [Pages -> Nat]
  /\ down \in BOOLEAN

Init ==
  /\ size = [p \in Pages |-> IF p < Reserved THEN 1 ELSE 0]
  /\ refs = size
  /\ down = FALSE

Alloc(n) ==
  /\ ~down
  /\ \E m \in Rounded(n) : \E p \in RunsIn(FreePages(size), m) :
       /\ IsFirst(p, RunsIn(FreePages(size), m))
       /\ size' = [size EXCEPT ![p] = m]
       /\ refs' = [refs EXCEPT ![p] = 1]
  /\ UNCHANGED down

OutOfMemory(n) ==
  /\ ~down
  /\ \A m \in Rounded(n) : RunsIn(FreePages(size), m) = {}
  /\ down' = TRUE
  /\ UNCHANGED <<size, refs>>

Ref(p) ==
  /\ ~down
  /\ refs[p] > 0
  /\ refs' = [refs EXCEPT ![p] = @ + 1]
  /\ UNCHANGED <<size, down>>

Deref(p) ==
  /\ ~down
  /\ refs[p] > 0
  /\ refs' = [refs EXCEPT ![p] = @ - 1]
  /\ size' = IF refs[p] = 1 THEN [size EXCEPT ![p] = 0] ELSE size
  /\ UNCHANGED down

Next ==
  \/ \E n \in Requests : Alloc(n) \/ OutOfMemory(n)
  \/ \E p \in Pages : Ref(p) \/ Deref(p)

Spec == Init /\ [][Next]_vars

\* Runs never overlap.
RunsDisjoint == Disjoint(size)

\* A run is in use as long as somebody refers to it, and no longer.
HeldIffReferenced == \A p \in Pages : size[p] > 0 <=> refs[p] > 0
=============================================================================
