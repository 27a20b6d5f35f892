---------------------------- MODULE AddressSpace ----------------------------
(***************************************************************************)
(* The address spaces of user processes: page tables, the page faults of   *)
(* trap.c with copy-on-write, the duplication in do_fork, the loading of a *)
(* program in load_elf and do_execve, on top of the page allocator, whose  *)
(* runs and counters of references are those of PageAlloc.                 *)
(*                                                                         *)
(* A user page belongs to the image, which load_elf maps as a whole from   *)
(* one run of frames, or to the stack, mapped frame by frame on faults;    *)
(* the heap is left out: its pages are faulted in like those of the stack, *)
(* but under the tables of the image.  Image and stack lie in different    *)
(* regions of 1 GiB: each takes page tables of its own, two levels.  Frames*)
(* that hold kernel structures are counted where the code allocates them:  *)
(* they come from the same pool.  The operators whose names end in _...    *)
(* are faults, which no action uses: the properties must notice them.      *)
(***************************************************************************)
EXTENDS PageRuns, FiniteSets

CONSTANTS
  Procs,         \* the processes
  First,         \* the one that task_init creates
  ImagePages,    \* pages of the program's segment
  StackPages,    \* pages of the stack that the program uses
  ElfPages,      \* pages of the file that execve reads
  KernelPages,   \* pages in use at boot
  Calls,         \* which of "clone", "exit", "execve" the programs make
  Values,        \* contents of a frame: 0 is all zeros, 1 a program image
  Unmapped       \* what a program finds at a page it cannot read

ASSUME AddressSpaceAssumption ==
  /\ IsFiniteSet(Procs) /\ First \in Procs
  /\ ImagePages \in Nat \ {0} /\ StackPages \in Nat /\ ElfPages \in Nat \ {0}
  /\ KernelPages \in Nat
  /\ Calls \subseteq {"clone", "exit", "execve"}
  /\ {0, 1} \subseteq Values /\ Unmapped \notin Values

VARIABLES
  size,          \* the runs in use, as in PageAlloc
  refs,          \* buddy.ref_cnt of the frame a run starts at
  content,       \* what each frame holds
  pte,           \* pte[p][v]: the entry of page v in the page table of p
  live,          \* the processes that execute
  down,          \* out of memory: the machine has been reset
  wild           \* a page table with entries that nobody wrote

vars == <<size, refs, content, pte, live, down, wild>>

Image == 0 .. ImagePages - 1
Stack == ImagePages .. ImagePages + StackPages - 1
VPages == Image \cup Stack
Regions == {Image, Stack}

NoEntry == [v |-> FALSE, frame |-> 0, w |-> FALSE, s |-> FALSE]
Entry(f, w, s) == [v |-> TRUE, frame |-> f, w |-> w, s |-> s]
Mapped(p) == {v \in VPages : pte[p][v].v}
FramesOf(p) == {pte[p][v].frame : v \in Mapped(p)}

TypeOK ==
  /\ size \in [Pages -> Nat]
  /\ refs \in [Pages -> Nat]
  /\ content \in [Pages -> Values]
  /\ pte \in [Procs -> [VPages -> [v : BOOLEAN, frame : Pages, w : BOOLEAN, s : BOOLEAN]]]
  /\ live \subseteq Procs
  /\ down \in BOOLEAN
  /\ wild \in BOOLEAN

-----------------------------------------------------------------------------
(***************************************************************************)
(* Sequences of allocations.  What k calls of alloc_page get out of the    *)
(* free pages F is the k lowest ones; the last t of them are those above   *)
(* the first k - t.                                                        *)
(***************************************************************************)
Free == FreePages(size)
Lowest(F, k) == {f \in F : Cardinality({g \in F : g < f}) < k}
Latest(F, k, t) == Lowest(F, k) \ Lowest(F, k - t)

\* alloc_pages(n) gets the run of m pages at f out of F.
IsRun(f, m, F, n) == m \in Rounded(n) /\ IsFirst(f, RunsIn(F, m))

\* Pages allocated one by one, each with one reference.
Use(sz, F) == [f \in Pages |-> IF f \in F THEN 1 ELSE sz[f]]

Dirty(F) == \E f \in F : content[f] # 0

\* create_mapping allocates two tables for a region where nothing is mapped.
TablesFor(n) == 2 * n
RegionsOf(p) == {R \in Regions : R \cap Mapped(p) # {}}

\* An allocation fails: the machine is reset.
OutOfMemory ==
  /\ down' = TRUE
  /\ UNCHANGED <<size, refs, content, pte, live, wild>>

(***************************************************************************)
(* load_elf and what surrounds it in task_init and do_execve: three pages  *)
(* (page directory, mm_struct, VMA), the run of the segment, which is one  *)
(* page longer than needed, its two tables, two VMAs (stack and heap).     *)
(***************************************************************************)
AfterRun(F, f, m) == (F \ Lowest(F, 3)) \ Run(f, m)
CanLoad(F, f, m) ==
  /\ IsRun(f, m, F \ Lowest(F, 3), ImagePages + 1)
  /\ Cardinality(AfterRun(F, f, m)) >= 4
LoadPages(F, f, m) == Lowest(F, 3) \cup Lowest(AfterRun(F, f, m), 4)
NewTables(F, f, m) == Lowest(AfterRun(F, f, m), 2)
ImageAt(f) ==
  [v \in VPages |-> IF v \in Image THEN Entry(f + v, TRUE, FALSE) ELSE NoEntry]

\* task_init: idle, and the first process with its program.
Boot == 0 .. KernelPages + 1
Init ==
  \E f \in Pages, m \in Sizes :
    LET F == Pages \ Boot
    IN  /\ CanLoad(F, f, m)
        /\ size = [Use([g \in Pages |-> 0], Boot \cup LoadPages(F, f, m)) EXCEPT ![f] = m]
        /\ refs = [g \in Pages |-> IF size[g] > 0 THEN 1 ELSE 0]
        /\ content = [g \in Pages |-> IF g \in Run(f, ImagePages) THEN 1 ELSE 0]
        /\ pte = [p \in Procs |-> IF p = First THEN ImageAt(f) ELSE [v \in VPages |-> NoEntry]]
        /\ live = {First}
        /\ down = FALSE
        /\ wild = FALSE

\* The processor runs process p in defined behaviour.
Runs(p) == p \in live /\ ~down /\ ~wild
-----------------------------------------------------------------------------
\* A store that the page table allows.
Store(p, v, x) ==
  /\ Runs(p)
  /\ pte[p][v].v /\ pte[p][v].w
  /\ content' = [content EXCEPT ![pte[p][v].frame] = x]
  /\ UNCHANGED <<size, refs, pte, live, down, wild>>

\* Fault: the page is free whoever refers to it.
DerefSize_Always(sz, rf, f) == [sz EXCEPT ![f] = 0]

\* deref_page after sz and rf: nothing for a frame without references of its
\* own, and the run is free when the last one goes.
DerefSize(sz, rf, f) == IF rf[f] = 1 THEN [sz EXCEPT ![f] = 0] ELSE sz
DerefRefs(rf, f) == [rf EXCEPT ![f] = IF @ = 0 THEN 0 ELSE @ - 1]

\* do_page_fault of a store to a shared page: a private copy.
CopyOnWrite(p, v) ==
  /\ Runs(p)
  /\ pte[p][v].v /\ ~pte[p][v].w /\ pte[p][v].s
  /\ \/ Free = {} /\ OutOfMemory
     \/ \E f \in Lowest(Free, 1) :
          LET old == pte[p][v].frame
          IN  /\ content' = [content EXCEPT ![f] = content[old]]
              /\ pte' = [pte EXCEPT ![p][v] = Entry(f, TRUE, FALSE)]
              /\ refs' = [DerefRefs(refs, old) EXCEPT ![f] = 1]
              /\ size' = [DerefSize(size, refs, old) EXCEPT ![f] = 1]
              /\ UNCHANGED <<live, down, wild>>

\* do_page_fault of the first access to a page of the stack, whose frame
\* keeps what it held.
DemandPage(p, v) ==
  /\ Runs(p)
  /\ v \in Stack /\ ~pte[p][v].v
  /\ LET k == 1 + IF Stack \cap Mapped(p) = {} THEN TablesFor(1) ELSE 0
     IN  \/ Cardinality(Free) < k /\ OutOfMemory
         \/ \E f \in Lowest(Free, 1) :
              /\ Cardinality(Free) >= k
              /\ size' = Use(size, Lowest(Free, k))
              /\ refs' = Use(refs, Lowest(Free, k))
              /\ pte' = [pte EXCEPT ![p][v] = Entry(f, TRUE, FALSE)]
              /\ wild' = Dirty(Latest(Free, k, k - 1))
              /\ UNCHANGED <<content, live, down>>

\* Faults: do_fork does not call ref_page, or leaves the entries writable.
ForkRefs_None(rf, p) == rf
Shared_StillWritable(p) ==
  [v \in VPages |-> IF pte[p][v].v THEN Entry(pte[p][v].frame, TRUE, TRUE) ELSE NoEntry]

\* do_fork: six pages (task_struct, mm_struct, three VMAs, page directory)
\* and the tables of the child, which maps the same frames; every entry of
\* both becomes shared and read-only, and ref_page counts the mapping in a
\* frame that has references of its own.
ForkRefs(rf, p) ==
  [f \in Pages |-> IF rf[f] > 0 /\ f \in FramesOf(p) THEN rf[f] + 1 ELSE rf[f]]
Shared(p) ==
  [v \in VPages |-> IF pte[p][v].v THEN Entry(pte[p][v].frame, FALSE, TRUE) ELSE NoEntry]

Fork(p, c) ==
  /\ Runs(p) /\ "clone" \in Calls
  /\ c \notin live
  /\ LET t == TablesFor(Cardinality(RegionsOf(p)))
         k == 6 + t
     IN  \/ Cardinality(Free) < k /\ OutOfMemory
         \/ /\ Cardinality(Free) >= k
            /\ size' = Use(size, Lowest(Free, k))
            /\ refs' = ForkRefs(Use(refs, Lowest(Free, k)), p)
            /\ pte' = [pte EXCEPT ![p] = Shared(p), ![c] = Shared(p)]
            /\ live' = live \cup {c}
            /\ wild' = Dirty(Latest(Free, k, t))
            /\ UNCHANGED <<content, down>>

\* do_execve: the file is read into a run that nobody frees, and the process
\* gets a new page directory; nothing of the old one is released.
FileRun(b, n) == IsRun(b, n, Free, ElfPages + 1)
CanExec ==
  \E b \in Free, n \in Sizes :
    /\ FileRun(b, n)
    /\ \E f \in Free, m \in Sizes : CanLoad(Free \ Run(b, n), f, m)

\* The file is no ELF file: its run is lost.
ExecInvalid(p) ==
  /\ Runs(p) /\ "execve" \in Calls
  /\ \/ (\A n \in Rounded(ElfPages + 1) : RunsIn(Free, n) = {}) /\ OutOfMemory
     \/ \E b \in Free, n \in Sizes :
          /\ FileRun(b, n)
          /\ size' = [size EXCEPT ![b] = n]
          /\ refs' = [refs EXCEPT ![b] = 1]
          /\ UNCHANGED <<content, pte, live, down, wild>>

Exec(p) ==
  /\ Runs(p) /\ "execve" \in Calls
  /\ \/ ~CanExec /\ OutOfMemory
     \/ \E b \in Free, n \in Sizes :
          /\ FileRun(b, n)
          /\ \E f \in Free, m \in Sizes :
               LET F == Free \ Run(b, n)
               IN  /\ CanLoad(F, f, m)
                   /\ size' = [Use(size, LoadPages(F, f, m)) EXCEPT ![b] = n, ![f] = m]
                   /\ refs' = Use(refs, LoadPages(F, f, m) \cup {b, f})
                   /\ wild' = Dirty(NewTables(F, f, m))
                   /\ content' = Use(content, Run(f, ImagePages))
                   /\ pte' = [pte EXCEPT ![p] = ImageAt(f)]
                   /\ UNCHANGED <<live, down>>

\* exit: nothing of the address space is released, not even by waitpid.
Exit(p) ==
  /\ Runs(p) /\ "exit" \in Calls
  /\ live' = live \ {p}
  /\ UNCHANGED <<size, refs, content, pte, down, wild>>

Next ==
  \E p \in Procs :
    \/ \E v \in VPages : CopyOnWrite(p, v) \/ DemandPage(p, v)
    \/ \E v \in VPages, x \in Values : Store(p, v, x)
    \/ \E c \in Procs : Fork(p, c)
    \/ Exec(p) \/ ExecInvalid(p)
    \/ Exit(p)

Spec == Init /\ [][Next]_vars
-----------------------------------------------------------------------------
(***************************************************************************)
(* Copy-on-write is sound: a frame that two live processes map, which the  *)
(* marking of both tables in do_fork and the copies of do_page_fault keep  *)
(* up, is writable through neither table, so no store of one is seen by    *)
(* the other.                                                              *)
(***************************************************************************)
SharedReadOnly ==
  \A p, q \in live : \A v \in Mapped(p), u \in Mapped(q) :
    /\ p # q \/ v # u
    /\ pte[p][v].frame = pte[q][u].frame
    => ~pte[p][v].w

(***************************************************************************)
(* No early release: the references that do_fork adds with ref_page and    *)
(* do_page_fault gives back with deref_page never fall below the live page *)
(* table entries of a frame, whatever the order of faults of parent and    *)
(* children, so a frame that somebody maps is not handed out again.        *)
(***************************************************************************)
Mappings(f) ==
  {pv \in live \X VPages : pte[pv[1]][pv[2]].v /\ pte[pv[1]][pv[2]].frame = f}
RefsCoverMappings ==
  \A f \in Pages : Cardinality(Mappings(f)) <= refs[f]

(***************************************************************************)
(* create_mapping decides by the V bit whether an entry of a table exists  *)
(* (the comment in vm.c says so): the tables it has just allocated hold no *)
(* leftovers of a user program.                                            *)
(***************************************************************************)
CleanTables == ~wild

(***************************************************************************)
(* The page tables, the faults and the sharing of frames implement private *)
(* memory: what a program reads at a page is what it last stored there, or *)
(* what its parent had there at the fork, or the image.                    *)
(***************************************************************************)
Readable(p, v) == p \in live /\ pte[p][v].v
Memory ==
  [p \in Procs |-> [v \in VPages |->
     IF Readable(p, v) THEN content[pte[p][v].frame] ELSE Unmapped]]
User == INSTANCE UserMemory WITH mem <- Memory, Initial <- 1
ImplementsUserMemory == User!Spec

=============================================================================
