-------------------------------- MODULE Base --------------------------------
(***************************************************************************)
(* The base kernel (src/kernel): from reset through its two page tables to *)
(* the threads that the timer switches between.                            *)
(*                                                                         *)
(* Memory is the frames behind PHY_START: text, read-only data and data,   *)
(* with the root table at the end of the image, then what mm_init gives to *)
(* the list of free pages.  A table has Fan entries, so that the early     *)
(* table's entries cover Span pages each.  Boot runs alone, one page of    *)
(* create_mapping at a time; afterwards each statement of dummy_task can   *)
(* be followed by a timer interrupt.                                       *)
(***************************************************************************)
EXTENDS Integers, Sequences, FiniteSetsExt, SequencesExt

CONSTANTS TextPages, RodataPages, DataPages, FreePages,
          Fan,        \* entries of a table
          PhyIndex, VirIndex,   \* root entries of PHY_START and VM_START
          NR_TASKS

\* The pages under an entry of the root.
Span == Fan * Fan

\* alloc_page has no check: the pages behind the image suffice for the tables
\* of all frames and for the task_structs.
ASSUME BaseAssumption ==
  /\ {TextPages, RodataPages, DataPages, FreePages, Fan, NR_TASKS} \subseteq Nat \ {0}
  /\ {PhyIndex, VirIndex} \subseteq 0 .. Fan - 1 /\ PhyIndex # VirIndex
  /\ LET frames == TextPages + RodataPages + DataPages + FreePages IN
     /\ frames <= Span
     /\ 2 + (frames - 1) \div Fan + NR_TASKS <= FreePages

VARIABLES stage,      \* where head.S is
          satp,       \* "bare", "early" or "swapper"
          kfreelist,  \* the free pages, next one first
          mem,        \* the frames that can be tables, as entries
          todo,       \* the page create_mapping maps next
          task,       \* the frame of each task_struct
          counter, current, armed,
          where, prev_cnt   \* dummy_task of each thread
bootVars == <<kfreelist, mem, todo, task>>
threadVars == <<counter, current, armed, where, prev_cnt>>
vars == <<stage, satp, bootVars, threadVars>>

Text == 0 .. TextPages - 1
Rodata == TextPages .. TextPages + RodataPages - 1
Image == 0 .. TextPages + RodataPages + DataPages - 1
Root == TextPages + RodataPages + DataPages - 1
Frames == 0 .. Root + FreePages
Free == Frames \ Image
Threads == 1 .. NR_TASKS - 1
Tasks == 0 .. NR_TASKS - 1

NoEntry == [to |-> -1, perm |-> {}]
Leftover == [to |-> 0, perm |-> {"R", "W", "X"}]
Cleared == [i \in 0 .. Fan - 1 |-> NoEntry]
Virtual(p) == VirIndex * Span + p
Physical(p) == PhyIndex * Span + p

\* The translation of a page by the hardware.
Walk(v) ==
  LET second == mem[Root][v \div Span]
      third == mem[second.to][(v \div Fan) % Fan]
  IN  IF second = NoEntry THEN NoEntry ELSE IF third = NoEntry THEN NoEntry ELSE mem[third.to][v % Fan]
\* The two entries of the early table.
EarlyEntries_VirtualOnly == {VirIndex}
EarlyEntries == {PhyIndex, VirIndex}
Translation(v) ==
  CASE satp = "bare" -> [to |-> v - PhyIndex * Span, perm |-> {"R", "W", "X"}]
    [] satp = "early" -> IF v \div Span \in EarlyEntries THEN [to |-> v % Span, perm |-> {"R", "W", "X"}] ELSE NoEntry
    [] satp = "swapper" -> Walk(v)
-----------------------------------------------------------------------------
(* Boot *)
Step(from, to) == stage = from /\ stage' = to /\ UNCHANGED threadVars

SetupVm == Step("setup_vm", "relocate") /\ UNCHANGED <<satp, bootVars>>
\* satp changes while the program counter is still physical; ret goes to the virtual address.
Relocate == Step("relocate", "ret") /\ satp' = "early" /\ UNCHANGED bootVars
Returned == Step("ret", "mm_init") /\ UNCHANGED <<satp, bootVars>>

\* free_pages of each page upwards, so that the last one comes first.
MmInit ==
  /\ Step("mm_init", "setup_vm_final")
  /\ kfreelist' = Reverse([i \in 1 .. FreePages |-> Root + i])
  /\ mem' = [p \in DOMAIN mem |-> IF p = Root THEN mem[p] ELSE [mem[p] EXCEPT ![0] = NoEntry]]
  /\ UNCHANGED <<satp, todo, task>>

ClearRoot ==
  /\ Step("setup_vm_final", "mapping") /\ mem' = [mem EXCEPT ![Root] = Cleared]
  /\ UNCHANGED <<satp, kfreelist, todo, task>>

Perm_NoRodata(p) == IF p \in Text THEN {"X", "R"} ELSE {"W", "R"}
Perm(p) == CASE p \in Text -> {"X", "R"} [] p \in Rodata -> {"R"} [] OTHER -> {"W", "R"}

\* alloc_page and memset of a table.
NewTable_StillFree(s) == [free |-> s.free, tables |-> [s.tables EXCEPT ![Head(s.free)] = Cleared], at |-> Head(s.free)]
NewTable(s) == [free |-> Tail(s.free), tables |-> [s.tables EXCEPT ![Head(s.free)] = Cleared], at |-> Head(s.free)]
\* One level of create_mapping: the table below entry i of s.at.
Below(s, i) ==
  LET n == NewTable(s)
      old == s.tables[s.at][i]
  IN  IF old # NoEntry THEN [s EXCEPT !.at = old.to]
      ELSE [n EXCEPT !.tables = [n.tables EXCEPT ![s.at][i] = [to |-> n.at, perm |-> {}]]]

CreateMapping ==
  /\ stage = "mapping" /\ todo \in Frames
  /\ LET v == Virtual(todo)
         root == [free |-> kfreelist, tables |-> mem, at |-> Root]
         last == Below(Below(root, v \div Span), (v \div Fan) % Fan)
     IN  /\ kfreelist' = last.free
         /\ mem' = [last.tables EXCEPT ![last.at][v % Fan] = [to |-> todo, perm |-> Perm(todo)]]
  /\ todo' = todo + 1
  /\ UNCHANGED <<stage, satp, task, threadVars>>

SetSatp ==
  /\ Step("mapping", "task_init") /\ todo \notin Frames
  /\ satp' = "swapper" /\ UNCHANGED bootVars

TaskInit ==
  /\ Step("task_init", "start_timer")
  /\ task' = [t \in Tasks |-> kfreelist[t + 1]]
  /\ kfreelist' = SubSeq(kfreelist, NR_TASKS + 1, Len(kfreelist))
  /\ UNCHANGED <<satp, mem, todo>>

\* The rest of head.S: trap vector, first timer, interrupts, and start_kernel's loop.
StartTimer ==
  /\ stage = "start_timer" /\ stage' = "run" /\ armed' = TRUE
  /\ UNCHANGED <<satp, bootVars, counter, current, where, prev_cnt>>
-----------------------------------------------------------------------------
(* Threads *)
Counting(c) == {t \in Threads : c[t] > 0}
Refilled_NotFirst(c) == [t \in Tasks |-> IF t \in Threads \ {1} THEN 1 ELSE c[t]]
Refilled(c) == [t \in Tasks |-> IF t \in Threads THEN 1 ELSE c[t]]
\* The loop of schedule goes down and takes a counter only if it is greater.
Picked(c) ==
  LET greatest == Max({c[t] : t \in Threads}) IN Max({t \in Threads : c[t] = greatest})
SwitchTo(t) == current' = t
Schedule(c) ==
  LET d == IF Counting(c) = {} THEN Refilled(c) ELSE c
  IN  counter' = d /\ SwitchTo(Picked(d))

DoTimer ==
  LET c == IF counter[current] = 0 THEN counter ELSE [counter EXCEPT ![current] = @ - 1]
  IN  IF c[current] = 0 THEN Schedule(c) ELSE counter' = c /\ UNCHANGED current

\* trap_handler for a timer interrupt.
ClockSetNextEvent == armed' = TRUE
Timer ==
  /\ stage = "run" /\ armed
  /\ ClockSetNextEvent /\ DoTimer
  /\ UNCHANGED <<stage, satp, bootVars, where, prev_cnt>>

Goes(t, to) == where' = [where EXCEPT ![t] = to]
\* dummy_task, statement by statement, on the thread's own counter.
Statement(t) ==
  \/ where[t] = "test" /\ counter[t] # prev_cnt[t] /\ Goes(t, "one") /\ UNCHANGED <<counter, prev_cnt>>
  \/ where[t] = "one" /\ Goes(t, IF counter[t] = 1 THEN "zero" ELSE "save") /\ UNCHANGED <<counter, prev_cnt>>
  \/ where[t] = "zero" /\ counter' = [counter EXCEPT ![t] = 0] /\ Goes(t, "save") /\ UNCHANGED prev_cnt
  \/ where[t] = "save" /\ prev_cnt' = [prev_cnt EXCEPT ![t] = counter[t]] /\ Goes(t, "print") /\ UNCHANGED counter
  \/ where[t] = "print" /\ Goes(t, "test") /\ UNCHANGED <<counter, prev_cnt>>
DummyTask(t) ==
  /\ stage = "run" /\ current = t /\ Statement(t)
  /\ UNCHANGED <<stage, satp, bootVars, current, armed>>
-----------------------------------------------------------------------------
Init ==
  /\ stage = "setup_vm" /\ satp = "bare" /\ kfreelist = <<>> /\ todo = 0
  /\ mem = [p \in Free \cup {Root} |-> [i \in 0 .. Fan - 1 |-> Leftover]]
  /\ task = [t \in Tasks |-> -1] /\ counter = [t \in Tasks |-> 0]
  /\ current = 0 /\ armed = FALSE
  /\ where = [t \in Threads |-> "test"] /\ prev_cnt = [t \in Threads |-> 0]

Boot == SetupVm \/ Relocate \/ Returned \/ MmInit \/ ClearRoot \/ CreateMapping \/ SetSatp \/ TaskInit \/ StartTimer
Next == Boot \/ Timer \/ \E t \in Threads : DummyTask(t)
\* Boot goes on, the timer comes again and again, and a slice is long enough
\* for a thread that runs again and again to take its next step.
Spec == Init /\ [][Next]_vars /\ WF_vars(Boot) /\ WF_vars(Timer) /\ \A t \in Threads : SF_vars(DummyTask(t))
-----------------------------------------------------------------------------
Reaches(p, wanted) == LET e == Translation(Virtual(p)) IN e.to = p /\ wanted \subseteq e.perm
Virtually == stage \notin {"setup_vm", "relocate", "ret"}

\* From relocate on, the kernel runs, reads and writes where it thinks it does:
\* across the change to the early table (also for the return to the virtual
\* address), while free_pages threads its list through memory, and across the
\* change to the final table (head.S, setup_vm, setup_vm_final).
KernelReachesItself ==
  /\ stage = "ret" => \A p \in Text : Translation(Physical(p)).to = p /\ "X" \in Translation(Physical(p)).perm
  /\ stage \in {"ret"} \/ Virtually =>
       /\ \A p \in Text : Reaches(p, {"R", "X"})
       /\ \A p \in Rodata : Reaches(p, {"R"})
       /\ \A p \in Frames \ (Text \cup Rodata) : Reaches(p, {"R", "W"})

\* With the final table no page can be both written and executed, read-only
\* data is neither, and nothing but the kernel's own pages is mapped
\* (the comment of setup_vm_final).
FinalTableIsTight ==
  satp = "swapper" => \A v \in 0 .. Fan * Span - 1 :
    LET e == Translation(v) IN
    e # NoEntry => /\ e.to \in Frames /\ v = Virtual(e.to)
                   /\ ~({"W", "X"} \subseteq e.perm) /\ (e.to \in Rodata => e.perm = {"R"})

Tables == {e.to : e \in {mem[Root][i] : i \in 0 .. Fan - 1} \ {NoEntry}}
AllTables == Tables \cup UNION {{mem[t][i].to : i \in {j \in 0 .. Fan - 1 : mem[t][j] # NoEntry}} : t \in Tables}
\* A page is on the free list once, or a table, or holds one task_struct: no
\* two of these (alloc_page, free_pages, create_mapping, task_init).
PagesApart ==
  stage \notin {"setup_vm", "relocate", "ret", "mm_init", "setup_vm_final"} =>
    LET held == {task[t] : t \in Tasks} \ {-1} IN
    /\ IsInjective(kfreelist) /\ ToSet(kfreelist) \cap (AllTables \cup held) = {} /\ AllTables \cap held = {}
    /\ ToSet(kfreelist) \cup AllTables \cup held = Free
    /\ task[0] # -1 => Cardinality(held) = NR_TASKS

\* Every thread gets its turns and prints in them for ever, unless a refill has
\* come between the store of 0 and the load for prev_cnt, which then stays 1
\* (do_timer, schedule, dummy_task).
PrintsOrIsStuck == \A t \in Threads : []<>(where[t] = "print") \/ <>[](prev_cnt[t] = 1)

\* dummy_task sets its counter to 0 so that its line does not stop appearing
\* (the comment in it): not so, MCBasePrint.cfg shows how it stops.
KeepsPrinting == \A t \in Threads : []<>(where[t] = "print")
=============================================================================
