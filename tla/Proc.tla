-------------------------------- MODULE Proc --------------------------------
(***************************************************************************)
(* The process table, the scheduler and the process system calls of the    *)
(* kernel (kernel_XPart): proc.c, the clone, exit and waitpid cases of     *)
(* syscall_handler in trap.c, do_fork in fork.c, and start_kernel.         *)
(*                                                                         *)
(* The kernel is never preempted: sstatus.SIE stays clear (head.S:39-41),  *)
(* so a trap handler runs to its end or to a call of schedule().  One      *)
(* action is one trap, except waitpid, which calls schedule() in a loop:   *)
(* entering it is one action and every turn of its loop another.           *)
(***************************************************************************)
EXTENDS Naturals, FiniteSets, FiniteSetsExt

CONSTANTS
  NR_TASKS,        \* size of task[] and avail_pid[] (proc.h:20)
  PRIORITY_MIN,    \* a new process has a random priority of this range
  PRIORITY_MAX,
  MaxPriority,     \* bound of the model on priorities: each nested waitpid adds one
  Calls,           \* the process system calls that user programs make
  Disciplined      \* user programs fork only while a pid is free, and wait
                   \* only for children that they have not waited for

ASSUME ProcAssumption ==
  /\ NR_TASKS \in Nat /\ NR_TASKS > 1
  /\ PRIORITY_MIN \in Nat /\ PRIORITY_MAX \in Nat /\ MaxPriority \in Nat
  /\ 1 <= PRIORITY_MIN /\ PRIORITY_MIN <= PRIORITY_MAX /\ PRIORITY_MAX <= MaxPriority
  /\ Calls \subseteq {"clone", "exit", "waitpid"}
  /\ Disciplined \in BOOLEAN

VARIABLES
  avail_pid,       \* the pids p with avail_pid[p] = 1: those that are taken
  max_avail_pid,   \* schedule() looks at the pids 1 .. max_avail_pid
  state,           \* task[p]->state, "NULL" while task[p] is a null pointer
  priority,        \* task[p]->priority
  counter,         \* task[p]->counter: the ticks left in its time slice
  current,         \* the pid of the task that has the processor
  pc,              \* where p executes: "boot", "spin" (idle), "user", "waitpid"
  target,          \* the pid that the waitpid loop of p polls
  kids,            \* ids that fork returned to program p and p has not waited for
  oops             \* the kernel left the defined behaviour of C

procVars == <<avail_pid, max_avail_pid, state, priority, counter>>
vars == <<avail_pid, max_avail_pid, state, priority, counter, current, pc, target, kids, oops>>

Pids == 0 .. NR_TASKS - 1
UserPids == Pids \ {0}
Schedulable == {"RUNNING", "INTERRUPTIBLE"}
States == Schedulable \cup {"DEAD"}
Priorities == PRIORITY_MIN .. PRIORITY_MAX

TypeOK ==
  /\ avail_pid \subseteq Pids
  /\ max_avail_pid \in Pids
  /\ state \in [Pids -> States \cup {"NULL"}]
  /\ priority \in [Pids -> 0 .. MaxPriority]
  /\ counter \in [Pids -> 0 .. MaxPriority]
  /\ current \in Pids
  /\ pc \in [Pids -> {"boot", "spin", "user", "waitpid"}]
  /\ target \in [Pids -> Pids]
  /\ kids \in [Pids -> SUBSET UserPids]
  /\ oops \in BOOLEAN

(***************************************************************************)
(* task_init creates the idle thread and, INIT_TASKS being 2, one process. *)
(* It leaves the processor with idle, whose start_kernel then calls        *)
(* schedule().                                                             *)
(***************************************************************************)
Init ==
  /\ avail_pid = {0, 1}
  /\ max_avail_pid = 1
  /\ state = [p \in Pids |-> IF p \in {0, 1} THEN "RUNNING" ELSE "NULL"]
  /\ \E r \in Priorities : priority = [p \in Pids |-> IF p = 1 THEN r ELSE 0]
  /\ counter = [p \in Pids |-> 0]
  /\ current = 0
  /\ pc = [p \in Pids |-> IF p = 0 THEN "boot" ELSE "user"]
  /\ target = [p \in Pids |-> 0]
  /\ kids = [p \in Pids |-> {}]
  /\ oops = FALSE

-----------------------------------------------------------------------------
(***************************************************************************)
(* schedule() and switch_to().  st and c are task[]->state and ->counter   *)
(* as the caller leaves them.                                              *)
(***************************************************************************)

\* (Fault for a mutant: the state of the task is not looked at.)
Runnable_AnyState(st) == {p \in 1 .. max_avail_pid : p \in avail_pid}

\* The tasks that both loops of schedule() consider.
Runnable(st) == {p \in avail_pid : p \in 1 .. max_avail_pid /\ st[p] \in Schedulable}

\* (Fault for a mutant: idle loses a tie.)
Longest_AtLeast(R, c) ==
  LET best == {p \in R : c[p] >= c[0] /\ \A q \in R : c[q] <= c[p]}
  IN  IF best = {} THEN 0 ELSE CHOOSE p \in best : \A q \in best : p <= q

\* The first task with the greatest counter above that of idle, else idle.
Longest(R, c) ==
  LET best == {p \in R : c[p] > c[0] /\ \A q \in R : c[q] <= c[p]}
  IN  IF best = {} THEN 0 ELSE CHOOSE p \in best : \A q \in best : p <= q

\* When nobody has time left every runnable task gets its priority in ticks.
Refill(R, c) == [p \in Pids |-> IF p \in R THEN priority[p] ELSE c[p]]

\* (Faults for mutants: a refill at every call, and no refill at all.)
Schedule_AlwaysRefill(st, c) ==
  /\ counter' = Refill(Runnable(st), c)
  /\ current' = Longest(Runnable(st), counter')

Schedule_NoRefill(st, c) ==
  /\ counter' = c
  /\ current' = Longest(Runnable(st), c)

Schedule(st, c) ==
  LET R == Runnable(st)
  IN  /\ counter' = IF Longest(R, c) # 0 THEN c ELSE Refill(R, c)
      /\ current' = Longest(R, counter')

InUser == current # 0 /\ pc[current] = "user" /\ ~oops

\* start_kernel: idle enters schedule() once, and spins if it comes back.
StartKernel ==
  /\ pc[0] = "boot" /\ current = 0 /\ ~oops
  /\ Schedule(state, counter)
  /\ pc' = [pc EXCEPT ![0] = "spin"]
  /\ UNCHANGED <<avail_pid, max_avail_pid, state, priority, target, kids, oops>>

\* One turn of the `while (1)' of start_kernel, with interrupts masked.
IdleSpin ==
  /\ pc[0] = "spin" /\ current = 0 /\ ~oops
  /\ UNCHANGED vars

(***************************************************************************)
(* do_timer: a timer interrupt while a process executes user code.         *)
(***************************************************************************)
Timer ==
  /\ InUser
  /\ LET c == [counter EXCEPT ![current] = IF @ = 0 THEN 0 ELSE @ - 1]
     IN  IF c[current] = 0
         THEN Schedule(state, c)
         ELSE counter' = c /\ UNCHANGED current
  /\ UNCHANGED <<avail_pid, max_avail_pid, state, priority, pc, target, kids, oops>>

-----------------------------------------------------------------------------
(***************************************************************************)
(* clone: do_fork with the lowest free pid.                                *)
(***************************************************************************)

\* (Fault for a mutant: the pid of an exited process counts as free.)
FreePids_Exited == {p \in Pids : p \notin avail_pid \/ state[p] = "DEAD"}
FreePids == Pids \ avail_pid

\* (Fault for a mutant: one past the greatest pid.)
RaiseMax_PastEnd(p) == IF max_avail_pid < p THEN p + 1 ELSE max_avail_pid
RaiseMax(p) == IF max_avail_pid < p THEN p ELSE max_avail_pid

\* The child gets no time before the next refill.
NewTask(p, r) ==
  /\ state' = [state EXCEPT ![p] = "RUNNING"]
  /\ priority' = [priority EXCEPT ![p] = r]
  /\ counter' = [counter EXCEPT ![p] = 0]
  /\ pc' = [pc EXCEPT ![p] = "user"]
  /\ kids' = [kids EXCEPT ![p] = {}, ![current] = @ \cup {p}]

Clone ==
  /\ InUser /\ "clone" \in Calls
  /\ FreePids # {}
  /\ LET p == Min(FreePids)
     IN  /\ avail_pid' = avail_pid \cup {p}
         /\ max_avail_pid' = RaiseMax(p)
         /\ \E r \in Priorities : NewTask(p, r)
  /\ UNCHANGED <<current, target, oops>>

(***************************************************************************)
(* clone with a full table.  get_next_avail_pid falls off its end without  *)
(* a return value and do_fork's `child->pid < 0' is never true of a        *)
(* uint64_t, so the child gets whatever the register held: the slot of     *)
(* another process, or an address outside of task[].                       *)
(***************************************************************************)
CloneFull ==
  /\ InUser /\ "clone" \in Calls /\ ~Disciplined
  /\ FreePids = {}
  /\ \/ /\ \E p \in UserPids \ {current}, r \in Priorities : NewTask(p, r)
        /\ UNCHANGED oops
     \/ /\ oops' = TRUE
        /\ UNCHANGED <<state, priority, counter, pc, kids>>
  /\ UNCHANGED <<avail_pid, max_avail_pid, current, target>>

\* exit: the record and the pid stay until somebody waits for them.
ExitTask ==
  /\ InUser /\ "exit" \in Calls
  /\ state' = [state EXCEPT ![current] = "DEAD"]
  /\ Schedule(state', counter)
  /\ kids' = [kids EXCEPT ![current] = {}]
  /\ UNCHANGED <<avail_pid, max_avail_pid, priority, pc, target, oops>>

-----------------------------------------------------------------------------
(***************************************************************************)
(* waitpid.                                                                *)
(***************************************************************************)

\* (Fault for a mutant: the scan runs upwards.)
FreedMax_LowestUsed(p) ==
  LET used == {q \in avail_pid : q \in 1 .. max_avail_pid /\ q # p}
  IN  IF p = max_avail_pid /\ used # {} THEN Min(used) ELSE max_avail_pid

\* free_pid: a pid below the greatest is simply released, the greatest one
\* hands max_avail_pid to the greatest used pid below it, if there is one.
FreedMax(p) ==
  LET used == {q \in avail_pid : q \in 1 .. max_avail_pid /\ q # p}
  IN  IF p = max_avail_pid /\ used # {} THEN Max(used) ELSE max_avail_pid

\* (Fault for a mutant: the pid of the caller is released.)
FreePid_Caller(p) ==
  /\ avail_pid' = avail_pid \ {current}
  /\ max_avail_pid' = FreedMax(current)

FreePid(p) ==
  IF p \in avail_pid
  THEN /\ avail_pid' = avail_pid \ {p}
       /\ max_avail_pid' = FreedMax(p)
  ELSE UNCHANGED <<avail_pid, max_avail_pid>>

\* A disciplined program waits for a child that it has not waited for yet.
MayWaitFor(p) == Disciplined => p \in kids[current]

\* The process waited for gets a priority above the waiter's.
Boost == priority[current] + 1

\* Entering waitpid: a full slice for the process waited for.
WaitEnter ==
  /\ InUser /\ "waitpid" \in Calls
  /\ priority[current] < MaxPriority
  /\ \E p \in Pids :
       /\ MayWaitFor(p)
       /\ state[p] # "NULL"
       /\ priority' = [priority EXCEPT ![p] = Boost]
       /\ counter' = [counter EXCEPT ![p] = Boost]
       /\ target' = [target EXCEPT ![current] = p]
  /\ pc' = [pc EXCEPT ![current] = "waitpid"]
  /\ UNCHANGED <<avail_pid, max_avail_pid, state, current, kids, oops>>

\* A pid outside of task[], or one that never had a task: the range check
\* only prints, and the code goes on to write through task[pid].
WaitBadPid ==
  /\ InUser /\ "waitpid" \in Calls /\ ~Disciplined
  /\ oops' = TRUE
  /\ UNCHANGED <<procVars, current, pc, target, kids>>

Polling == pc[current] = "waitpid" /\ ~oops
Exited(p) == state[p] = "DEAD"

\* A turn of the loop that finds the process dead: its pid is released.
WaitReap ==
  /\ Polling
  /\ LET p == target[current]
     IN  /\ Exited(p)
         /\ state' = [state EXCEPT ![p] = "DEAD", ![current] = "RUNNING"]
         /\ FreePid(p)
         /\ kids' = [kids EXCEPT ![current] = @ \ {p}]
  /\ pc' = [pc EXCEPT ![current] = "user"]
  /\ UNCHANGED <<priority, counter, current, target, oops>>

\* A turn that does not: the caller becomes interruptible and schedules.
WaitPoll ==
  /\ Polling
  /\ ~Exited(target[current])
  /\ state' = [state EXCEPT ![current] = "INTERRUPTIBLE"]
  /\ Schedule(state', counter)
  /\ UNCHANGED <<avail_pid, max_avail_pid, priority, pc, target, kids, oops>>

Kernel == StartKernel \/ IdleSpin \/ Timer \/ WaitReap \/ WaitPoll
UserCall == Clone \/ CloneFull \/ ExitTask \/ WaitEnter \/ WaitBadPid
Next == Kernel \/ UserCall

Spec == Init /\ [][Next]_vars

\* The processor keeps executing kernel code, and the timer, re-armed by
\* every timer interrupt (trap.c:337), keeps interrupting user code.
FairSpec == Spec /\ WF_vars(Kernel)

-----------------------------------------------------------------------------
(***************************************************************************)
(* Properties.                                                             *)
(***************************************************************************)

\* schedule() reaches every process and follows no null pointer: it visits
\* 1 .. max_avail_pid, prints a field of each task[i] (proc.c:277) and
\* considers no pid above.  Processes are reaped in any order, so the free
\* pids have holes and free_pid lowers max_avail_pid past some of them.
ScheduleCovers ==
  \A p \in UserPids :
    /\ p \in avail_pid => p <= max_avail_pid
    /\ p <= max_avail_pid => state[p] # "NULL"

\* User code runs only as a live process inside its time slice: whatever
\* the order of timer interrupts, exits, waits and wake-ups, the process
\* that has the processor in user mode is RUNNING, has a tick left, and no
\* more ticks than its priority.
UserHasSlice ==
  InUser => /\ state[current] = "RUNNING"
            /\ counter[current] \in 1 .. priority[current]

\* Idle spins with interrupts masked and never schedules again, so it may
\* get the processor only when no process is left that could ever run.
IdleOnlyAtTheEnd ==
  (current = 0 /\ pc[0] = "spin") => Runnable(state) = {}

\* The id that fork handed to a program names one process until the program
\* waits for it: the pid stays taken, no other live process holds the same
\* id, and the pid that a suspended waitpid polls has not been recycled.
HandlesExact ==
  \A p \in UserPids :
    /\ \A k \in kids[p] : k \in avail_pid /\ state[k] # "NULL" /\ state[p] # "DEAD"
    /\ \A q \in UserPids \ {p} : kids[p] \cap kids[q] = {}
    /\ (state[p] \in Schedulable /\ pc[p] = "waitpid") => target[p] \in kids[p]

\* A pid is released only by reaping a process that has exited: a free pid
\* never has a record that schedule() could still pick.
FreedIsDead ==
  \A p \in FreePids : state[p] \in {"NULL", "DEAD"}

\* Time slices come in rounds.  Except for the process that a waitpid
\* boosts, nobody gets new ticks while another process that can run still
\* has some: this is what keeps a process of high priority from being
\* refilled again and again over one of low priority.
RefillOnlyWhenDrained ==
  [][\A p \in Pids : counter'[p] > counter[p] =>
       \/ /\ pc[current] = "user" /\ pc'[current] = "waitpid"
          /\ target'[current] = p
       \/ \A q \in Runnable(state') \ {current} : counter[q] = 0]_vars

\* Every process that can run gets the processor, as long as nobody calls
\* waitpid.  (With waitpid it need not: see WaitYields.)
NoStarvation ==
  \A p \in UserPids :
    (p \in avail_pid /\ state[p] \in Schedulable) ~> (current = p \/ state[p] = "DEAD")

\* The comment in the loop of waitpid, "yield to other processes"
\* (trap.c:193): a caller that polls a process which has not exited gives
\* the processor away.
WaitYields ==
  (pc[current] = "waitpid" /\ ~Exited(target[current])) ~> (pc[current] # "waitpid" \/ Exited(target[current]))

\* "no available pid", return -1 (fork.c:10-12): with every pid taken, clone
\* hands out no process.
CloneFailsWhenFull ==
  [][FreePids = {} => \A q \in UserPids : kids'[q] \subseteq kids[q]]_vars

-----------------------------------------------------------------------------
(***************************************************************************)
(* The abstract specification that this module implements.                 *)
(***************************************************************************)
LifeOf(p) ==
  IF p \notin avail_pid THEN "free" ELSE IF state[p] = "DEAD" THEN "exited" ELSE "live"

Life == INSTANCE ProcLife WITH
          life <- [p \in UserPids |-> LifeOf(p)],
          children <- [p \in UserPids |-> kids[p]],
          running <- current

\* Under disciplined programs the kernel keeps every promise of ProcLife:
\* only live processes run, ids are handed out and collected once, and the
\* processor does not idle while a process is live.
ImplementsProcLife == Life!Spec
=============================================================================
