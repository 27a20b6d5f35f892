----------------------------- MODULE ProcProofs -----------------------------
(***************************************************************************)
(* Proofs about Proc, for every table size and every range of priorities:  *)
(* the schedule is safe and no free pid can run under any programs, and    *)
(* under disciplined ones ids stay exact, refills come in rounds, and the  *)
(* kernel implements the abstract specification ProcLife.                  *)
(***************************************************************************)
EXTENDS Proc, FiniteSetTheorems, WellFoundedInduction, TLAPS

\* A bounded set of naturals that is not empty has a least element.
LEMMA LeastElement ==
  ASSUME NEW top \in Nat, NEW S \in SUBSET (0 .. top), S # {}
  PROVE  \E x \in S : \A y \in S : x <= y
<1>1. S \subseteq Nat
  OBVIOUS
<1>2. PICK x \in S : \A y \in S : ~ (<<y, x>> \in OpToRel(<, Nat))
  BY <1>1, NatLessThanWellFounded, WFMin, Zenon
<1>3. \A y \in S : ~ (y < x)
  BY <1>1, <1>2, Zenon DEF OpToRel
<1> QED BY <1>1, <1>3

\* It has a greatest element: the least of the distances to n.
LEMMA GreatestElement ==
  ASSUME NEW n \in Nat, NEW S \in SUBSET (0 .. n), S # {}
  PROVE  \E x \in S : \A y \in S : y <= x
<1> DEFINE T == {n - x : x \in S}
<1>1. T \in SUBSET (0 .. n) /\ T # {}
  <2>1. \A x \in S : n - x \in 0 .. n
    OBVIOUS
  <2>2. PICK x \in S : TRUE
    OBVIOUS
  <2>3. n - x \in T
    OBVIOUS
  <2>4. \A t \in T : t \in 0 .. n
    BY <2>1
  <2> QED BY <2>3, <2>4
<1>2. PICK t \in T : \A u \in T : t <= u
  BY <1>1, LeastElement
<1>3. PICK x \in S : t = n - x
  OBVIOUS
<1>4. \A y \in S : n - y \in T
  OBVIOUS
<1> QED BY <1>2, <1>3, <1>4, SMTT(30)

(***************************************************************************)
(* What the helpers of the scheduler return.                               *)
(***************************************************************************)

\* Longest returns idle only when no task has more time left than idle, and
\* otherwise a task of R that has.
LEMMA LongestReturns ==
  ASSUME NEW R \in SUBSET UserPids, NEW c \in [Pids -> 0 .. MaxPriority]
  PROVE  /\ Longest(R, c) = 0 => \A p \in R : c[p] <= c[0]
         /\ Longest(R, c) # 0 => /\ Longest(R, c) \in R
                                 /\ c[Longest(R, c)] > c[0]
<1> DEFINE best == {p \in R : c[p] > c[0] /\ \A q \in R : c[q] <= c[p]}
<1> USE ProcAssumption DEF Pids, UserPids
<1>1. CASE best = {}
  <2>1. Longest(R, c) = 0
    BY <1>1 DEF Longest
  <2>2. ASSUME NEW p \in R, c[p] > c[0]
        PROVE  FALSE
    <3> DEFINE S == {c[q] : q \in R}
    <3>1. S \in SUBSET (0 .. MaxPriority)
      OBVIOUS
    <3>2. c[p] \in S
      OBVIOUS
    <3>3. PICK x \in S : \A y \in S : y <= x
      <4> HIDE DEF S
      <4> QED BY <3>1, <3>2, GreatestElement
    <3>4. PICK q \in R : x = c[q]
      OBVIOUS
    <3>5. \A r \in R : c[r] \in S
      OBVIOUS
    <3>6. \A r \in R : c[r] <= c[q]
      BY <3>3, <3>4, <3>5
    <3>7. c[q] > c[0]
      BY <2>2, <3>6
    <3> QED BY <1>1, <3>6, <3>7
  <2> QED BY <2>1, <2>2
<1>2. CASE best # {}
  <2>1. best \subseteq R /\ R \subseteq 0 .. NR_TASKS - 1 /\ NR_TASKS - 1 \in Nat
    OBVIOUS
  <2>2. \E p \in best : \A q \in best : p <= q
    <3> HIDE DEF best
    <3> QED BY <1>2, <2>1, LeastElement
  <2>3. Longest(R, c) = CHOOSE p \in best : \A q \in best : p <= q
    BY <1>2 DEF Longest
  <2>4. Longest(R, c) \in best
    <3> HIDE DEF best
    <3> QED BY <2>2, <2>3
  <2> QED BY <2>4
<1> QED BY <1>1, <1>2

\* The lowest free pid: every pid below it is taken.
LEMMA LowestFree ==
  ASSUME TypeOK, FreePids # {}
  PROVE  /\ Min(FreePids) \in Pids
         /\ Min(FreePids) \notin avail_pid
         /\ \A q \in Pids : q < Min(FreePids) => q \in avail_pid
<1>1. FreePids \in SUBSET (0 .. NR_TASKS - 1) /\ NR_TASKS - 1 \in Nat
  BY ProcAssumption DEF FreePids, Pids
<1>2. \E p \in FreePids : \A q \in FreePids : p <= q
  BY <1>1, LeastElement
<1>3. Min(FreePids) \in FreePids /\ \A q \in FreePids : Min(FreePids) <= q
  BY <1>2 DEF Min
<1> DEFINE m == Min(FreePids)
<1>4. m \in Pids /\ m \notin avail_pid /\ m \in Int
  BY <1>1, <1>3 DEF FreePids
<1>5. ASSUME NEW q \in Pids, q < m
      PROVE  q \in avail_pid
  <2>1. q \in Int /\ ~(m <= q)
    BY <1>4, <1>5, ProcAssumption DEF Pids
  <2>2. q \notin FreePids
    BY <1>3, <2>1
  <2> QED BY <2>2 DEF FreePids
<1> QED BY <1>4, <1>5

\* free_pid keeps max_avail_pid above every pid that stays taken, and never
\* raises it.
LEMMA FreedMaxCovers ==
  ASSUME TypeOK, NEW p \in Pids,
         \A q \in avail_pid : q <= max_avail_pid
  PROVE  /\ FreedMax(p) \in Pids
         /\ FreedMax(p) <= max_avail_pid
         /\ \A q \in avail_pid \ {p} : q <= FreedMax(p)
<1> DEFINE used == {q \in avail_pid : q \in 1 .. max_avail_pid /\ q # p}
<1> USE ProcAssumption DEF TypeOK, Pids
<1>1. CASE p = max_avail_pid /\ used # {}
  <2>1. used \in SUBSET (0 .. max_avail_pid) /\ max_avail_pid \in Nat
    <3>1. max_avail_pid \in Nat
      OBVIOUS
    <3>2. 1 .. max_avail_pid \subseteq 0 .. max_avail_pid
      BY <3>1
    <3> QED BY <3>1, <3>2
  <2>2. \E x \in used : \A y \in used : y <= x
    <3> HIDE DEF used
    <3> QED BY <1>1, <2>1, GreatestElement
  <2>3. FreedMax(p) = Max(used)
    BY <1>1 DEF FreedMax
  <2>4. Max(used) \in used /\ \A y \in used : y <= Max(used)
    <3> HIDE DEF used
    <3>1. \E x \in used : \A y \in used : x >= y
      BY <2>1, <2>2
    <3>2. Max(used) \in used /\ \A y \in used : Max(used) >= y
      BY <3>1 DEF Max
    <3> QED BY <2>1, <3>2
  <2>5. Max(used) \in Pids /\ Max(used) <= max_avail_pid
    <3>1. \A x \in used : x \in 1 .. max_avail_pid
      OBVIOUS
    <3>2. Max(used) \in 1 .. max_avail_pid
      <4> HIDE DEF used
      <4> QED BY <2>4, <3>1
    <3>3. max_avail_pid \in 0 .. NR_TASKS - 1 /\ NR_TASKS \in Nat
      OBVIOUS
    <3> QED BY ONLY <3>2, <3>3 DEF Pids
  <2>6. ASSUME NEW q \in avail_pid \ {p}
        PROVE  q <= Max(used)
    <3>1. q \in 0 .. max_avail_pid
      BY <2>6
    <3>2. CASE q = 0
      BY <2>5, <3>2
    <3>3. CASE q # 0
      BY <2>4, <2>6, <3>1, <3>3
    <3> QED BY <3>2, <3>3
  <2> QED BY <2>3, <2>5, <2>6
<1>2. CASE ~(p = max_avail_pid /\ used # {})
  <2>1. FreedMax(p) = max_avail_pid
    BY <1>2 DEF FreedMax
  <2> QED BY <2>1
<1> QED BY <1>1, <1>2

(***************************************************************************)
(* Type correctness.                                                       *)
(***************************************************************************)

LEMMA RunnablePids ==
  ASSUME TypeOK, NEW st
  PROVE  Runnable(st) \subseteq UserPids
<1>1. max_avail_pid \in 0 .. NR_TASKS - 1 /\ NR_TASKS \in Nat
  BY ProcAssumption DEF TypeOK, Pids
<1>2. \A p \in Runnable(st) : p \in 1 .. max_avail_pid
  BY DEF Runnable
<1>3. 1 .. max_avail_pid \subseteq (0 .. NR_TASKS - 1) \ {0}
  BY ONLY <1>1
<1> QED BY <1>2, <1>3 DEF Pids, UserPids

\* What a call of schedule() does to the counters and to the processor.
LEMMA ScheduleSteps ==
  ASSUME TypeOK,
         NEW st, NEW c \in [Pids -> 0 .. MaxPriority],
         \A p \in Pids : c[p] <= priority[p],
         \A p \in Runnable(st) : priority[p] >= 1,
         Schedule(st, c)
  PROVE  /\ counter' \in [Pids -> 0 .. MaxPriority]
         /\ \A p \in Pids : counter'[p] <= priority[p]
         /\ counter'[0] = c[0]
         /\ current' \in Runnable(st) \cup {0}
         /\ current' # 0 => counter'[current'] >= 1
         /\ (current' = 0 /\ c[0] = 0) => Runnable(st) = {}
<1> DEFINE R == Runnable(st)
<1>1. R \in SUBSET UserPids
  BY RunnablePids
<1>2. counter' = IF Longest(R, c) # 0 THEN c ELSE Refill(R, c)
  BY DEF Schedule
<1>3. current' = Longest(R, counter')
  BY DEF Schedule
<1>4. \A p \in R : priority[p] >= 1
  OBVIOUS
<1> HIDE DEF R
<1> USE ProcAssumption DEF TypeOK, Pids, UserPids
<1>5. Refill(R, c) \in [Pids -> 0 .. MaxPriority]
  BY DEF Refill
<1>6. \A p \in Pids : Refill(R, c)[p] = IF p \in R THEN priority[p] ELSE c[p]
  BY DEF Refill
<1>7. 0 \in Pids /\ 0 \notin R
  BY <1>1
<1>8. counter' \in [Pids -> 0 .. MaxPriority]
  BY <1>2, <1>5
<1>9. \A p \in Pids : counter'[p] <= priority[p]
  <2>1. \A p \in Pids : counter'[p] \in {c[p], priority[p]}
    BY <1>2, <1>6
  <2>2. \A p \in Pids : c[p] <= priority[p] /\ priority[p] <= priority[p]
    BY SMTT(30)
  <2> QED BY <2>1, <2>2
<1>10. counter'[0] = c[0]
  BY <1>2, <1>6, <1>7
<1>11. /\ current' = 0 => \A p \in R : counter'[p] <= c[0]
       /\ current' # 0 => current' \in R /\ counter'[current'] > c[0]
  BY <1>1, <1>3, <1>8, <1>10, LongestReturns
<1>12. /\ \A p \in Pids : counter'[p] \in Nat /\ c[p] \in Nat
       /\ \A p \in R : p \in Pids
  <2>1. 0 .. MaxPriority \subseteq Nat
    OBVIOUS
  <2>2. \A p \in Pids : counter'[p] \in 0 .. MaxPriority /\ c[p] \in 0 .. MaxPriority
    BY <1>8
  <2>3. \A p \in R : p \in Pids
    BY <1>1
  <2> QED BY ONLY <2>1, <2>2, <2>3
<1>13. ASSUME current' = 0, c[0] = 0
       PROVE  R = {}
  <2>1. CASE Longest(R, c) # 0
    <3>1. counter' = c
      BY <1>2, <2>1
    <3> QED BY <1>3, <1>13, <2>1, <3>1
  <2>2. CASE Longest(R, c) = 0
    <3>1. \A p \in R : counter'[p] = priority[p]
      BY <1>1, <1>2, <1>6, <2>2
    <3>2. \A p \in R : counter'[p] <= 0 /\ counter'[p] >= 1
      BY <1>4, <1>11, <1>13, <3>1
    <3> QED BY ONLY <3>2, <1>12
  <2> QED BY <2>1, <2>2
<1>14. current' # 0 => counter'[current'] >= 1
  BY ONLY <1>7, <1>11, <1>12
<1> QED BY <1>8, <1>9, <1>10, <1>11, <1>13, <1>14 DEF R

(***************************************************************************)
(* The inductive invariant.                                                *)
(***************************************************************************)

\* The idle thread keeps slot 0 and never waits.
IdleThread == 0 \in avail_pid /\ state[0] = "RUNNING" /\ pc[0] \in {"boot", "spin"}

\* Nobody has more time left than its priority, and whoever can run has a
\* priority to be refilled with.
Slices ==
  /\ \A p \in Pids : counter[p] <= priority[p]
  /\ \A p \in UserPids : state[p] \in Schedulable => priority[p] >= 1

\* The processor belongs to a process that can run and has time left.
Owner ==
  current # 0 => /\ current \in avail_pid
                 /\ state[current] \in Schedulable
                 /\ counter[current] >= 1

\* Only a process inside waitpid is interruptible.
Sleepers == \A p \in UserPids : state[p] = "INTERRUPTIBLE" => pc[p] = "waitpid"

\* Nobody gives time to idle, and idle spins only at the end.
IdleLast == Disciplined => counter[0] = 0 /\ IdleOnlyAtTheEnd

KernelInv ==
  TypeOK /\ IdleThread /\ ScheduleCovers /\ Slices /\ Owner /\ Sleepers /\ IdleLast

\* schedule() establishes the parts of the invariant about time slices and
\* about the owner of the processor.
LEMMA ScheduleEstablishes ==
  ASSUME KernelInv,
         NEW c \in [Pids -> 0 .. MaxPriority],
         \A p \in Pids : c[p] <= priority[p],
         c[0] = counter[0],
         state' \in [Pids -> States \cup {"NULL"}],
         \A p \in UserPids : state'[p] \in Schedulable => state[p] \in Schedulable,
         Schedule(state', c),
         UNCHANGED <<avail_pid, max_avail_pid, priority>>
  PROVE  /\ counter' \in [Pids -> 0 .. MaxPriority]
         /\ current' \in Pids
         /\ Slices'
         /\ Owner'
         /\ IdleLast'
         /\ (Disciplined /\ current' = 0) => Runnable(state') = {}
<1> DEFINE R == Runnable(state')
<1> USE DEF KernelInv
<1>1. /\ R \subseteq UserPids
      /\ \A p \in R : p \in avail_pid /\ state'[p] \in Schedulable
  BY RunnablePids DEF Runnable
<1>2. \A p \in R : priority[p] >= 1
  BY <1>1 DEF Slices
<1>3. /\ counter' \in [Pids -> 0 .. MaxPriority]
      /\ \A p \in Pids : counter'[p] <= priority[p]
      /\ counter'[0] = c[0]
      /\ current' \in R \cup {0}
      /\ current' # 0 => counter'[current'] >= 1
      /\ (current' = 0 /\ c[0] = 0) => R = {}
  BY <1>2, ScheduleSteps
<1>4. current' \in Pids
  BY <1>1, <1>3, ProcAssumption DEF UserPids, Pids
<1>5. Slices'
  BY <1>3 DEF Slices
<1>6. Owner'
  BY <1>1, <1>3 DEF Owner
<1>7. IdleLast'
  <2>1. Runnable(state)' = R
    BY DEF Runnable
  <2> QED BY <1>3, <2>1 DEF IdleLast, IdleOnlyAtTheEnd
<1>8. (Disciplined /\ current' = 0) => R = {}
  BY <1>3 DEF IdleLast
<1> QED BY <1>3, <1>4, <1>5, <1>6, <1>7, <1>8

LEMMA InitKernel == Init => KernelInv
<1> SUFFICES ASSUME Init PROVE KernelInv
  OBVIOUS
<1> USE ProcAssumption DEF Init
<1>1. TypeOK
  <2>1. 0 \in Pids /\ 1 \in Pids /\ 0 \in 0 .. MaxPriority
    BY DEF Pids
  <2>2. PICK r \in Priorities : priority = [p \in Pids |-> IF p = 1 THEN r ELSE 0]
    OBVIOUS
  <2>3. r \in 0 .. MaxPriority
    BY DEF Priorities
  <2>4. priority \in [Pids -> 0 .. MaxPriority]
    BY <2>1, <2>2, <2>3
  <2>5. state \in [Pids -> States \cup {"NULL"}]
    BY DEF States, Schedulable
  <2> QED BY <2>1, <2>4, <2>5 DEF TypeOK
<1>2. IdleThread
  BY DEF IdleThread, Pids
<1>3. ScheduleCovers
  BY DEF ScheduleCovers, Pids, UserPids
<1>4. Slices
  BY DEF Slices, Pids, UserPids, Schedulable, Priorities
<1>5. Owner /\ Sleepers
  BY DEF Owner, Sleepers, UserPids
<1>6. IdleLast
  BY DEF IdleLast, IdleOnlyAtTheEnd, Pids
<1> QED BY <1>1, <1>2, <1>3, <1>4, <1>5, <1>6 DEF KernelInv

LEMMA StartKernelStep == KernelInv /\ StartKernel => KernelInv'
<1> SUFFICES ASSUME KernelInv, StartKernel PROVE KernelInv'
  OBVIOUS
<1> USE DEF KernelInv, StartKernel
<1>1. /\ counter' \in [Pids -> 0 .. MaxPriority]
      /\ current' \in Pids
      /\ Slices' /\ Owner' /\ IdleLast'
  BY ScheduleEstablishes DEF TypeOK, Slices
<1>2. TypeOK'
  BY <1>1 DEF TypeOK
<1>3. IdleThread' /\ ScheduleCovers'
  BY DEF IdleThread, ScheduleCovers, TypeOK
<1>4. Sleepers'
  BY DEF Sleepers, TypeOK, UserPids
<1> QED BY <1>1, <1>2, <1>3, <1>4

LEMMA TimerStep == KernelInv /\ Timer => KernelInv'
<1> SUFFICES ASSUME KernelInv, Timer PROVE KernelInv'
  OBVIOUS
<1> DEFINE c == [counter EXCEPT ![current] = IF @ = 0 THEN 0 ELSE @ - 1]
<1> USE DEF KernelInv
<1>1. /\ UNCHANGED <<avail_pid, max_avail_pid, state, priority, pc, target, kids, oops>>
      /\ current # 0 /\ current \in Pids
      /\ IF c[current] = 0 THEN Schedule(state, c) ELSE counter' = c /\ UNCHANGED current
  BY DEF Timer, InUser, TypeOK
<1>2. /\ c \in [Pids -> 0 .. MaxPriority]
      /\ \A p \in Pids : c[p] <= priority[p]
      /\ c[0] = counter[0]
  <2>1. \A p \in Pids :
          /\ counter[p] \in 0 .. MaxPriority
          /\ counter[p] <= priority[p]
          /\ priority[p] \in 0 .. MaxPriority
    BY DEF TypeOK, Slices
  <2>2. \A p \in Pids :
          c[p] = IF p = current
                 THEN IF counter[p] = 0 THEN 0 ELSE counter[p] - 1
                 ELSE counter[p]
    BY DEF TypeOK
  <2>3. \A p \in Pids : c[p] \in 0 .. MaxPriority /\ c[p] <= priority[p]
    BY <2>1, <2>2, ProcAssumption
  <2>4. 0 \in Pids
    BY ProcAssumption DEF Pids
  <2> QED BY <1>1, <2>2, <2>3, <2>4 DEF TypeOK
<1>3. /\ counter' \in [Pids -> 0 .. MaxPriority]
      /\ current' \in Pids
      /\ Slices' /\ Owner' /\ IdleLast'
  <2>1. CASE c[current] = 0
    <3> HIDE DEF c
    <3> QED BY <1>1, <1>2, <2>1, ScheduleEstablishes DEF TypeOK
  <2>2. CASE c[current] # 0
    <3>1. counter' = c /\ current' = current
      BY <1>1, <2>2
    <3>2. c[current] \in Nat
      BY <1>1, <1>2, ProcAssumption
    <3> HIDE DEF c
    <3>3. Slices'
      BY <1>1, <1>2, <3>1 DEF Slices
    <3>4. Owner'
      BY <1>1, <2>2, <3>1, <3>2 DEF Owner
    <3>5. IdleLast'
      BY <1>1, <1>2, <3>1 DEF IdleLast, IdleOnlyAtTheEnd
    <3> QED BY <1>1, <1>2, <3>1, <3>3, <3>4, <3>5
  <2> QED BY <2>1, <2>2
<1>4. TypeOK'
  BY <1>1, <1>3 DEF TypeOK
<1>5. IdleThread' /\ ScheduleCovers' /\ Sleepers'
  BY <1>1 DEF IdleThread, ScheduleCovers, Sleepers
<1> QED BY <1>3, <1>4, <1>5

\* What NewTask(p, r) leaves in the table.
LEMMA NewTaskStep ==
  ASSUME KernelInv, InUser,
         NEW p \in UserPids \ {current}, NEW r \in Priorities, NewTask(p, r),
         UNCHANGED <<current, target, oops>>,
         current \in avail_pid',
         avail_pid' \subseteq Pids, max_avail_pid' \in Pids
  PROVE  /\ TypeOK'
         /\ state'[0] = "RUNNING" /\ pc'[0] \in {"boot", "spin"}
         /\ state'[p] = "RUNNING"
         /\ \A q \in UserPids \ {p} : state'[q] = state[q]
         /\ Slices' /\ Owner' /\ Sleepers' /\ IdleLast'
<1> USE DEF KernelInv, NewTask
<1>1. /\ r \in 0 .. MaxPriority /\ r >= 1 /\ 0 \in 0 .. MaxPriority
      /\ 0 \in Pids /\ p \in Pids /\ p # 0
      /\ current \in UserPids
  BY ProcAssumption DEF Priorities, InUser, TypeOK, Pids, UserPids
<1>2. TypeOK'
  BY <1>1 DEF TypeOK, States, Schedulable, UserPids
<1>3. /\ state'[0] = "RUNNING" /\ pc'[0] \in {"boot", "spin"}
      /\ state'[p] = "RUNNING"
      /\ \A q \in UserPids \ {p} : state'[q] = state[q]
  BY <1>1 DEF TypeOK, IdleThread, UserPids
<1>4. Slices'
  <2>1. \A q \in Pids :
          /\ counter'[q] = IF q = p THEN 0 ELSE counter[q]
          /\ priority'[q] = IF q = p THEN r ELSE priority[q]
    BY DEF TypeOK
  <2>2. ASSUME NEW q \in Pids
        PROVE  counter'[q] <= priority'[q]
    <3>1. counter[q] <= priority[q]
      BY DEF Slices
    <3> QED BY <1>1, <2>1, <3>1
  <2>3. ASSUME NEW q \in UserPids, state'[q] \in Schedulable
        PROVE  priority'[q] >= 1
    BY <1>1, <1>3, <2>1, <2>3 DEF Slices, UserPids
  <2> QED BY <2>2, <2>3 DEF Slices
<1>5. Owner'
  <2>1. state'[current] = state[current] /\ counter'[current] = counter[current]
    BY <1>1 DEF TypeOK
  <2> QED BY <2>1 DEF Owner
<1>6. Sleepers'
  BY <1>1 DEF Sleepers, TypeOK, UserPids
<1>7. IdleLast'
  BY <1>1 DEF IdleLast, IdleOnlyAtTheEnd, InUser, TypeOK
<1> QED BY <1>2, <1>3, <1>4, <1>5, <1>6, <1>7

LEMMA CloneStep == KernelInv /\ Clone => KernelInv'
<1> SUFFICES ASSUME KernelInv, Clone PROVE KernelInv'
  OBVIOUS
<1> USE DEF KernelInv
<1> DEFINE p == Min(FreePids)
<1>1. /\ InUser /\ FreePids # {}
      /\ avail_pid' = avail_pid \cup {p}
      /\ max_avail_pid' = RaiseMax(p)
      /\ \E r \in Priorities : NewTask(p, r)
      /\ UNCHANGED <<current, target, oops>>
  BY DEF Clone
<1>2. /\ p \in Pids
      /\ p \notin avail_pid
      /\ \A q \in Pids : q < p => q \in avail_pid
  BY <1>1, LowestFree
<1> HIDE DEF p
<1>3. PICK r \in Priorities : NewTask(p, r)
  BY <1>1
<1>4. p \in UserPids \ {current}
  BY <1>1, <1>2 DEF IdleThread, Owner, InUser, UserPids
<1>5. /\ max_avail_pid \in Pids /\ max_avail_pid' \in Pids
      /\ max_avail_pid <= max_avail_pid' /\ p <= max_avail_pid'
      /\ max_avail_pid' = max_avail_pid \/ max_avail_pid' = p
  BY <1>1, <1>2, ProcAssumption DEF RaiseMax, TypeOK, Pids
<1>6. /\ TypeOK' /\ Slices' /\ Owner' /\ Sleepers' /\ IdleLast'
      /\ state'[0] = "RUNNING" /\ pc'[0] \in {"boot", "spin"}
      /\ state'[p] = "RUNNING"
      /\ \A q \in UserPids \ {p} : state'[q] = state[q]
  <2>1. current \in avail_pid' /\ avail_pid' \subseteq Pids
    BY <1>1, <1>2 DEF Owner, InUser, TypeOK
  <2> QED BY <1>1, <1>3, <1>4, <1>5, <2>1, NewTaskStep
<1>7. ScheduleCovers'
  <2>1. ASSUME NEW q \in UserPids, q \in avail_pid'
        PROVE  q <= max_avail_pid'
    <3>1. CASE q = p
      BY <1>5, <3>1
    <3>2. CASE q # p
      <4>1. q <= max_avail_pid
        BY <1>1, <2>1, <3>2 DEF ScheduleCovers
      <4> QED BY <1>5, <4>1, ProcAssumption DEF Pids, UserPids
    <3> QED BY <3>1, <3>2
  <2>2. ASSUME NEW q \in UserPids, q <= max_avail_pid'
        PROVE  state'[q] # "NULL"
    <3>1. CASE q = p
      BY <1>6, <3>1
    <3>2. CASE q # p /\ q <= max_avail_pid
      BY <1>6, <3>2 DEF ScheduleCovers
    <3>3. CASE q # p /\ ~(q <= max_avail_pid)
      <4>1. q \in Pids /\ q < p
        BY <1>2, <1>5, <2>2, <3>3, ProcAssumption DEF Pids, UserPids
      <4>2. q \in avail_pid
        BY <1>2, <4>1
      <4> QED BY <3>3, <4>2 DEF ScheduleCovers
    <3> QED BY <3>1, <3>2, <3>3
  <2> QED BY <2>1, <2>2 DEF ScheduleCovers
<1>8. IdleThread'
  BY <1>1, <1>6 DEF IdleThread
<1> QED BY <1>6, <1>7, <1>8

LEMMA CloneFullStep == KernelInv /\ CloneFull => KernelInv'
<1> SUFFICES ASSUME KernelInv, CloneFull PROVE KernelInv'
  OBVIOUS
<1> USE DEF KernelInv
<1>1. /\ InUser /\ FreePids = {}
      /\ UNCHANGED <<avail_pid, max_avail_pid, current, target>>
  BY DEF CloneFull
<1>2. CASE /\ \E p \in UserPids \ {current}, r \in Priorities : NewTask(p, r)
           /\ UNCHANGED oops
  <2>1. PICK p \in UserPids \ {current}, r \in Priorities : NewTask(p, r)
    BY <1>2
  <2>2. /\ TypeOK' /\ Slices' /\ Owner' /\ Sleepers' /\ IdleLast'
        /\ state'[0] = "RUNNING" /\ pc'[0] \in {"boot", "spin"}
        /\ state'[p] = "RUNNING"
        /\ \A q \in UserPids \ {p} : state'[q] = state[q]
    <3>1. current \in avail_pid' /\ avail_pid' \subseteq Pids /\ max_avail_pid' \in Pids
      BY <1>1 DEF Owner, InUser, TypeOK
    <3> QED BY <1>1, <1>2, <2>1, <3>1, NewTaskStep
  <2>3. ScheduleCovers' /\ IdleThread'
    BY <1>1, <2>2 DEF ScheduleCovers, IdleThread
  <2> QED BY <2>2, <2>3
<1>3. CASE /\ oops' = TRUE
           /\ UNCHANGED <<state, priority, counter, pc, kids>>
  BY <1>1, <1>3 DEF TypeOK, IdleThread, ScheduleCovers, Slices, Owner, Sleepers,
                    IdleLast, IdleOnlyAtTheEnd, Runnable
<1> QED BY <1>2, <1>3 DEF CloneFull

LEMMA ExitTaskStep == KernelInv /\ ExitTask => KernelInv'
<1> SUFFICES ASSUME KernelInv, ExitTask PROVE KernelInv'
  OBVIOUS
<1> USE DEF KernelInv
<1>1. /\ current # 0 /\ current \in Pids
      /\ state' = [state EXCEPT ![current] = "DEAD"]
      /\ Schedule(state', counter)
      /\ kids' = [kids EXCEPT ![current] = {}]
      /\ UNCHANGED <<avail_pid, max_avail_pid, priority, pc, target, oops>>
  BY DEF ExitTask, InUser, TypeOK
<1>2. /\ state' \in [Pids -> States \cup {"NULL"}]
      /\ kids' \in [Pids -> SUBSET UserPids]
      /\ \A p \in Pids : state'[p] = IF p = current THEN "DEAD" ELSE state[p]
      /\ UserPids \subseteq Pids /\ 0 \in Pids
  <2>1. 0 \in Pids
    BY ProcAssumption DEF Pids
  <2> QED BY <1>1, <2>1 DEF TypeOK, States, UserPids
<1>3. /\ counter' \in [Pids -> 0 .. MaxPriority]
      /\ current' \in Pids
      /\ Slices' /\ Owner' /\ IdleLast'
  <2>1. \A p \in UserPids : state'[p] \in Schedulable => state[p] \in Schedulable
    BY <1>2 DEF Schedulable
  <2>2. counter \in [Pids -> 0 .. MaxPriority] /\ \A p \in Pids : counter[p] <= priority[p]
    BY DEF TypeOK, Slices
  <2> QED BY <1>1, <1>2, <2>1, <2>2, ScheduleEstablishes
<1>4. TypeOK'
  BY <1>1, <1>2, <1>3 DEF TypeOK
<1>5. IdleThread' /\ ScheduleCovers' /\ Sleepers'
  BY <1>1, <1>2 DEF IdleThread, ScheduleCovers, Sleepers
<1> QED BY <1>3, <1>4, <1>5

LEMMA WaitPollStep == KernelInv /\ WaitPoll => KernelInv'
<1> SUFFICES ASSUME KernelInv, WaitPoll PROVE KernelInv'
  OBVIOUS
<1> USE DEF KernelInv
<1>1. /\ current # 0 /\ current \in Pids /\ pc[current] = "waitpid"
      /\ state' = [state EXCEPT ![current] = "INTERRUPTIBLE"]
      /\ Schedule(state', counter)
      /\ UNCHANGED <<avail_pid, max_avail_pid, priority, pc, target, kids, oops>>
  BY DEF WaitPoll, Polling, TypeOK, IdleThread
<1>2. /\ state' \in [Pids -> States \cup {"NULL"}]
      /\ \A p \in Pids : state'[p] = IF p = current THEN "INTERRUPTIBLE" ELSE state[p]
      /\ UserPids \subseteq Pids /\ 0 \in Pids
  <2>1. 0 \in Pids
    BY ProcAssumption DEF Pids
  <2> QED BY <1>1, <2>1 DEF TypeOK, States, Schedulable, UserPids
<1>3. /\ counter' \in [Pids -> 0 .. MaxPriority]
      /\ current' \in Pids
      /\ Slices' /\ Owner' /\ IdleLast'
  <2>1. \A p \in UserPids : state'[p] \in Schedulable => state[p] \in Schedulable
    BY <1>1, <1>2 DEF Owner
  <2>2. counter \in [Pids -> 0 .. MaxPriority] /\ \A p \in Pids : counter[p] <= priority[p]
    BY DEF TypeOK, Slices
  <2> QED BY <1>1, <1>2, <2>1, <2>2, ScheduleEstablishes
<1>4. TypeOK'
  BY <1>1, <1>2, <1>3 DEF TypeOK
<1>5. IdleThread' /\ ScheduleCovers' /\ Sleepers'
  BY <1>1, <1>2 DEF IdleThread, ScheduleCovers, Sleepers
<1> QED BY <1>3, <1>4, <1>5

LEMMA WaitEnterStep == KernelInv /\ WaitEnter => KernelInv'
<1> SUFFICES ASSUME KernelInv, WaitEnter PROVE KernelInv'
  OBVIOUS
<1> USE DEF KernelInv
<1>1. PICK p \in Pids :
        /\ MayWaitFor(p)
        /\ priority' = [priority EXCEPT ![p] = Boost]
        /\ counter' = [counter EXCEPT ![p] = Boost]
        /\ target' = [target EXCEPT ![current] = p]
  BY DEF WaitEnter
<1>2. /\ current # 0 /\ current \in UserPids
      /\ priority[current] < MaxPriority
      /\ pc' = [pc EXCEPT ![current] = "waitpid"]
      /\ UNCHANGED <<avail_pid, max_avail_pid, state, current, kids, oops>>
  BY DEF WaitEnter, InUser, TypeOK, UserPids
<1>3. Boost \in 0 .. MaxPriority /\ Boost >= 1
  <2>1. priority[current] \in 0 .. MaxPriority
    BY DEF TypeOK
  <2> QED BY <1>2, <2>1, ProcAssumption DEF Boost
<1>4. TypeOK'
  BY <1>1, <1>2, <1>3 DEF TypeOK
<1>5. IdleThread' /\ ScheduleCovers'
  BY <1>2, ProcAssumption DEF IdleThread, ScheduleCovers, TypeOK, Pids
<1>6. /\ \A q \in Pids : counter'[q] = IF q = p THEN Boost ELSE counter[q]
      /\ \A q \in Pids : priority'[q] = IF q = p THEN Boost ELSE priority[q]
      /\ UserPids \subseteq Pids
  BY <1>1 DEF TypeOK, UserPids
<1>7. Slices'
  <2>1. Boost \in Int
    BY <1>3
  <2>2. ASSUME NEW q \in Pids
        PROVE  counter'[q] <= priority'[q]
    BY <1>6, <2>1 DEF Slices
  <2>3. ASSUME NEW q \in UserPids, state'[q] \in Schedulable
        PROVE  priority'[q] >= 1
    BY <1>2, <1>3, <1>6, <2>3 DEF Slices
  <2> QED BY <2>2, <2>3 DEF Slices
<1>8. Owner'
  <2>1. current \in Pids
    BY DEF TypeOK
  <2> QED BY <1>2, <1>3, <1>6, <2>1 DEF Owner
<1>9. Sleepers'
  BY <1>2 DEF Sleepers, TypeOK, UserPids
<1>10. IdleLast'
  <2>1. Disciplined => p # 0
    BY <1>1 DEF MayWaitFor, TypeOK, UserPids
  <2>2. 0 \in Pids
    BY ProcAssumption DEF Pids
  <2> QED BY <1>2, <1>6, <2>1, <2>2 DEF IdleLast, IdleOnlyAtTheEnd
<1> QED BY <1>4, <1>5, <1>7, <1>8, <1>9, <1>10

LEMMA WaitReapStep == KernelInv /\ WaitReap => KernelInv'
<1> SUFFICES ASSUME KernelInv, WaitReap PROVE KernelInv'
  OBVIOUS
<1> USE DEF KernelInv
<1> DEFINE p == target[current]
<1>1. /\ pc[current] = "waitpid" /\ state[p] = "DEAD"
      /\ state' = [state EXCEPT ![p] = "DEAD", ![current] = "RUNNING"]
      /\ FreePid(p)
      /\ kids' = [kids EXCEPT ![current] = @ \ {p}]
      /\ pc' = [pc EXCEPT ![current] = "user"]
      /\ UNCHANGED <<priority, counter, current, target, oops>>
  BY DEF WaitReap, Polling, Exited
<1>2. p \in Pids /\ p # 0 /\ current \in Pids /\ current # 0
  BY <1>1 DEF TypeOK, IdleThread
<1>3. state[current] \in Schedulable /\ current \in avail_pid /\ p # current
  BY <1>1, <1>2 DEF Owner, Schedulable
<1> HIDE DEF p
<1>4. \A q \in Pids : state'[q] = IF q = current THEN "RUNNING" ELSE state[q]
  BY <1>1, <1>2 DEF TypeOK
<1>5. /\ avail_pid' \in {avail_pid, avail_pid \ {p}}
      /\ max_avail_pid' \in Pids
      /\ max_avail_pid' <= max_avail_pid
      /\ \A q \in avail_pid' : q <= max_avail_pid'
  <2>1. \A q \in avail_pid : q <= max_avail_pid
    BY DEF ScheduleCovers, TypeOK, Pids, UserPids
  <2>2. max_avail_pid \in Pids /\ max_avail_pid <= max_avail_pid
    BY ProcAssumption DEF TypeOK, Pids
  <2> QED BY <1>1, <1>2, <2>1, <2>2, FreedMaxCovers DEF FreePid
<1>6. TypeOK'
  BY <1>1, <1>2, <1>5 DEF TypeOK, States, Schedulable
<1>7. IdleThread'
  BY <1>1, <1>2, <1>4, <1>5, ProcAssumption DEF IdleThread, TypeOK, Pids
<1>8. ScheduleCovers'
  <2>1. ASSUME NEW q \in UserPids, q <= max_avail_pid'
        PROVE  state'[q] # "NULL"
    <3>1. q \in Pids /\ q <= max_avail_pid
      BY <1>5, <2>1, ProcAssumption DEF TypeOK, Pids, UserPids
    <3> QED BY <1>4, <3>1 DEF ScheduleCovers
  <2> QED BY <1>5, <2>1 DEF ScheduleCovers
<1>9. Slices'
  BY <1>1, <1>3, <1>4 DEF Slices, UserPids, Schedulable, Pids
<1>10. Owner'
  BY <1>1, <1>2, <1>3, <1>4, <1>5 DEF Owner, Schedulable
<1>11. Sleepers'
  BY <1>1, <1>2, <1>4 DEF Sleepers, TypeOK, UserPids
<1>12. IdleLast'
  BY <1>1, <1>2 DEF IdleLast, IdleOnlyAtTheEnd
<1> QED BY <1>6, <1>7, <1>8, <1>9, <1>10, <1>11, <1>12

LEMMA KernelStep == KernelInv /\ [Next]_vars => KernelInv'
<1> SUFFICES ASSUME KernelInv, [Next]_vars PROVE KernelInv'
  OBVIOUS
<1>1. CASE UNCHANGED vars
  BY <1>1 DEF KernelInv, TypeOK, IdleThread, ScheduleCovers, Slices, Owner, Sleepers,
              IdleLast, IdleOnlyAtTheEnd, Runnable, vars
<1>2. CASE IdleSpin
  BY <1>1, <1>2 DEF IdleSpin
<1>3. CASE WaitBadPid
  BY <1>3 DEF WaitBadPid, procVars, KernelInv, TypeOK, IdleThread, ScheduleCovers, Slices,
              Owner, Sleepers, IdleLast, IdleOnlyAtTheEnd, Runnable
<1> QED BY <1>1, <1>2, <1>3, StartKernelStep, TimerStep, CloneStep, CloneFullStep,
           ExitTaskStep, WaitEnterStep, WaitReapStep, WaitPollStep
        DEF Next, Kernel, UserCall

(***************************************************************************)
(* The theorems, for any programs unless stated otherwise.                 *)
(***************************************************************************)

\* The inductive invariant holds throughout.
THEOREM KernelInvariant == Spec => []KernelInv
<1>1. Init => KernelInv
  BY InitKernel
<1>2. KernelInv /\ [Next]_vars => KernelInv'
  BY KernelStep
<1> QED BY <1>1, <1>2, PTL DEF Spec

\* Every variable keeps its type: no pid outside of the table, no counter or
\* priority beyond the bound, whatever calls the programs make.
THEOREM TypeCorrect == Spec => []TypeOK
<1>1. KernelInv => TypeOK
  BY DEF KernelInv
<1> QED BY <1>1, KernelInvariant, PTL

\* schedule() reaches every used pid and dereferences no null task pointer.
THEOREM ScheduleIsSafe == Spec => []ScheduleCovers
<1>1. KernelInv => ScheduleCovers
  BY DEF KernelInv
<1> QED BY <1>1, KernelInvariant, PTL

\* User code runs only as a RUNNING process inside its time slice.
THEOREM SliceOfUser == Spec => []UserHasSlice
<1>1. KernelInv => UserHasSlice
  <2> SUFFICES ASSUME KernelInv, InUser PROVE UserHasSlice
    BY DEF UserHasSlice
  <2>1. current # 0 /\ current \in UserPids /\ current \in Pids /\ pc[current] = "user"
    BY DEF KernelInv, TypeOK, InUser, UserPids
  <2>2. state[current] = "RUNNING"
    BY <2>1 DEF KernelInv, Owner, Sleepers, Schedulable
  <2>3. counter[current] \in Int /\ priority[current] \in Int
    BY <2>1, ProcAssumption DEF KernelInv, TypeOK
  <2>4. counter[current] \in 1 .. priority[current]
    BY <2>1, <2>3, InUser DEF KernelInv, Owner, Slices, InUser
  <2> QED BY <2>2, <2>4 DEF UserHasSlice
<1> QED BY <1>1, KernelInvariant, PTL

\* Under disciplined programs idle gets the processor back only when no
\* process can run.
THEOREM IdleIsLast == ASSUME Disciplined PROVE Spec => []IdleOnlyAtTheEnd
<1>1. KernelInv => IdleOnlyAtTheEnd
  BY DEF KernelInv, IdleLast
<1> QED BY <1>1, KernelInvariant, PTL
-----------------------------------------------------------------------------
(***************************************************************************)
(* Pids are released by reaping the dead only.                             *)
(***************************************************************************)

LEMMA FreedStep == KernelInv /\ FreedIsDead /\ [Next]_vars => FreedIsDead'
<1> SUFFICES ASSUME KernelInv, FreedIsDead, [Next]_vars PROVE FreedIsDead'
  OBVIOUS
<1> USE DEF FreedIsDead, FreePids
<1>1. /\ current \in Pids
      /\ current # 0 => current \in avail_pid
      /\ target[current] \in Pids
      /\ state \in [Pids -> States \cup {"NULL"}]
  BY DEF KernelInv, TypeOK, Owner
<1>2. CASE UNCHANGED <<avail_pid, state>>
  BY <1>2
<1>3. CASE Clone
  <2>1. PICK r \in Priorities : NewTask(Min(FreePids), r)
    BY <1>3 DEF Clone
  <2>2. avail_pid' = avail_pid \cup {Min(FreePids)}
    BY <1>3 DEF Clone
  <2> QED BY <1>1, <2>1, <2>2 DEF NewTask
<1>4. CASE CloneFull
  BY <1>1, <1>4 DEF CloneFull
<1>5. CASE ExitTask
  BY <1>1, <1>5 DEF ExitTask
<1>6. CASE WaitPoll
  <2>1. current \in avail_pid
    BY <1>1, <1>6 DEF WaitPoll, Polling, KernelInv, IdleThread
  <2> QED BY <1>1, <1>6, <2>1 DEF WaitPoll
<1>7. CASE WaitReap
  <2>1. current # 0
    BY <1>7 DEF WaitReap, Polling, KernelInv, IdleThread
  <2>2. state[current] # "DEAD" /\ state[target[current]] = "DEAD"
    BY <1>7, <2>1 DEF WaitReap, Exited, KernelInv, Owner, Schedulable
  <2>3. \A q \in Pids : state'[q] = IF q = current THEN "RUNNING" ELSE state[q]
    BY <1>1, <1>7, <2>2 DEF WaitReap
  <2>4. avail_pid' = avail_pid \/ avail_pid' = avail_pid \ {target[current]}
    BY <1>7 DEF WaitReap, FreePid
  <2>5. \A q \in FreePids' : q \notin avail_pid \/ q = target[current]
    BY <2>4
  <2>6. current \in avail_pid'
    BY <1>1, <2>1, <2>2, <2>4
  <2> QED BY <2>2, <2>3, <2>5, <2>6
<1> QED BY <1>2, <1>3, <1>4, <1>5, <1>6, <1>7
        DEF Next, Kernel, UserCall, StartKernel, IdleSpin, Timer, WaitEnter, WaitBadPid,
            procVars, vars

\* A free pid has no record that could run, whatever the programs do.
THEOREM FreedAreDead == Spec => []FreedIsDead
<1>1. Init => FreedIsDead
  BY DEF Init, FreedIsDead, FreePids
<1>2. KernelInv /\ FreedIsDead /\ [Next]_vars => FreedIsDead'
  BY FreedStep
<1> QED BY <1>1, <1>2, KernelInvariant, PTL DEF Spec

(***************************************************************************)
(* Rounds of time slices.                                                  *)
(***************************************************************************)

\* A step that gives new ticks, as in RefillOnlyWhenDrained.
FairRefill ==
  \A p \in Pids : counter'[p] > counter[p] =>
    \/ /\ pc[current] = "user" /\ pc'[current] = "waitpid"
       /\ target'[current] = p
    \/ \A q \in Runnable(state') \ {current} : counter[q] = 0

\* schedule() refills only when every other runnable task is drained.
LEMMA ScheduleRefills ==
  ASSUME Disciplined, KernelInv,
         NEW c \in [Pids -> 0 .. MaxPriority],
         \A p \in Pids : c[p] <= counter[p],
         \A p \in Pids \ {current} : c[p] = counter[p],
         c[0] = 0,
         Schedule(state', c)
  PROVE  FairRefill
<1> DEFINE R == Runnable(state')
<1>1. R \in SUBSET UserPids
  BY RunnablePids DEF KernelInv
<1>2. counter' = IF Longest(R, c) # 0 THEN c ELSE Refill(R, c)
  BY DEF Schedule
<1>3. \A p \in Pids : c[p] \in Nat /\ counter[p] \in Nat
  BY ProcAssumption DEF KernelInv, TypeOK
<1> HIDE DEF R
<1>4. CASE Longest(R, c) # 0
  BY <1>2, <1>3, <1>4 DEF FairRefill
<1>5. CASE Longest(R, c) = 0
  <2>1. \A p \in R : c[p] <= 0
    BY <1>1, <1>5, LongestReturns
  <2>2. \A q \in R \ {current} : q \in Pids /\ counter[q] = 0
    BY <1>1, <1>3, <2>1 DEF UserPids
  <2> QED BY <2>2 DEF FairRefill, R
<1> QED BY <1>4, <1>5

LEMMA RefillStep ==
  ASSUME Disciplined, KernelInv, [Next]_vars
  PROVE  FairRefill \/ UNCHANGED vars
<1> USE DEF KernelInv
<1>0. /\ counter \in [Pids -> 0 .. MaxPriority]
      /\ \A p \in Pids : counter[p] \in Nat
      /\ counter[0] = 0 /\ 0 \in Pids /\ current \in Pids
  BY ProcAssumption DEF TypeOK, IdleLast, Pids
<1>1. CASE UNCHANGED counter
  BY <1>0, <1>1 DEF FairRefill
<1>2. CASE StartKernel
  <2>1. Schedule(state', counter)
    BY <1>2 DEF StartKernel
  <2> QED BY <1>0, <2>1, ScheduleRefills
<1>3. CASE ExitTask \/ WaitPoll
  <2>1. Schedule(state', counter)
    BY <1>3 DEF ExitTask, WaitPoll
  <2> QED BY <1>0, <2>1, ScheduleRefills
<1>4. CASE Timer
  <2> DEFINE c == [counter EXCEPT ![current] = IF @ = 0 THEN 0 ELSE @ - 1]
  <2>1. /\ IF c[current] = 0 THEN Schedule(state', c) ELSE counter' = c
        /\ current # 0
    BY <1>4 DEF Timer, InUser
  <2>2. \A p \in Pids :
          c[p] = IF p = current
                 THEN IF counter[p] = 0 THEN 0 ELSE counter[p] - 1
                 ELSE counter[p]
    BY <1>0
  <2>3. \A p \in Pids : c[p] \in 0 .. MaxPriority /\ c[p] <= counter[p]
    BY <1>0, <2>2, ProcAssumption
  <2>4. c \in [Pids -> 0 .. MaxPriority]
    BY <1>0, <2>3
  <2>5. \A p \in Pids \ {current} : c[p] = counter[p]
    BY <2>2
  <2>6. c[0] = 0
    BY <1>0, <2>1, <2>2
  <2> HIDE DEF c
  <2>7. CASE c[current] = 0
    BY <2>1, <2>3, <2>4, <2>5, <2>6, <2>7, ScheduleRefills
  <2>8. CASE c[current] # 0
    <3>1. counter' = c
      BY <2>1, <2>8
    <3>2. \A p \in Pids : ~(c[p] > counter[p])
      BY <1>0, <2>3
    <3> QED BY <3>1, <3>2 DEF FairRefill
  <2> QED BY <2>7, <2>8
<1>5. CASE Clone
  <2>1. PICK r \in Priorities : NewTask(Min(FreePids), r)
    BY <1>5 DEF Clone
  <2>2. counter' = [counter EXCEPT ![Min(FreePids)] = 0]
    BY <2>1 DEF NewTask
  <2>3. \A p \in Pids : ~(counter'[p] > counter[p])
    BY <1>0, <2>2
  <2> QED BY <2>3 DEF FairRefill
<1>6. CASE WaitEnter
  <2>1. PICK p \in Pids : /\ counter' = [counter EXCEPT ![p] = Boost]
                          /\ target' = [target EXCEPT ![current] = p]
    BY <1>6 DEF WaitEnter
  <2>2. /\ pc[current] = "user" /\ pc'[current] = "waitpid"
        /\ target'[current] = p
    BY <1>0, <1>6, <2>1 DEF WaitEnter, InUser, TypeOK
  <2>3. \A q \in Pids \ {p} : ~(counter'[q] > counter[q])
    BY <1>0, <2>1
  <2> QED BY <2>2, <2>3 DEF FairRefill
<1> QED BY <1>1, <1>2, <1>3, <1>4, <1>5, <1>6
        DEF Next, Kernel, UserCall, CloneFull, WaitBadPid, WaitReap, IdleSpin, procVars, vars

\* Under disciplined programs nobody but a process waited for gets new ticks
\* while another process that can run has some left.
THEOREM RefillsAreFair == ASSUME Disciplined PROVE Spec => RefillOnlyWhenDrained
<1>1. KernelInv /\ [Next]_vars => [FairRefill]_vars
  BY RefillStep
<1>2. RefillOnlyWhenDrained <=> [][FairRefill]_vars
  BY PTL DEF RefillOnlyWhenDrained, FairRefill
<1> QED BY <1>1, <1>2, KernelInvariant, PTL DEF Spec

(***************************************************************************)
(* Exact ids.                                                              *)
(***************************************************************************)

\* HandlesExact for the state of each variable it reads, so that a step is
\* one instance of the operator and its successor another.
Exact(av, st, k, where, tgt) ==
  \A p \in UserPids :
    /\ \A c \in k[p] : c \in av /\ st[c] # "NULL" /\ st[p] # "DEAD"
    /\ \A q \in UserPids \ {p} : k[p] \cap k[q] = {}
    /\ (st[p] \in Schedulable /\ where[p] = "waitpid") => tgt[p] \in k[p]

LEMMA HandlesStep ==
  ASSUME Disciplined, KernelInv, HandlesExact, [Next]_vars
  PROVE  HandlesExact'
<1>1. /\ current \in Pids
      /\ 0 \notin UserPids /\ UserPids \subseteq Pids
      /\ current # 0 => current \in UserPids /\ current \in avail_pid
      /\ current # 0 => state[current] \in Schedulable
      /\ "DEAD" \notin Schedulable /\ "NULL" \notin Schedulable
      /\ "RUNNING" \in Schedulable /\ "INTERRUPTIBLE" \in Schedulable
      /\ state \in [Pids -> States \cup {"NULL"}]
      /\ kids \in [Pids -> SUBSET UserPids]
      /\ pc \in [Pids -> {"boot", "spin", "user", "waitpid"}]
      /\ target \in [Pids -> Pids]
      /\ pc[0] # "waitpid"
  BY DEF KernelInv, TypeOK, Owner, IdleThread, UserPids, Schedulable
<1>2. Exact(avail_pid, state, kids, pc, target)
  BY DEF HandlesExact, Exact
<1>3. SUFFICES Exact(avail_pid', state', kids', pc', target')
  BY DEF HandlesExact, Exact
<1>4. CASE UNCHANGED <<avail_pid, state, kids, pc, target>>
  BY <1>2, <1>4
<1>5. CASE StartKernel
  <2>1. \A p \in UserPids : pc'[p] = pc[p]
    BY <1>1, <1>5 DEF StartKernel
  <2> QED BY <1>2, <1>5, <2>1 DEF StartKernel, Exact
<1>6. CASE Clone
  <2> DEFINE p == Min(FreePids)
  <2>1. PICK r \in Priorities : NewTask(p, r)
    BY <1>6 DEF Clone
  <2>2. p \in Pids /\ p \notin avail_pid
    BY <1>6, LowestFree DEF Clone, KernelInv
  <2>3. p \in UserPids /\ p # current /\ current \in UserPids
    BY <1>1, <1>6, <2>2 DEF Clone, InUser, KernelInv, IdleThread, UserPids
  <2>4. avail_pid' = avail_pid \cup {p} /\ target' = target
    BY <1>6 DEF Clone
  <2> HIDE DEF p
  <2>5. /\ \A q \in Pids : state'[q] = IF q = p THEN "RUNNING" ELSE state[q]
        /\ \A q \in Pids : pc'[q] = IF q = p THEN "user" ELSE pc[q]
        /\ \A q \in Pids : kids'[q] = IF q = p THEN {}
                                      ELSE IF q = current THEN kids[q] \cup {p} ELSE kids[q]
    BY <1>1, <2>1, <2>3 DEF NewTask
  <2>6. \A q \in UserPids : p \notin kids[q]
    BY <1>2, <2>2 DEF Exact
  <2>7. ASSUME NEW q \in UserPids
        PROVE  /\ \A c \in kids'[q] : c \in avail_pid' /\ state'[c] # "NULL" /\ state'[q] # "DEAD"
               /\ \A o \in UserPids \ {q} : kids'[q] \cap kids'[o] = {}
               /\ (state'[q] \in Schedulable /\ pc'[q] = "waitpid") => target'[q] \in kids'[q]
    <3>0. /\ q \in Pids /\ p \in Pids /\ current \in UserPids /\ p # current
          /\ \A o \in UserPids : o \in Pids /\ \A c \in kids[o] : c \in Pids
          /\ state[current] # "DEAD"
      BY <1>1, <2>3
    <3>1. ASSUME NEW c \in kids'[q]
          PROVE  c \in avail_pid' /\ state'[c] # "NULL" /\ state'[q] # "DEAD"
      <4>1. q # p /\ (c \in kids[q] \/ (q = current /\ c = p))
        BY <2>5, <3>0, <3>1
      <4>2. state'[q] = state[q]
        BY <2>5, <3>0, <4>1
      <4>3. CASE c \in kids[q]
        <5>1. c \in avail_pid /\ state[c] # "NULL" /\ state[q] # "DEAD" /\ c \in Pids
          BY <1>2, <2>7, <3>0, <4>3 DEF Exact
        <5> QED BY <2>2, <2>4, <2>5, <4>2, <5>1
      <4>4. CASE q = current /\ c = p
        BY <2>4, <2>5, <3>0, <4>2, <4>4
      <4> QED BY <4>1, <4>3, <4>4
    <3>2. ASSUME NEW o \in UserPids \ {q}
          PROVE  kids'[q] \cap kids'[o] = {}
      <4>1. kids[q] \cap kids[o] = {} /\ p \notin kids[q] /\ p \notin kids[o]
        BY <1>2, <2>6, <2>7, <3>2 DEF Exact
      <4>2. /\ kids'[q] \subseteq IF q = current THEN kids[q] \cup {p} ELSE kids[q]
            /\ kids'[o] \subseteq IF o = current THEN kids[o] \cup {p} ELSE kids[o]
        BY <2>5, <3>0, <3>2
      <4> QED BY <3>2, <4>1, <4>2
    <3>3. (state'[q] \in Schedulable /\ pc'[q] = "waitpid") => target'[q] \in kids'[q]
      <4>1. CASE q = p
        BY <2>5, <3>0, <4>1
      <4>2. CASE q # p
        <5>1. state'[q] = state[q] /\ pc'[q] = pc[q] /\ kids[q] \subseteq kids'[q]
          BY <2>5, <3>0, <4>2
        <5> QED BY <1>2, <2>4, <2>7, <5>1 DEF Exact
      <4> QED BY <4>1, <4>2
    <3> QED BY <3>1, <3>2, <3>3
  <2> QED BY <2>7 DEF Exact
<1>7. CASE ExitTask
  <2>1. current \in UserPids
    BY <1>1, <1>7 DEF ExitTask, InUser
  <2>2. /\ \A q \in Pids : state'[q] = IF q = current THEN "DEAD" ELSE state[q]
        /\ \A q \in Pids : kids'[q] = IF q = current THEN {} ELSE kids[q]
        /\ UNCHANGED <<avail_pid, pc, target>>
    BY <1>1, <1>7 DEF ExitTask
  <2> QED BY <1>1, <1>2, <2>1, <2>2 DEF Exact
<1>8. CASE WaitEnter
  <2>1. PICK p \in Pids : p \in kids[current] /\ target' = [target EXCEPT ![current] = p]
    BY <1>8 DEF WaitEnter, MayWaitFor
  <2>2. /\ \A q \in Pids : target'[q] = IF q = current THEN p ELSE target[q]
        /\ \A q \in Pids : q # current => pc'[q] = pc[q]
        /\ UNCHANGED <<avail_pid, state, kids>>
    BY <1>1, <1>8, <2>1 DEF WaitEnter
  <2> QED BY <1>1, <1>2, <2>1, <2>2 DEF Exact
<1>9. CASE WaitPoll
  <2>1. current \in UserPids
    BY <1>1, <1>9 DEF WaitPoll, Polling
  <2>2. /\ \A q \in Pids : state'[q] = IF q = current THEN "INTERRUPTIBLE" ELSE state[q]
        /\ UNCHANGED <<avail_pid, kids, pc, target>>
    BY <1>1, <1>9 DEF WaitPoll
  <2> QED BY <1>1, <1>2, <2>1, <2>2 DEF Exact
<1>10. CASE WaitReap
  <2> DEFINE p == target[current]
  <2>1. /\ current \in UserPids
        /\ pc[current] = "waitpid"
        /\ state[p] = "DEAD"
    BY <1>1, <1>10 DEF WaitReap, Polling, Exited
  <2>2. p \in kids[current] /\ p \in UserPids /\ p # current
    BY <1>1, <1>2, <2>1 DEF Exact
  <2>3. p \in avail_pid
    BY <1>2, <2>1, <2>2 DEF Exact
  <2>4. avail_pid' = avail_pid \ {p} /\ target' = target
    BY <1>10, <2>3 DEF WaitReap, FreePid
  <2>5. /\ \A q \in Pids : state'[q] = IF q = current THEN "RUNNING" ELSE state[q]
        /\ \A q \in Pids : kids'[q] = IF q = current THEN kids[q] \ {p} ELSE kids[q]
        /\ \A q \in Pids : pc'[q] = IF q = current THEN "user" ELSE pc[q]
    BY <1>1, <1>10, <2>1, <2>2 DEF WaitReap
  <2>6. \A q \in UserPids \ {current} : p \notin kids[q]
    BY <1>2, <2>1, <2>2 DEF Exact
  <2> HIDE DEF p
  <2>7. ASSUME NEW q \in UserPids
        PROVE  /\ \A c \in kids'[q] : c \in avail_pid' /\ state'[c] # "NULL" /\ state'[q] # "DEAD"
               /\ \A o \in UserPids \ {q} : kids'[q] \cap kids'[o] = {}
               /\ (state'[q] \in Schedulable /\ pc'[q] = "waitpid") => target'[q] \in kids'[q]
    <3>1. /\ q \in Pids /\ kids'[q] \subseteq kids[q] /\ p \notin kids'[q]
          /\ \A o \in UserPids : o \in Pids /\ kids'[o] \subseteq kids[o]
          /\ \A c \in kids[q] : c \in Pids
      BY <1>1, <2>1, <2>5, <2>6, <2>7
    <3>2. ASSUME NEW c \in kids'[q]
          PROVE  c \in avail_pid' /\ state'[c] # "NULL" /\ state'[q] # "DEAD"
      <4>1. c \in avail_pid /\ c # p /\ state[c] # "NULL" /\ state[q] # "DEAD" /\ c \in Pids
        BY <1>2, <2>7, <3>1, <3>2 DEF Exact
      <4> QED BY <2>4, <2>5, <3>1, <4>1
    <3>3. \A o \in UserPids \ {q} : kids'[q] \cap kids'[o] = {}
      BY <1>2, <2>7, <3>1 DEF Exact
    <3>4. (state'[q] \in Schedulable /\ pc'[q] = "waitpid") => target'[q] \in kids'[q]
      <4>1. CASE q = current
        BY <2>5, <3>1, <4>1
      <4>2. CASE q # current
        <5>1. state'[q] = state[q] /\ pc'[q] = pc[q] /\ kids'[q] = kids[q]
          BY <2>5, <3>1, <4>2
        <5> QED BY <1>2, <2>4, <2>7, <5>1 DEF Exact
      <4> QED BY <4>1, <4>2
    <3> QED BY <3>2, <3>3, <3>4
  <2> QED BY <2>7 DEF Exact
<1> QED BY <1>4, <1>5, <1>6, <1>7, <1>8, <1>9, <1>10
        DEF Next, Kernel, UserCall, CloneFull, WaitBadPid, IdleSpin, Timer, procVars, vars

\* An id that fork handed out names one process until it is waited for.
THEOREM IdsAreExact == ASSUME Disciplined PROVE Spec => []HandlesExact
<1>1. Init => HandlesExact
  BY DEF Init, HandlesExact, UserPids, Pids
<1>2. KernelInv /\ HandlesExact /\ [Next]_vars => HandlesExact'
  BY HandlesStep
<1> QED BY <1>1, <1>2, KernelInvariant, PTL DEF Spec

(***************************************************************************)
(* The kernel implements ProcLife.                                         *)
(***************************************************************************)

\* The refinement mapping, as functions of the variables it reads.
LifeIn(av, st) ==
  [p \in UserPids |->
     IF p \notin av THEN "free" ELSE IF st[p] = "DEAD" THEN "exited" ELSE "live"]
ChildrenIn(k) == [p \in UserPids |-> k[p]]

LEMMA Mapping ==
  /\ Life!Pids = Pids /\ Life!UserPids = UserPids
  /\ [p \in UserPids |-> LifeOf(p)] = LifeIn(avail_pid, state)
  /\ [p \in UserPids |-> LifeOf(p)]' = LifeIn(avail_pid', state')
  /\ [p \in UserPids |-> kids[p]] = ChildrenIn(kids)
  /\ [p \in UserPids |-> kids[p]]' = ChildrenIn(kids')
BY DEF Life!Pids, Life!UserPids, Pids, UserPids, LifeOf, LifeIn, ChildrenIn

\* The live processes are those that schedule() considers.
LEMMA LiveIsRunnable ==
  ASSUME NEW av \in SUBSET Pids, NEW mx \in Pids,
         NEW st \in [Pids -> States \cup {"NULL"}],
         \A p \in UserPids : (p \in av => p <= mx) /\ (p <= mx => st[p] # "NULL")
  PROVE  Life!Live(LifeIn(av, st)) = {p \in av : p \in 1 .. mx /\ st[p] \in Schedulable}
<1>1. \A p \in UserPids : p \in 1 .. mx <=> p <= mx
  BY ProcAssumption DEF UserPids, Pids
<1>2. \A p \in av : p \in 1 .. mx => p \in UserPids
  BY DEF UserPids
<1>3. \A p \in UserPids : p \in av =>
        (st[p] \in Schedulable <=> st[p] # "DEAD")
  BY DEF UserPids, States, Schedulable
<1>4. Life!UserPids = UserPids
  BY DEF Life!Pids, Life!UserPids, Pids, UserPids
<1>5. \A p \in UserPids : LifeIn(av, st)[p] = "live" <=> p \in av /\ st[p] # "DEAD"
  BY DEF LifeIn
<1> QED BY <1>1, <1>2, <1>3, <1>4, <1>5 DEF Life!Live

\* A call of schedule() gives the processor to a task that can run, and to
\* idle only when there is none.
LEMMA ScheduleDispatches ==
  ASSUME Disciplined, KernelInv, KernelInv',
         NEW c \in [Pids -> 0 .. MaxPriority], Schedule(state', c),
         UNCHANGED <<avail_pid, max_avail_pid, priority>>
  PROVE  /\ current' \in Runnable(state') \cup {0}
         /\ current' = 0 => Runnable(state') = {}
<1> DEFINE R == Runnable(state')
<1>1. /\ R \in SUBSET UserPids /\ UserPids \subseteq Pids
      /\ \A p \in R : state'[p] \in Schedulable
  BY RunnablePids DEF KernelInv, Runnable, UserPids
<1>2. /\ counter' \in [Pids -> 0 .. MaxPriority]
      /\ counter'[0] = 0
      /\ \A p \in R : priority[p] >= 1 /\ priority[p] \in Nat
  BY <1>1, ProcAssumption DEF KernelInv, TypeOK, IdleLast, Slices
<1>3. /\ counter' = IF Longest(R, c) # 0 THEN c ELSE Refill(R, c)
      /\ current' = Longest(R, counter')
  BY DEF Schedule
<1> HIDE DEF R
<1>4. current' \in R \cup {0}
  BY <1>1, <1>2, <1>3, LongestReturns
<1>5. ASSUME current' = 0 PROVE R = {}
  <2>1. \A p \in R : counter'[p] <= 0
    BY <1>1, <1>2, <1>3, <1>5, LongestReturns
  <2>2. counter' = Refill(R, c)
    BY <1>3, <1>5
  <2>3. \A p \in R : counter'[p] = priority[p]
    BY <1>1, <2>2 DEF Refill
  <2> QED BY <1>2, <2>1, <2>3
<1> QED BY <1>4, <1>5 DEF R

\* Every step of the kernel is a step of ProcLife or leaves it unchanged.
LEMMA RefinementStep ==
  ASSUME Disciplined, KernelInv, KernelInv', HandlesExact, [Next]_vars
  PROVE  [Life!Next]_(Life!vars)
<1> USE Mapping
<1>1. /\ current \in Pids /\ 0 \notin UserPids /\ UserPids \subseteq Pids
      /\ current # 0 => /\ current \in UserPids /\ current \in avail_pid
                        /\ state[current] \in Schedulable
      /\ "DEAD" \notin Schedulable /\ "RUNNING" \in Schedulable
      /\ state \in [Pids -> States \cup {"NULL"}]
      /\ kids \in [Pids -> SUBSET UserPids]
      /\ pc[0] # "waitpid"
  BY DEF KernelInv, TypeOK, Owner, IdleThread, UserPids, Schedulable
<1>2. ASSUME NEW c \in [Pids -> 0 .. MaxPriority], Schedule(state', c),
             UNCHANGED <<avail_pid, max_avail_pid, priority>>
      PROVE  Life!Dispatch(LifeIn(avail_pid', state'))
  <2>1. Life!Live(LifeIn(avail_pid', state')) = Runnable(state')
    <3>1. /\ avail_pid' \in SUBSET Pids /\ max_avail_pid' \in Pids
          /\ state' \in [Pids -> States \cup {"NULL"}]
          /\ \A p \in UserPids : /\ p \in avail_pid' => p <= max_avail_pid'
                                 /\ p <= max_avail_pid' => state'[p] # "NULL"
      BY DEF KernelInv, TypeOK, ScheduleCovers
    <3>2. Life!Live(LifeIn(avail_pid', state'))
            = {p \in avail_pid' : p \in 1 .. max_avail_pid' /\ state'[p] \in Schedulable}
      BY <3>1, LiveIsRunnable, ZenonT(30)
    <3> QED BY <1>2, <3>2 DEF Runnable
  <2>2. current' \in Runnable(state') \cup {0} /\ (current' = 0 => Runnable(state') = {})
    BY <1>2, ScheduleDispatches
  <2> QED BY <2>1, <2>2 DEF Life!Dispatch
<1>3. ASSUME NEW c \in [Pids -> 0 .. MaxPriority], Schedule(state', c),
             UNCHANGED <<avail_pid, max_avail_pid, priority, kids>>,
             LifeIn(avail_pid', state') = LifeIn(avail_pid, state)
      PROVE  Life!Switch
  BY <1>2, <1>3 DEF Life!Switch
<1>4. CASE UNCHANGED <<avail_pid, state, kids, current>>
  BY <1>4 DEF Life!vars
<1>5. CASE StartKernel
  <2>1. Life!Switch
    BY <1>3, <1>5 DEF StartKernel, KernelInv, TypeOK
  <2> QED BY <2>1 DEF Life!Next
<1>6. CASE Timer
  <2> DEFINE c == [counter EXCEPT ![current] = IF @ = 0 THEN 0 ELSE @ - 1]
  <2>1. c \in [Pids -> 0 .. MaxPriority]
    <3>1. /\ counter \in [Pids -> 0 .. MaxPriority] /\ MaxPriority \in Nat
          /\ current \in Pids
      BY ProcAssumption DEF KernelInv, TypeOK
    <3>2. \A x \in 0 .. MaxPriority : (IF x = 0 THEN 0 ELSE x - 1) \in 0 .. MaxPriority
      BY <3>1
    <3> QED BY ONLY <3>1, <3>2
  <2>2. CASE c[current] = 0
    <3>1. Schedule(state', c) /\ UNCHANGED <<avail_pid, max_avail_pid, state, priority, kids>>
      BY <1>6, <2>2 DEF Timer
    <3> HIDE DEF c
    <3>2. Life!Switch
      BY <1>3, <2>1, <3>1
    <3> QED BY <3>2 DEF Life!Next
  <2>3. CASE c[current] # 0
    BY <1>4, <1>6, <2>3 DEF Timer
  <2> QED BY <2>2, <2>3
<1>7. CASE WaitPoll
  <2>1. /\ current \in UserPids
        /\ \A q \in Pids : state'[q] = IF q = current THEN "INTERRUPTIBLE" ELSE state[q]
    BY <1>1, <1>7 DEF WaitPoll, Polling
  <2>2. LifeIn(avail_pid, state') = LifeIn(avail_pid, state)
    BY <1>1, <2>1 DEF LifeIn
  <2>3. Life!Switch
    BY <1>3, <1>7, <2>2 DEF WaitPoll, KernelInv, TypeOK
  <2> QED BY <2>3 DEF Life!Next
<1>8. CASE Clone
  <2> DEFINE p == Min(FreePids)
  <2>1. PICK r \in Priorities : NewTask(p, r)
    BY <1>8 DEF Clone
  <2>2. p \in Pids /\ p \notin avail_pid
    BY <1>8, LowestFree DEF Clone, KernelInv
  <2>3. p \in UserPids /\ p # current /\ current \in UserPids
    BY <1>1, <1>8, <2>2 DEF Clone, InUser, KernelInv, IdleThread, UserPids
  <2>4. avail_pid' = avail_pid \cup {p} /\ current' = current
    BY <1>8 DEF Clone
  <2>5. /\ state' = [state EXCEPT ![p] = "RUNNING"]
        /\ kids' = [kids EXCEPT ![p] = {}, ![current] = @ \cup {p}]
    BY <2>1 DEF NewTask
  <2> HIDE DEF p
  <2>6. LifeIn(avail_pid', state') = [LifeIn(avail_pid, state) EXCEPT ![p] = "live"]
    BY <1>1, <2>3, <2>4, <2>5 DEF LifeIn
  <2>7. ChildrenIn(kids') =
          [ChildrenIn(kids) EXCEPT ![p] = {}, ![current] = @ \cup {p}]
    BY <1>1, <2>3, <2>5 DEF ChildrenIn
  <2>8. LifeIn(avail_pid, state)[p] = "free"
    BY <2>2, <2>3 DEF LifeIn
  <2>9. p \in Life!UserPids
    BY <2>3
  <2>10. \E q \in Life!UserPids : Life!Fork(q)
    BY <1>1, <2>3, <2>4, <2>6, <2>7, <2>8, <2>9 DEF Life!Fork
  <2> QED BY <2>10 DEF Life!Next
<1>9. CASE ExitTask
  <2>1. /\ current \in UserPids
        /\ state' = [state EXCEPT ![current] = "DEAD"]
        /\ kids' = [kids EXCEPT ![current] = {}]
        /\ Schedule(state', counter)
        /\ UNCHANGED <<avail_pid, max_avail_pid, priority>>
    BY <1>1, <1>9 DEF ExitTask, InUser
  <2>2. LifeIn(avail_pid', state') = [LifeIn(avail_pid, state) EXCEPT ![current] = "exited"]
    BY <1>1, <2>1 DEF LifeIn
  <2>3. ChildrenIn(kids') = [ChildrenIn(kids) EXCEPT ![current] = {}]
    BY <1>1, <2>1 DEF ChildrenIn
  <2>4. Life!Dispatch(LifeIn(avail_pid', state'))
    BY <1>2, <2>1 DEF KernelInv, TypeOK
  <2>5. Life!Exit
    BY <1>1, <2>1, <2>2, <2>3, <2>4 DEF Life!Exit
  <2> QED BY <2>5 DEF Life!Next
<1>10. CASE WaitReap
  <2> DEFINE p == target[current]
  <2>1. current \in UserPids /\ pc[current] = "waitpid" /\ state[p] = "DEAD"
    BY <1>1, <1>10 DEF WaitReap, Polling, Exited
  <2>2. p \in kids[current] /\ p \in UserPids /\ p # current /\ p \in avail_pid
    BY <1>1, <2>1 DEF HandlesExact
  <2>3. /\ avail_pid' = avail_pid \ {p} /\ current' = current
        /\ state' = [state EXCEPT ![p] = "DEAD", ![current] = "RUNNING"]
        /\ kids' = [kids EXCEPT ![current] = @ \ {p}]
    BY <1>10, <2>2 DEF WaitReap, FreePid
  <2> HIDE DEF p
  <2>4. LifeIn(avail_pid', state') = [LifeIn(avail_pid, state) EXCEPT ![p] = "free"]
    <3>1. \A q \in Pids : state'[q] = IF q = current THEN "RUNNING" ELSE state[q]
      BY <1>1, <2>1, <2>2, <2>3
    <3>2. \A q \in UserPids :
            LifeIn(avail_pid', state')[q]
              = IF q = p THEN "free" ELSE LifeIn(avail_pid, state)[q]
      BY <1>1, <2>1, <2>2, <2>3, <3>1 DEF LifeIn
    <3> QED BY <3>2 DEF LifeIn
  <2>5. ChildrenIn(kids') = [ChildrenIn(kids) EXCEPT ![current] = @ \ {p}]
    BY <1>1, <2>1, <2>3 DEF ChildrenIn
  <2>6. LifeIn(avail_pid, state)[p] = "exited" /\ p \in ChildrenIn(kids)[current]
    BY <2>1, <2>2 DEF LifeIn, ChildrenIn
  <2>7. p \in Life!UserPids
    BY <2>2
  <2>8. \E q \in Life!UserPids : Life!Reap(q)
    BY <1>1, <2>1, <2>3, <2>4, <2>5, <2>6, <2>7 DEF Life!Reap
  <2> QED BY <2>8 DEF Life!Next
<1> QED BY <1>4, <1>5, <1>6, <1>7, <1>8, <1>9, <1>10
        DEF Next, Kernel, UserCall, CloneFull, WaitBadPid, WaitEnter, IdleSpin, procVars, vars

\* Under disciplined programs the kernel implements ProcLife, for every table
\* size and every range of priorities.
THEOREM KernelImplementsProcLife == ASSUME Disciplined PROVE Spec => ImplementsProcLife
<1>1. Init => Life!Init
  <2> SUFFICES ASSUME Init PROVE Life!Init
    OBVIOUS
  <2>1. LifeIn(avail_pid, state) = [p \in UserPids |-> IF p = 1 THEN "live" ELSE "free"]
    BY DEF Init, LifeIn, UserPids, Pids
  <2>2. ChildrenIn(kids) = [p \in UserPids |-> {}]
    BY DEF Init, ChildrenIn, UserPids
  <2> QED BY <2>1, <2>2, Mapping DEF Init, Life!Init
<1>2. KernelInv /\ KernelInv' /\ HandlesExact /\ [Next]_vars => [Life!Next]_(Life!vars)
  BY RefinementStep
<1> QED BY <1>1, <1>2, KernelInvariant, IdsAreExact, PTL DEF Spec, ImplementsProcLife, Life!Spec
=============================================================================
