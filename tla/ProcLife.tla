------------------------------ MODULE ProcLife ------------------------------
(***************************************************************************)
(* What process management promises to user programs, without counters,    *)
(* priorities or scheduling order: a process id is free, or names a live   *)
(* process, or names one that has exited and is held until it is waited    *)
(* for.  A fork takes a free id and hands it to the caller, only a process *)
(* that was handed an id may collect it, and the processor never idles     *)
(* while some process is live.                                             *)
(***************************************************************************)
EXTENDS Naturals

CONSTANT NR_TASKS      \* ids 0 .. NR_TASKS-1; id 0 is the idle thread

VARIABLES
  life,                \* life[p]: "free", "live" or "exited"
  children,            \* children[p]: the ids p was handed and has not collected
  running              \* the process that has the processor, 0 when idle

vars == <<life, children, running>>

Pids == 0 .. NR_TASKS - 1
UserPids == Pids \ {0}

TypeOK ==
  /\ life \in [UserPids -> {"free", "live", "exited"}]
  /\ children \in [UserPids -> SUBSET UserPids]
  /\ running \in Pids

Live(l) == {p \in UserPids : l[p] = "live"}

\* The processor goes to a live process, and idles only when there is none.
Dispatch(l) ==
  /\ running' \in Live(l) \cup {0}
  /\ running' = 0 => Live(l) = {}

Init ==
  /\ life = [p \in UserPids |-> IF p = 1 THEN "live" ELSE "free"]
  /\ children = [p \in UserPids |-> {}]
  /\ running = 0

\* The scheduler gives the processor to another process.
Switch ==
  /\ Dispatch(life)
  /\ UNCHANGED <<life, children>>

\* The running process creates q.
Fork(q) ==
  /\ running # 0
  /\ life[q] = "free"
  /\ life' = [life EXCEPT ![q] = "live"]
  /\ children' = [children EXCEPT ![q] = {}, ![running] = @ \cup {q}]
  /\ UNCHANGED running

\* The running process ends; nobody collects its children any more.
Exit ==
  /\ running # 0
  /\ life' = [life EXCEPT ![running] = "exited"]
  /\ children' = [children EXCEPT ![running] = {}]
  /\ Dispatch(life')

\* The running process collects its exited child q, whose id becomes free.
Reap(q) ==
  /\ running # 0
  /\ q \in children[running]
  /\ life[q] = "exited"
  /\ life' = [life EXCEPT ![q] = "free"]
  /\ children' = [children EXCEPT ![running] = @ \ {q}]
  /\ UNCHANGED running

Next ==
  \/ Switch
  \/ Exit
  \/ \E q \in UserPids : Fork(q) \/ Reap(q)

Spec == Init /\ [][Next]_vars
=============================================================================
