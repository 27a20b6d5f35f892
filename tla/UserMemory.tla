----------------------------- MODULE UserMemory -----------------------------
(***************************************************************************)
(* What the memory of a user program is to that program: a value for each  *)
(* page it can read, that nobody else changes.  A fork gives the child a   *)
(* copy, a page of the stack comes into being when it is first touched,    *)
(* and a program image is loaded with its initial contents.                *)
(***************************************************************************)
CONSTANTS
  Procs,         \* process ids
  Image,         \* the pages of the program image
  Stack,         \* the pages that come into being when they are touched
  Values,        \* what a page can hold
  Initial,       \* what a page of the image holds at first
  Unmapped       \* no value: the page cannot be read

VARIABLES
  mem,           \* mem[p][v]: what process p reads at page v
  down           \* out of memory: the machine has been reset

vars == <<mem, down>>

VPages == Image \cup Stack
Fresh == [v \in VPages |-> IF v \in Image THEN Initial ELSE Unmapped]
Nothing == [v \in VPages |-> Unmapped]
Live == {p \in Procs : mem[p] # Nothing}

Init ==
  /\ \E p \in Procs : mem = [q \in Procs |-> IF q = p THEN Fresh ELSE Nothing]
  /\ down = FALSE

Store(p, v, x) ==
  /\ mem[p][v] # Unmapped
  /\ mem' = [mem EXCEPT ![p][v] = x]

Touch(p, v, x) ==
  /\ v \in Stack /\ mem[p][v] = Unmapped
  /\ mem' = [mem EXCEPT ![p][v] = x]

Fork(p, c) ==
  /\ c \notin Live
  /\ mem' = [mem EXCEPT ![c] = mem[p]]

Exec(p) == mem' = [mem EXCEPT ![p] = Fresh]
Exit(p) == mem' = [mem EXCEPT ![p] = Nothing]

Reset ==
  /\ down' = TRUE
  /\ UNCHANGED mem

Next ==
  \/ /\ ~down
     /\ \E p \in Live :
          \/ \E v \in VPages, x \in Values : Store(p, v, x) \/ Touch(p, v, x)
          \/ \E c \in Procs : Fork(p, c)
          \/ Exec(p)
          \/ Exit(p)
     /\ UNCHANGED down
  \/ Reset

Spec == Init /\ [][Next]_vars
=============================================================================
