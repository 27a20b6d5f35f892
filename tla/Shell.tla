-------------------------------- MODULE Shell --------------------------------
(***************************************************************************)
(* The shell (main.c with USER_MAIN == SHELL): what parse_cmd makes of a   *)
(* line, system call by system call (syscalls.c), and what the kernel      *)
(* answers (trap.c, execve.c).  A program that cannot be loaded leaves a   *)
(* second shell behind; so there may be several, each a copy of the one    *)
(* that forked it.  A step out of a buffer or a table sets astray, and the *)
(* model stops.  Names of the specification begin with Shell: a theorem    *)
(* module takes it together with that of the line editor.                  *)
(***************************************************************************)
EXTENDS Integers, FiniteSets, FiniteSetsExt, Sequences

CONSTANTS
  Lines,        \* the lines that are typed, as parse_cmd takes them apart
  FileNames,    \* files on the disk
  Programs,     \* those that are ELF files
  NoFile,       \* an empty word
  MaxProcs,     \* processes of the machine
  MaxParams,    \* 32, the size of string_buf
  MaxFd,        \* MAX_FILE_NUMBER
  MaxNumber     \* the greatest number that atoi computes without overflow

ASSUME ShellAssumption ==
  /\ Programs \subseteq FileNames /\ NoFile \notin FileNames
  /\ MaxProcs \in Nat \ {0} /\ MaxParams \in Nat /\ MaxFd \in Nat /\ MaxFd > 3 /\ MaxNumber \in Nat

VARIABLES
  role,      \* role[p]: what process p is
  todo,      \* todo[p]: the system calls that its command has yet to make
  cmd,       \* cmd[p]: the command
  fd,        \* fd[p]: what fopen returned
  ind,       \* ind[p]: words taken from lines since the start
  child,     \* child[p]: what fork returned
  files,     \* the kernel's table of open files
  avail,     \* avail_file_desc
  written,   \* written[f]: where file f was written last
  astray

procs == <<role, todo, cmd, fd, ind, child>>
kernel == <<files, avail, written>>
shell_vars == <<procs, kernel, astray>>

Procs == 1 .. MaxProcs
Fds == 3 .. MaxFd - 1
Closed == [opened |-> FALSE, file |-> NoFile, perm |-> "none", cfo |-> 0]

ShellInit ==
  /\ role = [p \in Procs |-> IF p = 1 THEN "shell" ELSE "none"]
  /\ todo = [p \in Procs |-> << >>] /\ cmd = [p \in Procs |-> [verb |-> "none"]]
  /\ fd = [p \in Procs |-> -1] /\ ind = [p \in Procs |-> 0] /\ child = [p \in Procs |-> 0]
  /\ files = [i \in Fds |-> Closed] /\ avail = 3
  /\ written = [f \in FileNames |-> -1] /\ astray = FALSE

Reading(p) == role[p] = "shell" /\ todo[p] = << >>
Astray == astray' = TRUE /\ UNCHANGED <<procs, kernel>>
-----------------------------------------------------------------------------
(***************************************************************************)
(* parse_cmd.                                                              *)
(***************************************************************************)

\* Words that get_param copies; get_string copies quoted text elsewhere.
Content(c) == IF c.quote = "none" THEN 1 ELSE 0
Params(c) ==
  CASE c.verb = "echo" -> Content(c)
    [] c.verb = "cat" -> 1
    [] c.verb = "edit" -> 2 + (IF c.offset < 0 THEN 0 ELSE Content(c))
    [] c.verb = "run" -> IF c.file = NoFile THEN 0 ELSE 2
    [] OTHER -> 0

\* get_string looks for the closing quote past the end of the line.
Overruns(p, c) ==
  \/ ind[p] + Params(c) > MaxParams
  \/ c.verb = "echo" /\ c.quote = "open"
  \/ c.verb = "edit" /\ c.offset >= 0 /\ c.quote = "open"

\* (Fault for a mutant: edit does not close its file.)
Calls_NoClose(c) == IF c.verb = "edit" THEN <<"open", "lseek", "write">> ELSE << >>
\* Offsets that are no numbers are negative here.
Calls(c) ==
  CASE c.verb = "echo" -> <<"print", "print">>
    [] c.verb = "cat" -> <<"open", "lseek", "read", "close">>
    [] c.verb = "edit" /\ c.offset >= 0 -> <<"open", "lseek", "write", "close">>
    [] c.verb = "run" /\ c.file # NoFile -> <<"fork">>
    [] OTHER -> << >>

\* One turn of main's loop; exit leaves it for one that never ends.
ReadLine(p) ==
  /\ Reading(p)
  /\ \E c \in Lines :
       IF Overruns(p, c) THEN Astray
       ELSE /\ cmd' = [cmd EXCEPT ![p] = c]
            /\ todo' = [todo EXCEPT ![p] = Calls(c)]
            /\ ind' = [ind EXCEPT ![p] = @ + Params(c)]
            /\ role' = [role EXCEPT ![p] = IF c.verb = "exit" THEN "spin" ELSE @]
            /\ UNCHANGED <<fd, child, kernel, astray>>
-----------------------------------------------------------------------------
(***************************************************************************)
(* System calls on files.                                                  *)
(***************************************************************************)
Calling(p, call) == role[p] \in {"shell", "loader"} /\ todo[p] # << >> /\ Head(todo[p]) = call
Continue(p, rest) == todo' = [todo EXCEPT ![p] = rest]

\* cat gives up without a file, edit goes on with -1.
Failed(p) == IF cmd[p].verb = "cat" THEN << >> ELSE Tail(todo[p])
Perm(c) == IF c.verb = "cat" THEN "read" ELSE "write"

Open(p) ==
  /\ Calling(p, "open")
  /\ IF avail = MaxFd THEN Astray
     ELSE LET ok == cmd[p].file \in FileNames /\ ~files[avail].opened IN
          /\ fd' = [fd EXCEPT ![p] = IF ok THEN avail ELSE -1]
          /\ Continue(p, IF ok THEN Tail(todo[p]) ELSE Failed(p))
          /\ files' = IF ok THEN [files EXCEPT ![avail] = [opened |-> TRUE, file |-> cmd[p].file,
                                                           perm |-> Perm(cmd[p]), cfo |-> 0]]
                      ELSE files
          /\ avail' = IF ok THEN avail + 1 ELSE avail
          /\ UNCHANGED <<role, cmd, ind, child, written, astray>>

Usable(i) == i \in Fds /\ files[i].opened
\* What the kernel may get for the offset.  A longer number overflows in atoi,
\* which may have any result; -1 stands for the negative ones.
Passed(c) ==
  CASE c.verb # "edit" -> {0}
    [] c.verb = "edit" /\ c.offset <= MaxNumber -> {c.offset}
    [] OTHER -> -1 .. MaxNumber + 1

\* (Fault for a mutant: the offset stays where it is.)
Sought_Stays(i, to) == files
Sought(i, to) == [files EXCEPT ![i].cfo = to]

\* file_lseek refuses a negative offset, but off_t has no sign: fread and fwrite
\* never see that it failed, and go on at the position that there is.
Lseek(p) ==
  /\ Calling(p, "lseek")
  /\ \E to \in Passed(cmd[p]) : files' = IF Usable(fd[p]) /\ to >= 0 THEN Sought(fd[p], to) ELSE files
  /\ Continue(p, Tail(todo[p]))
  /\ UNCHANGED <<role, cmd, fd, ind, child, avail, written, astray>>

Allowed(p, perm) == Usable(fd[p]) /\ files[fd[p]].perm = perm

Read(p) ==
  /\ Calling(p, "read")
  /\ IF Allowed(p, "read") THEN \E k \in {0, 1} : files' = [files EXCEPT ![fd[p]].cfo = @ + k]
     ELSE UNCHANGED files
  /\ Continue(p, Tail(todo[p]))
  /\ UNCHANGED <<role, cmd, fd, ind, child, avail, written, astray>>

\* Nothing is written when there is no text, or behind the end of the file.
Write(p) ==
  /\ Calling(p, "write")
  /\ \/ /\ Allowed(p, "write")
        /\ written' = [written EXCEPT ![files[fd[p]].file] = files[fd[p]].cfo]
        /\ files' = [files EXCEPT ![fd[p]].cfo = @ + 1]
     \/ UNCHANGED <<files, written>>
  /\ Continue(p, Tail(todo[p]))
  /\ UNCHANGED <<role, cmd, fd, ind, child, avail, astray>>

Close(p) ==
  /\ Calling(p, "close")
  /\ files' = IF Usable(fd[p]) THEN [files EXCEPT ![fd[p]] = Closed] ELSE files
  /\ Continue(p, Tail(todo[p]))
  /\ UNCHANGED <<role, cmd, fd, ind, child, avail, written, astray>>

PrintText(p) ==
  /\ Calling(p, "print")
  /\ Continue(p, Tail(todo[p]))
  /\ UNCHANGED <<role, cmd, fd, ind, child, kernel, astray>>
-----------------------------------------------------------------------------
(***************************************************************************)
(* run: fork, execve in the child, waitpid in the parent.                  *)
(***************************************************************************)

\* (Fault for a mutant: the parent does not wait.)
AfterFork_NoWait == << >>
AfterFork == <<"wait">>

\* A full table leads the kernel out of its own.
Fork(p) ==
  /\ Calling(p, "fork")
  /\ LET unused == {q \in Procs : role[q] = "none"} IN
     IF unused = {} THEN Astray
     ELSE LET q == Min(unused) IN
          /\ role' = [role EXCEPT ![q] = "loader"]
          /\ todo' = [todo EXCEPT ![p] = AfterFork, ![q] = <<"execve">>]
          /\ child' = [child EXCEPT ![p] = q, ![q] = 0]
          /\ cmd' = [cmd EXCEPT ![q] = cmd[p]] /\ fd' = [fd EXCEPT ![q] = fd[p]]
          /\ ind' = [ind EXCEPT ![q] = ind[p]]
          /\ UNCHANGED <<kernel, astray>>

\* do_execve borrows the next descriptor.  When it fails parse_cmd returns in
\* the child, which reads the next line.
Execve(p) ==
  /\ Calling(p, "execve")
  /\ IF avail = MaxFd THEN Astray
     ELSE /\ role' = [role EXCEPT ![p] = IF cmd[p].file \in Programs THEN "program" ELSE "shell"]
          /\ Continue(p, << >>)
          /\ UNCHANGED <<cmd, fd, ind, child, kernel, astray>>

\* The program that was loaded calls exit.
Exit(p) ==
  /\ role[p] = "program"
  /\ role' = [role EXCEPT ![p] = "exited"]
  /\ UNCHANGED <<todo, cmd, fd, ind, child, kernel, astray>>

\* (Fault for a mutant: waitpid looks for a state that exit does not set.)
Ended_Zombie(p) == role[child[p]] = "zombie"
Ended(p) == role[child[p]] = "exited"

Wait(p) ==
  /\ Calling(p, "wait") /\ Ended(p)
  /\ role' = [role EXCEPT ![child[p]] = "none"]
  /\ Continue(p, << >>)
  /\ UNCHANGED <<cmd, fd, ind, child, kernel, astray>>

SystemCall(p) ==
  Open(p) \/ Lseek(p) \/ Read(p) \/ Write(p) \/ Close(p) \/ PrintText(p) \/ Fork(p) \/ Execve(p) \/ Wait(p)

ShellNext == ~astray /\ \E p \in Procs : ReadLine(p) \/ SystemCall(p) \/ Exit(p)

\* The kernel lets every process go on; nobody has to type, and no program to end.
ShellSpec ==
  /\ ShellInit /\ [][ShellNext]_shell_vars
  /\ \A p \in Procs : WF_shell_vars(~astray /\ SystemCall(p))
-----------------------------------------------------------------------------
(***************************************************************************)
(* Properties.                                                             *)
(***************************************************************************)
Waiting(p) == Calling(p, "wait") /\ role[child[p]] # "exited"
Active(p) == role[p] \in {"shell", "loader", "program"} /\ ~Waiting(p)

\* The console belongs to one process at a time, the program that runs or one
\* shell, also when loading failed and a second shell goes on.
OneActive == Cardinality({p \in Procs : Active(p)}) <= 1

\* At the prompt every file that a command opened is closed again, whatever
\* step of the command failed.
ClosedAtPrompt == (\E p \in Procs : Reading(p)) => \A i \in Fds : ~files[i].opened

\* A file changes only by an edit of that file, and at the offset that was typed
\* if it is a number that atoi can compute: position and write are two calls on a
\* table that all processes share, and the second is made if the first one fails.
EditsInPlace ==
  [][\A f \in FileNames : written'[f] # written[f] =>
       \E p \in Procs :
         /\ cmd[p].verb = "edit" /\ cmd[p].file = f
         /\ cmd[p].offset <= MaxNumber => written'[f] = cmd[p].offset]_shell_vars

\* "Edit file at offset with content" (main.c:371), whatever the offset.  Not so:
\* one beyond INT_MAX may become a negative number, and the text comes to where
\* the file was opened, its beginning (MCShellOffset.cfg).
EditsWhereTyped ==
  [][\A f \in FileNames : written'[f] # written[f] =>
       \E p \in Procs : cmd[p].verb = "edit" /\ cmd[p].file = f /\ written'[f] = cmd[p].offset]_shell_vars

\* Every command comes to its end: the prompt returns, or a program has the
\* machine; and when that program ends, the prompt returns.
PromptReturns ==
  \A p \in Procs :
    (todo[p] # << >> /\ ~Waiting(p)) ~> (todo[p] = << >> \/ Waiting(p) \/ astray)
=============================================================================
