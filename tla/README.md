# Formal model of ComputerSystemIII

TLA+ modules, TLC runs and TLAPS proofs for the extended kernel
`kernel_XPart` and its user programs, and for the base kernel `kernel`.  Every
definition is written from the source; `PROJECT.json` ("map") names the lines it
stands for.

## 1. The system

The repository holds a RISC-V processor (`submit/`, SystemVerilog), a base
kernel (`kernel/`) and the extended kernel (`kernel_XPart/`): virtual memory
with copy-on-write fork, processes and a scheduler, an ELF loader, system calls,
a virtual file system on FAT32 over virtio-blk, and a user shell.

| Part | State | Operations | Interacts with | What is hard |
| --- | --- | --- | --- | --- |
| Processes, scheduler (`proc.c`, `fork.c`, `trap.c`, `main.c`) | `task[]`, `avail_pid[]`, `max_avail_pid`, per task `state`, `priority`, `counter`, `pc` of a suspended handler; `current` | `task_init`, `schedule`, `switch_to`, `do_timer`, `get_next_avail_pid`, `free_pid`, `clone`, `exit`, `waitpid` | timer interrupts and ecalls enter it; fork calls memory management | processes interleave at every trap and at every turn of the loop in `waitpid`; pids are recycled out of order; idle never schedules again |
| Physical pages (`mm.c`) | bitmap tree, `ref_cnt[]` | `alloc_pages`, `free_pages`, `ref_page`, `deref_page`, `buddy_init` | every other part allocates | tree consistency, blocks of several pages with one counter, exhaustion |
| Address spaces (`vm.c`, `trap.c`, `fork.c`, `proc.c`, `execve.c`) | page tables, VMAs, frames and their counters | `do_page_fault`, `create_mapping`, `do_fork`, `do_mmap`, `load_elf`, `do_execve` | pages, processes | copy-on-write between several processes in any order, frames freed under a mapping |
| Trap entry (`entry.S`, `head.S`, `clock.c`) | trap frame, `sscratch`, `sstatus` | `_traps`, `__switch_to`, `__dummy`, `ret_from_fork` | hardware and processes | which stack and which process a trap returns to |
| Files (`fs.c`, `trap.c`) | one global `fd_array`, `avail_file_desc`, `cfo`, `dup_cxt` | `open`, `close`, `lseek`, `read`, `write`, `dup3` | FAT32, processes share the table | descriptors never reused, stale entries of dead processes |
| FAT32 (`fat32.c`, `mbr.c`) | volume geometry, FAT and directory sectors, a copy of the FAT | `fat32_open_file`, `read`, `write`, `fat32_create_file` | block device | several sectors per write, an interruption between them, stale sizes in open files |
| virtio-blk (`virtio.c`) | descriptor ring, avail and used indices | `virtio_blk_read_sector`, `virtio_blk_write_sector`, `cmd` | device | order of ring updates, polling without a limit |
| User heap (`malloc.c`) | the headers of blocks | `malloc`, `free` | the editor's history, programs | runs of several blocks of which one header is marked |
| Line editor (`readline.c`) | `line_buf`, terminal, `cmd_history` (`lines[]`, `count`, `current`) | one branch for each key, `auto_complete`, `readline` | console, heap, shell | line, screen and history change apart from each other; the limits of each |
| Shell (`main.c`, `syscalls.c`) | `string_buf`, words, a child | `parse_cmd` for each command, loading | every system call | a step of a command that fails; a second shell after a failed load |
| Console (`readk.c`, `sbi.c`, `printk.c`, `printf.c`) | the line that is being read | `getchark`, `readk`, writers of formatted output | descriptors, editor | keys that arrive at any time, ends of buffers |
| Formatted output (`vfprintf.c`, the same file four times) | argument lists by order and by position | `printf_core` in two passes, `pop_arg`, `pad` | console, buffers of callers | two passes must agree; widths of integers, limits of buffers |
| Base kernel (`kernel/`) | `satp`, both page tables, `kfreelist`, `task[]` | boot in `head.S`, `setup_vm`, `setup_vm_final`, `schedule`, `do_timer`, `dummy_task` | hardware | the ground moves under the running code twice; threads share data with the timer |
| Processor (`submit/`) | pipeline registers, CSRs, MMU and memory state machines | fetch, decode, execute, memory, write-back; page walk; AXI transfers; trap and return | each other | handshakes of several state machines, flush against stall against walk |

The remaining libraries (64-bit division, `rand`, `elf.h`, headers of C), the
exercises on convolution, build files and slides carry no logic of the system's own.

### What makes each part correct

* Processes: the scheduler reaches every live process and only live ones; a time
  slice is respected; refills come in rounds so that priority does not starve
  anybody; a pid names one process until its parent collects it; the processor
  idles only when nothing can run.
* Pages: two allocations never overlap, the tree describes exactly the free
  pages, a page is released when and only when its last reference goes.
* Address spaces: each process sees a memory of its own; a mapped frame is never
  free; a page table never holds entries nobody wrote.
* Files and FAT32: a read returns what was last written; two files share no
  cluster; a write that a reset interrupts leaves old or new bytes and a size
  that its chain of clusters covers.
* Descriptors: a path finds the file it names and no other; a call reaches what
  its descriptor was opened for, or is refused.
* virtio: each command reaches the device once, and its buffer is not reused
  before the device is done; the volume mounted is the one in the partition table.
* Line editor and heap: the terminal shows the line that is handed over; a text is
  recalled as it was typed; no two owners share a block and no block is lost.
* Shell: one process has the console, every file a command opens is closed, an edit
  goes to the file and the offset that were typed, and the prompt comes back.
* Formatted output: the text and the count of the C standard, and never a byte
  outside of the caller's buffer.
* Base kernel: the running code stays mapped while tables change, the final table
  gives no more rights than stated, no page serves two purposes, every thread
  keeps its turns.
* Processor: each instruction commits once and in order, a translation is never
  used for another address, a memory transaction is neither lost nor doubled.

## 2. Modules

| Module | What it is | Code |
| --- | --- | --- |
| `Proc` | process table, scheduler, timer, `clone`, `exit`, `waitpid` | `proc.c`, `fork.c`, `trap.c`, `main.c` |
| `ProcLife` | abstract: what a program is promised about processes and ids | implemented by `Proc` |
| `PageRuns` | operators on runs of pages, shared by the three below | `mm.c` |
| `PageAlloc` | abstract: lowest-fit allocator with references | implemented by `Buddy`; `mm.h` |
| `Buddy` | the tree of `buddy_alloc`, `buddy_free` with `ref_page`, `deref_page` | `mm.c` |
| `AddressSpace` | page tables, copy-on-write, demand paging, fork, exec, exit over runs of frames | `vm.c`, `trap.c`, `fork.c`, `proc.c`, `execve.c` |
| `UserMemory` | abstract: private memory per process | implemented by `AddressSpace` |
| `Files` | descriptors, FAT32 chains and directory, sector by sector with resets | `fs.c`, `fat32.c`, `trap.c`, `virtio.c` |
| `FileStore` | abstract: files as sequences of bytes, an interrupted write | implemented by `Files` |
| `Descriptors` | which file or console a descriptor reaches, `dup3`, names and directory search, typed characters | `fs.c`, `trap.c`, `fat32.c`, `readk.c` |
| `Virtio` | the driver, its ring, the device, the boot sequence up to the mounted volume | `virtio.c`, `mbr.c`, `fat32.c`, `fs.c` |
| `Disk` | abstract: one request at a time, performed once | implemented by `Virtio` |
| `Heap` | operators: `malloc` and `free` on the headers of blocks | `malloc.c` |
| `LineEditor` | `readline` key by key, completion, history on the heap | `readline.c`, `string.c` |
| `Editor` | abstract: a line with a history | implemented by `LineEditor` |
| `Shell` | `parse_cmd` system call by system call, several shells | `main.c`, `syscalls.c`, `trap.c`, `execve.c` |
| `Printf` | the two passes of `printf_core`, and where text goes | `vfprintf.c`, `vsnprintf.c`, `printk.c`, `printf.c` |
| `PrintfPromise` | what the C standard promises, from format and arguments alone | compared with `Printf` |
| `Base` | boot, page tables, free list, threads and timer of the base kernel | `kernel/arch/riscv`, `kernel/lib` |
| `MC...` | values for the constants of the module whose name follows | |
| `...Proofs` | theorems about the module whose name precedes; `ProcProofs` also about `ProcLife`, `AddressSpaceProofs` about `PageAlloc` | |
| `UserProgramProofs` | theorems about `LineEditor` and `Shell` | |
| `ConsoleProofs` | theorems about `Descriptors` and `Printf` | |

`Files` and `Virtio` meet in `Disk`: what `Files` assumes of a sector that is written
(`WriteSector` happens once or, after a reset, not at all) is what `Virtio` is shown to
implement.  `Descriptors` decides which file a call reaches, `Files` what the call
does to it.  `LineEditor` uses the operators of `Heap`; the lines it delivers are the
`Lines` of `Shell`.

Four design decisions run through all of them.

*A trap is an action.* `sstatus.SIE` is clear in the kernel (`head.S:39-41`,
and hardware clears it on a trap), and there is one hart: nothing preempts a
handler.  The only place where a handler lets another one run is `schedule()`,
which `waitpid` calls in a loop.  So `Proc` has an action for entering
`waitpid` and one for each turn of its loop, and every other call is one action.

*What the machine does by itself is nondeterministic*: which process traps, with
what arguments, when the timer fires, when the machine is reset.

*Undefined behaviour stops the model, or has every outcome.*  `oops` (in `Proc`,
`Files`, `LineEditor`), `astray` (in `Shell`) and `wild` (in `AddressSpace`) record that
the code left the array or used memory that nobody wrote, the pass "undefined" of
`Printf` that a width was negated that has no negative; where the outcome is limited,
as the missing return value of `get_next_avail_pid`, an uninitialised `nl_arg`, or an
offset that overflows in `atoi`, the model takes any of them.

*`_Suffixed` operators before a definition are faults*: a plausible bug in that
definition, used by nothing.  `PROJECT.json` ("mutants") names the property that
each of them breaks.

### Proc

`avail_pid`, `max_avail_pid`, `state`, `priority`, `counter` are the arrays of
`proc.c` and the fields of `task_struct`; `current` is the task pointer.  `pc[p]`
stands for the saved return address of a suspended task: in user code, in the
loop of `waitpid`, or, for idle, before or inside `while (1)`.  `target[p]` is the
local variable of that loop.  `kids` are the ids a program was handed; no kernel
variable holds them, and that is why the kernel can confuse them.  `Schedule` is
`schedule()` together with `switch_to`; `Timer` is `do_timer`.

Two kinds of programs are distinguished by `Disciplined`: those that fork only
while a pid is free and wait only for their own children, and any others.  The
second kind leads the kernel into `oops`; what holds until then is checked and
proved too.

### PageRuns, PageAlloc, Buddy

`bitmap` is the array of the tree, whose node `i` has the children `2i+1` and
`2i+2`; `ref_cnt` is that of `mm.c`.  The sizes of runs are not stored: `Holder`
finds a run by climbing as `buddy_free` does.  `PageAlloc` has the sizes as a
variable and no tree.  `Buddy` implements it with `size[p]` the size of the
holder of `p`.  `fixsize` works on numbers as sets of bits (`Bits`, `OrShifted`,
`WithBits`): what or-ing a number with its shifts does can be reasoned about there,
and the prover knows nothing of shifts.

### AddressSpace

One level of entries `pte[p][v]` stands for the three levels of Sv39: the tables
are counted as the frames they take from the allocator.  A process has an image,
mapped at once by `load_elf` from one run, and a stack, mapped on faults.  The heap is
left out: its pages are faulted in like those of the stack, except that they take no
tables, since `USER_HEAP` (0x100000) lies under those of the image.  An
entry has the bits V, W and the software bit S of `fork.c`.  The number of frames
taken by every operation (page directory, `mm_struct`, VMAs, tables, the file
buffer of `execve`) is that of the code, because releases and exhaustion depend
on it.

### Files

`data`, `fatDisk` and `dir` are on disk, `fat` (`fat32_table`), `fds`
(`files.fd_array`) and `avail` (`avail_file_desc`) in memory.  A call changes
memory at once and lists in `todo` the sectors that it is about to write, in the
order of the code; `WriteSector` writes one, `Reset` may come between any two.
`call` is the write that is running and `reply` what a read has just returned.
`fat32_create_file` is called by the kernel itself (`fs.c:63`), at boot, to
install a program; the model allows it at any time.  The root directory is kept
apart from the clusters of files and fits one sector.

### Descriptors

`fds` is `files.fd_array` with, for each entry, whether a console or a file is
behind it and with what rights; `avail` and `dups` are `avail_file_desc` and the
entries of `dup_cxt`.  `granted` is a history of what each `open` promised and
`close` took back; no kernel variable holds it, and `CallsReachTheOpened` compares it
with what the code's lookup finds, for every descriptor in every state.  `ReadReaches`,
`WriteReaches` and `LseekReaches` are the lookups of the three calls: only `lseek` asks
`dup_cxt`.  `CallsReachTheOpened` follows the entries of `dup_cxt` on both sides: it does
not ask whether an entry should be there.  `Dup3` includes the `open` that it falls through into, with the pid as
path: `Code` is what stands at such a small address.  A path is the bytes of memory
from its address on, since `to_fat32_name_format` and the comparison look at a fixed
number of them; `Plain` are the paths that come out of this as they are meant.  `typed`, `taken` and `reading` are the keys, those the kernel has
polled, and the read that is running: `Turn` is one turn of the loop in `readk`.

### Virtio and Disk

The driver writes, in this order and each as one action, the request with its
descriptors (`Fill`), the slot of the ring (`OfferSlot`), the index (`OfferIndex`) and the
notification register (`Notify`), and then polls `used->idx` (`Return`).  The device
may look between any two: after a notification it goes on as long as it finds
chains.  `UserRead`, `UserWrite` and `TableWrite` are the calls of the file system;
`allocate_fat32_cluster` changes `fat32_table` in memory just before it writes it.
`LayoutsAssumption` is what is assumed of the disks: partitions, boot sectors and
tables do not lie among the sectors of files, and no file holds a boot sector.  `Seek`, `DriverInit`, `FeatureInit`, `QueueInit` and `BootCall` are the boot
sequence of `file_init`, down to `mbr_init` and `fat32_init`, whose reads are calls
like any others.  `Reset` switches the machine off and on: memory is cleared, as
`head.S` and the loader find it.  A disk without a device in any slot leads to the
phase "lost", where the driver goes on with a null pointer and the model stops.  Not
modelled: feature bits that the driver never uses (`EVENT_IDX`), and stores that
overtake each other, since the core executes in order.

### Heap, LineEditor, Editor

`blk[i]` is the header in front of block `i`; `Raw` memory has no magic number until
the first `malloc` formats it.  Each key is one action and contains the output to the
terminal, `screen`, which the code writes apart from `line_buf`.  `text` holds the
strings in the blocks, `lines`, `count` and `current` are those of the code.  `own` is
memory that the program itself takes and gives back between lines.  `Enter` is the
end of `readline` with what `main` does before it calls again.

### Shell

`cmd[p]` is the line that process `p` took apart, `todo[p]` the system calls that
remain of it, in the order of `parse_cmd`, and `files` the kernel's table, which all
processes share.  `role` tells a shell from a child before and after `execve`.  A failed
`execve` returns into `parse_cmd` in the child: it becomes a second shell, while the
first one waits.  `fread` and `fwrite` are their two system calls; the second is made
whatever the first returned, because `off_t` is unsigned (`unistd.h:17`) and `pos < 0`
never holds (`syscalls.c:113`, `125`).  `Passed` is what `atoi` makes of the offset
typed: the number itself up to `MaxNumber` (`INT_MAX`), and any number, also a negative
one, beyond.  `Lseek` leaves the position alone when the offset is negative
(`fs.c:145-148`), and `Write` may be refused, as `fat32_write_file` does without text or
behind the end of the file.

### Printf and PrintfPromise

A format is a sequence of directives as the state machine of `printf_core` splits
it: the `Collect...` actions are the turns of the first pass, which fills `nl_type`
and then `nl_arg`, the `Print...` actions those of the second.  An argument is a register slot; `Popped` cuts and extends it as
`pop_arg` does, and behind the arguments that are passed there are more slots, since
`va_arg` never fails.  Every address but 0 holds a string (`Texts`), every code of a
character one glyph (`Glyphs`).  `Sinks` are a buffer of a given size, the console and standard output;
`mem` is what they hold, including the byte behind a buffer.  `PrintfPromise` states the
text from the standard's description of flags, width and precision, as one
expression over the whole format, and knows nothing of passes.  An asterisk's width of
`INT_MIN` is negated at `vfprintf.c:392`, which is undefined: `WidthOverflow` ends the
model there, and nothing is promised of such a call.

### Base

`stage` is where `head.S` is, `satp` which table translates.  `mem` are the frames that
can hold tables, with arbitrary contents at first; `Walk` is the hardware's
translation, so that `KernelReachesItself` speaks of what the processor does with the
tables and not of how they were filled.  `CreateMapping` maps one page, with the
tables it takes from the free list.  Afterwards `Timer` may come between any two
statements of `dummy_task`.

## 3. Runs

| Run | Instance | What it shows | States |
| --- | --- | --- | --- |
| `mc_proc` | 4 slots, priorities 1-2, `waitpid` nested to 4; disciplined | scheduling, pids and ids are right and `ProcLife` is implemented | 18 202 |
| `mc_proc_any` | 4 slots, one priority; any programs | every pid in use stays within reach of `schedule` while C is defined | 504 984 |
| `mc_proc_fair` | as `mc_proc`, no `waitpid`, fairness | nobody starves | 582 |
| `mc_buddy` | 8 pages, requests of 0-4, 2 references | the tree is exact and implements `PageAlloc` | 8 085 |
| `mc_memory` | 32 frames, 3 processes, image and stack of one page | sharing is read-only, counters suffice, memory is private | 169 808 |
| `mc_files` | 2 files, 5 clusters of 2 bytes, 2 opens between resets, one reset; disciplined | chains apart, sizes covered, nothing outside of the volume, `FileStore` implemented | 272 342 |
| `mc_descriptors` | 5 descriptors, 2 processes, names of 2 + 2 bytes, 2 keys, one entry of `dup_cxt` | paths, descriptors and keys reach what they mean | 337 072 |
| `mc_virtio` | 1 slot, 6 sectors, ring of 3, indices modulo 6, one reset, one sector that may fail | requests are performed once on the right buffer and are answered; the right volume is mounted; `Disk` is implemented | 337 494 |
| `mc_editor` | lines of 4, history of 2, heap of 2 blocks, 2 characters | screen, heap and history stay right; `Editor` is implemented | 1 255 767 |
| `mc_shell` | every command, 3 processes, 6 descriptors, 7 parameters | one process has the console, files are closed, edits change the file they name, at the offset typed up to `MaxNumber`, the prompt returns | 178 562 |
| `mc_printf` | formats of one and two directives, 5 argument lists, 4 sinks | text, count, refusals and buffers are right, up to a width of `INT_MIN` | 77 176 |
| `mc_base` | 15 frames, tables of 4 entries, 3 threads | the kernel stays mapped, rights are tight, pages are apart, threads keep their turns | 1 495 |

### Configurations run by hand

Each of these checks one statement that a comment or document of the repository makes
and that the code does not keep.  TLC reports a violation; the trace is the case.

| Configuration | Module | Violated | What the trace shows |
| --- | --- | --- | --- |
| `MCProcYield.cfg` | `MCProc` | `WaitYields` | "yield to other processes" (`trap.c:193`): the caller of `waitpid` stays schedulable with its ticks and with interrupts off; once the boosted child has used its own, a parent with ticks left picks itself for ever |
| `MCProcFull.cfg` | `MCProc` | `CloneFailsWhenFull` | `fork.c:10-12` tests an unsigned pid for `< 0`, and `get_next_avail_pid` ends without a value: `clone` hands out a process in a slot that is taken |
| `MCAddressSpaceSegment.cfg` | `MCAddressSpace` | `ImplementsUserMemory` | a segment of two pages has a counter at its first page only, and `fork.c:62` ignores that `ref_page` fails for the others: after two copies the run is released while it is mapped, and one program sees the stores of another (`README.md:90`) |
| `MCAddressSpaceTables.cfg` | `MCAddressSpace` | `CleanTables` | `create_mapping` does not clear a new table (`vm.c:115`, `127`), and frames keep their contents: leftovers of a program serve as entries (`vm.c:91`) |
| `MCFilesOffset.cfg` | `MCFiles` | `ImplementsFileStore` | `file_read` does not use `cfo`: a read after `lseek` returns the beginning (`README.md:78`) |
| `MCDescriptorsName.cfg` | `MCDescriptors` | `OpensTheNamed` | the search for a dot runs on behind the NUL of a path without one, and a name of full length loses its last byte |
| `MCLineEditorMalloc.cfg` | `MCLineEditor` | `HeapExact` | a request of two blocks marks the first one only: `malloc` gives the second to somebody else |
| `MCShellOffset.cfg` | `MCShell` | `EditsWhereTyped` | "Edit file at offset with content" (`main.c:371`): an offset beyond `INT_MAX` overflows in `atoi` (`main.c:234-241`) and may become negative; `file_lseek` refuses it (`fs.c:145-148`), `fwrite` does not notice (`syscalls.c:125`), and the text goes to the beginning of the file |
| `MCBasePrint.cfg` | `MCBase` | `KeepsPrinting` | `dummy_task` sets its counter to 0 so that its line goes on appearing; a timer between that store and the load of `prev_cnt` refills it to 1, `prev_cnt` becomes 1, and the test fails ever after |

### Bounds, and why they are enough

* `NR_TASKS = 4` in `Proc` gives three user processes: a parent, a child that exits
  while another one with a greater pid lives (a hole in the pids), and a
  grandchild.  The proofs hold for every number.  `MaxPriority` bounds the
  priorities, which grow by one with each nested `waitpid`; 4 is what a chain of waits
  from a process of priority 2 over its child to its grandchild needs.
* Eight pages make a tree of four levels, with the kernel's own page in the
  corner, so that there are runs of every size, buddies of the same parent and
  of different ones; requests of 3 pages are rounded up and 0 becomes 1.
* 32 frames let the first process fork twice, load a program, and run out of
  memory in every operation.  Two of the three processes are symmetric.  Contents
  are zero, the image, or a value stored by a program.  With one page of stack every
  fault takes the tables of the stack's region; that later ones find them there is
  left to the proofs, which hold for any number of pages of stack.
* Files of up to four bytes in sectors of two: within a sector, across two, and
  across clusters that are not adjacent.  One reset reaches every order of sectors
  and an allocated cluster that no file owns; five clusters are the two files'
  four and that one, so a volume never fills up (what happens then is in section
  5).  Sectors per cluster is 1 in the runs: with more, `fat32_read_file` would read
  the first sector of each cluster only.
* Names of 2 + 2 bytes instead of 8 + 3 distinguish a missing, a short and a full
  part on both sides of the dot; directories of two entries put a deleted entry, a
  label or the end before the file that is looked for.  Five descriptors are the
  consoles and two files.  Two keys with reads of one and two bytes put a
  line's end before, at and behind a read's.
* A ring of three descriptors is exactly one chain of a read; indices modulo 6 wrap
  around after a handful of requests, not at a multiple of the ring's use.  Six
  sectors hold a partition table, two possible volumes and data of programs.
* Lines of four characters hold a command, `edit` shortened to two letters with a
  blank, and one letter of a name; a history of two has an oldest and a newest
  entry, and the third text is beyond it.  A heap of two blocks is full with a history
  and fragmented with the program's own block.
* Three processes in `Shell` are a shell, a second one after a failed load, and a
  program of that.  Six descriptors and seven parameters are used up by a few
  commands, which is where tables end.  Offsets are none, 0, 2 and, beyond `MaxNumber = 2`,
  9, for which the kernel may get anything from -1 to 3.
* Integers of 3, 4, 5 and 6 bits for `char`, `short`, `int` and `long` make every
  conversion cut and extend, and let counts and widths overflow an `int` (at 16); -16 is
  `INT_MIN`, which some of the argument lists pass for an asterisk.
  `NL_ARGMAX = 3` has positions in order, with gaps and repeated.  `nl_arg` is not
  initialised: `Garbage` are values that it may hold.
* Fan-out 4 with 16 frames needs four tables of the last level, so that pages for
  tables are taken while the list is in use, and the nine pages behind the image are
  just enough for the tables and the tasks; three threads let a timer come between
  the statements of each while both others wait.
* `CHECK_DEADLOCK FALSE` stands where the system stops: out of memory
  (`alloc_pages` resets the machine), after undefined behaviour, in `Files` and
  `Descriptors` when the bounds on descriptors, resets or keys are reached, in
  `Virtio` when no device was found, and in `Printf` when the call has returned.

### Fairness

* `FairSpec` of `Proc` asks weak fairness of `Kernel`: handlers that have begun go on,
  and the timer fires again as long as user code runs, because every timer
  interrupt re-arms it (`trap.c:337`) and `sie.STIE` is never cleared.  Nothing is
  assumed of programs, which may compute for ever.
* `Virtio`: weak fairness of the driver's steps, which nothing interrupts, and of the
  device's.  That a device answers is an assumption, and the driver makes it too: it
  polls without a limit.
* `Shell`: weak fairness of each process's system calls, which is what the scheduler
  gives (`NoStarvation`).  Nobody has to type, and no program has to end.
* `Base`: weak fairness of booting and of the timer, which `trap_handler` re-arms; strong
  fairness of a thread's statements, because a thread loses the processor again and
  again, and a slice is much longer than a statement.

## 4. Proofs

`tlapm` checks every theorem below from nothing, for all values of the constants
that satisfy the named assumptions.

*Scheduler* (`ProcProofs`).  `ScheduleCovers` and `UserHasSlice` are not inductive.
`KernelInv` strengthens them by: idle's pid stays taken and idle RUNNING
(`IdleThread`), or `clone` could hand it out; nobody has more ticks than its
priority, and who can be picked has a priority to be refilled with (`Slices`);
whoever has the processor is taken, schedulable and has a tick left (`Owner`);
only a process inside `waitpid` is interruptible (`Sleepers`), so that user code
is RUNNING; and, for disciplined programs, idle has no ticks and spins only when
nothing can run (`IdleLast`).  The
heart of it is `ScheduleEstablishes`: `schedule()` picks a process with a tick
left, or idle when nobody can run, from any state that handlers leave behind.
`LongestReturns`, `LowestFree` and `FreedMaxCovers` say what the loops of
`schedule`, `get_next_avail_pid` and `free_pid` compute, from the facts that a bounded
set of naturals has a least and a greatest element.

*Process life* (`ProcProofs`).  `FreedAreDead` holds under any programs.
`RefillsAreFair`, `IdsAreExact` and the refinement `KernelImplementsProcLife` assume
`Disciplined`; without it the properties are false, since a program may wait
for a process that is not its child, or for itself, and boost or collect it.  The refinement proof has one step for each action: timer
and polling are `Switch` or stuttering, `Clone` is `Fork`, `ExitTask` is `Exit`,
`WaitReap` is `Reap`.

*Allocator* (`AddressSpaceProofs`, at its end).  Runs never overlap and are held exactly while
there are references.

*Page tree* (`BuddyProofs`).  `TreeExact` speaks of the nodes that `buddy_alloc` can look
at; the invariant `TreeInv` is about the set A of allocated nodes, which no variable
holds.  The tree is `Consistent` with A: nodes of A are apart and hold 0, nodes below them
are as if they were free (the code leaves them alone, and a release needs them so), and
every other node is what its two children make of it.  From this, such a node is `Exact`: it
holds the size of the longest node below it that shares no page with A.  And A is `Counted`:
a page has references if and only if a node of A starts there; without it `buddy_free` could
release another run than the one it was given.  The lemmas before it are about complete binary trees: the
pages of two nodes are apart or nested, a run that starts at a multiple of its size is a
node, a node's size is a power of two; and about numbers: or-ing a number with its shifts
gives the next power of two (`fixsize`).  Both climbs of the code are recursive functions;
what they leave in each node is proved from the leaves up (`Inherit`).  From the invariant
follow `TreeExact`, the refinement of `PageAlloc` (`buddy_alloc` finds the *lowest* free run,
and `buddy_free` the one that starts at the page), and through it that runs are apart and
have references.  `BuddyAssumption`: the number of pages is a power of two up to 2^15, as
`PHY_SIZE` has it, and nobody asks for more pages than there are.

*Address spaces* (`AddressSpaceProofs`).  `SharingIsReadOnly` and
`ReferencesSuffice`, for images of one page (`ImagePages = 1`;
`MCAddressSpaceSegment.cfg` shows that this is needed).  The invariant adds to the two
properties that two entries of one process never name the same frame (`OnceEach`),
without which the copies in `do_fork` would count one mapping for two; and that a
frame with references starts a run in use (`Referred`), without which the
allocator could hand out a mapped frame.  Each operation has a lemma of its own;
those of `do_fork` and `do_execve` compare the set of mappings of each frame before
and after with the change of its counter.

`MemoryIsPrivate` is the refinement of `UserMemory` under the same hypothesis: it needs
`Loaded` beside that invariant, the frames of an image hold the image until somebody
stores into them, so that what a fault or a load brings in is what `UserMemory` says.

*Driver* (`VirtioProofs`).  `Protocol` is the invariant of driver and device: until the
driver has stored the index the device has nothing to fetch (`Indices`), what it finds
then is the chain of the call (`Ring`), and what it works on is that chain until it is
used (`Fetched`).  From it follow `NoStrayTransfer` and `ChainOfTheCall`.  `DataInv`
adds what the disk and the buffers hold: the sectors that say where the volume is are
never overwritten (this is where `LayoutsAssumption` is needed), and what was read at
boot is what the disk says.  From it follows `MountFaithful`.  In the refinement of
`Disk` the device's transfer is the one step that is not stuttering; `Protocol` makes it
unique.

*Files* (`FilesProofs`), for disciplined programs.  A `Volume` is a table and a directory
for which lists of clusters exist, one for each entry: linked by the table, disjoint,
and long enough for the entry's size.  `ChainsApart` and `SizeCovered` follow from it,
but it has to hold of more than the disk: `FilesInv` says that every table still to be
written fits the directory that is on the disk (so a reset between any two sectors
leaves a volume), that the last of these is `fat32_table`, that this one fits the
directory as it will be, and that descriptors show entries of that directory, no two
the same.  The loop of `fat32_write_file` is proved turn by turn (`TurnKeeps`): the file
has a list of clusters of which those before the current one are full.  `Contained` is
proved for volumes that are `Ample`: for some m >= 2 (the file that is there at first may
have two), m clusters hold the longest file, and m for each entry and one for each reset
are not more than there are (with m = 2 in `mc_files`: 2 * 2 + 1 = 5).  For these,
`Spare` counts the clusters that are taken: those of the files, at most m each, and as
many others as there were resets, since a reset loses only the cluster whose link or
entry was not yet written.  By the pigeonhole principle one is free (`HasRoom`) whenever
a file is created or grows, so that the number which `allocate_fat32_cluster` returns
from a full volume is never used.

That `Files` implements `FileStore` (`FilesImplementFileStore`) needs more of the sectors
on their way than that they fit.  `StoreInv`: every table among them leads from the
entries on the disk to the same clusters as the table there does (`Alike`: a chain only
grows at its end); a file that is being created has no sector of data; and of a write,
for each cluster that the new bytes need, the disk holds those bytes already or the
sector that brings them is still to be written, and no other sector of data is
(`Remains`).  That a call begins with this is what its loop does turn by turn (`Plan`,
`WrittenPlan`).  Then a sector of the table changes no byte of any file, one of data
changes bytes of the file that is being written to new ones (`ByteWritten`, from the
disjointness of the chains), and the entry, the last, ends the write or makes the file.
A read is its own step: the sectors it puts together are the first ones of the file
(`FlattenIs`).  `FilesAssumption` says that `Absent` is no sequence of bytes, since
`FileStore` tells a file that does not exist by it.

*Descriptors* (`ConsoleProofs`).  `OpensTheNamed` is proved for paths that are
`Plain`: the parts fit and the bytes behind the text do not count as a part of it
(`MCDescriptorsName.cfg` shows why).  `CallsReachTheOpened` assumes that every path,
and the bytes that the fall-through of `dup3` opens, are plain or name nothing; its
invariant `FdsInv` pairs each descriptor with what `granted` says of it.
`TypedArrivesOnce` has no hypothesis.

*Line editor* (`UserProgramProofs`).  The invariant is that of the line, its cursor and the
screen, together with that of the list of texts, where completion and history take
from; `HeapInv` adds that each text has a block and no free block is lost.  Hypotheses:
NUL is no character that is typed (a line feed arrives as NUL, is put on the line and
not shown; terminals send a carriage return), and for `HeapExact` that requests fit one
block (`OneBlock`), as 128 bytes behind a header of 16 do in 256
(`MCLineEditorMalloc.cfg` shows what larger ones do).  The refinement of `Editor` needs
the first hypothesis.

*Shell* (`UserProgramProofs`).  `ShellInv`: there is one process that goes on, at a stage of its
command; all others wait, each for a child of its own that exists; and the one file
that may be open is that of the command, at the position that was typed if `atoi` could
compute it.  `OneActive`, `ClosedAtPrompt` and `EditsInPlace` follow, whichever calls
fail and however many second shells there are.  Of longer offsets `EditsInPlace` says
only that no other file changes (`MCShellOffset.cfg` shows why).

*Printf* (`ConsoleProofs`).  All three properties are proved for all formats, arguments and
sinks, and for integers of any widths that grow from `char` to `long`
(`PrintfAssumption`).  The invariant has four parts.  `Shape` bounds what the passes keep.
`Sunk` says what a sink holds of the text so far (`Held`); a field is written in six pieces,
each of which leaves it true, so `SinksHoldTheText` does not depend on where the text is
cut.  `Noticed` says what the first pass has learnt of the directives before `at`: the types
that it recorded are those that some directive asked for (`Seen`), the second pass finds
a value behind each (`Taught`) or a gap, `l10n` is set if and only if a position was met
(`Marked`), and nothing that it looks for clashed (`Clean`).  `BadFormatsAreRefused` follows:
unknown conversions, asterisks without a position behind a conversion with one, and
gaps in formats all by position.  It says nothing of the mixes and of the position 0
that the code lets through (section 5).  `PrintsThePromise` is about calls that end, which
one with the width `INT_MIN` does not in the model.  `Kept` is about well-formed
formats: the text so far is that of `Before`, the count is its length, `next` is behind the
slots that the standard gives to the directives so far, `stored` has the counts of their
`%n`.  That a single conversion prints what is promised of it (`FieldIsPromised`) rests on
arithmetic in two's complement (`NumberIs`) and on the digits and zeros
(`DigitsPromised`).  Positions are the delicate part: `WellFormed` demands that each position
has one type, and `Kept` needs it, since the first pass remembers the last type only.

*Base kernel* (`BaseProofs`).  `BootInv` says what each stage of the boot finds: the page
table in use, the free list, which is always the lowest pages behind the image
(`Down`), and the tables when the pages below `todo` are mapped (`PageTables`): one of
the middle level, and those of the last level that these pages need, each in a page of
its own.  `MapsOneMore` shows for one turn of `create_mapping` that the walk finds or
makes both tables and changes one entry.  From it `KernelReachesItself`,
`FinalTableIsTight` and `PagesApart` follow without hypotheses on programs.
`BaseAssumption` has two bounds that the code relies on and does not check: the frames
lie under one entry of the root (4 MiB under 1 GiB, `private_kdefs.h:8`), and there are
pages enough for the tables and the tasks, since `alloc_page` follows the list without
looking whether it is empty (`mm.c:13-17`).

Three remarks on how.  A function that is defined by recursion is, for the prover, a
value chosen with the property that its equation holds: each such lemma (`NthIs`,
`WrittenIs` and `FlattenIs` of `FilesProofs`, `Nth` of `Virtio`, `NodeSize` and the climbs of
`Buddy`, `Pow2`, `Digits`, `Slots` and `Before` of `Printf`) first shows that there is one, and then
argues about the least place where the claim would fail (`LeastElement`), which stands
for induction.  Sequences are taken apart with `SequenceTheorems`.  The hypotheses of
theorems (`Disciplined`, `Ample`, `ImagePages = 1`, `Plain`, `NUL`, `OneBlock`) are those of the
runs' instances, except `LayoutsAssumption`, which TLC evaluates.

The type invariants of `AddressSpace`, `PageAlloc`, `ProcLife` and `Buddy` (`BuddyTyped`) are
part of these proofs and belong to no run.  `ScheduleCovers` is checked under any programs by
`mc_proc_any`, and proved.

Only model-checked: liveness, which is out of the prover's reach, that is `NoStarvation`,
`Answered`, `PromptReturns` and `PrintsOrIsStuck`.  Every invariant, every action property
and every refinement that a run checks is proved, some under the hypotheses just named.

## 5. What the checks say about the code

What the configurations run by hand show is in section 3.  Seen while modelling,
without a configuration of their own:

Processes and memory

* `waitpid` of a pid outside of the table prints an error and goes on to write
  through `task[pid]` (`trap.c:170-181`).  `Proc` stops there.
* `free_pages` does nothing: `buddy_alloc` leaves a reference and `buddy_free`
  refuses a page with references (`mm.c:44`).  Nothing in the tree calls it.
* `exit` and `waitpid` release neither frames nor tables, where the documentation speaks
  of resources reclaimed (`README.md:81` and `92`).
* `execve` sets `sepc` and then skips an instruction (`trap.c:225`).
* The base kernel's `schedule` gives every thread a counter of 1, whatever its
  priority.

Files

* A write at an offset within a sector computes its length wrongly
  (`fat32.c:287`), and one beyond the first cluster goes to adjacent sectors
  instead of the next cluster (`fat32.c:276`).
* On a full volume the number 0xFFFFFFFF is used as a cluster (`fat32.c:304`).
* Descriptors are never reused and the 30th open leaves the table (`trap.c:46`); the
  table is one for all processes, where the documentation speaks of one for each.
  Two descriptors of one file each have a size of their own.
* A `read` returns whole sectors, so it may write past the buffer's end.
* `dup3` falls through into `open` (`trap.c:41`) and always answers as a failed one; only
  `lseek` looks at what it recorded; of several entries for one descriptor the first
  wins, entries outlive their process, and the ninth leaves `dup_cxt`.
* Whoever closes a console descriptor closes it for everybody, for good.
* `readk` and `getcharn` put a NUL one byte behind the length they were given, and
  `cat` prints a buffer that a full sector leaves without one.
* `virtio_blk_cmd` has its fence behind the notification, where it orders nothing.  A
  failed request is only printed; when it is the boot sector or the table, the
  volume stays unmounted or `fat32_table` holds what it held.
* `get_fat32_filenames` is called by nobody and never counts.

Programs

* The first prompt finds `line_buf` as the stack left it; Enter on an empty line hands
  over the text of the last erased command (`readline.c:93`).  Nothing tells the two from a line
  that was typed.
* The 33rd line overwrites what follows `lines[]`, which is `count` and `current`
  (`readline.c:158`).  Down behind the newest entry reads a null pointer.
* A line feed arrives as NUL and does not end a line.
* Tab may bring back erased characters and replace typed ones; the comparison with
  "edit " lacks its `== 0` (`readline.c:60`), so that file names are completed after
  everything else, at the place that is right for `edit` only.
* A load that fails leaves a second shell behind; `exit` in it does not end the machine,
  and the first shell waits until it ends.
* `string_buf` counts parameters over all commands: the 33rd word of a session leaves
  it.  A quote that is not closed runs on to the end of the buffer.
* `off_t` is unsigned, so that neither `fread` nor `fwrite` ever sees `lseek` fail
  (`syscalls.c:113`, `125`); with a missing file `edit` makes all calls with -1.
* `%#.<huge>o` prints instead of failing, because the precision grows after it was
  compared (`vfprintf.c:505` before `523`).
* A format that mixes positions and ordinary conversions (`%1$d %d`) is let through
  (`vfprintf.c:443` returns 0), and so is the position 0 (`%0$d`: the loop at
  `vfprintf.c:613` starts at 1).  Both print an element of `nl_arg` that nobody wrote.
* The width `INT_MIN` of an asterisk is negated (`vfprintf.c:391-392`), which overflows;
  the standard would have the field refused as too long.
* `kernel_XPart/conv.c:38` shifts by 2 where 1 was to be added after a shift by 1
  (`+` binds tighter than `<<`): the last lower words are stored elsewhere.

## 6. What is not modelled

* Registers, trap frames and `sscratch`: `pc` says where a task goes on, not with
  which registers.  Traps of the base kernel other than the timer's are only reported
  by its handler.
* The TLB, and with it the missing `sfence.vma` after a copy.
* Faults outside of every VMA, instruction fetches, the permissions of VMAs.
* `setup_vm_final` of the extended kernel; `Base` models that of the base kernel.
* The arithmetic of a volume's geometry, and a file allocation table of more than
  one sector.
* Arithmetic without state: 64-bit division, `rand`, the exercises on convolution;
  constants and headers (`elf.h`, those of C).
* Floating point in `printf_core`, which the file does not have either.
* The processor, its MMU and its bus: a description of hardware, whose pipelines and
  handshakes would be a project of their own.  The models above take from it that
  it executes in order, that a trap clears `sstatus.SIE`, and how Sv39 translates.

## 7. Plan

Done: processes, pages, address spaces, files with resets, the block driver, the
names and descriptors in front of files, heap, editor, shell, formatted output, the
base kernel.  Left, in the order of what it is worth:

1. `CoreFsm`, `Mmu`, `Mem2Axi`: the state machines of the processor and their
   handshakes, composed; a transfer is neither lost nor doubled, each instruction
   commits once, liveness with a memory that answers.
2. `CsrTrap`: trap and return with `sstatus`, `sepc`, delegation; composed with the
   kernel's assumption that nothing interrupts a handler.
