---------------------------- MODULE Descriptors ----------------------------
(***************************************************************************)
(* What a descriptor leads to: the table of open files with the consoles   *)
(* in front (fs.c), the calls of trap.c that look descriptors up, dup3,    *)
(* the way from a path to a directory entry (fat32_open_file) and the      *)
(* reading of typed characters (readk.c).  What the calls do to the files  *)
(* themselves is in Files.                                                 *)
(***************************************************************************)
EXTENDS Integers, SequencesExt

CONSTANTS
  NAME, EXT,       \* bytes of a name and of its extension, 8 and 3
  Capital,         \* the capital letter of each small one
  Paths,           \* what programs pass to open: the bytes there, NAME + EXT or more
  Code,            \* the bytes at a small address, where a program's code is
  Dirs,            \* root directories: the entries of their first cluster
  MAX_FILE_NUMBER,
  MAX_DUP,         \* entries of dup_cxt
  Pids,            \* the processes
  DupArgs,         \* the descriptors that programs pass to dup3
  FlagArgs,        \* the flags that programs pass to open
  Lens,            \* the lengths that programs pass to read
  Chars,           \* the characters that are typed, LF among them
  MaxTyped         \* bound of the model on their number

NUL == "nul"
LF == "lf"
DOT == "."
SPACE == " "
DELETED == "e5"

ASSUME DescriptorsAssumption ==
  /\ NAME \in Nat \ {0} /\ EXT \in Nat \ {0}
  /\ \A path \in Paths \cup {Code} : path \in Seq(Range(path)) /\ Len(path) >= NAME + EXT
  /\ \A d \in Dirs : d \in Seq(Range(d)) /\ \A i \in DOMAIN d : Len(d[i].name) = NAME + EXT
  /\ MAX_FILE_NUMBER \in Nat /\ MAX_FILE_NUMBER > 3 /\ MAX_DUP \in Nat /\ MaxTyped \in Nat
  /\ 0 \notin Pids /\ Lens \subseteq Nat \ {0} /\ DupArgs \subseteq Int

\* Letters become letters.
ASSUME CapitalAssumption ==
  /\ {NUL, DOT} \cap DOMAIN Capital = {}
  /\ \A c \in DOMAIN Capital : Capital[c] \notin {NUL, DOT, DELETED}

VARIABLES
  dir,             \* the entries of the root directory
  fds,             \* files.fd_array
  avail,           \* avail_file_desc
  dups,            \* dup_cxt, the avail_dup entries in use
  typed,           \* the characters typed so far
  taken,           \* how many of them the firmware has handed over
  reading,         \* the read of the console that is going on, if one is
  granted,         \* history: what each descriptor was opened for
  heard,           \* history: what reads of the console have delivered
  oops             \* a step outside of a table

files == <<fds, avail, dups>>
console == <<typed, taken, reading, heard>>
vars == <<dir, files, console, granted, oops>>

Null == << >>
Nobody == {}
Fds == 0 .. MAX_FILE_NUMBER - 1
FdArgs == -1 .. MAX_FILE_NUMBER

F_READ(flags) == flags % 2 = 1
F_WRITE(flags) == (flags \div 2) % 2 = 1

-----------------------------------------------------------------------------
(***************************************************************************)
(* From a path to a directory entry.                                       *)
(***************************************************************************)
\* The first of a .. b at which P holds, or else b.
FirstIn(a, b, P(_)) == CHOOSE i \in a .. b : (P(i) \/ i = b) /\ \A j \in a .. i - 1 : ~P(j)

\* to_upper_case
UpperCase(s) ==
  LET end == FirstIn(1, Len(s), LAMBDA i : s[i] = NUL)
  IN  [i \in DOMAIN s |-> IF i < end /\ s[i] \in DOMAIN Capital THEN Capital[s[i]] ELSE s[i]]

\* to_fat32_name_format of the buffer, which ends with a NUL: its two loops
\* find where the name and the extension end.
NameEnd(up) == FirstIn(1, NAME + 1, LAMBDA i : up[i] \in {DOT, NUL})
ExtEnd(up, dot) == FirstIn(dot + 1, dot + EXT + 1, LAMBDA i : i <= Len(up) /\ up[i] = NUL)
Fat32Name(s) ==
  LET up == UpperCase(s)
      dot == NameEnd(up)
      end == ExtEnd(up, dot)
      byte(i, limit) == IF i < limit THEN up[i] ELSE SPACE
  IN  [i \in 1 .. NAME + EXT |->
         IF i <= NAME THEN byte(i, dot) ELSE byte(dot + i - NAME, end)]

\* Fault: the volume's label counts as a file.
Skipped_Deleted(e) == e.name[1] = DELETED
Skipped(e) == e.name[1] = DELETED \/ e.label

\* fat32_open_file: the place of the entry, 0 when the end comes first.
OpenFile(path) ==
  LET name == Fat32Name(Append(SubSeq(path, 1, NAME + EXT), NUL))
      found(i) == ~Skipped(dir[i]) /\ dir[i].name = name
      stop == {i \in DOMAIN dir : dir[i].name[1] = NUL \/ found(i)}
  IN  IF stop = {} \/ ~found(Min(stop)) THEN 0 ELSE Min(stop)

-----------------------------------------------------------------------------
(***************************************************************************)
(* The table of open files.  A function pointer is the name of what it     *)
(* reaches: "null", "console" or "file".                                   *)
(***************************************************************************)
Unused == [opened |-> FALSE, perms |-> 0, fat32 |-> FALSE, entry |-> 0,
           lseek |-> "null", write |-> "null", read |-> "null"]

\* file_init_fds
Stdin == [Unused EXCEPT !.opened = TRUE, !.perms = 3, !.read = "console"]
Stdout == [Unused EXCEPT !.opened = TRUE, !.perms = 3, !.write = "console"]
Other == [Unused EXCEPT !.fat32 = TRUE, !.lseek = "file", !.write = "file", !.read = "file"]
FileInitFds == [fd \in Fds |-> IF fd = 0 THEN Stdin ELSE IF fd < 3 THEN Stdout ELSE Other]

\* Fault: every file may be read and written.
FileOpen_AllPerms(flags, entry) == [Other EXCEPT !.opened = TRUE, !.perms = 3, !.entry = entry]
\* file_open of a free place.
FileOpen(flags, entry) == [Other EXCEPT !.opened = TRUE, !.perms = flags, !.entry = entry]

\* file_close; nobody reads the FAT32 part that it leaves.
FileClose == Unused

\* What a call acts on: an entry of the directory, or one of these.
Refused == -1
Console == 0
NullPointer == -2

\* file_read and file_write: what they act on.
FileRead(file) ==
  IF file.opened /\ F_READ(file.perms) /\ file.fat32 THEN file.entry ELSE Refused
FileWrite(file) ==
  IF file.opened /\ F_WRITE(file.perms) /\ file.fat32 THEN file.entry ELSE Refused

Through(pointer, file) ==
  CASE pointer = "file" -> file [] pointer = "console" -> Console [] OTHER -> NullPointer

IsOpened(fd) == fd >= 0 /\ fd < MAX_FILE_NUMBER /\ fds[fd].opened

\* The tests of read and write in syscall_handler.
MayRead(fd) == (fd = 0 \/ fd >= 3) /\ IsOpened(fd) /\ F_READ(fds[fd].perms)
MayWrite(fd) == fd >= 1 /\ IsOpened(fd) /\ F_WRITE(fds[fd].perms)

\* lseek looks for the first dup3 of the process for the descriptor.
Redirected(p, fd) ==
  LET mine == {i \in DOMAIN dups : dups[i].pid = p /\ dups[i].old = fd}
  IN  IF mine = {} THEN fd ELSE dups[Min(mine)].new

\* What lseek, write and read act on.  A call on a file, and a write to the
\* console, leave the variables of this module alone.
LseekReaches(p, fd) ==
  LET d == Redirected(p, fd)
  IN  IF IsOpened(d) /\ fds[d].lseek # "null" THEN fds[d].entry ELSE Refused
WriteReaches(fd) ==
  IF MayWrite(fd) THEN Through(fds[fd].write, FileWrite(fds[fd])) ELSE Refused
ReadReaches(fd) ==
  IF MayRead(fd) THEN Through(fds[fd].read, FileRead(fds[fd])) ELSE Refused

-----------------------------------------------------------------------------
(***************************************************************************)
(* The system calls.  Nothing else runs before one has returned.           *)
(***************************************************************************)
Ready == ~oops /\ reading = Nobody

Break ==
  /\ oops' = TRUE
  /\ UNCHANGED <<dir, files, console, granted>>

\* For the properties: the first entry that a path names, 0 for none, and
\* what a descriptor that was opened for it allows.  A path is the text up
\* to the NUL, a name up to a dot and an extension, both filled with spaces.
Text(path) == SubSeq(path, 1, FirstIn(1, Len(path) + 1, LAMBDA i : i <= Len(path) /\ path[i] = NUL) - 1)
Dot(text) == FirstIn(1, Len(text) + 1, LAMBDA i : i <= Len(text) /\ text[i] = DOT)
Padded(s, n) == [i \in 1 .. n |-> IF i > Len(s) THEN SPACE ELSE IF s[i] \in DOMAIN Capital THEN Capital[s[i]] ELSE s[i]]
ShortName(text) ==
  Padded(SubSeq(text, 1, Dot(text) - 1), NAME) \o Padded(SubSeq(text, Dot(text) + 1, Len(text)), EXT)
Named(path) ==
  LET isFile(i) == /\ \A j \in 1 .. i : dir[j].name[1] # NUL
                   /\ ~dir[i].label /\ dir[i].name = ShortName(Text(path))
  IN  IF path = Null \/ ~\E i \in DOMAIN dir : isFile(i) THEN 0
      ELSE CHOOSE i \in DOMAIN dir : isFile(i) /\ \A j \in 1 .. i - 1 : ~isFile(j)

Grant(reach, flags) ==
  [reach |-> reach, read |-> F_READ(flags), write |-> F_WRITE(flags)]
NoGrant == Grant(Refused, 0)

\* open in syscall_handler, for the call itself and for dup3.
Opened(path, flags) ==
  IF avail = MAX_FILE_NUMBER THEN oops' = TRUE /\ UNCHANGED <<fds, avail, granted>>
  ELSE LET entry == IF path = Null \/ flags \notin 1 .. 7 \/ fds[avail].opened
                    THEN 0 ELSE OpenFile(path)
       IN  /\ IF entry = 0 THEN UNCHANGED <<fds, avail, granted>>
              ELSE /\ fds' = [fds EXCEPT ![avail] = FileOpen(flags, entry)]
                   /\ avail' = avail + 1
                   /\ granted' = [granted EXCEPT ![avail] = Grant(Named(path), flags)]
           /\ UNCHANGED oops

Open(path, flags) ==
  /\ Ready
  /\ Opened(path, flags)
  /\ UNCHANGED <<dir, dups, console>>

\* dup3 goes on into open, with the pid as path and the old descriptor as flags.
Dup3(pid, old, new) ==
  /\ Ready
  /\ \/ Len(dups) = MAX_DUP /\ Break
     \/ /\ Len(dups) < MAX_DUP
        /\ dups' = Append(dups, [pid |-> pid, old |-> old, new |-> new])
        /\ Opened(Code, old)
        /\ UNCHANGED <<dir, console>>

Close(fd) ==
  /\ Ready /\ IsOpened(fd)
  /\ fds' = [fds EXCEPT ![fd] = FileClose]
  /\ granted' = [granted EXCEPT ![fd] = NoGrant]
  /\ UNCHANGED <<dir, avail, dups, console, oops>>

\* read of the console, which waits for a line.
Read(fd, len) ==
  /\ Ready
  /\ MayRead(fd) /\ fds[fd].read = "console"
  /\ reading' = {[len |-> len, got |-> << >>, over |-> FALSE]}
  /\ UNCHANGED <<dir, files, typed, taken, heard, granted, oops>>

-----------------------------------------------------------------------------
(***************************************************************************)
(* The console.                                                            *)
(***************************************************************************)
\* A key; external.
Type(c) ==
  /\ ~oops /\ Len(typed) < MaxTyped
  /\ typed' = Append(typed, c)
  /\ UNCHANGED <<dir, files, taken, reading, heard, granted, oops>>

\* Fault: one more character is taken before the count is looked at.
Turn_ReadsAhead(r, c) ==
  IF c = LF \/ Len(r.got) = r.len THEN [r EXCEPT !.over = TRUE]
  ELSE [r EXCEPT !.got = Append(@, c)]

\* A turn of the loop of readk with the character c.
Turn(r, c) ==
  IF c = LF THEN [r EXCEPT !.over = TRUE]
  ELSE [r EXCEPT !.got = Append(@, c), !.over = Len(r.got) + 1 = r.len]

\* getchark: the firmware is asked until it has a character.
Poll(r) ==
  /\ taken < Len(typed)
  /\ taken' = taken + 1
  /\ LET s == Turn(r, typed[taken + 1])
         line == IF Len(s.got) < s.len THEN Append(s.got, LF) ELSE s.got
     IN  IF s.over
         THEN /\ reading' = Nobody
              /\ heard' = heard \o line
         ELSE reading' = {s} /\ UNCHANGED heard
  /\ UNCHANGED <<dir, files, typed, granted, oops>>

Init ==
  /\ dir \in Dirs
  /\ fds = FileInitFds /\ avail = 3 /\ dups = << >>
  /\ typed = << >> /\ taken = 0 /\ reading = Nobody /\ heard = << >>
  /\ granted = [fd \in Fds |-> IF fd = 0 THEN Grant(Console, 1)
                               ELSE IF fd < 3 THEN Grant(Console, 2) ELSE NoGrant]
  /\ oops = FALSE

Next ==
  \/ \E path \in Paths \cup {Null}, flags \in FlagArgs : Open(path, flags)
  \/ \E p \in Pids, old, new \in DupArgs : Dup3(p, old, new)
  \/ \E fd \in Fds : Close(fd) \/ \E len \in Lens : Read(fd, len)
  \/ \E c \in Chars : Type(c)
  \/ \E r \in reading : Poll(r)

Spec == Init /\ [][Next]_vars

-----------------------------------------------------------------------------
(***************************************************************************)
(* Properties.                                                             *)
(***************************************************************************)
\* The paths that the code takes apart as they are meant: both parts fit, and the
\* whole text fits the buffer with its dot; behind a text without a dot comes
\* another NUL.  The first byte is not the mark of a deleted entry.
Plain(path) ==
  LET text == Text(path)
  IN  /\ Dot(text) <= NAME + 1 /\ Len(text) - Dot(text) <= EXT /\ Len(text) <= NAME + EXT
      /\ Dot(text) = Len(text) + 1 /\ Len(text) + 2 <= NAME + EXT => path[Len(text) + 2] = NUL
      /\ path[1] # DELETED

\* open finds the file that the path names and only that: the text up to its
\* NUL in capitals, name and extension filled up, never a deleted entry, the
\* volume's label or something behind the end of the directory, whatever
\* follows the text in memory; flags out of range find nothing.
OpensTheNamed == \A path \in Paths : OpenFile(path) = Named(path)

\* Read, write and lseek act on what their descriptor was opened for and
\* refuse anything else: a closed descriptor, a number that never was one,
\* the wrong direction, also after any dup3, and never through a pointer
\* that file_init_fds or file_close left null.
Granted(fd) == IF fd \in Fds THEN granted[fd] ELSE NoGrant
CallsReachTheOpened ==
  \A fd \in FdArgs :
    /\ ReadReaches(fd) = IF Granted(fd).read THEN Granted(fd).reach ELSE Refused
    /\ WriteReaches(fd) = IF Granted(fd).write THEN Granted(fd).reach ELSE Refused
    /\ \A p \in Pids :
         LET g == Granted(Redirected(p, fd))
         IN  LseekReaches(p, fd) = IF g.reach = Console THEN Refused ELSE g.reach

\* What is typed arrives once and in order, a line at a time, however the
\* keys fall between the polls and whatever lengths the reads have.
TypedArrivesOnce ==
  heard \o (IF reading = Nobody THEN << >> ELSE (CHOOSE r \in reading : TRUE).got)
    = SubSeq(typed, 1, taken)
=============================================================================
