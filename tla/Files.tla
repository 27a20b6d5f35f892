------------------------------- MODULE Files -------------------------------
(***************************************************************************)
(* The file system: the table of open files (fs.c and the calls open,      *)
(* close, lseek, read and write of trap.c) on FAT32 (fat32.c), down to the *)
(* sectors that a call writes, one at a time, with a reset of the machine  *)
(* between any two of them.                                                *)
(*                                                                         *)
(* Every call runs to its end before another one starts (the kernel is not *)
(* preempted), so a call is one action that changes the memory and lists   *)
(* the sectors it is going to write, and each sector another.              *)
(***************************************************************************)
EXTENDS Integers, FiniteSets, SequencesExt

CONSTANTS
  Names,           \* names of files
  Old,             \* the file that is there from the beginning
  Absent,          \* no name, no byte, no contents
  SectorSize,      \* VIRTIO_BLK_SECTOR_SIZE
  SecPerCluster,   \* fat32_volume.sec_per_cluster
  NrClusters,      \* clusters of the volume, the first one is number 2
  DirSlots,        \* entries of the root directory
  MAX_FILE_NUMBER,
  Bytes,           \* what a byte can hold, 0 among it
  Flags,           \* the sets of permissions that programs pass to open
  Lens,            \* the lengths that programs pass to read and write
  Offsets,         \* the offsets that programs pass to lseek
  MaxOffset,       \* bound of the model on offsets in a file
  MaxResets,       \* bound of the model on resets
  Disciplined      \* programs read and write at offset 0 only, open a file
                   \* that is not open, and create one that does not exist

ASSUME FilesAssumption ==
  /\ Old \in Names /\ Absent \notin Names \cup Bytes /\ Absent \notin Seq(Bytes)
  /\ SectorSize \in Nat \ {0} /\ SecPerCluster \in Nat \ {0}
  /\ NrClusters \in Nat \ {0, 1} /\ DirSlots \in Nat \ {0} /\ MAX_FILE_NUMBER \in Nat
  /\ Flags \subseteq (SUBSET {"read", "write"}) \ {{}}
  /\ 0 \in Bytes /\ Lens \subseteq Nat \ {0} /\ Offsets \subseteq Int
  /\ MaxOffset \in Nat /\ MaxResets \in Nat
  /\ Disciplined \in BOOLEAN

VARIABLES
  data,            \* on disk: the sectors of the data area
  fatDisk,         \* on disk: the file allocation table
  dir,             \* on disk: the root directory
  fat,             \* fat32_table, the copy of the table in memory
  fds,             \* files.fd_array
  avail,           \* avail_file_desc
  todo,            \* the sectors that the running call is going to write
  call,            \* the write that is running, if there is one
  reply,           \* the read that just ended: file, offset, length, bytes
  resets,          \* number of resets
  oops             \* a sector outside of the data area, a copy of negative
                   \* length or a descriptor outside of the table was used

disk == <<data, fatDisk, dir>>
memory == <<fat, fds, avail>>
vars == <<data, fatDisk, dir, fat, fds, avail, todo, call, reply, resets, oops>>

Nothing == << >>
Free == 0
Eof == 1
Clusters == 2 .. NrClusters + 1
Stray == NrClusters + 2          \* any number that is no cluster of the volume
Sectors == 0 .. NrClusters * SecPerCluster - 1
SectorOf(c) == (c - 2) * SecPerCluster
Fds == 3 .. MAX_FILE_NUMBER - 1
Perms == SUBSET {"read", "write"}
NoEntry == [name |-> Absent, start |-> Free, size |-> 0]
Closed == [opened |-> FALSE, perms |-> {}, cfo |-> 0, file |-> NoEntry]

Entries == [name : Names \cup {Absent}, start : {Free, Stray} \cup Clusters, size : Nat]
Table == [Clusters -> {Free, Eof} \cup Clusters]

TypeOK ==
  /\ data \in [Sectors -> [1 .. SectorSize -> Bytes]]
  /\ fatDisk \in Table /\ fat \in Table
  /\ dir \in [1 .. DirSlots -> Entries]
  /\ fds \in [Fds -> [opened : BOOLEAN, perms : Perms, cfo : Nat, file : Entries]]
  /\ avail \in 3 .. MAX_FILE_NUMBER
  /\ resets \in 0 .. MaxResets /\ oops \in BOOLEAN

-----------------------------------------------------------------------------
(***************************************************************************)
(* The file allocation table.                                              *)
(***************************************************************************)

\* get_next_fat32_cluster: a number that is no cluster counts as an end.
Next1(t, c) == IF c \in Clusters THEN t[c] ELSE Eof

\* The k-th cluster of the chain that starts at c.
Nth(t, c, k) ==
  LET f[i \in 1 .. k] == IF i = 1 THEN c ELSE Next1(t, f[i - 1])
  IN  f[k]

\* (Fault for a mutant: the new cluster stays free.)
Linked_NotMarked(t, i, last) == IF last = 0 THEN t ELSE [t EXCEPT ![last] = i]

\* allocate_fat32_cluster: the lowest free cluster becomes the end of a
\* chain, that of cluster last unless this is 0.
Linked(t, i, last) ==
  IF last = 0 THEN [t EXCEPT ![i] = Eof] ELSE [t EXCEPT ![i] = Eof, ![last] = i]

FreeClusters(t) == {c \in Clusters : t[c] = Free}

\* The new cluster, none when the volume is full, and the table.
Allocated(t, last) ==
  IF FreeClusters(t) = {} THEN [cluster |-> Stray, fat |-> t]
  ELSE LET i == Min(FreeClusters(t))
       IN  [cluster |-> i, fat |-> Linked(t, i, last)]

-----------------------------------------------------------------------------
(***************************************************************************)
(* fat32_write_file.  A sector to be written is a record; those of a call  *)
(* are written in the order of the code.                                   *)
(***************************************************************************)
DataSector(s, v) == [to |-> "data", at |-> s, value |-> v]
FatSector(t) == [to |-> "fat", at |-> 0, value |-> t]
DirSector(d) == [to |-> "dir", at |-> 0, value |-> d]

\* The bytes that one turn copies, at offset o of a sector with n bytes to go.
Chunk(o, n) == IF o + n < SectorSize THEN n - o ELSE SectorSize - o

Patched(v, o, n, x) == [i \in 1 .. SectorSize |-> IF i \in o + 1 .. o + n THEN x ELSE v[i]]

\* The sector is written; s is the state of the loop.
Copied(s, len, x) ==
  LET n == Chunk(s.off, len - s.done)
      v == Patched(s.data[s.sector], s.off, n, x)
  IN  IF s.sector \notin Sectors \/ n < 0
      THEN [s EXCEPT !.bad = TRUE]
      ELSE [s EXCEPT !.data[s.sector] = v, !.done = @ + n, !.off = 0,
                     !.todo = Append(@, DataSector(s.sector, v))]

\* The next cluster, a new one at the end of the chain.
Advanced(s) ==
  LET a == Allocated(s.fat, s.cluster)
      c == Next1(s.fat, s.cluster)
  IN  IF c # Eof THEN [s EXCEPT !.cluster = c, !.sector = SectorOf(c)]
      ELSE [s EXCEPT !.cluster = a.cluster, !.sector = SectorOf(a.cluster), !.fat = a.fat,
                     !.todo = IF a.cluster = Stray THEN @ ELSE Append(@, FatSector(a.fat))]

\* The loop: after[k] is its state after k turns.
Written(f, len, x) ==
  LET start == [fat |-> fat, data |-> data, todo |-> << >>, cluster |-> f.file.start,
                sector |-> SectorOf(f.file.start) + f.cfo \div SectorSize,
                off |-> f.cfo % SectorSize, done |-> 0, bad |-> FALSE]
      turns == len + 1
      after[k \in 0 .. turns] ==
        IF k = 0 THEN start
        ELSE LET s == after[k - 1]
             IN  IF s.bad \/ s.done >= len THEN s
                 ELSE LET c == Copied(s, len, x)
                      IN  IF c.bad \/ c.done >= len THEN c ELSE Advanced(c)
  IN  after[turns]

\* (Fault for a mutant: the size is that of the last write.)
Grown_Reset(size, end) == end
Grown(size, end) == IF end > size THEN end ELSE size

SlotsOf(n) == {i \in 1 .. DirSlots : dir[i].name = n}

\* (Fault for a mutant: the directory is written first.)
InOrder_DirFirst(sectors, d) == << d >> \o sectors
InOrder(sectors, d) == Append(sectors, d)
-----------------------------------------------------------------------------
(***************************************************************************)
(* The system calls.                                                       *)
(***************************************************************************)
Ready == todo = << >> /\ ~oops

Quiet == reply' = Nothing

Break ==
  /\ oops' = TRUE /\ Quiet
  /\ UNCHANGED <<disk, memory, todo, call, resets>>

\* The volume as another system left it: the file Old, of one or two sectors.
Init ==
  /\ \E size \in {1, SectorSize + 1} :
       /\ dir = [i \in 1 .. DirSlots |->
                   IF i = 1 THEN [name |-> Old, start |-> 2, size |-> size] ELSE NoEntry]
       /\ fatDisk = [c \in Clusters |->
                       IF c = 2 THEN IF size = 1 THEN Eof ELSE 3
                       ELSE IF c = 3 /\ size > 1 THEN Eof ELSE Free]
  /\ data = [s \in Sectors |-> [i \in 1 .. SectorSize |-> 0]]
  /\ fat = fatDisk
  /\ fds = [d \in Fds |-> Closed]
  /\ avail = 3
  /\ todo = << >> /\ call = {} /\ reply = Nothing
  /\ resets = 0 /\ oops = FALSE

\* open: the next descriptor, never one that was closed.
Open(n, p) ==
  /\ Ready
  /\ SlotsOf(n) # {}
  /\ Disciplined => /\ avail < MAX_FILE_NUMBER
                    /\ \A d \in Fds : fds[d].opened => fds[d].file.name # n
  /\ IF avail = MAX_FILE_NUMBER THEN Break
     ELSE /\ fds' = [fds EXCEPT ![avail] =
                       [opened |-> TRUE, perms |-> p, cfo |-> 0, file |-> dir[Min(SlotsOf(n))]]]
          /\ avail' = avail + 1
          /\ Quiet /\ UNCHANGED <<disk, fat, todo, call, resets, oops>>

Close(d) ==
  /\ Ready /\ fds[d].opened
  /\ fds' = [fds EXCEPT ![d] = Closed]
  /\ Quiet /\ UNCHANGED <<disk, fat, avail, todo, call, resets, oops>>

\* lseek with SEEK_SET, SEEK_CUR and SEEK_END.
Lseek(d, o) ==
  /\ Ready /\ fds[d].opened
  /\ \E base \in {0, fds[d].cfo, fds[d].file.size} :
       /\ base + o \in 0 .. MaxOffset
       /\ fds' = [fds EXCEPT ![d].cfo = base + o]
  /\ Quiet /\ UNCHANGED <<disk, fat, avail, todo, call, resets, oops>>

\* Programs that know what the calls do.
MayUse(d) == Disciplined => fds[d].cfo = 0

\* write of len bytes x.
Write(d, len, x) ==
  /\ Ready /\ fds[d].opened /\ "write" \in fds[d].perms
  /\ MayUse(d) /\ fds[d].cfo + len <= MaxOffset
  /\ fds[d].cfo <= fds[d].file.size
  /\ LET f == fds[d]
         w == Written(f, len, x)
         size == Grown(f.file.size, f.cfo + len)
         slots == SlotsOf(f.file.name)
     IN  IF w.bad THEN Break
         ELSE /\ fat' = w.fat
              /\ fds' = [fds EXCEPT ![d].cfo = @ + len, ![d].file.size = size]
              /\ todo' = IF slots = {} THEN w.todo
                         ELSE InOrder(w.todo, DirSector([dir EXCEPT ![Min(slots)].size = size]))
              /\ call' = {[name |-> f.file.name, at |-> f.cfo, data |-> [i \in 1 .. len |-> x]]}
              /\ Quiet /\ UNCHANGED <<disk, avail, resets, oops>>

\* read: from the beginning of the file whatever the offset, in whole
\* sectors, and the offset advances by as much.
Read(d, len) ==
  /\ Ready /\ fds[d].opened /\ "read" \in fds[d].perms
  /\ MayUse(d)
  /\ LET f == fds[d]
         n == IF len > f.file.size THEN f.file.size ELSE len
         turns == (n + SectorSize - 1) \div SectorSize
         sectors == [k \in 1 .. turns |-> SectorOf(Nth(fat, f.file.start, k))]
     IN  IF \E k \in 1 .. turns : sectors[k] \notin Sectors THEN Break
         ELSE /\ f.cfo + turns * SectorSize <= MaxOffset
              /\ reply' = [name |-> f.file.name, at |-> f.cfo, asked |-> len,
                           data |-> FlattenSeq([k \in 1 .. turns |-> data[sectors[k]]])]
              /\ fds' = [fds EXCEPT ![d].cfo = @ + turns * SectorSize]
              /\ UNCHANGED <<disk, fat, avail, todo, call, resets, oops>>

\* fat32_create_file: the first entry without a name.
Create(n) ==
  /\ Ready
  /\ SlotsOf(Absent) # {}
  /\ Disciplined => SlotsOf(n) = {}
  /\ LET a == Allocated(fat, 0)
         entry == [name |-> n, start |-> a.cluster, size |-> 0]
         last == DirSector([dir EXCEPT ![Min(SlotsOf(Absent))] = entry])
     IN  /\ fat' = a.fat
         /\ todo' = InOrder(IF a.cluster = Stray THEN << >> ELSE << FatSector(a.fat) >>, last)
  /\ Quiet /\ UNCHANGED <<disk, fds, avail, call, resets, oops>>

-----------------------------------------------------------------------------
\* virtio_blk_write_sector: the next sector of the running call.
WriteSector ==
  /\ todo # << >> /\ ~oops
  /\ LET w == Head(todo)
     IN  /\ data' = IF w.to = "data" THEN [data EXCEPT ![w.at] = w.value] ELSE data
         /\ fatDisk' = IF w.to = "fat" THEN w.value ELSE fatDisk
         /\ dir' = IF w.to = "dir" THEN w.value ELSE dir
  /\ todo' = Tail(todo)
  /\ call' = IF todo' = << >> THEN {} ELSE call
  /\ Quiet /\ UNCHANGED <<memory, resets, oops>>

\* (Fault for a mutant: the table is not read at boot.)
CachedFat_None == [c \in Clusters |-> Free]
\* fat32_init_sector
CachedFat == fatDisk

\* The machine is reset and boots again (file_init).
Reset ==
  /\ ~oops /\ resets < MaxResets
  /\ fat' = CachedFat
  /\ fds' = [d \in Fds |-> Closed]
  /\ avail' = 3
  /\ todo' = << >> /\ call' = {}
  /\ resets' = resets + 1
  /\ Quiet /\ UNCHANGED <<disk, oops>>

Next ==
  \/ \E n \in Names : Create(n) \/ \E p \in Flags : Open(n, p)
  \/ \E d \in Fds :
       \/ Close(d)
       \/ \E o \in Offsets : Lseek(d, o)
       \/ \E len \in Lens : Read(d, len) \/ \E x \in Bytes : Write(d, len, x)
  \/ WriteSector
  \/ Reset

Spec == Init /\ [][Next]_vars
-----------------------------------------------------------------------------
(***************************************************************************)
(* Properties.                                                             *)
(***************************************************************************)
Used == {i \in 1 .. DirSlots : dir[i].name # Absent}
Chain(c) == {Nth(fatDisk, c, k) : k \in 1 .. NrClusters} \cap Clusters

\* On the disk, at any moment and so after any reset, two files share no
\* cluster, and every chain ends, though a call writes the table, the data
\* and the directory one after the other.
ChainsApart ==
  /\ \A i, j \in Used : i # j => Chain(dir[i].start) \cap Chain(dir[j].start) = {}
  /\ \A i \in Used : Nth(fatDisk, dir[i].start, NrClusters + 1) = Eof

\* The size in a directory entry never exceeds what its chain holds, whatever
\* sector a reset prevents: fat32_read_file follows the chain on trust.
SizeCovered ==
  \A i \in Used : dir[i].size <= SectorSize * Cardinality(Chain(dir[i].start))

\* No call touches a sector outside of the data area: every cluster that a
\* descriptor, the cached table and the directory lead to is one of the volume.
Contained == ~oops

ByteAt(start, i) ==
  LET s == SectorOf(Nth(fatDisk, start, (i - 1) \div SectorSize + 1))
  IN  IF s \in Sectors THEN data[s][((i - 1) % SectorSize) + 1] ELSE Absent

Contents(n) ==
  IF SlotsOf(n) = {} THEN Absent
  ELSE LET e == dir[Min(SlotsOf(n))]
       IN  [i \in 1 .. e.size |-> ByteAt(e.start, i)]

Store == INSTANCE FileStore WITH
           contents <- [n \in Names |-> Contents(n)],
           writing <- call

\* The calls implement files that are sequences of bytes: at every moment the
\* disk holds the new bytes, the old ones or, in the file that is being
\* written, a mixture, and a read sees what was written last.
ImplementsFileStore == Store!Spec
=============================================================================
