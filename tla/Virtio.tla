------------------------------- MODULE Virtio -------------------------------
(***************************************************************************)
(* The driver of the block device (virtio.c), the ring that it shares with *)
(* the device, the device, and the boot sequence of file_init that runs on *)
(* it: find the device, set it up, read the partition table (mbr.c) and    *)
(* mount the first Linux partition (fat32_init).                           *)
(*                                                                         *)
(* Driver and device interleave store by store where the order matters:    *)
(* descriptors, slot of the ring, index, notification.  Stores reach the   *)
(* device in the order of the program.                                     *)
(***************************************************************************)
EXTENDS Integers, FiniteSets, FiniteSetsExt, Sequences

CONSTANTS
  Slots,           \* numbers of the places where a device may be
  SectorIds,       \* sectors of the disk
  Values,          \* contents that the file system writes to sectors
  Layouts,         \* what the disk may hold when the machine is switched on
  UserSectors,     \* sectors of directories and files
  FailingSectors,  \* sectors whose requests the device may fail
  QueueSize,       \* VIRTIO_QUEUE_SIZE
  IdxMod,          \* 2^16, the range of the indexes of the rings
  MaxResets        \* bound of the model on resets

ASSUME VirtioAssumption ==
  /\ Slots \subseteq Nat \ {0} /\ SectorIds \subseteq Nat /\ 0 \in SectorIds
  /\ UserSectors \subseteq SectorIds /\ FailingSectors \subseteq UserSectors
  /\ {QueueSize, IdxMod} \subseteq Nat /\ QueueSize > 2 /\ IdxMod % QueueSize = 0 /\ IdxMod > QueueSize
  /\ MaxResets \in Nat

VARIABLES
  ids,        \* ids[s]: kind of the device in place s
  base,       \* virtio_base, 0 if there is no block device
  phase,      \* how far file_init is
  pc,         \* the driver's next step
  op,         \* the call that is running: type, sector, buffer
  oldIdx,     \* old_idx of the running call
  desc,       \* virtio_blk_ring.desc
  avail,      \* virtio_blk_ring.avail: the ring and its index
  usedIdx,    \* virtio_blk_ring.used->idx
  req,        \* virtio_blk_req
  blkStatus,  \* virtio_blk_status
  mem,        \* the buffers that calls pass
  volume,     \* fat32_volume
  regs,       \* the device's registers
  kick,       \* the device was notified and has not gone to sleep since
  seen,       \* the device's index into the ring of offered chains
  chain,      \* the chain that the device works on
  disk,       \* the sectors
  reply,      \* the request that just returned
  resets      \* number of resets

driver == <<base, phase, pc, op, oldIdx, volume>>
device == <<regs, kick, seen, chain>>
vars == <<ids, driver, desc, avail, usedIdx, req, blkStatus, mem, device, disk, reply, resets>>

Nothing == << >>
Buffers == {"stack", "bpb", "table"}
Junk == [kind |-> "junk"]
Descs == 0 .. QueueSize - 1
Indexes == 0 .. IdxMod - 1
NoDesc == [buf |-> "none", flags |-> {}, next |-> 0]
NoReq == [type |-> "in", sector |-> 0, data |-> Junk]
Unmounted == [fat |-> 0, data |-> 0, spc |-> 0]
OffRegs == [status |-> {}, features |-> {}, ready |-> FALSE]
Phases == {"seek", "driver", "features", "queue", "probe", "mbr", "bpb", "fat", "up", "lost"}

TypeOK ==
  /\ base \in Slots \cup {0} /\ phase \in Phases
  /\ pc \in {"idle", "fill", "slot", "index", "notify", "poll"}
  /\ op \in [type : {"in", "out"}, sector : SectorIds, buf : Buffers]
  /\ oldIdx \in Indexes /\ usedIdx \in Indexes /\ seen \in Indexes
  /\ desc \in [Descs -> [buf : Buffers \cup {"none", "req", "status"},
                         flags : SUBSET {"next", "write"}, next : Descs]]
  /\ avail.idx \in Indexes /\ avail.ring \in [Descs -> Descs]
  /\ req.type \in {"in", "out"} /\ req.sector \in SectorIds
  /\ blkStatus \in {"ok", "ioerr", "none"} /\ DOMAIN mem = Buffers
  /\ regs.status \subseteq {"ack", "driver", "features_ok", "driver_ok"}
  /\ kick \in BOOLEAN /\ regs.ready \in BOOLEAN /\ resets \in 0 .. MaxResets
  /\ DOMAIN disk = SectorIds

-----------------------------------------------------------------------------
(***************************************************************************)
(* Switching on, and the way to a device that is ready.                    *)
(***************************************************************************)

Start0 == [type |-> "in", sector |-> 0, buf |-> "stack"]
NoDescs == [d \in Descs |-> NoDesc]
NoAvail == [idx |-> 0, ring |-> [d \in Descs |-> 0]]
NoData == [b \in Buffers |-> Junk]

Init ==
  /\ ids \in [Slots -> {"blk", "other"}] /\ disk \in Layouts
  /\ base = 0 /\ phase = "seek" /\ pc = "idle" /\ op = Start0 /\ oldIdx = 0
  /\ desc = NoDescs /\ avail = NoAvail /\ usedIdx = 0
  /\ req = NoReq /\ blkStatus = "none" /\ mem = NoData /\ volume = Unmounted
  /\ regs = OffRegs /\ kick = FALSE /\ seen = 0 /\ chain = Nothing
  /\ reply = Nothing /\ resets = 0

\* The machine is switched off and on: memory and registers are cleared, the
\* disk keeps its sectors.
Reset ==
  /\ resets < MaxResets /\ resets' = resets + 1
  /\ base' = 0 /\ phase' = "seek" /\ pc' = "idle" /\ op' = Start0 /\ oldIdx' = 0
  /\ desc' = NoDescs /\ avail' = NoAvail /\ usedIdx' = 0
  /\ req' = NoReq /\ blkStatus' = "none" /\ mem' = NoData /\ volume' = Unmounted
  /\ regs' = OffRegs /\ kick' = FALSE /\ seen' = 0 /\ chain' = Nothing
  /\ reply' = Nothing
  /\ UNCHANGED <<ids, disk>>

BlkSlots == {s \in Slots : ids[s] = "blk"}

\* virtio_seek_device: without a device the driver would write to address 0.
Seek ==
  /\ phase = "seek"
  /\ base' = IF BlkSlots = {} THEN 0 ELSE Min(BlkSlots)
  /\ phase' = IF BlkSlots = {} THEN "lost" ELSE "driver"
  /\ reply' = Nothing
  /\ UNCHANGED <<ids, pc, op, oldIdx, volume, desc, avail, usedIdx, req, blkStatus, mem, device, disk, resets>>

\* virtio_blk_driver_init and virtio_blk_feature_init
Handshake(from, to, bits, features) ==
  /\ phase = from
  /\ phase' = to
  /\ regs' = [regs EXCEPT !.status = @ \cup bits, !.features = @ \cup features]
  /\ reply' = Nothing
  /\ UNCHANGED <<ids, base, pc, op, oldIdx, volume, desc, avail, usedIdx, req, blkStatus, mem,
                 kick, seen, chain, disk, resets>>

DriverInit == Handshake("driver", "features", {"ack", "driver"}, {})
FeatureInit == Handshake("features", "queue", {"features_ok"}, {"flush", "indirect", "event_idx"})

\* virtio_blk_queue_init
QueueInit ==
  /\ phase = "queue"
  /\ phase' = "probe"
  /\ desc' = [d \in Descs |-> [desc[d] EXCEPT !.next = (d + 1) % QueueSize]]
  /\ regs' = [regs EXCEPT !.ready = TRUE]
  /\ reply' = Nothing
  /\ UNCHANGED <<ids, base, pc, op, oldIdx, volume, avail, usedIdx, req, blkStatus, mem,
                 kick, seen, chain, disk, resets>>
-----------------------------------------------------------------------------
(***************************************************************************)
(* The driver.                                                             *)
(***************************************************************************)

\* (Fault for a mutant: the data are not copied.)
Prepared_NoCopy(o, buffers) == req
Prepared(o, buffers) == IF o.type = "out" THEN [req EXCEPT !.data = buffers[o.buf]] ELSE req

\* virtio_blk_write_sector copies the data first; both remember used->idx.
StartWith(o, buffers) ==
  /\ pc = "idle"
  /\ mem' = buffers
  /\ op' = o
  /\ req' = Prepared(o, buffers)
  /\ oldIdx' = usedIdx
  /\ pc' = "fill"
  /\ reply' = Nothing
  /\ UNCHANGED <<ids, base, phase, volume, desc, avail, usedIdx, blkStatus, device, disk, resets>>

Start(o) == StartWith(o, mem)

\* The calls of the boot sequence.
BootCall ==
  \/ phase \in {"probe", "mbr"} /\ Start([type |-> "in", sector |-> 0, buf |-> "stack"])
  \/ phase = "bpb" /\ Start([type |-> "in", sector |-> volume.fat, buf |-> "bpb"])
  \/ phase = "fat" /\ Start([type |-> "in", sector |-> volume.fat, buf |-> "table"])

\* The file system reads and writes sectors; without a volume it finds no
\* sector to read, as a cluster has none.
Mounted == phase = "up" /\ volume.spc > 0
UserRead(s) == Mounted /\ Start([type |-> "in", sector |-> s, buf |-> "stack"])
UserWrite(s) == Mounted /\ Start([type |-> "out", sector |-> s, buf |-> "stack"])

\* allocate_fat32_cluster changes fat32_table and writes it back.
TableWrite(v) ==
  Mounted /\ StartWith([type |-> "out", sector |-> volume.fat, buf |-> "table"],
                       [mem EXCEPT !["table"] = v])

\* Between two calls the kernel puts other contents into its buffer.
Change(v) ==
  /\ Mounted /\ pc = "idle"
  /\ mem' = [mem EXCEPT !["stack"] = v]
  /\ reply' = Nothing
  /\ UNCHANGED <<ids, driver, desc, avail, usedIdx, req, blkStatus, device, disk, resets>>

Header == [buf |-> "req", flags |-> {"next"}, next |-> 1]
StatusDesc(d) == [buf |-> "status", flags |-> {"write"}, next |-> desc[d].next]

\* (Fault for a mutant: the chain of a read has no status byte.)
Chained_NoStatus(o) ==
  [desc EXCEPT ![0] = Header, ![1] = [buf |-> o.buf, flags |-> {"write"}, next |-> 2]]
\* The descriptors of virtio_blk_cmd: header, buffer and status byte, of a
\* write the header with its data and the status byte.
Chained(o) ==
  IF o.type = "in"
  THEN [desc EXCEPT ![0] = Header, ![1] = [buf |-> o.buf, flags |-> {"next", "write"}, next |-> 2],
                    ![2] = StatusDesc(2)]
  ELSE [desc EXCEPT ![0] = Header, ![1] = StatusDesc(1)]

Fill ==
  /\ pc = "fill"
  /\ req' = [req EXCEPT !.type = op.type, !.sector = op.sector]
  /\ desc' = Chained(op)
  /\ regs' = [regs EXCEPT !.status = @ \cup {"driver_ok"}]
  /\ pc' = "slot"
  /\ reply' = Nothing
  /\ UNCHANGED <<ids, base, phase, op, oldIdx, volume, avail, usedIdx, blkStatus, mem,
                 kick, seen, chain, disk, resets>>

\* A store to the ring, and the driver goes on.
Offer(from, to, new) ==
  /\ pc = from
  /\ avail' = new
  /\ pc' = to
  /\ reply' = Nothing
  /\ UNCHANGED <<ids, base, phase, op, oldIdx, volume, desc, usedIdx, req, blkStatus, mem, device, disk, resets>>

OfferSlot == Offer("slot", "index", [avail EXCEPT !.ring[avail.idx % QueueSize] = 0])

OfferIndex == Offer("index", "notify", [avail EXCEPT !.idx = (@ + 1) % IdxMod])

NotifyWith(old) ==
  /\ pc = "notify"
  /\ kick' = TRUE
  /\ oldIdx' = old
  /\ pc' = "poll"
  /\ reply' = Nothing
  /\ UNCHANGED <<ids, base, phase, op, volume, desc, avail, usedIdx, req, blkStatus, mem,
                 regs, seen, chain, disk, resets>>

\* (Fault for a mutant: used->idx is remembered after the notification.)
Notify_Late == NotifyWith(usedIdx)
Notify == NotifyWith(oldIdx)

-----------------------------------------------------------------------------
(***************************************************************************)
(* What the boot sequence makes of the sectors it reads.                   *)
(***************************************************************************)
Partitions == 1 .. 2
Linux(parts) == {i \in Partitions : parts[i].type = "linux"}
NoPartition == [i \in Partitions |-> [type |-> "other", lba |-> 0]]

\* The disks that the machine is run with: partitions and their tables lie on
\* the disk and apart from directories and files, and what is written as a file
\* does not pass for the first sector of a volume.
ASSUME LayoutsAssumption ==
  /\ 0 \notin UserSectors
  /\ \A v \in Values : v.kind # "bpb"
  /\ \A d \in Layouts :
       /\ d = [s \in SectorIds |-> d[s]]
       /\ \A s \in UserSectors \cup {0} : d[s].kind # "bpb"
       /\ \A s \in SectorIds : d[s].kind = "bpb" =>
            d[s].rsvd \in Nat \ {0} /\ s + d[s].rsvd \in SectorIds \ UserSectors
       /\ d[0].kind = "mbr" =>
            \A i \in Linux(d[0].parts) : d[0].parts[i].lba \in SectorIds \ UserSectors

\* mbr_read: without a signature the table of the caller stays as the stack
\* left it, with any sector in it.
PartitionTables(sector) ==
  IF sector.kind = "mbr" /\ sector.sig THEN {sector.parts}
  ELSE {NoPartition} \cup {[NoPartition EXCEPT ![1] = [type |-> "linux", lba |-> s]] : s \in SectorIds}

\* (Fault for a mutant: the last Linux partition counts.)
Mounting_Last(parts) ==
  IF Linux(parts) = {} THEN [phase |-> "up", volume |-> Unmounted]
  ELSE [phase |-> "bpb", volume |-> [Unmounted EXCEPT !.fat = parts[Max(Linux(parts))].lba]]
\* fat32_init: the first Linux partition; its first sector is read next.
Mounting(parts) ==
  IF Linux(parts) = {} THEN [phase |-> "up", volume |-> Unmounted]
  ELSE [phase |-> "bpb", volume |-> [Unmounted EXCEPT !.fat = parts[Min(Linux(parts))].lba]]

\* fat32_init_sector: where the table and the data begin, unless a signature
\* is wrong.
Geometry(lba, b) ==
  IF b.kind = "bpb" /\ b.sig /\ b.fat32
  THEN [phase |-> "fat",
        volume |-> [fat |-> lba + b.rsvd, data |-> lba + b.rsvd + b.fats * b.size, spc |-> b.spc]]
  ELSE [phase |-> "up", volume |-> Unmounted]

\* What follows the call that returns.
Continuations ==
  CASE phase = "probe" -> {[phase |-> "mbr", volume |-> volume]}
    [] phase = "mbr" -> {Mounting(parts) : parts \in PartitionTables(mem["stack"])}
    [] phase = "bpb" -> {Geometry(volume.fat, mem["bpb"])}
    [] OTHER -> {[phase |-> "up", volume |-> volume]}

\* (Fault for a mutant: the condition of the loop is inverted.)
Waited_Inverted == usedIdx = oldIdx
Waited == usedIdx # oldIdx

\* The end of the loop that waits; a status other than ok is only printed.
Return ==
  /\ pc = "poll" /\ Waited
  /\ pc' = "idle" /\ op' = Start0 /\ oldIdx' = 0
  /\ \E c \in Continuations : phase' = c.phase /\ volume' = c.volume
  /\ reply' = [type |-> op.type, sector |-> op.sector,
               state |-> IF blkStatus = "ok" THEN "done" ELSE "failed",
               data |-> mem[op.buf]]
  /\ UNCHANGED <<ids, base, desc, avail, usedIdx, req, blkStatus, mem, device, disk, resets>>
-----------------------------------------------------------------------------
(***************************************************************************)
(* The device, as the driver relies on it.                                 *)
(***************************************************************************)
Nth(head, k) ==
  LET f[i \in 1 .. k] == IF i = 1 THEN head ELSE desc[f[i - 1]].next
  IN  f[k]

\* The buffers of the chain that begins at head.
ChainFrom(head) ==
  LET ends == {k \in 1 .. QueueSize : "next" \notin desc[Nth(head, k)].flags}
  IN  [k \in 1 .. IF ends = {} THEN 0 ELSE Min(ends) |-> desc[Nth(head, k)].buf]

Fetch ==
  /\ regs.ready /\ "driver_ok" \in regs.status /\ kick
  /\ chain = Nothing /\ seen # avail.idx
  /\ chain' = [bufs |-> ChainFrom(avail.ring[seen % QueueSize]), type |-> req.type,
               sector |-> req.sector, state |-> "asked"]
  /\ reply' = Nothing
  /\ UNCHANGED <<ids, driver, desc, avail, usedIdx, req, blkStatus, mem, regs, kick, seen, disk, resets>>

HasStatus == chain.bufs # << >> /\ chain.bufs[Len(chain.bufs)] = "status"

\* The data move, or the request fails.
Transfer ==
  /\ chain # Nothing /\ chain.state = "asked"
  /\ \/ /\ chain.type = "in"
        /\ mem' = [mem EXCEPT ![chain.bufs[2]] = disk[chain.sector]]
        /\ chain' = [chain EXCEPT !.state = "done"]
        /\ UNCHANGED disk
     \/ /\ chain.type = "out"
        /\ disk' = [disk EXCEPT ![chain.sector] = req.data]
        /\ chain' = [chain EXCEPT !.state = "done"]
        /\ UNCHANGED mem
     \/ /\ chain.sector \in FailingSectors
        /\ chain' = [chain EXCEPT !.state = "failed"]
        /\ UNCHANGED <<disk, mem>>
  /\ reply' = Nothing
  /\ UNCHANGED <<ids, driver, desc, avail, usedIdx, req, blkStatus, regs, kick, seen, resets>>

\* The status byte, and then the chain becomes used.
Complete ==
  /\ chain # Nothing /\ chain.state # "asked"
  /\ blkStatus' = IF ~HasStatus THEN blkStatus ELSE IF chain.state = "done" THEN "ok" ELSE "ioerr"
  /\ usedIdx' = (usedIdx + 1) % IdxMod
  /\ seen' = (seen + 1) % IdxMod
  /\ chain' = Nothing
  /\ reply' = Nothing
  /\ UNCHANGED <<ids, driver, desc, avail, req, mem, regs, kick, disk, resets>>

\* The device has used every chain and waits for the next notification.
Sleep ==
  /\ kick /\ chain = Nothing /\ seen = avail.idx
  /\ kick' = FALSE
  /\ reply' = Nothing
  /\ UNCHANGED <<ids, driver, desc, avail, usedIdx, req, blkStatus, mem, regs, seen, chain, disk, resets>>

Boot == Seek \/ DriverInit \/ FeatureInit \/ QueueInit \/ BootCall
Call == Fill \/ OfferSlot \/ OfferIndex \/ Notify \/ Return
Device == Fetch \/ Transfer \/ Complete
User ==
  \/ \E s \in UserSectors : UserRead(s) \/ UserWrite(s)
  \/ \E v \in Values : Change(v) \/ TableWrite(v)

Next == Boot \/ Call \/ Device \/ Sleep \/ User \/ Reset

\* The kernel goes on with what it began, and so does the device.
Spec == Init /\ [][Next]_vars /\ WF_vars(Boot) /\ WF_vars(Call) /\ WF_vars(Device)
-----------------------------------------------------------------------------
(***************************************************************************)
(* Properties.                                                             *)
(***************************************************************************)

\* When no call is running the device holds no chain and has used every chain
\* that was offered: it never writes into a buffer of the stack after
\* virtio_blk_read_sector has returned.
NoStrayTransfer == pc = "idle" => chain = Nothing /\ seen = avail.idx /\ usedIdx = avail.idx

\* The chain that the device fetches is that of the running call, with the
\* caller's buffer and the status byte, though it may look at the ring
\* between any two stores of virtio_blk_cmd.
ChainOfTheCall ==
  chain # Nothing =>
    /\ chain.type = op.type /\ chain.sector = op.sector
    /\ chain.bufs = IF op.type = "in" THEN <<"req", op.buf, "status">> ELSE <<"req", "status">>

ValidMbr == disk[0].kind = "mbr" /\ disk[0].sig
RootOf(lba) == Geometry(lba, disk[lba]).volume

\* On a disk with a partition table the volume is that of the first Linux
\* partition, if it is a FAT32 volume, and fat32_table is the table on the
\* disk unless it is being written back; otherwise no volume is mounted.
MountFaithful ==
  phase = "up" /\ ValidMbr =>
    LET lbas == {disk[0].parts[i].lba : i \in {j \in Linux(disk[0].parts) :
                    \A k \in Linux(disk[0].parts) : j <= k}}
    IN  /\ lbas = {} => volume = Unmounted
        /\ \A lba \in lbas : volume = RootOf(lba)
        /\ volume # Unmounted /\ op.buf # "table" => mem["table"] = disk[volume.fat]

\* A request is answered, unless the machine is reset.
Answered == pc # "idle" ~> pc = "idle"

Performed == chain # Nothing /\ chain.state # "asked"

State ==
  IF Performed THEN chain.state
  ELSE IF usedIdx = oldIdx THEN "asked"
  ELSE IF blkStatus = "ok" THEN "done" ELSE "failed"

DiskOf == INSTANCE Disk WITH
            request <- IF pc = "idle" THEN {}
                       ELSE {[type |-> op.type, sector |-> op.sector, state |-> State,
                              data |-> mem[op.buf]]}

\* The driver, the ring and the device implement a disk that performs each
\* request once between call and return.
ImplementsDisk == DiskOf!Spec
=============================================================================
