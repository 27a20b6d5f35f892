---------------------------- MODULE VirtioProofs ----------------------------
(***************************************************************************)
(* What Virtio guarantees for every size of the ring and every disk: the   *)
(* device works on the chain of the running call and on nothing else, the  *)
(* driver implements the abstract disk, and the volume that is mounted is  *)
(* the one that the partition table names.                                 *)
(***************************************************************************)
EXTENDS Virtio, FiniteSetTheorems, WellFoundedInduction, TLAPS

(***************************************************************************)
(* The handing over of a request: an invariant of driver and device.       *)
(***************************************************************************)
Filled == pc \in {"slot", "index", "notify", "poll"}
Offered == pc \in {"notify", "poll"}
Successor(i) == (i + 1) % IdxMod

\* The buffers of the chain of a call.
ChainOf(o) ==
  IF o.type = "in" THEN <<"req", o.buf, "status">> ELSE <<"req", "status">>

Wires ==
  /\ pc \in {"idle", "fill", "slot", "index", "notify", "poll"}
  /\ op.type \in {"in", "out"} /\ op.buf \in Buffers
  /\ oldIdx \in Indexes /\ usedIdx \in Indexes
  /\ avail \in [idx : Indexes, ring : [Descs -> {0}]]
  /\ desc \in [Descs -> [buf : Buffers \cup {"none", "req", "status"},
                         flags : SUBSET {"next", "write"}, next : Descs]]
  /\ req = [type |-> req.type, sector |-> req.sector, data |-> req.data]
  /\ mem = [b \in Buffers |-> mem[b]]

\* Until the index is stored the device has nothing to do; from then on it has
\* one chain, until it has used it.
Indices ==
  /\ seen = usedIdx
  /\ ~Offered => chain = Nothing /\ usedIdx = avail.idx
  /\ pc \in {"fill", "slot", "index"} => oldIdx = usedIdx
  /\ Offered => /\ avail.idx = Successor(oldIdx)
                /\ usedIdx \in {oldIdx, avail.idx}
                /\ usedIdx = avail.idx => chain = Nothing

\* What the device will find when it looks.
Ring ==
  Filled =>
    /\ req.type = op.type /\ req.sector = op.sector
    /\ desc[0] = Header /\ desc[1].buf = ChainOf(op)[2]
    /\ op.type = "in" => /\ desc[1].flags = {"next", "write"} /\ desc[1].next = 2
                         /\ desc[2].buf = "status" /\ desc[2].flags = {"write"}
    /\ op.type = "out" => desc[1].flags = {"write"}

Fetched ==
  chain # Nothing =>
    \E state \in {"asked", "done", "failed"} :
      chain = [bufs |-> ChainOf(op), type |-> op.type, sector |-> op.sector, state |-> state]

\* No call runs before the device is ready.
Ready == phase \in {"seek", "driver", "features", "queue", "lost"} => pc = "idle"

Protocol == Wires /\ Indices /\ Ring /\ Fetched /\ Ready

-----------------------------------------------------------------------------
LEMMA SuccessorIsNext ==
  ASSUME NEW i \in Indexes
  PROVE  Successor(i) \in Indexes /\ Successor(i) # i
<1> USE VirtioAssumption DEF Indexes, Successor
<1>1. IdxMod \in Nat /\ IdxMod > 3
  OBVIOUS
<1>2. CASE i + 1 = IdxMod
  BY <1>1, <1>2
<1>3. CASE i + 1 < IdxMod
  BY <1>1, <1>3
<1> QED BY <1>1, <1>2, <1>3

\* The chain behind the header, for as far as it is followed.
LEMMA FirstLinks ==
  /\ Nth(0, 1) = 0
  /\ Nth(0, 2) = desc[0].next
  /\ Nth(0, 3) = desc[desc[0].next].next
<1>1. Nth(0, 1) = 0
  <2> DEFINE g == [i \in 1 .. 1 |-> 0]
  <2>1. g = [i \in 1 .. 1 |-> IF i = 1 THEN 0 ELSE desc[g[i - 1]].next]
    OBVIOUS
  <2> HIDE DEF g
  <2> QED BY <2>1 DEF Nth
<1>2. Nth(0, 2) = desc[0].next
  <2> DEFINE g == [i \in 1 .. 2 |-> IF i = 1 THEN 0 ELSE desc[0].next]
  <2>1. g = [i \in 1 .. 2 |-> IF i = 1 THEN 0 ELSE desc[g[i - 1]].next]
    OBVIOUS
  <2> HIDE DEF g
  <2> QED BY <2>1 DEF Nth
<1>3. Nth(0, 3) = desc[desc[0].next].next
  <2> DEFINE g == [i \in 1 .. 3 |-> IF i = 1 THEN 0 ELSE IF i = 2 THEN desc[0].next ELSE desc[desc[0].next].next]
  <2>1. g = [i \in 1 .. 3 |-> IF i = 1 THEN 0 ELSE desc[g[i - 1]].next]
    OBVIOUS
  <2> HIDE DEF g
  <2> QED BY <2>1 DEF Nth
<1> QED BY <1>1, <1>2, <1>3

\* The first of the Linux partitions.
LEMMA FirstPartition ==
  ASSUME NEW parts, Linux(parts) # {}
  PROVE  /\ Min(Linux(parts)) \in Linux(parts)
         /\ \A i \in Linux(parts) : Min(Linux(parts)) <= i
<1>1. Linux(parts) \in SUBSET (0 .. 2)
  BY DEF Linux, Partitions
<1>2. \E x \in Linux(parts) : \A y \in Linux(parts) : x <= y
  BY <1>1
<1> QED BY <1>2 DEF Min

\* What the device reads behind the index is the chain of the call.
LEMMA ChainIsOfCall ==
  ASSUME Wires, Ring, Filled
  PROVE  ChainFrom(0) = ChainOf(op)
<1> DEFINE ends == {k \in 1 .. QueueSize : "next" \notin desc[Nth(0, k)].flags}
           last == IF op.type = "in" THEN 3 ELSE 2
<1>1. QueueSize \in Nat /\ QueueSize > 2
  BY VirtioAssumption
<1>2. /\ desc[0] = Header /\ desc[1].buf = ChainOf(op)[2]
      /\ op.type = "in" => /\ desc[1].flags = {"next", "write"} /\ desc[1].next = 2
                           /\ desc[2].buf = "status" /\ desc[2].flags = {"write"}
      /\ op.type = "out" => desc[1].flags = {"write"}
      /\ op.type \in {"in", "out"}
  BY DEF Ring, Wires
<1>3. Nth(0, 1) = 0 /\ Nth(0, 2) = 1 /\ (op.type = "in" => Nth(0, 3) = 2)
  BY <1>2, FirstLinks DEF Header
<1>4. last \in ends
  BY <1>1, <1>2, <1>3 DEF Header
<1>5. \A k \in ends : last <= k
  <2>1. 1 \notin ends
    BY <1>2, <1>3 DEF Header
  <2>2. op.type = "in" => 2 \notin ends
    BY <1>2, <1>3
  <2> QED BY <1>1, <1>2, <2>1, <2>2
<1>6. Min(ends) = last
  <2> HIDE DEF ends
  <2>1. \A k \in ends : k \in Nat
    BY DEF ends
  <2> QED BY <1>4, <1>5, <2>1 DEF Min
<1>7. ChainFrom(0) = [k \in 1 .. last |-> desc[Nth(0, k)].buf]
  BY <1>4, <1>6 DEF ChainFrom
<1>8. CASE op.type = "in"
  <2>1. ChainFrom(0) = [k \in 1 .. 3 |-> desc[Nth(0, k)].buf]
    BY <1>7, <1>8
  <2>2. ChainOf(op) = <<"req", op.buf, "status">>
    BY <1>8 DEF ChainOf
  <2>3. desc[Nth(0, 1)].buf = "req" /\ desc[Nth(0, 2)].buf = op.buf /\ desc[Nth(0, 3)].buf = "status"
    BY <1>2, <1>3, <1>8, <2>2 DEF Header
  <2> QED BY <2>1, <2>2, <2>3
<1>9. CASE op.type = "out"
  <2>1. ChainFrom(0) = [k \in 1 .. 2 |-> desc[Nth(0, k)].buf]
    BY <1>7, <1>9
  <2>2. ChainOf(op) = <<"req", "status">>
    BY <1>9 DEF ChainOf
  <2>3. desc[Nth(0, 1)].buf = "req" /\ desc[Nth(0, 2)].buf = "status"
    BY <1>2, <1>3, <1>9, <2>2 DEF Header
  <2> QED BY <2>1, <2>2, <2>3
<1> QED BY <1>2, <1>8, <1>9

LEMMA InitProtocol == Init => Protocol
<1> SUFFICES ASSUME Init PROVE Protocol
  OBVIOUS
<1> USE VirtioAssumption DEF Init
<1>1. 0 \in Indexes /\ 0 \in Descs
  BY DEF Indexes, Descs
<1>2. Wires
  BY <1>1 DEF Wires, Start0, NoDescs, NoDesc, NoAvail, NoReq, NoData, Buffers
<1> QED BY <1>2 DEF Protocol, Indices, Ring, Fetched, Ready, Offered, Filled, NoAvail

\* What a call needs to begin with, and what it leaves of the invariant.
LEMMA StartProtocol ==
  ASSUME Protocol, NEW o, o.type \in {"in", "out"}, o.buf \in Buffers, NEW b, b = [x \in Buffers |-> b[x]], StartWith(o, b),
         phase \notin {"seek", "driver", "features", "queue", "lost"}
  PROVE  Protocol'
<1> USE DEF StartWith, driver, device
<1>1. pc = "idle" /\ pc' = "fill" /\ oldIdx' = usedIdx /\ op' = o /\ usedIdx = avail.idx
  BY DEF Protocol, Indices, Offered
<1>2. Wires'
  <2>1. CASE o.type = "out"
    BY <1>1, <2>1 DEF Protocol, Wires, Prepared
  <2>2. CASE o.type = "in"
    BY <1>1, <2>2 DEF Protocol, Wires, Prepared
  <2> QED BY <2>1, <2>2
<1>3. Indices'
  BY <1>1 DEF Protocol, Indices, Offered
<1>4. Ring' /\ Fetched'
  BY <1>1 DEF Protocol, Indices, Ring, Fetched, Filled, Offered
<1> QED BY <1>2, <1>3, <1>4 DEF Protocol, Ready

LEMMA FillProtocol == ASSUME Protocol, Fill PROVE Protocol'
<1> USE DEF Fill
<1>1. QueueSize \in Nat /\ QueueSize > 2 /\ {0, 1, 2} \subseteq Descs
  BY VirtioAssumption DEF Descs
<1>2. /\ desc \in [Descs -> [buf : Buffers \cup {"none", "req", "status"},
                             flags : SUBSET {"next", "write"}, next : Descs]]
      /\ op.type \in {"in", "out"} /\ op.buf \in Buffers
      /\ req = [type |-> req.type, sector |-> req.sector, data |-> req.data]
  BY DEF Protocol, Wires
<1>3. /\ desc' \in [Descs -> [buf : Buffers \cup {"none", "req", "status"},
                              flags : SUBSET {"next", "write"}, next : Descs]]
      /\ desc'[0] = Header
      /\ op.type = "in" => /\ desc'[1] = [buf |-> op.buf, flags |-> {"next", "write"}, next |-> 2]
                           /\ desc'[2] = StatusDesc(2)
      /\ op.type = "out" => desc'[1] = StatusDesc(1)
  <2>1. /\ StatusDesc(1) \in [buf : Buffers \cup {"none", "req", "status"}, flags : SUBSET {"next", "write"}, next : Descs]
        /\ StatusDesc(2) \in [buf : Buffers \cup {"none", "req", "status"}, flags : SUBSET {"next", "write"}, next : Descs]
        /\ Header \in [buf : Buffers \cup {"none", "req", "status"}, flags : SUBSET {"next", "write"}, next : Descs]
    BY <1>1, <1>2 DEF StatusDesc, Header
  <2> HIDE DEF Header, StatusDesc
  <2>2. CASE op.type = "in"
    <3> DEFINE D == [buf : Buffers \cup {"none", "req", "status"}, flags : SUBSET {"next", "write"}, next : Descs]
               mid == [buf |-> op.buf, flags |-> {"next", "write"}, next |-> 2]
    <3>1. mid \in D
      BY <1>1, <1>2
    <3>2. desc' = [desc EXCEPT ![0] = Header, ![1] = mid, ![2] = StatusDesc(2)]
      BY <2>2 DEF Chained
    <3>3. desc \in [Descs -> D] /\ Header \in D /\ StatusDesc(2) \in D
      BY <1>2, <2>1
    <3> HIDE DEF D, mid
    <3>4. desc' \in [Descs -> D] /\ desc'[0] = Header /\ desc'[1] = mid /\ desc'[2] = StatusDesc(2)
      BY <1>1, <3>1, <3>2, <3>3
    <3> QED BY <2>2, <3>4 DEF D, mid
  <2>3. CASE op.type = "out"
    BY <1>1, <1>2, <2>1, <2>3 DEF Chained
  <2> QED BY <1>2, <2>2, <2>3
<1>4. Wires'
  BY <1>2, <1>3 DEF Protocol, Wires
<1>5. Ring'
  BY <1>2, <1>3 DEF Ring, ChainOf, StatusDesc
<1> QED BY <1>4, <1>5 DEF Protocol, Ready, Indices, Fetched, Offered

LEMMA OfferIndexProtocol == ASSUME Protocol, OfferIndex PROVE Protocol'
<1> USE DEF OfferIndex, Offer, driver, device
<1>1. /\ pc = "index" /\ pc' = "notify" /\ oldIdx = usedIdx /\ usedIdx = avail.idx /\ seen = usedIdx
      /\ chain = Nothing /\ usedIdx \in Indexes /\ avail \in [idx : Indexes, ring : [Descs -> {0}]]
  BY DEF Protocol, Indices, Offered, Wires
<1>2. avail'.idx = Successor(avail.idx) /\ avail'.ring = avail.ring
      /\ avail' = [idx |-> avail'.idx, ring |-> avail'.ring]
  BY <1>1 DEF Successor
<1>3. avail' \in [idx : Indexes, ring : [Descs -> {0}]]
  BY <1>1, <1>2, SuccessorIsNext
<1>4. Wires'
  BY <1>3 DEF Protocol, Wires
<1>5. Indices'
  BY <1>1, <1>2, SuccessorIsNext DEF Indices, Offered
<1> QED BY <1>1, <1>4, <1>5 DEF Protocol, Ready, Ring, Fetched, Filled

LEMMA FetchProtocol == ASSUME Protocol, Fetch PROVE Protocol'
<1> USE DEF Fetch, driver
<1>1. /\ seen \in Indexes /\ seen # avail.idx /\ usedIdx = seen
      /\ avail \in [idx : Indexes, ring : [Descs -> {0}]]
  BY DEF Protocol, Wires, Indices
<1>2. Offered /\ Filled /\ usedIdx = oldIdx
  BY <1>1 DEF Protocol, Indices, Offered, Filled
<1>3. seen % QueueSize \in Descs
  BY <1>1, VirtioAssumption DEF Indexes, Descs
<1>4. avail.ring[seen % QueueSize] = 0
  BY <1>1, <1>3
<1>5. chain' = [bufs |-> ChainOf(op), type |-> op.type, sector |-> op.sector, state |-> "asked"]
  BY <1>2, <1>4, ChainIsOfCall DEF Protocol, Ring
<1>6. Wires' /\ Ring'
  BY DEF Protocol, Wires, Ring, Filled, ChainOf
<1>7. Fetched'
  BY <1>5 DEF Fetched, ChainOf
<1>8. Indices'
  BY <1>1, <1>2 DEF Protocol, Indices, Offered, Successor
<1> QED BY <1>6, <1>7, <1>8 DEF Protocol, Ready

\* A record is not the empty sequence.
LEMMA ChainIsSomething ==
  ASSUME NEW b, NEW t, NEW s, NEW st
  PROVE  [bufs |-> b, type |-> t, sector |-> s, state |-> st] # Nothing
BY DEF Nothing
LEMMA TransferProtocol == ASSUME Protocol, Transfer PROVE Protocol'
<1> USE DEF Transfer, driver
<1>1. PICK state \in {"asked", "done", "failed"} :
        chain = [bufs |-> ChainOf(op), type |-> op.type, sector |-> op.sector, state |-> state]
  BY DEF Protocol, Fetched
<1>2. PICK state1 \in {"done", "failed"} : chain' = [chain EXCEPT !.state = state1]
  OBVIOUS
<1>3. chain' = [bufs |-> ChainOf(op), type |-> op.type, sector |-> op.sector, state |-> state1]
  BY <1>1, <1>2
<1>4. mem' = [b \in Buffers |-> mem'[b]]
  <2>1. CASE UNCHANGED mem
    BY <2>1 DEF Protocol, Wires
  <2>2. CASE mem' = [mem EXCEPT ![chain.bufs[2]] = disk[chain.sector]]
    BY <2>2 DEF Protocol, Wires
  <2> QED BY <2>1, <2>2
<1>5. Wires' /\ Ring'
  BY <1>4 DEF Protocol, Wires, Ring, Filled, ChainOf
<1>6. Fetched'
  BY <1>3 DEF Fetched, ChainOf
<1>7. Indices'
  BY DEF Protocol, Indices, Offered, Successor
<1> QED BY <1>5, <1>6, <1>7 DEF Protocol, Ready

LEMMA CompleteProtocol == ASSUME Protocol, Complete PROVE Protocol'
<1> USE DEF Complete, driver
<1>1. /\ Offered /\ usedIdx = oldIdx /\ seen = usedIdx /\ usedIdx \in Indexes
      /\ avail.idx = Successor(oldIdx) /\ usedIdx' = Successor(usedIdx) /\ seen' = usedIdx'
  BY DEF Protocol, Indices, Offered, Wires, Successor
<1>2. usedIdx' \in Indexes
  BY <1>1, SuccessorIsNext
<1>3. Wires' /\ Ring'
  BY <1>2 DEF Protocol, Wires, Ring, Filled, ChainOf
<1>4. Indices' /\ Fetched'
  BY <1>1 DEF Indices, Offered, Successor, Fetched
<1> QED BY <1>3, <1>4 DEF Protocol, Ready

\* One step per action: which store the driver has done decides what the
\* device can find, and what the device has used decides when the driver
\* returns.
LEMMA ProtocolStep == Protocol /\ [Next]_vars => Protocol'
<1> SUFFICES ASSUME Protocol, [Next]_vars PROVE Protocol'
  OBVIOUS
<1> USE DEF driver, device
<1>1. CASE /\ UNCHANGED <<pc, op, oldIdx, desc, avail, usedIdx, req, seen, chain>>
           /\ mem' = [b \in Buffers |-> mem'[b]] /\ Ready'
  BY <1>1 DEF Protocol, Wires, Indices, Ring, Fetched, Offered, Filled, ChainOf, Successor
<1>2. mem = [b \in Buffers |-> mem[b]]
  BY DEF Protocol, Wires
<1>3. CASE UNCHANGED vars \/ Seek \/ DriverInit \/ FeatureInit \/ Sleep
  BY <1>1, <1>2, <1>3 DEF vars, Seek, DriverInit, FeatureInit, Handshake, Sleep, Ready, Protocol
<1>4. ASSUME NEW v \in Values, Change(v) PROVE Protocol'
  BY <1>1, <1>2, <1>4 DEF Change, Ready, Protocol
<1>5. CASE Reset
  <2>1. Wires'
    <3>1. 0 \in Indexes /\ 0 \in Descs
      BY VirtioAssumption DEF Indexes, Descs
    <3> QED BY <1>5, <3>1 DEF Reset, Wires, Start0, NoDescs, NoDesc, NoAvail, NoReq, NoData, Buffers
  <2> QED BY <1>5, <2>1 DEF Reset, Protocol, Indices, Ring, Fetched, Ready, Offered, Filled, NoAvail
<1>6. CASE QueueInit
  <2> DEFINE D == [buf : Buffers \cup {"none", "req", "status"}, flags : SUBSET {"next", "write"}, next : Descs]
  <2>1. desc \in [Descs -> D] /\ desc' = [d \in Descs |-> [desc[d] EXCEPT !.next = (d + 1) % QueueSize]]
    BY <1>6 DEF QueueInit, Protocol, Wires
  <2>2. ASSUME NEW d \in Descs PROVE [desc[d] EXCEPT !.next = (d + 1) % QueueSize] \in D
    <3>1. (d + 1) % QueueSize \in Descs
      BY VirtioAssumption DEF Descs
    <3> QED BY <2>1, <3>1
  <2>3. desc' \in [Descs -> D]
    <3> HIDE DEF D
    <3> QED BY <2>1, <2>2
  <2>4. pc = "idle"
    BY <1>6 DEF QueueInit, Protocol, Ready
  <2> QED BY <1>6, <2>3, <2>4 DEF QueueInit, Protocol, Wires, Indices, Ring, Fetched, Ready, Offered, Filled
<1>7. CASE Fill \/ Fetch \/ Transfer \/ Complete \/ OfferIndex
  BY <1>7, FillProtocol, FetchProtocol, TransferProtocol, CompleteProtocol, OfferIndexProtocol
<1>8. CASE BootCall
  BY <1>2, <1>8, StartProtocol DEF BootCall, Start, Buffers
<1>9. ASSUME NEW s \in UserSectors, UserRead(s) \/ UserWrite(s) PROVE Protocol'
  BY <1>2, <1>9, StartProtocol DEF UserRead, UserWrite, Start, Mounted, Buffers
<1>13. ASSUME NEW v \in Values, TableWrite(v) PROVE Protocol'
  <2>1. [mem EXCEPT !["table"] = v] = [x \in Buffers |-> [mem EXCEPT !["table"] = v][x]]
    BY <1>2
  <2> QED BY <1>13, <2>1, StartProtocol DEF TableWrite, Mounted, Buffers
<1>10. CASE OfferSlot
  BY <1>10 DEF OfferSlot, Offer, Protocol, Ready, Wires, Indices, Ring, Fetched, Offered, Filled, ChainOf
<1>11. CASE Notify
  BY <1>11 DEF Notify, NotifyWith, Protocol, Ready, Wires, Indices, Ring, Fetched, Offered, Filled, ChainOf, Successor
<1>12. CASE Return
  <2>1. 0 \in Indexes
    BY VirtioAssumption DEF Indexes
  <2> QED BY <1>12, <2>1 DEF Return, Waited, Start0, Buffers, Ready, Protocol, Wires, Indices, Ring, Fetched, Offered, Filled
<1> QED BY <1>3, <1>4, <1>5, <1>6, <1>7, <1>8, <1>9, <1>10, <1>11, <1>12, <1>13
        DEF Next, Boot, Call, Device, User
\* What the driver has stored, what the device can find and what it works on
\* agree at every step of both.
THEOREM ProtocolInvariant == Spec => []Protocol
<1>1. Init /\ [][Next]_vars => []Protocol
  BY InitProtocol, ProtocolStep, PTL
<1> QED BY <1>1, PTL DEF Spec

\* When no call is running the device is done: it never writes into a buffer
\* of the stack after virtio_blk_read_sector has returned.
THEOREM StraysNever == Spec => []NoStrayTransfer
<1>1. Protocol => NoStrayTransfer
  BY DEF Protocol, Indices, NoStrayTransfer, Offered
<1> QED BY <1>1, ProtocolInvariant, PTL

\* The chain that the device works on is that of the running call, whenever it
\* looks at the ring: header, the caller's buffer of a read, status byte.
THEOREM ChainIsTheCall == Spec => []ChainOfTheCall
<1>1. Protocol => ChainOfTheCall
  BY DEF Protocol, Fetched, ChainOfTheCall, ChainOf
<1> QED BY <1>1, ProtocolInvariant, PTL
-----------------------------------------------------------------------------
(***************************************************************************)
(* The contents: an invariant of sectors, buffers and volume.              *)
(***************************************************************************)
Outside == SectorIds \ UserSectors

\* Only the first sectors of volumes look like one, and what they and the
\* partition table point to lies apart from directories and files.
SoundSectors ==
  /\ disk = [s \in SectorIds |-> disk[s]]
  /\ disk[0].kind # "bpb"
  /\ \A s \in SectorIds : disk[s].kind = "bpb" =>
       /\ s \in Outside
       /\ disk[s].rsvd \in Nat \ {0} /\ s + disk[s].rsvd \in Outside
  /\ disk[0].kind = "mbr" =>
       \A i \in Linux(disk[0].parts) : disk[0].parts[i].lba \in Outside

\* The call that each phase makes.
CallOfPhase ==
  /\ phase \in Phases
  /\ pc = "idle" => op = Start0
  /\ pc # "idle" /\ phase \in {"probe", "mbr"} =>
       op = [type |-> "in", sector |-> 0, buf |-> "stack"]
  /\ pc # "idle" /\ phase = "bpb" =>
       op = [type |-> "in", sector |-> volume.fat, buf |-> "bpb"]
  /\ pc # "idle" /\ phase = "fat" =>
       op = [type |-> "in", sector |-> volume.fat, buf |-> "table"]
  /\ pc # "idle" /\ phase = "up" =>
       \/ \E t \in {"in", "out"}, s \in UserSectors : op = [type |-> t, sector |-> s, buf |-> "stack"]
       \/ volume # Unmounted /\ op = [type |-> "out", sector |-> volume.fat, buf |-> "table"]

\* What buffers hold, and what a performed request has done.
Contents ==
  /\ mem["stack"].kind # "bpb"
  /\ phase \in {"seek", "driver", "features", "queue", "probe", "mbr"} => mem["bpb"] = Junk
  /\ phase = "bpb" => mem["bpb"] \in {Junk, disk[volume.fat]}
  /\ pc # "idle" /\ op.type = "out" => req.data = mem[op.buf] /\ mem[op.buf].kind # "bpb"
  /\ pc # "idle" /\ State = "done" => mem[op.buf] = disk[op.sector]
  /\ pc # "idle" /\ State = "failed" => op.sector \in FailingSectors

FirstLba == disk[0].parts[Min(Linux(disk[0].parts))].lba

\* How far the volume is known.
Mount ==
  /\ phase = "bpb" =>
       volume.fat \in SectorIds /\ (ValidMbr => volume.fat = FirstLba /\ Linux(disk[0].parts) # {})
  /\ phase \in {"fat", "up"} /\ ValidMbr =>
       volume = IF Linux(disk[0].parts) = {} THEN Unmounted ELSE RootOf(FirstLba)
  /\ phase = "fat" => volume # Unmounted
  /\ phase \in {"fat", "up"} /\ volume # Unmounted =>
       volume.fat \in Outside \ {0} /\ (ValidMbr => volume.fat # FirstLba)
  /\ phase = "up" /\ volume # Unmounted /\ op.buf # "table" => mem["table"] = disk[volume.fat]

DataInv == SoundSectors /\ CallOfPhase /\ Contents /\ Mount
\* The request is performed in Transfer; no other step of driver or device
\* changes how far it is.
LEMMA StateFrame ==
  ASSUME Protocol, pc # "idle", Fill \/ OfferSlot \/ OfferIndex \/ Notify \/ Fetch \/ Complete \/ Sleep
  PROVE  State' = State
<1> USE DEF driver, device
<1>1. CASE Fill \/ OfferSlot \/ OfferIndex \/ Notify \/ Sleep
  BY <1>1 DEF Fill, OfferSlot, OfferIndex, Offer, Notify, NotifyWith, Sleep, State, Performed
<1>2. CASE Fetch
  <2>1. usedIdx = oldIdx /\ chain = Nothing
    BY <1>2 DEF Fetch, Protocol, Indices, Offered
  <2>2. State = "asked"
    BY <2>1 DEF State, Performed
  <2>3. chain'.state = "asked" /\ UNCHANGED <<usedIdx, oldIdx>>
    BY <1>2 DEF Fetch
  <2>4. State' = "asked"
    BY <2>1, <2>3 DEF State, Performed
  <2> QED BY <2>2, <2>4
<1>3. CASE Complete
  <2>1. PICK state \in {"done", "failed"} :
          chain = [bufs |-> ChainOf(op), type |-> op.type, sector |-> op.sector, state |-> state]
    BY <1>3 DEF Complete, Protocol, Fetched
  <2>2. State = state /\ HasStatus
    BY <1>3, <2>1 DEF State, Performed, HasStatus, ChainOf, Complete
  <2>3. /\ chain' = Nothing /\ oldIdx' = oldIdx /\ usedIdx' = Successor(usedIdx)
        /\ blkStatus' = IF state = "done" THEN "ok" ELSE "ioerr"
    BY <1>3, <2>1, <2>2 DEF Complete, Successor
  <2>4. usedIdx = oldIdx /\ usedIdx \in Indexes
    BY <1>3 DEF Complete, Protocol, Indices, Offered, Wires
  <2>5. usedIdx' # oldIdx'
    BY <2>3, <2>4, SuccessorIsNext
  <2>6. State' = IF blkStatus' = "ok" THEN "done" ELSE "failed"
    BY <2>3, <2>5 DEF State, Performed
  <2> QED BY <2>2, <2>3, <2>6
<1> QED BY <1>1, <1>2, <1>3

LEMMA InitData == Init => DataInv
<1> SUFFICES ASSUME Init PROVE DataInv
  OBVIOUS
<1> USE DEF Init
<1>1. SoundSectors
  <2>1. disk \in Layouts /\ 0 \in SectorIds
    BY VirtioAssumption
  <2> QED BY <2>1, LayoutsAssumption DEF SoundSectors, Outside
<1>2. CallOfPhase /\ Contents /\ Mount
  BY DEF CallOfPhase, Contents, Mount, Phases, Start0, NoData, Junk, Buffers
<1> QED BY <1>1, <1>2 DEF DataInv

LEMMA DataFrame ==
  ASSUME DataInv, UNCHANGED <<phase, op, volume, disk, mem>>,
         pc = "idle" <=> pc' = "idle", req'.data = req.data,
         pc # "idle" => State' = State
  PROVE  DataInv'
<1>1. SoundSectors' /\ CallOfPhase'
  BY DEF DataInv, SoundSectors, CallOfPhase, Outside
<1>2. Contents'
  BY DEF DataInv, Contents
<1>3. Mount'
  BY DEF DataInv, Mount, Outside, ValidMbr, FirstLba, RootOf
<1> QED BY <1>1, <1>2, <1>3 DEF DataInv

LEMMA BootData ==
  ASSUME Protocol, DataInv, Seek \/ DriverInit \/ FeatureInit \/ QueueInit
  PROVE  DataInv'
<1>1. /\ phase \in {"seek", "driver", "features", "queue"} /\ pc = "idle"
      /\ phase' \in {"lost", "driver", "features", "queue", "probe"}
      /\ UNCHANGED <<pc, op, volume, disk, mem>>
  BY DEF Seek, DriverInit, FeatureInit, Handshake, QueueInit, Protocol, Ready
<1> QED BY <1>1 DEF DataInv, SoundSectors, CallOfPhase, Contents, Mount, Outside, Phases

LEMMA ResetData == ASSUME DataInv, Reset PROVE DataInv'
<1> USE DEF Reset
<1>1. SoundSectors'
  BY DEF DataInv, SoundSectors, Outside
<1>2. CallOfPhase' /\ Contents' /\ Mount'
  BY DEF CallOfPhase, Contents, Mount, Phases, Start0, NoData, Junk, Buffers
<1> QED BY <1>1, <1>2 DEF DataInv

LEMMA ChangeData == ASSUME DataInv, Protocol, NEW v \in Values, Change(v) PROVE DataInv'
<1> USE DEF Change, driver, device
<1>1. mem' = [mem EXCEPT !["stack"] = v] /\ v.kind # "bpb" /\ pc = "idle" /\ phase = "up"
  BY LayoutsAssumption DEF Mounted
<1>2. mem'["stack"].kind # "bpb" /\ mem'["table"] = mem["table"]
  BY <1>1 DEF Protocol, Wires, Buffers
<1>3. SoundSectors' /\ CallOfPhase'
  BY DEF DataInv, SoundSectors, CallOfPhase, Outside
<1>4. Contents' /\ Mount'
  BY <1>1, <1>2 DEF DataInv, Contents, Mount, ValidMbr, FirstLba, RootOf, Outside
<1> QED BY <1>3, <1>4 DEF DataInv

\* A call begins: nothing is asked of the device yet.
LEMMA StartIsAsked ==
  ASSUME Protocol, NEW o, NEW b, StartWith(o, b)
  PROVE  State' = "asked" /\ (o.type = "out" => req'.data = b[o.buf])
<1> USE DEF StartWith, driver, device
<1>1. chain' = Nothing /\ usedIdx' = oldIdx'
  BY DEF Protocol, Indices, Offered
<1>2. State' = "asked"
  BY <1>1 DEF State, Performed
<1>3. req = [type |-> req.type, sector |-> req.sector, data |-> req.data]
  BY DEF Protocol, Wires
<1>4. o.type = "out" => req'.data = b[o.buf]
  BY <1>3 DEF Prepared
<1> QED BY <1>2, <1>4

LEMMA StartData ==
  ASSUME Protocol, DataInv, \E o, b : StartWith(o, b), CallOfPhase',
         op'.type = "out" => mem'[op'.buf].kind # "bpb",
         mem'["stack"] = mem["stack"], mem'["bpb"] = mem["bpb"],
         mem'["table"] = mem["table"] \/ (phase = "up" /\ op'.buf = "table")
  PROVE  DataInv'
<1>0. PICK o, b : StartWith(o, b)
  OBVIOUS
<1>1. /\ pc = "idle" /\ pc' # "idle" /\ op' = o /\ mem' = b /\ UNCHANGED <<phase, volume, disk>>
      /\ op = Start0
  BY <1>0 DEF StartWith, DataInv, CallOfPhase
<1>2. State' = "asked" /\ (o.type = "out" => req'.data = b[o.buf])
  BY <1>0, StartIsAsked
<1>3. SoundSectors'
  BY <1>1 DEF DataInv, SoundSectors, Outside
<1>4. Contents'
  BY <1>1, <1>2 DEF DataInv, Contents
<1>5. Mount'
  BY <1>1 DEF DataInv, Mount, ValidMbr, FirstLba, RootOf, Outside, Start0
<1> QED BY <1>3, <1>4, <1>5 DEF DataInv

LEMMA BootCallData == ASSUME Protocol, DataInv, BootCall PROVE DataInv'
<1>1. /\ op'.type = "in" /\ \E o, b : StartWith(o, b)
      /\ mem'["stack"] = mem["stack"] /\ mem'["bpb"] = mem["bpb"] /\ mem'["table"] = mem["table"]
  BY DEF BootCall, Start, StartWith
<1>2. CallOfPhase'
  BY DEF BootCall, Start, StartWith, DataInv, CallOfPhase
<1> QED BY <1>1, <1>2, StartData

LEMMA UserCallData ==
  ASSUME Protocol, DataInv, NEW s \in UserSectors, UserRead(s) \/ UserWrite(s)
  PROVE  DataInv'
<1>1. PICK t \in {"in", "out"} :
        /\ op' = [type |-> t, sector |-> s, buf |-> "stack"] /\ phase = "up"
        /\ pc' = "fill" /\ mem' = mem /\ UNCHANGED <<phase, volume>>
  BY DEF UserRead, UserWrite, Start, StartWith, Mounted
<1>2. CallOfPhase'
  BY <1>1 DEF DataInv, CallOfPhase
<1>3. mem'[op'.buf].kind # "bpb"
  BY <1>1 DEF DataInv, Contents
<1>4. \E o, b : StartWith(o, b)
  BY DEF UserRead, UserWrite, Start
<1>5. mem'["stack"] = mem["stack"] /\ mem'["bpb"] = mem["bpb"] /\ mem'["table"] = mem["table"]
  BY <1>1
<1> QED BY <1>2, <1>3, <1>4, <1>5, StartData

LEMMA TableData == ASSUME Protocol, DataInv, NEW v \in Values, TableWrite(v) PROVE DataInv'
<1>1. /\ op' = [type |-> "out", sector |-> volume.fat, buf |-> "table"]
      /\ mem' = [mem EXCEPT !["table"] = v] /\ UNCHANGED <<phase, volume>>
      /\ phase = "up" /\ volume # Unmounted /\ v.kind # "bpb" /\ pc' = "fill"
  BY LayoutsAssumption DEF TableWrite, Mounted, Unmounted, StartWith
<1>2. mem'["stack"] = mem["stack"] /\ mem'["bpb"] = mem["bpb"] /\ mem'["table"] = v
  BY <1>1 DEF Protocol, Wires, Buffers
<1>3. CallOfPhase'
  BY <1>1 DEF DataInv, CallOfPhase
<1>4. \E o, b : StartWith(o, b)
  BY DEF TableWrite
<1> QED BY <1>1, <1>2, <1>3, <1>4, StartData

\* The sector of a running call.
LEMMA SectorOfCall ==
  ASSUME Protocol, DataInv, pc # "idle"
  PROVE  /\ phase \in {"probe", "mbr", "bpb", "fat", "up"}
         /\ op.sector \in SectorIds
         /\ op.type = "out" => phase = "up" /\ op.buf # "bpb"
         /\ op.buf = "stack" => op.sector \in UserSectors \cup {0}
         /\ op.buf = "bpb" => phase = "bpb" /\ op.sector = volume.fat
         /\ op.buf = "table" =>
              op.sector = volume.fat /\ op.sector \in Outside \ {0} /\ phase = (IF op.type = "in" THEN "fat" ELSE "up")
         /\ phase = "up" /\ op.buf = "stack" => op.sector \in UserSectors
<1>1. phase \in {"probe", "mbr", "bpb", "fat", "up"}
  BY DEF Protocol, Ready, DataInv, CallOfPhase, Phases
<1>2. CASE phase \in {"probe", "mbr"}
  BY <1>2, VirtioAssumption DEF DataInv, CallOfPhase
<1>3. CASE phase = "bpb"
  BY <1>3 DEF DataInv, CallOfPhase, Mount
<1>4. CASE phase = "fat"
  BY <1>4 DEF DataInv, CallOfPhase, Mount, Outside
<1>5. CASE phase = "up"
  BY <1>5, VirtioAssumption DEF DataInv, CallOfPhase, Mount, Outside
<1> QED BY <1>1, <1>2, <1>3, <1>4, <1>5

LEMMA FirstLbaOutside ==
  ASSUME SoundSectors, ValidMbr, Linux(disk[0].parts) # {}
  PROVE  FirstLba \in Outside
BY FirstPartition DEF SoundSectors, ValidMbr, FirstLba

LEMMA WriteData ==
  ASSUME Protocol, DataInv, pc # "idle", State' = "done", op.type = "out",
         UNCHANGED <<pc, op, req, phase, volume, mem>>,
         disk' = [disk EXCEPT ![op.sector] = req.data]
  PROVE  DataInv'
<1>1. /\ phase = "up" /\ op.sector \in SectorIds /\ op.sector # 0
      /\ op.buf = "stack" => op.sector \in UserSectors
      /\ op.buf = "table" => op.sector = volume.fat
      /\ op.buf \in {"stack", "table"}
      /\ op.sector \in UserSectors \/ op.sector = volume.fat
  BY SectorOfCall, LayoutsAssumption DEF Protocol, Wires, Buffers
<1>2. req.data = mem[op.buf] /\ req.data.kind # "bpb"
  BY DEF DataInv, Contents
<1>3. \A s \in SectorIds : disk'[s] = IF s = op.sector THEN req.data ELSE disk[s]
  BY DEF DataInv, SoundSectors
<1>4. disk'[0] = disk[0]
  BY <1>1, <1>3, VirtioAssumption
<1>5. SoundSectors'
  <2>1. disk' = [s \in SectorIds |-> disk'[s]]
    BY DEF DataInv, SoundSectors
  <2> QED BY <1>2, <1>3, <1>4, <2>1 DEF DataInv, SoundSectors, Outside
<1>6. CallOfPhase'
  BY DEF DataInv, CallOfPhase
<1>7. Contents'
  BY <1>1, <1>2, <1>3 DEF DataInv, Contents
<1>8. Mount'
  <2>1. ASSUME ValidMbr, Linux(disk[0].parts) # {}
        PROVE  RootOf(FirstLba)' = RootOf(FirstLba)
    <3>1. FirstLba' = FirstLba /\ FirstLba \in Outside
      BY <1>4, <2>1, FirstLbaOutside DEF FirstLba, DataInv
    <3>2. FirstLba # op.sector
      <4>1. volume = RootOf(FirstLba)
        BY <1>1, <2>1 DEF DataInv, Mount
      <4>2. volume # Unmounted => volume.fat # FirstLba
        BY <1>1, <2>1 DEF DataInv, Mount
      <4>3. op.buf = "table" => volume # Unmounted
        BY <1>1 DEF DataInv, CallOfPhase
      <4> QED BY <1>1, <3>1, <4>2, <4>3 DEF Outside
    <3>3. disk'[FirstLba] = disk[FirstLba]
      BY <1>3, <3>1, <3>2 DEF Outside
    <3> QED BY <3>1, <3>3 DEF RootOf
  <2>2. ASSUME volume # Unmounted, op.buf # "table"
        PROVE  mem["table"] = disk'[volume.fat]
    BY <1>1, <1>3, <2>2 DEF DataInv, Mount, Outside
  <2>3. ValidMbr' = ValidMbr
    BY <1>4 DEF ValidMbr
  <2>4. ValidMbr => FirstLba' = FirstLba
    BY <1>4 DEF FirstLba
  <2> QED BY <1>1, <1>4, <2>1, <2>2, <2>3, <2>4 DEF DataInv, Mount, Outside
<1> QED BY <1>5, <1>6, <1>7, <1>8 DEF DataInv

LEMMA ReadData ==
  ASSUME Protocol, DataInv, pc # "idle", State' = "done", op.type = "in",
         UNCHANGED <<pc, op, req, phase, volume, disk>>,
         mem' = [mem EXCEPT ![op.buf] = disk[op.sector]]
  PROVE  DataInv'
<1>1. \A b \in Buffers : mem'[b] = IF b = op.buf THEN disk[op.sector] ELSE mem[b]
  BY DEF Protocol, Wires
<1>2. SoundSectors' /\ CallOfPhase'
  BY DEF DataInv, SoundSectors, CallOfPhase, Outside
<1>3. Contents'
  <2>1. mem'["stack"].kind # "bpb"
    <3>1. CASE op.buf = "stack"
      <4>1. op.sector \in UserSectors \cup {0} /\ op.sector \in SectorIds
        BY <3>1, SectorOfCall
      <4> QED BY <1>1, <3>1, <4>1 DEF Buffers, DataInv, SoundSectors, Outside
    <3>2. CASE op.buf # "stack"
      BY <1>1, <3>2 DEF Buffers, DataInv, Contents
    <3> QED BY <3>1, <3>2
  <2>2. op.buf \in Buffers
    BY DEF Protocol, Wires
  <2>3. op.buf = "bpb" => phase = "bpb" /\ op.sector = volume.fat
    BY SectorOfCall
  <2> QED BY <1>1, <2>1, <2>2, <2>3 DEF Buffers, DataInv, Contents
<1>4. Mount'
  <2>1. phase = "up" => op.buf # "table"
    BY SectorOfCall
  <2>2. phase = "up" => mem'["table"] = mem["table"]
    BY <1>1, <2>1 DEF Buffers
  <2> QED BY <2>2 DEF DataInv, Mount, ValidMbr, FirstLba, RootOf, Outside
<1> QED BY <1>2, <1>3, <1>4 DEF DataInv

LEMMA TransferData == ASSUME Protocol, DataInv, Transfer PROVE DataInv'
<1> USE DEF Transfer, driver
<1>1. /\ chain = [bufs |-> ChainOf(op), type |-> op.type, sector |-> op.sector, state |-> "asked"]
      /\ pc # "idle"
  BY DEF Protocol, Fetched, Indices, Offered
<1>2. op.type = "in" => chain.bufs[2] = op.buf
  BY <1>1 DEF ChainOf
<1>3. chain' = [chain EXCEPT !.state = "done"] => State' = "done"
  <2>1. chain' = [chain EXCEPT !.state = "done"] => chain'.state = "done" /\ chain' # Nothing
    BY <1>1, ChainIsSomething
  <2> QED BY <2>1 DEF State, Performed
<1>4. chain' = [chain EXCEPT !.state = "failed"] => State' = "failed"
  <2>1. chain' = [chain EXCEPT !.state = "failed"] => chain'.state = "failed" /\ chain' # Nothing
    BY <1>1, ChainIsSomething
  <2> QED BY <2>1 DEF State, Performed
<1>5. CASE /\ op.type = "in" /\ chain' = [chain EXCEPT !.state = "done"] /\ UNCHANGED disk
           /\ mem' = [mem EXCEPT ![op.buf] = disk[op.sector]]
  BY <1>1, <1>3, <1>5, ReadData
<1>6. CASE /\ op.type = "out" /\ chain' = [chain EXCEPT !.state = "done"] /\ UNCHANGED mem
           /\ disk' = [disk EXCEPT ![op.sector] = req.data]
  BY <1>1, <1>3, <1>6, WriteData
<1>7. CASE op.sector \in FailingSectors /\ UNCHANGED <<disk, mem>> /\ State' = "failed"
  <2>1. SoundSectors' /\ CallOfPhase'
    BY <1>7 DEF DataInv, SoundSectors, CallOfPhase, Outside
  <2>2. Contents'
    BY <1>7 DEF DataInv, Contents
  <2>3. Mount'
    BY <1>7 DEF DataInv, Mount, Outside, ValidMbr, FirstLba, RootOf
  <2> QED BY <2>1, <2>2, <2>3 DEF DataInv
<1> QED BY <1>1, <1>2, <1>4, <1>5, <1>6, <1>7
\* What the boot sequence may find in the partition table it has read.
LEMMA TableRead ==
  ASSUME SoundSectors, NEW parts \in PartitionTables(disk[0])
  PROVE  /\ Mounting(parts).phase = (IF Linux(parts) = {} THEN "up" ELSE "bpb")
         /\ Linux(parts) = {} => Mounting(parts).volume = Unmounted
         /\ Linux(parts) # {} => Mounting(parts).volume.fat \in SectorIds
         /\ ValidMbr => parts = disk[0].parts
         /\ ValidMbr /\ Linux(parts) # {} => Mounting(parts).volume.fat = FirstLba
<1>1. ValidMbr => parts = disk[0].parts
  BY DEF PartitionTables, ValidMbr
<1>2. Linux(parts) = {} => Mounting(parts) = [phase |-> "up", volume |-> Unmounted]
  BY DEF Mounting
<1>3. Linux(parts) # {} =>
        /\ Mounting(parts).phase = "bpb"
        /\ Mounting(parts).volume.fat = parts[Min(Linux(parts))].lba
  BY DEF Mounting, Unmounted
<1>4. ASSUME Linux(parts) # {} PROVE parts[Min(Linux(parts))].lba \in SectorIds
  <2>1. Min(Linux(parts)) \in Linux(parts)
    BY <1>4, FirstPartition
  <2>2. CASE ValidMbr
    BY <1>1, <2>1, <2>2 DEF SoundSectors, ValidMbr, Outside
  <2>3. CASE ~ValidMbr
    <3>1. /\ \A i \in Partitions : NoPartition[i] = [type |-> "other", lba |-> 0]
          /\ DOMAIN NoPartition = Partitions
      BY DEF NoPartition
    <3>2. Linux(NoPartition) = {}
      BY <3>1 DEF Linux
    <3>3. PICK s \in SectorIds : parts = [NoPartition EXCEPT ![1] = [type |-> "linux", lba |-> s]]
      BY <1>4, <2>3, <3>2 DEF PartitionTables, ValidMbr
    <3>4. \A i \in Partitions : parts[i].type = "linux" => parts[i].lba = s
      BY <3>1, <3>3 DEF Partitions
    <3> QED BY <2>1, <3>4 DEF Linux
  <2> QED BY <2>2, <2>3
<1> QED BY <1>1, <1>2, <1>3, <1>4 DEF FirstLba

\* What the boot sequence makes of the first sector of the volume.
LEMMA VolumeRead ==
  ASSUME SoundSectors, NEW lba \in SectorIds, NEW b \in {Junk, disk[lba]}
  PROVE  /\ Geometry(lba, b).phase \in {"fat", "up"}
         /\ Geometry(lba, b).phase = "up" => Geometry(lba, b).volume = Unmounted
         /\ Geometry(lba, b).phase = "fat" =>
              /\ Geometry(lba, b).volume.fat \in Outside \ {0}
              /\ Geometry(lba, b).volume.fat # lba
              /\ Geometry(lba, b).volume # Unmounted
<1>1. CASE b.kind = "bpb" /\ b.sig /\ b.fat32
  <2>1. b.rsvd \in Nat \ {0} /\ lba + b.rsvd \in Outside
    BY <1>1 DEF SoundSectors, Junk
  <2>2. lba \in Nat
    BY VirtioAssumption
  <2>3. lba + b.rsvd # lba /\ lba + b.rsvd # 0
    BY <2>1, <2>2
  <2>4. Geometry(lba, b).volume.fat = lba + b.rsvd /\ Geometry(lba, b).phase = "fat"
    BY <1>1 DEF Geometry
  <2> QED BY <2>1, <2>3, <2>4 DEF Unmounted
<1>2. CASE ~(b.kind = "bpb" /\ b.sig /\ b.fat32)
  BY <1>2 DEF Geometry
<1> QED BY <1>1, <1>2

\* The call of each phase has done its work when it returns.
LEMMA Returned ==
  ASSUME Protocol, DataInv, Return
  PROVE  /\ State \in {"done", "failed"} /\ chain = Nothing
         /\ op.sector \notin UserSectors => mem[op.buf] = disk[op.sector]
<1>1. pc = "poll" /\ usedIdx # oldIdx
  BY DEF Return, Waited
<1>2. chain = Nothing
  BY <1>1 DEF Protocol, Indices, Offered
<1>3. State \in {"done", "failed"}
  BY <1>1, <1>2 DEF State, Performed
<1> QED BY <1>1, <1>2, <1>3, VirtioAssumption DEF DataInv, Contents

LEMMA ReturnData == ASSUME Protocol, DataInv, Return PROVE DataInv'
<1>1. /\ pc = "poll" /\ pc' = "idle" /\ op' = Start0 /\ UNCHANGED <<disk, mem>>
  BY DEF Return, device
<1>2. PICK c \in Continuations : phase' = c.phase /\ volume' = c.volume
  BY DEF Return
<1>3. SoundSectors /\ SoundSectors'
  BY <1>1 DEF DataInv, SoundSectors, Outside
<1>4. /\ ValidMbr' = ValidMbr /\ FirstLba' = FirstLba /\ RootOf(FirstLba)' = RootOf(FirstLba)
      /\ Outside' = Outside
  BY <1>1 DEF ValidMbr, FirstLba, RootOf, Outside
<1>5. mem["stack"].kind # "bpb" /\ mem'["stack"].kind # "bpb"
  BY <1>1 DEF DataInv, Contents
<1>6. phase \in {"probe", "mbr", "bpb", "fat", "up"}
  BY <1>1, SectorOfCall
<1>7. ValidMbr /\ Linux(disk[0].parts) # {} => FirstLba \in Outside
  BY <1>3, FirstLbaOutside
<1>8. CASE phase = "probe"
  <2>1. phase' = "mbr"
    BY <1>2, <1>8 DEF Continuations
  <2> QED BY <1>1, <1>3, <1>5, <1>8, <2>1 DEF DataInv, CallOfPhase, Contents, Mount, Phases
<1>9. CASE phase = "mbr"
  <2>1. mem["stack"] = disk[0]
    <3>1. op.sector = 0 /\ op.buf = "stack"
      BY <1>1, <1>9 DEF DataInv, CallOfPhase
    <3> QED BY <3>1, Returned, LayoutsAssumption
  <2>2. PICK parts \in PartitionTables(disk[0]) : phase' = Mounting(parts).phase /\ volume' = Mounting(parts).volume
    BY <1>2, <1>9, <2>1 DEF Continuations
  <2>3. mem["bpb"] = Junk
    BY <1>9 DEF DataInv, Contents
  <2>4. CASE Linux(parts) = {}
    <3>1. phase' = "up" /\ volume' = Unmounted
      BY <1>3, <2>2, <2>4, TableRead
    <3>2. ValidMbr => Linux(disk[0].parts) = {}
      BY <1>3, <2>4, TableRead
    <3>3. CallOfPhase' /\ Contents'
      BY <1>1, <1>5, <3>1 DEF CallOfPhase, Contents, Phases
    <3>4. Mount'
      BY <1>1, <1>4, <3>1, <3>2 DEF Mount
    <3> QED BY <1>3, <3>3, <3>4 DEF DataInv
  <2>5. CASE Linux(parts) # {}
    <3>1. phase' = "bpb" /\ volume'.fat \in SectorIds
      BY <1>3, <2>2, <2>5, TableRead
    <3>2. ValidMbr => volume'.fat = FirstLba /\ Linux(disk[0].parts) # {}
      BY <1>3, <2>2, <2>5, TableRead
    <3>3. CallOfPhase' /\ Contents'
      BY <1>1, <1>5, <2>3, <3>1 DEF CallOfPhase, Contents, Phases
    <3>4. Mount'
      BY <1>1, <1>4, <3>1, <3>2 DEF Mount
    <3> QED BY <1>3, <3>3, <3>4 DEF DataInv
  <2> QED BY <2>4, <2>5
<1>10. CASE phase = "bpb"
  <2>1. phase' = Geometry(volume.fat, mem["bpb"]).phase /\ volume' = Geometry(volume.fat, mem["bpb"]).volume
    BY <1>2, <1>10 DEF Continuations
  <2>2. volume.fat \in SectorIds /\ mem["bpb"] \in {Junk, disk[volume.fat]}
    BY <1>10 DEF DataInv, Mount, Contents
  <2>3. /\ phase' \in {"fat", "up"}
        /\ phase' = "up" => volume' = Unmounted
        /\ phase' = "fat" => volume'.fat \in Outside \ {0} /\ volume'.fat # volume.fat /\ volume' # Unmounted
    BY <1>3, <2>1, <2>2, VolumeRead
  <2>4. ValidMbr => volume.fat = FirstLba /\ Linux(disk[0].parts) # {} /\ volume' = RootOf(FirstLba)
    <3>1. ValidMbr => volume.fat = FirstLba /\ Linux(disk[0].parts) # {}
      BY <1>10 DEF DataInv, Mount
    <3>2. op.sector = volume.fat /\ op.buf = "bpb"
      BY <1>1, <1>10 DEF DataInv, CallOfPhase
    <3>3. ValidMbr => mem["bpb"] = disk[volume.fat]
      BY <1>7, <3>1, <3>2, Returned DEF Outside
    <3> QED BY <2>1, <3>1, <3>3 DEF RootOf
  <2>5. CallOfPhase' /\ Contents'
    BY <1>1, <1>5, <2>3 DEF CallOfPhase, Contents, Phases
  <2>6. Mount'
    BY <1>1, <1>4, <2>3, <2>4 DEF Mount
  <2> QED BY <1>3, <2>5, <2>6 DEF DataInv
<1>11. CASE phase \in {"fat", "up"}
  <2>1. phase' = "up" /\ volume' = volume
    BY <1>2, <1>11 DEF Continuations
  <2>2. CallOfPhase' /\ Contents'
    BY <1>1, <1>5, <2>1 DEF CallOfPhase, Contents, Phases
  <2>3. volume # Unmounted => mem["table"] = disk[volume.fat]
    <3>1. CASE op.buf = "table"
      BY <1>1, <3>1, SectorOfCall, Returned DEF Outside
    <3>2. CASE op.buf # "table"
      <4>1. phase = "up"
        BY <1>1, <1>11, <3>2 DEF DataInv, CallOfPhase
      <4> QED BY <3>2, <4>1 DEF DataInv, Mount
    <3> QED BY <3>1, <3>2
  <2>4. Mount'
    BY <1>1, <1>4, <1>11, <2>1, <2>3 DEF DataInv, Mount
  <2> QED BY <1>3, <2>2, <2>4 DEF DataInv
<1> QED BY <1>6, <1>8, <1>9, <1>10, <1>11

\* One step per action, with the protocol: only Transfer moves data, and only
\* Return goes on with what was read.
LEMMA DataStep == Protocol /\ DataInv /\ [Next]_vars => DataInv'
<1> SUFFICES ASSUME Protocol, DataInv, [Next]_vars PROVE DataInv'
  OBVIOUS
<1>1. CASE Seek \/ DriverInit \/ FeatureInit \/ QueueInit
  BY <1>1, BootData
<1>2. CASE BootCall
  BY <1>2, BootCallData
<1>3. CASE Return \/ Transfer \/ Reset
  BY <1>3, ReturnData, TransferData, ResetData
<1>4. CASE Fill \/ OfferSlot \/ OfferIndex \/ Notify \/ Fetch \/ Complete \/ Sleep
  <2>1. /\ UNCHANGED <<phase, op, volume, disk, mem>> /\ (pc = "idle" <=> pc' = "idle")
        /\ req'.data = req.data
    BY <1>4 DEF Fill, OfferSlot, OfferIndex, Offer, Notify, NotifyWith, Fetch, Complete, Sleep,
                driver, device, Protocol, Wires
  <2> QED BY <1>4, <2>1, StateFrame, DataFrame
<1>5. ASSUME NEW s \in UserSectors, UserRead(s) \/ UserWrite(s) PROVE DataInv'
  BY <1>5, UserCallData
<1>6. ASSUME NEW v \in Values, Change(v) \/ TableWrite(v) PROVE DataInv'
  BY <1>6, ChangeData, TableData
<1>7. CASE UNCHANGED vars
  <2>1. UNCHANGED <<phase, op, volume, disk, mem, pc, req>> /\ State' = State
    BY <1>7 DEF vars, driver, device, State, Performed
  <2> QED BY <2>1, DataFrame
<1> QED BY <1>1, <1>2, <1>3, <1>4, <1>5, <1>6, <1>7 DEF Next, Boot, Call, Device, User
\* What the buffers, the volume and the sectors hold is what the call of each
\* phase has made of them.
THEOREM DataInvariant == Spec => []DataInv
<1>1. Init /\ [][Next]_vars /\ []Protocol => []DataInv
  BY InitData, DataStep, PTL
<1> QED BY <1>1, ProtocolInvariant, PTL DEF Spec

\* On a disk with a partition table the volume is that of the first Linux
\* partition and fat32_table its table, whatever is written afterwards and
\* wherever the machine was reset.
THEOREM MountIsFaithful == Spec => []MountFaithful
<1>1. DataInv => MountFaithful
  <2> SUFFICES ASSUME DataInv, phase = "up", ValidMbr
               PROVE  LET lbas == {disk[0].parts[i].lba : i \in {j \in Linux(disk[0].parts) :
                                     \A k \in Linux(disk[0].parts) : j <= k}}
                      IN  /\ lbas = {} => volume = Unmounted
                          /\ \A lba \in lbas : volume = RootOf(lba)
                          /\ volume # Unmounted /\ op.buf # "table" => mem["table"] = disk[volume.fat]
    BY DEF MountFaithful
  <2> DEFINE parts == disk[0].parts
             firsts == {j \in Linux(parts) : \A k \in Linux(parts) : j <= k}
  <2>1. \A i \in Linux(parts) : i \in Nat
    BY DEF Linux, Partitions
  <2>2. ASSUME Linux(parts) # {} PROVE firsts = {Min(Linux(parts))}
    <3>1. /\ Min(Linux(parts)) \in Linux(parts)
          /\ \A i \in Linux(parts) : Min(Linux(parts)) <= i
      BY <2>2, FirstPartition
    <3> QED BY <2>1, <3>1
  <2>3. CASE Linux(parts) = {}
    BY <2>3 DEF DataInv, Mount
  <2>4. CASE Linux(parts) # {}
    <3>1. volume = RootOf(FirstLba)
      BY <2>4 DEF DataInv, Mount
    <3>2. volume # Unmounted /\ op.buf # "table" => mem["table"] = disk[volume.fat]
      BY DEF DataInv, Mount
    <3>3. firsts = {Min(Linux(parts))}
      BY <2>2, <2>4
    <3> HIDE DEF firsts
    <3>4. {parts[i].lba : i \in firsts} = {FirstLba}
      BY <3>3 DEF FirstLba
    <3> QED BY <3>1, <3>2, <3>4 DEF firsts
  <2> QED BY <2>3, <2>4
<1> QED BY <1>1, DataInvariant, PTL
-----------------------------------------------------------------------------
(***************************************************************************)
(* The driver implements the disk.                                         *)
(***************************************************************************)
RequestOf(o, state, data) == [type |-> o.type, sector |-> o.sector, state |-> state, data |-> data]
Request == IF pc = "idle" THEN {} ELSE {RequestOf(op, State, mem[op.buf])}

LEMMA InitDisk == Init => DiskOf!Init
BY DEF Init, DiskOf!Init

\* A step that moves no data.
LEMMA KeepsRequest ==
  ASSUME UNCHANGED <<disk, op, mem>>, reply' = Nothing, pc = "idle" <=> pc' = "idle",
         pc # "idle" => State' = State
  PROVE  DiskOf!Forget
<1>1. Request' = Request
  BY DEF Request, RequestOf
<1> QED BY <1>1 DEF DiskOf!Forget, Request, RequestOf

LEMMA StartBegins ==
  ASSUME Protocol, DataInv, DataInv', Protocol', \E o, b : StartWith(o, b)
  PROVE  DiskOf!Begin
<1>1. PICK o, b : StartWith(o, b)
  OBVIOUS
<1>2. pc = "idle" /\ pc' # "idle" /\ UNCHANGED disk /\ reply' = Nothing
  BY <1>1 DEF StartWith
<1>3. State' = "asked"
  BY <1>1, StartIsAsked
<1>4. op'.type \in {"in", "out"} /\ op'.sector \in SectorIds
  <2>1. phase' \in {"probe", "mbr", "bpb", "fat", "up"}
    BY <1>2 DEF Protocol, Ready, DataInv, CallOfPhase, Phases
  <2>2. op'.sector \in SectorIds
    BY <1>2, <2>1, VirtioAssumption DEF DataInv, CallOfPhase, Mount, Outside
  <2> QED BY <2>2 DEF Protocol, Wires
<1> DEFINE r == RequestOf(op, State, mem[op.buf])'
<1>5. Request' = {r} /\ Request = {} /\ r.type = op'.type /\ r.sector = op'.sector /\ r.state = "asked"
  BY <1>2, <1>3 DEF Request, RequestOf
<1> HIDE DEF r
<1>6. Request = {} /\ \E x \in Request' : x.type \in {"in", "out"} /\ x.sector \in SectorIds /\ x.state = "asked"
  BY <1>4, <1>5
<1> QED BY <1>2, <1>6 DEF DiskOf!Begin, Request, RequestOf

LEMMA UpdatedRecord ==
  ASSUME NEW t, NEW s, NEW d, NEW d1, NEW r, NEW r1,
         r = [type |-> t, sector |-> s, state |-> "asked", data |-> d],
         r1 = [r EXCEPT !.state = "done", !.data = d1]
  PROVE  r1 = [type |-> t, sector |-> s, state |-> "done", data |-> d1]
OBVIOUS

\* The data that a request returns with are those of its sector.
LEMMA PerformedRequest ==
  ASSUME NEW o, NEW d, NEW d1,
         disk' = (IF o.type = "out" THEN [disk EXCEPT ![o.sector] = d] ELSE disk),
         Request' = {RequestOf(o, "done", d1)}, d1 = disk'[o.sector], reply' = Nothing
  PROVE  DiskOf!Perform(RequestOf(o, "asked", d))
<1> DEFINE R == Request'
<1>0. PICK r, t, s :
        /\ r = RequestOf(o, "asked", d) /\ t = o.type /\ s = o.sector
        /\ r = [type |-> t, sector |-> s, state |-> "asked", data |-> d]
        /\ RequestOf(o, "done", d1) = [type |-> t, sector |-> s, state |-> "done", data |-> d1]
  BY DEF RequestOf
<1>1. /\ r.state = "asked" /\ r.type = o.type /\ r.sector = o.sector /\ r.data = d
      /\ [r EXCEPT !.state = "done", !.data = d1] = RequestOf(o, "done", d1)
      /\ RequestOf(o, "done", d1).data = d1
  <2>1. r.state = "asked" /\ r.type = t /\ r.sector = s /\ r.data = d
    BY <1>0
  <2>2. [r EXCEPT !.state = "done", !.data = d1] = [type |-> t, sector |-> s, state |-> "done", data |-> d1]
    <3>1. PICK r1 : r1 = [r EXCEPT !.state = "done", !.data = d1]
      OBVIOUS
    <3>2. r = [type |-> t, sector |-> s, state |-> "asked", data |-> d]
      BY <1>0
    <3>3. r1 = [type |-> t, sector |-> s, state |-> "done", data |-> d1]
      BY <3>1, <3>2, UpdatedRecord
    <3> QED BY <3>1, <3>3
  <2> QED BY <1>0, <2>1, <2>2
<1>2. R = {[r EXCEPT !.state = "done", !.data = d1]} /\ d1 \in {x.data : x \in R}
  <2> HIDE DEF R
  <2>1. R = {RequestOf(o, "done", d1)}
    BY DEF R
  <2> QED BY <1>1, <2>1
<1>3. \E e \in {x.data : x \in R} : R = {[r EXCEPT !.state = "done", !.data = e]} /\ e = disk'[r.sector]
  <2> HIDE DEF R
  <2> QED BY <1>1, <1>2
<1>4. DiskOf!Perform(r)
  BY <1>1, <1>3 DEF DiskOf!Perform, Request, RequestOf
<1> QED BY <1>0, <1>4

LEMMA TransferPerforms ==
  ASSUME Protocol, DataInv, Transfer
  PROVE  \E r \in Request : DiskOf!Perform(r) \/ DiskOf!Fail(r)
<1> USE DEF Transfer, driver
<1>1. /\ chain = [bufs |-> ChainOf(op), type |-> op.type, sector |-> op.sector, state |-> "asked"]
      /\ pc # "idle" /\ usedIdx = oldIdx
  BY DEF Protocol, Fetched, Indices, Offered
<1>2. State = "asked"
  BY <1>1 DEF State, Performed
<1>3. op.type = "in" => chain.bufs[2] = op.buf
  BY <1>1 DEF ChainOf
<1>4. PICK new \in {"done", "failed"} : chain' = [chain EXCEPT !.state = new]
  OBVIOUS
<1>5. State' = new
  <2>1. chain'.state = new /\ chain' # Nothing
    BY <1>1, <1>4, ChainIsSomething
  <2> QED BY <2>1 DEF State, Performed
<1> DEFINE r == RequestOf(op, "asked", mem[op.buf])
           r1 == RequestOf(op, new, mem'[op.buf])
<1>6. Request = {r} /\ Request' = {r1}
  BY <1>1, <1>2, <1>5 DEF Request, RequestOf
<1>7. op.sector \in SectorIds /\ op.buf \in Buffers /\ op.type \in {"in", "out"}
  BY <1>1, SectorOfCall DEF Protocol, Wires
<1>8. CASE /\ op.type = "in" /\ new = "done" /\ UNCHANGED disk
           /\ mem' = [mem EXCEPT ![op.buf] = disk[op.sector]]
  <2>1. mem'[op.buf] = disk'[op.sector]
    BY <1>7, <1>8 DEF Protocol, Wires
  <2>2. DiskOf!Perform(r)
    BY <1>6, <1>8, <2>1, PerformedRequest
  <2> QED BY <1>6, <2>2
<1>9. CASE /\ op.type = "out" /\ new = "done" /\ UNCHANGED mem
           /\ disk' = [disk EXCEPT ![op.sector] = req.data]
  <2>1. req.data = mem[op.buf]
    BY <1>1, <1>9 DEF DataInv, Contents
  <2>2. mem'[op.buf] = disk'[op.sector]
    BY <1>7, <1>9, <2>1 DEF DataInv, SoundSectors
  <2>3. DiskOf!Perform(r)
    BY <1>6, <1>9, <2>1, <2>2, PerformedRequest
  <2> QED BY <1>6, <2>3
<1>10. CASE new = "failed" /\ UNCHANGED <<disk, mem>>
  <2>1. DiskOf!Fail(r)
    BY <1>6, <1>10 DEF DiskOf!Fail, RequestOf, Request
  <2> QED BY <1>6, <2>1
<1> QED BY <1>1, <1>3, <1>4, <1>8, <1>9, <1>10

LEMMA ReturnReturns ==
  ASSUME Protocol, DataInv, Return
  PROVE  \E r \in Request : DiskOf!Return(r)
<1> DEFINE r == RequestOf(op, State, mem[op.buf])
<1>1. /\ pc = "poll" /\ pc' = "idle" /\ UNCHANGED disk /\ usedIdx # oldIdx
      /\ reply' = [type |-> op.type, sector |-> op.sector,
                   state |-> IF blkStatus = "ok" THEN "done" ELSE "failed", data |-> mem[op.buf]]
  BY DEF Return, Waited
<1>2. chain = Nothing
  BY Returned
<1>3. State = IF blkStatus = "ok" THEN "done" ELSE "failed"
  BY <1>1, <1>2 DEF State, Performed
<1>4. reply' = r /\ r.state # "asked" /\ Request = {r} /\ Request' = {}
  BY <1>1, <1>3 DEF Request, RequestOf
<1>5. DiskOf!Return(r)
  BY <1>1, <1>4 DEF DiskOf!Return, Request, RequestOf
<1> QED BY <1>4, <1>5

\* Every step of driver, device and file system is one of the disk.
LEMMA DiskStep ==
  Protocol /\ DataInv /\ Protocol' /\ DataInv' /\ [Next]_vars => [DiskOf!Next]_(DiskOf!diskVars)
<1> SUFFICES ASSUME Protocol, DataInv, Protocol', DataInv', [Next]_vars
             PROVE  [DiskOf!Next]_(DiskOf!diskVars)
  OBVIOUS
<1> DEFINE Goal == [DiskOf!Next]_(DiskOf!diskVars)
<1>1. DiskOf!Forget \/ DiskOf!Begin \/ DiskOf!Reset => Goal
  BY DEF DiskOf!Next
<1>2. (\E r \in Request : DiskOf!Perform(r) \/ DiskOf!Fail(r) \/ DiskOf!Return(r)) => Goal
  BY DEF DiskOf!Next, Request, RequestOf
<1> SUFFICES Goal
  OBVIOUS
<1> HIDE DEF Goal
<1> USE DEF driver, device
<1>3. CASE Seek \/ DriverInit \/ FeatureInit \/ QueueInit
  <2>1. pc = "idle" /\ reply' = Nothing /\ UNCHANGED <<pc, disk, op, mem>>
    BY <1>3 DEF Seek, DriverInit, FeatureInit, Handshake, QueueInit, Protocol, Ready
  <2> QED BY <1>1, <2>1, KeepsRequest
<1>4. CASE BootCall
  <2>1. \E o, b : StartWith(o, b)
    BY <1>4 DEF BootCall, Start
  <2> QED BY <1>1, <2>1, StartBegins
<1>5. CASE Fill \/ OfferSlot \/ OfferIndex \/ Notify \/ Fetch \/ Complete \/ Sleep
  <2>1. /\ UNCHANGED <<disk, op, mem>> /\ reply' = Nothing /\ (pc = "idle" <=> pc' = "idle")
    BY <1>5 DEF Fill, OfferSlot, OfferIndex, Offer, Notify, NotifyWith, Fetch, Complete, Sleep
  <2> QED BY <1>1, <1>5, <2>1, StateFrame, KeepsRequest
<1>6. CASE Transfer
  BY <1>2, <1>6, TransferPerforms
<1>7. CASE Return
  BY <1>2, <1>7, ReturnReturns
<1>8. CASE Reset
  <2>1. DiskOf!Reset
    BY <1>8 DEF Reset, DiskOf!Reset
  <2> QED BY <1>1, <2>1
<1>9. ASSUME NEW s \in UserSectors, UserRead(s) \/ UserWrite(s) PROVE Goal
  <2>1. \E o, b : StartWith(o, b)
    BY <1>9 DEF UserRead, UserWrite, Start
  <2> QED BY <1>1, <2>1, StartBegins
<1>10. ASSUME NEW v \in Values, TableWrite(v) PROVE Goal
  <2>1. \E o, b : StartWith(o, b)
    BY <1>10 DEF TableWrite
  <2> QED BY <1>1, <2>1, StartBegins
<1>11. ASSUME NEW v \in Values, Change(v) PROVE Goal
  <2>1. DiskOf!Forget
    BY <1>11 DEF Change, DiskOf!Forget
  <2> QED BY <1>1, <2>1
<1>12. CASE UNCHANGED vars
  <2>1. UNCHANGED <<disk, op, mem, pc, reply>> /\ State' = State
    BY <1>12 DEF vars, State, Performed
  <2> QED BY <2>1 DEF Goal, DiskOf!diskVars
<1> QED BY <1>3, <1>4, <1>5, <1>6, <1>7, <1>8, <1>9, <1>10, <1>11, <1>12
        DEF Next, Boot, Call, Device, User

\* The driver, the ring and the device perform each request once, between
\* call and return, on every disk.
THEOREM DriverImplementsDisk == Spec => ImplementsDisk
<1>1. Init /\ [][Next]_vars /\ []Protocol /\ []DataInv => DiskOf!Spec
  BY InitDisk, DiskStep, PTL DEF DiskOf!Spec
<1> QED BY <1>1, ProtocolInvariant, DataInvariant, PTL DEF Spec, ImplementsDisk
=============================================================================
