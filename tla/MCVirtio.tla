------------------------------ MODULE MCVirtio ------------------------------
(***************************************************************************)
(* Instances of Virtio for TLC.                                            *)
(***************************************************************************)
EXTENDS Virtio, TLC

OneSlot == {1}
SixSectors == 0 .. 5
DataSectors == {4, 5}
OneFails == {5}

Part(t, l) == [type |-> t, lba |-> l]
Mbr(sig, p1, p2) == [kind |-> "mbr", sig |-> sig, parts |-> <<p1, p2>>]
Bpb(sig, fat32) ==
  [kind |-> "bpb", sig |-> sig, fat32 |-> fat32, rsvd |-> 1, fats |-> 1, size |-> 1, spc |-> 1]
Word(i) == [kind |-> "data", word |-> i]

NewWord == {Word(2)}

\* Partition tables with a volume in the first or second partition, in none,
\* and without a signature; and first sectors of a volume.
FirstSectors == {Bpb(TRUE, TRUE), Bpb(TRUE, FALSE), Bpb(FALSE, TRUE)}

Disk1(m, b) == (0 :> m) @@ (1 :> b) @@ (2 :> Bpb(FALSE, TRUE)) @@ [s \in 3 .. 5 |-> Word(1)]

Disks ==
  {Disk1(Mbr(TRUE, Part("other", 2), Part("linux", 1)), Bpb(TRUE, TRUE))}
  \cup {Disk1(Mbr(TRUE, Part("linux", 1), Part("linux", 2)), b) : b \in FirstSectors}
  \cup {Disk1(Mbr(TRUE, Part("other", 1), Part("other", 1)), Bpb(TRUE, FALSE)),
        Disk1(Mbr(FALSE, Part("linux", 1), Part("other", 2)), Bpb(TRUE, FALSE))}
=============================================================================
