--------------------------- MODULE MCAddressSpace ---------------------------
(***************************************************************************)
(* Instances of AddressSpace for TLC.                                      *)
(***************************************************************************)
EXTENDS AddressSpace, TLC

PowersOf2 == {1, 2, 4, 8}
AllCalls == {"clone", "exit", "execve"}
ForkExit == {"clone", "exit"}
Contents == {0, 1}
Children == Permutations(Procs \ {First})
=============================================================================
