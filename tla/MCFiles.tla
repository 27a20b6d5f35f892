------------------------------ MODULE MCFiles ------------------------------
(***************************************************************************)
(* Instances of Files for TLC.                                             *)
(***************************************************************************)
EXTENDS Files

Bits == {0, 1}
OneOrThree == {1, 3}
ReadOrBoth == {{"read"}, {"read", "write"}}
Both == {{"read", "write"}}
Start == {0}
=============================================================================
