------------------------------ MODULE MCShell ------------------------------
(***************************************************************************)
(* Instances of Shell for TLC.                                             *)
(***************************************************************************)
EXTENDS Shell

CONSTANTS hello, notes, missing, none

TwoFiles == {hello, notes}
OneProgram == {hello}

Offsets == {-1, 0, 2, 9}
Typed ==
  [verb : {"echo"}, quote : {"none", "closed", "open"}]
  \cup [verb : {"cat"}, file : {notes, missing, none}]
  \cup [verb : {"edit"}, file : {notes, hello, missing}, offset : Offsets, quote : {"none", "open", "closed"}]
  \cup [verb : {"run"}, file : {hello, notes, missing, none}]
  \cup [verb : {"help", "exit", "unknown"}]
=============================================================================
