------------------------------- MODULE MCBuddy -------------------------------
(***************************************************************************)
(* Instances of Buddy for TLC.                                             *)
(***************************************************************************)
EXTENDS Buddy

AllRequests == 0 .. 4
EveryCall == {"ref_page", "deref_page", "free_pages"}
=============================================================================
