------------------------------- MODULE MCProc -------------------------------
(***************************************************************************)
(* Instances of Proc for TLC.                                              *)
(***************************************************************************)
EXTENDS Proc

AllCalls == {"clone", "exit", "waitpid"}
NoWait == {"clone", "exit"}
=============================================================================
