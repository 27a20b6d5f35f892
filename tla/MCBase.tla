------------------------------- MODULE MCBase -------------------------------
(* Sixteen frames under tables of four entries, and three threads. *)
EXTENDS Base
=============================================================================
