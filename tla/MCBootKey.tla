------------------------------ MODULE MCBootKey -------------------------------
(* BootKey under the makefile options; the .cfg files choose them. *)
EXTENDS BootKey
=============================================================================
