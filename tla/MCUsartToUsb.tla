---------------------------- MODULE MCUsartToUsb -----------------------------
(* Instances of UsartToUsb small enough for TLC; the .cfg files give values. *)
EXTENDS UsartToUsb
=============================================================================
