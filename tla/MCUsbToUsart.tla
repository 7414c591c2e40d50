---------------------------- MODULE MCUsbToUsart -----------------------------
(* Instances of UsbToUsart small enough for TLC; the .cfg files give values. *)
EXTENDS UsbToUsart
=============================================================================
