------------------------------ MODULE MCInstaller ------------------------------
(* Installer for TLC: two pages of two words, an image of all but the first word. *)
EXTENDS Installer
=============================================================================
