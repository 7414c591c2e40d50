------------------------------ MODULE MCAvr109 -------------------------------
(* Avr109 for TLC: an application page and a boot page of two words each. *)
EXTENDS Avr109
=============================================================================
