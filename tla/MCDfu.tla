-------------------------------- MODULE MCDfu ---------------------------------
(* Dfu for TLC: two application pages and a boot page of two words each, packets *)
(* of four bytes. *)
EXTENDS Dfu
MCFlashBlocks     == {<<0, 5>>, <<4, 6>>}
MCUnalignedBlocks == {<<2, 3>>}
MCEepromBlocks    == {<<0, 1>>}
=============================================================================
