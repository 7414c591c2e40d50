------------------------------ MODULE FlashMemory ------------------------------
(***************************************************************************)
(* What a bootloader may do to the flash, whatever it is told and wherever *)
(* the power or the connection goes: erase a page of the application       *)
(* section, or program places of one such page that are erased.  Nothing   *)
(* is ever programmed over, and the bootloader's own pages never change.   *)
(***************************************************************************)
EXTENDS SpmFlash

VARIABLE flash

Init == flash \in [FlashAddresses -> Contents \ {Garbled}]

Erase(page) == flash' = ErasePage(flash, page)

Program(page) ==
  /\ flash' \in [FlashAddresses -> Contents \ {Garbled}]
  /\ \A a \in FlashAddresses : flash'[a] # flash[a] => PageOf(a) = page /\ flash[a] = Erased

Next == \E page \in 0..(AppPages - 1) : Erase(page) \/ Program(page)

Spec == Init /\ [][Next]_flash
=============================================================================
