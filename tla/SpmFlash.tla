------------------------------- MODULE SpmFlash -------------------------------
(***************************************************************************)
(* The flash of an AVR as its self programming instruction sees it: pages  *)
(* that are erased as a whole, a temporary page buffer that takes one word *)
(* per place, and a page write that can only clear bits.  Both bootloaders *)
(* program through avr-libc's boot_page_erase(), boot_page_fill() and      *)
(* boot_page_write(), which are these operators.                           *)
(*                                                                         *)
(* A byte is a name for what was meant to be there: which byte of a block, *)
(* or of the sketch before it.                                             *)
(***************************************************************************)
EXTENDS Integers

CONSTANTS SPM_PAGESIZE,       \* bytes in a flash page: 128
          AppPages,           \* pages below BOOT_START_ADDR: 96
          BootPages           \* pages of the bootloader itself: 32

ASSUME PageAssumption  == SPM_PAGESIZE \in Nat \ {0} /\ SPM_PAGESIZE % 2 = 0
ASSUME PagesAssumption == AppPages \in Nat \ {0} /\ BootPages \in Nat \ {0}

Erased   == -1          \* 0xFF, which no byte of a block is called
Garbled  == -2          \* programmed twice without an erase
Contents == Nat \cup {Erased, Garbled}

BOOT_START_ADDR == AppPages * SPM_PAGESIZE
FlashAddresses  == 0..((AppPages + BootPages) * SPM_PAGESIZE - 1)
Offsets         == 0..(SPM_PAGESIZE - 1)
PageOf(a)       == a \div SPM_PAGESIZE
OffsetOf(a)     == a % SPM_PAGESIZE

EmptyBuffer == [o \in Offsets |-> Erased]

\* Mutated: the bytes of a word swapped.
FillWordSwapped(buffer, a, low, high) ==
  LET o == OffsetOf(a)
  IN  IF buffer[o] # Erased THEN buffer
      ELSE [buffer EXCEPT ![o] = high, ![o + 1] = low]

\* The place of a word is its address within the page, whatever the page.
FillWord(buffer, a, low, high) ==
  LET o == OffsetOf(a)
  IN  IF buffer[o] # Erased THEN buffer
      ELSE [buffer EXCEPT ![o] = low, ![o + 1] = high]

ErasePage(f, page) == [a \in FlashAddresses |-> IF PageOf(a) = page THEN Erased ELSE f[a]]

\* The hardware empties the buffer afterwards; a page erase leaves it alone.
WritePage(f, buffer, page) ==
  [a \in FlashAddresses |->
     LET new == buffer[OffsetOf(a)]
     IN  IF PageOf(a) # page \/ new = Erased THEN f[a]
         ELSE IF f[a] = Erased THEN new ELSE Garbled]
=============================================================================
