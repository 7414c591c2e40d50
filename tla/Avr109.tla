-------------------------------- MODULE Avr109 --------------------------------
(***************************************************************************)
(* Self programming: Bootloader_Task() and ReadWriteMemoryBlock() working  *)
(* on one command byte at a time, FetchNextCommandByte() that waits for    *)
(* packets, WriteNextResponseByte() that fills them, and the flash they    *)
(* change.  The connection may go at any byte and the power at any step.   *)
(*                                                                         *)
(* The host is any program that keeps to the application section; a byte   *)
(* of a block is named by its place in the block, counted from 1, so that  *)
(* 0 is what FetchNextCommandByte() returns when it gives up.              *)
(***************************************************************************)
EXTENDS SpmFlash

CONSTANTS CDC_RX_EPSIZE,      \* largest OUT packet: 32
          CDC_TX_EPSIZE,      \* IN bank size: 64
          CDC_TX_BANK_SIZE,   \* IN banks: 2
          ByteBase,           \* what a high byte counts for: 256
          BlockSizes,         \* sizes the host asks for
          EepromSize,         \* bytes of EEPROM: 512
          MaxReply            \* longest answer to a simple command: 7

ASSUME EpsizeAssumption ==
  /\ CDC_RX_EPSIZE \in Nat \ {0}
  /\ CDC_TX_EPSIZE \in Nat /\ CDC_TX_EPSIZE > 1
  /\ CDC_TX_BANK_SIZE \in Nat \ {0}
ASSUME HostAssumption ==
  /\ ByteBase \in Nat \ {0} /\ BlockSizes \subseteq Nat /\ MaxReply \in Nat \ {0}
  /\ EepromSize \in Nat \ {0}

VARIABLES
  pc,                   \* "main": outside Bootloader_Task()
  usb,                  \* USB_DeviceState, as far as the loops here look at it
  USB_Device_ConfigurationNumber,
  outReceived, outBytes,
  fullBanks,            \* IN banks the host has not fetched
  bankBytes,            \* bytes in the IN bank being filled
  bankTX,
  toSend,               \* answer bytes still to come
  CurrAddress, CurrFlashAddress, PageStartAddress,
  BlockSize, HighByte, LowByte,
  RunBootloader,
  flash,
  pageBuffer,           \* the temporary page buffer of the SPM hardware
  eeprom,
  Command,
  asked,                \* history: the block size of this command
  start,                \* history: CurrAddress when the command began
  gaveUp                \* history: a byte of this command is not the host's

bus       == <<usb, USB_Device_ConfigurationNumber>>
inBanks   == <<fullBanks, bankBytes>>
usbVars   == <<bus, outReceived, outBytes, inBanks>>
blockVars == <<CurrFlashAddress, PageStartAddress, BlockSize, HighByte, LowByte>>
memVars   == <<flash, pageBuffer, eeprom>>
hist      == <<asked, start>>
vars == <<pc, usbVars, bankTX, toSend, CurrAddress, blockVars, RunBootloader,
          memVars, Command, hist, gaveUp>>

CommandTypes == {"none", "exit", "argument", "simple", "sync", "address", "erase",
                 "blockRead", "blockWrite"}

TypeOK ==
  /\ pc \in {"main", "argument", "addressHigh", "addressLow", "erase", "eraseWrite", "sizeHigh",
             "sizeLow", "memoryType", "read", "write", "commit",
             "readEeprom", "writeEeprom", "reply", "finish"}
  /\ usb \in {"configured", "default", "unattached"}
  /\ USB_Device_ConfigurationNumber \in {0, 1}
  /\ outReceived \in BOOLEAN /\ outBytes \in 0..CDC_RX_EPSIZE
  /\ fullBanks \in 0..CDC_TX_BANK_SIZE /\ bankBytes \in 0..CDC_TX_EPSIZE
  /\ bankTX \in 0..(CDC_TX_EPSIZE - 2)
  /\ toSend \in 0..MaxReply
  /\ CurrAddress \in Nat /\ CurrFlashAddress \in Nat /\ PageStartAddress \in Nat
  /\ BlockSize \in Nat /\ HighByte \in {0, 1} /\ LowByte \in Nat
  /\ RunBootloader \in BOOLEAN
  /\ flash \in [FlashAddresses -> Contents]
  /\ pageBuffer \in [Offsets -> Nat \cup {Erased}]
  /\ eeprom \in [0..(EepromSize - 1) -> Nat]
  /\ Command \in CommandTypes
  /\ asked \in Nat /\ start \in Nat /\ gaveUp \in BOOLEAN

\* Boot pages hold the loader, application pages a sketch: both are called 0.
Init ==
  /\ pc = "main" /\ usb = "configured" /\ USB_Device_ConfigurationNumber = 1
  /\ outReceived = FALSE /\ outBytes = 0 /\ fullBanks = 0 /\ bankBytes = 0
  /\ bankTX = 0 /\ toSend = 0
  /\ CurrAddress = 0 /\ CurrFlashAddress = 0 /\ PageStartAddress = 0
  /\ BlockSize = 0 /\ HighByte = 0 /\ LowByte = 0
  /\ RunBootloader = TRUE
  /\ flash = [a \in FlashAddresses |-> 0] /\ pageBuffer = EmptyBuffer
  /\ eeprom = [a \in 0..(EepromSize - 1) |-> 0]
  /\ Command = "none" /\ asked = 0 /\ start = 0 /\ gaveUp = FALSE

-----------------------------------------------------------------------------
(* The host and the bus. *)

HostSends(n) ==
  /\ usb = "configured" /\ ~outReceived
  /\ outReceived' = TRUE /\ outBytes' = n
  /\ UNCHANGED <<pc, bus, inBanks, bankTX, toSend, CurrAddress, blockVars,
                 RunBootloader, memVars, Command, hist, gaveUp>>

HostFetches ==
  /\ usb = "configured" /\ fullBanks > 0
  /\ fullBanks' = fullBanks - 1
  /\ UNCHANGED <<pc, bus, outReceived, outBytes, bankBytes, bankTX, toSend, CurrAddress,
                 blockVars, RunBootloader, memVars, Command, hist, gaveUp>>

Unplug ==
  /\ usb # "unattached" /\ usb' = "unattached"
  /\ UNCHANGED <<pc, USB_Device_ConfigurationNumber, outReceived, outBytes, inBanks,
                 bankTX, toSend, CurrAddress, blockVars, RunBootloader, memVars, Command, hist, gaveUp>>

\* A resumed connection keeps its configuration, and its endpoints as they were.
Resume ==
  /\ usb = "unattached"
  /\ usb' = IF USB_Device_ConfigurationNumber = 1 THEN "configured" ELSE "default"
  /\ UNCHANGED <<pc, USB_Device_ConfigurationNumber, outReceived, outBytes, inBanks,
                 bankTX, toSend, CurrAddress, blockVars, RunBootloader, memVars, Command, hist, gaveUp>>

\* A bus reset disables the data endpoints; main() serves the requests that
\* configure them again, so that takes the end of the command.
BusReset ==
  /\ usb' = "default" /\ USB_Device_ConfigurationNumber' = 0
  /\ outReceived' = FALSE /\ outBytes' = 0 /\ fullBanks' = 0 /\ bankBytes' = 0
  /\ UNCHANGED <<pc, bankTX, toSend, CurrAddress, blockVars, RunBootloader, memVars,
                 Command, hist, gaveUp>>

Enumerate ==
  /\ usb = "default" /\ pc = "main"
  /\ usb' = "configured" /\ USB_Device_ConfigurationNumber' = 1
  /\ UNCHANGED <<pc, outReceived, outBytes, inBanks, bankTX, toSend, CurrAddress,
                 blockVars, RunBootloader, memVars, Command, hist, gaveUp>>

\* The locals of both functions go with them; what is global stays.
Return ==
  /\ pc' = "main" /\ Command' = "none"
  /\ CurrFlashAddress' = 0 /\ PageStartAddress' = 0
  /\ BlockSize' = 0 /\ HighByte' = 0 /\ LowByte' = 0
  /\ asked' = 0 /\ start' = 0 /\ gaveUp' = FALSE

\* Power loss, the reset button or ResetMCU(): the flash is what remains.
Restart ==
  /\ Return /\ usb' = "default" /\ USB_Device_ConfigurationNumber' = 0
  /\ outReceived' = FALSE /\ outBytes' = 0 /\ fullBanks' = 0 /\ bankBytes' = 0
  /\ bankTX' = 0 /\ toSend' = 0
  /\ CurrAddress' = 0 /\ RunBootloader' = TRUE
  /\ pageBuffer' = EmptyBuffer /\ UNCHANGED <<flash, eeprom>>

-----------------------------------------------------------------------------
(* FetchNextCommandByte() returns one of the bytes the host may have sent,  *)
(* or gives up with a 0 when the bank is empty and the device unattached.   *)
(* Between packets it clears the empty bank and waits.                      *)

\* Mutated: the device state is not looked at.
FetchForEver(byte, bytes) ==
  /\ outBytes > 0 /\ outBytes' = outBytes - 1
  /\ byte \in bytes
  /\ UNCHANGED <<outReceived, gaveUp>>

Fetch(byte, bytes) ==
  \/ /\ outBytes > 0 /\ outBytes' = outBytes - 1
     /\ byte \in bytes
     /\ UNCHANGED <<outReceived, gaveUp>>
  \/ /\ outBytes = 0 /\ usb = "unattached"
     /\ byte = 0
     /\ outReceived' = FALSE /\ gaveUp' = TRUE
     /\ UNCHANGED outBytes

Fetching == {"argument", "addressHigh", "addressLow", "sizeHigh", "sizeLow",
             "memoryType", "write", "writeEeprom"}

ClearEmptyBank ==
  /\ pc \in Fetching /\ (pc \in {"write", "writeEeprom"} => BlockSize > 0)
  /\ outReceived /\ outBytes = 0
  /\ outReceived' = FALSE
  /\ UNCHANGED <<pc, bus, outBytes, inBanks, bankTX, toSend, CurrAddress, blockVars,
                 RunBootloader, memVars, Command, hist, gaveUp>>

(* WriteNextResponseByte() drops the byte when the device is unattached.    *)

INReady == usb = "configured" /\ fullBanks < CDC_TX_BANK_SIZE

ClearIN == fullBanks' = fullBanks + 1 /\ bankBytes' = 0

\* Mutated: the bank is filled to the last byte.
WriteResponseWholeBank ==
  \/ usb = "unattached" /\ UNCHANGED <<inBanks, bankTX>>
  \/ /\ INReady /\ bankTX + 1 >= CDC_TX_EPSIZE
     /\ bankTX' = 0 /\ ClearIN
  \/ /\ INReady /\ bankTX + 1 < CDC_TX_EPSIZE
     /\ bankTX' = bankTX + 1 /\ bankBytes' = bankBytes + 1
     /\ UNCHANGED fullBanks

\* A byte written to a bank with no room left is lost.
WriteResponse ==
  \/ usb = "unattached" /\ UNCHANGED <<inBanks, bankTX>>
  \/ /\ INReady /\ bankTX + 1 >= CDC_TX_EPSIZE - 1
     /\ bankTX' = 0 /\ ClearIN
  \/ /\ INReady /\ bankTX + 1 < CDC_TX_EPSIZE - 1
     /\ bankTX' = bankTX + 1
     /\ bankBytes' = IF bankBytes < CDC_TX_EPSIZE THEN bankBytes + 1 ELSE bankBytes
     /\ UNCHANGED fullBanks

-----------------------------------------------------------------------------
(* Bootloader_Task() *)

\* main() calls it for a packet with something in it.
BeginTask(command, reply) ==
  /\ pc = "main" /\ usb = "configured" /\ RunBootloader
  /\ outReceived /\ outBytes > 0 /\ outBytes' = outBytes - 1
  /\ bankTX' = 0
  /\ Command' = command /\ toSend' = reply
  /\ start' = CurrAddress /\ UNCHANGED <<asked, gaveUp>>

Simple(reply) ==
  /\ BeginTask("simple", reply) /\ pc' = "reply"
  /\ UNCHANGED <<bus, outReceived, inBanks, CurrAddress, blockVars, RunBootloader,
                 memVars>>

Sync ==
  /\ BeginTask("sync", 0) /\ pc' = "finish"
  /\ UNCHANGED <<bus, outReceived, inBanks, CurrAddress, blockVars, RunBootloader,
                 memVars>>

\* The flag is cleared before the answer is on its way.
ExitBootloader ==
  /\ BeginTask("exit", 1) /\ pc' = "reply"
  /\ RunBootloader' = FALSE
  /\ UNCHANGED <<bus, outReceived, inBanks, CurrAddress, blockVars, memVars>>

BeginWithArgument ==
  /\ BeginTask("argument", 1) /\ pc' = "argument"
  /\ UNCHANGED <<bus, outReceived, inBanks, CurrAddress, blockVars, RunBootloader,
                 memVars>>

BeginSetAddress ==
  /\ BeginTask("address", 1) /\ pc' = "addressHigh"
  /\ UNCHANGED <<bus, outReceived, inBanks, CurrAddress, blockVars, RunBootloader,
                 memVars>>

BeginErase ==
  /\ BeginTask("erase", 1) /\ pc' = "erase"
  /\ CurrFlashAddress' = 0
  /\ UNCHANGED <<bus, outReceived, inBanks, CurrAddress, PageStartAddress, BlockSize,
                 HighByte, LowByte, RunBootloader, memVars>>

BeginBlock(command) ==
  /\ BeginTask(command, 0) /\ pc' = "sizeHigh"
  /\ UNCHANGED <<bus, outReceived, inBanks, CurrAddress, blockVars, RunBootloader,
                 memVars>>

FetchArgument ==
  /\ pc = "argument" /\ pc' = "reply"
  /\ \E byte \in {0, 1} : Fetch(byte, {0, 1})
  /\ UNCHANGED <<bus, inBanks, bankTX, toSend, CurrAddress, blockVars, RunBootloader,
                 memVars, Command, hist>>

\* Words of the application section, as two bytes.  The host does not know that
\* the first of them was given up.
AppWords == 0..(BOOT_START_ADDR \div 2 - 1)
HighBytes(numbers) == {n \div ByteBase : n \in numbers}
LowBytes(numbers, high) ==
  {n % ByteBase : n \in {m \in numbers : gaveUp \/ m \div ByteBase = high}}

FetchAddressHigh ==
  /\ pc = "addressHigh" /\ pc' = "addressLow"
  /\ \E byte \in HighBytes(AppWords) \cup {0} :
       /\ Fetch(byte, HighBytes(AppWords))
       /\ CurrAddress' = 2 * byte * ByteBase
  /\ UNCHANGED <<bus, inBanks, bankTX, toSend, blockVars, RunBootloader, memVars,
                 Command, hist>>

FetchAddressLow ==
  /\ pc = "addressLow" /\ pc' = "reply"
  /\ LET bytes == LowBytes(AppWords, CurrAddress \div (2 * ByteBase))
     IN  \E byte \in bytes \cup {0} :
           Fetch(byte, bytes) /\ CurrAddress' = CurrAddress + 2 * byte
  /\ UNCHANGED <<bus, inBanks, bankTX, toSend, blockVars, RunBootloader, memVars,
                 Command, hist>>

\* Mutated: <= for <.
EraseFirstBootPageToo ==
  /\ pc = "erase" /\ CurrFlashAddress <= BOOT_START_ADDR
  /\ flash' = ErasePage(flash, PageOf(CurrFlashAddress)) /\ UNCHANGED <<pageBuffer, eeprom>>
  /\ pc' = "eraseWrite"
  /\ UNCHANGED <<usbVars, bankTX, toSend, CurrAddress, blockVars, RunBootloader,
                 Command, hist, gaveUp>>

EraseNextPage ==
  /\ pc = "erase" /\ CurrFlashAddress < BOOT_START_ADDR
  /\ flash' = ErasePage(flash, PageOf(CurrFlashAddress)) /\ UNCHANGED <<pageBuffer, eeprom>>
  /\ pc' = "eraseWrite"
  /\ UNCHANGED <<usbVars, bankTX, toSend, CurrAddress, blockVars, RunBootloader,
                 Command, hist, gaveUp>>

\* Mutated: the page size is taken to be in words.
WriteErasedEveryOther ==
  /\ pc = "eraseWrite" /\ pc' = "erase"
  /\ flash' = WritePage(flash, pageBuffer, PageOf(CurrFlashAddress))
  /\ pageBuffer' = EmptyBuffer /\ UNCHANGED eeprom
  /\ CurrFlashAddress' = CurrFlashAddress + 2 * SPM_PAGESIZE
  /\ UNCHANGED <<usbVars, bankTX, toSend, CurrAddress, PageStartAddress, BlockSize,
                 HighByte, LowByte, RunBootloader, Command, hist, gaveUp>>

\* Every page is written after its erase, with whatever the buffer holds.
WriteErasedPage ==
  /\ pc = "eraseWrite" /\ pc' = "erase"
  /\ flash' = WritePage(flash, pageBuffer, PageOf(CurrFlashAddress))
  /\ pageBuffer' = EmptyBuffer /\ UNCHANGED eeprom
  /\ CurrFlashAddress' = CurrFlashAddress + SPM_PAGESIZE
  /\ UNCHANGED <<usbVars, bankTX, toSend, CurrAddress, PageStartAddress, BlockSize,
                 HighByte, LowByte, RunBootloader, Command, hist, gaveUp>>

EndErase ==
  /\ pc = "erase" /\ CurrFlashAddress >= BOOT_START_ADDR
  /\ pc' = "reply"
  /\ UNCHANGED <<usbVars, bankTX, toSend, CurrAddress, blockVars, RunBootloader,
                 memVars, Command, hist, gaveUp>>

WriteReply ==
  /\ pc = "reply" /\ toSend > 0
  /\ WriteResponse
  /\ toSend' = toSend - 1
  /\ pc' = IF toSend = 1 THEN "finish" ELSE "reply"
  /\ UNCHANGED <<bus, outReceived, outBytes, CurrAddress, blockVars, RunBootloader,
                 memVars, Command, hist, gaveUp>>

ClearOUT == outReceived' = FALSE /\ outBytes' = 0

\* What is left of the answer is sent and the rest of the packet discarded.
EndTask ==
  /\ pc = "finish" /\ Return
  /\ \/ bankTX = 0 /\ ClearOUT /\ UNCHANGED inBanks
     \/ bankTX > 0 /\ INReady /\ ClearOUT /\ ClearIN
  /\ UNCHANGED <<bus, bankTX, toSend, CurrAddress, RunBootloader, memVars>>

\* The early return leaves the packet where it is.
AbandonTask ==
  /\ pc = "finish" /\ Return
  /\ bankTX > 0 /\ usb = "unattached"
  /\ UNCHANGED <<usbVars, bankTX, toSend, CurrAddress, RunBootloader, memVars>>

-----------------------------------------------------------------------------
(* ReadWriteMemoryBlock() *)

FetchSizeHigh ==
  /\ pc = "sizeHigh" /\ pc' = "sizeLow"
  /\ \E byte \in HighBytes(BlockSizes) \cup {0} :
       Fetch(byte, HighBytes(BlockSizes)) /\ BlockSize' = byte * ByteBase
  /\ UNCHANGED <<bus, inBanks, bankTX, toSend, CurrAddress, CurrFlashAddress,
                 PageStartAddress, HighByte, LowByte, RunBootloader, memVars,
                 Command, hist>>

FetchSizeLow ==
  /\ pc = "sizeLow" /\ pc' = "memoryType"
  /\ LET bytes == LowBytes(BlockSizes, BlockSize \div ByteBase)
     IN  \E byte \in bytes \cup {0} :
           Fetch(byte, bytes) /\ BlockSize' = BlockSize + byte
  /\ asked' = BlockSize'
  /\ UNCHANGED <<bus, inBanks, bankTX, toSend, CurrAddress, CurrFlashAddress,
                 PageStartAddress, HighByte, LowByte, RunBootloader, memVars,
                 Command, start>>

\* The host stays inside the flash when it reads, inside the application section
\* and inside one page when it writes.
InFlash == CurrAddress + BlockSize <= BOOT_START_ADDR + BootPages * SPM_PAGESIZE
InPage  == /\ CurrAddress + BlockSize <= BOOT_START_ADDR
           /\ CurrAddress < BOOT_START_ADDR
           /\ OffsetOf(CurrAddress) + BlockSize <= SPM_PAGESIZE

\* 0 is no memory type.
RejectMemoryType ==
  /\ pc = "memoryType" /\ pc' = "reply"
  /\ Fetch(0, {0})
  /\ toSend' = 1
  /\ UNCHANGED <<bus, inBanks, bankTX, CurrAddress, blockVars, RunBootloader,
                 memVars, Command, hist>>

BeginRead ==
  /\ pc = "memoryType" /\ Command = "blockRead" /\ InFlash
  /\ Fetch(1, {1})
  /\ pc' = "read"
  /\ UNCHANGED <<bus, inBanks, bankTX, toSend, CurrAddress, blockVars, RunBootloader,
                 memVars, Command, hist>>

\* Mutated: the page is not erased.
BeginWriteWithoutErase ==
  /\ pc = "memoryType" /\ Command = "blockWrite" /\ InPage
  /\ Fetch(1, {1})
  /\ PageStartAddress' = CurrAddress
  /\ UNCHANGED flash
  /\ pc' = "write"
  /\ UNCHANGED <<bus, inBanks, bankTX, toSend, CurrAddress, CurrFlashAddress,
                 BlockSize, HighByte, LowByte, RunBootloader, pageBuffer, eeprom,
                 Command, hist>>

\* The old page is gone before the first byte of the new one is there.
BeginWrite ==
  /\ pc = "memoryType" /\ Command = "blockWrite" /\ InPage
  /\ Fetch(1, {1})
  /\ PageStartAddress' = CurrAddress
  /\ flash' = ErasePage(flash, PageOf(CurrAddress))
  /\ pc' = "write"
  /\ UNCHANGED <<bus, inBanks, bankTX, toSend, CurrAddress, CurrFlashAddress,
                 BlockSize, HighByte, LowByte, RunBootloader, pageBuffer, eeprom,
                 Command, hist>>

\* Mutated: the address moves with every byte.
NextByteNextWord ==
  /\ BlockSize' = BlockSize - 1
  /\ HighByte' = 1 - HighByte
  /\ CurrAddress' = CurrAddress + 2

NextByte ==
  /\ BlockSize' = BlockSize - 1
  /\ HighByte' = 1 - HighByte
  /\ CurrAddress' = IF HighByte = 1 THEN CurrAddress + 2 ELSE CurrAddress

ReadByte ==
  /\ pc = "read" /\ BlockSize > 0
  /\ WriteResponse /\ NextByte
  /\ UNCHANGED <<pc, bus, outReceived, outBytes, toSend, CurrFlashAddress,
                 PageStartAddress, LowByte, RunBootloader, memVars, Command, hist, gaveUp>>

EndRead ==
  /\ pc = "read" /\ BlockSize = 0
  /\ pc' = "finish"
  /\ UNCHANGED <<usbVars, bankTX, toSend, CurrAddress, blockVars, RunBootloader,
                 memVars, Command, hist, gaveUp>>

WriteByte ==
  /\ pc = "write" /\ BlockSize > 0
  /\ LET place == asked - BlockSize + 1
     IN  \E byte \in {0, place} :
           /\ Fetch(byte, {place})
           /\ IF HighByte = 1
              THEN pageBuffer' = FillWord(pageBuffer, CurrAddress, LowByte, byte)
                   /\ UNCHANGED LowByte
              ELSE LowByte' = byte /\ UNCHANGED pageBuffer
  /\ NextByte
  /\ UNCHANGED <<pc, bus, inBanks, bankTX, toSend, CurrFlashAddress,
                 PageStartAddress, RunBootloader, flash, eeprom, Command, hist>>

EndWrite ==
  /\ pc = "write" /\ BlockSize = 0
  /\ pc' = "commit"
  /\ UNCHANGED <<usbVars, bankTX, toSend, CurrAddress, blockVars, RunBootloader,
                 memVars, Command, hist, gaveUp>>

Commit ==
  /\ pc = "commit" /\ pc' = "reply"
  /\ flash' = WritePage(flash, pageBuffer, PageOf(PageStartAddress))
  /\ pageBuffer' = EmptyBuffer /\ UNCHANGED eeprom
  /\ toSend' = 1
  /\ UNCHANGED <<usbVars, bankTX, CurrAddress, blockVars, RunBootloader, Command,
                 hist, gaveUp>>

\* EEPROM addresses are bytes, but they are kept doubled like those of words.
InEeprom == CurrAddress \div 2 + BlockSize <= EepromSize

BeginEeprom ==
  /\ pc = "memoryType" /\ InEeprom
  /\ Fetch(2, {2})
  /\ pc' = IF Command = "blockRead" THEN "readEeprom" ELSE "writeEeprom"
  /\ PageStartAddress' = CurrAddress
  /\ UNCHANGED <<bus, inBanks, bankTX, toSend, CurrAddress, CurrFlashAddress,
                 BlockSize, HighByte, LowByte, RunBootloader, memVars, Command, hist>>

ReadEepromByte ==
  /\ pc = "readEeprom" /\ BlockSize > 0
  /\ WriteResponse
  /\ BlockSize' = BlockSize - 1 /\ CurrAddress' = CurrAddress + 2
  /\ UNCHANGED <<pc, bus, outReceived, outBytes, toSend, CurrFlashAddress,
                 PageStartAddress, HighByte, LowByte, RunBootloader, memVars,
                 Command, hist, gaveUp>>

WriteEepromByte ==
  /\ pc = "writeEeprom" /\ BlockSize > 0
  /\ LET place == asked - BlockSize + 1
     IN  \E byte \in {0, place} :
           /\ Fetch(byte, {place})
           /\ eeprom' = [eeprom EXCEPT ![CurrAddress \div 2] = byte]
  /\ BlockSize' = BlockSize - 1 /\ CurrAddress' = CurrAddress + 2
  /\ UNCHANGED <<pc, bus, inBanks, bankTX, toSend, CurrFlashAddress,
                 PageStartAddress, HighByte, LowByte, RunBootloader, flash,
                 pageBuffer, Command, hist>>

EndEeprom ==
  /\ pc \in {"readEeprom", "writeEeprom"} /\ BlockSize = 0
  /\ IF pc = "readEeprom" THEN pc' = "finish" /\ UNCHANGED toSend
                          ELSE pc' = "reply" /\ toSend' = 1
  /\ UNCHANGED <<usbVars, bankTX, CurrAddress, blockVars, RunBootloader, memVars,
                 Command, hist, gaveUp>>

-----------------------------------------------------------------------------
Begin == \/ \E reply \in 1..MaxReply : Simple(reply)
         \/ Sync \/ ExitBootloader \/ BeginWithArgument \/ BeginSetAddress \/ BeginErase
         \/ \E command \in {"blockRead", "blockWrite"} : BeginBlock(command)

Task == \/ ClearEmptyBank \/ FetchArgument \/ FetchAddressHigh \/ FetchAddressLow
        \/ EraseNextPage \/ WriteErasedPage \/ EndErase \/ WriteReply \/ EndTask \/ AbandonTask
        \/ FetchSizeHigh \/ FetchSizeLow \/ RejectMemoryType
        \/ BeginRead \/ ReadByte \/ EndRead
        \/ BeginWrite \/ WriteByte \/ EndWrite \/ Commit
        \/ BeginEeprom \/ ReadEepromByte \/ WriteEepromByte \/ EndEeprom

Host == (\E n \in 1..CDC_RX_EPSIZE : HostSends(n)) \/ HostFetches

Bus == Unplug \/ Resume \/ BusReset \/ Enumerate

Next == Begin \/ Task \/ Host \/ Bus \/ Restart

Spec == Init /\ [][Next]_vars

\* The task keeps running.  Nothing is asked of the host.
FairSpec == Spec /\ WF_vars(Task)

-----------------------------------------------------------------------------
\* What a block write has confirmed is what the host sent: every whole word of
\* it is in its place, the rest of the page is erased, and the address is where
\* the next block goes.
ConfirmedBlockIsStored ==
  [][ /\ pc = "commit" /\ pc' = "reply" /\ ~gaveUp =>
           /\ CurrAddress = start + 2 * (asked \div 2)
           /\ \A a \in FlashAddresses : PageOf(a) = PageOf(start) =>
                flash'[a] = IF a \in start..(CurrAddress - 1) THEN a - start + 1 ELSE Erased
      /\ pc = "writeEeprom" /\ pc' = "reply" /\ ~gaveUp =>
           /\ CurrAddress = start + 2 * asked
           /\ \A i \in 0..(asked - 1) : eeprom[start \div 2 + i] = i + 1 ]_vars

\* Whatever is lost on the way, a block write touches the page it was given and
\* an erase the application section: never the bootloader, never another page.
DamageConfined ==
  [][ \A a \in FlashAddresses : flash'[a] # flash[a] =>
        \/ Command = "erase" /\ a < BOOT_START_ADDR
        \/ Command = "blockWrite" /\ PageOf(a) = PageOf(start) ]_vars

\* An erase that is cut short leaves no sketch to run: it has begun with the
\* word that start up looks at.
ErasedFromTheStart ==
  pc \in {"erase", "eraseWrite"} => \A a \in FlashAddresses : a < CurrFlashAddress => flash[a] = Erased

\* Whatever is lost on the way, the flash only sees whole page erases below
\* BOOT_START_ADDR and bytes programmed where they are erased: the abstract memory.
Memory == INSTANCE FlashMemory
ImplementsFlash == Memory!Spec

\* Byte by byte, the address keeps up with the block: what is answered or stored
\* as the i-th byte of a block is the i-th byte of the memory.
AddressInStep ==
  pc \in {"read", "write"} => CurrAddress + HighByte = start + (asked - BlockSize)

\* A command does not outlive the connection.
GivesUp ==
  (pc # "main" /\ usb = "unattached") ~> (pc = "main" \/ usb # "unattached")
=============================================================================
