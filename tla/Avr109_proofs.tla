----------------------------- MODULE Avr109_proofs -----------------------------
(***************************************************************************)
(* Proofs about Avr109, for every flash, page, packet and block size: the  *)
(* flash is only ever erased by pages and programmed where it is erased,   *)
(* damage stays where the command was aimed, the address keeps up with the *)
(* block, what is confirmed is stored, a lost byte becomes a 0 in its own  *)
(* place, and an answer overflows its bank only behind a command that was  *)
(* abandoned.                                                              *)
(***************************************************************************)
EXTENDS Avr109, SpmFlash_proofs

(* The ranges of TypeOK by name. *)
Places == {"main", "argument", "addressHigh", "addressLow", "erase", "eraseWrite", "sizeHigh",
           "sizeLow", "memoryType", "read", "write", "commit",
           "readEeprom", "writeEeprom", "reply", "finish"}
OutCounts  == 0..CDC_RX_EPSIZE
InCounts   == 0..CDC_TX_EPSIZE
TxCounts   == 0..(CDC_TX_EPSIZE - 2)
BankCounts == 0..CDC_TX_BANK_SIZE
Replies    == 0..MaxReply
Eeproms    == [0..(EepromSize - 1) -> Nat]

UsbTyping ==
  /\ usb \in {"configured", "default", "unattached"} /\ USB_Device_ConfigurationNumber \in {0, 1}
  /\ outReceived \in BOOLEAN /\ outBytes \in OutCounts
  /\ fullBanks \in BankCounts /\ bankBytes \in InCounts
  /\ bankTX \in TxCounts /\ toSend \in Replies

BlockTyping ==
  /\ CurrAddress \in Nat /\ CurrFlashAddress \in Nat /\ PageStartAddress \in Nat
  /\ BlockSize \in Nat /\ HighByte \in {0, 1} /\ LowByte \in Nat
  /\ asked \in Nat /\ start \in Nat

MemoryTyping ==
  flash \in [FlashAddresses -> Contents] /\ pageBuffer \in Buffers /\ eeprom \in Eeproms

Typing ==
  /\ UsbTyping /\ BlockTyping /\ MemoryTyping
  /\ pc \in Places /\ Command \in CommandTypes
  /\ RunBootloader \in BOOLEAN /\ gaveUp \in BOOLEAN

LEMMA TypingIsTypeOK == Typing <=> TypeOK
  BY DEF Typing, TypeOK, Places, UsbTyping, BlockTyping, MemoryTyping, OutCounts, InCounts,
         TxCounts, BankCounts, Replies, Eeproms, Buffers

\* A block that is being asked for begins where the address is; one that is read or
\* written has got as far as the address says.
Asking ==
  /\ pc \in {"main", "sizeHigh", "sizeLow", "memoryType"} => HighByte = 0
  /\ pc \in {"sizeHigh", "sizeLow", "memoryType"} => start = CurrAddress
  /\ pc = "memoryType" => asked = BlockSize
Stepping ==
  /\ AddressInStep
  /\ pc \in {"read", "write", "writeEeprom"} => BlockSize <= asked

\* Outside of a block write the page buffer is empty; inside of one the page that will
\* be written is blank, and the one the command began on.
Buffered == pc \notin {"write", "commit"} => pageBuffer = EmptyBuffer

\* An erase goes from page to page, and what is behind it is blank.
Behind ==
  pc \in {"erase", "eraseWrite"} =>
    /\ Command = "erase"
    /\ \E k \in Nat : CurrFlashAddress = k * SPM_PAGESIZE
    /\ \A a \in FlashAddresses : a < CurrFlashAddress => flash[a] = Erased
ToWriteErased ==
  pc = "eraseWrite" =>
    CurrFlashAddress < BOOT_START_ADDR /\ Blank(flash, PageOf(CurrFlashAddress))
ToCommit ==
  pc \in {"write", "commit"} =>
    /\ Command = "blockWrite" /\ PageStartAddress = start
    /\ PageStartAddress < BOOT_START_ADDR /\ Blank(flash, PageOf(PageStartAddress))

FlashInv == flash \in Sound /\ Buffered /\ Behind /\ ToWriteErased /\ ToCommit

IInv == Typing /\ Asking /\ Stepping /\ FlashInv

-----------------------------------------------------------------------------
LEMMA OutRange ==
  /\ 0 \in OutCounts /\ \A n \in 1..CDC_RX_EPSIZE : n \in OutCounts
  /\ \A n \in OutCounts : n \in Nat /\ (n > 0 => n - 1 \in OutCounts)
  BY EpsizeAssumption DEF OutCounts

LEMMA InRange ==
  /\ 0 \in InCounts /\ 0 \in TxCounts /\ 0 \in BankCounts /\ CDC_TX_EPSIZE \in Nat
  /\ CDC_TX_BANK_SIZE \in Nat
  /\ \A n \in InCounts : n \in Nat /\ (n < CDC_TX_EPSIZE => n + 1 \in InCounts)
  /\ \A n \in TxCounts : n \in Nat /\ (n + 1 < CDC_TX_EPSIZE - 1 => n + 1 \in TxCounts)
  /\ \A n \in BankCounts : /\ n \in Nat
                           /\ n < CDC_TX_BANK_SIZE => n + 1 \in BankCounts
                           /\ n > 0 => n - 1 \in BankCounts
  BY EpsizeAssumption DEF InCounts, TxCounts, BankCounts

LEMMA ReplyRange ==
  /\ 0 \in Replies /\ 1 \in Replies /\ \A n \in 1..MaxReply : n \in Replies
  /\ \A n \in Replies : n \in Nat /\ (n > 0 => n - 1 \in Replies)
  BY HostAssumption DEF Replies

\* The bytes of an address or a size are numbers.
LEMMA BytesAreNat ==
  /\ ByteBase \in Nat \ {0}
  /\ HighBytes(AppWords) \subseteq Nat /\ HighBytes(BlockSizes) \subseteq Nat
  /\ \A h : LowBytes(AppWords, h) \subseteq Nat /\ LowBytes(BlockSizes, h) \subseteq Nat
<1>1. AppWords \subseteq Nat /\ BlockSizes \subseteq Nat /\ ByteBase \in Nat \ {0}
  BY HostAssumption DEF AppWords
<1>2. \A n \in Nat : n \div ByteBase \in Nat /\ n % ByteBase \in Nat
  BY <1>1
<1> QED
  BY <1>1, <1>2 DEF HighBytes, LowBytes

\* What is fetched is one of the host's bytes or the 0 of giving up.
LEMMA Fetched ==
  ASSUME UsbTyping, gaveUp \in BOOLEAN, NEW byte, NEW bytes, Fetch(byte, bytes)
  PROVE  /\ byte \in bytes \/ byte = 0
         /\ outBytes' \in OutCounts /\ outReceived' \in BOOLEAN /\ gaveUp' \in BOOLEAN
<1>1. CASE outBytes > 0 /\ outBytes' = outBytes - 1 /\ byte \in bytes /\ UNCHANGED <<outReceived, gaveUp>>
  BY <1>1, OutRange DEF UsbTyping
<1>2. CASE /\ outBytes = 0 /\ usb = "unattached" /\ byte = 0
           /\ outReceived' = FALSE /\ gaveUp' = TRUE /\ UNCHANGED outBytes
  BY <1>2 DEF UsbTyping
<1> QED
  BY <1>1, <1>2 DEF Fetch

\* A response keeps the banks and their fill in range.
LEMMA Responded ==
  ASSUME UsbTyping, WriteResponse
  PROVE  fullBanks' \in BankCounts /\ bankBytes' \in InCounts /\ bankTX' \in TxCounts
  BY InRange DEF UsbTyping, WriteResponse, INReady, ClearIN, inBanks

LEMMA EepromStored ==
  ASSUME eeprom \in Eeproms, NEW i, NEW byte \in Nat
  PROVE  [eeprom EXCEPT ![i] = byte] \in Eeproms
  BY DEF Eeproms

-----------------------------------------------------------------------------
(* Types.  Each lemma is a group of actions that touch the same variables. *)

LEMMA TypedStart == Init => Typing
<1> SUFFICES ASSUME Init PROVE Typing
  OBVIOUS
<1>1. UsbTyping
  <2>1. outReceived \in BOOLEAN /\ usb \in {"configured", "default", "unattached"}
    BY DEF Init
  <2> QED
    BY <2>1, OutRange, InRange, ReplyRange DEF Init, UsbTyping
<1>2. BlockTyping
  BY DEF Init, BlockTyping
<1>3. MemoryTyping
  <2>1. flash \in [FlashAddresses -> Contents]
    BY DEF Init, Contents
  <2>2. eeprom \in Eeproms
    BY DEF Init, Eeproms
  <2> QED
    BY <2>1, <2>2, EmptyBufferType DEF Init, MemoryTyping
<1>4. pc \in Places /\ Command \in CommandTypes /\ RunBootloader \in BOOLEAN /\ gaveUp \in BOOLEAN
  BY DEF Init, Places, CommandTypes
<1> QED
  BY <1>1, <1>2, <1>3, <1>4 DEF Typing

\* The host, the bus, and what only changes the banks.
LEMMA TypedBus ==
  Typing /\ (Host \/ Bus \/ ClearEmptyBank \/ WriteReply \/ ReadByte \/ ReadEepromByte) => Typing'
<1> SUFFICES ASSUME Typing, Host \/ Bus \/ ClearEmptyBank \/ WriteReply \/ ReadByte \/ ReadEepromByte
             PROVE  Typing'
  OBVIOUS
<1>a. UsbTyping /\ BlockTyping /\ MemoryTyping /\ pc \in Places /\ Command \in CommandTypes
      /\ RunBootloader \in BOOLEAN /\ gaveUp \in BOOLEAN
  BY DEF Typing
<1>1. CASE \E n \in 1..CDC_RX_EPSIZE : HostSends(n)
  BY <1>a, <1>1, OutRange
     DEF Typing, HostSends, UsbTyping, BlockTyping, MemoryTyping, bus, inBanks, blockVars, memVars, hist
<1>2. CASE HostFetches
  BY <1>a, <1>2, InRange
     DEF Typing, HostFetches, UsbTyping, BlockTyping, MemoryTyping, bus, inBanks, blockVars, memVars, hist
<1>3. CASE Unplug \/ Resume
  BY <1>a, <1>3
     DEF Typing, Unplug, Resume, UsbTyping, BlockTyping, MemoryTyping, bus, inBanks, blockVars, memVars, hist
<1>4. CASE BusReset \/ Enumerate
  BY <1>a, <1>4, OutRange, InRange
     DEF Typing, BusReset, Enumerate, UsbTyping, BlockTyping, MemoryTyping, bus, inBanks, blockVars,
         memVars, hist
<1>5. CASE ClearEmptyBank
  BY <1>a, <1>5
     DEF Typing, ClearEmptyBank, UsbTyping, BlockTyping, MemoryTyping, bus, inBanks, blockVars, memVars, hist
<1>6. CASE WriteReply
  <2>1. toSend' \in Replies /\ pc' \in Places
    BY <1>a, <1>6, ReplyRange DEF WriteReply, UsbTyping, Places
  <2> QED
    BY <1>a, <1>6, <2>1, Responded
       DEF Typing, WriteReply, UsbTyping, BlockTyping, MemoryTyping, bus, blockVars, memVars, hist
<1>7. CASE ReadByte
  <2>1. BlockSize' \in Nat /\ HighByte' \in {0, 1} /\ CurrAddress' \in Nat
    BY <1>a, <1>7 DEF ReadByte, NextByte, BlockTyping
  <2> QED
    BY <1>a, <1>7, <2>1, Responded
       DEF Typing, ReadByte, UsbTyping, BlockTyping, MemoryTyping, bus, memVars, hist
<1>8. CASE ReadEepromByte
  <2>1. BlockSize' \in Nat /\ CurrAddress' \in Nat
    BY <1>a, <1>8 DEF ReadEepromByte, BlockTyping
  <2> QED
    BY <1>a, <1>8, <2>1, Responded
       DEF Typing, ReadEepromByte, UsbTyping, BlockTyping, MemoryTyping, bus, memVars, hist
<1> QED
  BY <1>1, <1>2, <1>3, <1>4, <1>5, <1>6, <1>7, <1>8 DEF Host, Bus

\* The first byte of a command, and the end of one.
LEMMA TypedTask == Typing /\ (Begin \/ EndTask \/ AbandonTask \/ Restart) => Typing'
<1> SUFFICES ASSUME Typing, Begin \/ EndTask \/ AbandonTask \/ Restart PROVE Typing'
  OBVIOUS
<1>a. UsbTyping /\ BlockTyping /\ MemoryTyping /\ pc \in Places /\ Command \in CommandTypes
      /\ RunBootloader \in BOOLEAN /\ gaveUp \in BOOLEAN
  BY DEF Typing
<1>1. ASSUME NEW command \in CommandTypes, NEW reply \in Replies, BeginTask(command, reply)
      PROVE  /\ outBytes' \in OutCounts /\ bankTX' \in TxCounts /\ toSend' \in Replies
             /\ Command' \in CommandTypes /\ start' \in Nat /\ asked' \in Nat /\ gaveUp' \in BOOLEAN
  BY <1>a, <1>1, OutRange, InRange DEF BeginTask, UsbTyping, BlockTyping
<1>2. /\ \A c \in {"exit", "argument", "simple", "sync", "address", "erase", "blockRead", "blockWrite"} :
            c \in CommandTypes
      /\ {"reply", "finish", "argument", "addressHigh", "erase", "sizeHigh", "main"} \subseteq Places
  BY DEF CommandTypes, Places
<1>3. CASE \E reply \in 1..MaxReply : Simple(reply)
  BY <1>a, <1>1, <1>2, <1>3, ReplyRange
     DEF Simple, Typing, UsbTyping, BlockTyping, MemoryTyping, bus, inBanks, blockVars, memVars
<1>4. CASE Sync
  BY <1>a, <1>1, <1>2, <1>4, ReplyRange
     DEF Sync, Typing, UsbTyping, BlockTyping, MemoryTyping, bus, inBanks, blockVars, memVars
<1>5. CASE ExitBootloader
  BY <1>a, <1>1, <1>2, <1>5, ReplyRange
     DEF ExitBootloader, Typing, UsbTyping, BlockTyping, MemoryTyping, bus, inBanks, blockVars, memVars
<1>6. CASE BeginWithArgument
  BY <1>a, <1>1, <1>2, <1>6, ReplyRange
     DEF BeginWithArgument, Typing, UsbTyping, BlockTyping, MemoryTyping, bus, inBanks, blockVars, memVars
<1>7. CASE BeginSetAddress
  BY <1>a, <1>1, <1>2, <1>7, ReplyRange
     DEF BeginSetAddress, Typing, UsbTyping, BlockTyping, MemoryTyping, bus, inBanks, blockVars, memVars
<1>8. CASE BeginErase
  BY <1>a, <1>1, <1>2, <1>8, ReplyRange
     DEF BeginErase, Typing, UsbTyping, BlockTyping, MemoryTyping, bus, inBanks, memVars
<1>9. CASE \E command \in {"blockRead", "blockWrite"} : BeginBlock(command)
  BY <1>a, <1>1, <1>2, <1>9, ReplyRange
     DEF BeginBlock, Typing, UsbTyping, BlockTyping, MemoryTyping, bus, inBanks, blockVars, memVars
<1>10. CASE Return
  <2>1. /\ pc' \in Places /\ Command' \in CommandTypes /\ gaveUp' \in BOOLEAN
        /\ CurrFlashAddress' \in Nat /\ PageStartAddress' \in Nat /\ BlockSize' \in Nat
        /\ HighByte' \in {0, 1} /\ LowByte' \in Nat /\ asked' \in Nat /\ start' \in Nat
    BY <1>10, <1>2 DEF Return, CommandTypes
  <2>2. CASE EndTask
    <3>1. /\ outReceived' \in BOOLEAN /\ outBytes' \in OutCounts
          /\ fullBanks' \in BankCounts /\ bankBytes' \in InCounts
      BY <1>a, <2>2, OutRange, InRange DEF EndTask, ClearOUT, ClearIN, INReady, UsbTyping, inBanks
    <3> QED
      BY <1>a, <2>1, <2>2, <3>1 DEF EndTask, Typing, UsbTyping, BlockTyping, MemoryTyping, bus, memVars
  <2>3. CASE AbandonTask
    BY <1>a, <2>1, <2>3
       DEF AbandonTask, Typing, UsbTyping, BlockTyping, MemoryTyping, usbVars, bus, inBanks, memVars
  <2>4. CASE Restart
    <3>1. /\ outReceived' \in BOOLEAN /\ usb' \in {"configured", "default", "unattached"}
          /\ RunBootloader' \in BOOLEAN
      BY <2>4 DEF Restart
    <3>2. /\ outBytes' \in OutCounts /\ fullBanks' \in BankCounts /\ bankBytes' \in InCounts
          /\ bankTX' \in TxCounts /\ toSend' \in Replies /\ USB_Device_ConfigurationNumber' \in {0, 1}
          /\ CurrAddress' \in Nat
      BY <2>4, OutRange, InRange, ReplyRange DEF Restart
    <3>3. MemoryTyping'
      BY <1>a, <2>4, EmptyBufferType DEF Restart, MemoryTyping
    <3> QED
      BY <2>1, <3>1, <3>2, <3>3 DEF Typing, UsbTyping, BlockTyping
  <2> QED
    BY <1>10, <2>2, <2>3, <2>4, <1>3, <1>4, <1>5, <1>6, <1>7, <1>8, <1>9 DEF Begin
<1> QED
  BY <1>3, <1>4, <1>5, <1>6, <1>7, <1>8, <1>9, <1>10 DEF Begin, EndTask, AbandonTask, Restart

\* The bytes of a command after the first.
LEMMA TypedFetches ==
  Typing /\ (\/ FetchArgument \/ FetchAddressHigh \/ FetchAddressLow \/ FetchSizeHigh \/ FetchSizeLow
             \/ RejectMemoryType \/ BeginRead \/ BeginEeprom) => Typing'
<1> SUFFICES ASSUME Typing,
                    \/ FetchArgument \/ FetchAddressHigh \/ FetchAddressLow \/ FetchSizeHigh
                    \/ FetchSizeLow \/ RejectMemoryType \/ BeginRead \/ BeginEeprom
             PROVE  Typing'
  OBVIOUS
<1>a. UsbTyping /\ BlockTyping /\ MemoryTyping /\ pc \in Places /\ Command \in CommandTypes
      /\ RunBootloader \in BOOLEAN /\ gaveUp \in BOOLEAN
  BY DEF Typing
<1>b. {"reply", "addressLow", "sizeLow", "memoryType", "read", "readEeprom", "writeEeprom"} \subseteq Places
  BY DEF Places
<1>c. \A x, y \in Nat : x * ByteBase \in Nat /\ 2 * x * ByteBase \in Nat /\ x + 2 * y \in Nat /\ x + y \in Nat
  BY BytesAreNat
<1>1. CASE FetchArgument
  BY <1>a, <1>b, <1>1, Fetched
     DEF FetchArgument, Typing, UsbTyping, BlockTyping, MemoryTyping, bus, inBanks, blockVars, memVars, hist
<1>2. CASE FetchAddressHigh
  <2>1. CurrAddress' \in Nat /\ outBytes' \in OutCounts /\ outReceived' \in BOOLEAN /\ gaveUp' \in BOOLEAN
    BY <1>a, <1>c, <1>2, Fetched, BytesAreNat DEF FetchAddressHigh
  <2> QED
    BY <1>a, <1>b, <1>2, <2>1
       DEF FetchAddressHigh, Typing, UsbTyping, BlockTyping, MemoryTyping, bus, inBanks, blockVars,
           memVars, hist
<1>3. CASE FetchAddressLow
  <2>1. CurrAddress' \in Nat /\ outBytes' \in OutCounts /\ outReceived' \in BOOLEAN /\ gaveUp' \in BOOLEAN
    BY <1>a, <1>c, <1>3, Fetched, BytesAreNat DEF FetchAddressLow, BlockTyping
  <2> QED
    BY <1>a, <1>b, <1>3, <2>1
       DEF FetchAddressLow, Typing, UsbTyping, BlockTyping, MemoryTyping, bus, inBanks, blockVars,
           memVars, hist
<1>4. CASE FetchSizeHigh
  <2>1. BlockSize' \in Nat /\ outBytes' \in OutCounts /\ outReceived' \in BOOLEAN /\ gaveUp' \in BOOLEAN
    BY <1>a, <1>c, <1>4, Fetched, BytesAreNat DEF FetchSizeHigh
  <2> QED
    BY <1>a, <1>b, <1>4, <2>1
       DEF FetchSizeHigh, Typing, UsbTyping, BlockTyping, MemoryTyping, bus, inBanks, memVars, hist
<1>5. CASE FetchSizeLow
  <2>1. BlockSize' \in Nat /\ outBytes' \in OutCounts /\ outReceived' \in BOOLEAN /\ gaveUp' \in BOOLEAN
    BY <1>a, <1>c, <1>5, Fetched, BytesAreNat DEF FetchSizeLow, BlockTyping
  <2> QED
    BY <1>a, <1>b, <1>5, <2>1
       DEF FetchSizeLow, Typing, UsbTyping, BlockTyping, MemoryTyping, bus, inBanks, memVars
<1>6. CASE RejectMemoryType
  BY <1>a, <1>b, <1>6, Fetched, ReplyRange
     DEF RejectMemoryType, Typing, UsbTyping, BlockTyping, MemoryTyping, bus, inBanks, blockVars, memVars, hist
<1>7. CASE BeginRead
  BY <1>a, <1>b, <1>7, Fetched
     DEF BeginRead, Typing, UsbTyping, BlockTyping, MemoryTyping, bus, inBanks, blockVars, memVars, hist
<1>8. CASE BeginEeprom
  BY <1>a, <1>b, <1>8, Fetched
     DEF BeginEeprom, Typing, UsbTyping, BlockTyping, MemoryTyping, bus, inBanks, memVars, hist
<1> QED
  BY <1>1, <1>2, <1>3, <1>4, <1>5, <1>6, <1>7, <1>8

-----------------------------------------------------------------------------
(* The flash.  Five actions touch it or the page buffer; of the others, some stay where *)
(* they are and the rest leave for, or come from, places where the buffer is empty.     *)

Still == UNCHANGED <<pc, flash, pageBuffer, CurrFlashAddress, PageStartAddress, Command, start>>

Leaving == /\ UNCHANGED <<flash, pageBuffer>>
           /\ pc \notin {"write", "commit"}
           /\ pc' \notin {"erase", "eraseWrite", "write", "commit"}

LEMMA Stays ==
  Host \/ Bus \/ ClearEmptyBank \/ ReadByte \/ ReadEepromByte \/ WriteEepromByte
    \/ UNCHANGED vars => Still
<1>1. Host => Still
  BY DEF Host, HostSends, HostFetches, Still, memVars, blockVars, hist
<1>2. Bus => Still
  BY DEF Bus, Unplug, Resume, BusReset, Enumerate, Still, memVars, blockVars, hist
<1>3. ClearEmptyBank \/ ReadByte => Still
  BY DEF ClearEmptyBank, ReadByte, Still, memVars, blockVars, hist
<1>4. ReadEepromByte \/ WriteEepromByte => Still
  BY DEF ReadEepromByte, WriteEepromByte, Still, memVars, blockVars, hist
<1>5. UNCHANGED vars => Still
  BY DEF vars, Still, memVars, blockVars, hist
<1> QED
  BY <1>1, <1>2, <1>3, <1>4, <1>5

LEMMA Leaves ==
  \/ \E reply \in 1..MaxReply : Simple(reply)
  \/ Sync \/ ExitBootloader \/ BeginWithArgument \/ BeginSetAddress
  \/ \E command \in {"blockRead", "blockWrite"} : BeginBlock(command)
  \/ FetchArgument \/ FetchAddressHigh \/ FetchAddressLow \/ EndErase \/ WriteReply \/ EndTask
  \/ AbandonTask \/ FetchSizeHigh \/ FetchSizeLow \/ RejectMemoryType \/ BeginRead \/ EndRead
  \/ BeginEeprom \/ EndEeprom
 => Leaving
<1>1. (\E reply \in 1..MaxReply : Simple(reply)) \/ Sync \/ ExitBootloader => Leaving
  BY DEF Simple, Sync, ExitBootloader, BeginTask, memVars, Leaving
<1>2. BeginWithArgument \/ BeginSetAddress => Leaving
  BY DEF BeginWithArgument, BeginSetAddress, BeginTask, memVars, Leaving
<1>3. (\E command \in {"blockRead", "blockWrite"} : BeginBlock(command)) => Leaving
  BY DEF BeginBlock, BeginTask, memVars, Leaving
<1>4. FetchArgument \/ FetchAddressHigh \/ FetchAddressLow => Leaving
  BY DEF FetchArgument, FetchAddressHigh, FetchAddressLow, memVars, Leaving
<1>5. EndErase \/ WriteReply \/ EndTask \/ AbandonTask => Leaving
  BY DEF EndErase, WriteReply, EndTask, AbandonTask, Return, memVars, Leaving
<1>6. FetchSizeHigh \/ FetchSizeLow \/ RejectMemoryType => Leaving
  BY DEF FetchSizeHigh, FetchSizeLow, RejectMemoryType, memVars, Leaving
<1>7. BeginRead \/ EndRead \/ BeginEeprom \/ EndEeprom => Leaving
  BY DEF BeginRead, EndRead, BeginEeprom, EndEeprom, memVars, Leaving
<1> QED
  BY <1>1, <1>2, <1>3, <1>4, <1>5, <1>6, <1>7

\* Every step is one of these.
LEMMA Steps ==
  [Next]_vars => \/ Still \/ Leaving \/ BeginErase \/ EraseNextPage \/ WriteErasedPage
                 \/ BeginWrite \/ WriteByte \/ EndWrite \/ Commit \/ Restart
<1>1. Begin => Leaving \/ BeginErase
  BY Leaves DEF Begin
<1>2. Task => \/ Still \/ Leaving \/ EraseNextPage \/ WriteErasedPage
              \/ BeginWrite \/ WriteByte \/ EndWrite \/ Commit
  BY Stays, Leaves DEF Task
<1>3. Host \/ Bus \/ UNCHANGED vars => Still
  BY Stays
<1> QED
  BY <1>1, <1>2, <1>3 DEF Next

\* What is written next is one of the host's bytes or the 0 of giving up.
LEMMA ByteFetched ==
  ASSUME IInv, WriteByte
  PROVE  /\ pageBuffer' \in Buffers /\ LowByte' \in Nat
         /\ outBytes' \in OutCounts /\ outReceived' \in BOOLEAN /\ gaveUp' \in BOOLEAN
<1>a. UsbTyping /\ BlockTyping /\ pageBuffer \in Buffers /\ gaveUp \in BOOLEAN
      /\ BlockSize <= asked /\ BlockSize > 0
  BY DEF IInv, Typing, MemoryTyping, Stepping, WriteByte
<1>1. asked - BlockSize + 1 \in Nat
  BY <1>a DEF BlockTyping
<1>2. PICK byte \in {0, asked - BlockSize + 1} :
        /\ Fetch(byte, {asked - BlockSize + 1})
        /\ IF HighByte = 1
           THEN pageBuffer' = FillWord(pageBuffer, CurrAddress, LowByte, byte) /\ UNCHANGED LowByte
           ELSE LowByte' = byte /\ UNCHANGED pageBuffer
  BY DEF WriteByte
<1>3. byte \in Nat
  BY <1>1, <1>2
<1>4. FillWord(pageBuffer, CurrAddress, LowByte, byte) \in Buffers
  BY <1>a, <1>3, FillWordType DEF BlockTyping
<1>5. pageBuffer' \in Buffers /\ LowByte' \in Nat
  BY <1>a, <1>2, <1>3, <1>4 DEF BlockTyping
<1>6. Fetch(byte, {asked - BlockSize + 1})
  BY <1>2
<1> QED
  BY <1>a, <1>5, <1>6, Fetched

LEMMA FlashStep == IInv /\ [Next]_vars => FlashInv'
<1> SUFFICES ASSUME IInv, [Next]_vars PROVE FlashInv'
  OBVIOUS
<1>a. /\ flash \in Sound /\ Buffered /\ Behind /\ ToWriteErased /\ ToCommit
      /\ pageBuffer \in Buffers /\ CurrFlashAddress \in Nat /\ CurrAddress \in Nat
      /\ PageStartAddress \in Nat
  BY DEF IInv, FlashInv, Typing, MemoryTyping, BlockTyping
<1>1. CASE Still
  BY <1>a, <1>1 DEF Still, FlashInv, Buffered, Behind, ToWriteErased, ToCommit
<1>2. CASE Leaving
  BY <1>a, <1>2 DEF Leaving, FlashInv, Buffered, Behind, ToWriteErased, ToCommit
<1>3. CASE BeginErase
  <2>1. /\ pc = "main" /\ pc' = "erase" /\ CurrFlashAddress' = 0 /\ Command' = "erase"
        /\ UNCHANGED <<flash, pageBuffer>>
    BY <1>3 DEF BeginErase, BeginTask, memVars
  <2>2. CurrFlashAddress' = 0 * SPM_PAGESIZE /\ 0 \in Nat
    BY <2>1, PageSize
  <2>3. \A a \in FlashAddresses : ~(a < CurrFlashAddress')
    BY <2>1, AddressIsNat
  <2>4. Behind'
    BY <2>1, <2>2, <2>3 DEF Behind
  <2> QED
    BY <1>a, <2>1, <2>4 DEF FlashInv, Buffered, ToWriteErased, ToCommit
<1>4. CASE EraseNextPage
  <2>1. /\ pc = "erase" /\ pc' = "eraseWrite" /\ CurrFlashAddress < BOOT_START_ADDR
        /\ flash' = ErasePage(flash, PageOf(CurrFlashAddress))
        /\ UNCHANGED <<pageBuffer, CurrFlashAddress, Command>>
    BY <1>4 DEF EraseNextPage, blockVars
  <2>2. flash' \in Sound /\ Blank(flash', PageOf(CurrFlashAddress))
        /\ \A a \in FlashAddresses : flash[a] = Erased => flash'[a] = Erased
    BY <1>a, <2>1, Erasing
  <2>3. Behind'
    BY <1>a, <2>1, <2>2 DEF Behind
  <2>4. ToWriteErased'
    BY <2>1, <2>2 DEF ToWriteErased
  <2> QED
    BY <1>a, <2>1, <2>2, <2>3, <2>4 DEF FlashInv, Buffered, ToCommit
<1>5. CASE WriteErasedPage
  <2>1. /\ pc = "eraseWrite" /\ pc' = "erase" /\ pageBuffer = EmptyBuffer /\ pageBuffer' = EmptyBuffer
        /\ flash' = WritePage(flash, EmptyBuffer, PageOf(CurrFlashAddress))
        /\ CurrFlashAddress' = CurrFlashAddress + SPM_PAGESIZE /\ UNCHANGED Command
    BY <1>a, <1>5 DEF WriteErasedPage, Buffered
  <2>2. flash' = flash
    BY <1>a, <2>1, WritesItsPage
  <2>3. PICK k \in Nat : CurrFlashAddress = k * SPM_PAGESIZE
    BY <1>a, <2>1 DEF Behind
  <2>4. CurrFlashAddress' = (k + 1) * SPM_PAGESIZE /\ k + 1 \in Nat
    BY <2>1, <2>3, PageSize
  <2>5. ASSUME NEW a \in FlashAddresses, a < CurrFlashAddress' PROVE flash[a] = Erased
    <3>1. a \in Nat
      BY AddressIsNat
    <3>2. CASE a < CurrFlashAddress
      BY <1>a, <2>1, <3>2 DEF Behind
    <3>3. CASE ~(a < CurrFlashAddress)
      <4>1. k * SPM_PAGESIZE <= a /\ a < k * SPM_PAGESIZE + SPM_PAGESIZE
        BY <1>a, <2>1, <2>3, <2>5, <3>1, <3>3, PageSize
      <4>2. PageOf(a) = PageOf(CurrFlashAddress)
        BY <2>3, <3>1, <4>1, WholePage
      <4> QED
        BY <1>a, <2>1, <4>2 DEF ToWriteErased, Blank
    <3> QED
      BY <3>2, <3>3
  <2>6. Behind'
    BY <1>a, <2>1, <2>2, <2>4, <2>5 DEF Behind
  <2> QED
    BY <1>a, <2>1, <2>2, <2>6 DEF FlashInv, Buffered, ToWriteErased, ToCommit
<1>6. CASE BeginWrite
  <2>1. /\ pc = "memoryType" /\ pc' = "write" /\ PageStartAddress' = CurrAddress
        /\ flash' = ErasePage(flash, PageOf(CurrAddress)) /\ CurrAddress < BOOT_START_ADDR
        /\ Command = "blockWrite" /\ UNCHANGED <<Command, start>>
    BY <1>6 DEF BeginWrite, InPage, hist
  <2>2. start = CurrAddress
    BY <2>1 DEF IInv, Asking
  <2>3. flash' \in Sound /\ Blank(flash', PageOf(CurrAddress))
    BY <1>a, <2>1, Erasing
  <2>4. ToCommit'
    BY <2>1, <2>2, <2>3 DEF ToCommit
  <2> QED
    BY <2>1, <2>3, <2>4 DEF FlashInv, Buffered, Behind, ToWriteErased
<1>7. CASE WriteByte \/ EndWrite
  <2>1. /\ pc = "write" /\ pc' \in {"write", "commit"}
        /\ UNCHANGED <<flash, PageStartAddress, Command, start>>
    BY <1>7 DEF WriteByte, EndWrite, NextByte, memVars, blockVars, hist
  <2> QED
    BY <1>a, <2>1 DEF FlashInv, Buffered, Behind, ToWriteErased, ToCommit
<1>8. CASE Commit
  <2>1. /\ pc = "commit" /\ pc' = "reply" /\ pageBuffer' = EmptyBuffer
        /\ flash' = WritePage(flash, pageBuffer, PageOf(PageStartAddress))
    BY <1>8 DEF Commit
  <2>2. flash' \in Sound
    BY <1>a, <2>1, WritesBlank DEF ToCommit
  <2> QED
    BY <2>1, <2>2 DEF FlashInv, Buffered, Behind, ToWriteErased, ToCommit
<1>9. CASE Restart
  <2>1. pc' = "main" /\ pageBuffer' = EmptyBuffer /\ flash' = flash
    BY <1>9 DEF Restart, Return
  <2> QED
    BY <1>a, <2>1 DEF FlashInv, Buffered, Behind, ToWriteErased, ToCommit
<1> QED
  BY <1>1, <1>2, <1>3, <1>4, <1>5, <1>6, <1>7, <1>8, <1>9, Steps

\* The actions that touch the memories keep every type.
LEMMA TypedMemory ==
  IInv /\ FlashInv' /\ (\/ EraseNextPage \/ WriteErasedPage \/ EndErase \/ EndRead \/ BeginWrite
                        \/ WriteByte \/ EndWrite \/ Commit \/ WriteEepromByte \/ EndEeprom) => Typing'
<1> SUFFICES ASSUME IInv, FlashInv',
                    \/ EraseNextPage \/ WriteErasedPage \/ EndErase \/ EndRead \/ BeginWrite
                    \/ WriteByte \/ EndWrite \/ Commit \/ WriteEepromByte \/ EndEeprom
             PROVE  Typing'
  OBVIOUS
<1>a. UsbTyping /\ BlockTyping /\ MemoryTyping /\ pc \in Places /\ Command \in CommandTypes
      /\ RunBootloader \in BOOLEAN /\ gaveUp \in BOOLEAN
  BY DEF IInv, Typing
<1>b. flash' \in [FlashAddresses -> Contents]
  BY DEF FlashInv, Sound
<1>c. {"erase", "eraseWrite", "reply", "finish", "write", "commit"} \subseteq Places
  BY DEF Places
<1>1. CASE EraseNextPage
  BY <1>a, <1>b, <1>c, <1>1
     DEF EraseNextPage, Typing, UsbTyping, BlockTyping, MemoryTyping, usbVars, bus, inBanks, blockVars, hist
<1>2. CASE WriteErasedPage
  <2>1. CurrFlashAddress' \in Nat
    BY <1>a, <1>2, PageSize DEF WriteErasedPage, BlockTyping
  <2> QED
    BY <1>a, <1>b, <1>c, <1>2, <2>1, EmptyBufferType
       DEF WriteErasedPage, Typing, UsbTyping, BlockTyping, MemoryTyping, usbVars, bus, inBanks, hist
<1>3. CASE EndErase \/ EndRead \/ EndWrite
  BY <1>a, <1>c, <1>3
     DEF EndErase, EndRead, EndWrite, Typing, UsbTyping, BlockTyping, MemoryTyping, usbVars, bus, inBanks,
         blockVars, memVars, hist
<1>4. CASE BeginWrite
  BY <1>a, <1>b, <1>c, <1>4, Fetched
     DEF BeginWrite, Typing, UsbTyping, BlockTyping, MemoryTyping, bus, inBanks, hist
<1>5. CASE WriteByte
  <2>1. BlockSize' \in Nat /\ HighByte' \in {0, 1} /\ CurrAddress' \in Nat
    BY <1>a, <1>5 DEF WriteByte, NextByte, BlockTyping
  <2> QED
    BY <1>a, <1>5, <2>1, ByteFetched
       DEF WriteByte, Typing, UsbTyping, BlockTyping, MemoryTyping, bus, inBanks, hist
<1>6. CASE Commit
  BY <1>a, <1>b, <1>c, <1>6, EmptyBufferType, ReplyRange
     DEF Commit, Typing, UsbTyping, BlockTyping, MemoryTyping, usbVars, bus, inBanks, blockVars, hist
<1>7. CASE WriteEepromByte
  <2>1. BlockSize <= asked /\ BlockSize > 0
    BY <1>7 DEF WriteEepromByte, IInv, Stepping
  <2>2. PICK byte \in {0, asked - BlockSize + 1} :
          /\ Fetch(byte, {asked - BlockSize + 1})
          /\ eeprom' = [eeprom EXCEPT ![CurrAddress \div 2] = byte]
    BY <1>7 DEF WriteEepromByte
  <2>3. byte \in Nat
    <3>1. asked - BlockSize + 1 \in Nat
      BY <1>a, <2>1 DEF BlockTyping
    <3> QED
      BY <2>2, <3>1
  <2>4. eeprom' \in Eeproms
    BY <1>a, <2>2, <2>3, EepromStored DEF MemoryTyping
  <2>5. BlockSize' \in Nat /\ CurrAddress' \in Nat
    BY <1>a, <1>7 DEF WriteEepromByte, BlockTyping
  <2>6. outBytes' \in OutCounts /\ outReceived' \in BOOLEAN /\ gaveUp' \in BOOLEAN
    BY <1>a, <2>2, Fetched
  <2> QED
    BY <1>a, <1>7, <2>4, <2>5, <2>6
       DEF WriteEepromByte, Typing, UsbTyping, BlockTyping, MemoryTyping, bus, inBanks, hist
<1>8. CASE EndEeprom
  BY <1>a, <1>c, <1>8, ReplyRange
     DEF EndEeprom, Typing, UsbTyping, BlockTyping, MemoryTyping, usbVars, bus, inBanks, blockVars,
         memVars, hist
<1> QED
  BY <1>1, <1>2, <1>3, <1>4, <1>5, <1>6, <1>7, <1>8

LEMMA TypedStep == IInv /\ FlashInv' /\ [Next]_vars => Typing'
<1> SUFFICES ASSUME IInv, FlashInv', [Next]_vars PROVE Typing'
  OBVIOUS
<1>1. CASE UNCHANGED vars
  BY <1>1 DEF IInv, Typing, UsbTyping, BlockTyping, MemoryTyping, vars, usbVars, bus, inBanks,
              blockVars, memVars, hist
<1> QED
  BY <1>1, TypedBus, TypedTask, TypedFetches, TypedMemory DEF IInv, Next, Task

-----------------------------------------------------------------------------
(* The block and its address. *)

Waiting == UNCHANGED <<pc, CurrAddress, BlockSize, HighByte, asked, start>>
Away    == pc' \notin {"main", "sizeHigh", "sizeLow", "memoryType", "read", "write", "writeEeprom"}

LEMMA Waits == Host \/ Bus \/ ClearEmptyBank \/ UNCHANGED vars => Waiting
<1>1. Host => Waiting
  BY DEF Host, HostSends, HostFetches, Waiting, blockVars, hist
<1>2. Bus => Waiting
  BY DEF Bus, Unplug, Resume, BusReset, Enumerate, Waiting, blockVars, hist
<1>3. ClearEmptyBank \/ UNCHANGED vars => Waiting
  BY DEF ClearEmptyBank, vars, Waiting, blockVars, hist
<1> QED
  BY <1>1, <1>2, <1>3

LEMMA GoesAway ==
  \/ \E reply \in 1..MaxReply : Simple(reply)
  \/ Sync \/ ExitBootloader \/ BeginWithArgument \/ BeginSetAddress \/ BeginErase
  \/ FetchArgument \/ FetchAddressHigh \/ FetchAddressLow
  \/ EraseNextPage \/ WriteErasedPage \/ EndErase \/ RejectMemoryType
  \/ EndRead \/ EndWrite \/ Commit \/ ReadEepromByte \/ EndEeprom \/ WriteReply
 => Away
<1>1. (\E reply \in 1..MaxReply : Simple(reply)) \/ Sync \/ ExitBootloader \/ BeginWithArgument => Away
  BY DEF Simple, Sync, ExitBootloader, BeginWithArgument, Away
<1>2. BeginSetAddress \/ BeginErase \/ FetchArgument \/ FetchAddressHigh \/ FetchAddressLow => Away
  BY DEF BeginSetAddress, BeginErase, FetchArgument, FetchAddressHigh, FetchAddressLow, Away
<1>3. EraseNextPage \/ WriteErasedPage \/ EndErase \/ RejectMemoryType => Away
  BY DEF EraseNextPage, WriteErasedPage, EndErase, RejectMemoryType, Away
<1>4. EndRead \/ EndWrite \/ Commit \/ ReadEepromByte \/ EndEeprom \/ WriteReply => Away
  BY DEF EndRead, EndWrite, Commit, ReadEepromByte, EndEeprom, WriteReply, Away
<1> QED
  BY <1>1, <1>2, <1>3, <1>4

LEMMA ReturnsEven == EndTask \/ AbandonTask \/ Restart => pc' = "main" /\ HighByte' = 0
  BY DEF EndTask, AbandonTask, Restart, Return

LEMMA BlockStep == IInv /\ [Next]_vars => Asking' /\ Stepping'
<1> SUFFICES ASSUME IInv, [Next]_vars PROVE Asking' /\ Stepping'
  OBVIOUS
<1>a. Asking /\ Stepping /\ BlockTyping
  BY DEF IInv, Typing
<1>1. CASE Waiting
  BY <1>a, <1>1 DEF Waiting, Asking, Stepping, AddressInStep
<1>2. CASE Away
  BY <1>2 DEF Away, Asking, Stepping, AddressInStep
<1>3. CASE EndTask \/ AbandonTask \/ Restart
  BY <1>3, ReturnsEven DEF Asking, Stepping, AddressInStep
<1>4. CASE \E command \in {"blockRead", "blockWrite"} : BeginBlock(command)
  <2>1. /\ pc = "main" /\ pc' = "sizeHigh" /\ start' = CurrAddress
        /\ UNCHANGED <<CurrAddress, HighByte>>
    BY <1>4 DEF BeginBlock, BeginTask, blockVars
  <2> QED
    BY <1>a, <2>1 DEF Asking, Stepping, AddressInStep
<1>5. CASE FetchSizeHigh \/ FetchSizeLow
  <2>1. /\ pc \in {"sizeHigh", "sizeLow"} /\ pc' \in {"sizeLow", "memoryType"}
        /\ pc' = "memoryType" => asked' = BlockSize'
        /\ UNCHANGED <<CurrAddress, HighByte, start>>
    BY <1>5 DEF FetchSizeHigh, FetchSizeLow, hist
  <2> QED
    BY <1>a, <2>1 DEF Asking, Stepping, AddressInStep
<1>6. CASE BeginRead \/ BeginWrite \/ BeginEeprom
  <2>1. /\ pc = "memoryType" /\ pc' \in {"read", "write", "readEeprom", "writeEeprom"}
        /\ UNCHANGED <<CurrAddress, HighByte, start, asked, BlockSize>>
    BY <1>6 DEF BeginRead, BeginWrite, BeginEeprom, blockVars, hist
  <2>2. HighByte = 0 /\ start = CurrAddress /\ asked = BlockSize
    BY <1>a, <2>1 DEF Asking
  <2>3. AddressInStep'
    BY <1>a, <2>1, <2>2 DEF AddressInStep, BlockTyping
  <2>4. BlockSize' <= asked'
    BY <1>a, <2>1, <2>2 DEF BlockTyping
  <2> QED
    BY <2>1, <2>3, <2>4 DEF Asking, Stepping
<1>7. CASE ReadByte \/ WriteByte
  <2>1. /\ pc \in {"read", "write"} /\ UNCHANGED <<pc, start, asked>>
        /\ BlockSize > 0 /\ NextByte
    BY <1>7 DEF ReadByte, WriteByte, hist
  <2>2. CurrAddress' + HighByte' = (CurrAddress + HighByte) + 1
    BY <1>a, <2>1 DEF NextByte, BlockTyping
  <2>3. CurrAddress + HighByte = start + (asked - BlockSize) /\ BlockSize <= asked
    BY <1>a, <2>1 DEF Stepping, AddressInStep
  <2>4. BlockSize' = BlockSize - 1
    BY <2>1 DEF NextByte
  <2>5. CurrAddress' + HighByte' = start + (asked - BlockSize') /\ BlockSize' <= asked
    BY <1>a, <2>2, <2>3, <2>4 DEF BlockTyping
  <2> QED
    BY <2>1, <2>5 DEF Asking, Stepping, AddressInStep
<1>8. CASE WriteEepromByte
  <2>1. /\ pc = "writeEeprom" /\ UNCHANGED <<pc, asked>> /\ BlockSize' = BlockSize - 1
    BY <1>8 DEF WriteEepromByte, hist
  <2>2. BlockSize' <= asked'
    BY <1>a, <2>1 DEF Stepping, BlockTyping
  <2> QED
    BY <2>1, <2>2 DEF Asking, Stepping, AddressInStep
<1>9. CASE Begin
  BY <1>2, <1>4, <1>9, GoesAway DEF Begin
<1>10. CASE Task
  BY <1>1, <1>2, <1>3, <1>5, <1>6, <1>7, <1>8, <1>10, Waits, GoesAway DEF Task
<1> QED
  BY <1>1, <1>3, <1>9, <1>10, Waits DEF Next

-----------------------------------------------------------------------------
LEMMA Starts == Init => IInv
<1> SUFFICES ASSUME Init PROVE IInv
  OBVIOUS
<1>1. flash \in Sound
  BY DEF Init, Sound, Contents, Garbled
<1>2. Asking /\ Stepping
  BY DEF Init, Asking, Stepping, AddressInStep
<1>3. Buffered /\ Behind /\ ToWriteErased /\ ToCommit
  BY DEF Init, Buffered, Behind, ToWriteErased, ToCommit
<1> QED
  BY <1>1, <1>2, <1>3, TypedStart DEF IInv, FlashInv

\* The page that is being erased or written is blank where it has to be, the buffer is
\* empty where nothing has been put into it, and a block's address and count agree.
THEOREM Invariance == Spec => []IInv
<1>1. IInv /\ [Next]_vars => IInv'
  BY FlashStep, BlockStep, TypedStep DEF IInv
<1> QED
  BY Starts, <1>1, PTL DEF Spec

\* Every variable of Bootloader_Task() and of the memories it works on stays in its range.
THEOREM TypeCorrect == Spec => []TypeOK
<1>1. IInv => TypeOK
  BY TypingIsTypeOK DEF IInv
<1> QED
  BY <1>1, Invariance, PTL

\* The erase command blanks the section from its first page on, with nothing left behind.
THEOREM ErasedIsBehind == Spec => []ErasedFromTheStart
<1>1. IInv => ErasedFromTheStart
  BY DEF IInv, FlashInv, Behind, ErasedFromTheStart
<1> QED
  BY <1>1, Invariance, PTL

\* CurrAddress moves with every second byte of a block, so that byte i of the block is
\* byte i of the memory, whatever the block's size and wherever it begins.
THEOREM AddressKeepsStep == Spec => []AddressInStep
<1>1. IInv => AddressInStep
  BY DEF IInv, Stepping
<1> QED
  BY <1>1, Invariance, PTL

-----------------------------------------------------------------------------
(* What a step does to the flash: nothing, an erase of a page of the application *)
(* section, or a write of one that is blank.                                     *)
LEMMA FlashChanges ==
  ASSUME IInv, [Next]_vars
  PROVE  \/ UNCHANGED flash
         \/ /\ Command = "erase" /\ CurrFlashAddress < BOOT_START_ADDR
            /\ flash' = ErasePage(flash, PageOf(CurrFlashAddress))
         \/ /\ Command = "blockWrite" /\ start < BOOT_START_ADDR
            /\ \/ flash' = ErasePage(flash, PageOf(start))
               \/ /\ flash' = WritePage(flash, pageBuffer, PageOf(start))
                  /\ Blank(flash, PageOf(start))
<1>a. flash \in Sound /\ Buffered /\ Behind /\ ToCommit /\ Asking
  BY DEF IInv, FlashInv
<1>1. CASE EraseNextPage
  BY <1>a, <1>1 DEF EraseNextPage, Behind
<1>2. CASE WriteErasedPage
  <2>1. flash' = WritePage(flash, EmptyBuffer, PageOf(CurrFlashAddress))
    BY <1>a, <1>2 DEF WriteErasedPage, Buffered
  <2> QED
    BY <1>a, <2>1, WritesItsPage
<1>3. CASE BeginWrite
  BY <1>a, <1>3 DEF BeginWrite, Asking, InPage
<1>4. CASE Commit
  BY <1>a, <1>4 DEF Commit, ToCommit
<1>5. CASE Still \/ Leaving \/ BeginErase \/ WriteByte \/ EndWrite \/ Restart
  BY <1>5 DEF Still, Leaving, BeginErase, WriteByte, EndWrite, Restart, memVars
<1> QED
  BY <1>1, <1>2, <1>3, <1>4, <1>5, Steps

\* Whatever is lost, and whatever the power does, a block write changes the page the address
\* named when it began and an erase what is below BOOT_START_ADDR.
THEOREM DamageIsConfined == Spec => DamageConfined
<1>1. ASSUME IInv, [Next]_vars, NEW a \in FlashAddresses, flash'[a] # flash[a]
      PROVE  \/ Command = "erase" /\ a < BOOT_START_ADDR
             \/ Command = "blockWrite" /\ PageOf(a) = PageOf(start)
  <2>a. flash \in Sound /\ a \in Nat /\ CurrFlashAddress \in Nat
    BY <1>1, AddressIsNat DEF IInv, FlashInv, Typing, BlockTyping
  <2>1. CASE /\ Command = "erase" /\ CurrFlashAddress < BOOT_START_ADDR
             /\ flash' = ErasePage(flash, PageOf(CurrFlashAddress))
    <3>1. PageOf(a) = PageOf(CurrFlashAddress)
      BY <1>1, <2>a, <2>1, Erasing
    <3>2. a < BOOT_START_ADDR
      BY <2>a, <2>1, <3>1, AppPage
    <3> QED
      BY <2>1, <3>2
  <2>2. CASE Command = "blockWrite" /\ flash' = ErasePage(flash, PageOf(start))
    BY <1>1, <2>a, <2>2, Erasing
  <2>3. CASE Command = "blockWrite" /\ flash' = WritePage(flash, pageBuffer, PageOf(start))
    BY <1>1, <2>a, <2>3, WritesItsPage
  <2> QED
    BY <1>1, <2>1, <2>2, <2>3, FlashChanges
<1>2. IInv /\ [Next]_vars =>
        [ \A a \in FlashAddresses : flash'[a] # flash[a] =>
            \/ Command = "erase" /\ a < BOOT_START_ADDR
            \/ Command = "blockWrite" /\ PageOf(a) = PageOf(start) ]_vars
  BY <1>1
<1> QED
  BY <1>2, Invariance, PTL DEF Spec, DamageConfined

\* With its state forgotten but for the flash, the self programming is the abstract memory:
\* no byte is ever programmed over, and the bootloader's pages never change.
THEOREM Refinement == Spec => ImplementsFlash
<1>1. Init => Memory!Init
  BY DEF Init, Memory!Init, Memory!FlashAddresses, Memory!Contents, Memory!Erased, Memory!Garbled,
         FlashAddresses
<1>2. ASSUME IInv, [Next]_vars PROVE [Memory!Next]_flash
  <2>a. flash \in Sound /\ start \in Nat /\ CurrFlashAddress \in Nat /\ pageBuffer \in Buffers
    BY <1>2 DEF IInv, FlashInv, Typing, BlockTyping, MemoryTyping
  <2>b. \A f, page : Memory!ErasePage(f, page) = ErasePage(f, page)
    BY DEF Memory!ErasePage, Memory!FlashAddresses, Memory!PageOf, Memory!Erased, ErasePage,
           FlashAddresses, PageOf, Erased
  <2>1. ASSUME NEW x \in Nat, x < BOOT_START_ADDR, flash' = ErasePage(flash, PageOf(x))
        PROVE  Memory!Next
    <3>1. PageOf(x) \in 0..(AppPages - 1)
      BY <2>1, AppPage
    <3>2. Memory!Erase(PageOf(x))
      BY <2>1, <2>b DEF Memory!Erase
    <3> QED
      BY <3>1, <3>2 DEF Memory!Next
  <2>2. CASE /\ start < BOOT_START_ADDR /\ Blank(flash, PageOf(start))
             /\ flash' = WritePage(flash, pageBuffer, PageOf(start))
    <3>1. PageOf(start) \in 0..(AppPages - 1)
      BY <2>a, <2>2, AppPage
    <3>2. /\ flash' \in Sound
          /\ \A a \in FlashAddresses :
               flash'[a] # flash[a] => PageOf(a) = PageOf(start) /\ flash[a] = Erased
      BY <2>a, <2>2, WritesBlank
    <3>3. Memory!Program(PageOf(start))
      BY <3>2 DEF Memory!Program, Memory!FlashAddresses, Memory!Contents, Memory!Garbled,
                  Memory!Erased, Memory!PageOf, FlashAddresses, Sound, Contents, Garbled, Erased, PageOf
    <3> QED
      BY <3>1, <3>3 DEF Memory!Next
  <2> QED
    BY <1>2, <2>a, <2>1, <2>2, FlashChanges
<1> QED
  BY <1>1, <1>2, Invariance, PTL DEF Spec, ImplementsFlash, Memory!Spec
-----------------------------------------------------------------------------
(* What a block has put into the page buffer and into the EEPROM so far, while every *)
(* byte of it was the host's.                                                        *)

PageFilled ==
  pc \in {"write", "commit"} /\ ~gaveUp =>
    /\ OffsetOf(start) + asked <= SPM_PAGESIZE
    /\ CurrAddress + HighByte = start + (asked - BlockSize)
    /\ \E words \in Nat : CurrAddress = start + 2 * words
    /\ HighByte = 1 => LowByte = (CurrAddress - start) + 1
    /\ \A o \in Offsets :
         pageBuffer[o] = IF OffsetOf(start) <= o /\ o < OffsetOf(start) + (CurrAddress - start)
                         THEN (o - OffsetOf(start)) + 1 ELSE Erased
BlockDone == pc = "commit" => BlockSize = 0
EepromFilled ==
  pc = "writeEeprom" /\ ~gaveUp =>
    /\ (start \div 2) + asked <= EepromSize
    /\ CurrAddress = start + 2 * (asked - BlockSize)
    /\ \A i \in Nat : i < asked - BlockSize => eeprom[(start \div 2) + i] = i + 1

Storing == PageFilled /\ BlockDone /\ EepromFilled

Unstored == UNCHANGED <<pc, CurrAddress, HighByte, LowByte, BlockSize, asked, start, gaveUp,
                        pageBuffer, eeprom>>
Elsewhere == pc' \notin {"write", "commit", "writeEeprom"}

LEMMA Unstores == Host \/ Bus \/ ClearEmptyBank \/ UNCHANGED vars => Unstored
<1>1. Host => Unstored
  BY DEF Host, HostSends, HostFetches, Unstored, blockVars, memVars, hist
<1>2. Bus => Unstored
  BY DEF Bus, Unplug, Resume, BusReset, Enumerate, Unstored, blockVars, memVars, hist
<1>3. ClearEmptyBank \/ UNCHANGED vars => Unstored
  BY DEF ClearEmptyBank, vars, Unstored, blockVars, memVars, hist
<1> QED
  BY <1>1, <1>2, <1>3

LEMMA GoesElsewhere ==
  Begin \/ Restart
    \/ FetchArgument \/ FetchAddressHigh \/ FetchAddressLow \/ FetchSizeHigh \/ FetchSizeLow
    \/ EraseNextPage \/ WriteErasedPage \/ EndErase \/ RejectMemoryType \/ BeginRead
    \/ ReadByte \/ EndRead \/ Commit \/ ReadEepromByte \/ EndEeprom \/ WriteReply
    \/ EndTask \/ AbandonTask
 => Elsewhere
<1>1. Begin => Elsewhere
  BY DEF Begin, Simple, Sync, ExitBootloader, BeginWithArgument, BeginSetAddress, BeginErase,
         BeginBlock, Elsewhere
<1>2. FetchArgument \/ FetchAddressHigh \/ FetchAddressLow \/ FetchSizeHigh \/ FetchSizeLow => Elsewhere
  BY DEF FetchArgument, FetchAddressHigh, FetchAddressLow, FetchSizeHigh, FetchSizeLow, Elsewhere
<1>3. EraseNextPage \/ WriteErasedPage \/ EndErase \/ RejectMemoryType \/ BeginRead => Elsewhere
  BY DEF EraseNextPage, WriteErasedPage, EndErase, RejectMemoryType, BeginRead, Elsewhere
<1>4. ReadByte \/ EndRead \/ Commit \/ ReadEepromByte \/ EndEeprom \/ WriteReply => Elsewhere
  BY DEF ReadByte, EndRead, Commit, ReadEepromByte, EndEeprom, WriteReply, Elsewhere
<1>5. EndTask \/ AbandonTask \/ Restart => Elsewhere
  BY DEF EndTask, AbandonTask, Restart, Return, Elsewhere
<1> QED
  BY <1>1, <1>2, <1>3, <1>4, <1>5


LEMMA ByteStored == IInv /\ Storing /\ WriteByte => Storing'
<1> SUFFICES ASSUME IInv, Storing, WriteByte, ~gaveUp' PROVE PageFilled'
  BY DEF Storing, PageFilled, BlockDone, EepromFilled, WriteByte
<1> DEFINE place  == asked - BlockSize + 1
           offset == OffsetOf(start)
           k      == CurrAddress - start
<1>1. PICK byte \in {0, place} :
        /\ Fetch(byte, {place})
        /\ IF HighByte = 1
           THEN pageBuffer' = FillWord(pageBuffer, CurrAddress, LowByte, byte) /\ UNCHANGED LowByte
           ELSE LowByte' = byte /\ UNCHANGED pageBuffer
  BY DEF WriteByte
<1>2. byte = place /\ ~gaveUp
  BY <1>1 DEF Fetch
<1>3. /\ pc = "write" /\ BlockSize > 0 /\ NextByte /\ UNCHANGED <<pc, start, asked>>
  BY DEF WriteByte, hist
<1>4. /\ CurrAddress \in Nat /\ start \in Nat /\ asked \in Nat /\ BlockSize \in Nat /\ HighByte \in {0, 1}
      /\ pageBuffer \in Buffers
  BY DEF IInv, Typing, BlockTyping, MemoryTyping
<1>5. offset \in Nat
  BY <1>4, OffsetType, PageSize DEF Offsets
<1>6. /\ offset + asked <= SPM_PAGESIZE
      /\ CurrAddress + HighByte = start + (asked - BlockSize)
      /\ HighByte = 1 => LowByte = k + 1
      /\ \A o \in Offsets :
           pageBuffer[o] = IF offset <= o /\ o < offset + k THEN (o - offset) + 1 ELSE Erased
  BY <1>2, <1>3 DEF Storing, PageFilled
<1>7. PICK words \in Nat : CurrAddress = start + 2 * words
  BY <1>2, <1>3 DEF Storing, PageFilled
<1>8. k \in Nat /\ k = 2 * words
  BY <1>4, <1>7
<1> HIDE DEF offset
<1>9. CASE HighByte = 0
  <2>1. /\ CurrAddress' = CurrAddress /\ HighByte' = 1 /\ BlockSize' = BlockSize - 1
        /\ LowByte' = place /\ pageBuffer' = pageBuffer
    BY <1>1, <1>2, <1>3, <1>9 DEF NextByte
  <2>2. CurrAddress' + HighByte' = start + (asked - BlockSize') /\ LowByte' = k + 1
    BY <1>4, <1>6, <1>9, <2>1
  <2> QED
    BY <1>3, <1>6, <1>7, <2>1, <2>2 DEF PageFilled, offset
<1>10. CASE HighByte = 1
  <2>1. /\ CurrAddress' = CurrAddress + 2 /\ HighByte' = 0 /\ BlockSize' = BlockSize - 1
        /\ pageBuffer' = FillWord(pageBuffer, CurrAddress, LowByte, place)
    BY <1>1, <1>2, <1>3, <1>10 DEF NextByte
  <2>2. /\ CurrAddress' + HighByte' = start + (asked - BlockSize')
        /\ CurrAddress' = start + 2 * (words + 1) /\ CurrAddress' - start = k + 2
        /\ CurrAddress = start + k /\ place = k + 2
        /\ offset + k + 1 < SPM_PAGESIZE
    BY <1>3, <1>4, <1>5, <1>6, <1>7, <1>10, <2>1, PageSize
  <2>3. OffsetOf(CurrAddress) = offset + k
    <3>1. offset + k < SPM_PAGESIZE
      BY <1>5, <1>8, <2>2, PageSize
    <3> QED
      BY <1>4, <1>8, <2>2, <3>1, OffsetMoves DEF offset
  <2>4. offset + k \in Offsets /\ offset + k + 1 \in Offsets
    BY <1>5, <1>8, <2>2, PageSize DEF Offsets
  <2>5. pageBuffer[offset + k] = Erased
    BY <1>5, <1>6, <1>8, <2>4
  <2>6. ASSUME NEW o \in Offsets
        PROVE  pageBuffer'[o] = IF offset <= o /\ o < offset + (k + 2) THEN (o - offset) + 1 ELSE Erased
    <3>1. pageBuffer'[o] = IF o = offset + k THEN LowByte
                           ELSE IF o = offset + k + 1 THEN place ELSE pageBuffer[o]
      BY <1>4, <2>1, <2>3, <2>4, <2>5, FillWordFills
    <3>2. pageBuffer[o] = IF offset <= o /\ o < offset + k THEN (o - offset) + 1 ELSE Erased
      BY <1>6
    <3>3. LowByte = k + 1 /\ place = k + 2 /\ o \in Nat
      BY <1>6, <1>10, <2>2, PageSize DEF Offsets
    <3> HIDE DEF k, place
    <3>4. k \in Nat
      BY <1>8
    <3>5. CASE o = offset + k
      <4>1. pageBuffer'[o] = k + 1
        BY <3>1, <3>3, <3>5
      <4>2. offset <= o /\ o < offset + (k + 2) /\ (o - offset) + 1 = k + 1
        BY <1>5, <3>4, <3>5
      <4> QED
        BY <4>1, <4>2
    <3>6. CASE o = offset + k + 1
      <4>1. pageBuffer'[o] = k + 2
        <5>1. o # offset + k
          BY <1>5, <3>4, <3>6
        <5> QED
          BY <3>1, <3>3, <3>6, <5>1
      <4>2. offset <= o /\ o < offset + (k + 2) /\ (o - offset) + 1 = k + 2
        BY <1>5, <3>4, <3>6
      <4> QED
        BY <4>1, <4>2
    <3>7. CASE o # offset + k /\ o # offset + k + 1
      <4>1. offset <= o /\ o < offset + k <=> offset <= o /\ o < offset + (k + 2)
        BY <1>5, <3>3, <3>4, <3>7
      <4> QED
        BY <3>1, <3>2, <3>7, <4>1
    <3> QED
      BY <3>5, <3>6, <3>7
  <2>7. \E w \in Nat : CurrAddress' = start' + 2 * w
    <3>1. words + 1 \in Nat /\ CurrAddress' = start' + 2 * (words + 1)
      BY <1>3, <1>7, <2>2
    <3> QED
      BY <3>1
  <2>8. \A o \in Offsets : pageBuffer'[o] = IF offset <= o /\ o < offset + (CurrAddress' - start')
                                            THEN (o - offset) + 1 ELSE Erased
    BY <1>3, <2>2, <2>6
  <2> QED
    BY <1>3, <1>6, <2>1, <2>2, <2>7, <2>8 DEF PageFilled, offset
<1> QED
  BY <1>4, <1>9, <1>10

LEMMA EepromByteStored == IInv /\ Storing /\ WriteEepromByte => Storing'
<1> SUFFICES ASSUME IInv, Storing, WriteEepromByte, ~gaveUp' PROVE EepromFilled'
  BY DEF Storing, PageFilled, BlockDone, EepromFilled, WriteEepromByte
<1> DEFINE place == asked - BlockSize + 1
           base  == start \div 2
<1>1. PICK byte \in {0, place} :
        Fetch(byte, {place}) /\ eeprom' = [eeprom EXCEPT ![CurrAddress \div 2] = byte]
  BY DEF WriteEepromByte
<1>2. byte = place /\ ~gaveUp
  BY <1>1 DEF Fetch
<1>3. /\ pc = "writeEeprom" /\ BlockSize > 0 /\ UNCHANGED <<pc, start, asked>>
      /\ BlockSize' = BlockSize - 1 /\ CurrAddress' = CurrAddress + 2
  BY DEF WriteEepromByte, hist
<1>4. /\ start \in Nat /\ asked \in Nat /\ BlockSize \in Nat /\ BlockSize <= asked /\ base \in Nat
      /\ eeprom \in [0..(EepromSize - 1) -> Nat] /\ EepromSize \in Nat
  BY <1>3, HostAssumption DEF IInv, Typing, BlockTyping, MemoryTyping, Stepping, Eeproms
<1>5. /\ base + asked <= EepromSize
      /\ CurrAddress = start + 2 * (asked - BlockSize)
      /\ \A i \in Nat : i < asked - BlockSize => eeprom[base + i] = i + 1
  BY <1>2, <1>3 DEF Storing, EepromFilled
<1>6. CurrAddress \div 2 = base + (asked - BlockSize) /\ CurrAddress' = start + 2 * (asked - BlockSize')
  BY <1>3, <1>4, <1>5
<1> HIDE DEF base
<1>7. ASSUME NEW i \in Nat, i < asked - BlockSize' PROVE eeprom'[base + i] = i + 1
  <2>1. base + i \in 0..(EepromSize - 1) /\ i <= asked - BlockSize
    BY <1>3, <1>4, <1>5, <1>7
  <2>2. eeprom'[base + i] = IF base + i = base + (asked - BlockSize) THEN place ELSE eeprom[base + i]
    BY <1>1, <1>2, <1>4, <1>6, <2>1
  <2>3. i < asked - BlockSize => eeprom[base + i] = i + 1
    BY <1>5
  <2> QED
    BY <1>4, <2>1, <2>2, <2>3
<1> QED
  BY <1>3, <1>5, <1>6, <1>7 DEF EepromFilled, base

LEMMA BlockBegun == IInv /\ (BeginWrite \/ BeginEeprom) => Storing'
<1> SUFFICES ASSUME IInv, BeginWrite \/ BeginEeprom PROVE Storing'
  OBVIOUS
<1>1. /\ pc = "memoryType" /\ UNCHANGED <<CurrAddress, HighByte, BlockSize, asked, start, pageBuffer, eeprom>>
  BY DEF BeginWrite, BeginEeprom, hist, memVars
<1>2. /\ HighByte = 0 /\ start = CurrAddress /\ asked = BlockSize /\ pageBuffer = EmptyBuffer
      /\ CurrAddress \in Nat /\ BlockSize \in Nat
  BY <1>1 DEF IInv, Asking, Typing, BlockTyping, FlashInv, Buffered
<1>3. CASE BeginWrite
  <2>1. pc' = "write" /\ OffsetOf(start) + asked <= SPM_PAGESIZE
    BY <1>2, <1>3 DEF BeginWrite, InPage
  <2>2. \A o \in Offsets : pageBuffer[o] = Erased
    BY <1>2 DEF EmptyBuffer
  <2>3. OffsetOf(start) \in Nat
    BY <1>2, OffsetType, PageSize DEF Offsets
  <2>4. \A o \in Offsets : ~(OffsetOf(start) <= o /\ o < OffsetOf(start) + (CurrAddress - start))
    BY <1>2, <2>3, PageSize DEF Offsets
  <2>5. CurrAddress = start + 2 * 0 /\ CurrAddress + HighByte = start + (asked - BlockSize)
    BY <1>2
  <2> QED
    BY <1>1, <1>2, <2>1, <2>2, <2>4, <2>5 DEF Storing, PageFilled, BlockDone, EepromFilled
<1>4. CASE BeginEeprom
  <2>1. pc' \in {"readEeprom", "writeEeprom"} /\ (start \div 2) + asked <= EepromSize
    BY <1>2, <1>4 DEF BeginEeprom, InEeprom
  <2>2. CurrAddress = start + 2 * (asked - BlockSize) /\ \A i \in Nat : ~(i < asked - BlockSize)
    BY <1>2
  <2> QED
    BY <1>1, <2>1, <2>2 DEF Storing, PageFilled, BlockDone, EepromFilled
<1> QED
  BY <1>3, <1>4

LEMMA StoreStep == IInv /\ Storing /\ [Next]_vars => Storing'
<1> SUFFICES ASSUME IInv, Storing, [Next]_vars PROVE Storing'
  OBVIOUS
<1>1. CASE Unstored
  BY <1>1 DEF Unstored, Storing, PageFilled, BlockDone, EepromFilled
<1>2. CASE Elsewhere
  BY <1>2 DEF Elsewhere, Storing, PageFilled, BlockDone, EepromFilled
<1>3. CASE EndWrite
  BY <1>3 DEF EndWrite, Storing, PageFilled, BlockDone, EepromFilled, blockVars, memVars, hist
<1>4. CASE Task
  BY <1>1, <1>2, <1>3, <1>4, Unstores, GoesElsewhere, ByteStored, EepromByteStored, BlockBegun DEF Task
<1> QED
  BY <1>1, <1>2, <1>4, Unstores, GoesElsewhere DEF Next

LEMMA OnlyCommit ==
  ASSUME [Next]_vars, pc = "commit", pc' = "reply"
  PROVE  Commit
<1>1. CASE Still
  BY <1>1 DEF Still
<1>2. CASE Leaving \/ BeginErase \/ EraseNextPage \/ WriteErasedPage
  BY <1>2 DEF Leaving, BeginErase, EraseNextPage, WriteErasedPage
<1>3. CASE BeginWrite \/ WriteByte \/ EndWrite \/ Restart
  BY <1>3 DEF BeginWrite, WriteByte, EndWrite, Restart, Return
<1> QED
  BY <1>1, <1>2, <1>3, Steps

\* What the bootloader confirms is in the flash, or in the EEPROM, byte for byte, for every size
\* of block and of page; and the host's next block goes behind it.
THEOREM ConfirmedIsStored == Spec => ConfirmedBlockIsStored
<1>1. Init => Storing
  BY DEF Init, Storing, PageFilled, BlockDone, EepromFilled
<1>2. Spec => []Storing
  BY <1>1, StoreStep, Invariance, PTL DEF Spec
<1>3. ASSUME IInv, Storing, [Next]_vars, pc = "commit", pc' = "reply", ~gaveUp
      PROVE  /\ CurrAddress = start + 2 * (asked \div 2)
             /\ \A a \in FlashAddresses : PageOf(a) = PageOf(start) =>
                  flash'[a] = IF a \in start..(CurrAddress - 1) THEN a - start + 1 ELSE Erased
  <2>1. Commit
    BY <1>3, OnlyCommit
  <2>2. /\ flash' = WritePage(flash, pageBuffer, PageOf(start)) /\ Blank(flash, PageOf(start))
    BY <1>3, <2>1 DEF Commit, IInv, FlashInv, ToCommit
  <2>3. /\ CurrAddress \in Nat /\ start \in Nat /\ asked \in Nat /\ BlockSize = 0 /\ HighByte \in {0, 1}
        /\ CurrAddress + HighByte = start + (asked - BlockSize)
    BY <1>3 DEF IInv, Typing, BlockTyping, Storing, BlockDone, PageFilled
  <2>4. PICK words \in Nat : CurrAddress = start + 2 * words
    BY <1>3 DEF Storing, PageFilled
  <2>5. CurrAddress = start + 2 * (asked \div 2)
    <3>1. asked = 2 * words + HighByte
      BY <2>3, <2>4
    <3>2. asked \div 2 = words
      BY <2>3, <2>4, <3>1
    <3> QED
      BY <2>4, <3>2
  <2>6. ASSUME NEW a \in FlashAddresses, PageOf(a) = PageOf(start)
        PROVE  flash'[a] = IF a \in start..(CurrAddress - 1) THEN a - start + 1 ELSE Erased
    <3>1. flash'[a] = pageBuffer[OffsetOf(a)]
      BY <2>2, <2>6, WritesBuffer
    <3>2. a \in Nat /\ OffsetOf(a) \in Offsets /\ OffsetOf(a) \in Nat /\ OffsetOf(start) \in Nat
      BY <2>3, AddressIsNat, OffsetType, PageSize DEF Offsets
    <3>3. OffsetOf(a) - OffsetOf(start) = a - start
      BY <2>3, <2>6, <3>2, OffsetsApart
    <3>4. pageBuffer[OffsetOf(a)] =
            IF OffsetOf(start) <= OffsetOf(a) /\ OffsetOf(a) < OffsetOf(start) + (CurrAddress - start)
            THEN (OffsetOf(a) - OffsetOf(start)) + 1 ELSE Erased
      BY <1>3, <3>2 DEF Storing, PageFilled
    <3>5. /\ OffsetOf(start) <= OffsetOf(a) <=> start <= a
          /\ OffsetOf(a) < OffsetOf(start) + (CurrAddress - start) <=> a < CurrAddress
      BY <2>3, <3>2, <3>3
    <3>6. a \in start..(CurrAddress - 1) <=> start <= a /\ a < CurrAddress
      BY <2>3, <3>2
    <3> QED
      BY <3>1, <3>3, <3>4, <3>5, <3>6
  <2> QED
    BY <2>5, <2>6
<1>4. ASSUME IInv, Storing, [Next]_vars, pc = "writeEeprom", pc' = "reply", ~gaveUp
      PROVE  /\ CurrAddress = start + 2 * asked
             /\ \A i \in 0..(asked - 1) : eeprom[start \div 2 + i] = i + 1
  <2>1. BlockSize = 0
    <3>1. CASE Unstored
      BY <1>4, <3>1 DEF Unstored
    <3>2. Task
      <4>1. ~Begin
        BY <1>4 DEF Begin, Simple, Sync, ExitBootloader, BeginWithArgument, BeginSetAddress, BeginErase,
                    BeginBlock, BeginTask
      <4>2. ~Restart
        BY <1>4 DEF Restart, Return
      <4> QED
        BY <1>4, <4>1, <4>2, Unstores DEF Next, Unstored
    <3>3. ~(FetchArgument \/ FetchAddressHigh \/ FetchAddressLow \/ EraseNextPage \/ WriteErasedPage
              \/ EndErase \/ WriteReply \/ EndTask \/ AbandonTask \/ FetchSizeHigh \/ FetchSizeLow)
      BY <1>4 DEF FetchArgument, FetchAddressHigh, FetchAddressLow, EraseNextPage, WriteErasedPage,
                  EndErase, WriteReply, EndTask, AbandonTask, FetchSizeHigh, FetchSizeLow
    <3>4. ~(RejectMemoryType \/ BeginRead \/ ReadByte \/ EndRead \/ BeginWrite \/ WriteByte \/ EndWrite
              \/ Commit \/ BeginEeprom \/ ReadEepromByte \/ WriteEepromByte \/ ClearEmptyBank)
      BY <1>4 DEF RejectMemoryType, BeginRead, ReadByte, EndRead, BeginWrite, WriteByte, EndWrite,
                  Commit, BeginEeprom, ReadEepromByte, WriteEepromByte, ClearEmptyBank
    <3>5. EndEeprom
      BY <3>2, <3>3, <3>4 DEF Task
    <3> QED
      BY <3>5 DEF EndEeprom
  <2>2. asked \in Nat /\ start \in Nat
    BY <1>4 DEF IInv, Typing, BlockTyping
  <2>3. /\ CurrAddress = start + 2 * (asked - BlockSize)
        /\ \A i \in Nat : i < asked - BlockSize => eeprom[(start \div 2) + i] = i + 1
    BY <1>4 DEF Storing, EepromFilled
  <2> QED
    BY <2>1, <2>2, <2>3
<1>5. IInv /\ Storing /\ [Next]_vars =>
        [ /\ pc = "commit" /\ pc' = "reply" /\ ~gaveUp =>
               /\ CurrAddress = start + 2 * (asked \div 2)
               /\ \A a \in FlashAddresses : PageOf(a) = PageOf(start) =>
                    flash'[a] = IF a \in start..(CurrAddress - 1) THEN a - start + 1 ELSE Erased
          /\ pc = "writeEeprom" /\ pc' = "reply" /\ ~gaveUp =>
               /\ CurrAddress = start + 2 * asked
               /\ \A i \in 0..(asked - 1) : eeprom[start \div 2 + i] = i + 1 ]_vars
  BY <1>3, <1>4
<1> QED
  BY <1>2, <1>5, Invariance, PTL DEF Spec, ConfirmedBlockIsStored
-----------------------------------------------------------------------------
(* What the losses leave. *)

\* A block that is being written, whatever was given up on the way: the words so far are in
\* the buffer, each byte of them the host's or a 0.
PageShared ==
  pc \in {"write", "commit"} =>
    /\ OffsetOf(start) + asked <= SPM_PAGESIZE
    /\ CurrAddress + HighByte = start + (asked - BlockSize)
    /\ \E words \in Nat : CurrAddress = start + 2 * words
    /\ HighByte = 1 => LowByte \in {0, (CurrAddress - start) + 1}
    /\ \A o \in Offsets :
         IF OffsetOf(start) <= o /\ o < OffsetOf(start) + (CurrAddress - start)
         THEN pageBuffer[o] \in {0, (o - OffsetOf(start)) + 1} ELSE pageBuffer[o] = Erased

LEMMA ByteOrZeroStored == IInv /\ PageShared /\ WriteByte => PageShared'
<1> SUFFICES ASSUME IInv, PageShared, WriteByte PROVE PageShared'
  OBVIOUS
<1> DEFINE place  == asked - BlockSize + 1
           offset == OffsetOf(start)
           k      == CurrAddress - start
<1>1. PICK byte \in {0, place} :
        IF HighByte = 1
        THEN pageBuffer' = FillWord(pageBuffer, CurrAddress, LowByte, byte) /\ UNCHANGED LowByte
        ELSE LowByte' = byte /\ UNCHANGED pageBuffer
  BY DEF WriteByte
<1>2. /\ pc = "write" /\ BlockSize > 0 /\ NextByte /\ UNCHANGED <<pc, start, asked>>
  BY DEF WriteByte, hist
<1>3. /\ CurrAddress \in Nat /\ start \in Nat /\ asked \in Nat /\ BlockSize \in Nat /\ HighByte \in {0, 1}
      /\ pageBuffer \in Buffers
  BY DEF IInv, Typing, BlockTyping, MemoryTyping
<1>4. offset \in Nat
  BY <1>3, OffsetType, PageSize DEF Offsets
<1>5. /\ offset + asked <= SPM_PAGESIZE
      /\ CurrAddress + HighByte = start + (asked - BlockSize)
      /\ HighByte = 1 => LowByte \in {0, k + 1}
      /\ \A o \in Offsets : IF offset <= o /\ o < offset + k
                            THEN pageBuffer[o] \in {0, (o - offset) + 1} ELSE pageBuffer[o] = Erased
  BY <1>2 DEF PageShared
<1>6. PICK words \in Nat : CurrAddress = start + 2 * words
  BY <1>2 DEF PageShared
<1>7. k \in Nat /\ k = 2 * words
  BY <1>3, <1>6
<1> HIDE DEF offset
<1>8. CASE HighByte = 0
  <2>1. /\ CurrAddress' = CurrAddress /\ HighByte' = 1 /\ BlockSize' = BlockSize - 1
        /\ LowByte' = byte /\ pageBuffer' = pageBuffer
    BY <1>1, <1>2, <1>8 DEF NextByte
  <2>2. CurrAddress' + HighByte' = start + (asked - BlockSize') /\ place = k + 1
    BY <1>3, <1>5, <1>8, <2>1
  <2>3. LowByte' \in {0, k + 1}
    BY <2>1, <2>2
  <2> QED
    BY <1>2, <1>5, <1>6, <2>1, <2>2, <2>3 DEF PageShared, offset
<1>9. CASE HighByte = 1
  <2>1. /\ CurrAddress' = CurrAddress + 2 /\ HighByte' = 0 /\ BlockSize' = BlockSize - 1
        /\ pageBuffer' = FillWord(pageBuffer, CurrAddress, LowByte, byte)
    BY <1>1, <1>2, <1>9 DEF NextByte
  <2>2. /\ CurrAddress' + HighByte' = start + (asked - BlockSize')
        /\ CurrAddress' = start + 2 * (words + 1) /\ CurrAddress' - start = k + 2
        /\ CurrAddress = start + k /\ place = k + 2
        /\ offset + k + 1 < SPM_PAGESIZE
    BY <1>2, <1>3, <1>4, <1>5, <1>6, <1>9, <2>1, PageSize
  <2>3. OffsetOf(CurrAddress) = offset + k
    <3>1. offset + k < SPM_PAGESIZE
      BY <1>4, <1>7, <2>2, PageSize
    <3> QED
      BY <1>3, <1>7, <2>2, <3>1, OffsetMoves DEF offset
  <2>4. offset + k \in Offsets /\ offset + k + 1 \in Offsets
    BY <1>4, <1>7, <2>2, PageSize DEF Offsets
  <2>5. pageBuffer[offset + k] = Erased
    BY <1>4, <1>5, <1>7, <2>4
  <2>6. byte \in {0, k + 2} /\ LowByte \in {0, k + 1}
    BY <1>1, <1>5, <1>9, <2>2
  <2>7. ASSUME NEW o \in Offsets
        PROVE  IF offset <= o /\ o < offset + (k + 2)
               THEN pageBuffer'[o] \in {0, (o - offset) + 1} ELSE pageBuffer'[o] = Erased
    <3>1. pageBuffer'[o] = IF o = offset + k THEN LowByte
                           ELSE IF o = offset + k + 1 THEN byte ELSE pageBuffer[o]
      BY <1>3, <2>1, <2>3, <2>4, <2>5, FillWordFills
    <3>2. IF offset <= o /\ o < offset + k
          THEN pageBuffer[o] \in {0, (o - offset) + 1} ELSE pageBuffer[o] = Erased
      BY <1>5
    <3>3. o \in Nat /\ k \in Nat
      BY <1>7, PageSize DEF Offsets
    <3> HIDE DEF k
    <3>4. CASE o = offset + k
      <4>1. offset <= o /\ o < offset + (k + 2) /\ (o - offset) + 1 = k + 1
        BY <1>4, <3>3, <3>4
      <4> QED
        BY <2>6, <3>1, <3>4, <4>1
    <3>5. CASE o = offset + k + 1
      <4>1. o # offset + k /\ offset <= o /\ o < offset + (k + 2) /\ (o - offset) + 1 = k + 2
        BY <1>4, <3>3, <3>5
      <4> QED
        BY <2>6, <3>1, <3>5, <4>1
    <3>6. CASE o # offset + k /\ o # offset + k + 1
      <4>1. offset <= o /\ o < offset + k <=> offset <= o /\ o < offset + (k + 2)
        BY <1>4, <3>3, <3>6
      <4>2. pageBuffer'[o] = pageBuffer[o]
        BY <3>1, <3>6
      <4> QED
        BY <3>2, <4>1, <4>2
    <3> QED
      BY <3>4, <3>5, <3>6
  <2>8. \E w \in Nat : CurrAddress' = start' + 2 * w
    <3>1. words + 1 \in Nat /\ CurrAddress' = start' + 2 * (words + 1)
      BY <1>2, <1>6, <2>2
    <3> QED
      BY <3>1
  <2>9. \A o \in Offsets : IF offset <= o /\ o < offset + (CurrAddress' - start')
                           THEN pageBuffer'[o] \in {0, (o - offset) + 1} ELSE pageBuffer'[o] = Erased
    BY <1>2, <2>2, <2>7
  <2> QED
    BY <1>2, <1>5, <2>1, <2>2, <2>8, <2>9 DEF PageShared, offset
<1> QED
  BY <1>3, <1>8, <1>9

LEMMA SharedStep == IInv /\ PageShared /\ [Next]_vars => PageShared'
<1> SUFFICES ASSUME IInv, PageShared, [Next]_vars PROVE PageShared'
  OBVIOUS
<1>1. CASE Unstored
  BY <1>1 DEF Unstored, PageShared
<1>2. CASE Elsewhere
  BY <1>2 DEF Elsewhere, PageShared
<1>3. CASE EndWrite
  BY <1>3 DEF EndWrite, PageShared, blockVars, memVars, hist
<1>4. CASE BeginWrite
  <2>1. /\ pc = "memoryType" /\ OffsetOf(CurrAddress) + BlockSize <= SPM_PAGESIZE
        /\ UNCHANGED <<CurrAddress, HighByte, BlockSize, asked, start, pageBuffer>>
    BY <1>4 DEF BeginWrite, InPage, hist
  <2>2. /\ HighByte = 0 /\ start = CurrAddress /\ asked = BlockSize /\ pageBuffer = EmptyBuffer
        /\ CurrAddress \in Nat /\ BlockSize \in Nat
    BY <2>1 DEF IInv, Asking, Typing, BlockTyping, FlashInv, Buffered
  <2>3. \A o \in Offsets : pageBuffer[o] = Erased
    BY <2>2 DEF EmptyBuffer
  <2>4. OffsetOf(start) \in Nat
    BY <2>2, OffsetType, PageSize DEF Offsets
  <2>5. \A o \in Offsets : ~(OffsetOf(start) <= o /\ o < OffsetOf(start) + (CurrAddress - start))
    BY <2>2, <2>4, PageSize DEF Offsets
  <2>6. CurrAddress = start + 2 * 0 /\ CurrAddress + HighByte = start + (asked - BlockSize)
    BY <2>2
  <2> QED
    BY <2>1, <2>2, <2>3, <2>5, <2>6 DEF PageShared
<1>5. CASE BeginEeprom \/ WriteEepromByte
  BY <1>5 DEF BeginEeprom, WriteEepromByte, PageShared
<1>6. CASE Task
  BY <1>1, <1>2, <1>3, <1>4, <1>5, <1>6, Unstores, GoesElsewhere, ByteOrZeroStored DEF Task
<1> QED
  BY <1>1, <1>2, <1>6, Unstores, GoesElsewhere DEF Next

\* A block that is confirmed though bytes of it were given up.
LossesAreZeros ==
  [][ pc = "commit" /\ pc' = "reply" =>
        \A a \in FlashAddresses : PageOf(a) = PageOf(start) =>
          IF a \in start..(CurrAddress - 1) THEN flash'[a] \in {0, a - start + 1}
                                            ELSE flash'[a] = Erased ]_vars

\* FetchNextCommandByte() returns 0 when it gives up and ReadWriteMemoryBlock() goes on with it:
\* the page then holds zeros where bytes were lost, and never a byte of the host out of its
\* place, wherever in the block the connection goes and comes back.
THEOREM LostBytesAreZeros == Spec => LossesAreZeros
<1>1. Init => PageShared
  BY DEF Init, PageShared
<1>2. Spec => []PageShared
  BY <1>1, SharedStep, Invariance, PTL DEF Spec
<1>3. ASSUME IInv, PageShared, [Next]_vars, pc = "commit", pc' = "reply",
             NEW a \in FlashAddresses, PageOf(a) = PageOf(start)
      PROVE  IF a \in start..(CurrAddress - 1) THEN flash'[a] \in {0, a - start + 1}
                                               ELSE flash'[a] = Erased
  <2>1. flash' = WritePage(flash, pageBuffer, PageOf(start)) /\ Blank(flash, PageOf(start))
    BY <1>3, OnlyCommit DEF Commit, IInv, FlashInv, ToCommit
  <2>2. flash'[a] = pageBuffer[OffsetOf(a)]
    BY <1>3, <2>1, WritesBuffer
  <2>3. /\ CurrAddress \in Nat /\ start \in Nat /\ a \in Nat
        /\ OffsetOf(a) \in Offsets /\ OffsetOf(a) \in Nat /\ OffsetOf(start) \in Nat
    BY <1>3, AddressIsNat, OffsetType, PageSize DEF IInv, Typing, BlockTyping, Offsets
  <2>4. OffsetOf(a) - OffsetOf(start) = a - start
    BY <1>3, <2>3, OffsetsApart
  <2>5. IF OffsetOf(start) <= OffsetOf(a) /\ OffsetOf(a) < OffsetOf(start) + (CurrAddress - start)
        THEN pageBuffer[OffsetOf(a)] \in {0, (OffsetOf(a) - OffsetOf(start)) + 1}
        ELSE pageBuffer[OffsetOf(a)] = Erased
    BY <1>3, <2>3 DEF PageShared
  <2>6. /\ OffsetOf(start) <= OffsetOf(a) <=> start <= a
        /\ OffsetOf(a) < OffsetOf(start) + (CurrAddress - start) <=> a < CurrAddress
    BY <2>3, <2>4
  <2>7. a \in start..(CurrAddress - 1) <=> start <= a /\ a < CurrAddress
    BY <2>3
  <2> QED
    BY <2>2, <2>4, <2>5, <2>6, <2>7
<1>4. IInv /\ PageShared /\ [Next]_vars =>
        [ pc = "commit" /\ pc' = "reply" =>
            \A a \in FlashAddresses : PageOf(a) = PageOf(start) =>
              IF a \in start..(CurrAddress - 1) THEN flash'[a] \in {0, a - start + 1}
                                                ELSE flash'[a] = Erased ]_vars
  BY <1>3
<1> QED
  BY <1>2, <1>4, Invariance, PTL DEF Spec, LossesAreZeros

-----------------------------------------------------------------------------
(* Where the losses cannot reach. *)

\* An erase that is confirmed.
ErasedWhenDone ==
  [][ pc = "erase" /\ pc' = "reply" =>
        \A a \in FlashAddresses : a < BOOT_START_ADDR => flash'[a] = Erased ]_vars

\* The loop over CurrFlashAddress leaves no page of the section out, whatever its size: when
\* the 'e' command answers, all of it is blank.
THEOREM EraseIsComplete == Spec => ErasedWhenDone
<1>1. ASSUME IInv, [Next]_vars, pc = "erase", pc' = "reply",
             NEW a \in FlashAddresses, a < BOOT_START_ADDR
      PROVE  flash'[a] = Erased
  <2>1. a \in Nat /\ BOOT_START_ADDR \in Nat /\ CurrFlashAddress \in Nat
    BY <1>1, AddressIsNat, BootStart DEF IInv, Typing, BlockTyping
  <2>2. CASE Leaving
    <3>1. EndErase
      <4>1. ~(Begin \/ Host \/ Bus \/ Restart \/ UNCHANGED vars)
        <5>1. ~(Host \/ Bus \/ UNCHANGED vars)
          BY <1>1, Stays DEF Still
        <5>2. ~Restart
          BY <1>1 DEF Restart, Return
        <5>3. ~Begin
          BY <1>1 DEF Begin, Simple, Sync, ExitBootloader, BeginWithArgument, BeginSetAddress,
                      BeginErase, BeginBlock, BeginTask
        <5> QED
          BY <5>1, <5>2, <5>3
      <4>2. ~(FetchArgument \/ FetchAddressHigh \/ FetchAddressLow \/ EraseNextPage \/ WriteErasedPage
                \/ WriteReply \/ EndTask \/ AbandonTask \/ FetchSizeHigh \/ FetchSizeLow)
        BY <1>1 DEF FetchArgument, FetchAddressHigh, FetchAddressLow, EraseNextPage, WriteErasedPage,
                    WriteReply, EndTask, AbandonTask, FetchSizeHigh, FetchSizeLow
      <4>3. ~(RejectMemoryType \/ BeginRead \/ ReadByte \/ EndRead \/ BeginWrite \/ WriteByte \/ EndWrite
                \/ Commit \/ BeginEeprom \/ ReadEepromByte \/ WriteEepromByte \/ EndEeprom
                \/ ClearEmptyBank)
        BY <1>1 DEF RejectMemoryType, BeginRead, ReadByte, EndRead, BeginWrite, WriteByte, EndWrite,
                    Commit, BeginEeprom, ReadEepromByte, WriteEepromByte, EndEeprom, ClearEmptyBank
      <4> QED
        BY <1>1, <4>1, <4>2, <4>3 DEF Next, Task
    <3>2. a < CurrFlashAddress /\ flash' = flash
      BY <1>1, <2>1, <3>1 DEF EndErase, memVars
    <3> QED
      BY <1>1, <3>2 DEF IInv, FlashInv, Behind
  <2>3. CASE \/ Still \/ BeginErase \/ EraseNextPage \/ WriteErasedPage
             \/ BeginWrite \/ WriteByte \/ EndWrite \/ Commit \/ Restart
    BY <1>1, <2>3 DEF Still, BeginErase, EraseNextPage, WriteErasedPage, BeginWrite, WriteByte,
                      EndWrite, Commit, Restart, Return
  <2> QED
    BY <1>1, <2>2, <2>3, Steps
<1>2. IInv /\ [Next]_vars =>
        [ pc = "erase" /\ pc' = "reply" =>
            \A a \in FlashAddresses : a < BOOT_START_ADDR => flash'[a] = Erased ]_vars
  BY <1>1
<1> QED
  BY <1>2, Invariance, PTL DEF Spec, ErasedWhenDone

\* An address that has been set.
AddressInSection ==
  [][ pc = "addressLow" /\ pc' = "reply" => \E n \in AppWords : CurrAddress' = 2 * n ]_vars

\* Nothing is given up before a command begins, and between the bytes of an address there is
\* its high one.
HighFirst ==
  /\ pc \in {"main", "addressHigh"} => ~gaveUp
  /\ pc = "addressLow" => /\ \E n \in AppWords : CurrAddress = 2 * (n \div ByteBase) * ByteBase
                          /\ gaveUp => CurrAddress = 0

\* A word number and its two bytes.
LEMMA TwoBytes ==
  ASSUME NEW n \in Nat
  PROVE  \E high, low \in Nat :
           /\ high = n \div ByteBase /\ low = n % ByteBase /\ high * ByteBase \in Nat
           /\ n = high * ByteBase + low
<1>1. PICK base \in Nat : base = ByteBase /\ base > 0
  BY HostAssumption
<1>2. PICK high \in Nat : high = n \div base
  BY <1>1
<1>3. PICK low \in Nat : low = n % base
  BY <1>1
<1>4. low = n - high * base
  <2>1. n % base = n - (n \div base) * base
    BY <1>1
  <2> QED
    BY <1>2, <1>3, <2>1
<1>5. high * base \in Nat
  BY <1>1, <1>2
<1>6. n = high * base + low
  BY <1>3, <1>4, <1>5
<1> QED
  BY <1>1, <1>2, <1>3, <1>5, <1>6

LEMMA HighByteBack ==
  ASSUME NEW q \in Nat
  PROVE  (2 * q * ByteBase) \div (2 * ByteBase) = q
<1>1. ByteBase \in Nat /\ ByteBase > 0
  BY HostAssumption
<1>2. PICK d \in Nat \ {0} : d = 2 * ByteBase
  BY <1>1
<1>3. 2 * q * ByteBase = q * d
  BY <1>1, <1>2
<1>4. (q * d) \div d = q
  BY <1>2
<1> QED
  BY <1>2, <1>3, <1>4

LEMMA AppWordsBelow ==
  /\ AppWords \subseteq Nat /\ 0 \in AppWords
  /\ \A n \in AppWords : \A m \in Nat : m <= n => m \in AppWords
<1>1. BOOT_START_ADDR \div 2 \in Nat /\ BOOT_START_ADDR \div 2 >= 1
  <2>1. SPM_PAGESIZE \in Nat /\ SPM_PAGESIZE >= 2
    BY PageAssumption
  <2>2. BOOT_START_ADDR \in Nat /\ BOOT_START_ADDR >= 2
    <3>1. AppPages \in Nat /\ AppPages >= 1
      BY PagesAssumption
    <3> QED
      BY <2>1, <3>1, BootStart
  <2> QED
    BY <2>2
<1>2. PICK last \in Nat : last = BOOT_START_ADDR \div 2 - 1
  BY <1>1
<1> QED
  BY <1>2 DEF AppWords

NotInAddress == pc' \notin {"main", "addressHigh", "addressLow"}

LEMMA OutOfAddress ==
  \/ \E reply \in 1..MaxReply : Simple(reply)
  \/ Sync \/ ExitBootloader \/ BeginWithArgument \/ BeginErase
  \/ \E command \in {"blockRead", "blockWrite"} : BeginBlock(command)
  \/ FetchArgument \/ FetchAddressLow \/ FetchSizeHigh \/ FetchSizeLow
  \/ EraseNextPage \/ WriteErasedPage \/ EndErase \/ RejectMemoryType \/ BeginRead
  \/ ReadByte \/ EndRead \/ BeginWrite \/ WriteByte \/ EndWrite \/ Commit
  \/ BeginEeprom \/ ReadEepromByte \/ WriteEepromByte \/ EndEeprom \/ WriteReply
 => NotInAddress
<1>1. (\E reply \in 1..MaxReply : Simple(reply)) \/ Sync \/ ExitBootloader \/ BeginWithArgument
        \/ BeginErase \/ (\E command \in {"blockRead", "blockWrite"} : BeginBlock(command)) => NotInAddress
  BY DEF Simple, Sync, ExitBootloader, BeginWithArgument, BeginErase, BeginBlock, NotInAddress
<1>2. FetchArgument \/ FetchAddressLow \/ FetchSizeHigh \/ FetchSizeLow => NotInAddress
  BY DEF FetchArgument, FetchAddressLow, FetchSizeHigh, FetchSizeLow, NotInAddress
<1>3. EraseNextPage \/ WriteErasedPage \/ EndErase \/ RejectMemoryType \/ BeginRead => NotInAddress
  BY DEF EraseNextPage, WriteErasedPage, EndErase, RejectMemoryType, BeginRead, NotInAddress
<1>4. ReadByte \/ EndRead \/ BeginWrite \/ WriteByte \/ EndWrite \/ Commit => NotInAddress
  BY DEF ReadByte, EndRead, BeginWrite, WriteByte, EndWrite, Commit, NotInAddress
<1>5. BeginEeprom \/ ReadEepromByte \/ WriteEepromByte \/ EndEeprom \/ WriteReply => NotInAddress
  BY DEF BeginEeprom, ReadEepromByte, WriteEepromByte, EndEeprom, WriteReply, NotInAddress
<1> QED
  BY <1>1, <1>2, <1>3, <1>4, <1>5

LEMMA HighStep == IInv /\ HighFirst /\ [Next]_vars => HighFirst'
<1> SUFFICES ASSUME IInv, HighFirst, [Next]_vars PROVE HighFirst'
  OBVIOUS
<1>1. CASE Host \/ Bus \/ ClearEmptyBank \/ UNCHANGED vars
  <2>1. UNCHANGED <<pc, CurrAddress, gaveUp>>
    BY <1>1, Unstores DEF Unstored
  <2> QED
    BY <2>1 DEF HighFirst
<1>2. CASE NotInAddress
  BY <1>2 DEF NotInAddress, HighFirst
<1>3. CASE EndTask \/ AbandonTask \/ Restart
  <2>1. pc' = "main" /\ ~gaveUp'
    BY <1>3 DEF EndTask, AbandonTask, Restart, Return
  <2> QED
    BY <2>1 DEF HighFirst
<1>4. CASE BeginSetAddress
  <2>1. pc = "main" /\ pc' = "addressHigh" /\ gaveUp' = gaveUp
    BY <1>4 DEF BeginSetAddress, BeginTask
  <2> QED
    BY <2>1 DEF HighFirst
<1>5. CASE FetchAddressHigh
  <2>1. PICK byte \in HighBytes(AppWords) \cup {0} :
          Fetch(byte, HighBytes(AppWords)) /\ CurrAddress' = 2 * byte * ByteBase
    BY <1>5 DEF FetchAddressHigh
  <2>2. \E n \in AppWords : CurrAddress' = 2 * (n \div ByteBase) * ByteBase
    <3>1. CASE byte \in HighBytes(AppWords)
      BY <2>1, <3>1 DEF HighBytes
    <3>2. CASE byte = 0
      <4>1. 0 \div ByteBase = 0
        <5>1. ByteBase \in Nat \ {0}
          BY HostAssumption
        <5> QED
          BY <5>1
      <4> QED
        BY <2>1, <3>2, <4>1, AppWordsBelow
    <3> QED
      BY <2>1, <3>1, <3>2
  <2>3. gaveUp' => CurrAddress' = 0
    <3>1. ~gaveUp
      BY <1>5 DEF FetchAddressHigh, HighFirst
    <3>2. gaveUp' => byte = 0
      BY <2>1, <3>1 DEF Fetch
    <3>3. ByteBase \in Nat
      BY HostAssumption
    <3> QED
      BY <2>1, <3>2, <3>3
  <2>4. pc' = "addressLow"
    BY <1>5 DEF FetchAddressHigh
  <2> QED
    BY <2>2, <2>3, <2>4 DEF HighFirst
<1>6. CASE Begin
  BY <1>2, <1>4, <1>6, OutOfAddress DEF Begin
<1>7. CASE Task
  BY <1>1, <1>2, <1>3, <1>5, <1>7, OutOfAddress DEF Task
<1> QED
  BY <1>1, <1>3, <1>6, <1>7 DEF Next

LEMMA OnlyAddressLow ==
  ASSUME [Next]_vars, pc = "addressLow", pc' = "reply"
  PROVE  FetchAddressLow
<1>1. ~(Host \/ Bus \/ UNCHANGED vars)
  BY Stays DEF Still
<1>2. ~Restart
  BY DEF Restart, Return
<1>3. ~Begin
  BY DEF Begin, Simple, Sync, ExitBootloader, BeginWithArgument, BeginSetAddress, BeginErase,
         BeginBlock, BeginTask
<1>4. ~(ClearEmptyBank \/ FetchArgument \/ FetchAddressHigh \/ EraseNextPage \/ WriteErasedPage \/ EndErase
          \/ WriteReply \/ EndTask \/ AbandonTask \/ FetchSizeHigh \/ FetchSizeLow)
  BY DEF ClearEmptyBank, FetchArgument, FetchAddressHigh, EraseNextPage, WriteErasedPage, EndErase,
         WriteReply, EndTask, AbandonTask, FetchSizeHigh, FetchSizeLow
<1>5. ~(RejectMemoryType \/ BeginRead \/ ReadByte \/ EndRead \/ BeginWrite \/ WriteByte \/ EndWrite
          \/ Commit \/ BeginEeprom \/ ReadEepromByte \/ WriteEepromByte \/ EndEeprom)
  BY DEF RejectMemoryType, BeginRead, ReadByte, EndRead, BeginWrite, WriteByte, EndWrite,
         Commit, BeginEeprom, ReadEepromByte, WriteEepromByte, EndEeprom
<1> QED
  BY <1>1, <1>2, <1>3, <1>4, <1>5 DEF Next, Task

\* Of an 'A' command whose bytes are lost, the zeros in their place are no word outside of the
\* application section: no lost byte aims the next block at the bootloader.
THEOREM AddressStaysInSection == Spec => AddressInSection
<1>1. Init => HighFirst
  BY DEF Init, HighFirst
<1>2. Spec => []HighFirst
  BY <1>1, HighStep, Invariance, PTL DEF Spec
<1>3. ASSUME HighFirst, [Next]_vars, pc = "addressLow", pc' = "reply"
      PROVE  \E n \in AppWords : CurrAddress' = 2 * n
  <2> DEFINE bytes == LowBytes(AppWords, CurrAddress \div (2 * ByteBase))
  <2>1. PICK byte \in bytes \cup {0} : CurrAddress' = CurrAddress + 2 * byte
    BY <1>3, OnlyAddressLow DEF FetchAddressLow
  <2>2. PICK m \in AppWords : CurrAddress = 2 * (m \div ByteBase) * ByteBase
    BY <1>3 DEF HighFirst
  <2>3. PICK high \in Nat : high = m \div ByteBase /\ high * ByteBase \in Nat /\ high * ByteBase <= m
    <3>1. PICK high \in Nat, low \in Nat :
            high = m \div ByteBase /\ high * ByteBase \in Nat /\ m = high * ByteBase + low
      BY <2>2, TwoBytes, AppWordsBelow
    <3>2. high * ByteBase <= m
      BY <3>1
    <3> QED
      BY <3>1, <3>2
  <2>4. PICK base \in Nat : base = high * ByteBase /\ base <= m
    BY <2>3
  <2>5. CurrAddress = 2 * base
    BY <2>2, <2>3, <2>4, HostAssumption
  <2>6. CASE byte = 0
    <3>1. base \in AppWords
      BY <2>2, <2>4, AppWordsBelow
    <3>2. CurrAddress' = 2 * base
      BY <2>1, <2>5, <2>6
    <3> QED
      BY <3>1, <3>2
  <2>7. CASE byte \in bytes
    <3>1. PICK n \in AppWords :
            byte = n % ByteBase /\ (gaveUp \/ n \div ByteBase = CurrAddress \div (2 * ByteBase))
      BY <2>7 DEF LowBytes
    <3>2. PICK top \in Nat, low \in Nat :
            /\ top = n \div ByteBase /\ low = n % ByteBase /\ top * ByteBase \in Nat
            /\ n = top * ByteBase + low
      BY <3>1, TwoBytes, AppWordsBelow
    <3>3. CASE gaveUp
      <4>1. CurrAddress' = 2 * low
        BY <1>3, <2>1, <3>1, <3>2, <3>3 DEF HighFirst
      <4>2. low <= n
        BY <3>2
      <4>3. low \in AppWords
        BY <3>2, <4>2, AppWordsBelow
      <4> QED
        BY <4>1, <4>3
    <3>4. CASE ~gaveUp
      <4>1. top = high
        BY <2>2, <2>3, <3>1, <3>2, <3>4, HighByteBack
      <4>2. n = base + low
        BY <2>4, <3>2, <4>1
      <4>3. CurrAddress' = 2 * n
        BY <2>1, <2>5, <3>1, <3>2, <4>2
      <4> QED
        BY <4>3
    <3> QED
      BY <3>3, <3>4
  <2> QED
    BY <2>1, <2>6, <2>7
<1>4. HighFirst /\ [Next]_vars =>
        [pc = "addressLow" /\ pc' = "reply" => \E n \in AppWords : CurrAddress' = 2 * n]_vars
  BY <1>3
<1> QED
  BY <1>2, <1>4, PTL DEF Spec, AddressInSection

-----------------------------------------------------------------------------
\* The bank holds no more than bankTX counts, and nothing between commands.
RoomForAnswers == bankBytes <= bankTX /\ (pc = "main" => bankBytes = 0)

LEMMA RoomStep == IInv /\ RoomForAnswers /\ [Next]_vars /\ [~AbandonTask]_vars => RoomForAnswers'
<1> SUFFICES ASSUME IInv, RoomForAnswers, [Next]_vars, [~AbandonTask]_vars PROVE RoomForAnswers'
  OBVIOUS
<1>a. bankBytes \in Nat /\ bankTX \in Nat /\ CDC_TX_EPSIZE \in Nat
  BY InRange DEF IInv, Typing, UsbTyping
<1>1. CASE UNCHANGED <<pc, bankBytes, bankTX>>
  BY <1>1 DEF RoomForAnswers
<1>2. CASE Host \/ Unplug \/ Resume \/ Enumerate \/ ClearEmptyBank \/ UNCHANGED vars
  <2>1. UNCHANGED <<pc, bankBytes, bankTX>>
    BY <1>2 DEF Host, HostSends, HostFetches, Unplug, Resume, Enumerate, ClearEmptyBank, vars, usbVars,
                inBanks
  <2> QED
    BY <2>1 DEF RoomForAnswers
<1>3. CASE BusReset \/ Restart
  <2>1. bankBytes' = 0 /\ bankTX' \in {0, bankTX}
    BY <1>3 DEF BusReset, Restart
  <2> QED
    BY <1>a, <2>1 DEF RoomForAnswers
<1>4. CASE WriteReply \/ ReadByte \/ ReadEepromByte
  <2>1. WriteResponse /\ pc' # "main"
    BY <1>4 DEF WriteReply, ReadByte, ReadEepromByte
  <2>2. bankBytes' <= bankTX'
    BY <1>a, <2>1 DEF WriteResponse, ClearIN, inBanks, RoomForAnswers
  <2> QED
    BY <2>1, <2>2 DEF RoomForAnswers
<1>5. CASE EndTask
  <2>1. bankBytes' = 0 /\ bankTX' = bankTX
    BY <1>a, <1>5 DEF EndTask, ClearIN, inBanks, RoomForAnswers
  <2> QED
    BY <1>a, <2>1 DEF RoomForAnswers
<1>6. CASE AbandonTask
  BY <1>1, <1>6 DEF vars, usbVars, inBanks
<1>7. CASE Begin
  <2>1. pc = "main" /\ bankTX' = 0 /\ UNCHANGED inBanks
    BY <1>7 DEF Begin, Simple, Sync, ExitBootloader, BeginWithArgument, BeginSetAddress, BeginErase,
                BeginBlock, BeginTask
  <2> QED
    BY <1>a, <2>1 DEF RoomForAnswers, inBanks
<1>8. CASE /\ pc # "main" /\ pc' # "main" /\ UNCHANGED <<bankBytes, bankTX>>
  BY <1>8 DEF RoomForAnswers
<1>9. CASE \/ FetchArgument \/ FetchAddressHigh \/ FetchAddressLow \/ FetchSizeHigh \/ FetchSizeLow
           \/ RejectMemoryType \/ BeginRead \/ BeginWrite \/ BeginEeprom
  <2>1. pc # "main" /\ pc' # "main" /\ UNCHANGED <<bankBytes, bankTX>>
    BY <1>9 DEF FetchArgument, FetchAddressHigh, FetchAddressLow, FetchSizeHigh, FetchSizeLow,
                RejectMemoryType, BeginRead, BeginWrite, BeginEeprom, inBanks
  <2> QED
    BY <1>8, <2>1
<1>10. CASE \/ EraseNextPage \/ WriteErasedPage \/ EndErase \/ EndRead \/ WriteByte \/ EndWrite \/ Commit
            \/ WriteEepromByte \/ EndEeprom
  <2>1. pc # "main" /\ pc' # "main" /\ UNCHANGED <<bankBytes, bankTX>>
    BY <1>10 DEF EraseNextPage, WriteErasedPage, EndErase, EndRead, WriteByte, EndWrite, Commit,
                 WriteEepromByte, EndEeprom, usbVars, inBanks
  <2> QED
    BY <1>8, <2>1
<1> QED
  BY <1>2, <1>3, <1>4, <1>5, <1>6, <1>7, <1>9, <1>10 DEF Next, Task, Bus

\* Answers never fill a bank to its last byte, and so never need an empty packet behind them,
\* as long as no command is abandoned with an answer in its bank: Bootloader_Task() counts in
\* bankTX, which begins at 0 with every command, and only its early return leaves bytes that
\* bankTX does not count.
THEOREM AnswersLeaveRoom ==
  Spec /\ [][~AbandonTask]_vars => [](bankBytes <= bankTX /\ bankTX < CDC_TX_EPSIZE - 1)
<1>1. Init => RoomForAnswers
  BY DEF Init, RoomForAnswers
<1>2. Spec /\ [][~AbandonTask]_vars => []RoomForAnswers
  BY <1>1, RoomStep, Invariance, PTL DEF Spec
<1>3. IInv /\ RoomForAnswers => bankBytes <= bankTX /\ bankTX < CDC_TX_EPSIZE - 1
  BY EpsizeAssumption DEF IInv, Typing, UsbTyping, TxCounts, RoomForAnswers
<1> QED
  BY <1>2, <1>3, Invariance, PTL
=============================================================================
