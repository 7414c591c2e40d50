------------------------------ MODULE Dfu_proofs ------------------------------
(***************************************************************************)
(* Proofs about Dfu, for every flash, packet and block size: the flash is  *)
(* only ever erased by pages and programmed where it is erased, a secure   *)
(* session changes and sends nothing before its erase has completed, what  *)
(* is read has not run past its end, the boot loader stays as it is, and a *)
(* download that is aligned as the code expects it to be is stored whole,  *)
(* without its filler.  Under what conditions the two promises that the    *)
(* runs dfu_filler and dfu_stale refute do hold is proved here as well.    *)
(***************************************************************************)
EXTENDS Dfu, SpmFlash_proofs

(* The ranges of TypeOK by name. *)
Places      == {"start", "task", "exit", "application"} \cup Handler
PacketSizes == 0..FIXED_CONTROL_ENDPOINT_SIZE
PageWords   == 0..(SPM_PAGESIZE \div 2)
Eeproms     == [EepromAddresses -> Nat]

Flags ==
  /\ attached \in BOOLEAN /\ outReceived \in BOOLEAN /\ inReady \in BOOLEAN
  /\ IsSecure \in BOOLEAN /\ RunBootloader \in BOOLEAN /\ WaitForExit \in BOOLEAN
  /\ MagicBootKey \in BOOLEAN /\ watchdog \in BOOLEAN /\ WDRF \in BOOLEAN /\ clean \in BOOLEAN

UsbTyping ==
  /\ outBytes \in PacketSizes /\ inBytes \in PacketSizes /\ toCome \in Nat /\ at \in Int

BlockTyping ==
  /\ NumberOfBytes \in Nat /\ remaining \in Nat
  /\ CurrFlashAddress \in Nat /\ CurrFlashPageStartAddress \in Nat /\ WordsInFlashPage \in PageWords
  /\ StartAddr \in Nat /\ EndAddr \in Nat /\ first \in Nat

StateTyping ==
  /\ pc \in Places /\ SentCommand \in Commands \cup {"none"}
  /\ DFU_State \in DFU_State_t /\ DFU_Status \in DFU_Status_t
  /\ AppStartPtr \in {"reset vector", "given"}

MemoryTyping ==
  flash \in [FlashAddresses -> Contents] /\ pageBuffer \in Buffers /\ eeprom \in Eeproms

Ranges == UsbTyping /\ BlockTyping /\ StateTyping /\ MemoryTyping
Typing == Flags /\ Ranges

LEMMA TypingIsTypeOK == Typing <=> TypeOK
  BY DEF Typing, Ranges, TypeOK, Places, Flags, UsbTyping, BlockTyping, StateTyping, MemoryTyping, PacketSizes,
         PageWords, Eeproms, Buffers

\* The places of a download, from its filler to its end.
Downloading == {"filler", "align", "program", "commit", "eraseNext", "eeprom", "suffix"}

\* What is read or written ends where it should: the range is in order while it may
\* still be read, packets are filled by words and pages by theirs.
InOrder ==
  /\ pc \in Downloading => DFU_State = "dfuDNLOAD_IDLE"
  /\ pc \in {"filler", "align"} => StartAddr <= EndAddr
  /\ DFU_State = "dfuUPLOAD_IDLE" /\ pc # "uploadEeprom" => StartAddr <= EndAddr
  /\ pc = "uploadEeprom" => StartAddr + remaining = EndAddr + 1
InWords ==
  /\ pc = "uploadFlash" => inBytes % 2 = 0
  /\ pc = "program" /\ remaining > 0 => WordsInFlashPage < SPM_PAGESIZE \div 2
  /\ pc = "eraseNext" => WordsInFlashPage = 0

\* A secure session has nothing in the page buffer, no download, upload or start under way,
\* and what its erase has passed is blank.
Secured ==
  IsSecure =>
    /\ SECURE_MODE
    /\ pageBuffer = EmptyBuffer /\ ~WaitForExit /\ DFU_State # "dfuUPLOAD_IDLE"
    /\ pc \notin Downloading \cup Sending
    /\ pc \in {"erase", "eraseWrite"} =>
         \A a \in FlashAddresses : a < CurrFlashAddress => flash[a] = Erased
Keyed == watchdog => MagicBootKey

\* The page that will be written is blank and below BOOT_START_ADDR, and so is all that
\* remains to be written.
ToProgram ==
  pc \in {"filler", "align"} /\ Data0(SentCommand) = 0 =>
    EndAddr < BOOT_START_ADDR /\ Blank(flash, PageOf(StartAddr))
ToCommit ==
  (pc = "program" /\ remaining > 0) \/ pc = "commit" =>
    CurrFlashPageStartAddress < BOOT_START_ADDR /\ Blank(flash, PageOf(CurrFlashPageStartAddress))
Within ==
  pc \in {"program", "commit", "eraseNext"} => CurrFlashAddress + 2 * remaining <= BOOT_START_ADDR
ToErase ==
  pc = "eraseNext" => remaining > 0 /\ CurrFlashPageStartAddress = CurrFlashAddress
PageByPage ==
  pc \in {"erase", "eraseWrite"} => \E k \in Nat : CurrFlashAddress = k * SPM_PAGESIZE
ToWriteErased ==
  pc = "eraseWrite" =>
    CurrFlashAddress < BOOT_START_ADDR /\ Blank(flash, PageOf(CurrFlashAddress))

FlashInv ==
  flash \in Sound /\ ToProgram /\ ToCommit /\ Within /\ ToErase /\ PageByPage /\ ToWriteErased

IInv == Typing /\ InOrder /\ InWords /\ Secured /\ Keyed /\ FlashInv

USE DEF usb, discard, block, range, dfu, exit, memory, hist

-----------------------------------------------------------------------------
LEMMA PacketRange ==
  /\ FIXED_CONTROL_ENDPOINT_SIZE \in Nat \ {0} /\ FIXED_CONTROL_ENDPOINT_SIZE % 2 = 0
  /\ 0 \in Int /\ 0 \in PacketSizes /\ DFU_FILLER_BYTES_SIZE \in PacketSizes /\ DFU_FILE_SUFFIX_SIZE \in Nat
  /\ \A n \in PacketSizes : n \in Nat /\ n <= FIXED_CONTROL_ENDPOINT_SIZE
  /\ \A n \in Nat : n <= FIXED_CONTROL_ENDPOINT_SIZE => n \in PacketSizes
  BY EndpointAssumption DEF PacketSizes

LEMMA PageRange ==
  /\ SPM_PAGESIZE \div 2 \in Nat \ {0} /\ 0 \in PageWords
  /\ \A n \in PageWords : n \in Nat /\ (n < SPM_PAGESIZE \div 2 => n + 1 \in PageWords)
  BY PageAssumption DEF PageWords

\* The bootloader's own pages come after BOOT_START_ADDR.
LEMMA BootInFlash == 0..(BOOT_START_ADDR - 1) \subseteq FlashAddresses
<1> DEFINE app == AppPages * SPM_PAGESIZE
           own == BootPages * SPM_PAGESIZE
           all == (AppPages + BootPages) * SPM_PAGESIZE
<1>1. app \in Nat /\ own \in Nat /\ all = app + own
  BY PageSize, PagesAssumption
<1>2. BOOT_START_ADDR = app /\ FlashAddresses = 0..(all - 1)
  BY DEF BOOT_START_ADDR, FlashAddresses
<1> HIDE DEF app, own, all
<1> QED
  BY <1>1, <1>2

LEMMA AlignmentType == \A a \in Nat : Alignment(a) \in Nat
  BY PacketRange DEF Alignment

LEMMA FlashBlockType ==
  \A b \in FlashBlocks : b[1] \in Nat /\ b[2] \in Nat /\ b[1] <= b[2] /\ b[2] < BOOT_START_ADDR
  BY BlocksAssumption

LEMMA EepromBlockType ==
  \A b \in EepromBlocks : b[1] \in Nat /\ b[2] \in Nat /\ b[1] <= b[2]
  BY BlocksAssumption

LEMMA PlaceNames ==
  {"start", "task", "exit", "application", "filler", "align", "program", "eeprom", "suffix",
   "uploadFlash", "uploadEeprom", "command", "erase", "eraseWrite", "commit", "eraseNext",
   "statusOut"} \subseteq Places
  BY DEF Places, Handler, Receiving, Sending

LEMMA CommandNames ==
  /\ Commands \subseteq Commands \cup {"none"}
  /\ {"progFlash", "progEeprom", "dispFlash", "blankCheck", "dispEeprom", "erase", "startJump",
      "startWatchdog"} \cup ReadCommands \subseteq Commands
  BY DEF Commands, ProgCommands, DispCommands, WriteCommands, ReadCommands

LEMMA StateNames ==
  /\ {"dfuIDLE", "dfuDNLOAD_IDLE", "dfuUPLOAD_IDLE", "dfuERROR"} \subseteq DFU_State_t
  /\ {"OK", "errWRITE", "errCHECK_ERASED"} \subseteq DFU_Status_t
  /\ \A state \in DFU_State_t : FallBack(state) \in DFU_State_t
  BY DEF DFU_State_t, DFU_Status_t, FallBack

\* A byte of the stream is a number, whether the host means it for an address or not.
LEMMA NamedType == first \in Nat => \A a \in Int : Named(a) \in Nat
  BY DEF Named

LEMMA EepromStored ==
  ASSUME eeprom \in Eeproms, NEW i, NEW byte \in Nat
  PROVE  [eeprom EXCEPT ![i] = byte] \in Eeproms
  BY DEF Eeproms

-----------------------------------------------------------------------------
(* Types.  The flags first, then, by groups of actions, the ranges of the others. *)

LEMMA FlagsOfTask == Flags /\ Task => Flags'
<1> SUFFICES ASSUME Flags, Task PROVE Flags'
  OBVIOUS
<1>1. CASE StartApplication \/ SetupHardware
  BY <1>1 DEF StartApplication, SetupHardware, Flags
<1>2. CASE LeaveLoop \/ NoCommand
  <2>1. UNCHANGED <<usb, IsSecure, exit, hist>>
    BY <1>2 DEF LeaveLoop, NoCommand
  <2> QED
    BY <2>1 DEF Flags
<1>3. CASE EraseNextPage \/ WriteErasedPage
  BY <1>3 DEF EraseNextPage, WriteErasedPage, Flags
<1>4. CASE ClearEmptyBank
  BY <1>4 DEF ClearEmptyBank, Flags
<1>13. CASE DiscardByte
  BY <1>13 DEF DiscardByte, Flags
<1>14. CASE ResetHardware
  BY <1>14 DEF ResetHardware, Flags
<1>5. CASE EndFiller \/ EndAlign
  BY <1>5 DEF EndFiller, EndAlign, Flags
<1>6. CASE ProgramWord \/ CommitPage
  BY <1>6 DEF ProgramWord, CommitPage, Flags
<1>7. CASE EraseNextProgramPage \/ EndProgram
  BY <1>7 DEF EraseNextProgramPage, EndProgram, Flags
<1>8. CASE WriteEepromByte \/ EndEeprom
  BY <1>8 DEF WriteEepromByte, EndEeprom, Flags
<1>9. CASE ClearFullBank
  BY <1>9 DEF ClearFullBank, Flags
<1>15. CASE UploadWord
  BY <1>15 DEF UploadWord, Flags
<1>10. CASE UploadEepromByte \/ EndUpload
  BY <1>10 DEF UploadEepromByte, EndUpload, Flags
<1>11. CASE AbandonProgram \/ EndDnload \/ AbandonUpload \/ NoStatusStage
  BY <1>11 DEF AbandonProgram, EndDnload, AbandonUpload, NoStatusStage, Return, Flags
<1>12. CASE EndErase
  BY <1>12 DEF EndErase, Return, Flags
<1> QED
  BY <1>1, <1>2, <1>3, <1>4, <1>5, <1>6, <1>7, <1>8, <1>9, <1>10, <1>11, <1>12, <1>13,
     <1>14, <1>15 DEF Task

LEMMA FlagsOfHost == Flags /\ Host => Flags'
<1> SUFFICES ASSUME Flags, Host PROVE Flags'
  OBVIOUS
<1>1. CASE HostSends \/ HostFetches
  BY <1>1 DEF HostSends, HostFetches, Flags
<1>2. CASE HostAcknowledges
  BY <1>2 DEF HostAcknowledges, Return, Flags
<1>3. CASE DnloadNothing \/ DnloadData
  <2>1. \E hasData \in BOOLEAN : ProcessStartAgain(hasData)
    BY <1>3 DEF DnloadNothing, DnloadData
  <2>2. /\ RunBootloader' \in BOOLEAN /\ WaitForExit' \in BOOLEAN /\ MagicBootKey' \in BOOLEAN
        /\ watchdog' \in BOOLEAN /\ WDRF' \in BOOLEAN
    BY <2>1 DEF ProcessStartAgain, Flags
  <2>3. UNCHANGED <<attached, outReceived, inReady, IsSecure, clean>>
    BY <1>3 DEF DnloadNothing, DnloadData
  <2> QED
    BY <2>2, <2>3 DEF Flags
<1>4. CASE UploadResponse
  BY <1>4 DEF UploadResponse, Flags
<1>12. CASE BeginUpload
  BY <1>12 DEF BeginUpload, Flags
<1>5. CASE GetStatusOrState \/ ClearStatus \/ Abort
  BY <1>5 DEF GetStatusOrState, ClearStatus, Abort, Flags
<1>6. ASSUME NEW command, RejectCommand(command) \/ ProcessReadCommand(command)
      PROVE  Flags'
  BY <1>6 DEF RejectCommand, ProcessReadCommand, Flags
<1>7. ASSUME NEW command, NEW b, ProcessMemReadCommand(command, b) PROVE Flags'
  BY <1>7 DEF ProcessMemReadCommand, Flags
<1>8. CASE BlankCheck
  BY <1>8 DEF BlankCheck, Flags
<1>9. CASE StartByWatchdog \/ StartByJump
  BY <1>9 DEF StartByWatchdog, StartByJump, Flags
<1>10. CASE BeginErase
  BY <1>10 DEF BeginErase, Flags
<1>11. ASSUME NEW command, NEW b, BeginProgram(command, b) PROVE Flags'
  BY <1>11 DEF BeginProgram, Flags
<1> QED
  BY <1>1, <1>2, <1>3, <1>4, <1>5, <1>6, <1>7, <1>8, <1>9, <1>10, <1>11, <1>12
     DEF Host, Request, Command, BeginProgramFlash, BeginProgramEeprom

LEMMA FlagsStep == Flags /\ [Next]_vars => Flags'
<1> SUFFICES ASSUME Flags, [Next]_vars PROVE Flags'
  OBVIOUS
<1>1. CASE Bus
  <2>1. CASE Unplug
    BY <2>1 DEF Unplug, Flags
  <2>2. CASE Resume
    BY <2>2 DEF Resume, Flags
  <2>3. CASE BusReset
    BY <2>3 DEF BusReset, Flags
  <2> QED
    BY <1>1, <2>1, <2>2, <2>3 DEF Bus
<1>2. ASSUME NEW cause, Reset(cause) PROVE Flags'
  <2>1. SECURE_MODE \in BOOLEAN
    BY EndpointAssumption
  <2>2. MagicBootKey' \in BOOLEAN /\ WDRF' \in BOOLEAN
    BY <1>2 DEF Reset, Flags
  <2> QED
    BY <1>2, <2>1, <2>2 DEF Reset, Flags
<1>3. CASE UNCHANGED vars
  BY <1>3 DEF vars, Flags
<1> QED
  BY <1>1, <1>2, <1>3, FlagsOfTask, FlagsOfHost DEF Next, WatchdogBites, OtherReset

LEMMA RangesStart == Init => Ranges
<1> SUFFICES ASSUME Init PROVE Ranges
  OBVIOUS
<1>1. UsbTyping
  BY PacketRange DEF Init, UsbTyping
<1>2. BlockTyping
  BY PageRange DEF Init, BlockTyping
<1>4. StateTyping
  BY PlaceNames, StateNames DEF Init, StateTyping
<1>5. MemoryTyping
  <2>1. Old \in Nat
    BY BootStart DEF Old
  <2>2. flash \in [FlashAddresses -> Contents]
    BY <2>1 DEF Init, Contents
  <2>3. eeprom \in Eeproms
    BY DEF Init, Eeproms
  <2> QED
    BY <2>2, <2>3, EmptyBufferType DEF Init, MemoryTyping
<1> QED
  BY <1>1, <1>2, <1>4, <1>5 DEF Ranges

\* The bus, the packets that come and go, and the bytes that are thrown away.
LEMMA RangesBus ==
  Ranges /\ (Bus \/ HostSends \/ HostFetches \/ ClearEmptyBank \/ DiscardByte \/ ClearFullBank) => Ranges'
<1> SUFFICES ASSUME Ranges, Bus \/ HostSends \/ HostFetches \/ ClearEmptyBank \/ DiscardByte \/ ClearFullBank
             PROVE  Ranges'
  OBVIOUS
<1>a. UsbTyping /\ BlockTyping /\ StateTyping /\ MemoryTyping
  BY DEF Ranges
<1>1. CASE Unplug \/ Resume
  BY <1>a, <1>1 DEF Unplug, Resume, Ranges, UsbTyping, BlockTyping, StateTyping, MemoryTyping
<1>2. CASE BusReset
  BY <1>a, <1>2, PacketRange DEF BusReset, Ranges, UsbTyping, BlockTyping, StateTyping, MemoryTyping
<1>3. CASE HostSends
  <2>1. outBytes' \in PacketSizes /\ toCome' \in Nat
    BY <1>a, <1>3, PacketRange DEF HostSends, Smaller, UsbTyping
  <2>2. NumberOfBytes' \in Nat
    BY <1>a, <1>3 DEF HostSends, BlockTyping
  <2> QED
    BY <1>a, <1>3, <2>1, <2>2 DEF HostSends, Ranges, UsbTyping, BlockTyping, StateTyping, MemoryTyping
<1>4. CASE HostFetches \/ ClearEmptyBank \/ ClearFullBank
  BY <1>a, <1>4, PacketRange
     DEF HostFetches, ClearEmptyBank, ClearFullBank, Ranges, UsbTyping, BlockTyping, StateTyping, MemoryTyping
<1>5. CASE DiscardByte
  <2>1. NumberOfBytes' \in Nat /\ outBytes' \in PacketSizes /\ at' \in Int
    BY <1>a, <1>5, PacketRange DEF DiscardByte, UsbTyping, BlockTyping
  <2> QED
    BY <1>a, <1>5, <2>1 DEF DiscardByte, Ranges, UsbTyping, BlockTyping, StateTyping, MemoryTyping
<1> QED
  BY <1>1, <1>2, <1>3, <1>4, <1>5 DEF Bus

\* Resets, and what main() does about them.
LEMMA RangesReset ==
  Ranges /\ (\/ WatchdogBites \/ OtherReset \/ StartApplication \/ SetupHardware \/ LeaveLoop
             \/ ResetHardware) => Ranges'
<1> SUFFICES ASSUME Ranges, \/ WatchdogBites \/ OtherReset \/ StartApplication \/ SetupHardware
                            \/ LeaveLoop \/ ResetHardware
             PROVE  Ranges'
  OBVIOUS
<1>a. UsbTyping /\ BlockTyping /\ StateTyping /\ MemoryTyping
  BY DEF Ranges
<1>1. ASSUME NEW cause, Reset(cause) PROVE Ranges'
  <2>1. UsbTyping' /\ BlockTyping'
    BY <1>1, PacketRange, PageRange DEF Reset, UsbTyping, BlockTyping
  <2>5. StateTyping'
    BY <1>1, PlaceNames, StateNames DEF Reset, StateTyping
  <2>6. MemoryTyping'
    BY <1>a, <1>1, EmptyBufferType DEF Reset, MemoryTyping
  <2> QED
    BY <2>1, <2>5, <2>6 DEF Ranges
<1>2. CASE StartApplication \/ SetupHardware \/ LeaveLoop \/ ResetHardware
  BY <1>a, <1>2, PlaceNames
     DEF StartApplication, SetupHardware, LeaveLoop, ResetHardware, Ranges, UsbTyping, BlockTyping,
         StateTyping, MemoryTyping
<1> QED
  BY <1>1, <1>2 DEF WatchdogBites, OtherReset

\* The requests, up to the command in a DNLOAD.
LEMMA RangesRequests == Ranges /\ InOrder /\ (Request \/ NoCommand) => Ranges'
<1> SUFFICES ASSUME Ranges, InOrder, Request \/ NoCommand PROVE Ranges'
  OBVIOUS
<1>a. UsbTyping /\ BlockTyping /\ StateTyping /\ MemoryTyping
  BY DEF Ranges
<1>2. CASE DnloadNothing \/ DnloadData
  <2>1. DFU_State' \in DFU_State_t /\ pc' \in Places
    BY <1>a, <1>2, StateNames, PlaceNames DEF DnloadNothing, DnloadData, StateTyping
  <2>2. AppStartPtr' \in {"reset vector", "given"}
    BY <1>a, <1>2 DEF DnloadNothing, DnloadData, ProcessStartAgain, StateTyping
  <2>3. UNCHANGED <<SentCommand, DFU_Status, usb, discard, block, range, memory, first>>
    BY <1>2 DEF DnloadNothing, DnloadData
  <2> QED
    BY <1>a, <2>1, <2>2, <2>3
       DEF Ranges, UsbTyping, BlockTyping, StateTyping, MemoryTyping
<1>3. CASE NoCommand \/ GetStatusOrState \/ ClearStatus \/ Abort
  BY <1>a, <1>3, PlaceNames, StateNames
     DEF NoCommand, GetStatusOrState, ClearStatus, Abort, Ranges, UsbTyping, BlockTyping, StateTyping,
         MemoryTyping
<1>4. CASE UploadResponse
  BY <1>a, <1>4, PlaceNames, StateNames
     DEF UploadResponse, Ranges, UsbTyping, BlockTyping, StateTyping, MemoryTyping
<1>5. CASE BeginUpload
  <2>1. StartAddr <= EndAddr
    BY <1>5 DEF BeginUpload, Serving, InOrder
  <2>2. BytesRemaining \in Nat /\ BytesRemaining \div 2 \in Nat
    BY <1>a, <2>1 DEF BytesRemaining, BlockTyping
  <2>3. remaining' \in Nat /\ CurrFlashAddress' \in Nat /\ pc' \in Places
    BY <1>a, <1>5, <2>2, PlaceNames DEF BeginUpload, BlockTyping
  <2> QED
    BY <1>a, <1>5, <2>3, PacketRange
       DEF BeginUpload, Ranges, UsbTyping, BlockTyping, StateTyping, MemoryTyping
<1> QED
  BY <1>2, <1>3, <1>4, <1>5 DEF Request

\* The first packet of a DNLOAD and the command in it.
LEMMA RangesCommand == Ranges /\ Command /\ flash' \in [FlashAddresses -> Contents] => Ranges'
<1> SUFFICES ASSUME Ranges, Command, flash' \in [FlashAddresses -> Contents] PROVE Ranges'
  OBVIOUS
<1>a. UsbTyping /\ BlockTyping /\ StateTyping /\ MemoryTyping
  BY DEF Ranges
<1>1. CASE (\E command \in Commands : RejectCommand(command))
           \/ (\E command \in ReadCommands : ProcessReadCommand(command))
  BY <1>a, <1>1, PlaceNames, CommandNames, StateNames
     DEF RejectCommand, ProcessReadCommand, Receive, Ranges, UsbTyping, BlockTyping, StateTyping, MemoryTyping
<1>2. ASSUME NEW command \in {"dispFlash", "dispEeprom"}, NEW b \in FlashBlocks \cup EepromBlocks,
             ProcessMemReadCommand(command, b)
      PROVE  Ranges'
  BY <1>a, <1>2, PlaceNames, CommandNames, StateNames, FlashBlockType, EepromBlockType
     DEF ProcessMemReadCommand, Receive, LoadStartEndAddresses, Ranges, UsbTyping, BlockTyping,
         StateTyping, MemoryTyping
<1>3. CASE BlankCheck
  <2>1. StartAddr' \in Nat
    <3> DEFINE used == {a \in 0..(BOOT_START_ADDR - 1) : flash[a] # Erased}
    <3>1. CASE used = {}
      BY <1>a, <1>3, <3>1 DEF BlankCheck, BlockTyping
    <3>2. CASE used # {}
      <4>1. StartAddr' \in used
        BY <1>3, <3>2 DEF BlankCheck
      <4> QED
        BY <4>1, BootStart
    <3> QED
      BY <3>1, <3>2
  <2>2. DFU_State' \in DFU_State_t /\ DFU_Status' \in DFU_Status_t
    BY <1>a, <1>3, StateNames DEF BlankCheck, StateTyping
  <2> QED
    BY <1>a, <1>3, <2>1, <2>2, PlaceNames, CommandNames
       DEF BlankCheck, Receive, Ranges, UsbTyping, BlockTyping, StateTyping, MemoryTyping
<1>4. CASE StartByWatchdog \/ StartByJump
  BY <1>a, <1>4, PlaceNames, CommandNames, StateNames
     DEF StartByWatchdog, StartByJump, Receive, Ranges, UsbTyping, BlockTyping, StateTyping, MemoryTyping
<1>5. CASE BeginErase
  BY <1>a, <1>5, PlaceNames, CommandNames
     DEF BeginErase, Receive, Ranges, UsbTyping, BlockTyping, StateTyping, MemoryTyping
<1>6. ASSUME NEW command \in {"progFlash", "progEeprom"}, NEW b \in FlashBlocks \cup EepromBlocks,
             BeginProgram(command, b)
      PROVE  Ranges'
  <2>1. b[1] \in Nat /\ b[2] \in Nat /\ b[1] <= b[2] /\ Alignment(b[1]) \in Nat
    BY FlashBlockType, EepromBlockType, AlignmentType
  <2>2. toCome' \in Nat /\ at' \in Int
    BY <1>6, <2>1, PacketRange DEF BeginProgram, Length
  <2>3. outBytes' \in PacketSizes /\ NumberOfBytes' \in Nat
    BY <1>6, PacketRange DEF BeginProgram
  <2> QED
    BY <1>a, <1>6, <2>1, <2>2, <2>3, PlaceNames, CommandNames, StateNames
       DEF BeginProgram, Receive, LoadStartEndAddresses, Ranges, UsbTyping, BlockTyping, StateTyping,
           MemoryTyping
<1> QED
  BY <1>1, <1>2, <1>3, <1>4, <1>5, <1>6 DEF Command, BeginProgramFlash, BeginProgramEeprom

\* The end of a request.
LEMMA RangesReturn ==
  Ranges /\ (\/ HostAcknowledges \/ AbandonProgram \/ EndDnload \/ AbandonUpload \/ NoStatusStage
             \/ EndErase) => Ranges'
<1> SUFFICES ASSUME Ranges,
                    \/ HostAcknowledges \/ AbandonProgram \/ EndDnload \/ AbandonUpload
                    \/ NoStatusStage \/ EndErase
             PROVE  Ranges'
  OBVIOUS
<1>a. UsbTyping /\ BlockTyping /\ StateTyping /\ MemoryTyping
  BY DEF Ranges
<1>1. Return
  BY DEF HostAcknowledges, AbandonProgram, EndDnload, AbandonUpload, NoStatusStage, EndErase
<1>2. /\ outBytes' \in PacketSizes /\ toCome' \in Nat /\ at' \in Int
      /\ inBytes' \in PacketSizes
      /\ NumberOfBytes' \in Nat /\ remaining' \in Nat /\ CurrFlashAddress' \in Nat
      /\ CurrFlashPageStartAddress' \in Nat /\ WordsInFlashPage' \in PageWords
      /\ first' \in Nat /\ pc' \in Places
  BY <1>1, PacketRange, PageRange, PlaceNames DEF Return
<1>3. CASE HostAcknowledges \/ AbandonProgram \/ EndDnload \/ AbandonUpload \/ NoStatusStage
  <2>1. UNCHANGED <<StartAddr, EndAddr, SentCommand, dfu, IsSecure, exit, memory>>
    BY <1>3 DEF HostAcknowledges, AbandonProgram, EndDnload, AbandonUpload, NoStatusStage
  <2> QED
    BY <1>a, <1>2, <2>1 DEF Ranges, UsbTyping, BlockTyping, StateTyping, MemoryTyping
<1>4. CASE EndErase
  <2>1. /\ UNCHANGED <<StartAddr, EndAddr, SentCommand, DFU_Status, exit, flash, eeprom>>
        /\ pageBuffer' = EmptyBuffer /\ DFU_State' \in DFU_State_t
    BY <1>a, <1>4, StateNames DEF EndErase, StateTyping
  <2> QED
    BY <1>a, <1>2, <2>1, EmptyBufferType DEF Ranges, UsbTyping, BlockTyping, StateTyping, MemoryTyping
<1> QED
  BY <1>3, <1>4

-----------------------------------------------------------------------------
(* What a step may do, as far as the invariant looks at it. *)

\* Packets come, go and are thrown away.
Quiet == UNCHANGED <<pc, block, range, SentCommand, DFU_State, IsSecure, WaitForExit, memory>>

\* Between two requests, or on the way there: no memory changes, no start is asked for, and
\* what may still be read is the range it was.
Elsewhere ==
  /\ pc' \in {"task", "command", "exit", "application", "statusOut"}
  /\ UNCHANGED <<memory, IsSecure>>
  /\ WaitForExit' => WaitForExit
  /\ DFU_State' = "dfuUPLOAD_IDLE" =>
       DFU_State = "dfuUPLOAD_IDLE" /\ UNCHANGED range /\ pc # "uploadEeprom"

\* The commands that a secure session rejects.
Opens ==
  \/ \E b \in FlashBlocks : ProcessMemReadCommand("dispFlash", b)
  \/ \E b \in EepromBlocks : ProcessMemReadCommand("dispEeprom", b)
  \/ StartByWatchdog \/ StartByJump

LEMMA Quietens ==
  Bus \/ HostSends \/ HostFetches \/ ClearEmptyBank \/ DiscardByte \/ ClearFullBank \/ UNCHANGED vars => Quiet
<1>1. Bus => Quiet
  BY DEF Bus, Unplug, Resume, BusReset, Quiet
<1>2. HostSends \/ HostFetches => Quiet
  BY DEF HostSends, HostFetches, Quiet
<1>3. ClearEmptyBank \/ DiscardByte => Quiet
  BY DEF ClearEmptyBank, DiscardByte, Quiet
<1>4. ClearFullBank \/ UNCHANGED vars => Quiet
  BY DEF ClearFullBank, vars, Quiet
<1> QED
  BY <1>1, <1>2, <1>3, <1>4

LEMMA RequestsGoElsewhere ==
  (\/ DnloadNothing \/ DnloadData \/ UploadResponse \/ GetStatusOrState \/ ClearStatus \/ Abort
   \/ \E command : RejectCommand(command) \/ ProcessReadCommand(command)
   \/ BlankCheck) => Elsewhere
<1>1. DnloadNothing => Elsewhere
  <2> SUFFICES ASSUME DnloadNothing PROVE Elsewhere
    OBVIOUS
  <2>1. /\ pc = "task" /\ pc' = "task" /\ UNCHANGED <<memory, IsSecure, StartAddr, EndAddr>>
        /\ DFU_State' = FallBack(DFU_State) /\ ProcessStartAgain(FALSE)
    BY DEF DnloadNothing, Serving
  <2>2. WaitForExit' => WaitForExit
    BY <2>1 DEF ProcessStartAgain
  <2> QED
    BY <2>1, <2>2 DEF Elsewhere, FallBack
<1>2. DnloadData => Elsewhere
  <2> SUFFICES ASSUME DnloadData PROVE Elsewhere
    OBVIOUS
  <2>1. /\ pc = "task" /\ pc' = "command" /\ UNCHANGED <<memory, IsSecure, StartAddr, EndAddr, DFU_State>>
        /\ ProcessStartAgain(TRUE)
    BY DEF DnloadData, Serving
  <2>2. WaitForExit' => WaitForExit
    BY <2>1 DEF ProcessStartAgain
  <2> QED
    BY <2>1, <2>2 DEF Elsewhere
<1>3. UploadResponse => Elsewhere
  BY DEF UploadResponse, Serving, Elsewhere
<1>4. GetStatusOrState \/ ClearStatus \/ Abort => Elsewhere
  BY DEF GetStatusOrState, ClearStatus, Abort, Serving, Elsewhere
<1>5. ASSUME NEW command, RejectCommand(command) \/ ProcessReadCommand(command) PROVE Elsewhere
  BY <1>5 DEF RejectCommand, ProcessReadCommand, Receive, FallBack, Elsewhere
<1>6. BlankCheck => Elsewhere
  <2> SUFFICES ASSUME BlankCheck PROVE Elsewhere
    OBVIOUS
  <2>1. /\ pc = "command" /\ pc' = "task" /\ UNCHANGED <<memory, IsSecure, EndAddr, WaitForExit>>
        /\ \/ DFU_State' = FallBack(DFU_State) /\ UNCHANGED StartAddr
           \/ DFU_State' = "dfuERROR"
    BY DEF BlankCheck, Receive
  <2> QED
    BY <2>1 DEF Elsewhere, FallBack
<1> QED
  BY <1>1, <1>2, <1>3, <1>4, <1>5, <1>6

LEMMA OthersGoElsewhere ==
  (\/ StartApplication \/ SetupHardware \/ LeaveLoop \/ ResetHardware \/ NoCommand
   \/ HostAcknowledges \/ AbandonProgram \/ EndDnload \/ EndUpload \/ NoStatusStage) => Elsewhere
<1>1. StartApplication \/ SetupHardware => Elsewhere
  BY DEF StartApplication, SetupHardware, Elsewhere
<1>2. LeaveLoop \/ ResetHardware \/ NoCommand => Elsewhere
  BY DEF LeaveLoop, ResetHardware, NoCommand, Elsewhere
<1>3. HostAcknowledges \/ AbandonProgram \/ EndDnload \/ NoStatusStage => Elsewhere
  BY DEF HostAcknowledges, AbandonProgram, EndDnload, NoStatusStage, Return, Elsewhere
<1>4. EndUpload => Elsewhere
  BY DEF EndUpload, Elsewhere
<1> QED
  BY <1>1, <1>2, <1>3, <1>4

Resets == \E cause : Reset(cause)

\* Every step is one of these.
LEMMA Steps ==
  [Next]_vars =>
    \/ Quiet \/ Elsewhere \/ Resets \/ Opens \/ BeginUpload
    \/ BeginErase \/ EraseNextPage \/ WriteErasedPage \/ EndErase
    \/ (\E b \in FlashBlocks : BeginProgramFlash(b)) \/ (\E b \in EepromBlocks : BeginProgramEeprom(b))
    \/ EndFiller \/ EndAlign \/ ProgramWord \/ CommitPage \/ EraseNextProgramPage \/ EndProgram
    \/ WriteEepromByte \/ EndEeprom \/ UploadWord \/ UploadEepromByte \/ AbandonUpload
<1>1. Command => \/ Elsewhere \/ Opens \/ BeginErase
                 \/ (\E b \in FlashBlocks : BeginProgramFlash(b))
                 \/ (\E b \in EepromBlocks : BeginProgramEeprom(b))
  BY RequestsGoElsewhere DEF Command, Opens
<1>2. Request => Elsewhere \/ BeginUpload
  BY RequestsGoElsewhere DEF Request
<1>3. Task => \/ Quiet \/ Elsewhere \/ EraseNextPage \/ WriteErasedPage \/ EndErase
              \/ EndFiller \/ EndAlign \/ ProgramWord \/ CommitPage \/ EraseNextProgramPage \/ EndProgram
              \/ WriteEepromByte \/ EndEeprom \/ UploadWord \/ UploadEepromByte \/ AbandonUpload
  BY Quietens, OthersGoElsewhere DEF Task
<1>4. WatchdogBites \/ OtherReset => Resets
  BY DEF WatchdogBites, OtherReset, Resets
<1>5. Host => Command \/ Request \/ Quiet \/ Elsewhere
  BY Quietens, OthersGoElsewhere DEF Host
<1>6. Bus \/ UNCHANGED vars => Quiet
  BY Quietens
<1> QED
  BY <1>1, <1>2, <1>3, <1>4, <1>5, <1>6 DEF Next

-----------------------------------------------------------------------------
(* The range and the counts. *)

LEMMA OrderStep == IInv /\ [Next]_vars => InOrder'
<1> SUFFICES ASSUME IInv, [Next]_vars PROVE InOrder'
  OBVIOUS
<1>a. InOrder /\ BlockTyping
  BY DEF IInv, Typing, Ranges
<1>1. CASE Quiet
  BY <1>a, <1>1 DEF Quiet, InOrder
<1>2. CASE Elsewhere
  BY <1>a, <1>2 DEF Elsewhere, InOrder, Downloading
<1>3. CASE Resets
  BY <1>3 DEF Resets, Reset, InOrder, Downloading
<1>4. CASE Opens
  <2>1. ASSUME NEW command, NEW b \in FlashBlocks \cup EepromBlocks, ProcessMemReadCommand(command, b)
        PROVE  InOrder'
    <3>1. pc' = "task" /\ StartAddr' <= EndAddr'
      BY <2>1, FlashBlockType, EepromBlockType DEF ProcessMemReadCommand, LoadStartEndAddresses
    <3> QED
      BY <3>1 DEF InOrder, Downloading
  <2>2. CASE StartByWatchdog \/ StartByJump
    <3>1. /\ pc = "command" /\ pc' = "task" /\ UNCHANGED <<StartAddr, EndAddr>>
          /\ DFU_State' = FallBack(DFU_State)
      BY <2>2 DEF StartByWatchdog, StartByJump, Receive
    <3> QED
      BY <1>a, <3>1 DEF InOrder, Downloading, FallBack
  <2> QED
    BY <1>4, <2>1, <2>2 DEF Opens
<1>5. CASE BeginUpload
  <2>1. /\ pc = "task" /\ pc' \in {"uploadFlash", "uploadEeprom"} /\ UNCHANGED <<StartAddr, EndAddr, DFU_State>>
        /\ DFU_State = "dfuUPLOAD_IDLE"
        /\ pc' = "uploadEeprom" => remaining' = (EndAddr - StartAddr) + 1
    BY <1>5 DEF BeginUpload, BytesRemaining, Serving
  <2>2. pc' = "uploadEeprom" => StartAddr' + remaining' = EndAddr' + 1
    BY <1>a, <1>5, <2>1 DEF BlockTyping, BeginUpload
  <2> QED
    BY <1>a, <2>1, <2>2 DEF InOrder, Downloading
<1>6. CASE BeginErase \/ EraseNextPage \/ WriteErasedPage
  BY <1>a, <1>6 DEF BeginErase, EraseNextPage, WriteErasedPage, Receive, InOrder, Downloading
<1>7. CASE EndErase
  <2>1. /\ pc = "erase" /\ pc' = "task" /\ UNCHANGED <<StartAddr, EndAddr>> /\ DFU_State' = FallBack(DFU_State)
    BY <1>7 DEF EndErase, Return
  <2> QED
    BY <1>a, <2>1 DEF InOrder, Downloading, FallBack
<1>8. ASSUME NEW command, NEW b \in FlashBlocks \cup EepromBlocks, BeginProgram(command, b)
      PROVE  InOrder'
  <2>1. pc' = "filler" /\ DFU_State' = "dfuDNLOAD_IDLE" /\ StartAddr' <= EndAddr'
    BY <1>8, FlashBlockType, EepromBlockType DEF BeginProgram, LoadStartEndAddresses
  <2> QED
    BY <2>1 DEF InOrder
<1>9. CASE EndFiller \/ EndAlign \/ ProgramWord \/ CommitPage
  <2>1. /\ pc \in Downloading /\ pc' \in Downloading /\ UNCHANGED <<DFU_State, StartAddr, EndAddr>>
        /\ pc' \in {"filler", "align"} => pc = "filler"
    BY <1>9 DEF EndFiller, EndAlign, ProgramWord, CommitPage, Downloading
  <2> QED
    BY <1>a, <2>1 DEF InOrder, Downloading
<1>10. CASE EraseNextProgramPage \/ EndProgram \/ WriteEepromByte \/ EndEeprom
  <2>1. /\ pc \in Downloading /\ pc' \in Downloading /\ pc' \notin {"filler", "align"}
        /\ UNCHANGED DFU_State
    BY <1>10 DEF EraseNextProgramPage, EndProgram, WriteEepromByte, EndEeprom, Downloading
  <2> QED
    BY <1>a, <2>1 DEF InOrder, Downloading
<1>11. CASE UploadWord
  BY <1>a, <1>11 DEF UploadWord, InOrder, Downloading
<1>12. CASE UploadEepromByte
  <2>1. /\ pc = "uploadEeprom" /\ pc' = pc /\ StartAddr' = StartAddr + 1 /\ EndAddr' = EndAddr
        /\ remaining' = remaining - 1
    BY <1>12 DEF UploadEepromByte
  <2>2. StartAddr' + remaining' = EndAddr' + 1
    BY <1>a, <2>1 DEF InOrder, BlockTyping
  <2> QED
    BY <2>1, <2>2 DEF InOrder, Downloading
<1>13. CASE AbandonUpload
  <2>1. /\ pc \in {"uploadFlash", "uploadEeprom"} /\ pc' = "task" /\ remaining > 0
        /\ UNCHANGED <<StartAddr, EndAddr, DFU_State>>
    BY <1>13 DEF AbandonUpload, Return, Sending
  <2>2. DFU_State = "dfuUPLOAD_IDLE" => StartAddr <= EndAddr
    BY <1>a, <2>1 DEF InOrder, BlockTyping
  <2> QED
    BY <2>1, <2>2 DEF InOrder, Downloading
<1> QED
  BY <1>1, <1>2, <1>3, <1>4, <1>5, <1>6, <1>7, <1>8, <1>9, <1>10, <1>11, <1>12, <1>13, Steps
     DEF BeginProgramFlash, BeginProgramEeprom

\* Packets are filled by words, pages by theirs.
LEMMA WordsStep == IInv /\ [Next]_vars => InWords'
<1> SUFFICES ASSUME IInv, [Next]_vars PROVE InWords'
  OBVIOUS
<1>a. InWords /\ UsbTyping /\ BlockTyping
  BY DEF IInv, Typing, Ranges
<1>1. CASE Bus \/ UNCHANGED vars
  BY <1>a, <1>1 DEF Bus, Unplug, Resume, BusReset, vars, InWords
<1>2. CASE HostSends \/ HostFetches \/ ClearEmptyBank \/ DiscardByte \/ ClearFullBank
  BY <1>a, <1>2 DEF HostSends, HostFetches, ClearEmptyBank, DiscardByte, ClearFullBank, InWords
<1>3. CASE BeginUpload
  BY <1>3 DEF BeginUpload, InWords
<1>4. CASE UploadWord
  <2>1. pc = "uploadFlash" /\ pc' = pc /\ inBytes' = inBytes + 2
    BY <1>4 DEF UploadWord
  <2>2. inBytes' % 2 = 0
    BY <1>a, <2>1, PacketRange DEF InWords, UsbTyping
  <2> QED
    BY <2>1, <2>2 DEF InWords
<1>5. CASE EndAlign
  BY <1>5, PageRange DEF EndAlign, InWords
<1>6. CASE ProgramWord
  <2>1. /\ pc = "program" /\ pc' \in {"program", "commit"} /\ WordsInFlashPage < SPM_PAGESIZE \div 2
        /\ WordsInFlashPage' = WordsInFlashPage + 1
        /\ pc' = "program" => WordsInFlashPage' # SPM_PAGESIZE \div 2
    BY <1>a, <1>6 DEF ProgramWord, InWords
  <2> QED
    BY <1>a, <2>1, PageRange DEF InWords, BlockTyping
<1>7. CASE CommitPage \/ EraseNextProgramPage
  BY <1>a, <1>7, PageRange DEF CommitPage, EraseNextProgramPage, InWords
<1>8. CASE pc' \notin {"uploadFlash", "program", "eraseNext"}
  BY <1>8 DEF InWords
<1>9. Elsewhere \/ Resets \/ Opens \/ BeginErase \/ EraseNextPage \/ WriteErasedPage \/ EndErase
        => pc' \notin {"uploadFlash", "program", "eraseNext"}
  BY DEF Elsewhere, Resets, Reset, Opens, ProcessMemReadCommand, StartByWatchdog, StartByJump, BeginErase,
         EraseNextPage, WriteErasedPage, EndErase, Return
<1>10. (\E command, b : BeginProgram(command, b)) \/ EndFiller \/ EndProgram \/ WriteEepromByte \/ EndEeprom
         \/ UploadEepromByte \/ AbandonUpload
         => pc' \notin {"uploadFlash", "program", "eraseNext"}
  BY DEF BeginProgram, EndFiller, EndProgram, WriteEepromByte, EndEeprom, UploadEepromByte, AbandonUpload, Return
<1>11. CASE Command \/ Request
  BY <1>3, <1>8, <1>9, <1>10, <1>11, RequestsGoElsewhere
     DEF Command, Request, Opens, BeginProgramFlash, BeginProgramEeprom
<1>12. CASE Task
  BY <1>2, <1>4, <1>5, <1>6, <1>7, <1>8, <1>9, <1>10, <1>12, OthersGoElsewhere DEF Task
<1> QED
  BY <1>1, <1>2, <1>8, <1>9, <1>11, <1>12, OthersGoElsewhere
     DEF Next, Host, Resets, WatchdogBites, OtherReset

-----------------------------------------------------------------------------
(* Secure mode and the key. *)

LEMMA SecuredStep == IInv /\ [Next]_vars => Secured'
<1> SUFFICES ASSUME IInv, [Next]_vars PROVE Secured'
  OBVIOUS
<1>a. Secured /\ InOrder /\ flash \in Sound
  BY DEF IInv, FlashInv
<1>1. CASE Quiet
  BY <1>a, <1>1 DEF Quiet, Secured
<1>2. CASE Elsewhere
  BY <1>a, <1>2 DEF Elsewhere, Secured, Downloading, Sending
<1>3. CASE Resets
  <2>1. /\ pc' = "start" /\ pageBuffer' = EmptyBuffer /\ ~WaitForExit' /\ DFU_State' = "dfuIDLE"
        /\ IsSecure' = SECURE_MODE
    BY <1>3 DEF Resets, Reset
  <2>2. IsSecure' => SECURE_MODE
    BY <2>1
  <2> QED
    BY <2>1, <2>2 DEF Secured, Downloading, Sending
<1>4. CASE Opens
  <2>1. ~IsSecure /\ UNCHANGED IsSecure
    BY <1>4 DEF Opens, ProcessMemReadCommand, StartByWatchdog, StartByJump, Allowed, ReadCommands
  <2> QED
    BY <2>1 DEF Secured
<1>5. CASE BeginErase
  <2>1. /\ pc' = "erase" /\ CurrFlashAddress' = 0
        /\ UNCHANGED <<IsSecure, pageBuffer, flash, WaitForExit, DFU_State>>
    BY <1>5 DEF BeginErase
  <2>2. \A a \in FlashAddresses : ~(a < CurrFlashAddress')
    BY <2>1, AddressIsNat
  <2> QED
    BY <1>a, <2>1, <2>2 DEF Secured, Downloading, Sending
<1>6. CASE EraseNextPage
  <2>1. /\ pc = "erase" /\ pc' = "eraseWrite" /\ flash' = ErasePage(flash, PageOf(CurrFlashAddress))
        /\ UNCHANGED <<IsSecure, pageBuffer, CurrFlashAddress, WaitForExit, DFU_State>>
    BY <1>6 DEF EraseNextPage
  <2>2. \A a \in FlashAddresses : flash[a] = Erased => flash'[a] = Erased
    BY <1>a, <2>1, Erasing
  <2> QED
    BY <1>a, <2>1, <2>2 DEF Secured, Downloading, Sending
<1>7. CASE WriteErasedPage
  <2>1. /\ pc = "eraseWrite" /\ pc' = "erase" /\ pageBuffer' = EmptyBuffer
        /\ flash' = WritePage(flash, pageBuffer, PageOf(CurrFlashAddress))
        /\ CurrFlashAddress' = CurrFlashAddress + SPM_PAGESIZE
        /\ UNCHANGED <<IsSecure, WaitForExit, DFU_State>>
    BY <1>7 DEF WriteErasedPage
  <2>2. PICK k \in Nat : CurrFlashAddress = k * SPM_PAGESIZE
    BY <2>1 DEF IInv, FlashInv, PageByPage
  <2>3. ASSUME IsSecure, NEW a \in FlashAddresses, a < CurrFlashAddress' PROVE flash'[a] = Erased
    <3>0. a \in Nat /\ flash' = flash
      BY <1>a, <2>1, <2>3, AddressIsNat, WritesItsPage DEF Secured
    <3>1. CASE a < CurrFlashAddress
      BY <1>a, <2>1, <2>3, <3>0, <3>1 DEF Secured
    <3>2. CASE ~(a < CurrFlashAddress)
      <4>1. k * SPM_PAGESIZE <= a /\ a < k * SPM_PAGESIZE + SPM_PAGESIZE
        BY <2>1, <2>2, <2>3, <3>0, <3>2, PageSize
      <4>2. PageOf(a) = PageOf(CurrFlashAddress)
        BY <2>2, <3>0, <4>1, WholePage
      <4> QED
        BY <2>1, <3>0, <4>2 DEF IInv, FlashInv, ToWriteErased, Blank
    <3> QED
      BY <3>1, <3>2
  <2> QED
    BY <1>a, <2>1, <2>3 DEF Secured, Downloading, Sending
<1>8. CASE EndErase
  BY <1>8 DEF EndErase, Secured
<1>9. ASSUME NEW command \in ProgCommands, NEW b, BeginProgram(command, b)
      PROVE  Secured'
  <2>1. ~IsSecure /\ UNCHANGED IsSecure
    BY <1>9 DEF BeginProgram, Allowed, ReadCommands, ProgCommands
  <2> QED
    BY <2>1 DEF Secured
<1>10. CASE BeginUpload
  <2>1. ~IsSecure /\ UNCHANGED IsSecure
    BY <1>a, <1>10 DEF BeginUpload, Secured
  <2> QED
    BY <2>1 DEF Secured
<1>11. CASE EndFiller \/ EndAlign \/ ProgramWord \/ CommitPage \/ EraseNextProgramPage
  <2>1. pc \in Downloading /\ UNCHANGED IsSecure
    BY <1>11 DEF EndFiller, EndAlign, ProgramWord, CommitPage, EraseNextProgramPage, Downloading
  <2> QED
    BY <1>a, <2>1 DEF Secured
<1>12. CASE EndProgram \/ WriteEepromByte \/ EndEeprom \/ UploadWord \/ UploadEepromByte \/ AbandonUpload
  <2>1. pc \in Downloading \cup Sending /\ UNCHANGED IsSecure
    BY <1>12 DEF EndProgram, WriteEepromByte, EndEeprom, UploadWord, UploadEepromByte, AbandonUpload,
                 Downloading, Sending
  <2> QED
    BY <1>a, <2>1 DEF Secured
<1> QED
  BY <1>1, <1>2, <1>3, <1>4, <1>5, <1>6, <1>7, <1>8, <1>9, <1>10, <1>11, <1>12, Steps
     DEF BeginProgramFlash, BeginProgramEeprom, ProgCommands

\* The key is left before the watchdog is armed; what clears it stops the watchdog too.
LEMMA KeyedStep == Keyed /\ [Next]_vars => Keyed'
<1> SUFFICES ASSUME Keyed, [Next]_vars PROVE Keyed'
  OBVIOUS
<1>1. CASE UNCHANGED <<watchdog, MagicBootKey>>
  BY <1>1 DEF Keyed
<1>2. CASE Resets \/ StartApplication \/ SetupHardware
  BY <1>2 DEF Resets, Reset, StartApplication, SetupHardware, Keyed
<1>3. CASE \E hasData \in BOOLEAN : ProcessStartAgain(hasData)
  BY <1>3 DEF ProcessStartAgain, Keyed
<1>4. CASE StartByWatchdog
  BY <1>4 DEF StartByWatchdog, Keyed
<1>5. Bus \/ HostSends \/ HostFetches \/ HostAcknowledges \/ UNCHANGED vars => UNCHANGED <<watchdog, MagicBootKey>>
  BY DEF Bus, Unplug, Resume, BusReset, HostSends, HostFetches, HostAcknowledges, vars
<1>6. LeaveLoop \/ ResetHardware \/ NoCommand \/ EraseNextPage \/ WriteErasedPage \/ EndErase
        => UNCHANGED <<watchdog, MagicBootKey>>
  BY DEF LeaveLoop, ResetHardware, NoCommand, EraseNextPage, WriteErasedPage, EndErase
<1>7. ClearEmptyBank \/ DiscardByte \/ EndFiller \/ EndAlign \/ ProgramWord \/ CommitPage
        => UNCHANGED <<watchdog, MagicBootKey>>
  BY DEF ClearEmptyBank, DiscardByte, EndFiller, EndAlign, ProgramWord, CommitPage
<1>8. EraseNextProgramPage \/ EndProgram \/ WriteEepromByte \/ EndEeprom \/ AbandonProgram \/ EndDnload
        => UNCHANGED <<watchdog, MagicBootKey>>
  BY DEF EraseNextProgramPage, EndProgram, WriteEepromByte, EndEeprom, AbandonProgram, EndDnload
<1>9. ClearFullBank \/ UploadWord \/ UploadEepromByte \/ AbandonUpload \/ EndUpload \/ NoStatusStage
        => UNCHANGED <<watchdog, MagicBootKey>>
  BY DEF ClearFullBank, UploadWord, UploadEepromByte, AbandonUpload, EndUpload, NoStatusStage
<1>10. UploadResponse \/ BeginUpload \/ GetStatusOrState \/ ClearStatus \/ Abort
        => UNCHANGED <<watchdog, MagicBootKey>>
  BY DEF UploadResponse, BeginUpload, GetStatusOrState, ClearStatus, Abort
<1>11. ASSUME NEW command, NEW b,
              \/ RejectCommand(command) \/ ProcessReadCommand(command) \/ ProcessMemReadCommand(command, b)
              \/ BeginProgram(command, b)
       PROVE  UNCHANGED <<watchdog, MagicBootKey>>
  BY <1>11 DEF RejectCommand, ProcessReadCommand, ProcessMemReadCommand, BeginProgram
<1>12. BlankCheck \/ StartByJump \/ BeginErase => UNCHANGED <<watchdog, MagicBootKey>>
  BY DEF BlankCheck, StartByJump, BeginErase
<1>13. DnloadNothing \/ DnloadData => \E hasData \in BOOLEAN : ProcessStartAgain(hasData)
  BY DEF DnloadNothing, DnloadData
<1>14. CASE Task
  BY <1>1, <1>2, <1>6, <1>7, <1>8, <1>9, <1>14 DEF Task
<1>15. CASE Host
  BY <1>1, <1>3, <1>4, <1>5, <1>10, <1>11, <1>12, <1>13, <1>15
     DEF Host, Command, Request, BeginProgramFlash, BeginProgramEeprom
<1> QED
  BY <1>1, <1>2, <1>5, <1>14, <1>15 DEF Next, Resets, WatchdogBites, OtherReset

-----------------------------------------------------------------------------
(* The flash. *)

LEMMA FlashStep == IInv /\ [Next]_vars => FlashInv'
<1> SUFFICES ASSUME IInv, [Next]_vars PROVE FlashInv'
  OBVIOUS
<1>a. /\ flash \in Sound /\ ToProgram /\ ToCommit /\ Within /\ ToErase /\ PageByPage /\ ToWriteErased
      /\ BlockTyping /\ pageBuffer \in Buffers
  BY DEF IInv, FlashInv, Typing, Ranges, MemoryTyping
<1>1. CASE Quiet
  BY <1>a, <1>1 DEF Quiet, FlashInv, ToProgram, ToCommit, Within, ToErase, PageByPage, ToWriteErased
<1>2. CASE flash' = flash /\ pc' \notin (Downloading \ {"eeprom", "suffix"}) \cup {"erase", "eraseWrite"}
  BY <1>a, <1>2
     DEF Downloading, FlashInv, ToProgram, ToCommit, Within, ToErase, PageByPage, ToWriteErased
<1>3. CASE BeginErase
  <2>1. pc' = "erase" /\ flash' = flash /\ CurrFlashAddress' = 0 * SPM_PAGESIZE /\ 0 \in Nat
    BY <1>3, PageSize DEF BeginErase
  <2> QED
    BY <1>a, <2>1 DEF FlashInv, ToProgram, ToCommit, Within, ToErase, PageByPage, ToWriteErased
<1>4. CASE EraseNextPage
  <2>1. /\ pc = "erase" /\ pc' = "eraseWrite" /\ CurrFlashAddress < BOOT_START_ADDR
        /\ flash' = ErasePage(flash, PageOf(CurrFlashAddress)) /\ UNCHANGED CurrFlashAddress
    BY <1>4 DEF EraseNextPage
  <2>2. flash' \in Sound /\ Blank(flash', PageOf(CurrFlashAddress))
    BY <1>a, <2>1, Erasing
  <2> QED
    BY <1>a, <2>1, <2>2 DEF FlashInv, ToProgram, ToCommit, Within, ToErase, PageByPage, ToWriteErased
<1>5. CASE WriteErasedPage
  <2>1. /\ pc = "eraseWrite" /\ pc' = "erase" /\ CurrFlashAddress' = CurrFlashAddress + SPM_PAGESIZE
        /\ flash' = WritePage(flash, pageBuffer, PageOf(CurrFlashAddress))
    BY <1>5 DEF WriteErasedPage
  <2>2. flash' \in Sound
    BY <1>a, <2>1, WritesBlank DEF ToWriteErased
  <2>3. PICK k \in Nat : CurrFlashAddress = k * SPM_PAGESIZE
    BY <1>a, <2>1 DEF PageByPage
  <2>4. CurrFlashAddress' = (k + 1) * SPM_PAGESIZE /\ k + 1 \in Nat
    BY <2>1, <2>3, PageSize
  <2> QED
    BY <2>1, <2>2, <2>4 DEF FlashInv, ToProgram, ToCommit, Within, ToErase, PageByPage, ToWriteErased
<1>6. ASSUME NEW b \in FlashBlocks, BeginProgramFlash(b) PROVE FlashInv'
  <2>1. /\ pc' = "filler" /\ StartAddr' = b[1] /\ EndAddr' = b[2]
        /\ flash' = ErasePage(flash, PageOf(b[1]))
    BY <1>6 DEF BeginProgramFlash, BeginProgram, LoadStartEndAddresses
  <2>2. flash' \in Sound /\ Blank(flash', PageOf(b[1])) /\ b[2] < BOOT_START_ADDR
    BY <1>a, <2>1, Erasing, FlashBlockType
  <2> QED
    BY <2>1, <2>2 DEF FlashInv, ToProgram, ToCommit, Within, ToErase, PageByPage, ToWriteErased
<1>7. ASSUME NEW b \in EepromBlocks, BeginProgramEeprom(b) PROVE FlashInv'
  <2>1. pc' = "filler" /\ flash' = flash /\ SentCommand' = "progEeprom"
    BY <1>7 DEF BeginProgramEeprom, BeginProgram, Receive
  <2>2. Data0(SentCommand') # 0
    BY <2>1 DEF Data0
  <2> QED
    BY <1>a, <2>1, <2>2 DEF FlashInv, ToProgram, ToCommit, Within, ToErase, PageByPage, ToWriteErased
<1>8. CASE EndFiller
  <2>1. pc = "filler" /\ pc' = "align" /\ UNCHANGED <<flash, SentCommand, StartAddr, EndAddr>>
    BY <1>8 DEF EndFiller
  <2> QED
    BY <1>a, <2>1 DEF FlashInv, ToProgram, ToCommit, Within, ToErase, PageByPage, ToWriteErased
<1>9. CASE EndAlign /\ Data0(SentCommand) = 0
  <2>1. /\ pc = "align" /\ pc' = "program" /\ remaining' = ((EndAddr - StartAddr) + 1) \div 2
        /\ CurrFlashAddress' = StartAddr /\ CurrFlashPageStartAddress' = StartAddr
        /\ flash' = flash
    BY <1>9 DEF EndAlign, BytesRemaining
  <2>2. StartAddr <= EndAddr /\ EndAddr < BOOT_START_ADDR /\ Blank(flash, PageOf(StartAddr))
    BY <1>a, <1>9, <2>1 DEF IInv, InOrder, ToProgram
  <2>3. StartAddr < BOOT_START_ADDR /\ CurrFlashAddress' + 2 * remaining' <= BOOT_START_ADDR
    BY <1>a, <2>1, <2>2, BootStart DEF BlockTyping
  <2> QED
    BY <1>a, <2>1, <2>2, <2>3 DEF FlashInv, ToProgram, ToCommit, Within, ToErase, PageByPage, ToWriteErased
<1>10. CASE ProgramWord
  <2>1. /\ pc = "program" /\ pc' \in {"program", "commit"} /\ remaining > 0 /\ remaining' = remaining - 1
        /\ CurrFlashAddress' = CurrFlashAddress + 2 /\ UNCHANGED <<flash, CurrFlashPageStartAddress>>
    BY <1>10 DEF ProgramWord
  <2>2. CurrFlashAddress' + 2 * remaining' <= BOOT_START_ADDR
    BY <1>a, <2>1, BootStart DEF BlockTyping, Within
  <2> QED
    BY <1>a, <2>1, <2>2 DEF FlashInv, ToProgram, ToCommit, Within, ToErase, PageByPage, ToWriteErased
<1>11. CASE CommitPage
  <2>1. /\ pc = "commit" /\ flash' = WritePage(flash, pageBuffer, PageOf(CurrFlashPageStartAddress))
        /\ UNCHANGED <<remaining, CurrFlashAddress>>
        /\ \/ remaining > 0 /\ pc' = "eraseNext" /\ CurrFlashPageStartAddress' = CurrFlashAddress
           \/ ~(remaining > 0) /\ pc' = "program"
    BY <1>11 DEF CommitPage
  <2>2. flash' \in Sound
    BY <1>a, <2>1, WritesBlank DEF ToCommit
  <2> QED
    BY <1>a, <2>1, <2>2 DEF FlashInv, ToProgram, ToCommit, Within, ToErase, PageByPage, ToWriteErased
<1>12. CASE EraseNextProgramPage
  <2>1. /\ pc = "eraseNext" /\ pc' = "program" /\ flash' = ErasePage(flash, PageOf(CurrFlashAddress))
        /\ UNCHANGED <<remaining, CurrFlashAddress, CurrFlashPageStartAddress>>
    BY <1>12 DEF EraseNextProgramPage
  <2>2. flash' \in Sound /\ Blank(flash', PageOf(CurrFlashAddress))
    BY <1>a, <2>1, Erasing
  <2>3. CurrFlashAddress < BOOT_START_ADDR /\ CurrFlashPageStartAddress = CurrFlashAddress
    BY <1>a, <2>1, BootStart DEF Within, ToErase, BlockTyping
  <2> QED
    BY <1>a, <2>1, <2>2, <2>3 DEF FlashInv, ToProgram, ToCommit, Within, ToErase, PageByPage, ToWriteErased
<1>13. Elsewhere \/ Resets \/ Opens
         => flash' = flash /\ pc' \notin (Downloading \ {"eeprom", "suffix"}) \cup {"erase", "eraseWrite"}
  BY DEF Elsewhere, Resets, Reset, Opens, ProcessMemReadCommand, StartByWatchdog, StartByJump, Downloading
<1>14. BeginUpload \/ EndErase \/ EndProgram \/ WriteEepromByte \/ EndEeprom
         => flash' = flash /\ pc' \notin (Downloading \ {"eeprom", "suffix"}) \cup {"erase", "eraseWrite"}
  BY DEF BeginUpload, EndErase, Return, EndProgram, WriteEepromByte, EndEeprom, Downloading
<1>15. UploadWord \/ UploadEepromByte \/ AbandonUpload \/ (EndAlign /\ Data0(SentCommand) # 0)
         => flash' = flash /\ pc' \notin (Downloading \ {"eeprom", "suffix"}) \cup {"erase", "eraseWrite"}
  BY DEF UploadWord, UploadEepromByte, AbandonUpload, Return, EndAlign, Downloading
<1> QED
  BY <1>1, <1>2, <1>3, <1>4, <1>5, <1>6, <1>7, <1>8, <1>9, <1>10, <1>11, <1>12, <1>13, <1>14, <1>15, Steps

\* The steps of a download, an erase and an upload keep every range.
LEMMA RangesWork ==
  IInv /\ flash' \in [FlashAddresses -> Contents] /\
    (\/ EraseNextPage \/ WriteErasedPage \/ EndFiller \/ EndAlign \/ ProgramWord \/ CommitPage
     \/ EraseNextProgramPage \/ EndProgram \/ WriteEepromByte \/ EndEeprom \/ UploadWord
     \/ UploadEepromByte \/ EndUpload) => Ranges'
<1> SUFFICES ASSUME IInv, flash' \in [FlashAddresses -> Contents],
                    \/ EraseNextPage \/ WriteErasedPage \/ EndFiller \/ EndAlign \/ ProgramWord
                    \/ CommitPage \/ EraseNextProgramPage \/ EndProgram \/ WriteEepromByte \/ EndEeprom
                    \/ UploadWord \/ UploadEepromByte \/ EndUpload
             PROVE  Ranges'
  OBVIOUS
<1>a. UsbTyping /\ BlockTyping /\ StateTyping /\ MemoryTyping /\ InOrder /\ InWords
  BY DEF IInv, Typing, Ranges
<1>1. CASE EraseNextPage \/ EraseNextProgramPage
  BY <1>a, <1>1, PlaceNames
     DEF EraseNextPage, EraseNextProgramPage, Ranges, UsbTyping, BlockTyping, StateTyping, MemoryTyping
<1>2. CASE WriteErasedPage
  <2>1. CurrFlashAddress' \in Nat
    BY <1>a, <1>2, PageSize DEF WriteErasedPage, BlockTyping
  <2> QED
    BY <1>a, <1>2, <2>1, PlaceNames, EmptyBufferType
       DEF WriteErasedPage, Ranges, UsbTyping, BlockTyping, StateTyping, MemoryTyping
<1>3. CASE EndFiller
  <2>1. NumberOfBytes' \in Nat
    BY <1>a, <1>3, AlignmentType DEF EndFiller, BlockTyping
  <2> QED
    BY <1>a, <1>3, <2>1, PlaceNames DEF EndFiller, Ranges, UsbTyping, BlockTyping, StateTyping, MemoryTyping
<1>4. CASE EndAlign
  <2>1. StartAddr <= EndAddr
    BY <1>a, <1>4 DEF EndAlign, InOrder
  <2>2. BytesRemaining \in Nat /\ BytesRemaining \div 2 \in Nat
    BY <1>a, <2>1 DEF BytesRemaining, BlockTyping
  <2>3. /\ remaining' \in Nat /\ CurrFlashAddress' \in Nat /\ CurrFlashPageStartAddress' \in Nat
        /\ WordsInFlashPage' \in PageWords /\ NumberOfBytes' \in Nat /\ pc' \in Places
    BY <1>a, <1>4, <2>2, PlaceNames, PageRange DEF EndAlign, BlockTyping
  <2> QED
    BY <1>a, <1>4, <2>3 DEF EndAlign, Ranges, UsbTyping, BlockTyping, StateTyping, MemoryTyping
<1>5. CASE ProgramWord
  <2>1. pageBuffer' \in Buffers
    <3>1. Named(at) \in Nat /\ Named(at + 1) \in Nat
      BY <1>a, NamedType DEF BlockTyping, UsbTyping
    <3> QED
      BY <1>a, <1>5, <3>1, FillWordType DEF ProgramWord, MemoryTyping
  <2>2. outBytes' \in PacketSizes /\ at' \in Int
    BY <1>a, <1>5, PacketRange DEF ProgramWord, UsbTyping
  <2>3. remaining' \in Nat /\ CurrFlashAddress' \in Nat
    BY <1>a, <1>5 DEF ProgramWord, BlockTyping
  <2>4. WordsInFlashPage' \in PageWords
    BY <1>a, <1>5, PageRange DEF ProgramWord, BlockTyping, InWords
  <2>5. pc' \in Places
    BY <1>5, PlaceNames DEF ProgramWord
  <2> QED
    BY <1>a, <1>5, <2>1, <2>2, <2>3, <2>4, <2>5
       DEF ProgramWord, Ranges, UsbTyping, BlockTyping, StateTyping, MemoryTyping
<1>6. CASE CommitPage
  <2>1. CurrFlashPageStartAddress' \in Nat /\ WordsInFlashPage' \in PageWords /\ pc' \in Places
    BY <1>a, <1>6, PlaceNames, PageRange DEF CommitPage, BlockTyping
  <2> QED
    BY <1>a, <1>6, <2>1, EmptyBufferType
       DEF CommitPage, Ranges, UsbTyping, BlockTyping, StateTyping, MemoryTyping
<1>7. CASE EndProgram \/ EndEeprom
  BY <1>a, <1>7, PlaceNames, PacketRange, EmptyBufferType
     DEF EndProgram, EndEeprom, Ranges, UsbTyping, BlockTyping, StateTyping, MemoryTyping
<1>8. CASE WriteEepromByte
  <2>1. Named(at) \in Nat
    BY <1>a, NamedType DEF BlockTyping, UsbTyping
  <2>2. eeprom' \in Eeproms
    BY <1>a, <1>8, <2>1, EepromStored DEF WriteEepromByte, MemoryTyping
  <2>3. outBytes' \in PacketSizes /\ at' \in Int
    BY <1>a, <1>8, PacketRange DEF WriteEepromByte, UsbTyping
  <2>4. StartAddr' \in Nat /\ remaining' \in Nat
    BY <1>a, <1>8 DEF WriteEepromByte, BlockTyping
  <2> QED
    BY <1>a, <1>8, <2>2, <2>3, <2>4
       DEF WriteEepromByte, Ranges, UsbTyping, BlockTyping, StateTyping, MemoryTyping
<1>9. CASE UploadWord
  <2>1. inBytes' \in PacketSizes
    <3>1. /\ inBytes \in Nat /\ inBytes < FIXED_CONTROL_ENDPOINT_SIZE /\ inBytes % 2 = 0
          /\ inBytes' = inBytes + 2
      BY <1>a, <1>9, PacketRange DEF UploadWord, UsbTyping, InWords
    <3>2. inBytes' \in Nat /\ inBytes' <= FIXED_CONTROL_ENDPOINT_SIZE
      BY <3>1, PacketRange
    <3> QED
      BY <3>2, PacketRange
  <2>2. CurrFlashAddress' \in Nat /\ remaining' \in Nat
    BY <1>a, <1>9 DEF UploadWord, BlockTyping
  <2> QED
    BY <1>a, <1>9, <2>1, <2>2 DEF UploadWord, Ranges, UsbTyping, BlockTyping, StateTyping, MemoryTyping
<1>10. CASE UploadEepromByte
  <2>1. inBytes' \in PacketSizes
    BY <1>a, <1>10, PacketRange DEF UploadEepromByte, UsbTyping
  <2>2. StartAddr' \in Nat /\ remaining' \in Nat
    BY <1>a, <1>10 DEF UploadEepromByte, BlockTyping
  <2> QED
    BY <1>a, <1>10, <2>1, <2>2 DEF UploadEepromByte, Ranges, UsbTyping, BlockTyping, StateTyping, MemoryTyping
<1>11. CASE EndUpload
  BY <1>a, <1>11, PlaceNames, StateNames
     DEF EndUpload, Ranges, UsbTyping, BlockTyping, StateTyping, MemoryTyping
<1> QED
  BY <1>1, <1>2, <1>3, <1>4, <1>5, <1>6, <1>7, <1>8, <1>9, <1>10, <1>11

LEMMA TypedStep == IInv /\ FlashInv' /\ [Next]_vars => Typing'
<1> SUFFICES ASSUME IInv, FlashInv', [Next]_vars PROVE Typing'
  OBVIOUS
<1>1. Flags' /\ Ranges /\ InOrder
  BY FlagsStep DEF IInv, Typing
<1>2. flash' \in [FlashAddresses -> Contents]
  BY DEF FlashInv, Sound
<1>3. CASE UNCHANGED vars
  BY <1>1, <1>3 DEF Typing, Ranges, UsbTyping, BlockTyping, StateTyping, MemoryTyping, vars
<1>4. CASE Task
  BY <1>1, <1>2, <1>4, RangesBus, RangesReset, RangesRequests, RangesReturn, RangesWork DEF Task, Typing
<1>5. CASE Host
  BY <1>1, <1>2, <1>5, RangesBus, RangesRequests, RangesCommand, RangesReturn DEF Host, Typing
<1> QED
  BY <1>1, <1>3, <1>4, <1>5, RangesBus, RangesReset DEF Next, Typing

-----------------------------------------------------------------------------
LEMMA Starts == Init => IInv
<1> SUFFICES ASSUME Init PROVE IInv
  OBVIOUS
<1>1. Old \in Nat /\ Old # Garbled
  BY BootStart DEF Old, Garbled
<1>2. flash \in Sound
  BY <1>1 DEF Init, Sound, Contents
<1>3. Flags
  <2>1. SECURE_MODE \in BOOLEAN
    BY EndpointAssumption
  <2> QED
    BY <2>1 DEF Init, Flags
<1>4. InOrder /\ InWords
  BY DEF Init, InOrder, InWords, Downloading
<1>5. Secured /\ Keyed
  BY DEF Init, Secured, Keyed, Downloading, Sending
<1>6. ToProgram /\ ToCommit /\ Within /\ ToErase /\ PageByPage /\ ToWriteErased
  BY DEF Init, ToProgram, ToCommit, Within, ToErase, PageByPage, ToWriteErased
<1> QED
  BY <1>2, <1>3, <1>4, <1>5, <1>6, RangesStart DEF IInv, Typing, FlashInv

\* The page to be written is blank and below BOOT_START_ADDR with all that remains, ranges
\* are in order while they may be read, and a secure session has nothing under way.
THEOREM Invariance == Spec => []IInv
<1>1. IInv /\ [Next]_vars => IInv'
  BY FlashStep, OrderStep, WordsStep, SecuredStep, KeyedStep, TypedStep DEF IInv
<1> QED
  BY Starts, <1>1, PTL DEF Spec

\* Every variable of the bootloader stays in its range: packets never overflow the control
\* endpoint, pages never the page buffer, and no count of bytes or words goes below 0.
THEOREM TypeCorrect == Spec => []TypeOK
<1>1. IInv => TypeOK
  BY TypingIsTypeOK DEF IInv
<1> QED
  BY <1>1, Invariance, PTL

\* What an UPLOAD is about to read begins before it ends, wherever the reads and writes
\* before it were broken off.
THEOREM RangeInOrder == Spec => []UploadRangeInOrder
<1>1. IInv => UploadRangeInOrder
  BY DEF IInv, InOrder, UploadRangeInOrder
<1> QED
  BY <1>1, Invariance, PTL

\* The watchdog never runs for a start without the key that start up looks for.
THEOREM KeyIsLeft == Spec => []KeyForWatchdog
<1>1. IInv => KeyForWatchdog
  BY DEF IInv, Keyed, KeyForWatchdog
<1> QED
  BY <1>1, Invariance, PTL

-----------------------------------------------------------------------------
\* In a secure session only the erase touches a memory, page by page, and only its end
\* opens the session.
LEMMA SecureStep ==
  ASSUME IInv, IsSecure, [Next]_vars
  PROVE  \/ UNCHANGED <<flash, eeprom>> /\ (IsSecure' \/ Resets)
         \/ EraseNextPage
         \/ EndErase
<1>a. Secured /\ flash \in Sound
  BY DEF IInv, FlashInv
<1>1. CASE Quiet \/ Elsewhere
  BY <1>1 DEF Quiet, Elsewhere
<1>2. CASE Resets
  BY <1>2 DEF Resets, Reset
<1>3. CASE Opens \/ BeginErase
  BY <1>3 DEF Opens, ProcessMemReadCommand, StartByWatchdog, StartByJump, BeginErase
<1>4. CASE WriteErasedPage
  BY <1>a, <1>4, WritesItsPage DEF WriteErasedPage, Secured
<1>5. CASE BeginUpload
  BY <1>5 DEF BeginUpload
<1>6. ~ \E command \in ProgCommands : \E b : BeginProgram(command, b)
  BY DEF BeginProgram, Allowed, ReadCommands, ProgCommands
<1>7. ~(EndFiller \/ EndAlign \/ ProgramWord \/ CommitPage \/ EraseNextProgramPage)
  BY <1>a DEF Secured, EndFiller, EndAlign, ProgramWord, CommitPage, EraseNextProgramPage, Downloading
<1>8. ~(EndProgram \/ WriteEepromByte \/ EndEeprom \/ UploadWord \/ UploadEepromByte \/ AbandonUpload)
  BY <1>a DEF Secured, EndProgram, WriteEepromByte, EndEeprom, UploadWord, UploadEepromByte, AbandonUpload,
              Downloading, Sending
<1> QED
  BY <1>1, <1>2, <1>3, <1>4, <1>5, <1>6, <1>7, <1>8, Steps
     DEF BeginProgramFlash, BeginProgramEeprom, ProgCommands

\* "disallowing memory operations other than erase": until an erase of the whole section has
\* completed, nothing else changes the memories, nothing of them is sent, nothing starts.
THEOREM SecureUntilTheErase == Spec => SecureUntilErased
<1>1. ASSUME IInv, IInv', [Next]_vars, IsSecure
      PROVE  /\ eeprom' = eeprom
             /\ \A a \in FlashAddresses : flash'[a] \in {flash[a], Erased}
             /\ pc' \notin Sending /\ ~WaitForExit'
             /\ ~IsSecure' => \A a \in 0..(BOOT_START_ADDR - 1) : flash'[a] = Erased
  <2>a. Secured /\ Secured' /\ flash \in Sound /\ CurrFlashAddress \in Nat
    BY <1>1 DEF IInv, FlashInv, Typing, Ranges, BlockTyping
  <2>1. CASE UNCHANGED <<flash, eeprom>> /\ IsSecure'
    BY <2>a, <2>1 DEF Secured
  <2>2. CASE UNCHANGED <<flash, eeprom>> /\ Resets
    <3>1. pc' = "start" /\ ~WaitForExit' /\ IsSecure' = SECURE_MODE
      BY <2>2 DEF Resets, Reset
    <3>2. SECURE_MODE
      BY <1>1 DEF IInv, Secured
    <3> QED
      BY <2>2, <3>1, <3>2 DEF Sending
  <2>3. CASE EraseNextPage
    <3>1. flash' = ErasePage(flash, PageOf(CurrFlashAddress)) /\ eeprom' = eeprom /\ IsSecure'
      BY <1>1, <2>3 DEF EraseNextPage
    <3>2. \A a \in FlashAddresses : flash'[a] \in {flash[a], Erased}
      BY <3>1 DEF ErasePage
    <3> QED
      BY <2>a, <3>1, <3>2 DEF Secured
  <2>4. CASE EndErase
    <3>1. /\ UNCHANGED <<flash, eeprom, WaitForExit>> /\ pc = "erase" /\ pc' = "task"
          /\ CurrFlashAddress >= BOOT_START_ADDR
      BY <2>4 DEF EndErase, Return
    <3>2. ASSUME NEW a \in 0..(BOOT_START_ADDR - 1) PROVE flash'[a] = Erased
      <4>1. a \in FlashAddresses /\ a < CurrFlashAddress
        BY <2>a, <3>1, BootInFlash, BootStart
      <4> QED
        BY <1>1, <2>a, <3>1, <4>1 DEF Secured
    <3> QED
      BY <1>1, <2>a, <3>1, <3>2 DEF Secured, Sending
  <2> QED
    BY <1>1, <2>1, <2>2, <2>3, <2>4, SecureStep
<1>2. IInv /\ IInv' /\ [Next]_vars =>
        [ IsSecure =>
            /\ eeprom' = eeprom
            /\ \A a \in FlashAddresses : flash'[a] \in {flash[a], Erased}
            /\ pc' \notin Sending /\ ~WaitForExit'
            /\ ~IsSecure' => \A a \in 0..(BOOT_START_ADDR - 1) : flash'[a] = Erased ]_vars
  BY <1>1
<1> QED
  BY <1>2, Invariance, PTL DEF Spec, SecureUntilErased

-----------------------------------------------------------------------------
(* What a step does to the flash: nothing, an erase of a page of the application *)
(* section, or a write of one that is blank.                                     *)
LEMMA FlashChanges ==
  ASSUME IInv, [Next]_vars
  PROVE  \/ UNCHANGED flash
         \/ \E a \in Nat : /\ a < BOOT_START_ADDR
                           /\ \/ flash' = ErasePage(flash, PageOf(a))
                              \/ /\ flash' = WritePage(flash, pageBuffer, PageOf(a))
                                 /\ Blank(flash, PageOf(a))
<1>a. ToCommit /\ Within /\ ToErase /\ ToWriteErased /\ BlockTyping
  BY DEF IInv, FlashInv, Typing, Ranges
<1>1. CASE EraseNextPage
  BY <1>a, <1>1 DEF EraseNextPage, BlockTyping
<1>2. CASE WriteErasedPage
  BY <1>a, <1>2 DEF WriteErasedPage, ToWriteErased, BlockTyping
<1>3. CASE \E b \in FlashBlocks : BeginProgramFlash(b)
  <2>1. PICK b \in FlashBlocks : BeginProgramFlash(b)
    BY <1>3
  <2>2. flash' = ErasePage(flash, PageOf(b[1]))
    BY <2>1 DEF BeginProgramFlash
  <2>3. b[1] \in Nat /\ b[1] < BOOT_START_ADDR
    BY FlashBlockType, BootStart
  <2> QED
    BY <2>2, <2>3
<1>4. CASE CommitPage
  BY <1>a, <1>4 DEF CommitPage, ToCommit, BlockTyping
<1>5. CASE EraseNextProgramPage
  <2>1. CurrFlashAddress \in Nat /\ CurrFlashAddress < BOOT_START_ADDR
    BY <1>a, <1>5, BootStart DEF EraseNextProgramPage, Within, ToErase, BlockTyping
  <2> QED
    BY <1>5, <2>1 DEF EraseNextProgramPage
<1>6. CASE Quiet \/ Elsewhere \/ Resets \/ Opens \/ BeginUpload
  BY <1>6 DEF Quiet, Elsewhere, Resets, Reset, Opens, ProcessMemReadCommand, StartByWatchdog, StartByJump,
              BeginUpload
<1>7. CASE BeginErase \/ EndErase \/ (\E b \in EepromBlocks : BeginProgramEeprom(b)) \/ EndFiller \/ EndAlign
  BY <1>7 DEF BeginErase, EndErase, BeginProgramEeprom, EndFiller, EndAlign
<1>8. CASE ProgramWord \/ EndProgram \/ WriteEepromByte \/ EndEeprom
  BY <1>8 DEF ProgramWord, EndProgram, WriteEepromByte, EndEeprom
<1>9. CASE UploadWord \/ UploadEepromByte \/ AbandonUpload
  BY <1>9 DEF UploadWord, UploadEepromByte, AbandonUpload
<1> QED
  BY <1>1, <1>2, <1>3, <1>4, <1>5, <1>6, <1>7, <1>8, <1>9, Steps

\* With its state forgotten but for the flash, the DFU bootloader is the abstract memory:
\* no byte is ever programmed over, and the bootloader's pages never change.
THEOREM Refinement == Spec => ImplementsFlash
<1>1. Init => Memory!Init
  <2>1. Old \in Nat /\ Old # Garbled
    BY BootStart DEF Old, Garbled
  <2> QED
    BY <2>1 DEF Init, Memory!Init, Memory!FlashAddresses, Memory!Contents, Memory!Erased, Memory!Garbled,
                FlashAddresses, Garbled
<1>2. ASSUME IInv, [Next]_vars PROVE [Memory!Next]_flash
  <2>a. flash \in Sound /\ pageBuffer \in Buffers
    BY <1>2 DEF IInv, FlashInv, Typing, Ranges, MemoryTyping
  <2>b. \A f, page : Memory!ErasePage(f, page) = ErasePage(f, page)
    BY DEF Memory!ErasePage, Memory!FlashAddresses, Memory!PageOf, Memory!Erased, ErasePage,
           FlashAddresses, PageOf, Erased
  <2>1. ASSUME NEW a \in Nat, a < BOOT_START_ADDR, flash' = ErasePage(flash, PageOf(a))
        PROVE  Memory!Next
    <3>1. PageOf(a) \in 0..(AppPages - 1)
      BY <2>1, AppPage
    <3>2. Memory!Erase(PageOf(a))
      BY <2>1, <2>b DEF Memory!Erase
    <3> QED
      BY <3>1, <3>2 DEF Memory!Next
  <2>2. ASSUME NEW a \in Nat, a < BOOT_START_ADDR, Blank(flash, PageOf(a)),
               flash' = WritePage(flash, pageBuffer, PageOf(a))
        PROVE  Memory!Next
    <3>1. PageOf(a) \in 0..(AppPages - 1)
      BY <2>2, AppPage
    <3>2. /\ flash' \in Sound
          /\ \A c \in FlashAddresses : flash'[c] # flash[c] => PageOf(c) = PageOf(a) /\ flash[c] = Erased
      BY <2>a, <2>2, WritesBlank
    <3>3. Memory!Program(PageOf(a))
      BY <3>2 DEF Memory!Program, Memory!FlashAddresses, Memory!Contents, Memory!Garbled, Memory!Erased,
                  Memory!PageOf, FlashAddresses, Sound, Contents, Garbled, Erased, PageOf
    <3> QED
      BY <3>1, <3>3 DEF Memory!Next
  <2> QED
    BY <1>2, <2>1, <2>2, FlashChanges
<1> QED
  BY <1>1, <1>2, Invariance, PTL DEF Spec, ImplementsFlash, Memory!Spec

-----------------------------------------------------------------------------
(* What a download has stored so far.  The blocks are those the discarding loops and the *)
(* count of words get right: they begin with a packet, and run on to another page only   *)
(* from the beginning of one.                                                            *)

AlignedBlocks ==
  /\ \A b \in FlashBlocks \cup EepromBlocks : Alignment(b[1]) = 0
  /\ \A b \in FlashBlocks : \/ OffsetOf(b[1]) = 0
                            \/ OffsetOf(b[1]) + ((b[2] - b[1]) + 1) <= SPM_PAGESIZE

Discards    == {"filler", "align"}
Programming == {"program", "commit", "eraseNext"}

\* The next byte of the stream is meant for the place it goes to, or none is to come.
Banked == ~outReceived => outBytes = 0
Ended  == outBytes = 0 /\ toCome = 0
Fed ==
  pc \in Discards =>
    /\ first = StartAddr /\ Alignment(StartAddr) = 0
    /\ \/ Ended
       \/ /\ outReceived /\ NumberOfBytes = outBytes /\ at + outBytes = StartAddr
          /\ toCome = ((EndAddr - StartAddr) + 1) + DFU_FILE_SUFFIX_SIZE
FedWords ==
  pc \in Programming =>
    \/ Ended
    \/ /\ at = CurrFlashAddress
       /\ toCome + outBytes = ((EndAddr - CurrFlashAddress) + 1) + DFU_FILE_SUFFIX_SIZE
       /\ toCome > 0 => outBytes % 2 = 0
FedBytes == pc = "eeprom" => Ended \/ at = StartAddr

\* How far a flash block has got: Past is the address after its last whole word.
Past == first + 2 * (((EndAddr - first) + 1) \div 2)
Fitting ==
  pc \in Discards /\ Data0(SentCommand) = 0 =>
    \/ OffsetOf(StartAddr) = 0
    \/ OffsetOf(StartAddr) + ((EndAddr - StartAddr) + 1) <= SPM_PAGESIZE
Counted ==
  pc \in Programming =>
    /\ first <= CurrFlashPageStartAddress /\ first <= EndAddr
    /\ CurrFlashAddress = CurrFlashPageStartAddress + 2 * WordsInFlashPage
    /\ CurrFlashAddress + 2 * remaining = Past
    /\ \/ OffsetOf(CurrFlashPageStartAddress) = 0
       \/ /\ CurrFlashPageStartAddress = first
          /\ OffsetOf(first) + 2 * (WordsInFlashPage + remaining) <= SPM_PAGESIZE
FullOrLast ==
  pc = "commit" =>
    WordsInFlashPage > 0 /\ (remaining > 0 => WordsInFlashPage = SPM_PAGESIZE \div 2)

\* What is in the flash and in the page buffer, when the buffer was empty before.
BufferClean == pc \in Discards /\ clean => pageBuffer = EmptyBuffer
PagesStored ==
  pc \in Programming /\ clean =>
    \A a \in FlashAddresses : first <= a /\ a < CurrFlashPageStartAddress => flash[a] = a + 1
PageLoaded ==
  pc \in Programming /\ clean /\ ~(pc = "program" /\ remaining = 0) =>
    \A o \in Offsets :
      pageBuffer[o] = IF /\ OffsetOf(CurrFlashPageStartAddress) <= o
                         /\ o < OffsetOf(CurrFlashPageStartAddress) + 2 * WordsInFlashPage
                      THEN ((o - OffsetOf(CurrFlashPageStartAddress)) + CurrFlashPageStartAddress) + 1
                      ELSE Erased
BlockStored ==
  pc = "program" /\ remaining = 0 /\ clean =>
    \A a \in FlashAddresses :
      a >= first /\ PageOf(a) <= PageOf(Past - 1) => flash[a] = IF a < Past THEN a + 1 ELSE Erased

BytesFit == pc \in Discards /\ Data0(SentCommand) # 0 => EndAddr < EepromSize
BytesStored ==
  pc = "eeprom" =>
    /\ first <= StartAddr /\ StartAddr + remaining = EndAddr + 1 /\ EndAddr < EepromSize
    /\ \A a \in Nat : first <= a /\ a < StartAddr => eeprom[a] = a + 1

Stream == Banked /\ Fed /\ FedWords /\ FedBytes
Count  == Fitting /\ Counted /\ FullOrLast
Store  == BufferClean /\ PagesStored /\ PageLoaded /\ BlockStored /\ BytesFit /\ BytesStored
Storing == Stream /\ Count /\ Store

-----------------------------------------------------------------------------
\* Packets that come and go, and what is not a download.
Packets == Bus \/ HostSends \/ HostFetches \/ ClearEmptyBank \/ DiscardByte \/ ClearFullBank
             \/ UNCHANGED vars
Apart ==
  /\ pc' \notin Discards \cup Programming \cup {"eeprom"}
  /\ UNCHANGED <<outReceived, outBytes>> \/ outBytes' = 0

LEMMA GoApart ==
  Request \/ Resets \/ Opens
    \/ (\E command \in Commands : RejectCommand(command)) \/ (\E command \in ReadCommands : ProcessReadCommand(command))
    \/ BlankCheck \/ BeginErase \/ EraseNextPage \/ WriteErasedPage \/ EndErase
    \/ StartApplication \/ SetupHardware \/ LeaveLoop \/ ResetHardware \/ NoCommand
    \/ HostAcknowledges \/ AbandonProgram \/ EndDnload \/ EndUpload \/ NoStatusStage
    \/ EndProgram \/ EndEeprom \/ UploadWord \/ UploadEepromByte \/ AbandonUpload
 => Apart
<1>1. Request => Apart
  BY DEF Request, DnloadNothing, DnloadData, UploadResponse, BeginUpload, GetStatusOrState, ClearStatus,
         Abort, Serving, Apart, Discards, Programming
<1>2. Resets \/ Opens => Apart
  BY DEF Resets, Reset, Opens, ProcessMemReadCommand, StartByWatchdog, StartByJump, Apart, Discards,
         Programming
<1>3. (\E command \in Commands : RejectCommand(command)) \/ (\E command \in ReadCommands : ProcessReadCommand(command)) => Apart
  BY DEF RejectCommand, ProcessReadCommand, Apart, Discards, Programming
<1>4. BlankCheck \/ BeginErase \/ EraseNextPage \/ WriteErasedPage => Apart
  BY DEF BlankCheck, BeginErase, EraseNextPage, WriteErasedPage, Apart, Discards, Programming
<1>5. EndErase \/ StartApplication \/ SetupHardware \/ LeaveLoop \/ ResetHardware \/ NoCommand => Apart
  BY DEF EndErase, StartApplication, SetupHardware, LeaveLoop, ResetHardware, NoCommand, Return, Apart,
         Discards, Programming
<1>6. HostAcknowledges \/ AbandonProgram \/ EndDnload \/ EndUpload \/ NoStatusStage => Apart
  BY DEF HostAcknowledges, AbandonProgram, EndDnload, EndUpload, NoStatusStage, Return, Apart, Discards,
         Programming
<1>7. EndProgram \/ EndEeprom \/ UploadWord \/ UploadEepromByte \/ AbandonUpload => Apart
  BY DEF EndProgram, EndEeprom, UploadWord, UploadEepromByte, AbandonUpload, Return, Apart, Discards,
         Programming
<1> QED
  BY <1>1, <1>2, <1>3, <1>4, <1>5, <1>6, <1>7

LEMMA DownloadSteps ==
  [Next]_vars =>
    \/ Packets \/ Apart
    \/ (\E b \in FlashBlocks : BeginProgramFlash(b)) \/ (\E b \in EepromBlocks : BeginProgramEeprom(b))
    \/ EndFiller \/ EndAlign \/ ProgramWord \/ CommitPage \/ EraseNextProgramPage \/ WriteEepromByte
<1>1. Command => \/ Apart
                 \/ (\E b \in FlashBlocks : BeginProgramFlash(b))
                 \/ (\E b \in EepromBlocks : BeginProgramEeprom(b))
  BY GoApart DEF Command, Opens
<1>2. Task => \/ Packets \/ Apart
              \/ EndFiller \/ EndAlign \/ ProgramWord \/ CommitPage \/ EraseNextProgramPage \/ WriteEepromByte
  BY GoApart DEF Task, Packets
<1>3. WatchdogBites \/ OtherReset => Apart
  BY GoApart DEF WatchdogBites, OtherReset, Resets
<1>4. Host => Command \/ Packets \/ Apart
  BY GoApart DEF Host, Packets
<1> QED
  BY <1>1, <1>2, <1>3, <1>4 DEF Next, Packets

\* The host's blocks, and the length of the transfer that carries one.
LEMMA Begun ==
  ASSUME AlignedBlocks, NEW command \in ProgCommands, NEW b \in FlashBlocks \cup EepromBlocks,
         BeginProgram(command, b)
  PROVE  /\ pc' = "filler" /\ StartAddr' = b[1] /\ EndAddr' = b[2] /\ first' = b[1]
         /\ SentCommand' = command /\ clean' = (pageBuffer = EmptyBuffer)
         /\ pageBuffer' = pageBuffer
         /\ outReceived' /\ NumberOfBytes' = outBytes' /\ at' + outBytes' = StartAddr'
         /\ Alignment(StartAddr') = 0
         /\ toCome' = ((EndAddr' - StartAddr') + 1) + DFU_FILE_SUFFIX_SIZE
<1>1. b[1] \in Nat /\ b[2] \in Nat /\ Alignment(b[1]) = 0
  BY FlashBlockType, EepromBlockType DEF AlignedBlocks
<1>2. /\ pc' = "filler" /\ outReceived' = TRUE /\ outBytes' = DFU_FILLER_BYTES_SIZE
      /\ toCome' = Length(b) - FIXED_CONTROL_ENDPOINT_SIZE
      /\ at' = b[1] - Alignment(b[1]) - DFU_FILLER_BYTES_SIZE
      /\ NumberOfBytes' = DFU_FILLER_BYTES_SIZE /\ StartAddr' = b[1] /\ EndAddr' = b[2]
      /\ first' = b[1] /\ SentCommand' = command /\ clean' = (pageBuffer = EmptyBuffer)
      /\ pageBuffer' = pageBuffer
  BY DEF BeginProgram, Receive, LoadStartEndAddresses
<1>3. DFU_FILLER_BYTES_SIZE \in Nat /\ FIXED_CONTROL_ENDPOINT_SIZE \in Nat /\ DFU_FILE_SUFFIX_SIZE \in Nat
  BY PacketRange
<1>4. at' + outBytes' = b[1]
  BY <1>1, <1>2, <1>3
<1>5. toCome' = ((b[2] - b[1]) + 1) + DFU_FILE_SUFFIX_SIZE
  BY <1>1, <1>2, <1>3 DEF Length
<1> QED
  BY <1>1, <1>2, <1>4, <1>5

\* The whole words of a block end within it.
LEMMA PastRange ==
  ASSUME first \in Nat, EndAddr \in Nat, first <= EndAddr
  PROVE  Past \in Nat /\ first <= Past /\ Past <= EndAddr + 1
  BY DEF Past

\* The bank is empty when nothing has been received.
LEMMA BankStep == IInv /\ Banked /\ [Next]_vars => Banked'
<1> SUFFICES ASSUME IInv, Banked, [Next]_vars PROVE Banked'
  OBVIOUS
<1>a. UsbTyping
  BY DEF IInv, Typing, Ranges
<1>1. CASE Packets
  BY <1>a, <1>1, PacketRange
     DEF Packets, Bus, Unplug, Resume, BusReset, HostSends, HostFetches, ClearEmptyBank, DiscardByte,
         ClearFullBank, vars, Banked, UsbTyping
<1>2. CASE Apart
  <2>1. UNCHANGED <<outReceived, outBytes>> \/ outBytes' = 0
    BY <1>2 DEF Apart
  <2> QED
    BY <2>1 DEF Banked
<1>3. CASE \E command, b : BeginProgram(command, b)
  BY <1>3 DEF BeginProgram, Banked
<1>4. CASE EndFiller \/ EndAlign \/ CommitPage \/ EraseNextProgramPage
  BY <1>4 DEF EndFiller, EndAlign, CommitPage, EraseNextProgramPage, Banked
<1>5. CASE ProgramWord \/ WriteEepromByte
  <2>1. outBytes > 0 /\ outReceived' = outReceived
    BY <1>5 DEF ProgramWord, WriteEepromByte
  <2>2. outReceived
    BY <1>a, <2>1 DEF Banked, UsbTyping
  <2> QED
    BY <2>1, <2>2 DEF Banked
<1> QED
  BY <1>1, <1>2, <1>3, <1>4, <1>5, DownloadSteps DEF BeginProgramFlash, BeginProgramEeprom

\* Only a packet that holds no byte of the block can be cut off from it.
LEMMA FedStep == IInv /\ AlignedBlocks /\ Storing /\ [Next]_vars => Fed'
<1> SUFFICES ASSUME IInv, AlignedBlocks, Storing, [Next]_vars, pc' \in Discards PROVE Fed'
  BY DEF Fed
<1>a. UsbTyping /\ BlockTyping /\ Flags /\ Banked /\ Fed
  BY DEF IInv, Typing, Ranges, Storing, Stream
<1>b. \A n \in PacketSizes : n \in Nat
  BY PacketRange
<1>1. CASE Packets
  <2>0. pc \in Discards /\ UNCHANGED <<pc, StartAddr, EndAddr, first>>
    BY <1>1 DEF Packets, Bus, Unplug, Resume, BusReset, HostSends, HostFetches, ClearEmptyBank, DiscardByte,
                ClearFullBank, vars
  <2>a. /\ first = StartAddr /\ Alignment(StartAddr) = 0
        /\ \/ Ended
           \/ /\ outReceived /\ NumberOfBytes = outBytes /\ at + outBytes = StartAddr
              /\ toCome = ((EndAddr - StartAddr) + 1) + DFU_FILE_SUFFIX_SIZE
    BY <1>a, <2>0 DEF Fed
  <2>1. CASE UNCHANGED <<outReceived, outBytes, toCome, at, NumberOfBytes>>
    BY <2>0, <2>a, <2>1 DEF Fed, Ended
  <2>2. Unplug \/ Resume \/ HostFetches \/ ClearFullBank \/ UNCHANGED vars
          => UNCHANGED <<outReceived, outBytes, toCome, at, NumberOfBytes>>
    BY DEF Unplug, Resume, HostFetches, ClearFullBank, vars
  <2>3. CASE BusReset
    BY <2>0, <2>a, <2>3 DEF BusReset, Fed, Ended
  <2>4. ~HostSends
    BY <1>a, <2>a DEF HostSends, Ended
  <2>5. CASE ClearEmptyBank
    <3>1. /\ NumberOfBytes > 0 /\ outBytes = 0 /\ UNCHANGED <<outBytes, toCome>>
      BY <2>0, <2>5 DEF ClearEmptyBank, Discarding, Discards
    <3>2. Ended
      BY <1>a, <2>a, <3>1 DEF BlockTyping
    <3> QED
      BY <2>0, <2>a, <3>1, <3>2 DEF Fed, Ended
  <2>6. CASE DiscardByte
    <3>1. /\ outBytes > 0 /\ NumberOfBytes' = NumberOfBytes - 1 /\ outBytes' = outBytes - 1 /\ at' = at + 1
          /\ UNCHANGED <<outReceived, toCome>>
      BY <2>6 DEF DiscardByte
    <3>2. /\ outReceived /\ NumberOfBytes = outBytes /\ at + outBytes = StartAddr
          /\ toCome = ((EndAddr - StartAddr) + 1) + DFU_FILE_SUFFIX_SIZE
      BY <1>a, <1>b, <2>a, <3>1 DEF Ended, UsbTyping
    <3>3. NumberOfBytes' = outBytes' /\ at' + outBytes' = at + outBytes
      BY <1>a, <1>b, <3>1, <3>2 DEF UsbTyping
    <3> QED
      BY <2>0, <2>a, <3>1, <3>2, <3>3 DEF Fed
  <2> QED
    BY <1>1, <2>1, <2>2, <2>3, <2>4, <2>5, <2>6 DEF Packets, Bus
<1>2. ASSUME NEW command \in ProgCommands, NEW b \in FlashBlocks \cup EepromBlocks, BeginProgram(command, b)
      PROVE  Fed'
  BY <1>2, Begun DEF Fed
<1>3. CASE EndFiller
  <2>1. /\ pc = "filler" /\ NumberOfBytes' = Alignment(StartAddr) /\ Discarded
        /\ UNCHANGED <<outReceived, outBytes, toCome, at, StartAddr, EndAddr, first>>
    BY <1>3 DEF EndFiller
  <2>2. /\ first = StartAddr /\ Alignment(StartAddr) = 0
        /\ \/ Ended
           \/ /\ outReceived /\ NumberOfBytes = outBytes /\ at + outBytes = StartAddr
              /\ toCome = ((EndAddr - StartAddr) + 1) + DFU_FILE_SUFFIX_SIZE
    BY <1>a, <2>1 DEF Fed, Discards
  <2>3. Ended \/ NumberOfBytes = 0
    BY <2>1, <2>2 DEF Discarded
  <2> QED
    BY <2>1, <2>2, <2>3 DEF Fed, Ended
<1>4. Apart \/ EndAlign \/ ProgramWord \/ CommitPage \/ EraseNextProgramPage \/ WriteEepromByte
        => pc' \notin Discards
  BY DEF Apart, EndAlign, ProgramWord, CommitPage, EraseNextProgramPage, WriteEepromByte, Discards
<1> QED
  BY <1>1, <1>2, <1>3, <1>4, DownloadSteps DEF BeginProgramFlash, BeginProgramEeprom, ProgCommands

LEMMA FedWordsStep == IInv /\ Storing /\ [Next]_vars => FedWords'
<1> SUFFICES ASSUME IInv, Storing, [Next]_vars, pc' \in Programming PROVE FedWords'
  BY DEF FedWords
<1>a. UsbTyping /\ BlockTyping /\ Flags /\ Banked /\ Fed /\ FedWords /\ Counted
  BY DEF IInv, Typing, Ranges, Storing, Stream, Count
<1>b. /\ \A n \in PacketSizes : n \in Nat
      /\ FIXED_CONTROL_ENDPOINT_SIZE \in Nat \ {0} /\ FIXED_CONTROL_ENDPOINT_SIZE % 2 = 0
      /\ DFU_FILE_SUFFIX_SIZE \in Nat
  BY PacketRange
<1>1. CASE Packets
  <2>0. pc \in Programming /\ UNCHANGED <<pc, CurrFlashAddress, EndAddr>>
    BY <1>1 DEF Packets, Bus, Unplug, Resume, BusReset, HostSends, HostFetches, ClearEmptyBank, DiscardByte,
                ClearFullBank, vars
  <2>a. \/ Ended
        \/ /\ at = CurrFlashAddress
           /\ toCome + outBytes = ((EndAddr - CurrFlashAddress) + 1) + DFU_FILE_SUFFIX_SIZE
           /\ toCome > 0 => outBytes % 2 = 0
    BY <1>a, <2>0 DEF FedWords
  <2>1. CASE UNCHANGED <<outBytes, toCome, at>>
    BY <2>0, <2>a, <2>1 DEF FedWords, Ended
  <2>2. Unplug \/ Resume \/ HostFetches \/ ClearEmptyBank \/ ClearFullBank \/ UNCHANGED vars
          => UNCHANGED <<outBytes, toCome, at>>
    BY DEF Unplug, Resume, HostFetches, ClearEmptyBank, ClearFullBank, vars
  <2>3. CASE BusReset
    BY <2>3 DEF BusReset, FedWords, Ended
  <2>4. CASE HostSends
    <3>1. /\ ~outReceived /\ toCome > 0 /\ outBytes' = Smaller(FIXED_CONTROL_ENDPOINT_SIZE, toCome)
          /\ toCome' = toCome - outBytes' /\ UNCHANGED at
      BY <2>4 DEF HostSends
    <3>2. outBytes = 0 /\ toCome \in Nat
      BY <1>a, <3>1 DEF Banked, UsbTyping
    <3>3. /\ at = CurrFlashAddress
          /\ toCome + outBytes = ((EndAddr - CurrFlashAddress) + 1) + DFU_FILE_SUFFIX_SIZE
      BY <2>a, <3>1, <3>2 DEF Ended
    <3>4. /\ outBytes' \in Nat /\ toCome' + outBytes' = toCome + outBytes
          /\ toCome' > 0 => outBytes' = FIXED_CONTROL_ENDPOINT_SIZE
      BY <1>b, <3>1, <3>2 DEF Smaller
    <3>5. toCome' > 0 => outBytes' % 2 = 0
      BY <1>b, <3>4
    <3> QED
      BY <2>0, <3>1, <3>3, <3>4, <3>5 DEF FedWords
  <2>5. ~DiscardByte
    BY <2>0 DEF DiscardByte, Discarding, Programming
  <2> QED
    BY <1>1, <2>1, <2>2, <2>3, <2>4, <2>5 DEF Packets, Bus
<1>2. CASE EndAlign
  <2>1. /\ pc = "align" /\ Discarded /\ CurrFlashAddress' = StartAddr
        /\ UNCHANGED <<outBytes, toCome, at, EndAddr>>
    BY <1>2 DEF EndAlign, Programming
  <2>2. \/ Ended
        \/ /\ outReceived /\ NumberOfBytes = outBytes /\ at + outBytes = StartAddr
           /\ toCome = ((EndAddr - StartAddr) + 1) + DFU_FILE_SUFFIX_SIZE
    BY <1>a, <2>1 DEF Fed, Discards
  <2>3. CASE Ended
    BY <2>1, <2>3 DEF FedWords, Ended
  <2>4. CASE /\ outReceived /\ NumberOfBytes = outBytes /\ at + outBytes = StartAddr
             /\ toCome = ((EndAddr - StartAddr) + 1) + DFU_FILE_SUFFIX_SIZE
    <3>1. outBytes = 0
      BY <2>1, <2>4 DEF Discarded
    <3>2. at' = CurrFlashAddress' /\ outBytes' % 2 = 0
          /\ toCome' + outBytes' = ((EndAddr' - CurrFlashAddress') + 1) + DFU_FILE_SUFFIX_SIZE
      BY <1>a, <1>b, <2>1, <2>4, <3>1 DEF UsbTyping, BlockTyping
    <3> QED
      BY <3>2 DEF FedWords
  <2> QED
    BY <2>2, <2>3, <2>4
<1>3. CASE ProgramWord
  <2>1. /\ pc = "program" /\ remaining > 0 /\ outBytes > 0
        /\ outBytes' = IF outBytes > 1 THEN outBytes - 2 ELSE 0
        /\ at' = at + outBytes - outBytes' /\ CurrFlashAddress' = CurrFlashAddress + 2
        /\ UNCHANGED <<toCome, EndAddr>>
    BY <1>3 DEF ProgramWord
  <2>2. /\ at = CurrFlashAddress
        /\ toCome + outBytes = ((EndAddr - CurrFlashAddress) + 1) + DFU_FILE_SUFFIX_SIZE
        /\ toCome > 0 => outBytes % 2 = 0
    BY <1>a, <2>1 DEF FedWords, Programming, Ended
  <2>3. CurrFlashAddress + 2 <= EndAddr + 1
    <3>1. CurrFlashAddress + 2 * remaining = Past /\ first <= EndAddr
      BY <1>a, <2>1 DEF Counted, Programming
    <3>2. Past \in Nat /\ Past <= EndAddr + 1
      BY <1>a, <3>1, PastRange DEF BlockTyping
    <3> QED
      BY <1>a, <2>1, <3>1, <3>2 DEF BlockTyping
  <2>4. outBytes \in Nat /\ toCome \in Nat /\ at \in Int /\ CurrFlashAddress \in Nat /\ EndAddr \in Nat
    BY <1>a, <1>b DEF UsbTyping, BlockTyping
  <2>5. outBytes > 1
    <3> SUFFICES ASSUME outBytes = 1 PROVE FALSE
      BY <2>1, <2>4
    <3>1. toCome = 0
      BY <2>2, <2>4
    <3> QED
      BY <1>b, <2>2, <2>3, <2>4, <3>1
  <2>6. outBytes' = outBytes - 2 /\ at' = at + 2
    BY <2>1, <2>4, <2>5
  <2>7. at' = CurrFlashAddress'
        /\ toCome' + outBytes' = ((EndAddr' - CurrFlashAddress') + 1) + DFU_FILE_SUFFIX_SIZE
    BY <1>b, <2>1, <2>2, <2>4, <2>6
  <2>8. toCome' > 0 => outBytes' % 2 = 0
    BY <2>1, <2>2, <2>4, <2>6
  <2> QED
    BY <2>7, <2>8 DEF FedWords
<1>4. CASE CommitPage \/ EraseNextProgramPage
  <2>1. /\ pc \in Programming /\ UNCHANGED <<outBytes, toCome, at, CurrFlashAddress, EndAddr>>
    BY <1>4 DEF CommitPage, EraseNextProgramPage, Programming
  <2> QED
    BY <1>a, <2>1 DEF FedWords, Ended
<1>5. Apart \/ EndFiller \/ WriteEepromByte \/ (\E command, b : BeginProgram(command, b)) => pc' \notin Programming
  BY DEF Apart, EndFiller, WriteEepromByte, BeginProgram, Programming
<1> QED
  BY <1>1, <1>2, <1>3, <1>4, <1>5, DownloadSteps DEF BeginProgramFlash, BeginProgramEeprom

LEMMA FedBytesStep == IInv /\ Storing /\ [Next]_vars => FedBytes'
<1> SUFFICES ASSUME IInv, Storing, [Next]_vars, pc' = "eeprom" PROVE FedBytes'
  BY DEF FedBytes
<1>a. UsbTyping /\ BlockTyping /\ Flags /\ Banked /\ Fed /\ FedBytes
  BY DEF IInv, Typing, Ranges, Storing, Stream
<1>b. \A n \in PacketSizes : n \in Nat
  BY PacketRange
<1>1. CASE Packets
  <2>1. pc = "eeprom" /\ UNCHANGED StartAddr
    BY <1>1 DEF Packets, Bus, Unplug, Resume, BusReset, HostSends, HostFetches, ClearEmptyBank, DiscardByte,
                ClearFullBank, vars
  <2>2. Ended \/ at = StartAddr
    BY <1>a, <2>1 DEF FedBytes
  <2>3. CASE BusReset
    BY <2>3 DEF BusReset, FedBytes, Ended
  <2>4. CASE HostSends
    BY <2>1, <2>2, <2>4 DEF HostSends, FedBytes, Ended
  <2>5. Unplug \/ Resume \/ HostFetches \/ ClearEmptyBank \/ ClearFullBank \/ UNCHANGED vars
          => UNCHANGED <<outBytes, toCome, at>>
    BY DEF Unplug, Resume, HostFetches, ClearEmptyBank, ClearFullBank, vars
  <2>6. CASE UNCHANGED <<outBytes, toCome, at>>
    BY <2>1, <2>2, <2>6 DEF FedBytes, Ended
  <2>7. ~DiscardByte
    BY <2>1 DEF DiscardByte, Discarding
  <2> QED
    BY <1>1, <2>3, <2>4, <2>5, <2>6, <2>7 DEF Packets, Bus
<1>2. CASE EndAlign
  <2>1. /\ pc = "align" /\ Discarded /\ UNCHANGED <<outBytes, toCome, at, StartAddr>>
    BY <1>2 DEF EndAlign
  <2>2. Ended \/ (outReceived /\ NumberOfBytes = outBytes /\ at + outBytes = StartAddr)
    BY <1>a, <2>1 DEF Fed, Discards
  <2>3. Ended \/ at = StartAddr
    BY <1>a, <1>b, <2>1, <2>2 DEF Discarded, UsbTyping
  <2> QED
    BY <2>1, <2>3 DEF FedBytes, Ended
<1>3. CASE WriteEepromByte
  <2>1. pc = "eeprom" /\ outBytes > 0 /\ at' = at + 1 /\ StartAddr' = StartAddr + 1
    BY <1>3 DEF WriteEepromByte
  <2>2. at = StartAddr
    BY <1>a, <2>1 DEF FedBytes, Ended
  <2> QED
    BY <2>1, <2>2 DEF FedBytes
<1>4. Apart \/ EndFiller \/ ProgramWord \/ CommitPage \/ EraseNextProgramPage
        \/ (\E command, b : BeginProgram(command, b)) => pc' # "eeprom"
  BY DEF Apart, EndFiller, ProgramWord, CommitPage, EraseNextProgramPage, BeginProgram
<1> QED
  BY <1>1, <1>2, <1>3, <1>4, DownloadSteps DEF BeginProgramFlash, BeginProgramEeprom

\* A packet changes nothing of what is being stored.
LEMMA PacketsKeep ==
  Packets => UNCHANGED <<pc, remaining, CurrFlashAddress, CurrFlashPageStartAddress, WordsInFlashPage,
                         StartAddr, EndAddr, SentCommand, first, clean, pageBuffer, flash, eeprom>>
<1> SUFFICES ASSUME Packets
             PROVE  UNCHANGED <<pc, remaining, CurrFlashAddress, CurrFlashPageStartAddress, WordsInFlashPage,
                                StartAddr, EndAddr, SentCommand, first, clean, pageBuffer, flash, eeprom>>
  OBVIOUS
<1>1. CASE Bus \/ UNCHANGED vars
  BY <1>1 DEF Bus, Unplug, Resume, BusReset, vars
<1>2. CASE HostSends \/ HostFetches
  BY <1>2 DEF HostSends, HostFetches
<1>3. CASE ClearEmptyBank \/ DiscardByte \/ ClearFullBank
  BY <1>3 DEF ClearEmptyBank, DiscardByte, ClearFullBank
<1> QED
  BY <1>1, <1>2, <1>3 DEF Packets

LEMMA FittingStep == AlignedBlocks /\ Fitting /\ [Next]_vars => Fitting'
<1> SUFFICES ASSUME AlignedBlocks, Fitting, [Next]_vars, pc' \in Discards PROVE Fitting'
  BY DEF Fitting
<1>1. CASE Packets
  BY <1>1, PacketsKeep DEF Fitting
<1>2. ASSUME NEW b \in FlashBlocks, BeginProgramFlash(b) PROVE Fitting'
  <2>1. StartAddr' = b[1] /\ EndAddr' = b[2]
    BY <1>2 DEF BeginProgramFlash, BeginProgram, LoadStartEndAddresses
  <2> QED
    BY <2>1 DEF AlignedBlocks, Fitting
<1>3. ASSUME NEW b \in EepromBlocks, BeginProgramEeprom(b) PROVE Fitting'
  <2>1. SentCommand' = "progEeprom"
    BY <1>3 DEF BeginProgramEeprom, BeginProgram, Receive
  <2> QED
    BY <2>1 DEF Fitting, Data0
<1>4. CASE EndFiller
  BY <1>4 DEF EndFiller, Fitting, Discards
<1>5. Apart \/ EndAlign \/ ProgramWord \/ CommitPage \/ EraseNextProgramPage \/ WriteEepromByte
        => pc' \notin Discards
  BY DEF Apart, EndAlign, ProgramWord, CommitPage, EraseNextProgramPage, WriteEepromByte, Discards
<1> QED
  BY <1>1, <1>2, <1>3, <1>4, <1>5, DownloadSteps

LEMMA FullOrLastStep == IInv /\ Storing /\ [Next]_vars => FullOrLast'
<1> SUFFICES ASSUME IInv, Storing, [Next]_vars, pc' = "commit" PROVE FullOrLast'
  BY DEF FullOrLast
<1>a. BlockTyping /\ FullOrLast
  BY DEF IInv, Typing, Ranges, Storing, Count
<1>1. CASE Packets
  BY <1>a, <1>1, PacketsKeep DEF FullOrLast
<1>2. CASE ProgramWord
  <2>1. /\ WordsInFlashPage' = WordsInFlashPage + 1 /\ remaining' = remaining - 1 /\ remaining > 0
        /\ WordsInFlashPage' = SPM_PAGESIZE \div 2 \/ remaining' = 0
    BY <1>2 DEF ProgramWord
  <2>2. WordsInFlashPage' > 0 /\ (remaining' > 0 => WordsInFlashPage' = SPM_PAGESIZE \div 2)
    BY <1>a, <2>1, PageRange DEF BlockTyping
  <2> QED
    BY <2>2 DEF FullOrLast
<1>3. Apart \/ EndFiller \/ EndAlign \/ CommitPage \/ EraseNextProgramPage \/ WriteEepromByte => pc' # "commit"
  BY DEF Apart, EndFiller, EndAlign, CommitPage, EraseNextProgramPage, WriteEepromByte, Programming
<1>4. (\E b \in FlashBlocks : BeginProgramFlash(b)) \/ (\E b \in EepromBlocks : BeginProgramEeprom(b))
        => pc' # "commit"
  BY DEF BeginProgramFlash, BeginProgramEeprom, BeginProgram
<1> QED
  BY <1>1, <1>2, <1>3, <1>4, DownloadSteps

\* A page ends with its words, so that the next one begins where the flash's does.
LEMMA CountedStep == IInv /\ Storing /\ [Next]_vars => Counted'
<1> SUFFICES ASSUME IInv, Storing, [Next]_vars, pc' \in Programming PROVE Counted'
  BY DEF Counted
<1>a. BlockTyping /\ Fed /\ Fitting /\ Counted /\ FullOrLast
  BY DEF IInv, Typing, Ranges, Storing, Stream, Count
<1> DEFINE W == WordsInFlashPage
           P == CurrFlashPageStartAddress
<1>b. /\ remaining \in Nat /\ CurrFlashAddress \in Nat /\ P \in Nat /\ W \in Nat
      /\ first \in Nat /\ StartAddr \in Nat /\ EndAddr \in Nat
  BY <1>a, PageRange DEF BlockTyping
<1>1. CASE Packets
  <2>1. pc \in Programming /\ UNCHANGED Past
    BY <1>1, PacketsKeep DEF Past
  <2> QED
    BY <1>a, <1>1, <2>1, PacketsKeep DEF Counted
<1>2. CASE EndAlign
  <2>1. /\ pc = "align" /\ Data0(SentCommand) = 0 /\ remaining' = BytesRemaining \div 2
        /\ CurrFlashAddress' = StartAddr /\ P' = StartAddr /\ W' = 0
        /\ UNCHANGED <<StartAddr, EndAddr, first>>
    BY <1>2 DEF EndAlign, Programming
  <2>2. first = StartAddr /\ StartAddr <= EndAddr
    BY <1>a, <2>1 DEF Fed, Discards, IInv, InOrder
  <2>3. \/ OffsetOf(StartAddr) = 0
        \/ OffsetOf(StartAddr) + ((EndAddr - StartAddr) + 1) <= SPM_PAGESIZE
    BY <1>a, <2>1 DEF Fitting, Discards
  <2>4. Past' = Past /\ StartAddr + 2 * remaining' = Past
    BY <2>1, <2>2 DEF Past, BytesRemaining
  <2>5. remaining' \in Nat /\ 2 * remaining' <= (EndAddr - StartAddr) + 1
    BY <1>b, <2>1, <2>2 DEF BytesRemaining
  <2>6. OffsetOf(StartAddr) \in Nat
    BY <1>b, OffsetType, PageSize DEF Offsets
  <2>7. \/ OffsetOf(StartAddr) = 0
        \/ OffsetOf(StartAddr) + 2 * (W' + remaining') <= SPM_PAGESIZE
    BY <1>b, <2>1, <2>3, <2>5, <2>6, PageSize
  <2>8. StartAddr = StartAddr + 2 * W'
    BY <1>b, <2>1
  <2> QED
    BY <1>b, <2>1, <2>2, <2>4, <2>7, <2>8 DEF Counted
<1>3. CASE ProgramWord
  <2>1. /\ pc \in Programming /\ remaining > 0 /\ W' = W + 1 /\ remaining' = remaining - 1
        /\ CurrFlashAddress' = CurrFlashAddress + 2
        /\ UNCHANGED <<CurrFlashPageStartAddress, StartAddr, EndAddr, first>>
    BY <1>3 DEF ProgramWord, Programming
  <2>2. Past' = Past
    BY <2>1 DEF Past
  <2>3. /\ first <= P /\ first <= EndAddr /\ CurrFlashAddress = P + 2 * W
        /\ CurrFlashAddress + 2 * remaining = Past
        /\ OffsetOf(P) = 0 \/ (P = first /\ OffsetOf(first) + 2 * (W + remaining) <= SPM_PAGESIZE)
    BY <1>a, <2>1 DEF Counted
  <2> HIDE DEF W, P
  <2>4. W' + remaining' = W + remaining
    BY <1>b, <2>1
  <2>5. CurrFlashAddress' = P + 2 * W' /\ CurrFlashAddress' + 2 * remaining' = CurrFlashAddress + 2 * remaining
    BY <1>b, <2>1, <2>3
  <2> QED
    BY <2>1, <2>2, <2>3, <2>4, <2>5 DEF Counted, P, W
<1>4. CASE CommitPage
  <2>1. pc = "commit" /\ UNCHANGED <<remaining, CurrFlashAddress, StartAddr, EndAddr, first>>
    BY <1>4 DEF CommitPage
  <2>2. Past' = Past
    BY <2>1 DEF Past
  <2>3. /\ first <= P /\ first <= EndAddr /\ CurrFlashAddress = P + 2 * W
        /\ CurrFlashAddress + 2 * remaining = Past
        /\ OffsetOf(P) = 0 \/ (P = first /\ OffsetOf(first) + 2 * (W + remaining) <= SPM_PAGESIZE)
    BY <1>a, <2>1 DEF Counted, Programming
  <2>4. CASE remaining > 0
    <3>1. P' = CurrFlashAddress /\ W' = 0 /\ W = SPM_PAGESIZE \div 2
      BY <1>a, <1>4, <2>1, <2>4 DEF CommitPage, FullOrLast
    <3>2. OffsetOf(first) \in Nat
      BY <1>b, OffsetType, PageSize DEF Offsets
    <3> HIDE DEF W, P
    <3>3. 2 * W = SPM_PAGESIZE
      BY <3>1, HalfPage
    <3>4. ~(OffsetOf(first) + 2 * (W + remaining) <= SPM_PAGESIZE)
      BY <1>b, <2>4, <3>2, <3>3
    <3>5. OffsetOf(P + SPM_PAGESIZE) = 0
      BY <1>b, <2>3, <3>4, PageBegins
    <3>6. P' = P + SPM_PAGESIZE /\ first <= P'
      BY <1>b, <2>3, <3>1, <3>3, PageSize
    <3>7. CurrFlashAddress = P' + 2 * W'
      BY <1>b, <3>1
    <3> QED
      BY <2>1, <2>2, <2>3, <3>5, <3>6, <3>7 DEF Counted, P, W
  <2>5. CASE ~(remaining > 0)
    <3>1. UNCHANGED <<CurrFlashPageStartAddress, WordsInFlashPage>>
      BY <1>4, <2>5 DEF CommitPage
    <3> QED
      BY <2>1, <2>2, <2>3, <3>1 DEF Counted
  <2> QED
    BY <2>4, <2>5
<1>5. CASE EraseNextProgramPage
  <2>1. /\ pc \in Programming
        /\ UNCHANGED <<remaining, CurrFlashAddress, CurrFlashPageStartAddress, WordsInFlashPage, EndAddr, first>>
    BY <1>5 DEF EraseNextProgramPage, Programming
  <2>2. Past' = Past
    BY <2>1 DEF Past
  <2> QED
    BY <1>a, <2>1, <2>2 DEF Counted
<1>6. Apart \/ EndFiller \/ WriteEepromByte \/ (\E command, b : BeginProgram(command, b)) => pc' \notin Programming
  BY DEF Apart, EndFiller, WriteEepromByte, BeginProgram, Programming
<1> QED
  BY <1>1, <1>2, <1>3, <1>4, <1>5, <1>6, DownloadSteps DEF BeginProgramFlash, BeginProgramEeprom

LEMMA BufferStep == AlignedBlocks /\ BufferClean /\ [Next]_vars => BufferClean'
<1> SUFFICES ASSUME AlignedBlocks, BufferClean, [Next]_vars, pc' \in Discards PROVE BufferClean'
  BY DEF BufferClean
<1>1. CASE Packets
  BY <1>1, PacketsKeep DEF BufferClean
<1>2. ASSUME NEW command, NEW b, BeginProgram(command, b) PROVE BufferClean'
  BY <1>2 DEF BeginProgram, BufferClean
<1>3. CASE EndFiller
  BY <1>3 DEF EndFiller, BufferClean, Discards
<1>4. Apart \/ EndAlign \/ ProgramWord \/ CommitPage \/ EraseNextProgramPage \/ WriteEepromByte
        => pc' \notin Discards
  BY DEF Apart, EndAlign, ProgramWord, CommitPage, EraseNextProgramPage, WriteEepromByte, Discards
<1> QED
  BY <1>1, <1>2, <1>3, <1>4, DownloadSteps DEF BeginProgramFlash, BeginProgramEeprom

\* Where the words of the page are: within it, and nothing of the block before it is on it.
LEMMA OnThePage ==
  ASSUME IInv, Counted, pc \in Programming
  PROVE  /\ CurrFlashPageStartAddress \in Nat /\ WordsInFlashPage \in Nat /\ first \in Nat
         /\ OffsetOf(CurrFlashPageStartAddress) \in Nat
         /\ OffsetOf(CurrFlashPageStartAddress) + 2 * WordsInFlashPage <= SPM_PAGESIZE
         /\ \A a \in Nat : first <= a /\ a < CurrFlashPageStartAddress =>
              PageOf(a) # PageOf(CurrFlashPageStartAddress)
<1> DEFINE P == CurrFlashPageStartAddress
           W == WordsInFlashPage
<1>1. P \in Nat /\ W \in PageWords /\ first \in Nat /\ remaining \in Nat
  BY DEF IInv, Typing, Ranges, BlockTyping
<1>2. W \in Nat /\ 2 * W <= SPM_PAGESIZE
  BY <1>1, HalfPage DEF PageWords
<1>3. OffsetOf(P) = 0 \/ (P = first /\ OffsetOf(first) + 2 * (W + remaining) <= SPM_PAGESIZE)
  BY DEF Counted
<1>4. OffsetOf(P) \in Nat
  BY <1>1, OffsetType, PageSize DEF Offsets
<1>5. OffsetOf(P) + 2 * W <= SPM_PAGESIZE
  <2> HIDE DEF P, W
  <2>1. CASE OffsetOf(P) = 0
    BY <1>2, <2>1, PageSize
  <2>2. CASE P = first /\ OffsetOf(first) + 2 * (W + remaining) <= SPM_PAGESIZE
    BY <1>1, <1>2, <1>4, <2>2, PageSize
  <2> QED
    BY <1>3, <2>1, <2>2
<1>6. ASSUME NEW a \in Nat, first <= a, a < P PROVE PageOf(a) # PageOf(P)
  BY <1>1, <1>3, <1>6, PageBegins
<1> QED
  BY <1>1, <1>2, <1>4, <1>5, <1>6

\* What the page buffer holds is where it was meant to be, once its page is written.
LEMMA Committed ==
  ASSUME IInv, Storing, CommitPage, clean, NEW a \in FlashAddresses, first <= a
  PROVE  /\ a < CurrFlashPageStartAddress => flash'[a] = a + 1
         /\ a >= CurrFlashPageStartAddress /\ PageOf(a) = PageOf(CurrFlashPageStartAddress) =>
              flash'[a] = IF a < CurrFlashAddress THEN a + 1 ELSE Erased
<1> DEFINE P == CurrFlashPageStartAddress
           W == WordsInFlashPage
<1>1. /\ pc = "commit" /\ pc \in Programming /\ flash' = WritePage(flash, pageBuffer, PageOf(P))
  BY DEF CommitPage, Programming
<1>2. /\ flash \in Sound /\ Blank(flash, PageOf(P)) /\ a \in Nat
  BY <1>1, AddressIsNat DEF IInv, FlashInv, ToCommit
<1>3. Counted /\ PagesStored /\ PageLoaded
  BY DEF Storing, Count, Store
<1>4. /\ P \in Nat /\ W \in Nat /\ OffsetOf(P) \in Nat
      /\ \A x \in Nat : first <= x /\ x < P => PageOf(x) # PageOf(P)
  BY <1>1, <1>3, OnThePage
<1>5. ASSUME a < P PROVE flash'[a] = a + 1
  <2>1. flash[a] = a + 1
    BY <1>1, <1>3, <1>5 DEF PagesStored
  <2>2. PageOf(a) # PageOf(P)
    BY <1>2, <1>4, <1>5
  <2> QED
    BY <1>1, <1>2, <2>1, <2>2, WritesItsPage
<1>6. ASSUME a >= P, PageOf(a) = PageOf(P)
      PROVE  flash'[a] = IF a < CurrFlashAddress THEN a + 1 ELSE Erased
  <2>1. flash'[a] = pageBuffer[OffsetOf(a)]
    BY <1>1, <1>2, <1>6, WritesBuffer
  <2>2. OffsetOf(a) \in Offsets /\ OffsetOf(a) \in Nat
    BY <1>2, OffsetType, PageSize DEF Offsets
  <2>3. pageBuffer[OffsetOf(a)] =
          IF OffsetOf(P) <= OffsetOf(a) /\ OffsetOf(a) < OffsetOf(P) + 2 * W
          THEN ((OffsetOf(a) - OffsetOf(P)) + P) + 1 ELSE Erased
    BY <1>1, <1>3, <2>2 DEF PageLoaded
  <2>4. OffsetOf(a) - OffsetOf(P) = a - P
    BY <1>2, <1>4, <1>6, OffsetsApart
  <2>5. CurrFlashAddress = P + 2 * W
    BY <1>1, <1>3 DEF Counted
  <2> HIDE DEF P, W
  <2>6. /\ OffsetOf(P) <= OffsetOf(a)
        /\ OffsetOf(a) < OffsetOf(P) + 2 * W <=> a < CurrFlashAddress
        /\ ((OffsetOf(a) - OffsetOf(P)) + P) + 1 = a + 1
    BY <1>2, <1>4, <1>6, <2>2, <2>4, <2>5
  <2> QED
    BY <2>1, <2>3, <2>6
<1> QED
  BY <1>5, <1>6

LEMMA PagesStep == IInv /\ Storing /\ [Next]_vars => PagesStored'
<1> SUFFICES ASSUME IInv, Storing, [Next]_vars, pc' \in Programming, clean' PROVE PagesStored'
  BY DEF PagesStored
<1>a. Counted /\ PagesStored /\ FullOrLast /\ Fed /\ flash \in Sound
  BY DEF Storing, Stream, Count, Store, IInv, FlashInv
<1>b. /\ remaining \in Nat /\ CurrFlashAddress \in Nat /\ first \in Nat /\ StartAddr \in Nat
  BY DEF IInv, Typing, Ranges, BlockTyping
<1>1. CASE Packets
  BY <1>a, <1>1, PacketsKeep DEF PagesStored
<1>2. CASE EndAlign
  <2>1. pc = "align" /\ CurrFlashPageStartAddress' = StartAddr /\ first' = first
    BY <1>2 DEF EndAlign, Programming
  <2>2. first' = StartAddr
    BY <1>a, <2>1 DEF Fed, Discards
  <2> QED
    BY <1>b, <2>1, <2>2, AddressIsNat DEF PagesStored
<1>3. CASE ProgramWord
  <2>1. pc \in Programming /\ UNCHANGED <<CurrFlashPageStartAddress, first, clean, flash>>
    BY <1>3 DEF ProgramWord, Programming
  <2> QED
    BY <1>a, <2>1 DEF PagesStored
<1>4. CASE CommitPage
  <2>1. pc = "commit" /\ pc \in Programming /\ UNCHANGED <<first, clean>>
    BY <1>4 DEF CommitPage, Programming
  <2>2. SUFFICES ASSUME NEW a \in FlashAddresses, first <= a, a < CurrFlashPageStartAddress'
                 PROVE  flash'[a] = a + 1
    BY <2>1 DEF PagesStored
  <2>3. CASE a < CurrFlashPageStartAddress
    BY <1>4, <2>1, <2>2, <2>3, Committed
  <2>4. CASE ~(a < CurrFlashPageStartAddress)
    <3> DEFINE P == CurrFlashPageStartAddress
    <3>1. P \in Nat /\ OffsetOf(P) \in Nat /\ a \in Nat /\ first \in Nat
      BY <1>a, <2>1, OnThePage, AddressIsNat
    <3>2. remaining > 0 /\ CurrFlashPageStartAddress' = CurrFlashAddress
      BY <1>4, <2>2, <2>4 DEF CommitPage
    <3>3. WordsInFlashPage = SPM_PAGESIZE \div 2 /\ WordsInFlashPage \in Nat
      BY <1>a, <2>1, <3>2, HalfPage DEF FullOrLast
    <3>4. /\ CurrFlashAddress = P + 2 * WordsInFlashPage
          /\ OffsetOf(P) + 2 * WordsInFlashPage <= SPM_PAGESIZE
      BY <1>a, <2>1, OnThePage DEF Counted
    <3> HIDE DEF P
    <3>5. OffsetOf(P) = 0 /\ a < P + SPM_PAGESIZE /\ a >= P
      BY <2>2, <2>4, <3>1, <3>2, <3>3, <3>4, HalfPage, PageSize DEF P
    <3>6. /\ a - P \in Nat /\ OffsetOf(P) + (a - P) < SPM_PAGESIZE /\ P + (a - P) = a
      BY <3>1, <3>5, PageSize
    <3>7. PageOf(a) = PageOf(P)
      <4>1. PageOf(P + (a - P)) = PageOf(P)
        BY <3>1, <3>6, OffsetMoves
      <4> QED
        BY <3>6, <4>1
    <3> QED
      BY <1>4, <2>1, <2>2, <3>2, <3>5, <3>7, Committed DEF P
  <2> QED
    BY <2>3, <2>4
<1>5. CASE EraseNextProgramPage
  <2>1. /\ pc = "eraseNext" /\ pc \in Programming /\ UNCHANGED <<CurrFlashPageStartAddress, first, clean>>
        /\ flash' = ErasePage(flash, PageOf(CurrFlashAddress))
    BY <1>5 DEF EraseNextProgramPage, Programming
  <2>2. CurrFlashAddress = CurrFlashPageStartAddress
    BY <2>1 DEF IInv, FlashInv, ToErase
  <2>3. SUFFICES ASSUME NEW a \in FlashAddresses, first <= a, a < CurrFlashPageStartAddress
                 PROVE  flash'[a] = a + 1
    BY <2>1 DEF PagesStored
  <2>4. flash[a] = a + 1
    BY <1>a, <2>1, <2>3 DEF PagesStored
  <2>5. PageOf(a) # PageOf(CurrFlashAddress)
    BY <1>a, <2>1, <2>2, <2>3, OnThePage, AddressIsNat
  <2> QED
    BY <1>a, <2>1, <2>4, <2>5, Erasing
<1>6. Apart \/ EndFiller \/ WriteEepromByte => pc' \notin Programming
  BY DEF Apart, EndFiller, WriteEepromByte, Programming
<1>7. (\E b \in FlashBlocks : BeginProgramFlash(b)) \/ (\E b \in EepromBlocks : BeginProgramEeprom(b))
        => pc' \notin Programming
  BY DEF BeginProgramFlash, BeginProgramEeprom, BeginProgram, Programming
<1> QED
  BY <1>1, <1>2, <1>3, <1>4, <1>5, <1>6, <1>7, DownloadSteps

\* A word is programmed from two bytes of one packet, which the host means for its place.
LEMMA WordMeant ==
  ASSUME IInv, Storing, ProgramWord
  PROVE  /\ at = CurrFlashAddress /\ outBytes > 1
         /\ Named(at) = CurrFlashAddress + 1 /\ Named(at + 1) = CurrFlashAddress + 2
<1> DEFINE P == CurrFlashPageStartAddress
           W == WordsInFlashPage
           L == CurrFlashAddress
<1>a. /\ remaining \in Nat /\ L \in Nat /\ P \in Nat /\ first \in Nat
      /\ EndAddr \in Nat /\ outBytes \in PacketSizes /\ toCome \in Nat /\ W \in PageWords
  BY DEF IInv, Typing, Ranges, BlockTyping, UsbTyping
<1>b. W \in Nat
  BY <1>a, PageRange
<1>1. pc \in Programming /\ remaining > 0 /\ outBytes > 0
  BY DEF ProgramWord, Programming
<1>2. first <= P /\ first <= EndAddr /\ L = P + 2 * W /\ L + 2 * remaining = Past
  BY <1>1 DEF Storing, Count, Counted
<1>3. /\ at = L /\ toCome + outBytes = ((EndAddr - L) + 1) + DFU_FILE_SUFFIX_SIZE
      /\ toCome > 0 => outBytes % 2 = 0
  <2>1. ~Ended
    BY <1>a, <1>1, PacketRange DEF Ended
  <2> QED
    BY <1>1, <2>1 DEF Storing, Stream, FedWords
<1>4. Past \in Nat /\ Past <= EndAddr + 1
  BY <1>a, <1>2, PastRange
<1>5. first <= L /\ L + 2 <= EndAddr + 1
  <2> HIDE DEF P, W
  <2> QED
    BY <1>a, <1>b, <1>1, <1>2, <1>4
<1>6. outBytes > 1
  <2>1. outBytes \in Nat /\ DFU_FILE_SUFFIX_SIZE \in Nat
    BY <1>a, PacketRange
  <2>2. CASE toCome = 0
    BY <1>a, <1>3, <1>5, <2>1, <2>2
  <2>3. CASE toCome > 0
    BY <1>a, <1>1, <1>3, <2>1, <2>3
  <2> QED
    BY <1>a, <2>2, <2>3
<1>7. L \in first..EndAddr /\ L + 1 \in first..EndAddr
  BY <1>a, <1>5
<1> QED
  BY <1>a, <1>3, <1>6, <1>7 DEF Named

\* The word that is meant for the next place goes there.
LEMMA LoadedStep == IInv /\ Storing /\ [Next]_vars => PageLoaded'
<1> SUFFICES ASSUME IInv, Storing, [Next]_vars,
                    pc' \in Programming, clean', ~(pc' = "program" /\ remaining' = 0)
             PROVE  PageLoaded'
  BY DEF PageLoaded
<1>a. Counted /\ PageLoaded /\ BufferClean /\ FedWords
  BY DEF Storing, Stream, Count, Store
<1>b. /\ remaining \in Nat /\ CurrFlashAddress \in Nat /\ first \in Nat /\ StartAddr \in Nat
      /\ EndAddr \in Nat /\ outBytes \in PacketSizes /\ toCome \in Nat /\ pageBuffer \in Buffers
  BY DEF IInv, Typing, Ranges, BlockTyping, UsbTyping, MemoryTyping
<1>1. CASE Packets
  BY <1>a, <1>1, PacketsKeep DEF PageLoaded
<1>2. CASE EndAlign
  <2>1. /\ pc \in Discards /\ WordsInFlashPage' = 0 /\ CurrFlashPageStartAddress' = StartAddr
        /\ clean /\ pageBuffer' = pageBuffer
    BY <1>2 DEF EndAlign, Programming, Discards
  <2>2. pageBuffer' = EmptyBuffer
    BY <1>a, <2>1 DEF BufferClean
  <2>3. OffsetOf(StartAddr) \in Nat
    BY <1>b, OffsetType, PageSize DEF Offsets
  <2>4. ASSUME NEW o \in Offsets
        PROVE  ~(OffsetOf(StartAddr) <= o /\ o < OffsetOf(StartAddr) + 2 * 0)
    BY <2>3, PageSize DEF Offsets
  <2>5. \A o \in Offsets : EmptyBuffer[o] = Erased
    BY DEF EmptyBuffer
  <2> QED
    BY <2>1, <2>2, <2>4, <2>5 DEF PageLoaded
<1>3. CASE ProgramWord
  <2> DEFINE P == CurrFlashPageStartAddress
             W == WordsInFlashPage
             L == CurrFlashAddress
             low  == Named(at)
             high == IF outBytes > 1 THEN Named(at + 1) ELSE 0
  <2>1. /\ pc = "program" /\ pc \in Programming /\ remaining > 0 /\ outBytes > 0 /\ clean
        /\ pageBuffer' = FillWord(pageBuffer, L, low, high)
        /\ W' = W + 1 /\ P' = P
    BY <1>3 DEF ProgramWord, Programming
  <2>2. /\ P \in Nat /\ W \in Nat /\ OffsetOf(P) \in Nat /\ first <= P /\ first <= EndAddr
        /\ L = P + 2 * W /\ L + 2 * remaining = Past
        /\ OffsetOf(P) = 0 \/ (P = first /\ OffsetOf(first) + 2 * (W + remaining) <= SPM_PAGESIZE)
    BY <1>a, <2>1, OnThePage DEF Counted
  <2>3. OffsetOf(P) + 2 * W + 2 <= SPM_PAGESIZE
    <3>1. W < SPM_PAGESIZE \div 2
      BY <2>1 DEF IInv, InWords
    <3> HIDE DEF P, W, L
    <3>2. 2 * W + 2 <= SPM_PAGESIZE
      BY <2>2, <3>1, HalfPage
    <3>3. CASE OffsetOf(P) = 0
      BY <2>2, <3>2, <3>3, PageSize
    <3>4. CASE P = first /\ OffsetOf(first) + 2 * (W + remaining) <= SPM_PAGESIZE
      BY <1>b, <2>1, <2>2, <3>4, PageSize
    <3> QED
      BY <2>2, <3>3, <3>4
  <2>4. OffsetOf(L) = OffsetOf(P) + 2 * W
    <3>1. 2 * W \in Nat /\ OffsetOf(P) + 2 * W < SPM_PAGESIZE
      BY <2>2, <2>3, PageSize
    <3> QED
      BY <2>2, <3>1, OffsetMoves
  <2>5. at = L /\ outBytes > 1 /\ Named(at) = L + 1 /\ Named(at + 1) = L + 2
    BY <1>3, WordMeant
  <2>6. low = L + 1 /\ high = L + 2
    BY <2>5
  <2>7. \A o \in Offsets : pageBuffer[o] = IF OffsetOf(P) <= o /\ o < OffsetOf(P) + 2 * W
                                          THEN ((o - OffsetOf(P)) + P) + 1 ELSE Erased
    BY <1>a, <1>b, <2>1 DEF PageLoaded
  <2> HIDE DEF low, high
  <2>8. OffsetOf(L) \in Offsets /\ OffsetOf(L) + 1 \in Offsets
    <3> HIDE DEF P, W, L
    <3> QED
      BY <2>2, <2>3, <2>4, PageSize DEF Offsets
  <2>9. pageBuffer[OffsetOf(L)] = Erased
    <3>1. ~(OffsetOf(L) < OffsetOf(P) + 2 * W)
      BY <2>2, <2>4
    <3> QED
      BY <2>7, <2>8, <3>1
  <2>10. SUFFICES ASSUME NEW o \in Offsets
                  PROVE  pageBuffer'[o] = IF OffsetOf(P) <= o /\ o < OffsetOf(P) + 2 * (W + 1)
                                          THEN ((o - OffsetOf(P)) + P) + 1 ELSE Erased
    BY <2>1 DEF PageLoaded
  <2>11. pageBuffer'[o] = IF o = OffsetOf(L) THEN low
                          ELSE IF o = OffsetOf(L) + 1 THEN high ELSE pageBuffer[o]
    BY <1>b, <2>1, <2>8, <2>9, FillWordFills
  <2>12. o \in Nat
    BY PageSize DEF Offsets
  <2> HIDE DEF P, W, L
  <2>13. CASE o = OffsetOf(L)
    <3>1. pageBuffer'[o] = L + 1
      BY <2>6, <2>11, <2>13
    <3>2. OffsetOf(P) <= o /\ o < OffsetOf(P) + 2 * (W + 1) /\ ((o - OffsetOf(P)) + P) + 1 = L + 1
      BY <2>2, <2>4, <2>12, <2>13
    <3> QED
      BY <3>1, <3>2
  <2>14. CASE o = OffsetOf(L) + 1
    <3>1. pageBuffer'[o] = L + 2
      BY <2>2, <2>4, <2>6, <2>11, <2>14
    <3>2. OffsetOf(P) <= o /\ o < OffsetOf(P) + 2 * (W + 1) /\ ((o - OffsetOf(P)) + P) + 1 = L + 2
      BY <2>2, <2>4, <2>12, <2>14
    <3> QED
      BY <3>1, <3>2
  <2>15. CASE o # OffsetOf(L) /\ o # OffsetOf(L) + 1
    <3>1. o < OffsetOf(P) + 2 * (W + 1) <=> o < OffsetOf(P) + 2 * W
      BY <2>2, <2>4, <2>12, <2>15
    <3> QED
      BY <2>7, <2>11, <2>15, <3>1
  <2> QED
    BY <2>13, <2>14, <2>15
<1>4. CASE CommitPage
  <2>1. /\ pc = "commit" /\ pc \in Programming /\ pageBuffer' = EmptyBuffer /\ WordsInFlashPage' = 0
        /\ CurrFlashPageStartAddress' = CurrFlashAddress
    BY <1>b, <1>4 DEF CommitPage, Programming
  <2>2. OffsetOf(CurrFlashAddress) \in Nat
    BY <1>b, OffsetType, PageSize DEF Offsets
  <2>3. ASSUME NEW o \in Offsets
        PROVE  ~(OffsetOf(CurrFlashAddress) <= o /\ o < OffsetOf(CurrFlashAddress) + 2 * 0)
    BY <2>2, PageSize DEF Offsets
  <2>4. \A o \in Offsets : EmptyBuffer[o] = Erased
    BY DEF EmptyBuffer
  <2> QED
    BY <2>1, <2>3, <2>4 DEF PageLoaded
<1>5. CASE EraseNextProgramPage
  <2>1. /\ pc = "eraseNext" /\ pc \in Programming
        /\ UNCHANGED <<CurrFlashPageStartAddress, WordsInFlashPage, clean, pageBuffer>>
    BY <1>5 DEF EraseNextProgramPage, Programming
  <2> QED
    BY <1>a, <2>1 DEF PageLoaded
<1>6. Apart \/ EndFiller \/ WriteEepromByte => pc' \notin Programming
  BY DEF Apart, EndFiller, WriteEepromByte, Programming
<1>7. (\E b \in FlashBlocks : BeginProgramFlash(b)) \/ (\E b \in EepromBlocks : BeginProgramEeprom(b))
        => pc' \notin Programming
  BY DEF BeginProgramFlash, BeginProgramEeprom, BeginProgram, Programming
<1> QED
  BY <1>1, <1>2, <1>3, <1>4, <1>5, <1>6, <1>7, DownloadSteps

\* With the last page of the block the whole of it is stored.
LEMMA BlockStep == IInv /\ Storing /\ [Next]_vars => BlockStored'
<1> SUFFICES ASSUME IInv, Storing, [Next]_vars, pc' = "program", remaining' = 0, clean'
             PROVE  BlockStored'
  BY DEF BlockStored
<1>a. Counted /\ FullOrLast /\ Fed /\ BlockStored
  BY DEF Storing, Stream, Count, Store
<1>b. /\ remaining \in Nat /\ CurrFlashAddress \in Nat /\ first \in Nat /\ StartAddr \in Nat /\ EndAddr \in Nat
  BY DEF IInv, Typing, Ranges, BlockTyping
<1>1. CASE Packets
  <2>1. Past' = Past
    BY <1>1, PacketsKeep DEF Past
  <2> QED
    BY <1>a, <1>1, <2>1, PacketsKeep DEF BlockStored
<1>2. CASE EndAlign
  <2>1. /\ pc = "align" /\ Data0(SentCommand) = 0 /\ remaining' = BytesRemaining \div 2
        /\ UNCHANGED <<first, EndAddr, flash>>
    BY <1>2 DEF EndAlign
  <2>2. first = StartAddr /\ StartAddr <= EndAddr
    BY <1>a, <2>1 DEF Fed, Discards, IInv, InOrder
  <2>3. Past' = first
    BY <1>b, <2>1, <2>2 DEF Past, BytesRemaining
  <2>4. Blank(flash, PageOf(first))
    BY <2>1, <2>2 DEF IInv, FlashInv, ToProgram
  <2>5. SUFFICES ASSUME NEW a \in FlashAddresses, a >= first, PageOf(a) <= PageOf(first - 1)
                 PROVE  flash[a] = IF a < first THEN a + 1 ELSE Erased
    BY <2>1, <2>3 DEF BlockStored
  <2>6. PageOf(a) = PageOf(first)
    <3>1. a \in Int /\ first \in Int /\ first - 1 \in Int /\ first - 1 <= first /\ first <= a
      BY <1>b, <2>5, AddressIsNat
    <3>2. /\ PageOf(first - 1) \in Int /\ PageOf(first) \in Int /\ PageOf(a) \in Int
          /\ PageOf(first - 1) <= PageOf(first) /\ PageOf(first) <= PageOf(a)
      BY <3>1, PagesInOrder
    <3> QED
      BY <2>5, <3>2
  <2>7. ~(a < first)
    BY <1>b, <2>5, AddressIsNat
  <2> QED
    BY <2>4, <2>6, <2>7 DEF Blank
<1>3. CASE CommitPage
  <2> DEFINE P == CurrFlashPageStartAddress
             W == WordsInFlashPage
  <2>1. pc = "commit" /\ pc \in Programming /\ remaining = 0 /\ clean /\ UNCHANGED <<first, EndAddr>>
    BY <1>3 DEF CommitPage, Programming
  <2>2. Past' = Past
    BY <2>1 DEF Past
  <2>3. /\ P \in Nat /\ W \in Nat /\ OffsetOf(P) \in Nat /\ W > 0
        /\ OffsetOf(P) + 2 * W <= SPM_PAGESIZE
        /\ CurrFlashAddress = P + 2 * W /\ CurrFlashAddress + 2 * remaining = Past
    BY <1>a, <2>1, OnThePage DEF Counted, FullOrLast
  <2>4. Past = CurrFlashAddress /\ Past - 1 = P + (2 * W - 1)
    <3> HIDE DEF P, W, Past
    <3> QED
      BY <1>b, <2>1, <2>3
  <2>5. PageOf(Past - 1) = PageOf(P)
    <3>1. 2 * W - 1 \in Nat /\ OffsetOf(P) + (2 * W - 1) < SPM_PAGESIZE
      <4> HIDE DEF P, W
      <4> QED
        BY <2>3, PageSize
    <3>2. PageOf(P + (2 * W - 1)) = PageOf(P)
      BY <2>3, <3>1, OffsetMoves
    <3> QED
      BY <2>4, <3>2
  <2> HIDE DEF Past
  <2>6. SUFFICES ASSUME NEW a \in FlashAddresses, a >= first, PageOf(a) <= PageOf(P)
                 PROVE  flash'[a] = IF a < CurrFlashAddress THEN a + 1 ELSE Erased
    BY <2>1, <2>2, <2>4, <2>5 DEF BlockStored
  <2>7. a \in Nat /\ first <= a
    BY <1>b, <2>6, AddressIsNat
  <2>8. CASE a < P
    <3>1. flash'[a] = a + 1
      BY <1>3, <2>1, <2>7, <2>8, Committed
    <3>2. a < CurrFlashAddress
      <4> HIDE DEF P, W
      <4> QED
        BY <2>3, <2>7, <2>8
    <3> QED
      BY <3>1, <3>2
  <2>9. CASE a >= P
    <3>1. PageOf(P) \in Int /\ PageOf(a) \in Int /\ PageOf(P) <= PageOf(a)
      BY <2>3, <2>7, <2>9, PagesInOrder
    <3>2. PageOf(a) = PageOf(P)
      BY <2>6, <3>1
    <3> QED
      BY <1>3, <2>1, <2>7, <2>9, <3>2, Committed
  <2> QED
    BY <2>3, <2>7, <2>8, <2>9
<1>4. CASE EraseNextProgramPage
  BY <1>4 DEF EraseNextProgramPage, IInv, FlashInv, ToErase
<1>5. CASE ProgramWord
  BY <1>5 DEF ProgramWord
<1>6. Apart \/ EndFiller \/ WriteEepromByte => pc' # "program" \/ WriteEepromByte
  BY DEF Apart, EndFiller, WriteEepromByte, Programming
<1>7. (\E b \in FlashBlocks : BeginProgramFlash(b)) \/ (\E b \in EepromBlocks : BeginProgramEeprom(b))
        => pc' # "program"
  BY DEF BeginProgramFlash, BeginProgramEeprom, BeginProgram
<1>8. WriteEepromByte => pc' # "program"
  BY DEF WriteEepromByte
<1> QED
  BY <1>1, <1>2, <1>3, <1>4, <1>5, <1>6, <1>7, <1>8, DownloadSteps

LEMMA FitStep == AlignedBlocks /\ BytesFit /\ [Next]_vars => BytesFit'
<1> SUFFICES ASSUME AlignedBlocks, BytesFit, [Next]_vars, pc' \in Discards PROVE BytesFit'
  BY DEF BytesFit
<1>1. CASE Packets
  BY <1>1, PacketsKeep DEF BytesFit
<1>2. ASSUME NEW b \in FlashBlocks, BeginProgramFlash(b) PROVE BytesFit'
  <2>1. SentCommand' = "progFlash"
    BY <1>2 DEF BeginProgramFlash, BeginProgram, Receive
  <2> QED
    BY <2>1 DEF BytesFit, Data0
<1>3. ASSUME NEW b \in EepromBlocks, BeginProgramEeprom(b) PROVE BytesFit'
  <2>1. EndAddr' = b[2]
    BY <1>3 DEF BeginProgramEeprom, BeginProgram, LoadStartEndAddresses
  <2> QED
    BY <2>1, BlocksAssumption DEF BytesFit
<1>4. CASE EndFiller
  BY <1>4 DEF EndFiller, BytesFit, Discards
<1>5. Apart \/ EndAlign \/ ProgramWord \/ CommitPage \/ EraseNextProgramPage \/ WriteEepromByte
        => pc' \notin Discards
  BY DEF Apart, EndAlign, ProgramWord, CommitPage, EraseNextProgramPage, WriteEepromByte, Discards
<1> QED
  BY <1>1, <1>2, <1>3, <1>4, <1>5, DownloadSteps

LEMMA BytesStep == IInv /\ Storing /\ [Next]_vars => BytesStored'
<1> SUFFICES ASSUME IInv, Storing, [Next]_vars, pc' = "eeprom" PROVE BytesStored'
  BY DEF BytesStored
<1>a. BytesFit /\ BytesStored /\ Fed /\ FedBytes
  BY DEF Storing, Stream, Store
<1>b. /\ remaining \in Nat /\ first \in Nat /\ StartAddr \in Nat /\ EndAddr \in Nat /\ eeprom \in Eeproms
      /\ EepromSize \in Nat
  BY EndpointAssumption DEF IInv, Typing, Ranges, BlockTyping, MemoryTyping
<1>1. CASE Packets
  BY <1>a, <1>1, PacketsKeep DEF BytesStored
<1>2. CASE EndAlign
  <2>1. /\ pc = "align" /\ Data0(SentCommand) # 0 /\ remaining' = BytesRemaining
        /\ UNCHANGED <<StartAddr, EndAddr, first>>
    BY <1>2 DEF EndAlign
  <2>2. first = StartAddr /\ EndAddr < EepromSize
    BY <1>a, <2>1 DEF Fed, BytesFit, Discards
  <2>3. StartAddr' + remaining' = EndAddr' + 1 /\ first' <= StartAddr'
    BY <1>b, <2>1, <2>2 DEF BytesRemaining
  <2>4. \A a \in Nat : ~(first' <= a /\ a < StartAddr')
    BY <1>b, <2>1, <2>2
  <2> QED
    BY <2>1, <2>2, <2>3, <2>4 DEF BytesStored
<1>3. CASE WriteEepromByte
  <2>1. /\ pc = "eeprom" /\ remaining > 0 /\ outBytes > 0
        /\ eeprom' = [eeprom EXCEPT ![StartAddr] = Named(at)]
        /\ StartAddr' = StartAddr + 1 /\ remaining' = remaining - 1 /\ UNCHANGED <<EndAddr, first>>
    BY <1>3 DEF WriteEepromByte
  <2>2. /\ first <= StartAddr /\ StartAddr + remaining = EndAddr + 1 /\ EndAddr < EepromSize
        /\ \A a \in Nat : first <= a /\ a < StartAddr => eeprom[a] = a + 1
    BY <1>a, <2>1 DEF BytesStored
  <2>3. at = StartAddr
    BY <1>a, <2>1 DEF FedBytes, Ended
  <2>4. StartAddr \in first..EndAddr /\ StartAddr \in EepromAddresses
    BY <1>b, <2>1, <2>2 DEF EepromAddresses
  <2>5. Named(at) = StartAddr + 1
    BY <2>3, <2>4 DEF Named
  <2>6. ASSUME NEW a \in Nat, first <= a, a < StartAddr + 1 PROVE eeprom'[a] = a + 1
    <3>1. a \in EepromAddresses
      BY <1>b, <2>1, <2>2, <2>6 DEF EepromAddresses
    <3>2. CASE a = StartAddr
      BY <1>b, <2>1, <2>5, <3>1, <3>2 DEF Eeproms
    <3>3. CASE a # StartAddr
      <4>1. a < StartAddr
        BY <1>b, <2>6, <3>3
      <4> QED
        BY <1>b, <2>1, <2>2, <2>6, <3>1, <3>3, <4>1 DEF Eeproms
    <3> QED
      BY <3>2, <3>3
  <2>7. StartAddr' + remaining' = EndAddr + 1 /\ first <= StartAddr'
    BY <1>b, <2>1, <2>2
  <2> QED
    BY <2>1, <2>2, <2>6, <2>7 DEF BytesStored
<1>4. Apart \/ EndFiller \/ ProgramWord \/ CommitPage \/ EraseNextProgramPage => pc' # "eeprom"
  BY DEF Apart, EndFiller, ProgramWord, CommitPage, EraseNextProgramPage
<1>5. (\E b \in FlashBlocks : BeginProgramFlash(b)) \/ (\E b \in EepromBlocks : BeginProgramEeprom(b))
        => pc' # "eeprom"
  BY DEF BeginProgramFlash, BeginProgramEeprom, BeginProgram
<1> QED
  BY <1>1, <1>2, <1>3, <1>4, <1>5, DownloadSteps

LEMMA StoringStarts == Init => Storing
<1> SUFFICES ASSUME Init PROVE Storing
  OBVIOUS
<1>1. pc = "start" /\ outBytes = 0
  BY DEF Init
<1>2. Stream
  BY <1>1 DEF Stream, Banked, Fed, FedWords, FedBytes, Discards, Programming
<1>3. Count
  BY <1>1 DEF Count, Fitting, Counted, FullOrLast, Discards, Programming
<1>4. Store
  BY <1>1 DEF Store, BufferClean, PagesStored, PageLoaded, BlockStored, BytesFit, BytesStored, Discards,
              Programming
<1> QED
  BY <1>2, <1>3, <1>4 DEF Storing

LEMMA StoringStep == IInv /\ AlignedBlocks /\ Storing /\ [Next]_vars => Storing'
<1> SUFFICES ASSUME IInv, AlignedBlocks, Storing, [Next]_vars PROVE Storing'
  OBVIOUS
<1>1. Stream'
  BY BankStep, FedStep, FedWordsStep, FedBytesStep DEF Storing, Stream
<1>2. Count'
  BY FittingStep, CountedStep, FullOrLastStep DEF Storing, Count
<1>3. Store'
  BY BufferStep, PagesStep, LoadedStep, BlockStep, FitStep, BytesStep DEF Storing, Store
<1> QED
  BY <1>1, <1>2, <1>3 DEF Storing

\* A download that runs to its end has stored what the host sent, when its block is one of
\* AlignedBlocks: every whole word of a flash block in its place with the rest of its pages
\* erased, if the page buffer was empty before, and every byte of an EEPROM block.
THEOREM DownloadIsStored == AlignedBlocks => (Spec => DownloadStored)
<1> SUFFICES ASSUME AlignedBlocks PROVE Spec => DownloadStored
  OBVIOUS
<1> DEFINE Stored ==
      /\ pc = "program" /\ pc' = "suffix" /\ clean =>
           LET past == first + 2 * ((EndAddr - first + 1) \div 2)
           IN  \A a \in FlashAddresses :
                 a >= first /\ PageOf(a) <= PageOf(past - 1) =>
                   flash[a] = IF a < past THEN a + 1 ELSE Erased
      /\ pc = "eeprom" /\ pc' = "suffix" => \A a \in first..EndAddr : eeprom[a] = a + 1
<1>1. Init => Storing
  BY StoringStarts
<1>2. IInv /\ Storing /\ [Next]_vars => Storing'
  BY StoringStep
<1>3. IInv /\ Storing /\ [Next]_vars => Stored
  <2> SUFFICES ASSUME IInv, Storing, [Next]_vars PROVE Stored
    OBVIOUS
  <2>a. /\ remaining \in Nat /\ first \in Nat /\ EndAddr \in Nat /\ StartAddr \in Nat
    BY DEF IInv, Typing, Ranges, BlockTyping
  <2>b. BlockStored /\ BytesStored
    BY DEF Storing, Store
  <2>1. pc \in {"program", "eeprom"} /\ pc' = "suffix" => EndProgram \/ EndEeprom
    <3> SUFFICES ASSUME pc \in {"program", "eeprom"}, pc' = "suffix" PROVE EndProgram \/ EndEeprom
      OBVIOUS
    <3>1. ~Request /\ ~Command
      BY DEF Request, DnloadNothing, DnloadData, UploadResponse, BeginUpload, GetStatusOrState, ClearStatus,
             Abort, Serving, Command, RejectCommand, ProcessReadCommand, BeginProgramFlash,
             BeginProgramEeprom, BeginProgram, ProcessMemReadCommand, BlankCheck, StartByWatchdog,
             StartByJump, BeginErase, Receive
    <3>2. ~HostSends /\ ~HostFetches /\ ~HostAcknowledges /\ ~Bus /\ ~UNCHANGED vars
      BY DEF HostSends, HostFetches, HostAcknowledges, Return, Bus, Unplug, Resume, BusReset, vars
    <3>3. ~WatchdogBites /\ ~OtherReset
      BY DEF WatchdogBites, OtherReset, Reset
    <3>4. Task => EndProgram \/ EndEeprom
      <4>1. ~(StartApplication \/ SetupHardware \/ LeaveLoop \/ ResetHardware \/ NoCommand
              \/ EraseNextPage \/ WriteErasedPage \/ EndErase)
        BY DEF StartApplication, SetupHardware, LeaveLoop, ResetHardware, NoCommand, EraseNextPage,
               WriteErasedPage, EndErase
      <4>2. ~(ClearEmptyBank \/ DiscardByte \/ EndFiller \/ EndAlign \/ ProgramWord \/ CommitPage
              \/ EraseNextProgramPage \/ WriteEepromByte)
        BY DEF ClearEmptyBank, DiscardByte, EndFiller, EndAlign, ProgramWord, CommitPage,
               EraseNextProgramPage, WriteEepromByte
      <4>3. ~(AbandonProgram \/ EndDnload \/ ClearFullBank \/ UploadWord \/ UploadEepromByte
              \/ AbandonUpload \/ EndUpload \/ NoStatusStage)
        BY DEF AbandonProgram, EndDnload, ClearFullBank, UploadWord, UploadEepromByte, AbandonUpload,
               EndUpload, NoStatusStage, Return
      <4> QED
        BY <4>1, <4>2, <4>3 DEF Task
    <3> QED
      BY <3>1, <3>2, <3>3, <3>4 DEF Next, Host
  <2>2. ASSUME pc = "program", pc' = "suffix", clean
        PROVE  \A a \in FlashAddresses :
                 a >= first /\ PageOf(a) <= PageOf(Past - 1) => flash[a] = IF a < Past THEN a + 1 ELSE Erased
    <3>1. remaining = 0
      BY <2>1, <2>2 DEF EndProgram, EndEeprom
    <3> QED
      BY <2>b, <2>2, <3>1 DEF BlockStored
  <2>3. ASSUME pc = "eeprom", pc' = "suffix", NEW a \in first..EndAddr PROVE eeprom[a] = a + 1
    <3>1. remaining = 0
      BY <2>1, <2>3 DEF EndProgram, EndEeprom
    <3>2. /\ StartAddr + remaining = EndAddr + 1
          /\ \A x \in Nat : first <= x /\ x < StartAddr => eeprom[x] = x + 1
      BY <2>b, <2>3 DEF BytesStored
    <3>3. a \in Nat /\ first <= a /\ a < StartAddr
      BY <2>a, <3>1, <3>2
    <3> QED
      BY <3>2, <3>3
  <2>4. ASSUME pc = "program", pc' = "suffix", clean
        PROVE  \A a \in FlashAddresses :
                 a >= first /\ PageOf(a) <= PageOf((first + 2 * ((EndAddr - first + 1) \div 2)) - 1) =>
                   flash[a] = IF a < first + 2 * ((EndAddr - first + 1) \div 2) THEN a + 1 ELSE Erased
    BY <2>2, <2>4 DEF Past
  <2> QED
    BY <2>3, <2>4
<1>4. IInv /\ Storing /\ [Next]_vars => [Stored]_vars
  BY <1>3
<1> HIDE DEF Stored
<1>5. Spec => [][Stored]_vars
  BY <1>1, <1>2, <1>4, Invariance, PTL DEF Spec
<1> QED
  BY <1>5 DEF Stored, DownloadStored
-----------------------------------------------------------------------------
(* Firmware and what is sent with it. *)

\* No byte that the host means for no address is in the page buffer or the flash.
NoFiller ==
  /\ \A a \in FlashAddresses : flash[a] # 0
  /\ \A o \in Offsets : pageBuffer[o] # 0

\* A flash block stays within the application section while it is programmed.
InApplication == pc \in Programming => EndAddr < BOOT_START_ADDR

LEMMA InApplicationStep == IInv /\ InApplication /\ [Next]_vars => InApplication'
<1> SUFFICES ASSUME IInv, InApplication, [Next]_vars, pc' \in Programming PROVE InApplication'
  BY DEF InApplication
<1>1. CASE Packets
  BY <1>1, PacketsKeep DEF InApplication
<1>2. CASE EndAlign
  <2>1. pc = "align" /\ Data0(SentCommand) = 0 /\ EndAddr' = EndAddr
    BY <1>2 DEF EndAlign, Programming
  <2> QED
    BY <2>1 DEF IInv, FlashInv, ToProgram, InApplication
<1>3. CASE ProgramWord \/ CommitPage \/ EraseNextProgramPage
  <2>1. pc \in Programming /\ EndAddr' = EndAddr
    BY <1>3 DEF ProgramWord, CommitPage, EraseNextProgramPage, Programming
  <2> QED
    BY <2>1 DEF InApplication
<1>4. Apart \/ EndFiller \/ WriteEepromByte => pc' \notin Programming
  BY DEF Apart, EndFiller, WriteEepromByte, Programming
<1>5. (\E b \in FlashBlocks : BeginProgramFlash(b)) \/ (\E b \in EepromBlocks : BeginProgramEeprom(b))
        => pc' \notin Programming
  BY DEF BeginProgramFlash, BeginProgramEeprom, BeginProgram, Programming
<1> QED
  BY <1>1, <1>2, <1>3, <1>4, <1>5, DownloadSteps

LEMMA FillerStep ==
  ASSUME IInv, Storing, NoFiller, [Next]_vars
  PROVE  NoFiller'
<1>a. /\ CurrFlashAddress \in Nat /\ pageBuffer \in Buffers
  BY DEF IInv, Typing, Ranges, BlockTyping, MemoryTyping
<1>b. \A o \in Offsets : EmptyBuffer[o] # 0
  BY DEF EmptyBuffer, Erased
<1>1. CASE ProgramWord
  <2> DEFINE L == CurrFlashAddress
             low  == Named(at)
             high == IF outBytes > 1 THEN Named(at + 1) ELSE 0
  <2>1. pageBuffer' = FillWord(pageBuffer, L, low, high) /\ flash' = flash
    BY <1>1 DEF ProgramWord
  <2>2. low # 0 /\ high # 0
    <3>1. outBytes > 1 /\ Named(at) = L + 1 /\ Named(at + 1) = L + 2
      BY <1>1, WordMeant
    <3> QED
      BY <1>a, <3>1
  <2> HIDE DEF low, high, L
  <2>3. \A o \in Offsets : FillWord(pageBuffer, L, low, high)[o] \in {pageBuffer[o], low, high}
    BY <1>a DEF FillWord, Buffers
  <2> QED
    BY <2>1, <2>2, <2>3 DEF NoFiller
<1>2. ASSUME NEW page, flash' = ErasePage(flash, page), pageBuffer' = pageBuffer PROVE NoFiller'
  BY <1>2 DEF ErasePage, NoFiller, Erased
<1>3. ASSUME NEW page, flash' = WritePage(flash, pageBuffer, page), pageBuffer' = EmptyBuffer
      PROVE  NoFiller'
  <2>1. \A a \in FlashAddresses : OffsetOf(a) \in Offsets
    BY AddressIsNat, OffsetType
  <2>2. \A a \in FlashAddresses : flash'[a] \in {flash[a], pageBuffer[OffsetOf(a)], Garbled}
    BY <1>3 DEF WritePage
  <2> QED
    BY <1>b, <1>3, <2>1, <2>2 DEF NoFiller, Garbled
<1>4. CASE flash' = flash /\ pageBuffer' \in {pageBuffer, EmptyBuffer}
  BY <1>b, <1>4 DEF NoFiller
<1>5. EraseNextPage \/ EraseNextProgramPage
        => \E page : flash' = ErasePage(flash, page) /\ pageBuffer' = pageBuffer
  BY DEF EraseNextPage, EraseNextProgramPage
<1>6. WriteErasedPage \/ CommitPage
        => \E page : flash' = WritePage(flash, pageBuffer, page) /\ pageBuffer' = EmptyBuffer
  BY DEF WriteErasedPage, CommitPage
<1>7. ASSUME NEW b \in FlashBlocks, BeginProgramFlash(b) PROVE NoFiller'
  <2>1. flash' = ErasePage(flash, PageOf(b[1])) /\ pageBuffer' = pageBuffer
    BY <1>7 DEF BeginProgramFlash, BeginProgram
  <2> QED
    BY <1>2, <2>1
<1>8. ASSUME NEW b \in EepromBlocks, BeginProgramEeprom(b) PROVE NoFiller'
  BY <1>4, <1>8 DEF BeginProgramEeprom, BeginProgram
<1>9. Quiet \/ Elsewhere \/ Resets \/ Opens \/ BeginUpload \/ BeginErase \/ EndErase
        => flash' = flash /\ pageBuffer' \in {pageBuffer, EmptyBuffer}
  BY DEF Quiet, Elsewhere, Resets, Reset, Opens, ProcessMemReadCommand, StartByWatchdog, StartByJump,
         BeginUpload, BeginErase, EndErase
<1>10. EndFiller \/ EndAlign \/ EndProgram \/ WriteEepromByte \/ EndEeprom
         \/ UploadWord \/ UploadEepromByte \/ AbandonUpload
        => flash' = flash /\ pageBuffer' \in {pageBuffer, EmptyBuffer}
  BY DEF EndFiller, EndAlign, EndProgram, WriteEepromByte, EndEeprom, UploadWord, UploadEepromByte,
         AbandonUpload, Return
<1> QED
  BY <1>1, <1>2, <1>3, <1>4, <1>5, <1>6, <1>7, <1>8, <1>9, <1>10, Steps

\* "Throw away the packet alignment filler bytes before the start of the firmware": with
\* blocks of AlignedBlocks no filler or suffix byte is ever programmed as firmware, however
\* a download breaks off.  Without them the run dfu_filler finds the contrary.
THEOREM FillerIsThrownAway == AlignedBlocks => (Spec => FillerThrownAway)
<1> SUFFICES ASSUME AlignedBlocks PROVE Spec => FillerThrownAway
  OBVIOUS
<1> DEFINE Kept == pc = "program" /\ pc' = "suffix" => \A a \in first..EndAddr : flash[a] # 0
<1>1. Init => Storing /\ NoFiller /\ InApplication
  <2>1. Old # 0
    BY BootStart DEF Old
  <2>2. Init => NoFiller
    <3>1. Init => pageBuffer = EmptyBuffer /\ flash = [a \in FlashAddresses |-> Old]
      BY DEF Init
    <3>2. \A o \in Offsets : EmptyBuffer[o] # 0
      BY DEF EmptyBuffer, Erased
    <3> QED
      BY <2>1, <3>1, <3>2 DEF NoFiller
  <2>3. Init => InApplication
    BY DEF Init, InApplication, Programming
  <2> QED
    BY <2>2, <2>3, StoringStarts
<1>2. IInv /\ Storing /\ NoFiller /\ InApplication /\ [Next]_vars => (Storing /\ NoFiller /\ InApplication)'
  BY StoringStep, FillerStep, InApplicationStep
<1>3. IInv /\ NoFiller /\ InApplication => Kept
  <2> SUFFICES ASSUME IInv, NoFiller, InApplication, pc = "program", NEW a \in first..EndAddr
               PROVE  flash[a] # 0
    OBVIOUS
  <2>1. EndAddr < BOOT_START_ADDR /\ first \in Nat /\ EndAddr \in Nat
    BY DEF IInv, Typing, Ranges, BlockTyping, InApplication, Programming
  <2>2. a \in FlashAddresses
    BY <2>1, BootInFlash, BootStart
  <2> QED
    BY <2>2 DEF NoFiller
<1>4. IInv /\ NoFiller /\ InApplication /\ [Next]_vars => [Kept]_vars
  BY <1>3
<1> HIDE DEF Kept
<1>5. Spec => [][Kept]_vars
  BY <1>1, <1>2, <1>4, Invariance, PTL DEF Spec
<1> QED
  BY <1>5 DEF Kept, FillerThrownAway

-----------------------------------------------------------------------------
(* The erase, and what it finds in the page buffer. *)

AtErase == {"erase", "eraseWrite"}

\* What an erase that began with an empty page buffer has passed is blank.
ErasedSoFar ==
  pc \in AtErase /\ clean =>
    /\ pageBuffer = EmptyBuffer
    /\ \A a \in FlashAddresses : a < CurrFlashAddress => flash[a] = Erased

\* What gets to the erase, or moves it on.
LEMMA EraseSteps ==
  [Next]_vars /\ pc' \in AtErase => Packets \/ BeginErase \/ EraseNextPage \/ WriteErasedPage
<1> SUFFICES ASSUME [Next]_vars, pc' \in AtErase
             PROVE  Packets \/ BeginErase \/ EraseNextPage \/ WriteErasedPage
  OBVIOUS
<1>1. ~Request
  BY DEF Request, DnloadNothing, DnloadData, UploadResponse, BeginUpload, GetStatusOrState, ClearStatus,
         Abort, Serving, AtErase
<1>2. Command => BeginErase
  BY DEF Command, RejectCommand, ProcessReadCommand, BeginProgramFlash, BeginProgramEeprom, BeginProgram,
         ProcessMemReadCommand, BlankCheck, StartByWatchdog, StartByJump, AtErase
<1>3. ~WatchdogBites /\ ~OtherReset /\ ~HostAcknowledges
  BY DEF WatchdogBites, OtherReset, Reset, HostAcknowledges, Return, AtErase
<1>4. Task => ClearEmptyBank \/ DiscardByte \/ ClearFullBank \/ EraseNextPage \/ WriteErasedPage
  <2>1. ~(StartApplication \/ SetupHardware \/ LeaveLoop \/ ResetHardware \/ NoCommand \/ EndErase)
    BY DEF StartApplication, SetupHardware, LeaveLoop, ResetHardware, NoCommand, EndErase, Return, AtErase
  <2>2. ~(EndFiller \/ EndAlign \/ ProgramWord \/ CommitPage \/ EraseNextProgramPage \/ EndProgram
          \/ WriteEepromByte \/ EndEeprom \/ AbandonProgram \/ EndDnload)
    BY DEF EndFiller, EndAlign, ProgramWord, CommitPage, EraseNextProgramPage, EndProgram,
           WriteEepromByte, EndEeprom, AbandonProgram, EndDnload, Return, AtErase
  <2>3. ~(UploadWord \/ UploadEepromByte \/ AbandonUpload \/ EndUpload \/ NoStatusStage)
    BY DEF UploadWord, UploadEepromByte, AbandonUpload, EndUpload, NoStatusStage, Return, AtErase
  <2> QED
    BY <2>1, <2>2, <2>3 DEF Task
<1> QED
  BY <1>1, <1>2, <1>3, <1>4 DEF Next, Host, Packets

LEMMA ErasedStep == IInv /\ ErasedSoFar /\ [Next]_vars => ErasedSoFar'
<1> SUFFICES ASSUME IInv, ErasedSoFar, [Next]_vars, pc' \in AtErase, clean' PROVE ErasedSoFar'
  BY DEF ErasedSoFar
<1>a. flash \in Sound
  BY DEF IInv, FlashInv
<1>1. CASE Packets
  BY <1>1, PacketsKeep DEF ErasedSoFar
<1>2. CASE BeginErase
  <2>1. CurrFlashAddress' = 0 /\ pageBuffer' = pageBuffer /\ clean' = (pageBuffer = EmptyBuffer)
    BY <1>2 DEF BeginErase
  <2>2. \A a \in FlashAddresses : ~(a < CurrFlashAddress')
    BY <2>1, AddressIsNat
  <2> QED
    BY <2>1, <2>2 DEF ErasedSoFar
<1>3. CASE EraseNextPage
  <2>1. /\ pc = "erase" /\ flash' = ErasePage(flash, PageOf(CurrFlashAddress))
        /\ UNCHANGED <<pageBuffer, CurrFlashAddress, clean>>
    BY <1>3 DEF EraseNextPage
  <2>2. \A a \in FlashAddresses : flash[a] = Erased => flash'[a] = Erased
    BY <1>a, <2>1, Erasing
  <2> QED
    BY <2>1, <2>2 DEF ErasedSoFar, AtErase
<1>4. CASE WriteErasedPage
  <2>1. /\ pc = "eraseWrite" /\ pageBuffer' = EmptyBuffer /\ clean' = clean
        /\ flash' = WritePage(flash, pageBuffer, PageOf(CurrFlashAddress))
        /\ CurrFlashAddress' = CurrFlashAddress + SPM_PAGESIZE
    BY <1>4 DEF WriteErasedPage
  <2>2. PICK k \in Nat : CurrFlashAddress = k * SPM_PAGESIZE
    BY <2>1 DEF IInv, FlashInv, PageByPage
  <2>3. flash' = flash
    BY <1>a, <2>1, WritesItsPage DEF ErasedSoFar, AtErase
  <2>4. ASSUME NEW a \in FlashAddresses, a < CurrFlashAddress' PROVE flash[a] = Erased
    <3>0. a \in Nat
      BY AddressIsNat
    <3>1. CASE a < CurrFlashAddress
      BY <2>1, <3>1 DEF ErasedSoFar, AtErase
    <3>2. CASE ~(a < CurrFlashAddress)
      <4>1. k * SPM_PAGESIZE <= a /\ a < k * SPM_PAGESIZE + SPM_PAGESIZE
        BY <2>1, <2>2, <2>4, <3>0, <3>2, PageSize
      <4>2. PageOf(a) = PageOf(CurrFlashAddress)
        BY <2>2, <3>0, <4>1, WholePage
      <4> QED
        BY <2>1, <4>2 DEF IInv, FlashInv, ToWriteErased, Blank
    <3> QED
      BY <3>1, <3>2
  <2> QED
    BY <2>1, <2>3, <2>4 DEF ErasedSoFar
<1> QED
  BY <1>1, <1>2, <1>3, <1>4, EraseSteps

\* The end of an erase that began with an empty page buffer finds the whole section blank.
LEMMA ErasedAll ==
  ASSUME IInv, ErasedSoFar, [Next]_vars, pc = "erase", pc' = "task", clean
  PROVE  \A a \in 0..(BOOT_START_ADDR - 1) : flash[a] = Erased
<1>1. EndErase
  <2>1. ~Request /\ ~Command
    BY DEF Request, DnloadNothing, DnloadData, UploadResponse, BeginUpload, GetStatusOrState, ClearStatus,
           Abort, Serving, Command, RejectCommand, ProcessReadCommand, BeginProgramFlash,
           BeginProgramEeprom, BeginProgram, ProcessMemReadCommand, BlankCheck, StartByWatchdog,
           StartByJump, BeginErase, Receive
  <2>2. ~HostSends /\ ~HostFetches /\ ~HostAcknowledges /\ ~Bus /\ ~UNCHANGED vars
    BY DEF HostSends, HostFetches, HostAcknowledges, Return, Bus, Unplug, Resume, BusReset, vars
  <2>3. ~WatchdogBites /\ ~OtherReset
    BY DEF WatchdogBites, OtherReset, Reset
  <2>4. ~(StartApplication \/ SetupHardware \/ LeaveLoop \/ ResetHardware \/ NoCommand
          \/ EraseNextPage \/ WriteErasedPage)
    BY DEF StartApplication, SetupHardware, LeaveLoop, ResetHardware, NoCommand, EraseNextPage,
           WriteErasedPage
  <2>5. ~(ClearEmptyBank \/ DiscardByte \/ EndFiller \/ EndAlign \/ ProgramWord \/ CommitPage
          \/ EraseNextProgramPage \/ EndProgram \/ WriteEepromByte \/ EndEeprom)
    BY DEF ClearEmptyBank, DiscardByte, EndFiller, EndAlign, ProgramWord, CommitPage,
           EraseNextProgramPage, EndProgram, WriteEepromByte, EndEeprom, Receiving, Discarding
  <2>6. ~(AbandonProgram \/ EndDnload \/ ClearFullBank \/ UploadWord \/ UploadEepromByte
          \/ AbandonUpload \/ EndUpload \/ NoStatusStage)
    BY DEF AbandonProgram, EndDnload, ClearFullBank, UploadWord, UploadEepromByte, AbandonUpload,
           EndUpload, NoStatusStage, Return, Sending
  <2> QED
    BY <2>1, <2>2, <2>3, <2>4, <2>5, <2>6 DEF Next, Host, Task
<1>2. CurrFlashAddress \in Nat /\ CurrFlashAddress >= BOOT_START_ADDR
  BY <1>1 DEF EndErase, IInv, Typing, Ranges, BlockTyping
<1>3. ASSUME NEW a \in 0..(BOOT_START_ADDR - 1) PROVE flash[a] = Erased
  <2>1. a \in FlashAddresses /\ a < CurrFlashAddress
    BY <1>2, BootInFlash, BootStart
  <2> QED
    BY <2>1 DEF ErasedSoFar, AtErase
<1> QED
  BY <1>3

\* An erase that begins with an empty page buffer ends with the application section blank,
\* whatever happens to the connection meanwhile.
EraseOfCleanLeavesBlank ==
  [][ pc = "erase" /\ pc' = "task" /\ clean =>
        \A a \in 0..(BOOT_START_ADDR - 1) : flash[a] = Erased ]_vars

THEOREM EraseFromClean == Spec => EraseOfCleanLeavesBlank
<1>1. Init => ErasedSoFar
  BY DEF Init, ErasedSoFar, AtErase
<1>2. IInv /\ ErasedSoFar /\ [Next]_vars =>
        [ pc = "erase" /\ pc' = "task" /\ clean =>
            \A a \in 0..(BOOT_START_ADDR - 1) : flash[a] = Erased ]_vars
  BY ErasedAll
<1> QED
  BY <1>1, <1>2, ErasedStep, Invariance, PTL DEF Spec, EraseOfCleanLeavesBlank

\* Nothing but a download under way leaves anything in the page buffer.
Unfilled ==
  /\ pc \notin Programming => pageBuffer = EmptyBuffer
  /\ pc \in AtErase => clean

LEMMA UnfilledStep == Unfilled /\ [Next]_vars /\ ~AbandonProgram => Unfilled'
<1> SUFFICES ASSUME Unfilled, [Next]_vars, ~AbandonProgram PROVE Unfilled'
  OBVIOUS
<1>1. ASSUME pc' \in AtErase PROVE clean'
  <2>1. CASE Packets
    BY <1>1, <2>1, PacketsKeep DEF Unfilled
  <2>2. CASE BeginErase
    BY <2>2 DEF BeginErase, Receive, Unfilled, Programming
  <2>3. CASE EraseNextPage \/ WriteErasedPage
    BY <2>3 DEF EraseNextPage, WriteErasedPage, Unfilled, AtErase
  <2> QED
    BY <1>1, <2>1, <2>2, <2>3, EraseSteps
<1>2. CASE pageBuffer' = EmptyBuffer
  BY <1>1, <1>2 DEF Unfilled
<1>3. CASE pc' \in Programming
  BY <1>1, <1>3 DEF Unfilled
<1>4. CASE pc \notin Programming /\ pageBuffer' = pageBuffer
  BY <1>1, <1>4 DEF Unfilled
<1>5. CASE Packets
  BY <1>1, <1>5, PacketsKeep DEF Unfilled
<1>6. Request \/ Command => pc \notin Programming /\ pageBuffer' = pageBuffer
  <2>1. Request => pc = "task" /\ pageBuffer' = pageBuffer
    BY DEF Request, DnloadNothing, DnloadData, UploadResponse, BeginUpload, GetStatusOrState, ClearStatus,
           Abort, Serving
  <2>2. Command => pc = "command" /\ pageBuffer' = pageBuffer
    BY DEF Command, RejectCommand, ProcessReadCommand, BeginProgramFlash, BeginProgramEeprom, BeginProgram,
           ProcessMemReadCommand, BlankCheck, StartByWatchdog, StartByJump, BeginErase, Receive
  <2> QED
    BY <2>1, <2>2 DEF Programming
<1>7. WatchdogBites \/ OtherReset => pageBuffer' = EmptyBuffer
  BY DEF WatchdogBites, OtherReset, Reset
<1>8. \/ StartApplication \/ SetupHardware \/ LeaveLoop \/ ResetHardware \/ NoCommand \/ EraseNextPage
      \/ EndFiller \/ EndAlign \/ WriteEepromByte \/ EndEeprom \/ EndDnload \/ HostAcknowledges
      => pc \notin Programming /\ pageBuffer' = pageBuffer
  BY DEF StartApplication, SetupHardware, LeaveLoop, ResetHardware, NoCommand, EraseNextPage, EndFiller,
         EndAlign, WriteEepromByte, EndEeprom, EndDnload, HostAcknowledges, Return, Programming
<1>9. \/ UploadWord \/ UploadEepromByte \/ AbandonUpload \/ EndUpload \/ NoStatusStage
      => pc \notin Programming /\ pageBuffer' = pageBuffer
  BY DEF UploadWord, UploadEepromByte, AbandonUpload, EndUpload, NoStatusStage, Return, Sending, Programming
<1>10. WriteErasedPage \/ EndErase \/ CommitPage \/ EndProgram => pageBuffer' = EmptyBuffer
  BY DEF WriteErasedPage, EndErase, CommitPage, EndProgram
<1>11. ProgramWord \/ EraseNextProgramPage => pc' \in Programming
  BY DEF ProgramWord, EraseNextProgramPage, Programming
<1> QED
  BY <1>2, <1>3, <1>4, <1>5, <1>6, <1>7, <1>8, <1>9, <1>10, <1>11 DEF Next, Task, Host, Packets

\* "Clear the application section of flash", "Memory has been erased": after the erase the
\* section is blank, unless a download was broken off before it.  Where one was, the run
\* dfu_stale finds the contrary.
THEOREM EraseIsBlank == Spec /\ [][~AbandonProgram]_vars => EraseLeavesBlank
<1>1. Init => Unfilled
  BY DEF Init, Unfilled, AtErase
<1>2. Unfilled /\ [Next]_vars /\ [~AbandonProgram]_vars => Unfilled'
  <2>1. CASE UNCHANGED vars
    BY <2>1 DEF vars, Unfilled
  <2> QED
    BY <2>1, UnfilledStep
<1>3. Spec /\ [][~AbandonProgram]_vars => []Unfilled
  BY <1>1, <1>2, PTL DEF Spec
<1>4. Unfilled /\ [ pc = "erase" /\ pc' = "task" /\ clean =>
                      \A a \in 0..(BOOT_START_ADDR - 1) : flash[a] = Erased ]_vars
        => [ pc = "erase" /\ pc' = "task" =>
               \A a \in 0..(BOOT_START_ADDR - 1) : flash[a] = Erased ]_vars
  BY DEF Unfilled, AtErase
<1>5. Spec => EraseOfCleanLeavesBlank
  BY EraseFromClean
<1> QED
  BY <1>3, <1>4, <1>5, PTL DEF EraseOfCleanLeavesBlank, EraseLeavesBlank

-----------------------------------------------------------------------------
(* The packets of a download, counted on both sides of the bus. *)

\* The handler waits for a packet.
Waits == /\ pc \in Receiving /\ ~outReceived
         /\ (IF pc \in Discarding THEN NumberOfBytes ELSE remaining) > 0

\* Whatever the block, the host has at least as much to send as the handler will count.
Enough ==
  /\ pc = "filler" => toCome + outBytes >= NumberOfBytes + Alignment(StartAddr) + BytesRemaining
                                             + DFU_FILE_SUFFIX_SIZE
  /\ pc = "align" => toCome + outBytes >= NumberOfBytes + BytesRemaining + DFU_FILE_SUFFIX_SIZE
  /\ pc \in Programming => toCome + outBytes >= 2 * remaining + DFU_FILE_SUFFIX_SIZE
  /\ pc = "eeprom" => toCome + outBytes >= remaining + DFU_FILE_SUFFIX_SIZE
  /\ pc = "suffix" => toCome + outBytes >= NumberOfBytes

LEMMA SuffixSteps == [Next]_vars /\ pc' = "suffix" => Packets \/ EndProgram \/ EndEeprom
<1> SUFFICES ASSUME [Next]_vars, pc' = "suffix" PROVE Packets \/ EndProgram \/ EndEeprom
  OBVIOUS
<1>1. ~Request /\ ~Command
  BY DEF Request, DnloadNothing, DnloadData, UploadResponse, BeginUpload, GetStatusOrState, ClearStatus,
         Abort, Serving, Command, RejectCommand, ProcessReadCommand, BeginProgramFlash,
         BeginProgramEeprom, BeginProgram, ProcessMemReadCommand, BlankCheck, StartByWatchdog,
         StartByJump, BeginErase
<1>2. ~WatchdogBites /\ ~OtherReset /\ ~HostAcknowledges
  BY DEF WatchdogBites, OtherReset, Reset, HostAcknowledges, Return
<1>3. Task => ClearEmptyBank \/ DiscardByte \/ ClearFullBank \/ EndProgram \/ EndEeprom
  <2>1. ~(StartApplication \/ SetupHardware \/ LeaveLoop \/ ResetHardware \/ NoCommand \/ EraseNextPage
          \/ WriteErasedPage \/ EndErase)
    BY DEF StartApplication, SetupHardware, LeaveLoop, ResetHardware, NoCommand, EraseNextPage,
           WriteErasedPage, EndErase, Return
  <2>2. ~(EndFiller \/ EndAlign \/ ProgramWord \/ CommitPage \/ EraseNextProgramPage
          \/ WriteEepromByte \/ AbandonProgram \/ EndDnload)
    BY DEF EndFiller, EndAlign, ProgramWord, CommitPage, EraseNextProgramPage, WriteEepromByte,
           AbandonProgram, EndDnload, Return
  <2>3. ~(UploadWord \/ UploadEepromByte \/ AbandonUpload \/ EndUpload \/ NoStatusStage)
    BY DEF UploadWord, UploadEepromByte, AbandonUpload, EndUpload, NoStatusStage, Return, Sending
  <2> QED
    BY <2>1, <2>2, <2>3 DEF Task
<1> QED
  BY <1>1, <1>2, <1>3 DEF Next, Host, Packets

\* A packet on its way takes nothing from the bytes to come but what is counted.
LEMMA PacketsSupply ==
  ASSUME IInv, Banked, Packets, ~BusReset
  PROVE  /\ pc \in Discarding => toCome' + outBytes' >= toCome + outBytes + (NumberOfBytes' - NumberOfBytes)
         /\ pc \notin Discarding => toCome' + outBytes' = toCome + outBytes
<1>a. /\ toCome \in Nat /\ outBytes \in Nat /\ NumberOfBytes \in Nat
      /\ FIXED_CONTROL_ENDPOINT_SIZE \in Nat
  BY PacketRange DEF IInv, Typing, Ranges, UsbTyping, BlockTyping
<1>1. CASE UNCHANGED <<toCome, outBytes, NumberOfBytes>>
  BY <1>a, <1>1
<1>2. Unplug \/ Resume \/ HostFetches \/ ClearEmptyBank \/ ClearFullBank \/ UNCHANGED vars
        => UNCHANGED <<toCome, outBytes, NumberOfBytes>>
  BY DEF Unplug, Resume, HostFetches, ClearEmptyBank, ClearFullBank, vars
<1>3. CASE HostSends
  <2>1. /\ outBytes = 0 /\ outBytes' = Smaller(FIXED_CONTROL_ENDPOINT_SIZE, toCome)
        /\ toCome' = toCome - outBytes'
        /\ pc \in Discarding => NumberOfBytes' = NumberOfBytes - 1
    BY <1>3 DEF HostSends, Banked
  <2>2. outBytes' \in Nat
    BY <1>a, <2>1 DEF Smaller
  <2>3. toCome' + outBytes' = toCome + outBytes
    BY <1>a, <2>1, <2>2
  <2> QED
    BY <1>a, <2>1, <2>3
<1>4. CASE DiscardByte
  <2>1. /\ pc \in Discarding /\ NumberOfBytes' = NumberOfBytes - 1 /\ outBytes' = outBytes - 1
        /\ toCome' = toCome
    BY <1>4 DEF DiscardByte
  <2> QED
    BY <1>a, <2>1
<1> QED
  BY <1>1, <1>2, <1>3, <1>4 DEF Packets, Bus

LEMMA EnoughStep == IInv /\ IInv' /\ Banked /\ Enough /\ [Next]_vars /\ ~BusReset => Enough'
<1> SUFFICES ASSUME IInv, IInv', Banked, Enough, [Next]_vars, ~BusReset PROVE Enough'
  OBVIOUS
<1>a. /\ toCome \in Nat /\ outBytes \in Nat /\ NumberOfBytes \in Nat /\ remaining \in Nat
      /\ StartAddr \in Nat /\ EndAddr \in Nat /\ DFU_FILE_SUFFIX_SIZE \in Nat
      /\ Alignment(StartAddr) \in Nat
  BY PacketRange, AlignmentType DEF IInv, Typing, Ranges, UsbTyping, BlockTyping
<1>1. CASE Packets
  <2>1. /\ pc \in Discarding => toCome' + outBytes' >= toCome + outBytes + (NumberOfBytes' - NumberOfBytes)
        /\ pc \notin Discarding => toCome' + outBytes' = toCome + outBytes
    BY <1>1, PacketsSupply
  <2>2. UNCHANGED <<pc, remaining, StartAddr, EndAddr>>
    BY <1>1, PacketsKeep
  <2>0. toCome' \in Nat /\ outBytes' \in Nat /\ NumberOfBytes' \in Nat
    BY PacketRange DEF IInv, Typing, Ranges, UsbTyping, BlockTyping
  <2>3. PICK come \in Nat, held \in Nat, count \in Nat :
          toCome' = come /\ outBytes' = held /\ NumberOfBytes' = count
    BY <2>0
  <2>4. (BytesRemaining)' = BytesRemaining /\ BytesRemaining \in Int
    BY <1>a, <2>2 DEF BytesRemaining
  <2>5. CASE pc \in Discarding
    <3>0. come + held >= toCome + outBytes + (count - NumberOfBytes)
      BY <2>1, <2>3, <2>5
    <3>a. Alignment(StartAddr)' = Alignment(StartAddr)
      BY <2>2 DEF Alignment
    <3>1. CASE pc = "filler"
      <4>1. toCome + outBytes >= NumberOfBytes + Alignment(StartAddr) + BytesRemaining
                                   + DFU_FILE_SUFFIX_SIZE
        BY <3>1 DEF Enough
      <4>2. come + held >= count + Alignment(StartAddr) + BytesRemaining + DFU_FILE_SUFFIX_SIZE
        BY <1>a, <2>4, <3>0, <4>1
      <4> QED
        BY <2>2, <2>3, <2>4, <3>a, <3>1, <4>2 DEF Enough, Programming
    <3>2. CASE pc = "align"
      <4>1. toCome + outBytes >= NumberOfBytes + BytesRemaining + DFU_FILE_SUFFIX_SIZE
        BY <3>2 DEF Enough
      <4>2. come + held >= count + BytesRemaining + DFU_FILE_SUFFIX_SIZE
        BY <1>a, <2>4, <3>0, <4>1
      <4> QED
        BY <2>2, <2>3, <2>4, <3>2, <4>2 DEF Enough, Programming
    <3>3. CASE pc = "suffix"
      <4>1. toCome + outBytes >= NumberOfBytes
        BY <3>3 DEF Enough
      <4>2. come + held >= count
        BY <1>a, <3>0, <4>1
      <4> QED
        BY <2>2, <2>3, <3>3, <4>2 DEF Enough, Programming
    <3> QED
      BY <2>5, <3>1, <3>2, <3>3 DEF Discarding
  <2>6. CASE pc \notin Discarding
    BY <2>1, <2>2, <2>6 DEF Enough, Discarding
  <2> QED
    BY <2>5, <2>6
<1>2. ASSUME NEW command \in ProgCommands, NEW b \in FlashBlocks \cup EepromBlocks, BeginProgram(command, b)
      PROVE  Enough'
  <2>1. b[1] \in Nat /\ b[2] \in Nat /\ Alignment(b[1]) \in Nat
    BY FlashBlockType, EepromBlockType, AlignmentType
  <2>2. /\ pc' = "filler" /\ outBytes' = DFU_FILLER_BYTES_SIZE /\ NumberOfBytes' = DFU_FILLER_BYTES_SIZE
        /\ toCome' = Length(b) - FIXED_CONTROL_ENDPOINT_SIZE
        /\ StartAddr' = b[1] /\ EndAddr' = b[2]
    BY <1>2 DEF BeginProgram, LoadStartEndAddresses
  <2>3. DFU_FILLER_BYTES_SIZE \in Nat /\ FIXED_CONTROL_ENDPOINT_SIZE \in Nat
    BY PacketRange
  <2>4. toCome' = Alignment(b[1]) + ((b[2] - b[1]) + 1) + DFU_FILE_SUFFIX_SIZE
    BY <1>a, <2>1, <2>2, <2>3 DEF Length
  <2>5. Alignment(StartAddr)' = Alignment(b[1]) /\ (BytesRemaining)' = (b[2] - b[1]) + 1
    BY <2>2 DEF Alignment, BytesRemaining
  <2>6. toCome' + outBytes' >= NumberOfBytes' + Alignment(StartAddr)' + (BytesRemaining)'
                                 + DFU_FILE_SUFFIX_SIZE
    BY <1>a, <2>1, <2>2, <2>3, <2>4, <2>5
  <2> QED
    BY <2>2, <2>6 DEF Enough, Programming
<1>3. CASE EndFiller
  <2>1. /\ pc = "filler" /\ pc' = "align" /\ NumberOfBytes' = Alignment(StartAddr)
        /\ UNCHANGED <<outBytes, toCome, StartAddr, EndAddr>>
    BY <1>3 DEF EndFiller
  <2>2. toCome + outBytes >= Alignment(StartAddr) + BytesRemaining + DFU_FILE_SUFFIX_SIZE
    BY <1>a, <2>1 DEF Enough, BytesRemaining
  <2>3. (BytesRemaining)' = BytesRemaining
    BY <2>1 DEF BytesRemaining
  <2> QED
    BY <2>1, <2>2, <2>3 DEF Enough, Programming
<1>4. CASE EndAlign
  <2>1. /\ pc = "align" /\ UNCHANGED <<outBytes, toCome>>
        /\ \/ pc' = "program" /\ remaining' = BytesRemaining \div 2
           \/ pc' = "eeprom" /\ remaining' = BytesRemaining
    BY <1>4 DEF EndAlign
  <2>2. toCome + outBytes >= BytesRemaining + DFU_FILE_SUFFIX_SIZE
    BY <1>a, <2>1 DEF Enough, BytesRemaining
  <2>3. BytesRemaining \in Int /\ 2 * (BytesRemaining \div 2) <= BytesRemaining
        /\ BytesRemaining \div 2 \in Int
    BY <1>a DEF BytesRemaining
  <2>4. CASE pc' = "program" /\ remaining' = BytesRemaining \div 2
    <3>1. toCome' + outBytes' >= 2 * remaining' + DFU_FILE_SUFFIX_SIZE
      BY <1>a, <2>1, <2>2, <2>3, <2>4
    <3> QED
      BY <2>4, <3>1 DEF Enough, Programming
  <2>5. CASE pc' = "eeprom" /\ remaining' = BytesRemaining
    BY <2>1, <2>2, <2>5 DEF Enough, Programming
  <2> QED
    BY <2>1, <2>4, <2>5
<1>5. CASE ProgramWord
  <2>1. /\ pc = "program" /\ pc' \in {"program", "commit"} /\ remaining > 0 /\ outBytes > 0
        /\ outBytes' = (IF outBytes > 1 THEN outBytes - 2 ELSE 0)
        /\ remaining' = remaining - 1 /\ toCome' = toCome
    BY <1>5 DEF ProgramWord
  <2>2. toCome + outBytes >= 2 * remaining + DFU_FILE_SUFFIX_SIZE
    BY <2>1 DEF Enough, Programming
  <2>3. toCome' + outBytes' >= 2 * remaining' + DFU_FILE_SUFFIX_SIZE
    BY <1>a, <2>1, <2>2
  <2> QED
    BY <2>1, <2>3 DEF Enough, Programming
<1>6. CASE CommitPage \/ EraseNextProgramPage
  <2>1. /\ pc \in Programming /\ pc' \in Programming /\ UNCHANGED <<outBytes, toCome, remaining>>
    BY <1>6 DEF CommitPage, EraseNextProgramPage, Programming
  <2> QED
    BY <2>1 DEF Enough, Programming
<1>7. CASE WriteEepromByte
  <2>1. /\ pc = "eeprom" /\ pc' = "eeprom" /\ outBytes > 0 /\ remaining > 0
        /\ outBytes' = outBytes - 1 /\ remaining' = remaining - 1 /\ toCome' = toCome
    BY <1>7 DEF WriteEepromByte
  <2>2. toCome' + outBytes' >= remaining' + DFU_FILE_SUFFIX_SIZE
    BY <1>a, <2>1 DEF Enough
  <2> QED
    BY <2>1, <2>2 DEF Enough, Programming
<1>8. CASE EndProgram \/ EndEeprom
  <2>1. /\ pc \in Programming \cup {"eeprom"} /\ pc' = "suffix" /\ remaining = 0
        /\ NumberOfBytes' = DFU_FILE_SUFFIX_SIZE /\ UNCHANGED <<outBytes, toCome>>
    BY <1>8 DEF EndProgram, EndEeprom, Programming
  <2>2. toCome + outBytes >= DFU_FILE_SUFFIX_SIZE
    BY <1>a, <2>1 DEF Enough
  <2> QED
    BY <2>1, <2>2 DEF Enough, Programming
<1>9. CASE Apart /\ pc' # "suffix"
  BY <1>9 DEF Apart, Enough, Discards, Programming
<1>10. CASE pc' = "suffix"
  BY <1>1, <1>8, <1>10, SuffixSteps
<1>11. (\E b \in FlashBlocks : BeginProgramFlash(b)) \/ (\E b \in EepromBlocks : BeginProgramEeprom(b))
         => Enough'
  BY <1>2 DEF BeginProgramFlash, BeginProgramEeprom, ProgCommands
<1> QED
  BY <1>1, <1>3, <1>4, <1>5, <1>6, <1>7, <1>9, <1>10, <1>11, DownloadSteps

\* In a download the handler waits for a packet only while the host still has one to send,
\* for every block, aligned or not, of words or not, and wherever the cable is pulled and
\* plugged again.  A bus reset ends the host's transfer and not the handler's loop.
NeverStarves == Waits => toCome > 0

THEOREM PacketsAreEnough == Spec /\ [][~BusReset]_vars => []NeverStarves
<1>1. Init => Banked /\ Enough
  BY DEF Init, Banked, Enough, Programming
<1>2. IInv /\ IInv' /\ Banked /\ Enough /\ [Next]_vars /\ [~BusReset]_vars => (Banked /\ Enough)'
  <2>1. CASE UNCHANGED vars
    BY <2>1 DEF vars, Banked, Enough, BytesRemaining, Alignment
  <2> QED
    BY <2>1, BankStep, EnoughStep
<1>3. IInv /\ Banked /\ Enough => NeverStarves
  <2> SUFFICES ASSUME IInv, Banked, Enough, Waits PROVE toCome > 0
    BY DEF NeverStarves
  <2>a. /\ toCome \in Nat /\ NumberOfBytes \in Nat /\ remaining \in Nat
        /\ StartAddr \in Nat /\ EndAddr \in Nat /\ DFU_FILE_SUFFIX_SIZE \in Nat
        /\ Alignment(StartAddr) \in Nat
    BY PacketRange, AlignmentType DEF IInv, Typing, Ranges, UsbTyping, BlockTyping
  <2>b. outBytes = 0
    BY DEF Waits, Banked
  <2>1. CASE pc \in {"filler", "align"}
    <3>1. StartAddr <= EndAddr /\ NumberOfBytes > 0
      BY <2>1 DEF IInv, InOrder, Waits, Discarding
    <3>2. \/ toCome >= NumberOfBytes + Alignment(StartAddr) + ((EndAddr - StartAddr) + 1)
                         + DFU_FILE_SUFFIX_SIZE
          \/ toCome >= NumberOfBytes + ((EndAddr - StartAddr) + 1) + DFU_FILE_SUFFIX_SIZE
      BY <2>a, <2>b, <2>1 DEF Enough, BytesRemaining
    <3> QED
      BY <2>a, <3>1, <3>2
  <2>2. CASE pc = "program"
    BY <2>a, <2>b, <2>2 DEF Waits, Discarding, Enough, Programming
  <2>3. CASE pc = "eeprom"
    BY <2>a, <2>b, <2>3 DEF Waits, Discarding, Enough
  <2>4. CASE pc = "suffix"
    BY <2>a, <2>b, <2>4 DEF Waits, Discarding, Enough
  <2> QED
    BY <2>1, <2>2, <2>3, <2>4 DEF Waits, Receiving
<1> QED
  BY <1>1, <1>2, <1>3, Invariance, PTL DEF Spec

-----------------------------------------------------------------------------
\* Whatever the host sends and wherever the power goes, the bootloader's own pages stay as
\* they are: what holds of the abstract memory holds of the DFU bootloader.
OwnPagesStay ==
  [][ \A a \in FlashAddresses : a >= BOOT_START_ADDR => flash'[a] = flash[a] ]_vars

THEOREM BootloaderSurvives == Spec => OwnPagesStay
<1>1. ASSUME IInv, [Next]_vars, NEW c \in FlashAddresses, c >= BOOT_START_ADDR
      PROVE  flash'[c] = flash[c]
  <2>a. flash \in Sound /\ pageBuffer \in Buffers /\ c \in Nat
    BY <1>1, AddressIsNat DEF IInv, FlashInv, Typing, Ranges, MemoryTyping
  <2>1. CASE UNCHANGED flash
    BY <2>1
  <2>2. ASSUME NEW a \in Nat, a < BOOT_START_ADDR,
               \/ flash' = ErasePage(flash, PageOf(a))
               \/ flash' = WritePage(flash, pageBuffer, PageOf(a)) /\ Blank(flash, PageOf(a))
        PROVE  flash'[c] = flash[c]
    <3>1. PageOf(c) # PageOf(a)
      BY <1>1, <2>a, <2>2, AppPage, BootStart
    <3> QED
      BY <2>a, <2>2, <3>1, Erasing, WritesItsPage
  <2> QED
    BY <1>1, <2>1, <2>2, FlashChanges
<1>2. IInv /\ [Next]_vars =>
        [ \A a \in FlashAddresses : a >= BOOT_START_ADDR => flash'[a] = flash[a] ]_vars
  BY <1>1
<1> QED
  BY <1>2, Invariance, PTL DEF Spec, OwnPagesStay

-----------------------------------------------------------------------------
(* Which pages a download changes. *)

\* Where a flash block has got to, aligned or not, lies within it.
Located ==
  /\ pc \in Discards => first = StartAddr
  /\ pc \in Programming =>
       /\ first <= CurrFlashPageStartAddress /\ CurrFlashPageStartAddress <= CurrFlashAddress
       /\ CurrFlashAddress + 2 * remaining <= EndAddr + 1
  /\ pc = "commit" => CurrFlashPageStartAddress < CurrFlashAddress

LEMMA LocatedStep == IInv /\ Located /\ [Next]_vars => Located'
<1> SUFFICES ASSUME IInv, Located, [Next]_vars PROVE Located'
  OBVIOUS
<1>a. /\ remaining \in Nat /\ CurrFlashAddress \in Nat /\ CurrFlashPageStartAddress \in Nat
      /\ StartAddr \in Nat /\ EndAddr \in Nat /\ first \in Nat
  BY DEF IInv, Typing, Ranges, BlockTyping
<1>1. CASE Packets
  BY <1>1, PacketsKeep DEF Located
<1>2. CASE Apart
  BY <1>2 DEF Apart, Located, Programming
<1>3. ASSUME NEW command \in ProgCommands, NEW b, BeginProgram(command, b) PROVE Located'
  <2>1. pc' = "filler" /\ first' = b[1] /\ StartAddr' = b[1]
    BY <1>3 DEF BeginProgram, LoadStartEndAddresses
  <2> QED
    BY <2>1 DEF Located, Programming
<1>4. CASE EndFiller
  BY <1>4 DEF EndFiller, Located, Discards, Programming
<1>5. CASE EndAlign
  <2>1. /\ pc = "align" /\ UNCHANGED <<StartAddr, EndAddr, first>>
        /\ \/ /\ pc' = "program" /\ remaining' = BytesRemaining \div 2
              /\ CurrFlashAddress' = StartAddr /\ CurrFlashPageStartAddress' = StartAddr
           \/ pc' = "eeprom"
    BY <1>5 DEF EndAlign
  <2>2. StartAddr <= EndAddr /\ first = StartAddr
    BY <2>1 DEF IInv, InOrder, Located, Discards
  <2>3. StartAddr + 2 * (((EndAddr - StartAddr) + 1) \div 2) <= EndAddr + 1
    BY <1>a, <2>2
  <2>4. CASE pc' = "eeprom"
    BY <2>4 DEF Located, Discards, Programming
  <2>5. CASE /\ pc' = "program" /\ remaining' = BytesRemaining \div 2
             /\ CurrFlashAddress' = StartAddr /\ CurrFlashPageStartAddress' = StartAddr
    BY <1>a, <2>1, <2>2, <2>3, <2>5 DEF Located, Discards, BytesRemaining
  <2> QED
    BY <2>1, <2>4, <2>5
<1>6. CASE ProgramWord
  <2>1. /\ pc \in Programming /\ pc' \in {"program", "commit"} /\ remaining > 0
        /\ remaining' = remaining - 1 /\ CurrFlashAddress' = CurrFlashAddress + 2
        /\ UNCHANGED <<CurrFlashPageStartAddress, EndAddr, first>>
    BY <1>6 DEF ProgramWord, Programming
  <2>2. /\ first <= CurrFlashPageStartAddress /\ CurrFlashPageStartAddress <= CurrFlashAddress
        /\ CurrFlashAddress + 2 * remaining <= EndAddr + 1
    BY <2>1 DEF Located
  <2>3. CurrFlashPageStartAddress < CurrFlashAddress + 2
        /\ (CurrFlashAddress + 2) + 2 * (remaining - 1) <= EndAddr + 1
    BY <1>a, <2>2
  <2> QED
    BY <1>a, <2>1, <2>2, <2>3 DEF Located, Discards
<1>7. CASE CommitPage
  <2>1. /\ pc \in Programming /\ pc' \in {"program", "eraseNext"}
        /\ CurrFlashPageStartAddress' \in {CurrFlashPageStartAddress, CurrFlashAddress}
        /\ UNCHANGED <<remaining, CurrFlashAddress, EndAddr, first>>
    BY <1>7 DEF CommitPage, Programming
  <2>2. /\ first <= CurrFlashPageStartAddress /\ CurrFlashPageStartAddress <= CurrFlashAddress
        /\ CurrFlashAddress + 2 * remaining <= EndAddr + 1
    BY <2>1 DEF Located
  <2> QED
    BY <1>a, <2>1, <2>2 DEF Located, Discards
<1>8. CASE EraseNextProgramPage
  BY <1>8 DEF EraseNextProgramPage, Located, Programming, Discards
<1>9. CASE WriteEepromByte
  BY <1>9 DEF WriteEepromByte, Located, Programming, Discards
<1>10. (\E b \in FlashBlocks : BeginProgramFlash(b)) \/ (\E b \in EepromBlocks : BeginProgramEeprom(b))
         => Located'
  BY <1>3 DEF BeginProgramFlash, BeginProgramEeprom, ProgCommands
<1> QED
  BY <1>1, <1>2, <1>4, <1>5, <1>6, <1>7, <1>8, <1>9, <1>10, DownloadSteps

\* Which steps of a download change the flash.
LEMMA FlashInDownload ==
  [Next]_vars /\ pc \in Downloading => CommitPage \/ EraseNextProgramPage \/ UNCHANGED flash
<1> SUFFICES ASSUME [Next]_vars, pc \in Downloading
             PROVE  CommitPage \/ EraseNextProgramPage \/ UNCHANGED flash
  OBVIOUS
<1>1. ~Command /\ ~EraseNextPage /\ ~WriteErasedPage
  BY DEF Command, RejectCommand, ProcessReadCommand, BeginProgramFlash, BeginProgramEeprom, BeginProgram,
         ProcessMemReadCommand, BlankCheck, StartByWatchdog, StartByJump, BeginErase, Receive,
         EraseNextPage, WriteErasedPage, Downloading
<1>2. Request \/ WatchdogBites \/ OtherReset \/ HostAcknowledges => UNCHANGED flash
  BY DEF Request, DnloadNothing, DnloadData, UploadResponse, BeginUpload, GetStatusOrState, ClearStatus,
         Abort, WatchdogBites, OtherReset, Reset, HostAcknowledges
<1>3. \/ StartApplication \/ SetupHardware \/ LeaveLoop \/ ResetHardware \/ NoCommand \/ EndErase
      \/ EndFiller \/ EndAlign \/ ProgramWord \/ EndProgram
      => UNCHANGED flash
  BY DEF StartApplication, SetupHardware, LeaveLoop, ResetHardware, NoCommand, EndErase, EndFiller,
         EndAlign, ProgramWord, EndProgram
<1>4. \/ WriteEepromByte \/ EndEeprom \/ AbandonProgram \/ EndDnload
      \/ UploadWord \/ UploadEepromByte \/ AbandonUpload \/ EndUpload \/ NoStatusStage
      => UNCHANGED flash
  BY DEF WriteEepromByte, EndEeprom, AbandonProgram, EndDnload, UploadWord, UploadEepromByte,
         AbandonUpload, EndUpload, NoStatusStage
<1>5. Packets => UNCHANGED flash
  BY PacketsKeep
<1> QED
  BY <1>1, <1>2, <1>3, <1>4, <1>5 DEF Next, Task, Host, Packets

\* A program command erases the page its block begins on, and the download after it changes no
\* page but those the block lies on, however it is aligned and wherever it breaks off: the rest
\* of a sketch, and everything next to the block's pages, stays.
ChangesItsPages ==
  [][ /\ pc' = "filler" => \A a \in FlashAddresses : flash'[a] # flash[a] => PageOf(a) = PageOf(first')
      /\ pc \in Downloading =>
           \A a \in FlashAddresses :
             flash'[a] # flash[a] => PageOf(a) \in PageOf(first)..PageOf(EndAddr) ]_vars

THEOREM DownloadStaysOnItsPages == Spec => ChangesItsPages
<1> DEFINE Own ==
      /\ pc' = "filler" => \A a \in FlashAddresses : flash'[a] # flash[a] => PageOf(a) = PageOf(first')
      /\ pc \in Downloading =>
           \A a \in FlashAddresses :
             flash'[a] # flash[a] => PageOf(a) \in PageOf(first)..PageOf(EndAddr)
<1>1. Init => Located
  BY DEF Init, Located, Discards, Programming
<1>2. ASSUME IInv, Located, [Next]_vars PROVE Own
  <2>a. /\ flash \in Sound /\ remaining \in Nat /\ CurrFlashAddress \in Nat
        /\ CurrFlashPageStartAddress \in Nat /\ EndAddr \in Nat /\ first \in Nat
    BY <1>2 DEF IInv, FlashInv, Typing, Ranges, BlockTyping
  <2>1. ASSUME pc' = "filler", NEW a \in FlashAddresses, flash'[a] # flash[a]
        PROVE  PageOf(a) = PageOf(first')
    <3>1. Packets => flash' = flash
      BY PacketsKeep
    <3>2. ~Apart /\ ~EndFiller /\ ~EndAlign /\ ~ProgramWord /\ ~CommitPage /\ ~EraseNextProgramPage
          /\ ~WriteEepromByte
      BY <2>1 DEF Apart, Discards, EndFiller, EndAlign, ProgramWord, CommitPage, EraseNextProgramPage,
                  WriteEepromByte
    <3>3. (\E b \in EepromBlocks : BeginProgramEeprom(b)) => flash' = flash
      BY DEF BeginProgramEeprom
    <3>4. ASSUME NEW b \in FlashBlocks, BeginProgramFlash(b) PROVE PageOf(a) = PageOf(first')
      <4>1. flash' = ErasePage(flash, PageOf(b[1])) /\ first' = b[1]
        BY <3>4 DEF BeginProgramFlash, BeginProgram
      <4> QED
        BY <2>a, <2>1, <4>1, Erasing
    <3> QED
      BY <1>2, <2>1, <3>1, <3>2, <3>3, <3>4, DownloadSteps
  <2>2. ASSUME pc \in Downloading, NEW a \in FlashAddresses, flash'[a] # flash[a]
        PROVE  PageOf(a) \in PageOf(first)..PageOf(EndAddr)
    <3>1. CASE CommitPage
      <4>1. /\ pc = "commit" /\ pc \in Programming
            /\ flash' = WritePage(flash, pageBuffer, PageOf(CurrFlashPageStartAddress))
        BY <3>1 DEF CommitPage, Programming
      <4>2. first <= CurrFlashPageStartAddress /\ CurrFlashPageStartAddress <= EndAddr
        BY <1>2, <2>a, <4>1 DEF Located
      <4>3. PageOf(a) = PageOf(CurrFlashPageStartAddress)
        BY <2>a, <2>2, <4>1, WritesItsPage
      <4> QED
        BY <2>a, <4>2, <4>3, PagesInOrder
    <3>2. CASE EraseNextProgramPage
      <4>1. /\ pc = "eraseNext" /\ pc \in Programming /\ remaining > 0
            /\ flash' = ErasePage(flash, PageOf(CurrFlashAddress))
        BY <1>2, <3>2 DEF EraseNextProgramPage, Programming, IInv, FlashInv, ToErase
      <4>2. first <= CurrFlashAddress /\ CurrFlashAddress <= EndAddr
        BY <1>2, <2>a, <4>1 DEF Located
      <4>3. PageOf(a) = PageOf(CurrFlashAddress)
        BY <2>a, <2>2, <4>1, Erasing
      <4> QED
        BY <2>a, <4>2, <4>3, PagesInOrder
    <3> QED
      BY <1>2, <2>2, <3>1, <3>2, FlashInDownload
  <2> QED
    BY <2>1, <2>2
<1>3. IInv /\ Located /\ [Next]_vars => [Own]_vars
  BY <1>2
<1> HIDE DEF Own
<1>4. Spec => [][Own]_vars
  BY <1>1, <1>3, LocatedStep, Invariance, PTL DEF Spec
<1> QED
  BY <1>4 DEF Own, ChangesItsPages
=============================================================================
