--------------------------------- MODULE Dfu ----------------------------------
(***************************************************************************)
(* The DFU bootloader: start up with the forced start key, main(), and     *)
(* EVENT_USB_Device_ControlRequest() serving one request at a time: a      *)
(* command and, in the same DNLOAD, the firmware after it; the answers; and *)
(* the flash and EEPROM it changes.  The connection may go at any packet,  *)
(* the host may stop in any transfer and the chip be reset at any step.    *)
(*                                                                         *)
(* The host is one that keeps to the application section.  The byte it     *)
(* means for an address is called after that address, counted from 1; the  *)
(* filler before it, the suffix after it and bytes that are not there are  *)
(* called 0, the sketch and the bootloader in the flash Old.               *)
(***************************************************************************)
EXTENDS SpmFlash

CONSTANTS FIXED_CONTROL_ENDPOINT_SIZE,  \* bytes in a packet: 32
          CommandSize,                  \* sizeof Command and Data: 6
          DFU_FILLER_BYTES_SIZE,        \* 26
          DFU_FILE_SUFFIX_SIZE,         \* 16
          SECURE_MODE,                  \* AppConfig.h: false
          EepromSize,                   \* bytes of EEPROM: 512
          FlashBlocks,                  \* <<first, last>> the host programs or reads
          EepromBlocks

ASSUME EndpointAssumption ==
  /\ CommandSize \in Nat \ {0} /\ DFU_FILLER_BYTES_SIZE \in Nat
  /\ FIXED_CONTROL_ENDPOINT_SIZE = CommandSize + DFU_FILLER_BYTES_SIZE
  /\ FIXED_CONTROL_ENDPOINT_SIZE % 2 = 0
  /\ DFU_FILE_SUFFIX_SIZE \in Nat /\ SECURE_MODE \in BOOLEAN /\ EepromSize \in Nat \ {0}
ASSUME BlocksAssumption ==
  /\ \A b \in FlashBlocks :
       /\ b \in Nat \X Nat /\ b[1] <= b[2] /\ b[2] < BOOT_START_ADDR /\ b[1] % 2 = 0
  /\ \A b \in EepromBlocks : b \in Nat \X Nat /\ b[1] <= b[2] /\ b[2] < EepromSize

VARIABLES
  pc,                       \* "task": main() between two requests
  attached,                 \* USB_DeviceState is not Unattached
  outReceived, outBytes,    \* the OUT packet in the control endpoint
  toCome,                   \* bytes of this DNLOAD the host has still to send
  at,                       \* the address the host means the next byte of the stream for
  inReady, inBytes,         \* the IN packet
  NumberOfBytes,            \* to discard
  remaining,                \* WordsRemaining or BytesRemaining
  CurrFlashAddress, CurrFlashPageStartAddress, WordsInFlashPage,
  StartAddr, EndAddr,
  SentCommand, DFU_State, DFU_Status, IsSecure,
  RunBootloader, WaitForExit, AppStartPtr,
  MagicBootKey,             \* holds MAGIC_BOOT_KEY
  watchdog,                 \* running
  WDRF,
  flash, pageBuffer, eeprom,
  first,                    \* history: StartAddr of this command
  clean                     \* history: the page buffer was empty when it began

usb     == <<attached, outReceived, outBytes, toCome, at, inReady, inBytes>>
discard == NumberOfBytes
block   == <<remaining, CurrFlashAddress, CurrFlashPageStartAddress, WordsInFlashPage>>
range   == <<StartAddr, EndAddr>>
dfu     == <<DFU_State, DFU_Status>>
exit    == <<RunBootloader, WaitForExit, AppStartPtr, MagicBootKey, watchdog, WDRF>>
memory  == <<flash, pageBuffer, eeprom>>
hist    == <<first, clean>>
vars == <<pc, usb, discard, block, range, SentCommand, dfu, IsSecure, exit, memory, hist>>

Old == 2 * BOOT_START_ADDR + 1
EepromAddresses == 0..(EepromSize - 1)

DFU_State_t  == {"dfuIDLE", "dfuDNLOAD_IDLE", "dfuUPLOAD_IDLE", "dfuERROR"}
DFU_Status_t == {"OK", "errWRITE", "errCHECK_ERASED"}
ProgCommands == {"progFlash", "progEeprom"}
DispCommands == {"dispFlash", "blankCheck", "dispEeprom"}
WriteCommands == {"erase", "startJump", "startWatchdog"}
ReadCommands == {"readInfo", "readSignature"}
Commands == ProgCommands \cup DispCommands \cup WriteCommands \cup ReadCommands

\* SentCommand.Data[0], which later requests look at again.
Data0(command) == IF command \in {"progFlash", "dispFlash", "erase", "readInfo"} THEN 0
                  ELSE IF command \in {"progEeprom", "blankCheck", "readSignature"} THEN 1
                  ELSE IF command = "dispEeprom" THEN 2 ELSE 3

Receiving == {"filler", "align", "program", "eeprom", "suffix"}
Sending   == {"uploadFlash", "uploadEeprom"}
Handler   == Receiving \cup Sending \cup
             {"command", "erase", "eraseWrite", "commit", "eraseNext", "statusOut"}

TypeOK ==
  /\ pc \in {"start", "task", "exit", "application"} \cup Handler
  /\ attached \in BOOLEAN /\ outReceived \in BOOLEAN
  /\ outBytes \in 0..FIXED_CONTROL_ENDPOINT_SIZE /\ toCome \in Nat /\ at \in Int
  /\ inReady \in BOOLEAN /\ inBytes \in 0..FIXED_CONTROL_ENDPOINT_SIZE
  /\ NumberOfBytes \in Nat /\ remaining \in Nat
  /\ CurrFlashAddress \in Nat /\ CurrFlashPageStartAddress \in Nat
  /\ WordsInFlashPage \in 0..(SPM_PAGESIZE \div 2)
  /\ StartAddr \in Nat /\ EndAddr \in Nat
  /\ SentCommand \in Commands \cup {"none"}
  /\ DFU_State \in DFU_State_t /\ DFU_Status \in DFU_Status_t
  /\ {IsSecure, RunBootloader, WaitForExit, MagicBootKey, watchdog, WDRF} \subseteq BOOLEAN
  /\ AppStartPtr \in {"reset vector", "given"}
  /\ flash \in [FlashAddresses -> Contents]
  /\ pageBuffer \in [Offsets -> Nat \cup {Erased}]
  /\ eeprom \in [EepromAddresses -> Nat]
  /\ first \in Nat /\ clean \in BOOLEAN

\* At power-on the key, which nothing initialises, is what the RAM holds.
Init ==
  /\ pc = "start" /\ attached = TRUE
  /\ outReceived = FALSE /\ outBytes = 0 /\ toCome = 0 /\ at = 0
  /\ inReady = TRUE /\ inBytes = 0
  /\ NumberOfBytes = 0 /\ remaining = 0
  /\ CurrFlashAddress = 0 /\ CurrFlashPageStartAddress = 0 /\ WordsInFlashPage = 0
  /\ StartAddr = 0 /\ EndAddr = 0
  /\ SentCommand = "none" /\ DFU_State = "dfuIDLE" /\ DFU_Status = "OK"
  /\ IsSecure = SECURE_MODE
  /\ RunBootloader = TRUE /\ WaitForExit = FALSE /\ AppStartPtr = "reset vector"
  /\ watchdog = FALSE /\ pageBuffer = EmptyBuffer
  /\ first = 0 /\ clean = TRUE
  /\ MagicBootKey \in BOOLEAN /\ WDRF = FALSE
  /\ flash = [a \in FlashAddresses |-> Old]
  /\ eeprom = [a \in EepromAddresses |-> 0]

-----------------------------------------------------------------------------
(* Resets, and Application_Jump_Check() with main() after it. *)

\* Power-on, the reset line or the watchdog; the last leaves WDRF set.  RAM that is
\* initialised is as it was, the key is what the RAM holds.
Reset(cause) ==
  /\ pc' = "start" /\ attached' = TRUE
  /\ outReceived' = FALSE /\ outBytes' = 0 /\ toCome' = 0 /\ at' = 0
  /\ inReady' = TRUE /\ inBytes' = 0
  /\ NumberOfBytes' = 0 /\ remaining' = 0
  /\ CurrFlashAddress' = 0 /\ CurrFlashPageStartAddress' = 0 /\ WordsInFlashPage' = 0
  /\ StartAddr' = 0 /\ EndAddr' = 0
  /\ SentCommand' = "none" /\ DFU_State' = "dfuIDLE" /\ DFU_Status' = "OK"
  /\ IsSecure' = SECURE_MODE
  /\ RunBootloader' = TRUE /\ WaitForExit' = FALSE /\ AppStartPtr' = "reset vector"
  /\ watchdog' = FALSE /\ pageBuffer' = EmptyBuffer
  /\ first' = 0 /\ clean' = TRUE
  /\ WDRF' = (cause = "watchdog" \/ (cause = "line" /\ WDRF))
  /\ IF cause = "power" \/ pc = "application" THEN MagicBootKey' \in BOOLEAN
                                              ELSE UNCHANGED MagicBootKey
  /\ UNCHANGED <<flash, eeprom>>

WatchdogBites == watchdog /\ Reset("watchdog")

OtherReset == Reset("power") \/ Reset("line")

StartApplication ==
  /\ pc = "start" /\ WDRF /\ MagicBootKey
  /\ pc' = "application"
  /\ WDRF' = FALSE /\ watchdog' = FALSE /\ MagicBootKey' = FALSE
  /\ UNCHANGED <<usb, discard, block, range, SentCommand, dfu, IsSecure, RunBootloader,
                 WaitForExit, AppStartPtr, memory, hist>>

SetupHardware ==
  /\ pc = "start" /\ ~(WDRF /\ MagicBootKey)
  /\ pc' = "task"
  /\ WDRF' = FALSE /\ watchdog' = FALSE
  /\ UNCHANGED <<usb, discard, block, range, SentCommand, dfu, IsSecure, RunBootloader,
                 WaitForExit, AppStartPtr, MagicBootKey, memory, hist>>

LeaveLoop ==
  /\ pc = "task" /\ ~RunBootloader /\ ~WaitForExit
  /\ pc' = "exit"
  /\ UNCHANGED <<usb, discard, block, range, SentCommand, dfu, IsSecure, exit, memory, hist>>

\* USB_Disable() and the jump through AppStartPtr.
ResetHardware ==
  /\ pc = "exit" /\ pc' = "application"
  /\ attached' = FALSE
  /\ UNCHANGED <<outReceived, outBytes, toCome, at, inReady, inBytes, discard, block, range,
                 SentCommand, dfu, IsSecure, exit, memory, hist>>

-----------------------------------------------------------------------------
(* The bus and the host. *)

Unplug ==
  /\ attached /\ pc \in {"task"} \cup Handler
  /\ attached' = FALSE
  /\ UNCHANGED <<pc, outReceived, outBytes, toCome, at, inReady, inBytes, discard, block,
                 range, SentCommand, dfu, IsSecure, exit, memory, hist>>

\* A resumed host may go on with its transfer.
Resume ==
  /\ ~attached /\ pc \in {"task"} \cup Handler
  /\ attached' = TRUE
  /\ UNCHANGED <<pc, outReceived, outBytes, toCome, at, inReady, inBytes, discard, block,
                 range, SentCommand, dfu, IsSecure, exit, memory, hist>>

\* The endpoint is configured anew, and the host has forgotten its transfer.
BusReset ==
  /\ pc \in {"task"} \cup Handler
  /\ attached' = TRUE /\ outReceived' = FALSE /\ outBytes' = 0 /\ toCome' = 0
  /\ inReady' = TRUE /\ inBytes' = 0
  /\ UNCHANGED <<pc, at, discard, block, range, SentCommand, dfu, IsSecure, exit, memory, hist>>

Smaller(m, n) == IF m < n THEN m ELSE n

\* The next packet of the transfer arrives and is noticed.  While filler bytes are
\* discarded, the turn of the loop that waited for it has used up one of them.
Discarding == {"filler", "align", "suffix"}

HostSends ==
  /\ attached /\ ~outReceived /\ toCome > 0 /\ pc \in Receiving
  /\ outReceived' = TRUE
  /\ outBytes' = Smaller(FIXED_CONTROL_ENDPOINT_SIZE, toCome)
  /\ toCome' = toCome - outBytes'
  /\ IF pc \in Discarding
     THEN NumberOfBytes > 0 /\ NumberOfBytes' = NumberOfBytes - 1
     ELSE remaining > 0 /\ UNCHANGED NumberOfBytes
  /\ UNCHANGED <<pc, attached, at, inReady, inBytes, block, range, SentCommand, dfu,
                 IsSecure, exit, memory, hist>>

HostFetches ==
  /\ attached /\ ~inReady /\ pc \in Sending
  /\ inReady' = TRUE /\ inBytes' = 0
  /\ UNCHANGED <<pc, attached, outReceived, outBytes, toCome, at, discard, block, range,
                 SentCommand, dfu, IsSecure, exit, memory, hist>>

\* The handler returns, and its locals and the transfer go with it.
Return ==
  /\ pc' = "task"
  /\ outReceived' = FALSE /\ outBytes' = 0 /\ toCome' = 0 /\ at' = 0
  /\ inReady' = TRUE /\ inBytes' = 0
  /\ NumberOfBytes' = 0 /\ remaining' = 0
  /\ CurrFlashAddress' = 0 /\ CurrFlashPageStartAddress' = 0 /\ WordsInFlashPage' = 0
  /\ first' = 0 /\ clean' = TRUE
  /\ UNCHANGED attached

HostAcknowledges ==
  /\ attached /\ pc = "statusOut" /\ Return
  /\ UNCHANGED <<range, SentCommand, dfu, IsSecure, exit, memory>>

-----------------------------------------------------------------------------
(* DFU_REQ_DNLOAD *)

Serving == pc = "task" /\ attached /\ (RunBootloader \/ WaitForExit)

\* A request while the bootloader waits to exit: the start command is processed
\* again, with the length of this request.
ProcessStartAgain(hasData) ==
  IF ~WaitForExit THEN UNCHANGED exit
  ELSE /\ WaitForExit' = FALSE
       /\ RunBootloader' = (RunBootloader /\ ~(SentCommand = "startJump" /\ ~hasData))
       /\ AppStartPtr' = IF SentCommand = "startJump" /\ hasData THEN "given" ELSE AppStartPtr
       /\ MagicBootKey' = (MagicBootKey \/ (SentCommand = "startWatchdog" /\ ~hasData))
       /\ watchdog' = (watchdog \/ (SentCommand = "startWatchdog" /\ ~hasData))
       /\ UNCHANGED WDRF

\* With nothing to download the state falls back to idle.
FallBack(state) == IF state = "dfuDNLOAD_IDLE" THEN "dfuIDLE" ELSE state

DnloadNothing ==
  /\ Serving
  /\ ProcessStartAgain(FALSE)
  /\ DFU_State' = FallBack(DFU_State)
  /\ UNCHANGED <<pc, usb, discard, block, range, SentCommand, DFU_Status, IsSecure, memory, hist>>

DnloadData ==
  /\ Serving /\ pc' = "command"
  /\ ProcessStartAgain(TRUE)
  /\ UNCHANGED <<usb, discard, block, range, SentCommand, dfu, IsSecure, memory, hist>>

NoCommand ==
  /\ pc = "command" /\ ~attached /\ pc' = "task"
  /\ UNCHANGED <<usb, discard, block, range, SentCommand, dfu, IsSecure, exit, memory, hist>>

\* The first packet arrives and holds the command.
Receive(command) == pc = "command" /\ attached /\ SentCommand' = command

\* Mutated: secure mode is not looked at.
AllowedAlways(command) == TRUE

Allowed(command) == ~IsSecure \/ command \in {"erase"} \cup ReadCommands

\* The stall ends the transfer, whatever was to follow.
RejectCommand(command) ==
  /\ Receive(command) /\ ~Allowed(command) /\ pc' = "task"
  /\ DFU_State' = "dfuERROR" /\ DFU_Status' = "errWRITE"
  /\ UNCHANGED <<usb, discard, block, range, IsSecure, exit, memory, hist>>

ProcessReadCommand(command) ==
  /\ Receive(command) /\ Allowed(command) /\ pc' = "task"
  /\ DFU_State' = FallBack(DFU_State) /\ UNCHANGED DFU_Status
  /\ UNCHANGED <<usb, discard, block, range, IsSecure, exit, memory, hist>>

LoadStartEndAddresses(b) == StartAddr' = b[1] /\ EndAddr' = b[2]

ProcessMemReadCommand(command, b) ==
  /\ Receive(command) /\ Allowed(command) /\ pc' = "task"
  /\ LoadStartEndAddresses(b)
  /\ DFU_State' = "dfuUPLOAD_IDLE" /\ UNCHANGED DFU_Status
  /\ UNCHANGED <<usb, discard, block, IsSecure, exit, memory, hist>>

BlankCheck ==
  /\ Receive("blankCheck") /\ Allowed("blankCheck") /\ pc' = "task"
  /\ LET used == {a \in 0..(BOOT_START_ADDR - 1) : flash[a] # Erased}
     IN  IF used = {}
         THEN DFU_State' = FallBack(DFU_State) /\ UNCHANGED <<DFU_Status, StartAddr>>
         ELSE /\ \E a \in used : (\A b \in used : a <= b) /\ StartAddr' = a
              /\ DFU_State' = "dfuERROR" /\ DFU_Status' = "errCHECK_ERASED"
  /\ UNCHANGED <<usb, discard, block, EndAddr, IsSecure, exit, memory, hist>>

\* Mutated: the key is not left for start up.
StartByWatchdogWithoutKey ==
  /\ Receive("startWatchdog") /\ Allowed("startWatchdog") /\ pc' = "task"
  /\ WaitForExit' = TRUE /\ watchdog' = TRUE
  /\ DFU_State' = FallBack(DFU_State) /\ UNCHANGED DFU_Status
  /\ UNCHANGED <<usb, discard, block, range, IsSecure, RunBootloader, MagicBootKey, AppStartPtr,
                 WDRF, memory, hist>>

StartByWatchdog ==
  /\ Receive("startWatchdog") /\ Allowed("startWatchdog") /\ pc' = "task"
  /\ WaitForExit' = TRUE /\ MagicBootKey' = TRUE /\ watchdog' = TRUE
  /\ DFU_State' = FallBack(DFU_State) /\ UNCHANGED DFU_Status
  /\ UNCHANGED <<usb, discard, block, range, IsSecure, RunBootloader, AppStartPtr, WDRF,
                 memory, hist>>

\* The start command is no longer than SentCommand: nothing of its data is left, so
\* the address in it is not loaded.
StartByJump ==
  /\ Receive("startJump") /\ Allowed("startJump") /\ pc' = "task"
  /\ WaitForExit' = TRUE /\ RunBootloader' = FALSE
  /\ DFU_State' = FallBack(DFU_State) /\ UNCHANGED DFU_Status
  /\ UNCHANGED <<usb, discard, block, range, IsSecure, MagicBootKey, watchdog, AppStartPtr, WDRF,
                 memory, hist>>

BeginErase ==
  /\ Receive("erase") /\ pc' = "erase"
  /\ CurrFlashAddress' = 0
  /\ clean' = (pageBuffer = EmptyBuffer) /\ UNCHANGED first
  /\ UNCHANGED <<usb, discard, remaining, CurrFlashPageStartAddress, WordsInFlashPage, range,
                 dfu, IsSecure, exit, memory>>

EraseNextPage ==
  /\ pc = "erase" /\ CurrFlashAddress < BOOT_START_ADDR /\ pc' = "eraseWrite"
  /\ flash' = ErasePage(flash, PageOf(CurrFlashAddress)) /\ UNCHANGED <<pageBuffer, eeprom>>
  /\ UNCHANGED <<usb, discard, block, range, SentCommand, dfu, IsSecure, exit, hist>>

\* The erased page is written too, with whatever the buffer holds.
WriteErasedPage ==
  /\ pc = "eraseWrite" /\ pc' = "erase"
  /\ flash' = WritePage(flash, pageBuffer, PageOf(CurrFlashAddress))
  /\ pageBuffer' = EmptyBuffer /\ UNCHANGED eeprom
  /\ CurrFlashAddress' = CurrFlashAddress + SPM_PAGESIZE
  /\ UNCHANGED <<usb, discard, remaining, CurrFlashPageStartAddress, WordsInFlashPage, range,
                 SentCommand, dfu, IsSecure, exit, hist>>

EndErase ==
  /\ pc = "erase" /\ CurrFlashAddress >= BOOT_START_ADDR /\ Return
  /\ IsSecure' = FALSE
  /\ pageBuffer' = EmptyBuffer
  /\ DFU_State' = FallBack(DFU_State) /\ UNCHANGED DFU_Status
  /\ UNCHANGED <<range, SentCommand, exit, flash, eeprom>>

-----------------------------------------------------------------------------
(* A program command and the firmware that follows in the same request. *)

Alignment(a) == a % FIXED_CONTROL_ENDPOINT_SIZE

Length(b) == FIXED_CONTROL_ENDPOINT_SIZE + Alignment(b[1]) + (b[2] - b[1] + 1)
               + DFU_FILE_SUFFIX_SIZE

BeginProgram(command, b) ==
  /\ Receive(command) /\ Allowed(command) /\ pc' = "filler"
  /\ outReceived' = TRUE /\ outBytes' = DFU_FILLER_BYTES_SIZE
  /\ toCome' = Length(b) - FIXED_CONTROL_ENDPOINT_SIZE
  /\ at' = b[1] - Alignment(b[1]) - DFU_FILLER_BYTES_SIZE
  /\ LoadStartEndAddresses(b)
  /\ DFU_State' = "dfuDNLOAD_IDLE" /\ UNCHANGED DFU_Status
  /\ NumberOfBytes' = DFU_FILLER_BYTES_SIZE
  /\ first' = b[1] /\ clean' = (pageBuffer = EmptyBuffer)
  /\ UNCHANGED <<attached, inReady, inBytes, block, IsSecure, exit, eeprom, pageBuffer>>

\* Mutated: the first page is not erased.
BeginProgramFlashUnerased(b) == BeginProgram("progFlash", b) /\ UNCHANGED flash

\* The first page is erased before anything of the firmware is there.
BeginProgramFlash(b) ==
  /\ BeginProgram("progFlash", b)
  /\ flash' = ErasePage(flash, PageOf(b[1]))

BeginProgramEeprom(b) == BeginProgram("progEeprom", b) /\ UNCHANGED flash

ClearEmptyBank ==
  /\ pc \in Receiving /\ outReceived /\ outBytes = 0
  /\ (IF pc \in Discarding THEN NumberOfBytes ELSE remaining) > 0
  /\ outReceived' = FALSE
  /\ UNCHANGED <<pc, attached, outBytes, toCome, at, inReady, inBytes, discard, block, range,
                 SentCommand, dfu, IsSecure, exit, memory, hist>>

DiscardByte ==
  /\ pc \in Discarding /\ NumberOfBytes > 0 /\ outBytes > 0
  /\ NumberOfBytes' = NumberOfBytes - 1 /\ outBytes' = outBytes - 1 /\ at' = at + 1
  /\ UNCHANGED <<pc, attached, outReceived, toCome, inReady, inBytes, block, range,
                 SentCommand, dfu, IsSecure, exit, memory, hist>>

\* All discarded, or the connection lost, which the caller does not hear of.
Discarded == \/ NumberOfBytes = 0
             \/ ~outReceived /\ ~attached

EndFiller ==
  /\ pc = "filler" /\ Discarded /\ pc' = "align"
  /\ NumberOfBytes' = Alignment(StartAddr)
  /\ UNCHANGED <<usb, block, range, SentCommand, dfu, IsSecure, exit, memory, hist>>

BytesRemaining == (EndAddr - StartAddr) + 1

EndAlign ==
  /\ pc = "align" /\ Discarded
  /\ NumberOfBytes' = 0
  /\ IF Data0(SentCommand) = 0
     THEN /\ pc' = "program" /\ remaining' = BytesRemaining \div 2
          /\ CurrFlashAddress' = StartAddr /\ CurrFlashPageStartAddress' = StartAddr
          /\ WordsInFlashPage' = 0
     ELSE /\ pc' = "eeprom" /\ remaining' = BytesRemaining
          /\ UNCHANGED <<CurrFlashAddress, CurrFlashPageStartAddress, WordsInFlashPage>>
  /\ UNCHANGED <<usb, range, SentCommand, dfu, IsSecure, exit, memory, hist>>

\* The byte of the stream that is meant for this address.
Named(a) == IF a \in first..EndAddr THEN a + 1 ELSE 0

\* Mutated: the count of words is not looked at, so pages run into each other.
ProgramWordNeverFull ==
  /\ pc = "program" /\ remaining > 0 /\ outBytes > 0
  /\ pageBuffer' = FillWord(pageBuffer, CurrFlashAddress, Named(at),
                            IF outBytes > 1 THEN Named(at + 1) ELSE 0)
  /\ outBytes' = IF outBytes > 1 THEN outBytes - 2 ELSE 0
  /\ at' = at + outBytes - outBytes'
  /\ WordsInFlashPage' = WordsInFlashPage
  /\ CurrFlashAddress' = CurrFlashAddress + 2
  /\ remaining' = remaining - 1
  /\ pc' = IF remaining' = 0 THEN "commit" ELSE "program"
  /\ UNCHANGED <<attached, outReceived, toCome, inReady, inBytes, discard,
                 CurrFlashPageStartAddress, range, SentCommand, dfu, IsSecure, exit, flash,
                 eeprom, hist>>

\* Endpoint_Read_16_LE() reads on when the bank holds one byte only.
ProgramWord ==
  /\ pc = "program" /\ remaining > 0 /\ outBytes > 0
  /\ pageBuffer' = FillWord(pageBuffer, CurrFlashAddress, Named(at),
                            IF outBytes > 1 THEN Named(at + 1) ELSE 0)
  /\ outBytes' = IF outBytes > 1 THEN outBytes - 2 ELSE 0
  /\ at' = at + outBytes - outBytes'
  /\ WordsInFlashPage' = WordsInFlashPage + 1
  /\ CurrFlashAddress' = CurrFlashAddress + 2
  /\ remaining' = remaining - 1
  /\ pc' = IF WordsInFlashPage' = SPM_PAGESIZE \div 2 \/ remaining' = 0 THEN "commit" ELSE "program"
  /\ UNCHANGED <<attached, outReceived, toCome, inReady, inBytes, discard,
                 CurrFlashPageStartAddress, range, SentCommand, dfu, IsSecure, exit, flash,
                 eeprom, hist>>

CommitPage ==
  /\ pc = "commit"
  /\ flash' = WritePage(flash, pageBuffer, PageOf(CurrFlashPageStartAddress))
  /\ pageBuffer' = EmptyBuffer /\ UNCHANGED eeprom
  /\ IF remaining > 0
     THEN /\ pc' = "eraseNext"
          /\ CurrFlashPageStartAddress' = CurrFlashAddress /\ WordsInFlashPage' = 0
     ELSE pc' = "program" /\ UNCHANGED <<CurrFlashPageStartAddress, WordsInFlashPage>>
  /\ UNCHANGED <<usb, discard, remaining, CurrFlashAddress, range, SentCommand, dfu, IsSecure,
                 exit, hist>>

EraseNextProgramPage ==
  /\ pc = "eraseNext" /\ pc' = "program"
  /\ flash' = ErasePage(flash, PageOf(CurrFlashAddress)) /\ UNCHANGED <<pageBuffer, eeprom>>
  /\ UNCHANGED <<usb, discard, block, range, SentCommand, dfu, IsSecure, exit, hist>>

\* boot_rww_enable() empties the page buffer.
EndProgram ==
  /\ pc = "program" /\ remaining = 0 /\ pc' = "suffix"
  /\ StartAddr' = EndAddr /\ UNCHANGED EndAddr
  /\ pageBuffer' = EmptyBuffer
  /\ NumberOfBytes' = DFU_FILE_SUFFIX_SIZE
  /\ UNCHANGED <<usb, block, SentCommand, dfu, IsSecure, exit, flash, eeprom, hist>>

WriteEepromByte ==
  /\ pc = "eeprom" /\ remaining > 0 /\ outBytes > 0
  /\ eeprom' = [eeprom EXCEPT ![StartAddr] = Named(at)]
  /\ outBytes' = outBytes - 1 /\ at' = at + 1
  /\ StartAddr' = StartAddr + 1 /\ remaining' = remaining - 1
  /\ UNCHANGED <<pc, attached, outReceived, toCome, inReady, inBytes, discard, CurrFlashAddress,
                 CurrFlashPageStartAddress, WordsInFlashPage, EndAddr, SentCommand, dfu,
                 IsSecure, exit, flash, pageBuffer, hist>>

EndEeprom ==
  /\ pc = "eeprom" /\ remaining = 0 /\ pc' = "suffix"
  /\ NumberOfBytes' = DFU_FILE_SUFFIX_SIZE
  /\ UNCHANGED <<usb, block, range, SentCommand, dfu, IsSecure, exit, memory, hist>>

\* Mutated: the device state is not looked at.
AbandonNever == FALSE /\ UNCHANGED vars

\* The connection is lost between two packets: the handler returns where it is.
AbandonProgram ==
  /\ pc \in {"program", "eeprom"} /\ remaining > 0 /\ ~outReceived /\ ~attached
  /\ Return
  /\ UNCHANGED <<range, SentCommand, dfu, IsSecure, exit, memory>>

\* What is left of the last packet goes, then the status stage.
EndDnload ==
  /\ pc = "suffix" /\ Discarded /\ Return
  /\ UNCHANGED <<range, SentCommand, dfu, IsSecure, exit, memory>>

-----------------------------------------------------------------------------
(* DFU_REQ_UPLOAD and the requests about status and state. *)

\* A response to the last command, or nothing, when nothing was asked to be read.
UploadResponse ==
  /\ Serving
  /\ DFU_State # "dfuUPLOAD_IDLE" \/ Data0(SentCommand) \notin {0, 2}
  /\ DFU_State' = IF DFU_State = "dfuUPLOAD_IDLE" THEN "dfuIDLE" ELSE DFU_State
  /\ pc' = "statusOut"
  /\ UNCHANGED <<usb, discard, block, range, SentCommand, DFU_Status, IsSecure, exit, memory, hist>>

BeginUpload ==
  /\ Serving /\ DFU_State = "dfuUPLOAD_IDLE" /\ Data0(SentCommand) \in {0, 2}
  /\ inReady' = TRUE /\ inBytes' = 0
  /\ IF Data0(SentCommand) = 0
     THEN /\ pc' = "uploadFlash" /\ remaining' = BytesRemaining \div 2
          /\ CurrFlashAddress' = StartAddr
     ELSE /\ pc' = "uploadEeprom" /\ remaining' = BytesRemaining
          /\ UNCHANGED CurrFlashAddress
  /\ UNCHANGED <<attached, outReceived, outBytes, toCome, at, discard, CurrFlashPageStartAddress,
                 WordsInFlashPage, range, SentCommand, dfu, IsSecure, exit, memory, hist>>

ClearFullBank ==
  /\ pc \in Sending /\ remaining > 0 /\ inReady /\ inBytes = FIXED_CONTROL_ENDPOINT_SIZE
  /\ inReady' = FALSE
  /\ UNCHANGED <<pc, attached, outReceived, outBytes, toCome, at, inBytes, discard, block, range,
                 SentCommand, dfu, IsSecure, exit, memory, hist>>

\* Mutated: the packet is never cut off.
UploadWordUnchecked ==
  /\ pc = "uploadFlash" /\ remaining > 0 /\ inReady
  /\ inBytes' = inBytes + 2 /\ CurrFlashAddress' = CurrFlashAddress + 2
  /\ remaining' = remaining - 1
  /\ UNCHANGED <<pc, attached, outReceived, outBytes, toCome, at, inReady, discard,
                 CurrFlashPageStartAddress, WordsInFlashPage, range, SentCommand, dfu, IsSecure,
                 exit, memory, hist>>

UploadWord ==
  /\ pc = "uploadFlash" /\ remaining > 0 /\ inReady /\ inBytes < FIXED_CONTROL_ENDPOINT_SIZE
  /\ inBytes' = inBytes + 2 /\ CurrFlashAddress' = CurrFlashAddress + 2
  /\ remaining' = remaining - 1
  /\ UNCHANGED <<pc, attached, outReceived, outBytes, toCome, at, inReady, discard,
                 CurrFlashPageStartAddress, WordsInFlashPage, range, SentCommand, dfu, IsSecure,
                 exit, memory, hist>>

UploadEepromByte ==
  /\ pc = "uploadEeprom" /\ remaining > 0 /\ inReady /\ inBytes < FIXED_CONTROL_ENDPOINT_SIZE
  /\ inBytes' = inBytes + 1 /\ StartAddr' = StartAddr + 1 /\ UNCHANGED EndAddr
  /\ remaining' = remaining - 1
  /\ UNCHANGED <<pc, attached, outReceived, outBytes, toCome, at, inReady, discard,
                 CurrFlashAddress, CurrFlashPageStartAddress, WordsInFlashPage, SentCommand, dfu,
                 IsSecure, exit, memory, hist>>

AbandonUpload ==
  /\ pc \in Sending /\ remaining > 0 /\ ~inReady /\ ~attached
  /\ Return
  /\ UNCHANGED <<range, SentCommand, dfu, IsSecure, exit, memory>>

\* Mutated: the state is left as it is.
EndUploadStay ==
  /\ pc \in Sending /\ remaining = 0 /\ pc' = "statusOut"
  /\ UNCHANGED DFU_State /\ UNCHANGED DFU_Status
  /\ StartAddr' = IF pc = "uploadFlash" THEN EndAddr ELSE StartAddr
  /\ UNCHANGED <<usb, discard, block, EndAddr, SentCommand, IsSecure, exit, memory, hist>>

EndUpload ==
  /\ pc \in Sending /\ remaining = 0 /\ pc' = "statusOut"
  /\ DFU_State' = "dfuIDLE" /\ UNCHANGED DFU_Status
  /\ StartAddr' = IF pc = "uploadFlash" THEN EndAddr ELSE StartAddr
  /\ UNCHANGED <<usb, discard, block, EndAddr, SentCommand, IsSecure, exit, memory, hist>>

NoStatusStage ==
  /\ pc = "statusOut" /\ ~attached /\ Return
  /\ UNCHANGED <<range, SentCommand, dfu, IsSecure, exit, memory>>

GetStatusOrState ==
  /\ Serving /\ pc' = "statusOut"
  /\ UNCHANGED <<usb, discard, block, range, SentCommand, dfu, IsSecure, exit, memory, hist>>

ClearStatus ==
  /\ Serving /\ DFU_Status' = "OK"
  /\ UNCHANGED <<pc, usb, discard, block, range, SentCommand, DFU_State, IsSecure, exit, memory, hist>>

Abort ==
  /\ Serving /\ DFU_State' = "dfuIDLE"
  /\ UNCHANGED <<pc, usb, discard, block, range, SentCommand, DFU_Status, IsSecure, exit, memory, hist>>

-----------------------------------------------------------------------------
Command ==
  \/ \E command \in Commands : RejectCommand(command)
  \/ \E command \in ReadCommands : ProcessReadCommand(command)
  \/ \E b \in FlashBlocks : BeginProgramFlash(b) \/ ProcessMemReadCommand("dispFlash", b)
  \/ \E b \in EepromBlocks : BeginProgramEeprom(b) \/ ProcessMemReadCommand("dispEeprom", b)
  \/ BlankCheck \/ StartByWatchdog \/ StartByJump \/ BeginErase

Request == DnloadNothing \/ DnloadData \/ UploadResponse \/ BeginUpload
           \/ GetStatusOrState \/ ClearStatus \/ Abort

Task ==
  \/ StartApplication \/ SetupHardware \/ LeaveLoop \/ ResetHardware
  \/ NoCommand \/ EraseNextPage \/ WriteErasedPage \/ EndErase
  \/ ClearEmptyBank \/ DiscardByte \/ EndFiller \/ EndAlign
  \/ ProgramWord \/ CommitPage \/ EraseNextProgramPage \/ EndProgram
  \/ WriteEepromByte \/ EndEeprom \/ AbandonProgram \/ EndDnload
  \/ ClearFullBank \/ UploadWord \/ UploadEepromByte \/ AbandonUpload \/ EndUpload
  \/ NoStatusStage

Host == Command \/ Request \/ HostSends \/ HostFetches \/ HostAcknowledges

Bus == Unplug \/ Resume \/ BusReset

Next == Task \/ Host \/ Bus \/ WatchdogBites \/ OtherReset

Spec == Init /\ [][Next]_vars

\* The processor runs and the watchdog's oscillator with it; nothing is asked of the host.
FairSpec == Spec /\ WF_vars(Task) /\ WF_vars(WatchdogBites)

-----------------------------------------------------------------------------
\* Whatever is lost on the way, the flash only sees whole page erases below
\* BOOT_START_ADDR and bytes programmed where they are erased: the abstract memory.
Memory == INSTANCE FlashMemory
ImplementsFlash == Memory!Spec

\* A download that runs to its end has stored what the host sent: every whole word of
\* a flash block in its place and the rest of the pages erased, every byte of an EEPROM
\* block.  The page buffer must have been empty before, which EraseLeavesBlank is about.
DownloadStored ==
  [][ /\ pc = "program" /\ pc' = "suffix" /\ clean =>
           LET past == first + 2 * ((EndAddr - first + 1) \div 2)
           IN  \A a \in FlashAddresses :
                 a >= first /\ PageOf(a) <= PageOf(past - 1) =>
                   flash[a] = IF a < past THEN a + 1 ELSE Erased
      /\ pc = "eeprom" /\ pc' = "suffix" => \A a \in first..EndAddr : eeprom[a] = a + 1 ]_vars

\* "disallowing memory operations other than erase" until an erase has completed: no
\* other change of the memories, nothing of them sent, and no erase cut short opens them.
SecureUntilErased ==
  [][ IsSecure =>
        /\ eeprom' = eeprom
        /\ \A a \in FlashAddresses : flash'[a] \in {flash[a], Erased}
        /\ pc' \notin Sending /\ ~WaitForExit'
        /\ ~IsSecure' => \A a \in 0..(BOOT_START_ADDR - 1) : flash'[a] = Erased ]_vars

\* What an UPLOAD is about to read begins before it ends, so the 16 bit count of bytes
\* never wraps, though StartAddr moves on with every read and write broken off.
UploadRangeInOrder ==
  /\ pc = "task" /\ DFU_State = "dfuUPLOAD_IDLE" => StartAddr <= EndAddr
  /\ pc = "uploadEeprom" => StartAddr + remaining = EndAddr + 1

\* While the watchdog runs for a start by reset, start up will find the key.
KeyForWatchdog == watchdog /\ pc \in {"task"} \cup Handler => MagicBootKey

\* Once both requests of a start are served, or the watchdog is armed, the application
\* starts, unless power or the reset line starts the bootloader again.
ApplicationStarts ==
  pc = "task" /\ (watchdog \/ (~RunBootloader /\ ~WaitForExit))
    ~> pc = "application" \/ (pc = "start" /\ ~WDRF)

\* A request does not outlive the connection.
GivesUp == pc \in Handler /\ ~attached ~> pc \notin Handler \/ attached

\* ProcessWriteCommand(): "Clear the application section of flash", "Memory has been
\* erased".  After the erase the section is blank.
EraseLeavesBlank ==
  [][ pc = "erase" /\ pc' = "task" => \A a \in 0..(BOOT_START_ADDR - 1) : flash[a] = Erased ]_vars

\* "Throw away the packet alignment filler bytes before the start of the firmware": none
\* of them is programmed as firmware.
FillerThrownAway ==
  [][ pc = "program" /\ pc' = "suffix" => \A a \in first..EndAddr : flash[a] # 0 ]_vars
=============================================================================
