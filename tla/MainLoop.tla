------------------------------- MODULE MainLoop -------------------------------
(***************************************************************************)
(* main() supervising the connection: the two reads of USB_DeviceState per *)
(* turn, the request served between them, the switch of mode that a        *)
(* SetLineEncoding asks for, the exit from the bootloader, the LED pulses  *)
(* and the clean up when the connection is lost.  What a turn moves        *)
(* between USB and the USART is in UsbToUsart and UsartToUsb.              *)
(***************************************************************************)
EXTENDS BaudRate, UsbDevice

CONSTANT TX_RX_LED_PULSE_MS     \* timer overflows a LED stays lit: 3

ASSUME CodingsAssumption == LineCodings \subseteq CodingType
ASSUME PulseAssumption == TX_RX_LED_PULSE_MS \in Nat \ {0}

VARIABLES
  pc,
  lastState,            \* the first read of the turn
  asked,                \* the data of the SetLineEncoding being served
  LineEncoding,
  mode,
  usartOn,              \* UCSR1B # 0
  registers,            \* UBRR1, UCSR1A and UCSR1C
  RunBootloader,
  resetLine,            \* the main MCU is held in reset
  LEDs,                 \* the lit ones
  Pulse                 \* TxLEDPulse and RxLEDPulse

lineVars == <<asked, LineEncoding, mode, usartOn, registers>>
ledVars  == <<LEDs, Pulse>>
mainVars == <<pc, lastState, lineVars, RunBootloader, resetLine, ledVars>>
vars     == <<devVars, mainVars>>

AllLeds == {"TX", "RX"}

TypeOK ==
  /\ DeviceTypeOK
  /\ pc \in {"lastState", "control", "address", "configuration", "reply", "status", "lineData",
             "lineChanged", "newState", "transfer", "command", "timer", "lost",
             "reset"}
  /\ lastState \in {"Unattached", "Powered", "Default", "Addressed", "Configured"}
  /\ asked \in CodingType /\ LineEncoding \in CodingType /\ mode \in Modes
  /\ registers \in RegistersType
  /\ usartOn \in BOOLEAN /\ RunBootloader \in BOOLEAN /\ resetLine \in BOOLEAN
  /\ LEDs \subseteq AllLeds
  /\ Pulse \in [AllLeds -> 0..TX_RX_LED_PULSE_MS]

MainInit ==
  /\ pc = "lastState"
  /\ lastState = "Unattached"
  /\ asked = NoCoding /\ LineEncoding = NoCoding
  /\ mode = "OFF" /\ usartOn = FALSE /\ registers = RegistersOff
  /\ RunBootloader = TRUE /\ resetLine = FALSE
  /\ LEDs = {} /\ Pulse = [l \in AllLeds |-> 0]

Init == DeviceInit /\ MainInit

-----------------------------------------------------------------------------
ReadLastState ==
  /\ pc = "lastState" /\ pc' = "control"
  /\ lastState' = USB_DeviceState
  /\ UNCHANGED <<devVars, lineVars, RunBootloader, resetLine, ledVars>>

-----------------------------------------------------------------------------
(* USB_Device_ProcessControlRequest() *)

NoControlRequest ==
  /\ pc = "control" /\ setup = NoRequest
  /\ pc' = "newState"
  /\ UNCHANGED <<devVars, lastState, lineVars, RunBootloader, resetLine, ledVars>>

SetAddress ==
  /\ pc = "control" /\ setup.type = "SetAddress"
  /\ OnlyClearSETUP
  /\ pc' = "address"
  /\ UNCHANGED <<lastState, lineVars, RunBootloader, resetLine, ledVars>>

FinishSetAddress ==
  /\ pc = "address" /\ EnableDeviceAddress
  /\ pc' = "newState"
  /\ UNCHANGED <<lastState, lineVars, RunBootloader, resetLine, ledVars>>

SetConfiguration ==
  /\ pc = "control" /\ setup.type = "SetConfiguration" /\ setup.number <= 1
  /\ BeginSetConfiguration(setup.number)
  /\ pc' = "configuration"
  /\ UNCHANGED <<lastState, lineVars, RunBootloader, resetLine, ledVars>>

FinishSetConfiguration ==
  /\ pc = "configuration" /\ EndSetConfiguration
  /\ pc' = "newState"
  /\ UNCHANGED <<lastState, lineVars, RunBootloader, resetLine, ledVars>>

\* The descriptor or the line coding is written to the endpoint as the host takes it.
BeginReply ==
  /\ pc = "control" /\ setup.type \in {"GetLineEncoding", "GetDescriptor"}
  /\ OnlyClearSETUP
  /\ pc' = "reply"
  /\ UNCHANGED <<lastState, lineVars, RunBootloader, resetLine, ledVars>>

EndReply ==
  /\ pc = "reply" /\ ~frozen /\ setup = NoRequest
  /\ pc' = "newState"
  /\ UNCHANGED <<devVars, lastState, lineVars, RunBootloader, resetLine, ledVars>>

BreakOffReply ==
  /\ pc = "reply"
  /\ USB_DeviceState = "Unattached" \/ setup # NoRequest
  /\ pc' = "newState"
  /\ UNCHANGED <<devVars, lastState, lineVars, RunBootloader, resetLine, ledVars>>

\* A short answer, and Endpoint_ClearStatusStage(), which a new request does not end.
BeginStatus ==
  /\ pc = "control" /\ setup.type = "GetStatus"
  /\ OnlyClearSETUP
  /\ pc' = "status"
  /\ UNCHANGED <<lastState, lineVars, RunBootloader, resetLine, ledVars>>

EndStatus ==
  /\ pc = "status" /\ ~frozen /\ setup = NoRequest
  /\ pc' = "newState"
  /\ UNCHANGED <<devVars, lastState, lineVars, RunBootloader, resetLine, ledVars>>

GiveUpStatus ==
  /\ pc = "status" /\ USB_DeviceState = "Unattached"
  /\ pc' = "newState"
  /\ UNCHANGED <<devVars, lastState, lineVars, RunBootloader, resetLine, ledVars>>

\* No handler has taken the SETUP packet.
Stall ==
  /\ pc = "control"
  /\ setup.type = "unknown" \/ (setup.type = "SetConfiguration" /\ setup.number > 1)
  /\ OnlyClearSETUP
  /\ pc' = "newState"
  /\ UNCHANGED <<lastState, lineVars, RunBootloader, resetLine, ledVars>>

\* DTR asserted pulls the reset line of the main MCU down.
SetControlLineState ==
  /\ pc = "control" /\ setup.type = "SetControlLineState"
  /\ OnlyClearSETUP
  /\ resetLine' = setup.dtr
  /\ pc' = "newState"
  /\ UNCHANGED <<lastState, lineVars, RunBootloader, ledVars>>

SetLineEncoding ==
  /\ pc = "control" /\ setup.type = "SetLineEncoding"
  /\ OnlyClearSETUP
  /\ asked' = setup.coding
  /\ pc' = "lineData"
  /\ UNCHANGED <<lastState, LineEncoding, mode, usartOn, registers,
                 RunBootloader, resetLine, ledVars>>

\* The seven bytes come in one packet of the eight byte endpoint.
ReadLineEncoding ==
  /\ pc = "lineData" /\ ~frozen /\ setup = NoRequest
  /\ LineEncoding' = asked /\ asked' = NoCoding
  /\ pc' = "lineChanged"
  /\ UNCHANGED <<devVars, lastState, mode, usartOn, registers, RunBootloader,
                 resetLine, ledVars>>

\* The transfer broke off: the old coding is applied once more.
SkipLineEncoding ==
  /\ pc = "lineData"
  /\ USB_DeviceState = "Unattached" \/ setup # NoRequest
  /\ asked' = NoCoding
  /\ pc' = "lineChanged"
  /\ UNCHANGED <<devVars, lastState, LineEncoding, mode, usartOn, registers,
                 RunBootloader, resetLine, ledVars>>

\* CDC_Device_LineEncodingChanged(), whose steps are in UsbToUsart.
LineEncodingChanged ==
  LET serial == ModeFor(LineEncoding'.BaudRateBPS) = "USBSERIAL"
  IN  /\ mode' = ModeFor(LineEncoding'.BaudRateBPS)
      /\ usartOn' = serial
      /\ registers' = IF serial THEN RegistersFor(LineEncoding') ELSE RegistersOff

ChangeLineEncoding ==
  /\ pc = "lineChanged" /\ pc' = "newState"
  /\ UNCHANGED LineEncoding /\ LineEncodingChanged
  /\ UNCHANGED <<devVars, lastState, asked, RunBootloader, resetLine, ledVars>>

-----------------------------------------------------------------------------
(* The second read and what follows from it. *)

\* Mutated: a lost connection is only waited for.
ReadNewStateAndWait ==
  /\ pc = "newState"
  /\ pc' = IF USB_DeviceState # "Configured" THEN "lastState"
           ELSE IF RunBootloader THEN "transfer" ELSE "reset"
  /\ UNCHANGED <<devVars, lastState, lineVars, RunBootloader, resetLine, ledVars>>

\* Mutated: the exit flag is not looked at.
ReadNewStateAndStay ==
  /\ pc = "newState"
  /\ pc' = IF USB_DeviceState = "Configured" THEN "transfer"
           ELSE IF lastState # "Configured" THEN "lastState" ELSE "lost"
  /\ UNCHANGED <<devVars, lastState, lineVars, RunBootloader, resetLine, ledVars>>

ReadNewState ==
  /\ pc = "newState"
  /\ pc' = IF USB_DeviceState # "Configured"
           THEN IF lastState # "Configured" THEN "lastState" ELSE "lost"
           ELSE IF RunBootloader THEN "transfer" ELSE "reset"
  /\ UNCHANGED <<devVars, lastState, lineVars, RunBootloader, resetLine, ledVars>>

\* Mutated: the LEDs are forgotten.
ConnectionLostLit ==
  /\ pc = "lost" /\ pc' = "lastState"
  /\ LineEncoding' = [LineEncoding EXCEPT !.BaudRateBPS = 0] /\ LineEncodingChanged
  /\ Pulse' = [l \in AllLeds |-> 0]
  /\ UNCHANGED <<devVars, lastState, asked, RunBootloader, resetLine, LEDs>>

ConnectionLost ==
  /\ pc = "lost" /\ pc' = "lastState"
  /\ LineEncoding' = [LineEncoding EXCEPT !.BaudRateBPS = 0] /\ LineEncodingChanged
  /\ LEDs' = {} /\ Pulse' = [l \in AllLeds |-> 0]
  /\ UNCHANGED <<devVars, lastState, asked, RunBootloader, resetLine>>

\* The LEDs of the directions that had data are lit for a while.
Transfer(active) ==
  /\ pc = "transfer"
  /\ mode = "USBSERIAL" \/ active = {}
  /\ LEDs' = LEDs \cup active
  /\ Pulse' = [l \in AllLeds |-> IF l \in active THEN TX_RX_LED_PULSE_MS ELSE Pulse[l]]
  /\ pc' = "timer"
  /\ UNCHANGED <<devVars, lastState, lineVars, RunBootloader, resetLine>>

\* Bootloader_Task(): the exit command clears the flag and then waits for the
\* host, as every command may.
BeginCommand(exit) ==
  /\ pc = "transfer" /\ mode = "BOOTLOADER"
  /\ RunBootloader' = (RunBootloader /\ ~exit)
  /\ pc' = "command"
  /\ UNCHANGED <<devVars, lastState, lineVars, resetLine, ledVars>>

EndCommand ==
  /\ pc = "command" /\ pc' = "timer"
  /\ UNCHANGED <<devVars, lastState, lineVars, RunBootloader, resetLine, ledVars>>

\* Mutated: a count of zero is decremented too.
TimerOverflowUnguarded ==
  /\ pc = "timer" /\ pc' = "lastState"
  /\ Pulse' = [l \in AllLeds |-> IF Pulse[l] > 0 THEN Pulse[l] - 1 ELSE 255]
  /\ LEDs' = LEDs \ {l \in AllLeds : Pulse[l] = 1}
  /\ UNCHANGED <<devVars, lastState, lineVars, RunBootloader, resetLine>>

\* A LED goes off when its count reaches zero.
TimerOverflow ==
  /\ pc = "timer" /\ pc' = "lastState"
  /\ Pulse' = [l \in AllLeds |-> IF Pulse[l] > 0 THEN Pulse[l] - 1 ELSE 0]
  /\ LEDs' = LEDs \ {l \in AllLeds : Pulse[l] = 1}
  /\ UNCHANGED <<devVars, lastState, lineVars, RunBootloader, resetLine>>

NoTimerOverflow ==
  /\ pc = "timer" /\ pc' = "lastState"
  /\ UNCHANGED <<devVars, lastState, lineVars, RunBootloader, resetLine, ledVars>>

\* ResetMCU() spins until the watchdog bites; start up then comes back to main()
\* unless it starts the sketch (BootKey).
WatchdogReset ==
  /\ pc = "reset" /\ pc' = "lastState"
  /\ DeviceReset
  /\ lastState' = "Unattached"
  /\ asked' = NoCoding /\ LineEncoding' = NoCoding
  /\ mode' = "OFF" /\ usartOn' = FALSE /\ registers' = RegistersOff
  /\ RunBootloader' = TRUE /\ resetLine' = FALSE
  /\ LEDs' = {} /\ Pulse' = [l \in AllLeds |-> 0]

-----------------------------------------------------------------------------
Requests == ClassRequests \cup StandardRequests

Bus == /\ \/ Suspend \/ WakeUp \/ BusReset
          \/ \E r \in Requests : HostRequests(r)
       /\ UNCHANGED mainVars

Control == \/ NoControlRequest \/ SetAddress \/ FinishSetAddress
           \/ SetConfiguration \/ FinishSetConfiguration
           \/ BeginReply \/ BreakOffReply \/ BeginStatus \/ GiveUpStatus \/ Stall
           \/ SetControlLineState \/ SetLineEncoding \/ SkipLineEncoding
           \/ ChangeLineEncoding

\* Everything main() does without waiting for the host.
Unaided == \/ ReadLastState \/ Control \/ ReadNewState \/ ConnectionLost
           \/ \E active \in SUBSET AllLeds : Transfer(active)
           \/ \E exit \in BOOLEAN : BeginCommand(exit)
           \/ TimerOverflow \/ NoTimerOverflow
           \/ WatchdogReset

Next == Bus \/ Unaided \/ ReadLineEncoding \/ EndReply \/ EndStatus \/ EndCommand

Spec == Init /\ [][Next]_vars

(***************************************************************************)
(* main() keeps running, and a command that waits for the host gives up    *)
(* once the connection is gone.  The host owes nothing: a data stage, a     *)
(* status stage or a command may wait for it for ever.                     *)
(***************************************************************************)
Fairness ==
  /\ WF_vars(Unaided)
  /\ WF_vars(EndCommand /\ USB_DeviceState = "Unattached")

FairSpec == Spec /\ Fairness

-----------------------------------------------------------------------------
Lost == USB_DeviceState # "Configured"

\* What main() says of its second read: "Break and disable USART on connection
\* lost".
LossDisablesUsart == <>[]Lost => <>[]~usartOn

\* main() waits for the host: only a suspended bus, or a new request, ends the wait.
AwaitsHost == pc \in {"address", "reply", "status", "lineData", "command"}

\* A loss main() can see, because its first read of the turn still found the
\* device Configured, is acted upon: the USART goes off unless the connection
\* is back before the second read.
SeenLossDisablesUsart ==
  (lastState = "Configured" /\ Lost
     /\ pc \notin {"lastState", "transfer", "command", "timer", "lost", "reset"})
    ~> (~usartOn \/ ~Lost \/ AwaitsHost)

\* The exit command resets the device as long as the connection lasts and the
\* host does not leave a transfer half done.
ExitHonoured == ~RunBootloader ~> (pc = "reset" \/ Lost \/ AwaitsHost)

\* A LED that is lit has a count that will put it out, whatever happened in
\* between: no LED is forgotten.
LitLedIsCounted == \A l \in LEDs : Pulse[l] > 0

\* The mode and the line are the ones that GetLineEncoding reports, except while a new
\* coding is being applied: in serial mode the USART runs, and its bit time and its frame
\* are those of the coding, as far as the USART knows them.
LineIsReported ==
  /\ usartOn <=> mode = "USBSERIAL"
  /\ pc # "lineChanged" =>
       /\ mode = ModeFor(LineEncoding.BaudRateBPS)
       /\ usartOn /\ Supported(LineEncoding) => Meets(registers, LineEncoding)
=============================================================================
