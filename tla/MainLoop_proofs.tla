---------------------------- MODULE MainLoop_proofs ---------------------------
(***************************************************************************)
(* The safety properties of MainLoop hold for every pulse length.  TypeOK, *)
(* LitLedIsCounted is inductive given TypeOK.  That the line is the one    *)
(* that is reported rests on the registers being those of the coding, and  *)
(* on two facts about the divisor and the frame of every coding; for the   *)
(* rates that fit the divisor at double speed no other setting is nearer.  *)
(* What LossDisablesUsart gets wrong is bounded from the other side: with  *)
(* no loss between two turns the clean up of a lost connection is complete.*)
(***************************************************************************)
EXTENDS MainLoop, TLAPS

\* The counts that are assigned are in range.
LEMMA PulseRange ==
  /\ 0 \in 0..TX_RX_LED_PULSE_MS
  /\ TX_RX_LED_PULSE_MS \in 0..TX_RX_LED_PULSE_MS
  /\ [l \in AllLeds |-> 0] \in [AllLeds -> 0..TX_RX_LED_PULSE_MS]
  BY PulseAssumption

\* What a request of each type carries.
LEMMA RequestFields ==
  ASSUME NEW r \in {NoRequest} \cup ClassRequests \cup StandardRequests
  PROVE  /\ r.type = "SetConfiguration" => r.number \in {0, 1, 2}
         /\ r.type = "SetLineEncoding" => r.coding \in LineCodings
         /\ r.type = "SetControlLineState" => r.dtr \in BOOLEAN
<1>1. CASE r = NoRequest
  BY <1>1 DEF NoRequest
<1>2. CASE r \in [type : {"SetLineEncoding"}, coding : LineCodings]
  BY <1>2
<1>3. CASE r \in [type : {"SetControlLineState"}, dtr : BOOLEAN]
  BY <1>3
<1>4. CASE r \in [type : {"SetConfiguration"}, number : {0, 1, 2}]
  BY <1>4
<1>5. CASE r \in [type : {"SetAddress", "GetDescriptor", "GetStatus", "unknown"}]
  BY <1>5
<1>6. CASE r = [type |-> "GetLineEncoding"]
  BY <1>6
<1> QED
  BY <1>1, <1>2, <1>3, <1>4, <1>5, <1>6 DEF ClassRequests, StandardRequests

\* The interrupt and the host keep the connection variables in their types.
LEMMA BusTyped == DeviceTypeOK /\ Bus => DeviceTypeOK'
<1> SUFFICES ASSUME DeviceTypeOK, Bus PROVE DeviceTypeOK'
  OBVIOUS
<1> USE DEF DeviceTypeOK
<1>1. CASE Suspend
  BY <1>1 DEF Suspend
<1>2. CASE WakeUp
  BY <1>2 DEF WakeUp
<1>3. CASE BusReset
  BY <1>3 DEF BusReset
<1>4. CASE \E r \in Requests : HostRequests(r)
  BY <1>4 DEF HostRequests, Requests
<1> QED
  BY <1>1, <1>2, <1>3, <1>4 DEF Bus

\* What the program starts with, and switches the USART off with.
LEMMA StartTyped == NoCoding \in CodingType /\ RegistersOff \in RegistersType
  BY DEF NoCoding, CodingType, RegistersOff, RegistersType, TwelveBits

\* Why a divisor fits its register, whatever the rate.
LEMMA Remainder ==
  ASSUME NEW x \in Int
  PROVE  /\ x % 65536 \in Nat /\ x % 65536 < 65536
         /\ x % 4096 \in TwelveBits
  BY DEF TwelveBits

LEMMA DivisorTyped ==
  ASSUME NEW rate \in Nat, rate # 0
  PROVE  /\ Divisor(rate) \in [UBRR1 : TwelveBits, U2X1 : BOOLEAN]
         /\ SERIAL_2X_UBBRVAL(rate) \in Nat
<1>1. PICK brr \in Nat : brr = SERIAL_2X_UBBRVAL(rate)
  <2>1. (F_CPU \div 8 + rate \div 2) \div rate - 1 \in Int
    BY ClockAssumption
  <2> QED
    BY <2>1, Remainder DEF SERIAL_2X_UBBRVAL
<1>2. PICK special \in Nat : special = SERIAL_UBBRVAL(57600)
  <2>1. (F_CPU \div 16 + 57600 \div 2) \div 57600 - 1 \in Int
    BY ClockAssumption
  <2> QED
    BY <2>1, Remainder DEF SERIAL_UBBRVAL
<1>3. (brr \div 2) % 4096 \in TwelveBits /\ special % 4096 \in TwelveBits
  BY Remainder
<1>4. CASE brr % 2 = 1 \/ brr > 4095
  <2>1. Divisor(rate) = [UBRR1 |-> (brr \div 2) % 4096, U2X1 |-> FALSE]
    BY <1>1, <1>4 DEF Divisor, DivisorFrom
  <2> QED
    BY <1>1, <1>3, <2>1
<1>5. CASE ~(brr % 2 = 1 \/ brr > 4095)
  <2>1. \/ Divisor(rate) = [UBRR1 |-> special % 4096, U2X1 |-> FALSE]
        \/ Divisor(rate) = [UBRR1 |-> brr, U2X1 |-> TRUE]
    BY <1>1, <1>2, <1>5 DEF Divisor, DivisorFrom
  <2>2. brr \in TwelveBits
    BY <1>5 DEF TwelveBits
  <2>3. CASE Divisor(rate) = [UBRR1 |-> special % 4096, U2X1 |-> FALSE]
    BY <1>1, <1>3, <2>3
  <2>4. CASE Divisor(rate) = [UBRR1 |-> brr, U2X1 |-> TRUE]
    BY <1>1, <2>2, <2>4
  <2> QED
    BY <2>1, <2>3, <2>4
<1> QED
  BY <1>4, <1>5

LEMMA RegistersTyped ==
  ASSUME NEW coding \in CodingType, coding.BaudRateBPS # 0
  PROVE  RegistersFor(coding) \in RegistersType
<1>1. Divisor(coding.BaudRateBPS) \in [UBRR1 : TwelveBits, U2X1 : BOOLEAN]
  <2>1. coding.BaudRateBPS \in Nat
    BY DEF CodingType
  <2> QED
    BY <2>1, DivisorTyped
<1>2. ConfigMask(coding) \in SUBSET {"UPM11", "UPM10", "USBS1", "UCSZ11", "UCSZ10"}
  BY DEF ConfigMask, ParityMask, DataBitsMask
<1> QED
  BY <1>1, <1>2 DEF RegistersFor, RegistersType

\* What a change of the coding leaves.
LEMMA ChangedTyped ==
  ASSUME LineEncoding' \in CodingType, LineEncodingChanged
  PROVE  mode' \in Modes /\ usartOn' \in BOOLEAN /\ registers' \in RegistersType
  BY StartTyped, RegistersTyped DEF LineEncodingChanged, ModeFor, Modes

\* Every step of main() keeps every variable in its type.
LEMMA StepTyped == TypeOK /\ [Next]_vars => TypeOK'
<1> SUFFICES ASSUME TypeOK, [Next]_vars PROVE TypeOK'
  OBVIOUS
<1> USE PulseAssumption, PulseRange DEF TypeOK, DeviceTypeOK
<1>1. CASE Bus
  BY <1>1, BusTyped DEF Bus, mainVars, lineVars, ledVars
<1>2. CASE ReadLastState
  BY <1>2 DEF ReadLastState, devVars, lineVars, ledVars
<1>3. CASE NoControlRequest \/ SkipLineEncoding \/ NoTimerOverflow \/ EndCommand
  BY <1>3, StartTyped DEF NoControlRequest, SkipLineEncoding, NoTimerOverflow, EndCommand,
              devVars, lineVars, ledVars
<1>4a. CASE SetAddress
  BY <1>4a DEF SetAddress, OnlyClearSETUP, ClearSETUP, lineVars, ledVars
<1>4c. CASE BeginReply \/ BeginStatus \/ Stall
  BY <1>4c DEF BeginReply, BeginStatus, Stall, OnlyClearSETUP, ClearSETUP, lineVars, ledVars
<1>4d. CASE EndReply \/ BreakOffReply \/ EndStatus \/ GiveUpStatus
  BY <1>4d DEF EndReply, BreakOffReply, EndStatus, GiveUpStatus, devVars, lineVars, ledVars
<1>4b. CASE SetConfiguration
  <2>1. setup.number \in {0, 1, 2} /\ setup.number <= 1
    BY <1>4b, RequestFields DEF SetConfiguration
  <2>2. USB_Device_ConfigurationNumber' \in {0, 1}
    BY <1>4b, <2>1 DEF SetConfiguration, BeginSetConfiguration
  <2>3. DeviceTypeOK'
    BY <1>4b, <2>2 DEF SetConfiguration, BeginSetConfiguration, ClearSETUP
  <2> QED
    BY <1>4b, <2>3 DEF SetConfiguration, lineVars, ledVars
<1>5a. CASE FinishSetAddress
  BY <1>5a DEF FinishSetAddress, EnableDeviceAddress, lineVars, ledVars
<1>5b. CASE FinishSetConfiguration
  <2>1. DeviceTypeOK'
    BY <1>5b DEF FinishSetConfiguration, EndSetConfiguration
  <2> QED
    BY <1>5b, <2>1 DEF FinishSetConfiguration, lineVars, ledVars
<1>6. CASE SetControlLineState
  <2>1. setup.dtr \in BOOLEAN
    BY <1>6, RequestFields DEF SetControlLineState
  <2> QED
    BY <1>6, <2>1 DEF SetControlLineState, OnlyClearSETUP, ClearSETUP, lineVars, ledVars
<1>7. CASE SetLineEncoding
  <2>1. setup.coding \in CodingType
    BY <1>7, RequestFields, CodingsAssumption DEF SetLineEncoding
  <2> QED
    BY <1>7, <2>1 DEF SetLineEncoding, OnlyClearSETUP, ClearSETUP, ledVars
<1>8a. CASE ReadLineEncoding
  BY <1>8a, StartTyped DEF ReadLineEncoding, devVars, ledVars
<1>8b. CASE ChangeLineEncoding
  <2>1. mode' \in Modes /\ usartOn' \in BOOLEAN /\ registers' \in RegistersType
    BY <1>8b, ChangedTyped DEF ChangeLineEncoding
  <2> QED
    BY <1>8b, <2>1 DEF ChangeLineEncoding, devVars, ledVars
<1>9. CASE ReadNewState
  BY <1>9 DEF ReadNewState, devVars, lineVars, ledVars
<1>10. CASE ConnectionLost
  <2>1. LineEncoding' \in CodingType
    BY <1>10 DEF ConnectionLost, CodingType
  <2>2. mode' \in Modes /\ usartOn' \in BOOLEAN /\ registers' \in RegistersType
    BY <1>10, <2>1, ChangedTyped DEF ConnectionLost
  <2> QED
    BY <1>10, <2>1, <2>2 DEF ConnectionLost, devVars
<1>11. CASE \E active \in SUBSET AllLeds : Transfer(active)
  BY <1>11 DEF Transfer, devVars, lineVars
<1>12. CASE \E exit \in BOOLEAN : BeginCommand(exit)
  BY <1>12 DEF BeginCommand, devVars, lineVars, ledVars
<1>13. CASE TimerOverflow
  BY <1>13 DEF TimerOverflow, devVars, lineVars
<1>14. CASE WatchdogReset
  BY <1>14, StartTyped DEF WatchdogReset, DeviceReset, Modes
<1>15. CASE UNCHANGED vars
  BY <1>15 DEF vars, devVars, mainVars, lineVars, ledVars
<1> QED
  BY <1>1, <1>2, <1>3, <1>4a, <1>4b, <1>4c, <1>4d, <1>5a, <1>5b, <1>6, <1>7, <1>8a, <1>8b, <1>9, <1>10,
     <1>11, <1>12, <1>13, <1>14, <1>15 DEF Next, Unaided, Control

LEMMA InitTyped == Init => TypeOK
  BY PulseRange, StartTyped
  DEF Init, DeviceInit, MainInit, TypeOK, DeviceTypeOK, Modes

\* Every variable keeps its type.
THEOREM TypeCorrect == Spec => []TypeOK
  BY InitTyped, StepTyped, PTL DEF Spec

-----------------------------------------------------------------------------
\* No step leaves a LED lit without a count.
LEMMA StepCounts ==
  TypeOK /\ LitLedIsCounted /\ [Next]_vars => LitLedIsCounted'
<1> SUFFICES ASSUME TypeOK, LitLedIsCounted, [Next]_vars PROVE LitLedIsCounted'
  OBVIOUS
<1> USE DEF LitLedIsCounted
<1>1. CASE UNCHANGED ledVars
  BY <1>1 DEF ledVars
<1>2. CASE ConnectionLost \/ WatchdogReset
  BY <1>2 DEF ConnectionLost, WatchdogReset
<1>3. ASSUME NEW active \in SUBSET AllLeds, Transfer(active)
      PROVE  LitLedIsCounted'
  BY <1>3, PulseAssumption DEF Transfer, TypeOK
<1>4. CASE TimerOverflow
  <2>1. ASSUME NEW l \in LEDs' PROVE Pulse'[l] > 0
    <3>1. l \in LEDs /\ l \in AllLeds /\ Pulse[l] # 1
      BY <1>4, <2>1 DEF TimerOverflow, TypeOK
    <3>2. Pulse[l] \in Nat /\ Pulse[l] > 0
      BY <3>1 DEF TypeOK
    <3> QED
      BY <1>4, <3>1, <3>2 DEF TimerOverflow
  <2> QED
    BY <2>1
<1>5. CASE \/ Bus \/ ReadLastState \/ Control \/ ReadNewState \/ NoTimerOverflow
           \/ ReadLineEncoding \/ EndReply \/ EndStatus \/ EndCommand \/ UNCHANGED vars
           \/ \E exit \in BOOLEAN : BeginCommand(exit)
  <2>1. UNCHANGED ledVars
    BY <1>5 DEF Bus, ReadLastState, Control, NoControlRequest, SetAddress,
       FinishSetAddress, SetConfiguration, FinishSetConfiguration, SetControlLineState,
       SetLineEncoding, SkipLineEncoding, ChangeLineEncoding, ReadNewState, BeginReply,
       EndReply, BreakOffReply, BeginStatus, EndStatus, GiveUpStatus, Stall, NoTimerOverflow, ReadLineEncoding, EndCommand, BeginCommand, vars, mainVars
  <2> QED
    BY <2>1, <1>1
<1> QED
  BY <1>2, <1>3, <1>4, <1>5 DEF Next, Unaided

\* A LED that is lit has a count that will put it out: TX_RX_LED_PULSE_MS may
\* be any positive number.
THEOREM LitLedsAreCounted == Spec => []LitLedIsCounted
<1>1. Init => LitLedIsCounted
  BY DEF Init, MainInit, LitLedIsCounted
<1> QED
  BY <1>1, StepCounts, TypeCorrect, PTL DEF Spec

-----------------------------------------------------------------------------
\* The registers are those of the coding.
RegistersReported ==
  /\ usartOn <=> mode = "USBSERIAL"
  /\ pc # "lineChanged" =>
       /\ mode = ModeFor(LineEncoding.BaudRateBPS)
       /\ usartOn => registers = RegistersFor(LineEncoding)

\* No step takes them apart but the one that is about to put them together.
LEMMA StepReports ==
  RegistersReported /\ [Next]_vars => RegistersReported'
<1> SUFFICES ASSUME RegistersReported, [Next]_vars PROVE RegistersReported'
  OBVIOUS
<1> USE DEF RegistersReported, lineVars
<1>1. CASE Bus \/ UNCHANGED vars
  BY <1>1 DEF Bus, vars, mainVars
<1>2. CASE ReadLineEncoding \/ SkipLineEncoding
  BY <1>2 DEF ReadLineEncoding, SkipLineEncoding
<1>3. CASE ChangeLineEncoding \/ ConnectionLost
  BY <1>3 DEF ChangeLineEncoding, ConnectionLost, LineEncodingChanged
<1>4. CASE SetLineEncoding
  BY <1>4 DEF SetLineEncoding
<1>5. CASE WatchdogReset
  BY <1>5 DEF WatchdogReset, NoCoding, ModeFor
<1>6. CASE \/ ReadLastState \/ NoControlRequest \/ SetAddress \/ FinishSetAddress
           \/ SetConfiguration \/ FinishSetConfiguration \/ SetControlLineState
           \/ BeginReply \/ EndReply \/ BreakOffReply
           \/ BeginStatus \/ EndStatus \/ GiveUpStatus \/ Stall
           \/ ReadNewState \/ TimerOverflow \/ NoTimerOverflow \/ EndCommand
           \/ \E active \in SUBSET AllLeds : Transfer(active)
           \/ \E exit \in BOOLEAN : BeginCommand(exit)
  BY <1>6 DEF ReadLastState, NoControlRequest, SetAddress, FinishSetAddress,
     SetConfiguration, FinishSetConfiguration, SetControlLineState, BeginReply, EndReply,
     BreakOffReply, BeginStatus, EndStatus, GiveUpStatus, Stall,
     ReadNewState, TimerOverflow, NoTimerOverflow, EndCommand, Transfer, BeginCommand
<1> QED
  BY <1>1, <1>2, <1>3, <1>4, <1>5, <1>6 DEF Next, Unaided, Control

\* The mask of a coding the USART knows is the frame of that coding.
LEMMA FrameIsRight ==
  ASSUME NEW coding \in CodingType, Supported(coding)
  PROVE  FrameOf(ConfigMask(coding)) =
           [CharFormat |-> coding.CharFormat, ParityType |-> coding.ParityType,
            DataBits |-> coding.DataBits]
<1> DEFINE mask == ConfigMask(coding)
<1>1. "USBS1" \in mask <=> coding.CharFormat = "TwoStopBits"
  BY DEF ConfigMask, ParityMask, DataBitsMask
<1>2. /\ "UPM11" \in mask <=> coding.ParityType \in {"Odd", "Even"}
      /\ "UPM10" \in mask <=> coding.ParityType = "Odd"
  BY DEF ConfigMask, ParityMask, DataBitsMask
<1>3. /\ "UCSZ10" \in mask <=> coding.DataBits \in {6, 8}
      /\ "UCSZ11" \in mask <=> coding.DataBits \in {7, 8}
  BY DEF ConfigMask, ParityMask, DataBitsMask
<1>4. coding.DataBits = 5 \/ coding.DataBits = 6 \/ coding.DataBits = 7 \/ coding.DataBits = 8
  BY DEF Supported
<1>5. coding.CharFormat \in {"OneStopBit", "TwoStopBits"}
  BY DEF Supported, CodingType
<1>6. coding.ParityType \in {"None", "Odd", "Even"}
  BY DEF Supported
<1> QED
  BY <1>1, <1>2, <1>3, <1>4, <1>5, <1>6 DEF FrameOf
\* Rounding: the divisor with double speed is within half a rate of the clock.
LEMMA Rounding ==
  ASSUME NEW C \in Nat, NEW rate \in Nat, rate # 0
  PROVE  LET q == (C + rate \div 2) \div rate
         IN  q \in Nat /\ 2 * (q * rate) <= 2 * C + rate /\ 2 * (q * rate) >= 2 * C - rate
<1> DEFINE h == rate \div 2
           q == (C + h) \div rate
<1>1. h \in Nat /\ (rate = 2 * h \/ rate = 2 * h + 1)
  OBVIOUS
<1>2. C + h \in Nat
  BY <1>1
<1>3. q \in Nat /\ q * rate <= C + h /\ C + h < (q + 1) * rate
  <2> HIDE DEF h
  <2> QED BY <1>2
<1>4. (q + 1) * rate = q * rate + rate
  <2> HIDE DEF q
  <2> QED BY <1>3
<1>5. q * rate \in Nat
  <2> HIDE DEF q
  <2> QED BY <1>3
<1> HIDE DEF q, h
<1>6. 2 * (q * rate) <= 2 * C + rate /\ 2 * (q * rate) >= 2 * C - rate
  BY <1>1, <1>3, <1>4, <1>5
<1> QED
  BY <1>3, <1>6 DEF q, h

\* A rate that fits in it k times has a quotient of at least k.
LEMMA QuotientAtLeast ==
  ASSUME NEW C \in Nat, NEW rate \in Nat, rate # 0, NEW k \in Nat, k * rate <= C
  PROVE  C \div rate >= k
<1>1. PICK d \in Nat : d = C \div rate /\ C < (d + 1) * rate
  OBVIOUS
<1>2. SUFFICES ASSUME d + 1 <= k PROVE FALSE
  BY <1>1
<1>3. (d + 1) * rate <= k * rate
  BY <1>2
<1> QED
  BY <1>1, <1>3

\* The divisor in use keeps the bit time of every rate the registers can hold.
LEMMA BitTime ==
  ASSUME NEW rate \in Nat,
         (F_CPU \div 16) \div 4096 < rate, rate <= F_CPU \div 8,
         \/ BAUDRATE_CDC_BOOTLOADER = 57600
         \/ SERIAL_2X_UBBRVAL(rate) # SERIAL_2X_UBBRVAL(57600)
  PROVE  BitTimeIsRight(Divisor(rate), rate)
<1>1. PICK C \in Nat, H \in Nat : C = F_CPU \div 8 /\ H = F_CPU \div 16
                                /\ F_CPU = 8 * C /\ C = 2 * H
  <2>1. PICK h \in Nat : F_CPU = 16 * h
    <3> DEFINE h == F_CPU \div 16
    <3>1. h \in Nat /\ F_CPU = 16 * h
      BY ClockAssumption
    <3> HIDE DEF h
    <3> QED
      BY <3>1
  <2>2. F_CPU \div 8 = 2 * h /\ F_CPU \div 16 = h
    BY <2>1
  <2>3. 2 * h \in Nat /\ F_CPU = 8 * (2 * h)
    BY <2>1
  <2> QED
    BY <2>2, <2>3
<1>2. rate # 0 /\ rate <= C /\ C < 8192 * rate
  <2>1. PICK d \in Nat : d = H \div 4096 /\ H < 4096 * d + 4096
    BY <1>1
  <2>2. d + 1 <= rate
    BY <1>1, <2>1
  <2> QED
    BY <1>1, <2>1, <2>2
<1>3. PICK q \in Nat : /\ q = (C + rate \div 2) \div rate
                      /\ 2 * (q * rate) <= 2 * C + rate
                      /\ 2 * (q * rate) >= 2 * C - rate
  <2> DEFINE r == (C + rate \div 2) \div rate
  <2>1. r \in Nat /\ 2 * (r * rate) <= 2 * C + rate /\ 2 * (r * rate) >= 2 * C - rate
    BY <1>2, Rounding
  <2> HIDE DEF r
  <2>2. \E s \in Nat : /\ s = r
                      /\ 2 * (s * rate) <= 2 * C + rate
                      /\ 2 * (s * rate) >= 2 * C - rate
    BY <2>1
  <2> QED
    BY <2>2 DEF r
<1>4. PICK p \in Nat : p = q * rate
  BY <1>3
<1>5. q >= 1
  <2>1. SUFFICES ASSUME q = 0 PROVE FALSE
    BY <1>3
  <2>2. p = 0
    BY <1>4, <2>1
  <2> QED
    BY <1>2, <1>3, <1>4, <2>2
<1>6. q <= 8192
  <2>1. SUFFICES ASSUME q >= 8193 PROVE FALSE
    BY <1>3
  <2>2. p >= 8193 * rate
    BY <1>4, <2>1
  <2> QED
    BY <1>2, <1>3, <1>4, <2>2
<1>7. SERIAL_2X_UBBRVAL(rate) = q - 1
  BY <1>1, <1>3, <1>5, <1>6 DEF SERIAL_2X_UBBRVAL
<1>8. 8 * p <= F_CPU + 4 * rate /\ 8 * p >= F_CPU - 4 * rate
  BY <1>1, <1>3, <1>4
<1>9. ~(q - 1 = SERIAL_2X_UBBRVAL(57600) /\ BAUDRATE_CDC_BOOTLOADER # 57600)
  BY <1>7
<1>div. Divisor(rate) = DivisorFrom(q - 1)
  BY <1>7 DEF Divisor
<1>10. CASE q % 2 = 0
  <2>1. PICK k \in Nat : q = 2 * k /\ k >= 1 /\ k <= 4096
    BY <1>5, <1>6, <1>10
  <2>2. (q - 1) % 2 = 1 /\ ((q - 1) \div 2) % 4096 = k - 1
    BY <2>1
  <2>3. Divisor(rate) = [UBRR1 |-> k - 1, U2X1 |-> FALSE]
    <3> DEFINE half == ((q - 1) \div 2) % 4096
    <3>1. DivisorFrom(q - 1) = [UBRR1 |-> half, U2X1 |-> FALSE]
      BY <2>2 DEF DivisorFrom
    <3>2. half = k - 1
      BY <2>2
    <3> HIDE DEF half
    <3> QED
      BY <1>div, <3>1, <3>2
  <2>4. CyclesPerBit(Divisor(rate)) = 8 * q
    BY <2>1, <2>3 DEF CyclesPerBit
  <2>5. (8 * q) * rate = 8 * p
    BY <1>4
  <2> QED
    BY <1>1, <1>8, <2>4, <2>5 DEF BitTimeIsRight
<1>11. CASE q % 2 = 1 /\ q <= 4096
  <2>1. (q - 1) % 2 = 0 /\ ~(q - 1 > 4095)
    BY <1>11
  <2>2. Divisor(rate) = [UBRR1 |-> q - 1, U2X1 |-> TRUE]
    BY <1>div, <1>9, <2>1 DEF DivisorFrom
  <2>3. CyclesPerBit(Divisor(rate)) = 8 * q
    BY <2>2 DEF CyclesPerBit
  <2>4. (8 * q) * rate = 8 * p
    BY <1>4
  <2> QED
    BY <1>1, <1>8, <2>3, <2>4 DEF BitTimeIsRight
<1>12. CASE q % 2 = 1 /\ q > 4096
  <2>1. PICK k \in Nat : q = 2 * k + 1 /\ k <= 4095
    BY <1>6, <1>12
  <2>2. q - 1 > 4095 /\ ((q - 1) \div 2) % 4096 = k
    BY <1>12, <2>1
  <2>3. Divisor(rate) = [UBRR1 |-> k, U2X1 |-> FALSE]
    <3> DEFINE half == ((q - 1) \div 2) % 4096
    <3>1. DivisorFrom(q - 1) = [UBRR1 |-> half, U2X1 |-> FALSE]
      BY <2>2 DEF DivisorFrom
    <3>2. half = k
      BY <2>2
    <3> HIDE DEF half
    <3> QED
      BY <1>div, <3>1, <3>2
  <2>4. CyclesPerBit(Divisor(rate)) = 8 * q + 8
    BY <2>1, <2>3 DEF CyclesPerBit
  <2>5. (8 * q + 8) * rate = 8 * p + 8 * rate
    BY <1>4
  <2>6. p >= 4097 * rate
    BY <1>4, <1>12
  <2>7. 4096 * rate <= C
    BY <1>3, <1>4, <2>6
  <2>8. (F_CPU \div 8) \div rate >= 4096
    BY <1>1, <1>2, <2>7, QuotientAtLeast
  <2> QED
    BY <1>1, <1>8, <2>4, <2>5, <2>8 DEF BitTimeIsRight
<1> QED
  BY <1>10, <1>11, <1>12

\* The mode and the line are the ones the host is told, whatever the bus does meanwhile and
\* whatever codings the host asks for.
THEOREM LineIsWhatIsReported == Spec => []LineIsReported
<1>1. Init => RegistersReported
  BY DEF Init, MainInit, RegistersReported, NoCoding, ModeFor
<1>2. TypeOK /\ RegistersReported => LineIsReported
  <2> SUFFICES ASSUME TypeOK, RegistersReported, pc # "lineChanged", usartOn, Supported(LineEncoding)
               PROVE  Meets(registers, LineEncoding)
    BY DEF LineIsReported, RegistersReported
  <2>1. LineEncoding \in CodingType /\ registers = RegistersFor(LineEncoding)
    BY DEF TypeOK, RegistersReported
  <2>2. LineEncoding.BaudRateBPS \in Nat
    BY <2>1 DEF CodingType
  <2>3. BitTimeIsRight(Divisor(LineEncoding.BaudRateBPS), LineEncoding.BaudRateBPS)
    BY <2>2, BitTime DEF Supported
  <2> QED
    BY <2>1, <2>3, FrameIsRight DEF Meets, RegistersFor
<1> QED
  BY <1>1, <1>2, StepReports, TypeCorrect, PTL DEF Spec

-----------------------------------------------------------------------------
(* No other setting of the USART is nearer to the rate. *)

Divisors == [UBRR1 : TwelveBits, U2X1 : BOOLEAN]

\* What a bit takes too long or too short, in clock cycles for `rate' bits.
Miss(divisor, rate) ==
  LET cycles == CyclesPerBit(divisor) * rate
  IN  IF cycles >= F_CPU THEN cycles - F_CPU ELSE F_CPU - cycles

Nearest(divisor, rate) == \A d \in Divisors : Miss(divisor, rate) <= Miss(d, rate)

\* While the double speed divisor of the rate fits UBRR1.
LineIsNearest ==
  /\ usartOn /\ pc # "lineChanged" /\ Supported(LineEncoding)
  /\ (F_CPU \div 8) \div LineEncoding.BaudRateBPS < 4096
  => Nearest(registers.divisor, LineEncoding.BaudRateBPS)

\* Bit times come in steps of eight cycles.
LEMMA CyclesAreEights ==
  ASSUME NEW d \in Divisors PROVE \E n \in Nat : CyclesPerBit(d) = 8 * n
<1>1. PICK u \in Nat : u = d.UBRR1
  <2>1. d.UBRR1 \in TwelveBits
    BY DEF Divisors
  <2>2. \A n \in TwelveBits : n \in Nat
    BY DEF TwelveBits
  <2> QED
    BY <2>1, <2>2
<1>2. CASE d.U2X1
  <2>1. CyclesPerBit(d) = 8 * (u + 1)
    BY <1>1, <1>2 DEF CyclesPerBit
  <2> QED
    BY <1>1, <2>1
<1>3. CASE ~d.U2X1
  <2>1. CyclesPerBit(d) = 8 * (2 * u + 2) /\ 2 * u + 2 \in Nat
    BY <1>1, <1>3 DEF CyclesPerBit
  <2> QED
    BY <2>1
<1> QED
  BY <1>2, <1>3

\* Half a step off the mark, no other step is nearer.
LEMMA HalfAStepIsNearest ==
  ASSUME NEW rate \in Nat, rate # 0, NEW divisor \in Divisors,
         (F_CPU \div 8) \div rate < 4096, BitTimeIsRight(divisor, rate)
  PROVE  Nearest(divisor, rate)
<1> SUFFICES ASSUME NEW d \in Divisors PROVE Miss(divisor, rate) <= Miss(d, rate)
  BY DEF Nearest
<1>1. PICK m \in Nat : CyclesPerBit(divisor) = 8 * m
  BY CyclesAreEights
<1>2. PICK n \in Nat : CyclesPerBit(d) = 8 * n
  BY CyclesAreEights
<1>3. PICK x \in Nat, y \in Nat : x = m * rate /\ y = n * rate
  OBVIOUS
<1>4. CyclesPerBit(divisor) * rate = 8 * x /\ CyclesPerBit(d) * rate = 8 * y
  BY <1>1, <1>2, <1>3
<1>5. 8 * x <= F_CPU + 4 * rate /\ 8 * x >= F_CPU - 4 * rate
  <2>1. ~((F_CPU \div 8) \div rate >= 4096)
    BY ClockAssumption
  <2> QED
    BY <1>4, <2>1 DEF BitTimeIsRight
<1>6. x = y \/ x >= y + rate \/ y >= x + rate
  <2>1. CASE m = n
    BY <1>3, <2>1
  <2>2. CASE m >= n + 1
    <3>1. m * rate >= (n + 1) * rate
      BY <2>2
    <3> QED
      BY <1>3, <3>1
  <2>3. CASE n >= m + 1
    <3>1. n * rate >= (m + 1) * rate
      BY <2>3
    <3> QED
      BY <1>3, <3>1
  <2> QED
    BY <2>1, <2>2, <2>3
<1> QED
  BY <1>4, <1>5, <1>6, ClockAssumption DEF Miss

\* The line runs at the rate the host is told, or the nearest one the USART has: no other
\* divisor, with or without the double speed, comes closer to it.
THEOREM LineRunsAtNearestRate == Spec => []LineIsNearest
<1>1. TypeOK /\ LineIsReported => LineIsNearest
  <2> SUFFICES ASSUME TypeOK, LineIsReported, usartOn, pc # "lineChanged", Supported(LineEncoding),
                      (F_CPU \div 8) \div LineEncoding.BaudRateBPS < 4096
               PROVE  Nearest(registers.divisor, LineEncoding.BaudRateBPS)
    BY DEF LineIsNearest
  <2> DEFINE rate == LineEncoding.BaudRateBPS
  <2>1. registers.divisor \in Divisors /\ rate \in Nat
    BY DEF TypeOK, RegistersType, CodingType, Divisors
  <2>2. BitTimeIsRight(registers.divisor, rate)
    BY DEF LineIsReported, Meets
  <2>3. rate # 0
    <3>1. PICK h \in Nat : h = F_CPU \div 16
      BY ClockAssumption
    <3>2. h \div 4096 \in Nat /\ h \div 4096 < rate
      BY <3>1 DEF Supported
    <3> QED
      BY <2>1, <3>2
  <2> QED
    <3> HIDE DEF rate
    <3>1. (F_CPU \div 8) \div rate < 4096
      BY DEF rate
    <3>2. Nearest(registers.divisor, rate)
      BY <2>1, <2>2, <2>3, <3>1, HalfAStepIsNearest
    <3> QED
      BY <3>2 DEF rate
<1> QED
  BY <1>1, TypeCorrect, LineIsWhatIsReported, PTL

-----------------------------------------------------------------------------
(* The clean up of a lost connection: complete, when main() sees the loss. *)

\* A loss that the two reads of a turn have seen, or will see.
SeenLoss ==
  \/ pc = "lost"
  \/ /\ lastState = "Configured"
     /\ pc \in {"control", "address", "configuration", "reply", "status", "lineData",
                "lineChanged", "newState"}

\* The bus takes the connection away between the second read of a turn and the first of the
\* next, or in a turn whose first read did not find it.
LosesUnseen == Bus /\ ~Lost /\ Lost' /\ ~SeenLoss

\* "Break and disable USART on connection lost": a loss that is not still to be acted upon
\* finds the mode off, the USART off and the LEDs dark.
ClosesWhenLost == Lost /\ ~SeenLoss => mode = "OFF" /\ ~usartOn /\ LEDs = {}

\* How far the enumeration has come, whatever the bus does: what is asked, what is being
\* served and the address, the number and the state agree.
Enumerated ==
  /\ ~addressSet => Lost /\ USB_Device_ConfigurationNumber = 0
  /\ setup.type = "SetConfiguration" => addressSet
  /\ setup.type = "SetAddress" \/ pc = "address" =>
       Lost /\ USB_Device_ConfigurationNumber = 0
  /\ setup.type = "SetAddress" /\ pc = "configuration" => ~addressSet
  /\ USB_Device_ConfigurationNumber # 0 /\ ~frozen => ~Lost \/ pc = "configuration"
  /\ setup.type = "SetLineEncoding" => USB_Device_ConfigurationNumber # 0

\* What is closed stays closed: main() changes the mode only by a coding that it reads from
\* a configured device that is awake, or that the loss has cleared.
ClosedWhenLost ==
  /\ pc \in {"transfer", "command", "timer"} => ~Lost
  /\ Lost /\ ~SeenLoss =>
       /\ mode = "OFF" /\ ModeFor(LineEncoding.BaudRateBPS) = "OFF"
       /\ ~usartOn /\ LEDs = {}
       /\ pc = "lineData" => frozen /\ USB_Device_ConfigurationNumber # 0

\* What a request in the endpoint may be of.
LEMMA RequestTypes ==
  ASSUME NEW r \in Requests
  PROVE  r.type = "SetLineEncoding" => r \in ClassRequests
<1>1. CASE r \in ClassRequests
  BY <1>1
<1>2. CASE r \in [type : {"SetAddress", "GetDescriptor", "GetStatus", "unknown"}]
  BY <1>2
<1>3. CASE r \in [type : {"SetConfiguration"}, number : {0, 1, 2}]
  BY <1>3
<1> QED
  BY <1>1, <1>2, <1>3 DEF Requests, StandardRequests

\* The bus keeps the enumeration in step.
LEMMA BusEnumerates == Enumerated /\ Bus => Enumerated'
<1> SUFFICES ASSUME Enumerated, Bus PROVE Enumerated'
  OBVIOUS
<1> USE DEF Enumerated, Lost
<1>1. pc' = pc
  BY DEF Bus, mainVars
<1>2. CASE Suspend
  BY <1>1, <1>2 DEF Suspend
<1>3. CASE WakeUp
  BY <1>1, <1>3 DEF WakeUp
<1>4. CASE BusReset
  BY <1>1, <1>4 DEF BusReset, NoRequest
<1>5. ASSUME NEW r \in Requests, HostRequests(r) PROVE Enumerated'
  <2>1. UNCHANGED <<pc, USB_DeviceState, USB_Device_ConfigurationNumber, addressSet, frozen>>
    BY <1>1, <1>5 DEF HostRequests
  <2>2. /\ r.type = "SetAddress" => USB_DeviceState \in {"Default", "Powered"} /\ ~addressSet
        /\ r.type = "SetConfiguration" => addressSet
        /\ r.type = "SetLineEncoding" => USB_Device_ConfigurationNumber # 0
        /\ setup' = r
    BY <1>5, RequestTypes DEF HostRequests
  <2> QED
    BY <2>1, <2>2
<1> QED
  BY <1>2, <1>3, <1>4, <1>5 DEF Bus

\* So does main().
LEMMA StepEnumerates == TypeOK /\ Enumerated /\ [Next]_vars => Enumerated'
<1> SUFFICES ASSUME TypeOK, Enumerated, [Next]_vars PROVE Enumerated'
  OBVIOUS
<1> USE DEF Enumerated, Lost
<1>1. CASE Bus
  BY <1>1, BusEnumerates
<1>2. CASE SetAddress
  BY <1>2 DEF SetAddress, OnlyClearSETUP, ClearSETUP, NoRequest
<1>3. CASE FinishSetAddress
  BY <1>3 DEF FinishSetAddress, EnableDeviceAddress
<1>4. CASE SetConfiguration
  BY <1>4 DEF SetConfiguration, BeginSetConfiguration, ClearSETUP, NoRequest
<1>5. CASE FinishSetConfiguration
  BY <1>5 DEF FinishSetConfiguration, EndSetConfiguration
<1>6. CASE BeginReply \/ BeginStatus \/ Stall \/ SetControlLineState \/ SetLineEncoding
  <2>1. setup' = NoRequest /\ pc' \in {"reply", "status", "newState", "lineData"}
    BY <1>6 DEF BeginReply, BeginStatus, Stall, SetControlLineState, SetLineEncoding,
       OnlyClearSETUP, ClearSETUP
  <2>2. UNCHANGED <<USB_DeviceState, USB_Device_ConfigurationNumber, addressSet, frozen>>
    BY <1>6 DEF BeginReply, BeginStatus, Stall, SetControlLineState, SetLineEncoding,
       OnlyClearSETUP
  <2>3. pc = "control"
    BY <1>6 DEF BeginReply, BeginStatus, Stall, SetControlLineState, SetLineEncoding
  <2> QED
    BY <2>1, <2>2, <2>3 DEF NoRequest
<1>7. CASE WatchdogReset
  BY <1>7 DEF WatchdogReset, DeviceReset, NoRequest
<1>8. CASE UNCHANGED vars
  BY <1>8 DEF vars, devVars, mainVars
<1>9. CASE \/ ReadLastState \/ NoControlRequest \/ BreakOffReply \/ EndReply \/ EndStatus
           \/ GiveUpStatus \/ ReadLineEncoding \/ SkipLineEncoding \/ ChangeLineEncoding
           \/ ReadNewState \/ ConnectionLost \/ TimerOverflow \/ NoTimerOverflow \/ EndCommand
           \/ \E active \in SUBSET AllLeds : Transfer(active)
           \/ \E exit \in BOOLEAN : BeginCommand(exit)
  <2>1. UNCHANGED devVars
    BY <1>9 DEF ReadLastState, NoControlRequest, BreakOffReply, EndReply, EndStatus,
       GiveUpStatus, ReadLineEncoding, SkipLineEncoding, ChangeLineEncoding, ReadNewState,
       ConnectionLost, TimerOverflow, NoTimerOverflow, EndCommand, Transfer, BeginCommand
  <2>2. pc # "configuration" /\ pc' \notin {"address", "configuration"}
    BY <1>9 DEF ReadLastState, NoControlRequest, BreakOffReply, EndReply, EndStatus,
       GiveUpStatus, ReadLineEncoding, SkipLineEncoding, ChangeLineEncoding, ReadNewState,
       ConnectionLost, TimerOverflow, NoTimerOverflow, EndCommand, Transfer, BeginCommand
  <2> QED
    BY <2>1, <2>2 DEF devVars
<1> QED
  BY <1>1, <1>2, <1>3, <1>4, <1>5, <1>6, <1>7, <1>8, <1>9 DEF Next, Unaided, Control

\* What the bus does keeps it, but for the losses main() does not see.
LEMMA BusKeepsClosed ==
  Enumerated /\ ClosedWhenLost /\ Bus /\ ~LosesUnseen => ClosedWhenLost'
<1> SUFFICES ASSUME Enumerated, ClosedWhenLost, Bus, ~LosesUnseen PROVE ClosedWhenLost'
  OBVIOUS
<1>1. UNCHANGED <<pc, lastState, mode, LineEncoding, usartOn, LEDs>>
  BY DEF Bus, mainVars, lineVars, ledVars
<1>2. SeenLoss' <=> SeenLoss
  BY <1>1 DEF SeenLoss
<1>3. CASE ~Lost'
  BY <1>1, <1>3 DEF ClosedWhenLost
<1>4. CASE SeenLoss
  BY <1>1, <1>2, <1>4 DEF ClosedWhenLost, SeenLoss
<1>5. CASE Lost /\ Lost' /\ ~SeenLoss
  <2>1. /\ pc \notin {"transfer", "command", "timer"}
        /\ mode = "OFF" /\ ModeFor(LineEncoding.BaudRateBPS) = "OFF"
        /\ ~usartOn /\ LEDs = {}
        /\ pc = "lineData" => frozen /\ USB_Device_ConfigurationNumber # 0
    BY <1>5 DEF ClosedWhenLost
  <2>2. pc = "lineData" => frozen' /\ USB_Device_ConfigurationNumber' # 0
    <3> SUFFICES ASSUME pc = "lineData"
                 PROVE  frozen' /\ USB_Device_ConfigurationNumber' # 0
      OBVIOUS
    <3>1. frozen /\ USB_Device_ConfigurationNumber # 0
      BY <2>1
    <3>2. ~WakeUp
      BY <1>5, <3>1 DEF WakeUp, Lost
    <3>3. ~BusReset /\ \A r \in Requests : ~HostRequests(r)
      BY <3>1 DEF BusReset, HostRequests
    <3>4. Suspend
      BY <3>2, <3>3 DEF Bus
    <3> QED
      BY <3>1, <3>4 DEF Suspend
  <2>3. /\ pc' = pc /\ mode' = mode /\ LineEncoding' = LineEncoding
        /\ usartOn' = usartOn /\ LEDs' = LEDs
    BY <1>1
  <2> QED
    BY <2>1, <2>2, <2>3 DEF ClosedWhenLost
<1>6. Lost' => Lost \/ SeenLoss
  BY DEF LosesUnseen
<1> QED
  BY <1>3, <1>4, <1>5, <1>6

\* No step of main() opens what is closed, and every loss that it sees or causes it cleans up
\* after.
LEMMA StepKeepsClosed ==
  TypeOK /\ Enumerated /\ ClosedWhenLost /\ [Next]_vars /\ [~LosesUnseen]_vars
    => ClosedWhenLost'
<1> SUFFICES ASSUME TypeOK, Enumerated, ClosedWhenLost, [Next]_vars, [~LosesUnseen]_vars
             PROVE  ClosedWhenLost'
  OBVIOUS
<1>1. CASE UNCHANGED vars
  BY <1>1 DEF vars, devVars, mainVars, lineVars, ledVars, ClosedWhenLost, SeenLoss, Lost
<1>2. CASE Bus
  <2>1. CASE ~LosesUnseen
    BY <1>2, <2>1, BusKeepsClosed
  <2> QED
    BY <1>1, <2>1
<1> USE DEF ClosedWhenLost, SeenLoss, Lost
<1>3. CASE ReadLastState
  BY <1>3 DEF ReadLastState, devVars, lineVars, ledVars
<1>4. CASE SetAddress \/ SetConfiguration \/ BeginReply \/ BeginStatus \/ Stall
           \/ SetControlLineState
  BY <1>4 DEF SetAddress, SetConfiguration, BeginReply, BeginStatus, Stall,
     SetControlLineState, OnlyClearSETUP, BeginSetConfiguration, lineVars, ledVars
<1>5. CASE FinishSetAddress
  <2>1. Lost
    BY <1>5 DEF FinishSetAddress, Enumerated
  <2> QED
    BY <1>5, <2>1 DEF FinishSetAddress, EnableDeviceAddress, lineVars, ledVars
<1>6. CASE FinishSetConfiguration
  <2>1. addressSet \/ Lost
    BY DEF Enumerated
  <2> QED
    BY <1>6, <2>1 DEF FinishSetConfiguration, EndSetConfiguration, lineVars, ledVars
<1>7. CASE SetLineEncoding
  <2>1. USB_Device_ConfigurationNumber # 0 /\ pc = "control"
    BY <1>7 DEF SetLineEncoding, Enumerated
  <2>2. frozen \/ ~Lost
    BY <2>1 DEF Enumerated
  <2> QED
    BY <1>7, <2>1, <2>2 DEF SetLineEncoding, OnlyClearSETUP, ledVars, TypeOK, DeviceTypeOK
<1>8. CASE ReadLineEncoding
  BY <1>8 DEF ReadLineEncoding, devVars, ledVars
<1>9. CASE SkipLineEncoding \/ NoControlRequest \/ BreakOffReply \/ EndReply \/ EndStatus
           \/ GiveUpStatus
  BY <1>9 DEF SkipLineEncoding, NoControlRequest, BreakOffReply, EndReply, EndStatus,
     GiveUpStatus, devVars, lineVars, ledVars
<1>10. CASE ChangeLineEncoding
  BY <1>10 DEF ChangeLineEncoding, LineEncodingChanged, devVars, ledVars
<1>11. CASE ReadNewState
  BY <1>11 DEF ReadNewState, devVars, lineVars, ledVars
<1>12. CASE ConnectionLost
  <2>1. LineEncoding'.BaudRateBPS = 0
    BY <1>12 DEF ConnectionLost, TypeOK, CodingType
  <2> QED
    BY <1>12, <2>1 DEF ConnectionLost, LineEncodingChanged, ModeFor
<1>13. CASE WatchdogReset
  BY <1>13 DEF WatchdogReset, NoCoding, ModeFor
<1>14. CASE \/ TimerOverflow \/ NoTimerOverflow \/ EndCommand
            \/ \E active \in SUBSET AllLeds : Transfer(active)
            \/ \E exit \in BOOLEAN : BeginCommand(exit)
  <2>1. ~Lost /\ USB_DeviceState' = USB_DeviceState
    BY <1>14 DEF TimerOverflow, NoTimerOverflow, EndCommand, Transfer, BeginCommand, devVars
  <2> QED
    BY <2>1
<1> QED
  BY <1>1, <1>2, <1>3, <1>4, <1>5, <1>6, <1>7, <1>8, <1>9, <1>10, <1>11, <1>12, <1>13,
     <1>14 DEF Next, Unaided, Control

\* Enumeration, address, configuration and suspend: what main() knows of the device and what
\* the device is agree, whatever the bus does between two steps.
THEOREM EnumerationInStep == Spec => []Enumerated
<1>1. Init => Enumerated
  BY DEF Init, DeviceInit, MainInit, Enumerated, Lost, NoRequest
<1> QED
  BY <1>1, StepEnumerates, TypeCorrect, PTL DEF Spec

\* As long as the bus takes the connection away only in turns whose first read has found it,
\* a lost connection closes the line and the LEDs: a loss that is over before a turn looks for
\* it, as the one on which LossDisablesUsart fails, is the whole of the fault.
THEOREM SeenLossesAreCleanedUp ==
  Spec /\ [][~LosesUnseen]_vars => []ClosesWhenLost
<1>1. Init => ClosedWhenLost
  BY DEF Init, DeviceInit, MainInit, ClosedWhenLost, SeenLoss, Lost, NoCoding, ModeFor
<1>2. ClosedWhenLost => ClosesWhenLost
  BY DEF ClosedWhenLost, ClosesWhenLost
<1> QED
  BY <1>1, <1>2, StepKeepsClosed, EnumerationInStep, TypeCorrect, PTL DEF Spec
=============================================================================
