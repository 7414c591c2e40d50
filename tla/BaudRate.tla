------------------------------- MODULE BaudRate -------------------------------
(***************************************************************************)
(* What a line coding of the host becomes in the registers of USART1: the  *)
(* divisor, the double speed bit and the frame format, as                  *)
(* CDC_Device_LineEncodingChanged() computes them; and, from the data      *)
(* sheet, what the line then does.                                         *)
(***************************************************************************)
EXTENDS Integers

CONSTANTS F_CPU,                      \* 16000000
          BAUDRATE_CDC_BOOTLOADER     \* the rate reserved for self programming: 57600

ASSUME ClockAssumption == F_CPU \in Nat \ {0} /\ F_CPU % 16 = 0
ASSUME BootloaderRateAssumption == BAUDRATE_CDC_BOOTLOADER \in Nat \ {0}

CodingType == [BaudRateBPS : Nat,
               CharFormat  : {"OneStopBit", "OneAndAHalfStopBits", "TwoStopBits"},
               ParityType  : {"None", "Odd", "Even", "Mark", "Space"},
               DataBits    : Nat]

\* As the program starts.
NoCoding == [BaudRateBPS |-> 0, CharFormat |-> "OneStopBit", ParityType |-> "None",
             DataBits |-> 8]

TwelveBits == 0..4095

RegistersType == [divisor : [UBRR1 : TwelveBits, U2X1 : BOOLEAN],
                  UCSR1C : SUBSET {"UPM11", "UPM10", "USBS1", "UCSZ11", "UCSZ10"}]

Modes == {"OFF", "BOOTLOADER", "USBSERIAL"}

ModeFor(rate) == IF rate = 0 THEN "OFF"
                 ELSE IF rate = BAUDRATE_CDC_BOOTLOADER THEN "BOOTLOADER" ELSE "USBSERIAL"

\* In 32 bits a quotient of zero goes round, and only 16 bits are kept.
SERIAL_UBBRVAL(rate)    == ((F_CPU \div 16 + rate \div 2) \div rate - 1) % 65536
SERIAL_2X_UBBRVAL(rate) == ((F_CPU \div 8 + rate \div 2) \div rate - 1) % 65536

\* Half of the divisor without the double speed, where that is exact or the twelve bits of
\* UBRR1 ask for it, and for the rate of the ATmega328 bootloader.
DivisorFrom(brr) ==
  IF brr % 2 = 1 \/ brr > 4095
  THEN [UBRR1 |-> (brr \div 2) % 4096, U2X1 |-> FALSE]
  ELSE IF brr = SERIAL_2X_UBBRVAL(57600) /\ BAUDRATE_CDC_BOOTLOADER # 57600
  THEN [UBRR1 |-> SERIAL_UBBRVAL(57600) % 4096, U2X1 |-> FALSE]
  ELSE [UBRR1 |-> brr, U2X1 |-> TRUE]

Divisor(rate) == DivisorFrom(SERIAL_2X_UBBRVAL(rate))

\* Mutated: odd and even exchanged.
ParityMaskSwapped(parity) == CASE parity = "Even" -> {"UPM11", "UPM10"}
                               [] parity = "Odd"  -> {"UPM11"}
                               [] OTHER -> {}

ParityMask(parity) == CASE parity = "Odd"  -> {"UPM11", "UPM10"}
                        [] parity = "Even" -> {"UPM11"}
                        [] OTHER -> {}
DataBitsMask(bits) == CASE bits = 6 -> {"UCSZ10"}
                        [] bits = 7 -> {"UCSZ11"}
                        [] bits = 8 -> {"UCSZ11", "UCSZ10"}
                        [] OTHER -> {}
ConfigMask(coding) ==
  ParityMask(coding.ParityType)
    \cup (IF coding.CharFormat = "TwoStopBits" THEN {"USBS1"} ELSE {})
    \cup DataBitsMask(coding.DataBits)

RegistersFor(coding) == [divisor |-> Divisor(coding.BaudRateBPS), UCSR1C |-> ConfigMask(coding)]

\* With the USART off its divisor is whatever it was: it is left out.
RegistersOff == [divisor |-> [UBRR1 |-> 0, U2X1 |-> FALSE], UCSR1C |-> {}]

-----------------------------------------------------------------------------
(* The data sheet: clock cycles for one bit, and the frame of a UCSR1C. *)

CyclesPerBit(d) == (IF d.U2X1 THEN 8 ELSE 16) * (d.UBRR1 + 1)

FrameOf(mask) ==
  [CharFormat |-> IF "USBS1" \in mask THEN "TwoStopBits" ELSE "OneStopBit",
   ParityType |-> IF "UPM11" \notin mask THEN "None"
                  ELSE IF "UPM10" \in mask THEN "Odd" ELSE "Even",
   DataBits   |-> 5 + (IF "UCSZ10" \in mask THEN 1 ELSE 0) + (IF "UCSZ11" \in mask THEN 2 ELSE 0)]

\* What the USART can do: the other codings are accepted and not met.  The special case for
\* 57600, where it is compiled in, prefers the error of the ATmega328 to the nearest rate.
Supported(coding) ==
  /\ coding.CharFormat # "OneAndAHalfStopBits"
  /\ coding.ParityType \in {"None", "Odd", "Even"}
  /\ coding.DataBits \in 5..8
  /\ (F_CPU \div 16) \div 4096 < coding.BaudRateBPS /\ coding.BaudRateBPS <= F_CPU \div 8
  /\ \/ BAUDRATE_CDC_BOOTLOADER = 57600
     \/ SERIAL_2X_UBBRVAL(coding.BaudRateBPS) # SERIAL_2X_UBBRVAL(57600)

\* A bit lasts as many cycles as asked, to half a step of the double speed divisor, or to a
\* whole step more where that does not fit.
BitTimeIsRight(divisor, rate) ==
  LET cycles == CyclesPerBit(divisor)
      slack  == IF (F_CPU \div 8) \div rate >= 4096 THEN 12 ELSE 4
  IN  /\ cycles * rate <= F_CPU + slack * rate
      /\ cycles * rate >= F_CPU - slack * rate

\* What the line does is what the coding says.
Meets(registers, coding) ==
  /\ FrameOf(registers.UCSR1C) = [CharFormat |-> coding.CharFormat,
                                  ParityType |-> coding.ParityType, DataBits |-> coding.DataBits]
  /\ BitTimeIsRight(registers.divisor, coding.BaudRateBPS)
=============================================================================
