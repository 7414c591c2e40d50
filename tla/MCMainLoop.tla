----------------------------- MODULE MCMainLoop ------------------------------
(* MainLoop for TLC: LED pulses of two timer overflows instead of three; a *)
(* line coding for each way the divisor is found.                          *)
EXTENDS MainLoop

Coding(rate, format, parity, bits) ==
  [BaudRateBPS |-> rate, CharFormat |-> format, ParityType |-> parity, DataBits |-> bits]

MCLineCodings ==
  {Coding(57600, "OneStopBit", "None", 8), Coding(115200, "OneStopBit", "None", 8),
   Coding(9600, "TwoStopBits", "Even", 7), Coding(300, "OneStopBit", "Odd", 6)}

\* Every rate the divisor reaches, up to a hundred thousand.
ASSUME RatesAssumption ==
  \A rate \in 245..100000 : BitTimeIsRight(Divisor(rate), rate)
=============================================================================
