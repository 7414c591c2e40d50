----------------------------- MODULE UsbToUsart ------------------------------
(***************************************************************************)
(* Host to serial line: the USBtoUSART section of main(), the USART1_UDRE  *)
(* interrupt and CDC_Device_LineEncodingChanged(), joined by the 128 byte  *)
(* ring at 0x200.  main() is the only writer of the ring and of            *)
(* USBtoUSART_WritePtr, the interrupt the only one that moves              *)
(* USBtoUSART_ReadPtr, and both store whole values into UCSR1B.            *)
(*                                                                         *)
(* Interrupt handlers run with interrupts off, so one is one step; main()  *)
(* can be interrupted between any two of its own steps.  Bytes are named   *)
(* by the order in which main() reads them from the endpoint.              *)
(***************************************************************************)
EXTENDS Integers

CONSTANTS USB2USART_BUFLEN,   \* ring size: 128 in the firmware
          CDC_RX_EPSIZE,      \* largest OUT packet: 32 in the firmware
          MaxBytes            \* bound: bytes the host sends in one behaviour

ASSUME BuflenAssumption == USB2USART_BUFLEN \in Nat /\ USB2USART_BUFLEN > 1
ASSUME EpsizeAssumption == CDC_RX_EPSIZE \in 1..(USB2USART_BUFLEN - 1)
ASSUME MaxBytesAssumption == MaxBytes \in Nat

VARIABLES
  pc,                   \* where main() is
  mode,
  outReceived,          \* RXOUTI of the OUT endpoint: its bank holds a packet
  outBytes,             \* UEBCX: bytes of it not read yet
  countRX,              \* main()'s count of bytes still to copy
  tmp,                  \* main()'s pointer into the ring
  ring,
  USBtoUSART_WritePtr,
  USBtoUSART_ReadPtr,
  UCSR1B,               \* the set bits
  UDRE1,                \* the USART can take a byte
  taken,                \* history: number of the last byte read from the bank
  published,            \* history: number of the last byte before WritePtr
  delivered,            \* history: number of the last byte given to the USART
  glitched              \* history: the interrupt was enabled on an empty ring

ptrs == <<ring, USBtoUSART_WritePtr, USBtoUSART_ReadPtr>>
bank == <<outReceived, outBytes>>
hist == <<taken, published, delivered, glitched>>
vars == <<pc, mode, bank, countRX, tmp, ptrs, UCSR1B, UDRE1, hist>>

Slots   == 0..(USB2USART_BUFLEN - 1)
Modes   == {"OFF", "BOOTLOADER", "USBSERIAL"}
RxTx    == {"RXCIE1", "TXEN1", "RXEN1"}
RxTxUdr == RxTx \cup {"UDRIE1"}

\* Mutated: no wrap around.
IncWithoutWrap(p) == p + 1

(***************************************************************************)
(* Pointer arithmetic: a pointer stepped past the last slot (andi 0x7F in  *)
(* main(), cbi 7 in the interrupt), the slot i places further on, and the  *)
(* number of bytes between two pointers ((w - r) & 0x7F).                  *)
(***************************************************************************)
Inc(p)     == IF p + 1 = USB2USART_BUFLEN THEN 0 ELSE p + 1
At(p, i)   == IF p + i < USB2USART_BUFLEN THEN p + i ELSE p + i - USB2USART_BUFLEN
Fill(w, r) == IF w >= r THEN w - r ELSE w - r + USB2USART_BUFLEN

\* Mutated: the ring is used to the last slot.
FreeWithoutGap == USB2USART_BUFLEN - Fill(USBtoUSART_WritePtr, USBtoUSART_ReadPtr)

USBtoUSART_free ==
  (USB2USART_BUFLEN - 1) - Fill(USBtoUSART_WritePtr, USBtoUSART_ReadPtr)

TypeOK ==
  /\ pc \in {"loop", "copy", "publish", "arm", "flush"}
  /\ mode \in Modes
  /\ outReceived \in BOOLEAN
  /\ outBytes \in 0..CDC_RX_EPSIZE
  /\ countRX \in 0..CDC_RX_EPSIZE
  /\ tmp \in Slots
  /\ ring \in [Slots -> Nat]
  /\ USBtoUSART_WritePtr \in Slots
  /\ USBtoUSART_ReadPtr \in Slots
  /\ UCSR1B \in {{}, RxTx, RxTxUdr}
  /\ UDRE1 \in BOOLEAN
  /\ taken \in Nat /\ published \in Nat /\ delivered \in Nat
  /\ glitched \in BOOLEAN

Init ==
  /\ pc = "loop" /\ mode = "OFF"
  /\ outReceived = FALSE /\ outBytes = 0
  /\ countRX = 0 /\ tmp = 0
  /\ ring = [s \in Slots |-> 0]
  /\ USBtoUSART_WritePtr = 0 /\ USBtoUSART_ReadPtr = 0
  /\ UCSR1B = {} /\ UDRE1 = TRUE
  /\ taken = 0 /\ published = 0 /\ delivered = 0 /\ glitched = FALSE

-----------------------------------------------------------------------------
(* The host and the wire. *)

\* A packet of n bytes arrives in the one free bank; n = 0 is a zero length
\* packet.
HostSends(n) ==
  /\ ~outReceived
  /\ taken + n <= MaxBytes
  /\ outReceived' = TRUE /\ outBytes' = n
  /\ UNCHANGED <<pc, mode, countRX, tmp, ptrs, UCSR1B, UDRE1, hist>>

\* The transmit buffer moves into the shift register.
ByteShifted ==
  /\ ~UDRE1 /\ UDRE1' = TRUE
  /\ UNCHANGED <<pc, mode, bank, countRX, tmp, ptrs, UCSR1B, hist>>

-----------------------------------------------------------------------------
(* main() *)

ClearOUT == outReceived' = FALSE /\ outBytes' = 0

AckZeroLength ==
  /\ pc = "loop" /\ outReceived /\ outBytes = 0
  /\ ClearOUT
  /\ UNCHANGED <<pc, mode, countRX, tmp, ptrs, UCSR1B, UDRE1, hist>>

\* Bootloader_Task() takes any number of packets and acknowledges the last one,
\* unless it finds the device unattached: then one may stay behind unread.
RunBootloaderTask ==
  /\ pc = "loop" /\ mode = "BOOTLOADER" /\ outReceived /\ outBytes > 0
  /\ \/ ClearOUT
     \/ \E n \in 0..CDC_RX_EPSIZE :
          taken + n <= MaxBytes /\ outReceived' = TRUE /\ outBytes' = n
  /\ UNCHANGED <<pc, mode, countRX, tmp, ptrs, UCSR1B, UDRE1, hist>>

\* Mutated: < for <=.
StartCopyIfRoomToSpare ==
  /\ pc = "loop" /\ mode = "USBSERIAL" /\ outReceived
  /\ outBytes > 0 /\ outBytes < USBtoUSART_free
  /\ pc' = "copy" /\ countRX' = outBytes /\ tmp' = USBtoUSART_WritePtr
  /\ UNCHANGED <<mode, bank, ptrs, UCSR1B, UDRE1, hist>>

\* The whole packet must fit before any of it is copied.
StartCopy ==
  /\ pc = "loop" /\ mode = "USBSERIAL" /\ outReceived
  /\ outBytes > 0 /\ outBytes <= USBtoUSART_free
  /\ pc' = "copy" /\ countRX' = outBytes /\ tmp' = USBtoUSART_WritePtr
  /\ UNCHANGED <<mode, bank, ptrs, UCSR1B, UDRE1, hist>>

CopyByte ==
  /\ pc = "copy"
  /\ ring' = [ring EXCEPT ![tmp] = taken + 1]
  /\ taken' = taken + 1
  /\ tmp' = Inc(tmp)
  /\ outBytes' = outBytes - 1
  /\ countRX' = countRX - 1
  /\ pc' = IF countRX = 1 THEN "publish" ELSE "copy"
  /\ UNCHANGED <<mode, outReceived, USBtoUSART_WritePtr, USBtoUSART_ReadPtr,
                 UCSR1B, UDRE1, published, delivered, glitched>>

Publish ==
  /\ pc = "publish"
  /\ ClearOUT
  /\ USBtoUSART_WritePtr' = tmp
  /\ published' = taken
  /\ pc' = "arm"
  /\ UNCHANGED <<mode, countRX, tmp, ring, USBtoUSART_ReadPtr, UCSR1B, UDRE1,
                 taken, delivered, glitched>>

\* Mutated: UDRIE1 forgotten.
ArmWithoutUdrie ==
  /\ pc = "arm"
  /\ UCSR1B' = RxTx /\ pc' = "loop"
  /\ UNCHANGED <<mode, bank, countRX, tmp, ptrs, UDRE1, hist>>

\* UDRIE1 is switched on whatever the interrupt did since Publish.
Arm ==
  /\ pc = "arm"
  /\ UCSR1B' = RxTxUdr
  /\ glitched' = (glitched \/ USBtoUSART_ReadPtr = USBtoUSART_WritePtr)
  /\ pc' = "loop"
  /\ UNCHANGED <<mode, bank, countRX, tmp, ptrs, UDRE1, taken, published, delivered>>

\* CDC_Device_LineEncodingChanged(), called for a SetLineEncoding request and
\* when the connection is lost: the USART is off before anything is touched.
CloseUsart ==
  /\ pc = "loop"
  /\ UCSR1B' = {}
  /\ pc' = "flush"
  /\ UNCHANGED <<mode, bank, countRX, tmp, ptrs, UDRE1, hist>>

\* Mutated: the write pointer keeps its value.
FlushHalf(m) ==
  /\ pc = "flush"
  /\ USBtoUSART_ReadPtr' = 0
  /\ mode' = m
  /\ UCSR1B' = IF m = "USBSERIAL" THEN RxTx ELSE {}
  /\ delivered' = published /\ glitched' = FALSE
  /\ pc' = "loop"
  /\ UNCHANGED <<bank, countRX, tmp, ring, USBtoUSART_WritePtr, UDRE1, taken, published>>

FlushAndReopen(m) ==
  /\ pc = "flush"
  /\ USBtoUSART_ReadPtr' = 0 /\ USBtoUSART_WritePtr' = 0
  /\ mode' = m
  /\ UCSR1B' = IF m = "USBSERIAL" THEN RxTx ELSE {}
  /\ delivered' = published /\ glitched' = FALSE
  /\ pc' = "loop"
  /\ UNCHANGED <<bank, countRX, tmp, ring, UDRE1, taken, published>>

-----------------------------------------------------------------------------
(* ISR(USART1_UDRE_vect) *)

\* Mutated: the interrupt never turns itself off.
UdreIsrStaysOn ==
  /\ "UDRIE1" \in UCSR1B /\ UDRE1
  /\ UDRE1' = FALSE
  /\ USBtoUSART_ReadPtr' = Inc(USBtoUSART_ReadPtr)
  /\ delivered' = ring[USBtoUSART_ReadPtr]
  /\ UNCHANGED <<pc, mode, bank, countRX, tmp, ring, USBtoUSART_WritePtr, UCSR1B,
                 taken, published, glitched>>

UdreIsr ==
  /\ "UDRIE1" \in UCSR1B /\ UDRE1
  /\ UDRE1' = FALSE
  /\ USBtoUSART_ReadPtr' = Inc(USBtoUSART_ReadPtr)
  /\ LET drained == USBtoUSART_ReadPtr' = USBtoUSART_WritePtr
     IN  /\ UCSR1B' = IF drained THEN RxTx ELSE UCSR1B
         /\ glitched' = (glitched /\ ~drained)
         /\ delivered' = IF ~glitched THEN ring[USBtoUSART_ReadPtr]
                         ELSE IF drained THEN published ELSE delivered
  /\ UNCHANGED <<pc, mode, bank, countRX, tmp, ring, USBtoUSART_WritePtr,
                 taken, published>>

-----------------------------------------------------------------------------
Reopen == \E m \in Modes : FlushAndReopen(m)

Main == \/ AckZeroLength \/ RunBootloaderTask
        \/ StartCopy \/ CopyByte \/ Publish \/ Arm \/ Reopen

Next == \/ \E n \in 0..CDC_RX_EPSIZE : HostSends(n)
        \/ ByteShifted
        \/ Main
        \/ CloseUsart
        \/ UdreIsr

Spec == Init /\ [][Next]_vars

(***************************************************************************)
(* main() polls for ever, a pending interrupt is served, and the USART     *)
(* shifts bytes out on its own clock.  The host owes nothing.              *)
(***************************************************************************)
Fairness == WF_vars(Main) /\ WF_vars(UdreIsr) /\ WF_vars(ByteShifted)

FairSpec == Spec /\ Fairness

-----------------------------------------------------------------------------
Open == UCSR1B # {}

Channel == INSTANCE ByteChannel WITH
  Capacity <- USB2USART_BUFLEN - 1,
  in <- published, out <- delivered, open <- Open, glitched <- glitched

\* The direction is a bounded FIFO: what the interrupt takes out of the ring is
\* exactly what main() put in, in order, none lost and none twice, until the
\* host sets the line coding again.
ImplementsChannel == Channel!Spec

\* Bytes in the ring and the interrupt that would send them is off: possible
\* only in the window between the new pointer and the enable that follows it.
NoLostWakeup ==
  Open /\ USBtoUSART_ReadPtr # USBtoUSART_WritePtr
    => "UDRIE1" \in UCSR1B \/ pc = "arm"

\* A byte main() writes never lands on one the interrupt has still to send:
\* the free space computed before the copy stays enough while it runs.
CopyHasRoom ==
  pc = "copy" /\ ~glitched
    => Fill(tmp, USBtoUSART_ReadPtr) + countRX <= USB2USART_BUFLEN - 1

\* What the interrupt says of itself: "Turn off this interrupt (UDRIE1), all
\* bytes sent".  With no bytes left the interrupt is off.
OffWhenAllSent ==
  "UDRIE1" \in UCSR1B => USBtoUSART_ReadPtr # USBtoUSART_WritePtr

\* The same, apart from the race of Arm against the interrupt.
OffWhenAllSentUnlessGlitched == glitched \/ OffWhenAllSent

\* Every byte handed to the ring reaches the USART unless the host sets the
\* line coding first.
EveryByteSent ==
  \A k \in 1..MaxBytes : (Open /\ published >= k) ~> (~Open \/ delivered >= k)

\* Back pressure ends: a packet the ring had no room for is taken in the end.
PacketTaken ==
  (mode = "USBSERIAL" /\ outReceived) ~> (pc = "flush" \/ ~outReceived)

(***************************************************************************)
(* The inductive invariant behind these: how the pointers, the copy in     *)
(* progress and the contents of the ring hang together.                    *)
(***************************************************************************)
Shape ==
  /\ pc \in {"copy", "publish", "arm"} => mode = "USBSERIAL"
  /\ pc \in {"loop", "copy", "publish", "arm"} => (Open <=> mode = "USBSERIAL")
  /\ pc = "flush" => UCSR1B = {}
  /\ pc \in {"copy", "publish"} => outReceived
  /\ pc = "copy" => countRX > 0 /\ outBytes = countRX
  /\ pc = "publish" => countRX = 0
  /\ glitched => pc = "flush" \/ "UDRIE1" \in UCSR1B

Copied ==
  /\ delivered <= published /\ published <= taken
  /\ pc \in {"loop", "arm", "flush"} => taken = published
  /\ pc \in {"copy", "publish"} =>
       /\ taken - published + countRX <= USB2USART_BUFLEN - 1
       /\ tmp = At(USBtoUSART_WritePtr, taken - published)
       /\ \A i \in 0..(USB2USART_BUFLEN - 1) : i < taken - published =>
            ring[At(USBtoUSART_WritePtr, i)] = published + 1 + i

Window ==
  ~glitched /\ pc # "flush" =>
    /\ published - delivered <= USB2USART_BUFLEN - 1
    /\ USBtoUSART_WritePtr = At(USBtoUSART_ReadPtr, published - delivered)
    /\ pc \in {"copy", "publish"} =>
         taken - delivered + countRX <= USB2USART_BUFLEN - 1
    /\ \A i \in 0..(USB2USART_BUFLEN - 1) : i < published - delivered =>
         ring[At(USBtoUSART_ReadPtr, i)] = delivered + 1 + i

IInv == TypeOK /\ Shape /\ Copied /\ Window /\ NoLostWakeup
               /\ OffWhenAllSentUnlessGlitched
=============================================================================
