----------------------------- MODULE UsartToUsb ------------------------------
(***************************************************************************)
(* Serial line to host: the USART1_RX interrupt, the USARTtoUSB section of *)
(* main() with its flush timer, and CDC_Device_LineEncodingChanged(),      *)
(* joined by the 256 byte ring at 0x100.  The interrupt alone moves        *)
(* USARTtoUSB_WritePtr and looks at nothing else: it does not know when    *)
(* the ring is full.  main() sends what it finds once the timer has        *)
(* overflowed or a packet's worth has come together.                       *)
(*                                                                         *)
(* Bytes are named by the order in which they arrive on the line.  main()  *)
(* sees the bytes waiting modulo the ring size, so when it starts a packet *)
(* the turns of whole rings of bytes may have been passed over.            *)
(***************************************************************************)
EXTENDS Integers

CONSTANTS USART2USB_BUFLEN,   \* ring size: 256 in the firmware
          CDC_TX_EPSIZE,      \* IN bank size: 64 in the firmware
          CDC_TX_BANK_SIZE,   \* IN banks: 2 in the firmware
          MaxBytes            \* bound: bytes that arrive in one behaviour

ASSUME BuflenAssumption == USART2USB_BUFLEN \in Nat /\ USART2USB_BUFLEN > 1
ASSUME EpsizeAssumption == CDC_TX_EPSIZE \in 2..USART2USB_BUFLEN
ASSUME BankAssumption == CDC_TX_BANK_SIZE \in Nat /\ CDC_TX_BANK_SIZE > 0
ASSUME MaxBytesAssumption == MaxBytes \in Nat

VARIABLES
  pc,                   \* where main() is
  mode,
  Receiving,            \* RXCIE1 and RXEN1 of UCSR1B
  ring,
  USARTtoUSB_WritePtr,
  USARTtoUSB_ReadPtr,
  tmp,                  \* main()'s pointer into the ring
  txcount,              \* main()'s count of bytes still to copy
  TOV0,                 \* the flush timer has overflowed
  fullBanks,            \* IN banks the host has not fetched yet
  received,             \* history: number of the last byte from the line
  delivered,            \* history: number of the last byte whose turn has come
  item,                 \* history: number of the byte put in a bank in that turn
  flushed               \* history: received, when the ring was last emptied

hist == <<received, delivered, item, flushed>>
vars == <<pc, mode, Receiving, ring, USARTtoUSB_WritePtr, USARTtoUSB_ReadPtr,
          tmp, txcount, TOV0, fullBanks, hist>>

Slots == 0..(USART2USB_BUFLEN - 1)
Modes == {"OFF", "BOOTLOADER", "USBSERIAL"}

\* Mutated: no wrap around.
IncWithoutWrap(p) == p + 1

(***************************************************************************)
(* uint8_t pointers into an aligned ring of 256: stepping past the last    *)
(* slot and the distance w - r both wrap.                                  *)
(***************************************************************************)
Inc(p)     == IF p + 1 = USART2USB_BUFLEN THEN 0 ELSE p + 1
Fill(w, r) == IF w >= r THEN w - r ELSE w - r + USART2USB_BUFLEN

count   == Fill(USARTtoUSB_WritePtr, USARTtoUSB_ReadPtr)
INReady == fullBanks < CDC_TX_BANK_SIZE

\* A bank is never filled, so that no zero length packet has to follow it.
MaxPacket == CDC_TX_EPSIZE - 1

TypeOK ==
  /\ pc \in {"loop", "copy", "send", "timer", "flush"}
  /\ mode \in Modes
  /\ Receiving \in BOOLEAN
  /\ ring \in [Slots -> Nat]
  /\ USARTtoUSB_WritePtr \in Slots
  /\ USARTtoUSB_ReadPtr \in Slots
  /\ tmp \in Slots
  /\ txcount \in 0..MaxPacket
  /\ TOV0 \in BOOLEAN
  /\ fullBanks \in 0..CDC_TX_BANK_SIZE
  /\ received \in Nat /\ delivered \in Nat
  /\ item \in Nat /\ flushed \in Nat

Init ==
  /\ pc = "loop" /\ mode = "OFF" /\ Receiving = FALSE
  /\ ring = [s \in Slots |-> 0]
  /\ USARTtoUSB_WritePtr = 0 /\ USARTtoUSB_ReadPtr = 0
  /\ tmp = 0 /\ txcount = 0 /\ TOV0 = FALSE /\ fullBanks = 0
  /\ received = 0 /\ delivered = 0 /\ item = 0 /\ flushed = 0

-----------------------------------------------------------------------------
(* The line, the timer and the host. *)

\* ISR(USART1_RX_vect)
RxIsr ==
  /\ Receiving
  /\ received < MaxBytes
  /\ received' = received + 1
  /\ ring' = [ring EXCEPT ![USARTtoUSB_WritePtr] = received + 1]
  /\ USARTtoUSB_WritePtr' = Inc(USARTtoUSB_WritePtr)
  /\ UNCHANGED <<pc, mode, Receiving, USARTtoUSB_ReadPtr, tmp, txcount, TOV0,
                 fullBanks, delivered, item, flushed>>

TimerOverflow ==
  /\ ~TOV0 /\ TOV0' = TRUE
  /\ UNCHANGED <<pc, mode, Receiving, ring, USARTtoUSB_WritePtr,
                 USARTtoUSB_ReadPtr, tmp, txcount, fullBanks, hist>>

HostFetches ==
  /\ fullBanks > 0 /\ fullBanks' = fullBanks - 1
  /\ UNCHANGED <<pc, mode, Receiving, ring, USARTtoUSB_WritePtr,
                 USARTtoUSB_ReadPtr, tmp, txcount, TOV0, hist>>

-----------------------------------------------------------------------------
(* main() *)

\* Mutated: no flush timer.
WorthSendingFull == /\ mode = "USBSERIAL" /\ count >= MaxPacket
                    /\ INReady

WorthSending == /\ mode = "USBSERIAL" /\ count > 0
                /\ TOV0 \/ count >= MaxPacket
                /\ INReady

\* Mutated: a whole packet whatever is there.
StartFullPacket ==
  /\ pc = "loop" /\ WorthSending
  /\ txcount' = MaxPacket
  /\ tmp' = USARTtoUSB_ReadPtr
  /\ delivered' = received - count
  /\ pc' = "copy"
  /\ UNCHANGED <<mode, Receiving, ring, USARTtoUSB_WritePtr, USARTtoUSB_ReadPtr,
                 TOV0, fullBanks, received, item, flushed>>

StartPacket ==
  /\ pc = "loop" /\ WorthSending
  /\ txcount' = IF MaxPacket > count THEN count ELSE MaxPacket
  /\ tmp' = USARTtoUSB_ReadPtr
  /\ delivered' = received - count
  /\ pc' = "copy"
  /\ UNCHANGED <<mode, Receiving, ring, USARTtoUSB_WritePtr, USARTtoUSB_ReadPtr,
                 TOV0, fullBanks, received, item, flushed>>

CopyByte ==
  /\ pc = "copy"
  /\ delivered' = delivered + 1 /\ item' = ring[tmp]
  /\ tmp' = Inc(tmp)
  /\ txcount' = txcount - 1
  /\ pc' = IF txcount = 1 THEN "send" ELSE "copy"
  /\ UNCHANGED <<mode, Receiving, ring, USARTtoUSB_WritePtr, USARTtoUSB_ReadPtr,
                 TOV0, fullBanks, received, flushed>>

\* Mutated: the read pointer is not saved.
SendPacketAgain ==
  /\ pc = "send"
  /\ fullBanks' = fullBanks + 1
  /\ pc' = "timer"
  /\ UNCHANGED <<mode, Receiving, ring, USARTtoUSB_WritePtr, USARTtoUSB_ReadPtr,
                 tmp, txcount, TOV0, hist>>

SendPacket ==
  /\ pc = "send"
  /\ fullBanks' = fullBanks + 1
  /\ USARTtoUSB_ReadPtr' = tmp
  /\ pc' = "timer"
  /\ UNCHANGED <<mode, Receiving, ring, USARTtoUSB_WritePtr, tmp, txcount,
                 TOV0, hist>>

NothingToSend ==
  /\ pc = "loop" /\ ~WorthSending
  /\ pc' = "timer"
  /\ UNCHANGED <<mode, Receiving, ring, USARTtoUSB_WritePtr, USARTtoUSB_ReadPtr,
                 tmp, txcount, TOV0, fullBanks, hist>>

\* Bootloader_Task() answers through the same banks.
BootloaderAnswers ==
  /\ pc = "loop" /\ mode = "BOOTLOADER" /\ INReady
  /\ fullBanks' = fullBanks + 1 /\ pc' = "timer"
  /\ UNCHANGED <<mode, Receiving, ring, USARTtoUSB_WritePtr, USARTtoUSB_ReadPtr,
                 tmp, txcount, TOV0, hist>>

\* The LED timer is the flush timer: its flag is cleared at the end of every
\* pass, whether or not this pass has looked at it.
ResetTimer ==
  /\ pc = "timer"
  /\ TOV0' = FALSE /\ pc' = "loop"
  /\ UNCHANGED <<mode, Receiving, ring, USARTtoUSB_WritePtr, USARTtoUSB_ReadPtr,
                 tmp, txcount, fullBanks, hist>>

\* CDC_Device_LineEncodingChanged()
CloseUsart ==
  /\ pc = "loop"
  /\ Receiving' = FALSE /\ pc' = "flush"
  /\ UNCHANGED <<mode, ring, USARTtoUSB_WritePtr, USARTtoUSB_ReadPtr, tmp,
                 txcount, TOV0, fullBanks, hist>>

FlushAndReopen(m) ==
  /\ pc = "flush"
  /\ USARTtoUSB_ReadPtr' = 0 /\ USARTtoUSB_WritePtr' = 0
  /\ mode' = m /\ Receiving' = (m = "USBSERIAL")
  /\ delivered' = received /\ flushed' = received
  /\ pc' = "loop"
  /\ UNCHANGED <<ring, tmp, txcount, TOV0, fullBanks, received, item>>

-----------------------------------------------------------------------------
Reopen == \E m \in Modes : FlushAndReopen(m)

Main == \/ StartPacket \/ CopyByte \/ SendPacket \/ NothingToSend
        \/ ResetTimer \/ Reopen

Next == \/ RxIsr \/ TimerOverflow \/ HostFetches
        \/ Main \/ BootloaderAnswers \/ CloseUsart

Spec == Init /\ [][Next]_vars

(***************************************************************************)
(* main() never stops, the host fetches what it is offered, the timer      *)
(* keeps running.  The timer and the loop share no period, so the timer    *)
(* cannot for ever overflow only between main()'s two looks at its flag.   *)
(***************************************************************************)
Fairness == /\ WF_vars(Main) /\ WF_vars(HostFetches)
            /\ SF_vars(TimerOverflow /\ pc = "loop")

FairSpec == Spec /\ Fairness

-----------------------------------------------------------------------------
Channel == INSTANCE LossyByteChannel WITH
  Capacity <- USART2USB_BUFLEN,
  in <- received, out <- delivered, item <- item, open <- Receiving

\* What goes to the host is what came down the line, in order, nothing twice
\* and nothing missing while at most a whole ring is waiting; what an overrun
\* damages is bounded as LossyByteChannel says.
ImplementsChannel == Channel!Spec

\* A byte on its way gets to a bank unless the host sets the line coding or the
\* ring fills up: exactly full, it looks empty to main().
EveryByteSent ==
  \A k \in 1..MaxBytes :
    (Receiving /\ received >= k)
      ~> (~Receiving \/ delivered >= k \/ received - delivered >= USART2USB_BUFLEN)

(***************************************************************************)
(* The inductive invariant: the slot main() reads next, how far it is      *)
(* behind the interrupt, and what the slots between them hold.             *)
(***************************************************************************)
next == IF pc \in {"copy", "send"} THEN tmp ELSE USARTtoUSB_ReadPtr

At(p, i) == IF p + i < USART2USB_BUFLEN THEN p + i ELSE p + i - USART2USB_BUFLEN

\* Bytes overwritten before main() read them.
lost == received - delivered - Fill(USARTtoUSB_WritePtr, next)

Shape ==
  /\ pc \in {"copy", "send"} => mode = "USBSERIAL" /\ INReady
  /\ pc # "flush" => Receiving = (mode = "USBSERIAL")
  /\ pc = "flush" => ~Receiving
  /\ pc = "copy" => txcount \in 1..MaxPacket
  /\ pc = "send" => txcount = 0

\* A packet is announced only for bytes that are there.
PacketBacked ==
  pc = "copy" => txcount <= received - delivered

Contents ==
  \A i \in Slots : received - USART2USB_BUFLEN + 1 + i > flushed =>
    ring[At(USARTtoUSB_WritePtr, i)] = received - USART2USB_BUFLEN + 1 + i

IInv ==
  /\ TypeOK /\ Shape /\ PacketBacked /\ Contents
  /\ flushed <= delivered /\ delivered <= received
  /\ \E k \in 0..received : lost = k * USART2USB_BUFLEN
=============================================================================
