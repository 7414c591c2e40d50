--------------------------- MODULE UsartToUsb_proofs ---------------------------
(***************************************************************************)
(* Proofs about UsartToUsb, for every ring, packet and number of banks:    *)
(* IInv is inductive, and with it every step is one of LossyByteChannel,   *)
(* so what an overrun of the ring damages is bounded as stated there.      *)
(* Nothing is damaged while no more than a ring waits, and the count that  *)
(* main() sends by is then what waits.                                     *)
(***************************************************************************)
EXTENDS UsartToUsb, TLAPS

(* The ranges of TypeOK by name. *)
Counts == 0..MaxPacket
Banks  == 0..CDC_TX_BANK_SIZE

Typing ==
  /\ pc \in {"loop", "copy", "send", "timer", "flush"} /\ mode \in Modes
  /\ Receiving \in BOOLEAN /\ TOV0 \in BOOLEAN
  /\ ring \in [Slots -> Nat]
  /\ USARTtoUSB_WritePtr \in Slots /\ USARTtoUSB_ReadPtr \in Slots /\ tmp \in Slots
  /\ txcount \in Counts /\ fullBanks \in Banks
  /\ received \in Nat /\ delivered \in Nat /\ item \in Nat /\ flushed \in Nat

LEMMA TypingIsTypeOK == Typing <=> TypeOK
  BY DEF Typing, TypeOK, Counts, Banks

-----------------------------------------------------------------------------
(* The ring. *)

LEMMA RingSize == USART2USB_BUFLEN \in Nat \ {0, 1} /\ 0 \in Slots
  BY BuflenAssumption DEF Slots

LEMMA PacketSize ==
  /\ MaxPacket \in Nat \ {0} /\ 0 \in Counts
  /\ \A n \in Nat : n \in Counts <=> n <= MaxPacket
<1>1. MaxPacket \in Nat \ {0}
  BY BuflenAssumption, EpsizeAssumption DEF MaxPacket
<1> QED
  <2> HIDE DEF MaxPacket
  <2> QED
    BY <1>1 DEF Counts

LEMMA BankRange ==
  /\ CDC_TX_BANK_SIZE \in Nat /\ 0 \in Banks
  /\ \A n \in Banks : /\ n \in Nat
                      /\ n < CDC_TX_BANK_SIZE => n + 1 \in Banks
                      /\ n > 0 => n - 1 \in Banks
  BY BankAssumption DEF Banks

\* The distance from the slot read to the slot written is less than the ring.
LEMMA FillRange ==
  ASSUME NEW w \in Slots, NEW r \in Slots
  PROVE  /\ Fill(w, r) \in Nat /\ Fill(w, r) < USART2USB_BUFLEN
         /\ Fill(w, w) = 0
  BY RingSize DEF Slots, Fill

LEMMA IncSlot == ASSUME NEW p \in Slots PROVE Inc(p) \in Slots
  BY RingSize DEF Slots, Inc

\* A step of the interrupt: a full ring looks empty again.
LEMMA FillWrite ==
  ASSUME NEW w \in Slots, NEW r \in Slots
  PROVE  Fill(Inc(w), r) = IF Fill(w, r) = USART2USB_BUFLEN - 1 THEN 0 ELSE Fill(w, r) + 1
  BY RingSize DEF Slots, Fill, Inc

\* A step of main(): an empty ring looks full.
LEMMA FillRead ==
  ASSUME NEW w \in Slots, NEW r \in Slots
  PROVE  Fill(w, Inc(r)) = IF Fill(w, r) = 0 THEN USART2USB_BUFLEN - 1 ELSE Fill(w, r) - 1
  BY RingSize DEF Slots, Fill, Inc

\* The slots counted from the write pointer move by one when it does.
LEMMA AtWrite ==
  ASSUME NEW w \in Slots, NEW i \in Slots
  PROVE  /\ At(w, i) \in Slots
         /\ i = USART2USB_BUFLEN - 1 => At(Inc(w), i) = w
         /\ i # USART2USB_BUFLEN - 1 =>
              i + 1 \in Slots /\ At(Inc(w), i) = At(w, i + 1) /\ At(w, i + 1) # w
  BY RingSize DEF Slots, At, Inc

\* Where main() reads, counted from the write pointer.
LEMMA AtRead ==
  ASSUME NEW w \in Slots, NEW r \in Slots
  PROVE  /\ Fill(w, r) = 0 => At(w, 0) = r
         /\ Fill(w, r) # 0 => /\ USART2USB_BUFLEN - Fill(w, r) \in Slots
                              /\ At(w, USART2USB_BUFLEN - Fill(w, r)) = r
  BY RingSize DEF Slots, At, Fill

\* Whole rings are bytes.
LEMMA WholeRings ==
  ASSUME NEW k \in Nat
  PROVE  /\ k * USART2USB_BUFLEN \in Nat
         /\ (k + 1) * USART2USB_BUFLEN = k * USART2USB_BUFLEN + USART2USB_BUFLEN
         /\ k > 0 => (k - 1) * USART2USB_BUFLEN = k * USART2USB_BUFLEN - USART2USB_BUFLEN
         /\ k > 0 => k * USART2USB_BUFLEN >= USART2USB_BUFLEN
         /\ k <= k * USART2USB_BUFLEN
         /\ k = 0 => k * USART2USB_BUFLEN = 0
  BY RingSize

-----------------------------------------------------------------------------
(* The inductive invariant. *)

Order == flushed <= delivered /\ delivered <= received
Rings == \E k \in Nat : lost = k * USART2USB_BUFLEN

Strong == Typing /\ Shape /\ PacketBacked /\ Contents /\ Order /\ Rings

LEMMA NextSlot == Typing => next \in Slots
  BY DEF Typing, next

\* Strong is IInv with its range for the whole rings lost left open: they are bytes received.
LEMMA StrongIsIInv == Strong <=> IInv
<1>1. ASSUME Strong PROVE \E k \in 0..received : lost = k * USART2USB_BUFLEN
  <2>1. PICK k \in Nat : lost = k * USART2USB_BUFLEN
    BY <1>1 DEF Strong, Rings
  <2>2. Fill(USARTtoUSB_WritePtr, next) \in Nat
    BY <1>1, NextSlot, FillRange DEF Strong, Typing
  <2>3. lost <= received
    BY <1>1, <2>2 DEF Strong, Typing, Order, lost
  <2>4. k <= received
    BY <1>1, <2>1, <2>3, WholeRings DEF Strong, Typing
  <2> QED
    BY <1>1, <2>1, <2>4 DEF Strong, Typing
<1>2. ASSUME IInv PROVE Rings
  BY <1>2 DEF IInv, Rings
<1> QED
  BY <1>1, <1>2, TypingIsTypeOK DEF Strong, IInv, Order

LEMMA Starts == Init => Strong
<1> SUFFICES ASSUME Init PROVE Strong
  OBVIOUS
<1>1. Typing
  <2>1. ring \in [Slots -> Nat]
    BY DEF Init
  <2>2. Receiving \in BOOLEAN /\ TOV0 \in BOOLEAN
    BY DEF Init
  <2>3. pc \in {"loop", "copy", "send", "timer", "flush"} /\ mode \in Modes
    BY DEF Init, Modes
  <2>4. /\ received \in Nat /\ delivered \in Nat /\ item \in Nat /\ flushed \in Nat
        /\ USARTtoUSB_WritePtr \in Slots /\ USARTtoUSB_ReadPtr \in Slots /\ tmp \in Slots
        /\ txcount \in Counts /\ fullBanks \in Banks
    BY RingSize, PacketSize, BankRange DEF Init
  <2> QED
    BY <2>1, <2>2, <2>3, <2>4 DEF Typing
<1>2. Shape /\ PacketBacked /\ Order
  <2>1. Shape
    BY DEF Init, Shape
  <2>2. PacketBacked /\ Order
    BY DEF Init, PacketBacked, Order
  <2> QED
    BY <2>1, <2>2
<1>3. Contents
  BY RingSize DEF Init, Contents, Slots
<1>4. lost = 0
  BY RingSize, FillRange DEF Init, lost, next
<1>5. Rings
  BY <1>4, WholeRings DEF Rings
<1> QED
  BY <1>1, <1>2, <1>3, <1>5 DEF Strong

\* A byte from the line: the slots move on, and a full ring is lost as a whole.
LEMMA Receives == Strong /\ RxIsr => Strong'
<1> SUFFICES ASSUME Strong, RxIsr PROVE Strong'
  OBVIOUS
<1> USE RingSize DEF Typing
<1>a. Typing /\ next \in Slots /\ Inc(USARTtoUSB_WritePtr) \in Slots
  BY NextSlot, IncSlot DEF Strong
<1>b. /\ received' = received + 1 /\ USARTtoUSB_WritePtr' = Inc(USARTtoUSB_WritePtr)
      /\ ring' = [ring EXCEPT ![USARTtoUSB_WritePtr] = received + 1]
      /\ next' = next /\ flushed' = flushed /\ delivered' = delivered
      /\ UNCHANGED <<pc, mode, Receiving, txcount, fullBanks>>
  BY DEF RxIsr, next
<1>1. Typing'
  BY <1>a, <1>b DEF RxIsr
<1>2. Shape' /\ PacketBacked' /\ Order'
  BY <1>a, <1>b, PacketSize DEF Strong, Shape, PacketBacked, Order, INReady, Counts
<1>3. Contents'
  <2> SUFFICES ASSUME NEW i \in Slots, ((received + 1) - USART2USB_BUFLEN) + 1 + i > flushed
               PROVE  ring'[At(Inc(USARTtoUSB_WritePtr), i)] = ((received + 1) - USART2USB_BUFLEN) + 1 + i
    BY <1>b DEF Contents
  <2>1. i \in Nat
    BY DEF Slots
  <2>2. CASE i = USART2USB_BUFLEN - 1
    BY <1>a, <1>b, <2>1, <2>2, AtWrite
  <2>3. CASE i # USART2USB_BUFLEN - 1
    <3>1. i + 1 \in Slots /\ At(USARTtoUSB_WritePtr, i + 1) # USARTtoUSB_WritePtr
          /\ At(USARTtoUSB_WritePtr, i + 1) \in Slots
          /\ At(Inc(USARTtoUSB_WritePtr), i) = At(USARTtoUSB_WritePtr, i + 1)
      BY <1>a, <2>3, AtWrite
    <3>2. ring[At(USARTtoUSB_WritePtr, i + 1)] = received - USART2USB_BUFLEN + 1 + (i + 1)
      BY <1>a, <2>1, <3>1 DEF Strong, Contents
    <3> QED
      BY <1>a, <1>b, <2>1, <3>1, <3>2
  <2> QED
    BY <2>2, <2>3
<1>4. Rings'
  <2> DEFINE f == Fill(USARTtoUSB_WritePtr, next)
  <2>1. PICK k \in Nat : lost = k * USART2USB_BUFLEN
    BY DEF Strong, Rings
  <2>2. f \in Nat /\ lost = received - delivered - f
    BY <1>a, FillRange DEF lost
  <2>3. lost' = ((received + 1) - delivered) - (IF f = USART2USB_BUFLEN - 1 THEN 0 ELSE f + 1)
    BY <1>a, <1>b, FillWrite DEF lost
  <2>4. lost' = IF f = USART2USB_BUFLEN - 1 THEN (k + 1) * USART2USB_BUFLEN ELSE k * USART2USB_BUFLEN
    <3> HIDE DEF f
    <3> QED
      BY <1>a, <2>1, <2>2, <2>3, WholeRings
  <2>5. k + 1 \in Nat
    OBVIOUS
  <2> HIDE DEF f
  <2> QED
    BY <2>4, <2>5 DEF Rings
<1> QED
  BY <1>1, <1>2, <1>3, <1>4 DEF Strong

\* Where main() begins a packet nothing is counted as lost any more: it has been passed over.
LEMMA Starting ==
  Strong /\ StartPacket =>
    /\ Strong'
    /\ delivered' = received - count /\ count > 0 /\ count \in Nat
    /\ lost = received - delivered - count /\ Receiving
<1> SUFFICES ASSUME Strong, StartPacket
             PROVE  /\ Strong' /\ delivered' = received - count /\ count > 0 /\ count \in Nat
                    /\ lost = received - delivered - count /\ Receiving
  OBVIOUS
<1>a. Typing /\ USARTtoUSB_ReadPtr \in Slots /\ USARTtoUSB_WritePtr \in Slots
  BY DEF Strong, Typing
<1>b. pc = "loop" /\ pc' = "copy" /\ mode = "USBSERIAL" /\ count > 0 /\ INReady
  BY DEF StartPacket, WorthSending
<1>c. count \in Nat /\ count = Fill(USARTtoUSB_WritePtr, USARTtoUSB_ReadPtr)
  BY <1>a, FillRange DEF count
<1>d. /\ next = USARTtoUSB_ReadPtr /\ next' = USARTtoUSB_ReadPtr /\ delivered' = received - count
      /\ UNCHANGED <<mode, Receiving, ring, USARTtoUSB_WritePtr, fullBanks, received, flushed>>
      /\ txcount' = IF MaxPacket > count THEN count ELSE MaxPacket
  BY <1>b DEF StartPacket, next
<1>e. lost = received - delivered - count
  BY <1>c, <1>d DEF lost
<1>f. delivered <= received - count
  <2>1. PICK k \in Nat : lost = k * USART2USB_BUFLEN
    BY DEF Strong, Rings
  <2> QED
    BY <1>a, <1>c, <1>e, <2>1, WholeRings DEF Typing
<1>1. delivered' \in Nat /\ txcount' \in 1..MaxPacket /\ txcount' <= count /\ txcount' \in Counts
  <2>1. delivered' \in Nat
    BY <1>a, <1>c, <1>d, <1>f DEF Typing
  <2>2. txcount' \in 1..MaxPacket /\ txcount' <= count /\ txcount' \in Nat
    BY <1>b, <1>c, <1>d, PacketSize
  <2> QED
    BY <2>1, <2>2, PacketSize
<1>2. Typing'
  BY <1>1, <1>a DEF StartPacket, Typing
<1>3. Shape' /\ PacketBacked' /\ Receiving
  <2>1. Shape' /\ Receiving
    BY <1>1, <1>a, <1>b, <1>d DEF Strong, Shape, INReady, Typing
  <2>2. PacketBacked'
    BY <1>1, <1>a, <1>c, <1>d, PacketSize DEF PacketBacked, Typing
  <2> QED
    BY <2>1, <2>2
<1>4. Contents' /\ Order'
  BY <1>a, <1>c, <1>d, <1>f DEF Strong, Contents, Order, Typing
<1>5. Rings'
  <2>1. lost' = 0
    BY <1>a, <1>c, <1>d DEF lost, Typing
  <2> QED
    BY <2>1, WholeRings DEF Rings
<1> QED
  BY <1>2, <1>3, <1>4, <1>5, <1>b, <1>c, <1>d, <1>e DEF Strong

\* main() takes a byte: an empty ring looks full, and a ring is lost less.
LEMMA Copies == Strong /\ CopyByte => Strong'
<1> SUFFICES ASSUME Strong, CopyByte PROVE Strong'
  OBVIOUS
<1>a. Typing /\ tmp \in Slots /\ USARTtoUSB_WritePtr \in Slots /\ Inc(tmp) \in Slots
  BY IncSlot DEF Strong, Typing
<1>b. /\ pc = "copy" /\ pc' = (IF txcount = 1 THEN "send" ELSE "copy") /\ next = tmp
      /\ next' = Inc(tmp) /\ tmp' = Inc(tmp)
      /\ delivered' = delivered + 1 /\ item' = ring[tmp] /\ txcount' = txcount - 1
      /\ UNCHANGED <<mode, Receiving, ring, USARTtoUSB_WritePtr, USARTtoUSB_ReadPtr, TOV0,
                     fullBanks, received, flushed>>
  BY DEF CopyByte, next
<1>c. txcount \in 1..MaxPacket /\ txcount <= received - delivered
  BY <1>b DEF Strong, Shape, PacketBacked
<1>d. txcount \in Nat /\ txcount >= 1 /\ txcount <= MaxPacket /\ txcount - 1 \in Counts
  BY <1>c, PacketSize
<1>1. Typing'
  <2>1. item' \in Nat
    BY <1>a, <1>b DEF Typing
  <2> QED
    BY <1>a, <1>b, <1>d, <2>1 DEF Typing
<1>2. Shape'
  <2>1. txcount' = 0 \/ txcount' \in 1..MaxPacket
    BY <1>b, <1>d, PacketSize
  <2>2. txcount = 1 <=> txcount' = 0
    BY <1>b, <1>d
  <2> QED
    BY <1>b, <2>1, <2>2 DEF Strong, Shape, INReady
<1>3. PacketBacked' /\ Order' /\ Contents'
  BY <1>a, <1>b, <1>c, <1>d DEF Strong, PacketBacked, Order, Contents, Typing
<1>4. Rings'
  <2> DEFINE f == Fill(USARTtoUSB_WritePtr, tmp)
  <2>1. PICK k \in Nat : lost = k * USART2USB_BUFLEN
    BY DEF Strong, Rings
  <2>2. f \in Nat /\ lost = (received - delivered) - f
    BY <1>a, <1>b, FillRange DEF lost
  <2>3. lost' = (received - (delivered + 1)) - (IF f = 0 THEN USART2USB_BUFLEN - 1 ELSE f - 1)
    BY <1>a, <1>b, FillRead DEF lost
  <2>4. received \in Nat /\ delivered \in Nat
    BY <1>a DEF Typing
  <2> HIDE DEF f
  <2>5. CASE f = 0
    <3>1. k > 0
      BY <1>c, <1>d, <2>1, <2>2, <2>4, <2>5, WholeRings
    <3>2. lost' = (k - 1) * USART2USB_BUFLEN /\ k - 1 \in Nat
      BY <2>1, <2>2, <2>3, <2>4, <2>5, <3>1, WholeRings, RingSize
    <3> QED
      BY <3>2 DEF Rings
  <2>6. CASE f # 0
    <3>1. lost' = k * USART2USB_BUFLEN
      BY <2>1, <2>2, <2>3, <2>4, <2>6, WholeRings
    <3> QED
      BY <3>1 DEF Rings
  <2> QED
    BY <2>5, <2>6
<1> QED
  BY <1>1, <1>2, <1>3, <1>4 DEF Strong

\* The packet is handed over, and what was read is saved.
LEMMA Sends == Strong /\ SendPacket => Strong'
<1> SUFFICES ASSUME Strong, SendPacket PROVE Strong'
  OBVIOUS
<1>a. Typing /\ pc = "send" /\ fullBanks < CDC_TX_BANK_SIZE /\ pc' = "timer"
  BY DEF Strong, Shape, SendPacket, INReady
<1>b. next' = next /\ USARTtoUSB_ReadPtr' = tmp /\ tmp \in Slots /\ fullBanks' \in Banks
      /\ UNCHANGED <<mode, Receiving, ring, USARTtoUSB_WritePtr, tmp, txcount, TOV0, received,
                     delivered, item, flushed>>
  BY <1>a, BankRange DEF SendPacket, next, Typing, hist
<1>1. Typing'
  BY <1>a, <1>b DEF Typing
<1>2. Shape' /\ PacketBacked' /\ Order' /\ Contents' /\ Rings'
  BY <1>a, <1>b DEF Strong, Shape, PacketBacked, Order, Contents, Rings, lost
<1> QED
  BY <1>1, <1>2 DEF Strong

\* With the USART off the ring is emptied, and nothing that arrived before counts.
LEMMA Flushes == ASSUME NEW m \in Modes PROVE Strong /\ FlushAndReopen(m) => Strong'
<1> SUFFICES ASSUME Strong, FlushAndReopen(m) PROVE Strong'
  OBVIOUS
<1>a. Typing /\ received \in Nat /\ pc = "flush" /\ pc' = "loop"
  BY DEF Strong, Typing, FlushAndReopen
<1>b. /\ USARTtoUSB_ReadPtr' = 0 /\ USARTtoUSB_WritePtr' = 0 /\ next' = 0
      /\ delivered' = received /\ flushed' = received /\ mode' = m
      /\ Receiving' = (m = "USBSERIAL")
      /\ UNCHANGED <<ring, tmp, txcount, TOV0, fullBanks, received, item>>
  BY DEF FlushAndReopen, next
<1>1. Typing'
  <2>1. Receiving' \in BOOLEAN
    BY <1>b
  <2> QED
    BY <1>a, <1>b, <2>1, RingSize DEF Typing
<1>2. Shape' /\ PacketBacked' /\ Order'
  BY <1>a, <1>b DEF Shape, PacketBacked, Order
<1>3. Contents'
  <2>1. \A i \in Slots : ~((received - USART2USB_BUFLEN) + 1 + i > received)
    BY <1>a, RingSize DEF Slots
  <2> QED
    BY <1>b, <2>1 DEF Contents
<1>4. lost' = 0
  BY <1>a, <1>b, RingSize, FillRange DEF lost
<1>5. Rings'
  BY <1>4, WholeRings DEF Rings
<1> QED
  BY <1>1, <1>2, <1>3, <1>5 DEF Strong

\* The steps that leave ring and numbers alone.
LEMMA Others ==
  Strong /\ (\/ TimerOverflow \/ HostFetches \/ NothingToSend \/ BootloaderAnswers
             \/ ResetTimer \/ CloseUsart \/ UNCHANGED vars) => Strong'
<1> SUFFICES ASSUME Strong,
                    \/ TimerOverflow \/ HostFetches \/ NothingToSend \/ BootloaderAnswers
                    \/ ResetTimer \/ CloseUsart \/ UNCHANGED vars
             PROVE  Strong'
  OBVIOUS
<1>a. Typing
  BY DEF Strong
<1>b. /\ UNCHANGED <<ring, USARTtoUSB_WritePtr, USARTtoUSB_ReadPtr, tmp, txcount, mode>>
      /\ UNCHANGED <<received, delivered, item, flushed>>
  BY DEF TimerOverflow, HostFetches, NothingToSend, BootloaderAnswers, ResetTimer, CloseUsart,
         vars, hist
<1>c. /\ pc' = pc \/ (pc \notin {"copy", "send"} /\ pc' \in {"loop", "timer", "flush"})
      /\ fullBanks' \in Banks /\ TOV0' \in BOOLEAN /\ Receiving' \in BOOLEAN
  BY <1>a, BankRange
     DEF TimerOverflow, HostFetches, NothingToSend, BootloaderAnswers, ResetTimer, CloseUsart,
         vars, INReady, Typing
<1>1. Typing'
  BY <1>a, <1>b, <1>c DEF Typing
<1>2. next' = next
  BY <1>b, <1>c DEF next
<1>3. PacketBacked' /\ Order' /\ Contents' /\ Rings'
  BY <1>b, <1>c, <1>2 DEF Strong, PacketBacked, Order, Contents, Rings, lost
<1>4. Shape'
  <2>1. fullBanks' = fullBanks \/ fullBanks' < fullBanks \/ pc' = "timer"
    BY <1>a, BankRange
       DEF TimerOverflow, HostFetches, NothingToSend, BootloaderAnswers, ResetTimer, CloseUsart,
           vars, Typing
  <2>2. INReady => INReady' \/ pc' = "timer"
    BY <1>a, <1>c, <2>1, BankRange DEF INReady, Typing
  <2>3. pc' # "flush" => Receiving' = Receiving
    BY DEF TimerOverflow, HostFetches, NothingToSend, BootloaderAnswers, ResetTimer, CloseUsart, vars
  <2>4. pc' = "flush" => ~Receiving'
    BY DEF Strong, Shape, TimerOverflow, HostFetches, NothingToSend, BootloaderAnswers, ResetTimer,
           CloseUsart, vars
  <2>5. pc' # "flush" => pc # "flush"
    BY DEF TimerOverflow, HostFetches, NothingToSend, BootloaderAnswers, ResetTimer, CloseUsart, vars
  <2> QED
    BY <1>b, <1>c, <2>2, <2>3, <2>4, <2>5 DEF Strong, Shape
<1> QED
  BY <1>1, <1>3, <1>4 DEF Strong

LEMMA StrongStep == Strong /\ [Next]_vars => Strong'
  BY Receives, Starting, Copies, Sends, Flushes, Others DEF Next, Main, Reopen

-----------------------------------------------------------------------------
\* What goes out is what is at the slot main() reads: the next number, or one that
\* has overwritten it and is whole rings younger.
LEMMA ItemRead ==
  ASSUME Strong, CopyByte
  PROVE  /\ \E k \in 0..(received - delivered) : item' = delivered' + k * USART2USB_BUFLEN
         /\ item' <= received
         /\ received - delivered <= USART2USB_BUFLEN => item' = delivered'
<1> DEFINE f == Fill(USARTtoUSB_WritePtr, tmp)
<1>a. Typing /\ tmp \in Slots /\ USARTtoUSB_WritePtr \in Slots /\ next = tmp
      /\ item' = ring[tmp] /\ delivered' = delivered + 1 /\ pc = "copy"
  BY DEF Strong, Typing, CopyByte, next
<1>b. /\ received \in Nat /\ delivered \in Nat /\ flushed \in Nat /\ flushed <= delivered
      /\ received - delivered >= 1
  <2>1. txcount \in 1..MaxPacket /\ txcount <= received - delivered
    BY <1>a DEF Strong, Shape, PacketBacked
  <2> QED
    BY <1>a, <2>1, PacketSize DEF Strong, Order, Typing
<1>1. PICK k \in Nat : lost = k * USART2USB_BUFLEN
  BY DEF Strong, Rings
<1>2. f \in Nat /\ f < USART2USB_BUFLEN /\ lost = (received - delivered) - f
  BY <1>a, FillRange DEF lost
<1>3. f = 0 => At(USARTtoUSB_WritePtr, 0) = tmp
  BY <1>a, AtRead
<1>4. f # 0 => USART2USB_BUFLEN - f \in Slots /\ At(USARTtoUSB_WritePtr, USART2USB_BUFLEN - f) = tmp
  BY <1>a, AtRead
<1> HIDE DEF f
<1>5. CASE f = 0
  <2>1. k > 0
    BY <1>b, <1>1, <1>2, <1>5, WholeRings
  <2>2. received - USART2USB_BUFLEN >= delivered
    BY <1>b, <1>1, <1>2, <1>5, <2>1, WholeRings, RingSize
  <2>3. item' = (received - USART2USB_BUFLEN) + 1
    <3>1. (received - USART2USB_BUFLEN) + 1 + 0 > flushed
      BY <1>b, <2>2, RingSize
    <3>2. ring[At(USARTtoUSB_WritePtr, 0)] = (received - USART2USB_BUFLEN) + 1 + 0
      BY <3>1, RingSize DEF Strong, Contents
    <3> QED
      BY <1>a, <1>b, <1>3, <1>5, <3>2, RingSize
  <2>4. item' = delivered' + (k - 1) * USART2USB_BUFLEN /\ k - 1 \in Nat
    BY <1>a, <1>b, <1>1, <1>2, <1>5, <2>1, <2>3, WholeRings, RingSize
  <2>5. k - 1 \in 0..(received - delivered)
    BY <1>b, <1>1, <1>2, <1>5, <2>1, WholeRings
  <2>6. received - delivered <= USART2USB_BUFLEN => item' = delivered'
    BY <1>a, <1>b, <2>2, <2>3, RingSize
  <2>7. item' <= received
    BY <1>b, <2>3, RingSize
  <2>8. \E j \in 0..(received - delivered) : item' = delivered' + j * USART2USB_BUFLEN
    BY <2>4, <2>5
  <2> QED
    BY <2>6, <2>7, <2>8
<1>6. CASE f # 0
  <2>1. item' = (received - f) + 1
    <3> DEFINE i == USART2USB_BUFLEN - f
    <3>1. i \in Slots /\ i \in Nat /\ (received - USART2USB_BUFLEN) + 1 + i = (received - f) + 1
      BY <1>b, <1>2, <1>4, <1>6, RingSize
    <3>2. (received - f) + 1 > flushed
      BY <1>b, <1>1, <1>2, WholeRings
    <3>3. ring[At(USARTtoUSB_WritePtr, i)] = (received - USART2USB_BUFLEN) + 1 + i
      <4> HIDE DEF i
      <4> QED
        BY <3>1, <3>2 DEF Strong, Contents
    <3> QED
      BY <1>a, <1>4, <1>6, <3>1, <3>3
  <2>2. item' = delivered' + k * USART2USB_BUFLEN
    BY <1>a, <1>b, <1>1, <1>2, <2>1, WholeRings
  <2>3. k <= received - delivered
    BY <1>b, <1>1, <1>2, WholeRings
  <2>4. received - delivered <= USART2USB_BUFLEN => k = 0
    BY <1>b, <1>1, <1>2, <1>6, WholeRings, RingSize
  <2>5. received - delivered <= USART2USB_BUFLEN => item' = delivered'
    BY <1>a, <1>b, <2>2, <2>4, WholeRings
  <2> QED
    BY <1>b, <1>2, <1>6, <2>1, <2>2, <2>3, <2>5
<1> QED
  BY <1>5, <1>6

\* Where a packet starts, the rings that were overrun are skipped whole.
LEMMA Skips ==
  ASSUME Strong, StartPacket
  PROVE  Channel!Skip \/ UNCHANGED Channel!vars
<1>a. /\ Typing /\ delivered' = received - count /\ count > 0 /\ count \in Nat
      /\ lost = (received - delivered) - count /\ Receiving
      /\ UNCHANGED <<received, item, Receiving>>
  BY Starting DEF Strong, StartPacket
<1>b. received \in Nat /\ delivered \in Nat
  BY <1>a DEF Typing
<1>1. PICK k \in Nat : lost = k * USART2USB_BUFLEN
  BY DEF Strong, Rings
<1>2. CASE k = 0
  <2>1. delivered' = delivered
    BY <1>a, <1>b, <1>1, <1>2, WholeRings
  <2> QED
    BY <1>a, <2>1 DEF Channel!vars
<1>3. CASE k > 0
  <2>1. received - delivered > USART2USB_BUFLEN
    BY <1>a, <1>b, <1>1, <1>3, WholeRings, RingSize
  <2>2. delivered' = delivered + k * USART2USB_BUFLEN /\ k \in 1..(received - delivered)
    BY <1>a, <1>b, <1>1, <1>3, WholeRings
  <2>3. delivered' <= received
    BY <1>a, <1>b
  <2> QED
    BY <1>a, <2>1, <2>2, <2>3 DEF Channel!Skip
<1> QED
  BY <1>2, <1>3

\* Every step is a step of the lossy channel, or none of its business.
LEMMA Refines == Strong /\ [Next]_vars => [Channel!Next]_(Channel!vars)
<1> SUFFICES ASSUME Strong, [Next]_vars PROVE Channel!Next \/ UNCHANGED Channel!vars
  OBVIOUS
<1>1. CASE RxIsr
  BY <1>1 DEF RxIsr, Channel!Accept, Channel!Next
<1>2. CASE StartPacket
  BY <1>2, Skips DEF Channel!Next
<1>3. CASE CopyByte
  <2>1. Receiving /\ delivered < received
    <3>1. pc = "copy" /\ txcount \in 1..MaxPacket /\ txcount <= received - delivered
          /\ mode = "USBSERIAL" /\ Receiving = (mode = "USBSERIAL")
      BY <1>3 DEF CopyByte, Strong, Shape, PacketBacked
    <3>2. delivered < received
      BY <3>1, PacketSize DEF Strong, Typing
    <3> QED
      BY <3>1, <3>2
  <2>2. delivered' = delivered + 1 /\ UNCHANGED <<received, Receiving>>
    BY <1>3 DEF CopyByte
  <2>3. Channel!Deliver
    BY <1>3, <2>1, <2>2, ItemRead DEF Channel!Deliver
  <2> QED
    BY <2>3 DEF Channel!Next
<1>4. CASE \E m \in Modes : FlushAndReopen(m)
  <2>1. ~Receiving /\ delivered' = received /\ Receiving' \in BOOLEAN /\ UNCHANGED <<received, item>>
    BY <1>4 DEF FlushAndReopen, Strong, Shape
  <2> QED
    BY <2>1 DEF Channel!Flush, Channel!Next
<1>5. CASE CloseUsart
  <2>1. ~Receiving' /\ UNCHANGED <<received, delivered, item>> /\ Receiving' = FALSE
    BY <1>5 DEF CloseUsart, hist
  <2>2. CASE Receiving
    BY <2>1, <2>2 DEF Channel!Close, Channel!Next
  <2>3. CASE ~Receiving
    <3>1. Receiving' = Receiving
      BY <2>1, <2>3 DEF Strong, Typing
    <3> QED
      BY <2>1, <3>1 DEF Channel!vars
  <2> QED
    BY <2>2, <2>3
<1>6. CASE \/ TimerOverflow \/ HostFetches \/ SendPacket \/ NothingToSend \/ BootloaderAnswers
           \/ ResetTimer \/ UNCHANGED vars
  BY <1>6 DEF TimerOverflow, HostFetches, SendPacket, NothingToSend, BootloaderAnswers, ResetTimer,
              vars, hist, Channel!vars
<1> QED
  BY <1>1, <1>2, <1>3, <1>4, <1>5, <1>6 DEF Next, Main, Reopen

-----------------------------------------------------------------------------
LEMMA AlwaysStrong == Spec => []Strong
  BY Starts, StrongStep, PTL DEF Spec

\* The invariant the run checks, for every ring: what is lost is a number of whole rings,
\* and the slots hold the newest bytes of the line.
THEOREM Invariance == Spec => []IInv
  BY AlwaysStrong, StrongIsIInv, PTL

\* The pointers stay in the ring, a packet in its bank, the banks in their number.
THEOREM TypeCorrect == Spec => []TypeOK
<1>1. Strong => TypeOK
  BY TypingIsTypeOK DEF Strong
<1> QED
  BY <1>1, AlwaysStrong, PTL

\* The direction that cannot push back does no more damage than LossyByteChannel allows:
\* in order and complete up to a ring's worth, whole rings beyond it.
THEOREM Refinement == Spec => ImplementsChannel
<1>1. Init => Channel!Init
  BY DEF Init, Channel!Init
<1> QED
  BY <1>1, Refines, AlwaysStrong, PTL DEF Spec, ImplementsChannel, Channel!Spec

-----------------------------------------------------------------------------
(* While main() keeps up with the line. *)

\* No byte is passed over, replaced or sent twice: the turn of each comes after that of
\* the one before, and it is the byte that goes into the bank.
NothingLost ==
  [][ \/ UNCHANGED <<delivered, item>>
      \/ delivered' = delivered + 1 /\ item' = delivered'
      \/ Reopen /\ delivered' = received ]_vars

\* As long as no more than one ring of bytes waits the direction is complete, although the
\* interrupt looks at nothing and main() sees the count only modulo the ring.
THEOREM CompleteWithinARing ==
  Spec /\ [](received - delivered <= USART2USB_BUFLEN) => NothingLost
<1>1. ASSUME Strong, received - delivered <= USART2USB_BUFLEN, [Next]_vars
      PROVE  \/ UNCHANGED <<delivered, item>>
             \/ delivered' = delivered + 1 /\ item' = delivered'
             \/ Reopen /\ delivered' = received
  <2>1. CASE CopyByte
    BY <1>1, <2>1, ItemRead DEF CopyByte
  <2>2. CASE StartPacket
    <3>1. Channel!Skip \/ UNCHANGED Channel!vars
      BY <1>1, <2>2, Skips
    <3>2. ~Channel!Skip
      BY <1>1, RingSize DEF Channel!Skip, Strong, Typing
    <3> QED
      BY <3>1, <3>2 DEF Channel!vars
  <2>3. CASE Reopen
    BY <2>3 DEF Reopen, FlushAndReopen
  <2>4. CASE ~CopyByte /\ ~StartPacket /\ ~Reopen
    BY <1>1, <2>4 DEF Next, Main, RxIsr, TimerOverflow, HostFetches, SendPacket, NothingToSend,
       BootloaderAnswers, ResetTimer, CloseUsart, vars, hist
  <2> QED
    BY <2>1, <2>2, <2>3, <2>4
<1> QED
  BY <1>1, AlwaysStrong, PTL DEF Spec, NothingLost

\* What waits is what main() counts, while less than a ring of bytes waits: it then sends a
\* packet as soon as it looks, whatever the pointers have gone round.
CountIsWaiting ==
  pc \notin {"copy", "send"} /\ received - delivered < USART2USB_BUFLEN => count = received - delivered

THEOREM CountsWhatWaits == Spec => []CountIsWaiting
<1>1. ASSUME Strong PROVE CountIsWaiting
  <2> SUFFICES ASSUME pc \notin {"copy", "send"}, received - delivered < USART2USB_BUFLEN
               PROVE  count = received - delivered
    BY DEF CountIsWaiting
  <2>1. next = USARTtoUSB_ReadPtr
    BY DEF next
  <2>2. count \in Nat /\ lost = received - delivered - count
    BY <1>1, <2>1, FillRange DEF Strong, Typing, count, lost
  <2>3. received \in Nat /\ delivered \in Nat
    BY <1>1 DEF Strong, Typing
  <2>4. PICK k \in Nat : lost = k * USART2USB_BUFLEN
    BY <1>1 DEF Strong, Rings
  <2>5. k = 0
    BY <2>2, <2>3, <2>4, WholeRings, RingSize
  <2>6. received - delivered - count = 0
    BY <2>2, <2>4, <2>5, WholeRings
  <2> QED
    <3> HIDE DEF count
    <3> QED
      BY <2>2, <2>3, <2>6
<1> QED
  BY <1>1, AlwaysStrong, PTL
=============================================================================
