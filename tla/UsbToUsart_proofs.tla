-------------------------- MODULE UsbToUsart_proofs --------------------------
(***************************************************************************)
(* Proofs about UsbToUsart, for every ring size, packet size and number of *)
(* bytes.  IInv is inductive; the invariants the runs check follow from    *)
(* it, and so does the refinement of ByteChannel.  The USART's interrupt   *)
(* goes off when everything is sent and no byte is sent twice, unless it   *)
(* runs between the store of the write pointer and the store that arms it; *)
(* holding it off there is enough.                                         *)
(***************************************************************************)
EXTENDS UsbToUsart, TLAPS

-----------------------------------------------------------------------------
(* Pointer arithmetic. *)

LEMMA SlotsNonEmpty == 0 \in Slots
  BY BuflenAssumption DEF Slots

LEMMA IncType == ASSUME NEW p \in Slots PROVE Inc(p) \in Slots
  BY BuflenAssumption DEF Slots, Inc

LEMMA AtType == ASSUME NEW p \in Slots, NEW i \in Slots PROVE At(p, i) \in Slots
  BY BuflenAssumption DEF Slots, At

\* Stepping the far end, and stepping the near end.
LEMMA IncAt ==
  ASSUME NEW p \in Slots, NEW i \in Slots, i + 1 \in Slots
  PROVE  Inc(At(p, i)) = At(p, i + 1) /\ At(Inc(p), i) = At(p, i + 1)
  BY BuflenAssumption DEF Slots, Inc, At

LEMMA AtZero == ASSUME NEW p \in Slots PROVE At(p, 0) = p
  BY BuflenAssumption DEF Slots, At

\* Distinct distances from one slot are distinct slots.
LEMMA AtInjective ==
  ASSUME NEW p \in Slots, NEW i \in Slots, NEW j \in Slots, At(p, i) = At(p, j)
  PROVE  i = j
  BY BuflenAssumption DEF Slots, At

LEMMA AtAt ==
  ASSUME NEW p \in Slots, NEW i \in Slots, NEW j \in Slots, i + j \in Slots
  PROVE  At(At(p, i), j) = At(p, i + j)
  BY BuflenAssumption DEF Slots, At

\* Fill measures the distance At walks.
LEMMA FillAt ==
  ASSUME NEW p \in Slots, NEW i \in Slots PROVE Fill(At(p, i), p) = i
  BY BuflenAssumption DEF Slots, At, Fill
-----------------------------------------------------------------------------
(* Type correctness, and the inductive invariant. *)

LEMMA EmptyBank == 0 \in 0..CDC_RX_EPSIZE /\ CDC_RX_EPSIZE \in Nat
  BY BuflenAssumption, EpsizeAssumption

LEMMA InitIInv == Init => IInv
  <1> SUFFICES ASSUME Init PROVE IInv
    OBVIOUS
  <1> USE BuflenAssumption, EmptyBank, SlotsNonEmpty DEF Init
  <1>1. TypeOK
    BY DEF TypeOK, Modes, Slots
  <1>2. Shape
    BY DEF Shape, Open
  <1>3. Copied
    BY DEF Copied
  <1>4. Window
    <2>1. USBtoUSART_WritePtr = At(USBtoUSART_ReadPtr, published - delivered)
      BY DEF At
    <2> QED
      BY <2>1 DEF Window
  <1>5. NoLostWakeup /\ OffWhenAllSentUnlessGlitched
    BY DEF NoLostWakeup, OffWhenAllSentUnlessGlitched, OffWhenAllSent, Open
  <1> QED
    BY <1>1, <1>2, <1>3, <1>4, <1>5 DEF IInv

\* Every step keeps the types; the copy is the only one that needs more than
\* TypeOK, to know that the bank still holds what countRX says.
LEMMA TypeStep == ASSUME TypeOK, Shape, [Next]_vars PROVE TypeOK'
  <1> USE BuflenAssumption, EmptyBank DEF TypeOK
  <1>1. CASE \E n \in 0..CDC_RX_EPSIZE : HostSends(n)
    BY <1>1 DEF HostSends, ptrs, hist
  <1>2. CASE ByteShifted
    BY <1>2 DEF ByteShifted, ptrs, bank, hist
  <1>3. CASE AckZeroLength \/ RunBootloaderTask
    BY <1>3 DEF AckZeroLength, RunBootloaderTask, ClearOUT, ptrs, hist
  <1>4. CASE StartCopy
    BY <1>4 DEF StartCopy, ptrs, bank, hist
  <1>5. CASE CopyByte
    <2>1. tmp' \in Slots
      BY <1>5, IncType DEF CopyByte
    <2>2. ring' \in [Slots -> Nat] /\ taken' \in Nat
      BY <1>5 DEF CopyByte
    <2>3. outBytes' \in 0..CDC_RX_EPSIZE /\ countRX' \in 0..CDC_RX_EPSIZE
      BY <1>5 DEF CopyByte, Shape
    <2>4. pc' \in {"loop", "copy", "publish", "arm", "flush"}
      BY <1>5 DEF CopyByte
    <2> QED
      BY <1>5, <2>1, <2>2, <2>3, <2>4 DEF CopyByte
  <1>6. CASE Publish
    BY <1>6 DEF Publish, ClearOUT
  <1>7. CASE Arm
    BY <1>7 DEF Arm, ptrs, bank
  <1>8. CASE Reopen
    BY <1>8, SlotsNonEmpty DEF Reopen, FlushAndReopen, bank
  <1>9. CASE CloseUsart
    BY <1>9 DEF CloseUsart, ptrs, bank, hist
  <1>10. CASE UdreIsr
    <2>1. USBtoUSART_ReadPtr' \in Slots
      BY <1>10, IncType DEF UdreIsr
    <2>2. UCSR1B' \in {{}, RxTx, RxTxUdr} /\ glitched' \in BOOLEAN
      BY <1>10 DEF UdreIsr
    <2>3. delivered' \in Nat
      BY <1>10 DEF UdreIsr
    <2> QED
      BY <1>10, <2>1, <2>2, <2>3 DEF UdreIsr, bank
  <1>11. CASE UNCHANGED vars
    BY <1>11 DEF vars, ptrs, bank, hist
  <1> QED
    BY <1>1, <1>2, <1>3, <1>4, <1>5, <1>6, <1>7, <1>8, <1>9, <1>10, <1>11
    DEF Next, Main
-----------------------------------------------------------------------------
(* main()'s control and the USART enable bits. *)

LEMMA BitFacts ==
  /\ RxTx # {} /\ RxTxUdr # {}
  /\ "UDRIE1" \in RxTxUdr /\ "UDRIE1" \notin RxTx /\ "UDRIE1" \notin {}
  BY DEF RxTx, RxTxUdr

LEMMA ShapeStep == ASSUME TypeOK, Shape, [Next]_vars PROVE Shape'
  <1> USE BitFacts DEF TypeOK, Shape, Open
  <1>1. CASE \E n \in 0..CDC_RX_EPSIZE : HostSends(n)
    BY <1>1 DEF HostSends, ptrs, hist
  <1>2. CASE ByteShifted
    BY <1>2 DEF ByteShifted, ptrs, bank, hist
  <1>3. CASE AckZeroLength \/ RunBootloaderTask
    BY <1>3 DEF AckZeroLength, RunBootloaderTask, ClearOUT, ptrs, hist
  <1>4. CASE StartCopy
    BY <1>4 DEF StartCopy, ptrs, bank, hist
  <1>5. CASE CopyByte
    BY <1>5, EmptyBank DEF CopyByte
  <1>6. CASE Publish
    BY <1>6 DEF Publish, ClearOUT
  <1>7. CASE Arm
    BY <1>7 DEF Arm, ptrs, bank
  <1>8. CASE Reopen
    BY <1>8 DEF Reopen, FlushAndReopen, bank
  <1>9. CASE CloseUsart
    BY <1>9 DEF CloseUsart, ptrs, bank, hist
  <1>10. CASE UdreIsr
    BY <1>10 DEF UdreIsr, bank
  <1>11. CASE UNCHANGED vars
    BY <1>11 DEF vars, ptrs, bank, hist
  <1> QED
    BY <1>1, <1>2, <1>3, <1>4, <1>5, <1>6, <1>7, <1>8, <1>9, <1>10, <1>11
    DEF Next, Main
-----------------------------------------------------------------------------
(* The copy in progress. *)

\* A step that leaves the ring, the write side and the copy alone keeps Copied.
LEMMA CopiedFrame ==
  ASSUME Copied, delivered' <= published,
         pc' = pc, UNCHANGED <<countRX, tmp, ring, USBtoUSART_WritePtr, taken, published>>
  PROVE  Copied'
  BY DEF Copied, At

LEMMA CopiedStep == ASSUME TypeOK, Shape, Copied, Window,
                           OffWhenAllSentUnlessGlitched, [Next]_vars
                    PROVE  Copied'
  <1>1. CASE \/ \E n \in 0..CDC_RX_EPSIZE : HostSends(n)
             \/ ByteShifted \/ AckZeroLength \/ RunBootloaderTask
             \/ UNCHANGED vars
    <2>1. /\ pc' = pc /\ delivered' = delivered
          /\ UNCHANGED <<countRX, tmp, ring, USBtoUSART_WritePtr, taken, published>>
      BY <1>1 DEF HostSends, ByteShifted, AckZeroLength, RunBootloaderTask,
         vars, ptrs, hist
    <2>2. delivered' <= published
      BY <2>1 DEF Copied
    <2> QED
      BY <2>1, <2>2, CopiedFrame DEF Copied
  <1>2. CASE StartCopy
    <2>1. USBtoUSART_free <= USB2USART_BUFLEN - 1
      BY BuflenAssumption DEF USBtoUSART_free, Fill, TypeOK, Slots
    <2>2. taken' - published' + countRX' <= USB2USART_BUFLEN - 1
      BY <1>2, <2>1, BuflenAssumption, EmptyBank
      DEF StartCopy, hist, Copied, TypeOK, USBtoUSART_free, Fill, Slots
    <2>3. tmp' = At(USBtoUSART_WritePtr', taken' - published')
      BY <1>2, AtZero DEF StartCopy, hist, ptrs, Copied, TypeOK
    <2>4. taken' = published' /\ delivered' <= published' /\ published' <= taken'
      BY <1>2 DEF StartCopy, hist, Copied
    <2>5. pc' = "copy" /\ taken' \in Nat /\ published' \in Nat
      BY <1>2 DEF StartCopy, hist, TypeOK
    <2>6. taken' - published' = 0
      BY <1>2 DEF StartCopy, hist, Copied, TypeOK
    <2>7. \A i \in 0..(USB2USART_BUFLEN - 1) : ~(i < 0)
      OBVIOUS
    <2> QED
      BY <2>2, <2>3, <2>4, <2>5, <2>6, <2>7 DEF Copied
  <1>3. CASE CopyByte
    <2> DEFINE n == taken - published
    <2>1. n \in Slots /\ n + 1 \in Slots /\ tmp = At(USBtoUSART_WritePtr, n)
      BY <1>3, BuflenAssumption, EmptyBank DEF CopyByte, Copied, Shape, TypeOK, Slots
    <2>2. tmp' = At(USBtoUSART_WritePtr, n + 1)
      BY <1>3, <2>1, IncAt DEF CopyByte, TypeOK
    <2>3. ASSUME NEW i \in 0..(USB2USART_BUFLEN - 1), i < taken' - published'
          PROVE  ring'[At(USBtoUSART_WritePtr, i)] = published + 1 + i
      <3>1. i \in Slots /\ At(USBtoUSART_WritePtr, i) \in Slots
        BY AtType DEF Slots, TypeOK
      <3>2. CASE i = n
        BY <1>3, <2>1, <3>1, <3>2 DEF CopyByte, TypeOK
      <3>3. CASE i # n
        <4>1. i < n
          BY <1>3, <2>3, <3>3, <2>1 DEF CopyByte, TypeOK, Slots
        <4>2. At(USBtoUSART_WritePtr, i) # tmp
          BY <2>1, <3>1, <3>3, AtInjective DEF TypeOK
        <4> QED
          BY <1>3, <3>1, <4>1, <4>2 DEF CopyByte, TypeOK, Copied
      <3> QED
        BY <3>2, <3>3
    <2>4. taken' - published' + countRX' = taken - published + countRX
      BY <1>3, EmptyBank DEF CopyByte, TypeOK
    <2>5. delivered' <= published' /\ published' <= taken'
      BY <1>3 DEF CopyByte, Copied, TypeOK
    <2>6. taken' - published' = n + 1
      BY <1>3 DEF CopyByte, TypeOK
    <2> QED
      BY <1>3, <2>2, <2>3, <2>4, <2>5, <2>6 DEF CopyByte, Copied
  <1>4. CASE Publish
    BY <1>4 DEF Publish, Copied, TypeOK
  <1>5. CASE Arm \/ Reopen \/ CloseUsart
    BY <1>5 DEF Arm, Reopen, FlushAndReopen, CloseUsart, hist, Copied, TypeOK
  <1>6. CASE UdreIsr
    <2>1. CASE glitched
      BY <1>6, <2>1, CopiedFrame DEF UdreIsr, Copied, TypeOK
    <2>2. CASE ~glitched
      <3>1. pc # "flush" /\ USBtoUSART_ReadPtr # USBtoUSART_WritePtr
        BY <1>6, <2>2, BitFacts
        DEF UdreIsr, Shape, OffWhenAllSentUnlessGlitched, OffWhenAllSent
      <3>2. published - delivered # 0
        BY <2>2, <3>1, AtZero DEF Window, TypeOK
      <3>3. 0 < published - delivered
        BY <3>2 DEF Copied, TypeOK
      <3>4. ring[USBtoUSART_ReadPtr] = delivered + 1
        <4>1. ring[At(USBtoUSART_ReadPtr, 0)] = delivered + 1 + 0
          BY <2>2, <3>1, <3>3, BuflenAssumption DEF Window
        <4> QED
          BY <4>1, AtZero DEF TypeOK
      <3> QED
        BY <1>6, <2>2, <3>3, <3>4, CopiedFrame DEF UdreIsr, Copied, TypeOK
    <2> QED
      BY <2>1, <2>2
  <1> QED
    BY <1>1, <1>2, <1>3, <1>4, <1>5, <1>6 DEF Next, Main
-----------------------------------------------------------------------------
(* What the interrupt has still to send. *)

LEMMA WindowFrame ==
  ASSUME Window, UNCHANGED <<pc, countRX, ring, USBtoUSART_WritePtr,
                    USBtoUSART_ReadPtr, taken, published, delivered, glitched>>
  PROVE  Window'
  BY DEF Window, At

LEMMA WindowStep == ASSUME TypeOK, Shape, Copied, Window,
                           OffWhenAllSentUnlessGlitched, [Next]_vars
                    PROVE  Window'
  <1> DEFINE waiting == published - delivered
  <1>0. waiting \in Nat /\ taken - published \in Nat
    BY DEF Copied, TypeOK
  <1>1. CASE \/ \E n \in 0..CDC_RX_EPSIZE : HostSends(n)
             \/ ByteShifted \/ AckZeroLength \/ RunBootloaderTask
             \/ UNCHANGED vars
    <2>1. UNCHANGED <<pc, countRX, ring, USBtoUSART_WritePtr,
                      USBtoUSART_ReadPtr, taken, published, delivered, glitched>>
      BY <1>1 DEF HostSends, ByteShifted, AckZeroLength, RunBootloaderTask,
         vars, ptrs, hist
    <2> QED
      BY <2>1, WindowFrame DEF Window
  <1>2. CASE StartCopy
    <2> SUFFICES ASSUME ~glitched PROVE Window'
      BY <1>2 DEF StartCopy, hist, Window
    <2>1. waiting \in Slots /\ Fill(USBtoUSART_WritePtr, USBtoUSART_ReadPtr) = waiting
      BY <1>0, <1>2, FillAt, BuflenAssumption DEF StartCopy, Window, TypeOK, Slots
    <2>2. taken' - delivered' + countRX' <= USB2USART_BUFLEN - 1
      BY <1>2, <2>1, EmptyBank, BuflenAssumption
      DEF StartCopy, hist, Copied, TypeOK, USBtoUSART_free, Slots
    <2> QED
      BY <1>2, <2>2 DEF StartCopy, hist, ptrs, Window
  <1>3. CASE CopyByte
    <2> SUFFICES ASSUME ~glitched PROVE Window'
      BY <1>3 DEF CopyByte, Window
    <2>1. /\ waiting + (taken - published) + countRX <= USB2USART_BUFLEN - 1
          /\ waiting + (taken - published) \in Slots
      BY <1>0, <1>3, EmptyBank, BuflenAssumption DEF CopyByte, Shape, Window, TypeOK, Slots
    <2>2. waiting \in Slots /\ taken - published \in Slots
      BY <1>0, <2>1, BuflenAssumption DEF Slots
    <2>3. tmp = At(USBtoUSART_ReadPtr, waiting + (taken - published))
      BY <1>3, <2>1, <2>2, AtAt DEF CopyByte, Copied, Window, TypeOK
    <2>4. ASSUME NEW i \in 0..(USB2USART_BUFLEN - 1), i < waiting
          PROVE  ring'[At(USBtoUSART_ReadPtr, i)] = delivered + 1 + i
      <3>1. i \in Slots /\ At(USBtoUSART_ReadPtr, i) \in Slots
        BY AtType DEF Slots, TypeOK
      <3>2. i # waiting + (taken - published)
        BY <1>0, <2>4, <3>1 DEF Slots
      <3>3. At(USBtoUSART_ReadPtr, i) # tmp
        BY <2>1, <2>3, <3>1, <3>2, AtInjective DEF TypeOK
      <3> QED
        BY <1>3, <2>4, <3>1, <3>3 DEF CopyByte, TypeOK, Window
    <2>5. taken' - delivered' + countRX' <= USB2USART_BUFLEN - 1
      BY <1>3, <2>1, EmptyBank DEF CopyByte, TypeOK
    <2> QED
      BY <1>3, <2>4, <2>5 DEF CopyByte, Window
  <1>4. CASE Publish
    <2> SUFFICES ASSUME ~glitched PROVE Window'
      BY <1>4 DEF Publish, Window
    <2> DEFINE n == taken - published
    <2>1. waiting + n <= USB2USART_BUFLEN - 1
      BY <1>0, <1>4, EmptyBank DEF Publish, Shape, Window, TypeOK
    <2>2. waiting \in Slots /\ n \in Slots /\ waiting + n \in Slots
      BY <1>0, <2>1, BuflenAssumption DEF Slots
    <2>3. /\ tmp = At(USBtoUSART_WritePtr, n)
          /\ USBtoUSART_WritePtr = At(USBtoUSART_ReadPtr, waiting)
      BY <1>4 DEF Publish, Copied, Window
    <2>4. published' - delivered' = waiting + n
      BY <1>4 DEF Publish, TypeOK
    <2>5. USBtoUSART_WritePtr' = At(USBtoUSART_ReadPtr, waiting + n)
      BY <1>4, <2>2, <2>3, AtAt DEF Publish, TypeOK
    <2>6. ASSUME NEW i \in 0..(USB2USART_BUFLEN - 1), i < waiting + n
          PROVE  ring[At(USBtoUSART_ReadPtr, i)] = delivered + 1 + i
      <3>1. CASE i < waiting
        BY <1>4, <3>1 DEF Publish, Window
      <3>2. CASE ~(i < waiting)
        <4> DEFINE j == i - waiting
        <4>1. j \in Slots /\ j < n /\ i \in Slots
          BY <1>0, <2>2, <2>6, <3>2, BuflenAssumption DEF Slots
        <4>2. waiting + j = i
          BY <1>0, <2>6
        <4>3. At(USBtoUSART_WritePtr, j) = At(USBtoUSART_ReadPtr, i)
          BY <2>2, <2>3, <4>1, <4>2, AtAt DEF TypeOK
        <4>4. ring[At(USBtoUSART_WritePtr, j)] = published + 1 + j
          <5>1. j \in 0..(USB2USART_BUFLEN - 1) /\ j < taken - published
            BY <4>1 DEF Slots
          <5> HIDE DEF j
          <5> QED
            BY <1>4, <5>1 DEF Publish, Copied
        <4>5. published + 1 + j = delivered + 1 + i
          BY <2>6 DEF TypeOK
        <4> QED
          BY <4>3, <4>4, <4>5
      <3> QED
        BY <3>1, <3>2
    <2> QED
      BY <1>4, <2>1, <2>4, <2>5, <2>6 DEF Publish, Window
  <1>5. CASE Arm
    <2> SUFFICES ASSUME ~glitched' PROVE Window'
      BY DEF Window
    <2> QED
      BY <1>5 DEF Arm, Window, ptrs, bank
  <1>6. CASE Reopen
    <2>1. published' - delivered' = 0 /\ USBtoUSART_WritePtr' = At(USBtoUSART_ReadPtr', 0)
      BY <1>6, AtZero, SlotsNonEmpty DEF Reopen, FlushAndReopen, TypeOK
    <2>2. \A i \in 0..(USB2USART_BUFLEN - 1) : ~(i < 0)
      OBVIOUS
    <2>3. pc' = "loop"
      BY <1>6 DEF Reopen, FlushAndReopen
    <2> QED
      BY <2>1, <2>2, <2>3, BuflenAssumption DEF Window
  <1>7. CASE CloseUsart
    BY <1>7 DEF CloseUsart, Window
  <1>8. CASE UdreIsr
    <2> DEFINE drained == USBtoUSART_ReadPtr' = USBtoUSART_WritePtr
    <2>1. pc # "flush" /\ pc' = pc
      BY <1>8, BitFacts DEF UdreIsr, Shape
    <2>2. CASE glitched
      <3> SUFFICES ASSUME drained PROVE Window'
        BY <1>8, <2>2 DEF UdreIsr, Window
      <3>1. published' - delivered' = 0
        <4>1. delivered' = published /\ published' = published
          BY <1>8, <2>2 DEF UdreIsr
        <4> QED
          BY <4>1 DEF TypeOK
      <3>2. USBtoUSART_WritePtr' = At(USBtoUSART_ReadPtr', 0)
        BY <1>8, AtZero DEF UdreIsr, TypeOK
      <3>3. pc' \in {"copy", "publish"} =>
              taken' - delivered' + countRX' <= USB2USART_BUFLEN - 1
        BY <1>8, <2>2 DEF UdreIsr, Copied, TypeOK
      <3>4. \A i \in 0..(USB2USART_BUFLEN - 1) : ~(i < 0)
        OBVIOUS
      <3> QED
        BY <3>1, <3>2, <3>3, <3>4, BuflenAssumption DEF Window
    <2>3. CASE ~glitched
      <3>1. USBtoUSART_ReadPtr # USBtoUSART_WritePtr
        BY <1>8, <2>3 DEF UdreIsr, OffWhenAllSentUnlessGlitched, OffWhenAllSent
      <3>2. /\ waiting <= USB2USART_BUFLEN - 1
            /\ USBtoUSART_WritePtr = At(USBtoUSART_ReadPtr, waiting)
            /\ \A i \in 0..(USB2USART_BUFLEN - 1) : i < waiting =>
                 ring[At(USBtoUSART_ReadPtr, i)] = delivered + 1 + i
        BY <2>1, <2>3 DEF Window
      <3>3. waiting # 0
        BY <3>1, <3>2, AtZero DEF TypeOK
      <3>4. waiting - 1 \in Nat /\ 0 < waiting /\ waiting \in Slots /\ waiting - 1 \in Slots
        BY <1>0, <3>2, <3>3, BuflenAssumption DEF Slots
      <3>5. delivered' = delivered + 1
        <4>1. ring[At(USBtoUSART_ReadPtr, 0)] = delivered + 1 + 0
          BY <3>2, <3>4, BuflenAssumption
        <4> QED
          BY <1>8, <2>3, <4>1, AtZero DEF UdreIsr, TypeOK
      <3>6. published' - delivered' = waiting - 1
        BY <1>8, <3>5 DEF UdreIsr, TypeOK
      <3>7. \A i \in Slots : i + 1 \in Slots =>
              At(USBtoUSART_ReadPtr', i) = At(USBtoUSART_ReadPtr, i + 1)
        BY <1>8, IncAt DEF UdreIsr, TypeOK
      <3>8. USBtoUSART_WritePtr' = At(USBtoUSART_ReadPtr', waiting - 1)
        <4>1. (waiting - 1) + 1 = waiting
          BY <1>0
        <4>2. At(USBtoUSART_ReadPtr', waiting - 1) = At(USBtoUSART_ReadPtr, waiting)
          <5> DEFINE i == waiting - 1
          <5>1. i \in Slots /\ i + 1 = waiting /\ i + 1 \in Slots
            BY <3>4, <4>1
          <5> HIDE DEF i, waiting
          <5>2. At(USBtoUSART_ReadPtr', i) = At(USBtoUSART_ReadPtr, waiting)
            BY <3>7, <5>1
          <5> QED
            BY <5>2 DEF i
        <4> QED
          BY <1>8, <3>2, <4>2 DEF UdreIsr
      <3>9. ASSUME NEW i \in 0..(USB2USART_BUFLEN - 1), i < waiting - 1
            PROVE  ring'[At(USBtoUSART_ReadPtr', i)] = delivered' + 1 + i
        <4>1. /\ i \in Slots /\ i + 1 \in Slots
              /\ i + 1 \in 0..(USB2USART_BUFLEN - 1) /\ i + 1 < waiting
          BY <1>0, <3>4, <3>9, BuflenAssumption DEF Slots
        <4>2. ring[At(USBtoUSART_ReadPtr, i + 1)] = delivered + 1 + (i + 1)
          BY <3>2, <4>1
        <4> QED
          BY <1>8, <3>5, <3>7, <4>1, <4>2 DEF UdreIsr, TypeOK
      <3>10. pc' \in {"copy", "publish"} =>
               taken' - delivered' + countRX' <= USB2USART_BUFLEN - 1
        <4>1. /\ taken' = taken /\ countRX' = countRX
              /\ pc \in {"copy", "publish"} =>
                   taken - delivered + countRX <= USB2USART_BUFLEN - 1
          BY <1>8, <2>1, <2>3 DEF UdreIsr, Window
        <4> QED
          BY <2>1, <3>5, <4>1, EmptyBank, BuflenAssumption DEF TypeOK
      <3> QED
        BY <3>4, <3>6, <3>8, <3>9, <3>10, BuflenAssumption DEF Window, Slots
    <2> QED
      BY <2>2, <2>3
  <1> QED
    BY <1>1, <1>2, <1>3, <1>4, <1>5, <1>6, <1>7, <1>8 DEF Next, Main

-----------------------------------------------------------------------------
(* The interrupt enable bit. *)

LEMMA EnableStep == ASSUME TypeOK, Shape, Copied, Window, NoLostWakeup,
                           OffWhenAllSentUnlessGlitched, [Next]_vars
                    PROVE  NoLostWakeup' /\ OffWhenAllSentUnlessGlitched'
  <1> USE BitFacts DEF TypeOK, NoLostWakeup, OffWhenAllSentUnlessGlitched,
                       OffWhenAllSent, Open
  <1>1. CASE \E n \in 0..CDC_RX_EPSIZE : HostSends(n)
    BY <1>1 DEF HostSends, ptrs, hist
  <1>2. CASE ByteShifted
    BY <1>2 DEF ByteShifted, ptrs, bank, hist
  <1>3. CASE AckZeroLength \/ RunBootloaderTask
    BY <1>3 DEF AckZeroLength, RunBootloaderTask, ptrs, hist
  <1>4. CASE StartCopy
    BY <1>4 DEF StartCopy, ptrs, bank, hist
  <1>5. CASE CopyByte
    BY <1>5 DEF CopyByte
  <1>6. CASE Publish
    <2>1. NoLostWakeup'
      BY <1>6 DEF Publish
    <2>2. ASSUME ~glitched, "UDRIE1" \in UCSR1B
          PROVE  USBtoUSART_ReadPtr # tmp
      <3> DEFINE waiting == published - delivered
                 n == taken - published
      <3>1. /\ waiting \in Slots /\ n \in Slots /\ waiting + n \in Slots
            /\ USBtoUSART_WritePtr = At(USBtoUSART_ReadPtr, waiting)
            /\ tmp = At(USBtoUSART_WritePtr, n)
        BY <1>6, <2>2, EmptyBank, BuflenAssumption
        DEF Publish, Shape, Copied, Window, Slots
      <3>2. waiting # 0
        BY <2>2, <3>1, AtZero
      <3>3. tmp = At(USBtoUSART_ReadPtr, waiting + n) /\ waiting + n # 0
        BY <3>1, <3>2, AtAt DEF Slots
      <3>4. USBtoUSART_ReadPtr = At(USBtoUSART_ReadPtr, 0)
        BY AtZero
      <3> QED
        BY <3>1, <3>3, <3>4, AtInjective, SlotsNonEmpty
    <2> QED
      BY <1>6, <2>1, <2>2 DEF Publish
  <1>7. CASE Arm
    BY <1>7 DEF Arm, ptrs, bank
  <1>8. CASE Reopen
    BY <1>8 DEF Reopen, FlushAndReopen, bank
  <1>9. CASE CloseUsart
    BY <1>9 DEF CloseUsart, ptrs, bank, hist
  <1>10. CASE UdreIsr
    BY <1>10 DEF UdreIsr, bank
  <1>11. CASE UNCHANGED vars
    BY <1>11 DEF vars, ptrs, bank, hist
  <1> QED
    BY <1>1, <1>2, <1>3, <1>4, <1>5, <1>6, <1>7, <1>8, <1>9, <1>10, <1>11
    DEF Next, Main
-----------------------------------------------------------------------------
(* The theorems. *)

LEMMA StepIInv == IInv /\ [Next]_vars => IInv'
  BY TypeStep, ShapeStep, CopiedStep, WindowStep, EnableStep DEF IInv

\* IInv holds in every reachable state.
THEOREM Invariance == Spec => []IInv
  BY InitIInv, StepIInv, PTL DEF Spec

\* The variables keep their types: in particular both pointers stay inside the
\* ring and the copy never reads more bytes than the bank holds.
THEOREM TypeCorrect == Spec => []TypeOK
  <1>1. IInv => TypeOK
    BY DEF IInv
  <1> QED
    BY <1>1, Invariance, PTL

\* Bytes never lie in the ring with the transmit interrupt off, outside the
\* window between publishing them and enabling it.
THEOREM NoWakeupIsLost == Spec => []NoLostWakeup
  <1>1. IInv => NoLostWakeup
    BY DEF IInv
  <1> QED
    BY <1>1, Invariance, PTL

\* The copy of a packet never overwrites a byte still to be sent.
THEOREM CopyAlwaysHasRoom == Spec => []CopyHasRoom
  <1>1. ASSUME IInv PROVE CopyHasRoom
    <2> SUFFICES ASSUME pc = "copy", ~glitched
                 PROVE  Fill(tmp, USBtoUSART_ReadPtr) + countRX <= USB2USART_BUFLEN - 1
      BY DEF CopyHasRoom
    <2> USE <1>1 DEF IInv
    <2> DEFINE waiting == published - delivered
               n == taken - published
    <2>1. /\ waiting \in Nat /\ n \in Nat
          /\ waiting + n + countRX <= USB2USART_BUFLEN - 1
      BY EmptyBank, BuflenAssumption DEF Copied, Window, TypeOK
    <2>2. waiting \in Slots /\ n \in Slots /\ waiting + n \in Slots
      BY <2>1, EmptyBank, BuflenAssumption DEF TypeOK, Slots
    <2>3. tmp = At(USBtoUSART_ReadPtr, waiting + n)
      BY <2>2, AtAt DEF Copied, Window, TypeOK
    <2>4. Fill(tmp, USBtoUSART_ReadPtr) = waiting + n
      BY <2>2, <2>3, FillAt DEF TypeOK
    <2> QED
      BY <2>1, <2>4
  <1> QED
    BY <1>1, Invariance, PTL
-----------------------------------------------------------------------------
(* Refinement of ByteChannel. *)

\* Without a glitch the interrupt sends the byte after the last one.
LEMMA IsrSendsNext ==
  ASSUME IInv, UdreIsr, ~glitched
  PROVE  delivered < published /\ delivered' = delivered + 1 /\ glitched' = FALSE
  <1> USE DEF IInv
  <1>1. pc # "flush" /\ USBtoUSART_ReadPtr # USBtoUSART_WritePtr
    BY BitFacts DEF UdreIsr, Shape, OffWhenAllSentUnlessGlitched, OffWhenAllSent
  <1>2. published - delivered # 0
    BY <1>1, AtZero DEF Window, TypeOK
  <1>3. 0 < published - delivered
    BY <1>2 DEF Copied, TypeOK
  <1>4. ring[At(USBtoUSART_ReadPtr, 0)] = delivered + 1 + 0
    BY <1>1, <1>3, BuflenAssumption DEF Window
  <1> QED
    BY <1>3, <1>4, AtZero DEF UdreIsr, TypeOK

\* A ring whose pointers meet has nothing left to send.
LEMMA EqualPointersEmpty ==
  ASSUME IInv, ~glitched, pc # "flush", USBtoUSART_ReadPtr = USBtoUSART_WritePtr
  PROVE  delivered = published
  <1> USE DEF IInv
  <1>1. published - delivered \in Slots
    BY BuflenAssumption DEF Window, Copied, TypeOK, Slots
  <1>2. published - delivered = 0
    BY <1>1, AtZero, AtInjective, SlotsNonEmpty DEF Window, TypeOK
  <1> QED
    BY <1>2 DEF TypeOK

LEMMA ChannelStep == IInv /\ [Next]_vars => [Channel!Next]_(Channel!vars)
  <1> SUFFICES ASSUME IInv, [Next]_vars PROVE [Channel!Next]_(Channel!vars)
    OBVIOUS
  <1> USE BitFacts DEF Channel!vars, Open
  <1>1. CASE \/ \E n \in 0..CDC_RX_EPSIZE : HostSends(n)
             \/ ByteShifted \/ AckZeroLength \/ RunBootloaderTask
             \/ StartCopy \/ CopyByte \/ UNCHANGED vars
    BY <1>1 DEF HostSends, ByteShifted, AckZeroLength, RunBootloaderTask,
       StartCopy, CopyByte, vars, hist
  <1>2. CASE Publish
    <2> DEFINE k == taken - published
    <2>1. /\ k \in 0..(USB2USART_BUFLEN - 1) /\ published' = published + k
          /\ ~glitched => published' - delivered <= USB2USART_BUFLEN - 1
      BY <1>2, EmptyBank, BuflenAssumption
      DEF Publish, IInv, Shape, Copied, Window, TypeOK
    <2>2. Open /\ UNCHANGED <<delivered, UCSR1B, glitched>>
      BY <1>2 DEF Publish, IInv, Shape
    <2>3. CASE k = 0
      BY <2>1, <2>2, <2>3 DEF IInv, TypeOK
    <2>4. CASE k # 0
      <3>1. k \in 1..(USB2USART_BUFLEN - 1)
        BY <2>1, <2>4, BuflenAssumption
      <3> HIDE DEF k
      <3>2. Channel!Accept
        BY <2>1, <2>2, <3>1 DEF Channel!Accept
      <3> QED
        BY <3>2 DEF Channel!Next
    <2> QED
      BY <2>3, <2>4
  <1>3. CASE Arm
    <2>1. Open /\ Open' /\ UNCHANGED <<published, delivered>>
      BY <1>3 DEF Arm, IInv, Shape
    <2>2. CASE glitched \/ USBtoUSART_ReadPtr # USBtoUSART_WritePtr
      BY <1>3, <2>1, <2>2 DEF Arm, IInv, TypeOK
    <2>3. CASE ~glitched /\ USBtoUSART_ReadPtr = USBtoUSART_WritePtr
      <3>1. delivered = published /\ glitched' = TRUE
        BY <1>3, <2>3, EqualPointersEmpty DEF Arm
      <3> QED
        BY <2>1, <2>3, <3>1 DEF Channel!Next, Channel!Glitch
    <2> QED
      BY <2>2, <2>3
  <1>4. CASE Reopen
    <2>1. ~Open /\ Open' \in BOOLEAN
      BY <1>4 DEF Reopen, FlushAndReopen, IInv, Shape
    <2> QED
      BY <1>4, <2>1 DEF Reopen, FlushAndReopen, Channel!Next, Channel!Flush
  <1>5. CASE CloseUsart
    BY <1>5 DEF CloseUsart, hist, Channel!Next, Channel!Close
  <1>6. CASE UdreIsr
    <2>1. Open /\ Open' /\ published' = published
      BY <1>6 DEF UdreIsr
    <2>2. CASE ~glitched
      <3>1. glitched' = glitched
        BY <1>6, <2>2, IsrSendsNext DEF IInv, TypeOK
      <3> QED
        BY <1>6, <2>1, <2>2, <3>1, IsrSendsNext DEF Channel!Next, Channel!Deliver
    <2>3. CASE glitched /\ USBtoUSART_ReadPtr' = USBtoUSART_WritePtr
      BY <1>6, <2>1, <2>3 DEF UdreIsr, Channel!Next, Channel!Heal
    <2>4. CASE glitched /\ USBtoUSART_ReadPtr' # USBtoUSART_WritePtr
      BY <1>6, <2>1, <2>4 DEF UdreIsr, IInv, TypeOK
    <2> QED
      BY <2>2, <2>3, <2>4
  <1> QED
    BY <1>1, <1>2, <1>3, <1>4, <1>5, <1>6 DEF Next, Main

\* The direction is a bounded FIFO of capacity USB2USART_BUFLEN - 1 between two
\* settings of the line coding, apart from glitches of an empty channel.
THEOREM Refinement == Spec => ImplementsChannel
  <1>1. Init => Channel!Init
    BY DEF Init, Channel!Init, Open
  <1> QED
    BY <1>1, ChannelStep, Invariance, PTL DEF Spec, ImplementsChannel, Channel!Spec

-----------------------------------------------------------------------------
(* Without the race of Arm against the interrupt.                          *)

\* The interrupt has sent the whole packet before main() enables it for that packet.
ArmsOnEmptyRing == Arm /\ USBtoUSART_ReadPtr = USBtoUSART_WritePtr

LEMMA NeverGlitches == Spec /\ [][~ArmsOnEmptyRing]_vars => [](IInv /\ ~glitched)
  <1>1. Init => ~glitched
    BY DEF Init
  <1>2. IInv /\ ~glitched /\ [Next]_vars /\ [~ArmsOnEmptyRing]_vars => ~glitched'
    <2> SUFFICES ASSUME IInv, ~glitched, [Next]_vars, [~ArmsOnEmptyRing]_vars PROVE ~glitched'
      OBVIOUS
    <2>1. CASE UNCHANGED vars
      BY <2>1 DEF vars, hist
    <2>2. CASE Next /\ ~ArmsOnEmptyRing
      <3>1. Arm => ~glitched'
        BY <2>2 DEF Arm, ArmsOnEmptyRing
      <3>2. UdreIsr => ~glitched'
        BY <2>2 DEF UdreIsr
      <3>3. ~Arm /\ ~UdreIsr => ~glitched'
        BY <2>2 DEF Next, Main, HostSends, ByteShifted, AckZeroLength, RunBootloaderTask, StartCopy,
           CopyByte, Publish, Reopen, FlushAndReopen, CloseUsart, hist
      <3> QED
        BY <3>1, <3>2, <3>3
    <2> QED
      BY <2>1, <2>2
  <1> QED
    BY <1>1, <1>2, InitIInv, StepIInv, PTL DEF Spec

\* "Turn off this interrupt (UDRIE1), all bytes sent" is kept wherever main() enables the
\* interrupt before the last byte of the packet has gone.  Where it comes too late the run
\* usb_to_usart_race finds the contrary.
THEOREM OffOnceAllSent == Spec /\ [][~ArmsOnEmptyRing]_vars => []OffWhenAllSent
  <1>1. IInv /\ ~glitched => OffWhenAllSent
    BY DEF IInv, OffWhenAllSentUnlessGlitched
  <1> QED
    BY <1>1, NeverGlitches, PTL

\* The line gets every byte that main() has taken, in order and once: each is the one after
\* the last, unless the ring is thrown away for a new line coding.
SentInOrder ==
  [][ \/ delivered' = delivered
      \/ delivered' = delivered + 1 /\ delivered' <= published
      \/ Reopen /\ delivered' = published ]_vars

\* Under the same condition nothing is ever sent that the host has not sent, and nothing twice.
THEOREM SendsInOrder == Spec /\ [][~ArmsOnEmptyRing]_vars => SentInOrder
  <1>1. ASSUME IInv /\ ~glitched, [Next]_vars
        PROVE  \/ delivered' = delivered
               \/ delivered' = delivered + 1 /\ delivered' <= published
               \/ Reopen /\ delivered' = published
    <2>1. CASE UdreIsr
      <3>1. delivered < published /\ delivered' = delivered + 1
        BY <1>1, <2>1, IsrSendsNext
      <3>2. delivered' <= published
        BY <1>1, <3>1 DEF IInv, TypeOK
      <3> QED
        BY <3>1, <3>2
    <2>2. CASE Reopen
      BY <2>2 DEF Reopen, FlushAndReopen
    <2>3. CASE ~UdreIsr /\ ~Reopen
      BY <1>1, <2>3 DEF Next, Main, HostSends, ByteShifted, AckZeroLength, RunBootloaderTask,
         StartCopy, CopyByte, Publish, Arm, CloseUsart, vars, hist
    <2> QED
      BY <2>1, <2>2, <2>3
  <1> QED
    BY <1>1, NeverGlitches, PTL DEF SentInOrder, Spec

\* With the interrupt held off between the two stores of main() there is no race: a packet
\* has at least one byte, and it is still in the ring.
Ahead ==
  /\ pc = "copy" => countRX > 0
  /\ pc = "publish" => taken > published
  /\ pc = "arm" => USBtoUSART_ReadPtr # USBtoUSART_WritePtr

LEMMA PublishesBytes ==
  ASSUME IInv, Ahead, ~glitched, Publish PROVE USBtoUSART_ReadPtr # tmp
  <1> USE DEF IInv
  <1> DEFINE waiting == published - delivered
             n == taken - published
  <1>1. /\ waiting \in Slots /\ n \in Slots /\ waiting + n \in Slots
        /\ USBtoUSART_WritePtr = At(USBtoUSART_ReadPtr, waiting)
        /\ tmp = At(USBtoUSART_WritePtr, n)
    BY EmptyBank, BuflenAssumption DEF Publish, Shape, Copied, Window, TypeOK, Slots
  <1>2. n # 0
    BY DEF Ahead, Publish, TypeOK
  <1>3. tmp = At(USBtoUSART_ReadPtr, waiting + n) /\ waiting + n # 0
    BY <1>1, <1>2, AtAt DEF Slots, TypeOK
  <1>4. USBtoUSART_ReadPtr = At(USBtoUSART_ReadPtr, 0)
    BY AtZero DEF TypeOK
  <1> QED
    BY <1>1, <1>3, <1>4, AtInjective, SlotsNonEmpty DEF TypeOK

LEMMA AheadStep ==
  ASSUME IInv, Ahead, ~glitched, [Next]_vars, [~(pc = "arm" /\ UdreIsr)]_vars
  PROVE  Ahead' /\ ~glitched'
  <1>1. CASE UNCHANGED vars
    BY <1>1 DEF vars, ptrs, hist, Ahead
  <1>2. CASE Publish
    BY <1>2, PublishesBytes DEF Publish, Ahead
  <1>3. CASE Arm
    BY <1>3 DEF Arm, Ahead
  <1>4. CASE UdreIsr /\ ~UNCHANGED vars
    <2>1. pc # "arm"
      BY <1>4
    <2> QED
      BY <1>4, <2>1 DEF UdreIsr, Ahead
  <1>5. CASE CopyByte
    <2>1. countRX \in Nat /\ countRX > 0 /\ taken \in Nat /\ published \in Nat /\ published <= taken
      BY <1>5, EmptyBank DEF CopyByte, Ahead, IInv, TypeOK, Copied
    <2>2. countRX' = countRX - 1 /\ taken' = taken + 1 /\ published' = published
          /\ pc' = (IF countRX = 1 THEN "publish" ELSE "copy") /\ glitched' = glitched
      BY <1>5 DEF CopyByte
    <2> QED
      BY <2>1, <2>2 DEF Ahead
  <1>6. CASE StartCopy
    BY <1>6, EmptyBank DEF StartCopy, hist, Ahead, IInv, TypeOK
  <1>7. CASE Reopen \/ CloseUsart
    BY <1>7 DEF Reopen, FlushAndReopen, CloseUsart, hist, Ahead
  <1>8. CASE \/ \E n \in 0..CDC_RX_EPSIZE : HostSends(n)
             \/ ByteShifted \/ AckZeroLength \/ RunBootloaderTask
    BY <1>8 DEF HostSends, ByteShifted, AckZeroLength, RunBootloaderTask, ptrs, hist, Ahead
  <1> QED
    BY <1>1, <1>2, <1>3, <1>4, <1>5, <1>6, <1>7, <1>8 DEF Next, Main

\* Were the interrupt held off between the store of the write pointer and that of UDRIE1,
\* main() would never enable it on an empty ring: this window is the whole of the race.
THEOREM WindowIsTheRace ==
  Spec /\ [][~(pc = "arm" /\ UdreIsr)]_vars => [][~ArmsOnEmptyRing]_vars
  <1>1. Init => Ahead /\ ~glitched
    BY DEF Init, Ahead
  <1>2. Ahead => ~ArmsOnEmptyRing
    BY DEF Ahead, Arm, ArmsOnEmptyRing
  <1>3. /\ IInv /\ Ahead /\ ~glitched /\ [Next]_vars /\ [~(pc = "arm" /\ UdreIsr)]_vars
        => Ahead' /\ ~glitched'
    BY AheadStep
  <1> QED
    BY <1>1, <1>2, <1>3, InitIInv, StepIInv, PTL DEF Spec
=============================================================================
