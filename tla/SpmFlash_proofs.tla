---------------------------- MODULE SpmFlash_proofs ----------------------------
(***************************************************************************)
(* Facts about SpmFlash that the proofs about both boot loaders rest on:   *)
(* which addresses are on which page, what an erase leaves, and that a     *)
(* page write to a blank page programs nothing over.                       *)
(***************************************************************************)
EXTENDS SpmFlash, TLAPS

Buffers == [Offsets -> Nat \cup {Erased}]

\* Flash with no byte programmed twice.
Sound == [FlashAddresses -> Contents \ {Garbled}]

Blank(f, page) == \A a \in FlashAddresses : PageOf(a) = page => f[a] = Erased

-----------------------------------------------------------------------------
LEMMA PageSize == SPM_PAGESIZE \in Nat \ {0}
  BY PageAssumption

\* BOOT_START_ADDR is the first address of a page.
LEMMA BootStart == BOOT_START_ADDR \in Nat /\ BOOT_START_ADDR = AppPages * SPM_PAGESIZE
                   /\ AppPages \in Nat \ {0}
  BY PageAssumption, PagesAssumption DEF BOOT_START_ADDR

LEMMA AddressIsNat == FlashAddresses \subseteq Nat
  BY PageAssumption, PagesAssumption DEF FlashAddresses

\* A page is the addresses from its first to the next page's first.
LEMMA PageBounds ==
  ASSUME NEW a \in Nat
  PROVE  /\ PageOf(a) \in Nat
         /\ PageOf(a) * SPM_PAGESIZE <= a
         /\ a < (PageOf(a) + 1) * SPM_PAGESIZE
  BY PageSize DEF PageOf

\* The pages below BOOT_START_ADDR are those of the application section.
LEMMA AppPage ==
  ASSUME NEW a \in Nat
  PROVE  a < BOOT_START_ADDR <=> PageOf(a) \in 0..(AppPages - 1)
<1> DEFINE p == PageOf(a)
<1>1. p \in Nat /\ p * SPM_PAGESIZE <= a /\ a < (p + 1) * SPM_PAGESIZE
  BY PageBounds
<1> HIDE DEF p
<1>2. ASSUME p >= AppPages PROVE ~(a < BOOT_START_ADDR)
  <2>1. p * SPM_PAGESIZE >= AppPages * SPM_PAGESIZE
    BY <1>1, <1>2, PageSize, BootStart
  <2> QED
    BY <1>1, <2>1, PageSize, BootStart
<1>3. ASSUME p < AppPages PROVE a < BOOT_START_ADDR
  <2>1. (p + 1) * SPM_PAGESIZE <= AppPages * SPM_PAGESIZE
    BY <1>1, <1>3, PageSize, BootStart
  <2> QED
    BY <1>1, <2>1, PageSize, BootStart
<1>4. p \in 0..(AppPages - 1) <=> p < AppPages
  BY <1>1, BootStart
<1> QED
  BY <1>1, <1>2, <1>3, <1>4, BootStart DEF p

\* From the first address of a page on, as many as the page has are on it.
LEMMA WholePage ==
  ASSUME NEW k \in Nat, NEW a \in Nat, k * SPM_PAGESIZE <= a, a < k * SPM_PAGESIZE + SPM_PAGESIZE
  PROVE  PageOf(a) = PageOf(k * SPM_PAGESIZE)
<1>0. k * SPM_PAGESIZE \in Nat /\ k * SPM_PAGESIZE < k * SPM_PAGESIZE + SPM_PAGESIZE
  BY PageSize
<1>1. ASSUME NEW x \in Nat, k * SPM_PAGESIZE <= x, x < k * SPM_PAGESIZE + SPM_PAGESIZE
      PROVE  PageOf(x) = k
  <2> DEFINE p == PageOf(x)
  <2>1. p \in Nat /\ p * SPM_PAGESIZE <= x /\ x < (p + 1) * SPM_PAGESIZE
    BY PageBounds
  <2> HIDE DEF p
  <2>2. ~(p > k)
    <3> SUFFICES ASSUME p >= k + 1 PROVE FALSE
      BY <2>1
    <3>1. p * SPM_PAGESIZE >= (k + 1) * SPM_PAGESIZE
      BY <2>1, PageSize
    <3> QED
      BY <1>1, <2>1, <3>1, PageSize
  <2>3. ~(p < k)
    <3> SUFFICES ASSUME p + 1 <= k PROVE FALSE
      BY <2>1
    <3>1. (p + 1) * SPM_PAGESIZE <= k * SPM_PAGESIZE
      BY <2>1, PageSize
    <3> QED
      BY <1>1, <2>1, <3>1, PageSize
  <2> QED
    BY <2>1, <2>2, <2>3 DEF p
<1>2. PageOf(a) = k
  BY <1>1
<1>3. PageOf(k * SPM_PAGESIZE) = k
  BY <1>0, <1>1
<1> QED
  BY <1>2, <1>3

-----------------------------------------------------------------------------
LEMMA OffsetType == ASSUME NEW a \in Nat PROVE OffsetOf(a) \in Offsets
  BY PageSize DEF OffsetOf, Offsets

LEMMA EmptyBufferType == EmptyBuffer \in Buffers
  BY DEF EmptyBuffer, Buffers

\* A word goes to two places of the page buffer, or nowhere.
LEMMA FillWordType ==
  ASSUME NEW b \in Buffers, NEW a, NEW low \in Nat \cup {Erased}, NEW high \in Nat \cup {Erased}
  PROVE  FillWord(b, a, low, high) \in Buffers
  BY DEF FillWord, Buffers

\* An erase blanks its page and leaves the others.
LEMMA Erasing ==
  ASSUME NEW f \in Sound, NEW page
  PROVE  /\ ErasePage(f, page) \in Sound
         /\ Blank(ErasePage(f, page), page)
         /\ \A a \in FlashAddresses : f[a] = Erased => ErasePage(f, page)[a] = Erased
         /\ \A a \in FlashAddresses : ErasePage(f, page)[a] # f[a] => PageOf(a) = page
  BY DEF ErasePage, Sound, Blank, Erased, Garbled, Contents

\* A page write changes its own page only, and with an empty buffer nothing at all.
LEMMA WritesItsPage ==
  ASSUME NEW f \in Sound, NEW b, NEW page
  PROVE  /\ \A a \in FlashAddresses : WritePage(f, b, page)[a] # f[a] => PageOf(a) = page
         /\ WritePage(f, EmptyBuffer, page) = f
<1>1. \A a \in FlashAddresses : WritePage(f, b, page)[a] # f[a] => PageOf(a) = page
  BY DEF WritePage
<1>2. ASSUME NEW a \in FlashAddresses PROVE EmptyBuffer[OffsetOf(a)] = Erased
  BY AddressIsNat, OffsetType DEF EmptyBuffer
<1>3. WritePage(f, EmptyBuffer, page) = [a \in FlashAddresses |-> f[a]]
  BY <1>2 DEF WritePage
<1> QED
  BY <1>1, <1>3 DEF Sound

\* On a blank page it programs nothing over.
LEMMA WritesBlank ==
  ASSUME NEW f \in Sound, NEW b \in Buffers, NEW page, Blank(f, page)
  PROVE  /\ WritePage(f, b, page) \in Sound
         /\ \A a \in FlashAddresses :
              WritePage(f, b, page)[a] # f[a] => PageOf(a) = page /\ f[a] = Erased
<1>1. ASSUME NEW a \in FlashAddresses
      PROVE  /\ WritePage(f, b, page)[a] \in Contents \ {Garbled}
             /\ WritePage(f, b, page)[a] # f[a] => PageOf(a) = page /\ f[a] = Erased
  <2>1. b[OffsetOf(a)] \in Contents \ {Garbled} /\ f[a] \in Contents \ {Garbled}
    <3>1. OffsetOf(a) \in Offsets
      BY AddressIsNat, OffsetType
    <3> QED
      BY <3>1 DEF Buffers, Sound, Contents, Erased, Garbled
  <2>2. PageOf(a) = page => f[a] = Erased
    BY DEF Blank
  <2> QED
    BY <2>1, <2>2 DEF WritePage
<1>2. WritePage(f, b, page) \in Sound
  BY <1>1 DEF WritePage, Sound
<1> QED
  BY <1>1, <1>2
\* An address is its page's first address and its offset.
LEMMA OffsetInPage ==
  ASSUME NEW a \in Nat
  PROVE  PageOf(a) * SPM_PAGESIZE \in Nat /\ a = PageOf(a) * SPM_PAGESIZE + OffsetOf(a)
  BY PageSize DEF PageOf, OffsetOf

\* On one page, offsets are as far apart as addresses.
LEMMA OffsetsApart ==
  ASSUME NEW a \in Nat, NEW b \in Nat, PageOf(a) = PageOf(b)
  PROVE  OffsetOf(b) - OffsetOf(a) = b - a
<1> DEFINE base == PageOf(a) * SPM_PAGESIZE
<1>1. base \in Nat /\ a = base + OffsetOf(a) /\ b = base + OffsetOf(b)
  BY OffsetInPage
<1>2. OffsetOf(a) \in Nat /\ OffsetOf(b) \in Nat
  BY OffsetType, PageSize DEF Offsets
<1> HIDE DEF base
<1> QED
  BY <1>1, <1>2

\* An address that is not past the end of the page of another is on that page.
LEMMA OffsetMoves ==
  ASSUME NEW a \in Nat, NEW n \in Nat, OffsetOf(a) + n < SPM_PAGESIZE
  PROVE  PageOf(a + n) = PageOf(a) /\ OffsetOf(a + n) = OffsetOf(a) + n
<1> DEFINE k == PageOf(a)
           base == k * SPM_PAGESIZE
<1>1. k \in Nat /\ base \in Nat /\ a = base + OffsetOf(a)
  BY OffsetInPage, PageBounds
<1>2. OffsetOf(a) \in Nat
  BY OffsetType, PageSize DEF Offsets
<1>3. /\ base <= a /\ a < base + SPM_PAGESIZE
      /\ base <= a + n /\ a + n < base + SPM_PAGESIZE /\ a + n \in Nat
  <2> HIDE DEF base
  <2> QED
    BY <1>1, <1>2, PageSize
<1>4. PageOf(a + n) = PageOf(base) /\ PageOf(a) = PageOf(base)
  <2> HIDE DEF k
  <2> QED
    BY <1>1, <1>3, WholePage
<1>5. OffsetOf(a + n) - OffsetOf(a) = (a + n) - a
  BY <1>3, <1>4, OffsetsApart
<1>6. OffsetOf(a + n) \in Nat
  BY <1>3, OffsetType, PageSize DEF Offsets
<1> QED
  BY <1>2, <1>4, <1>5, <1>6

\* A word goes to an erased place and the one after it.
LEMMA FillWordFills ==
  ASSUME NEW b \in Buffers, NEW a \in Nat, NEW low, NEW high,
         OffsetOf(a) + 1 \in Offsets, b[OffsetOf(a)] = Erased, NEW o \in Offsets
  PROVE  FillWord(b, a, low, high)[o] =
           IF o = OffsetOf(a) THEN low ELSE IF o = OffsetOf(a) + 1 THEN high ELSE b[o]
<1>1. OffsetOf(a) \in Offsets /\ OffsetOf(a) # OffsetOf(a) + 1
  BY OffsetType, PageSize DEF Offsets
<1> QED
  BY <1>1 DEF FillWord, Buffers

\* A blank page holds after its write what the buffer held.
LEMMA WritesBuffer ==
  ASSUME NEW f, NEW b, NEW page, Blank(f, page), NEW a \in FlashAddresses, PageOf(a) = page
  PROVE  WritePage(f, b, page)[a] = b[OffsetOf(a)]
  BY DEF WritePage, Blank

\* A page begins where its offset is 0: nothing before is on it, and the next one begins a
\* page's size later.
LEMMA PageBegins ==
  ASSUME NEW p \in Nat, OffsetOf(p) = 0
  PROVE  /\ \A a \in Nat : a < p => PageOf(a) # PageOf(p)
         /\ OffsetOf(p + SPM_PAGESIZE) = 0
<1>1. p = PageOf(p) * SPM_PAGESIZE /\ PageOf(p) \in Nat
  BY OffsetInPage, PageBounds, PageSize
<1>2. ASSUME NEW a \in Nat, a < p, PageOf(a) = PageOf(p) PROVE FALSE
  <2>1. PageOf(a) * SPM_PAGESIZE <= a
    BY PageBounds
  <2> QED
    BY <1>1, <1>2, <2>1, PageSize
<1>3. OffsetOf(p + SPM_PAGESIZE) = 0
  <2> DEFINE next == p + SPM_PAGESIZE
             d    == (PageOf(p) + 1) - PageOf(next)
  <2>1. /\ next \in Nat /\ PageOf(next) \in Nat /\ next = PageOf(next) * SPM_PAGESIZE + OffsetOf(next)
        /\ OffsetOf(next) \in Nat /\ OffsetOf(next) < SPM_PAGESIZE
    <3>1. next \in Nat
      BY PageSize
    <3> HIDE DEF next
    <3> QED
      <4>1. next = PageOf(next) * SPM_PAGESIZE + OffsetOf(next)
        BY <3>1, OffsetInPage
      <4>2. OffsetOf(next) \in Offsets /\ PageOf(next) \in Nat
        BY <3>1, OffsetType, PageBounds
      <4> QED
        BY <3>1, <4>1, <4>2, PageSize DEF Offsets
  <2>2. d \in Int /\ d * SPM_PAGESIZE = OffsetOf(next)
    <3>1. next = (PageOf(p) + 1) * SPM_PAGESIZE
      <4> DEFINE k == PageOf(p)
      <4>1. k \in Nat /\ p = k * SPM_PAGESIZE
        BY <1>1
      <4> HIDE DEF k
      <4>2. p + SPM_PAGESIZE = (k + 1) * SPM_PAGESIZE
        BY <4>1, PageSize
      <4> QED
        BY <4>2 DEF k
    <3> HIDE DEF next
    <3> QED
      BY <1>1, <2>1, <3>1, PageSize
  <2> HIDE DEF d
  <2>3. d >= 1 => d * SPM_PAGESIZE >= SPM_PAGESIZE
    BY <2>2, PageSize
  <2>4. d <= -1 => d * SPM_PAGESIZE < 0
    BY <2>2, PageSize
  <2>5. d = 0
    BY <2>1, <2>2, <2>3, <2>4, PageSize
  <2> QED
    BY <2>2, <2>5, PageSize
<1> QED
  BY <1>2, <1>3

\* Pages are in the order of addresses.
LEMMA PagesInOrder ==
  ASSUME NEW a \in Int, NEW b \in Int, a <= b
  PROVE  PageOf(a) \in Int /\ PageOf(b) \in Int /\ PageOf(a) <= PageOf(b)
<1> DEFINE p == PageOf(a)
           q == PageOf(b)
<1>1. p \in Int /\ p * SPM_PAGESIZE <= a /\ q \in Int /\ b < (q + 1) * SPM_PAGESIZE
  BY PageSize DEF PageOf
<1> HIDE DEF p, q
<1>2. ASSUME q + 1 <= p PROVE FALSE
  <2>1. (q + 1) * SPM_PAGESIZE <= p * SPM_PAGESIZE
    BY <1>1, <1>2, PageSize
  <2> QED
    BY <1>1, <2>1, PageSize
<1>3. p <= q
  BY <1>1, <1>2
<1> QED
  BY <1>1, <1>3 DEF p, q

\* Half a page of words is a page.
LEMMA HalfPage == SPM_PAGESIZE \div 2 \in Nat /\ 2 * (SPM_PAGESIZE \div 2) = SPM_PAGESIZE
  BY PageAssumption
=============================================================================
