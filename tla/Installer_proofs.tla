---------------------------- MODULE Installer_proofs ----------------------------
(***************************************************************************)
(* Proofs about Installer, for every image, every size of the flash and    *)
(* every number of attempts: success is real, the target is handed to the  *)
(* boot loader only when it is there, and with wires that hold an attempt  *)
(* succeeds.                                                               *)
(***************************************************************************)
EXTENDS Installer, SpmFlash_proofs

\* Words are loaded two bytes at a time, so the image's end is met exactly.
Halves == pc \in {"load", "commit", "pollPage"} => i % 2 = 0

\* The bytes compared so far were right, unless the comparison has failed.
Compared ==
  pc = "verify" /\ ~errors =>
    \A a \in Image \ Imitated : a < START_ADDRESS + i => flash[a] = Byte(a)

\* After success no instruction of the sketch programs the flash again.
Done ==
  /\ success => pc \in {"writeFuse", "pollFuse", "stop", "wait"} /\ ImageStored
  /\ pc \in {"writeFuse", "pollFuse"} => success

IInv == TypeOK /\ Halves /\ Compared /\ Done

-----------------------------------------------------------------------------
(* The ranges of TypeOK by name: only ImageInFlash and the lemmas before it look inside. *)
AllPages == 0..(AppPages + BootPages - 1)
Counts   == 0..loaderLength
Attempts == 0..ENTER_PROGRAMMING_ATTEMPTS
FuseType == [{"low", "high", "ext", "lock"} -> {"old", "new"}]

Places == {"wait", "enter", "signature", "readLow", "writeLow", "erase", "load", "commit",
           "verify", "writeFuse", "stop", "pollLow", "pollErase", "pollPage", "pollFuse"}

Typing ==
  /\ pc \in Places
  /\ success \in BOOLEAN /\ again \in BOOLEAN /\ errors \in BOOLEAN
  /\ timeout \in Attempts /\ i \in Counts /\ oldPage \in AllPages /\ fuse \in 1..4
  /\ flash \in [FlashAddresses -> Contents] /\ pageBuffer \in Buffers /\ fuses \in FuseType
  /\ programming \in BOOLEAN /\ connected \in BOOLEAN
  /\ floating \in {"high", "low"} /\ signature \in {"selected", "other"}

LEMMA TypingIsTypeOK == Typing <=> TypeOK
  BY DEF Typing, TypeOK, AllPages, Counts, Attempts, FuseType, Buffers, Polling, Places

\* A quotient is an integer between those of the bounds.
LEMMA Quotient ==
  ASSUME NEW x \in Nat, NEW r \in Nat \ {0}, NEW n \in Nat \ {0}, x < n * r
  PROVE  x \div r \in 0..(n - 1)
<1> DEFINE q == x \div r
<1>1. q \in Nat /\ q * r <= x
  OBVIOUS
<1>2. q < n
  <2> HIDE DEF q
  <2> SUFFICES ASSUME q >= n PROVE FALSE
    BY <1>1
  <2> QED
    BY <1>1
<1> QED
  BY <1>1, <1>2

\* Every address of the image is one of the flash, and its page is one of the pages.
LEMMA ImageInFlash ==
  ASSUME NEW a \in Image
  PROVE  a \in FlashAddresses /\ PageOf(a) \in AllPages
<1>1. /\ AppPages + BootPages \in Nat \ {0} /\ SPM_PAGESIZE \in Nat \ {0}
      /\ a \in Nat /\ a < (AppPages + BootPages) * SPM_PAGESIZE
  BY PagesAssumption, PageAssumption, ImageAssumption DEF Image
<1>2. a \in FlashAddresses
  <2> DEFINE top == (AppPages + BootPages) * SPM_PAGESIZE
  <2>1. top \in Int /\ a < top
    BY <1>1
  <2>2. a \in 0..(top - 1)
    <3> HIDE DEF top
    <3> QED
      BY <1>1, <2>1
  <2> QED
    BY <2>2 DEF FlashAddresses
<1>3. PageOf(a) \in AllPages
  <2> DEFINE n == AppPages + BootPages
  <2>1. n \in Nat \ {0} /\ SPM_PAGESIZE \in Nat \ {0} /\ a \in Nat /\ a < n * SPM_PAGESIZE
    BY <1>1
  <2>2. a \div SPM_PAGESIZE \in 0..(n - 1)
    <3> HIDE DEF n
    <3> QED
      BY <2>1, Quotient
  <2> QED
    BY <2>2, PagesAssumption DEF PageOf, AllPages
<1> QED
  BY <1>2, <1>3

\* The byte of an address is a name or the one that an erased flash holds.
LEMMA ByteType ==
  ASSUME NEW a \in Nat
  PROVE  Byte(a) \in Nat \cup {Erased}
  BY DEF Byte

LEMMA WritePageType ==
  ASSUME NEW f \in [FlashAddresses -> Contents], NEW b \in Buffers, NEW page
  PROVE  WritePage(f, b, page) \in [FlashAddresses -> Contents]
<1> SUFFICES ASSUME NEW a \in FlashAddresses
             PROVE  WritePage(f, b, page)[a] \in Contents
  BY DEF WritePage
<1>1. OffsetOf(a) \in Offsets
  <2>1. a \in Nat /\ SPM_PAGESIZE \in Nat \ {0}
    BY PageAssumption, PagesAssumption DEF FlashAddresses
  <2> QED
    BY <2>1 DEF OffsetOf, Offsets
<1>2. b[OffsetOf(a)] \in Contents /\ f[a] \in Contents
  BY <1>1 DEF Contents, Buffers
<1> QED
  BY <1>2 DEF WritePage, Contents

\* What the actions put into the target keeps its type.
LEMMA FuseTypes ==
  ASSUME fuses \in FuseType,
         NEW f \in {"low", "high", "ext", "lock"}
  PROVE  /\ WriteFuse(f) => fuses' \in FuseType
         /\ [fuses EXCEPT !["lock"] = "old"] \in FuseType
  BY DEF WriteFuse, FuseType

\* The page a load is about to enter, or starts in, is one of the flash.
LEMMA Pages ==
  ASSUME i \in Counts
  PROVE  /\ i < loaderLength => thisPage \in AllPages
         /\ PageOf(START_ADDRESS) \in AllPages
<1>1. START_ADDRESS \in Image
  BY ImageAssumption DEF Image
<1>2. i < loaderLength => START_ADDRESS + i \in Image
  BY ImageAssumption DEF Image, Counts
<1> QED
  BY <1>1, <1>2, ImageInFlash DEF thisPage

LEMMA Typed == Init => Typing
<1>1. PageOf(START_ADDRESS) \in AllPages
  BY ImageInFlash, ImageAssumption DEF Image
<1>2. 0 \in Counts /\ 0 \in Attempts /\ Old \in Contents
  BY ImageAssumption, AttemptsAssumption, PagesAssumption, PageAssumption DEF Old, Contents, Counts, Attempts
<1>3. ASSUME NEW l \in {"old", "new"}
      PROVE  [f \in {"low", "high", "ext", "lock"} |-> IF f = "low" THEN l ELSE "old"]
               \in FuseType
  BY DEF FuseType
<1>4. Init => fuses \in FuseType
  BY <1>3 DEF Init
<1>5. Init => flash \in [FlashAddresses -> Contents]
  BY <1>2 DEF Init
<1>6. Init => i \in Counts /\ timeout \in Attempts /\ oldPage \in AllPages
  BY <1>1, <1>2 DEF Init
<1>7. Init => /\ pc \in Places /\ again \in BOOLEAN /\ errors \in BOOLEAN
              /\ success \in BOOLEAN /\ connected \in BOOLEAN /\ programming \in BOOLEAN
              /\ floating \in {"high", "low"} /\ signature \in {"selected", "other"}
              /\ pageBuffer \in Buffers
  BY EmptyBufferType DEF Init, Places
<1>8. Init => fuse \in 1..4
  BY DEF Init
<1> QED
  BY <1>4, <1>5, <1>6, <1>7, <1>8 DEF Typing

\* Every step keeps every variable in its type.
LEMMA TypedStep == Typing /\ Halves /\ [Next]_vars => Typing' /\ Halves'
<1> SUFFICES ASSUME Typing, Halves, [Next]_vars PROVE Typing' /\ Halves'
  OBVIOUS
<1>a. /\ 0 \in Counts /\ 0 \in Attempts
      /\ loaderLength % 2 = 0 /\ START_ADDRESS \in Nat
  BY ImageAssumption, AttemptsAssumption DEF Counts, Attempts
<1>b. /\ i < loaderLength => thisPage \in AllPages
      /\ PageOf(START_ADDRESS) \in AllPages
  BY Pages DEF Typing
<1> USE <1>a, <1>b DEF Typing, Halves, Places, locals, target, wires
<1>1. CASE BeginRun
  BY <1>1, EmptyBufferType DEF BeginRun, LeaveProgramming
<1>2. CASE EnterProgramming
  BY <1>2, EmptyBufferType DEF EnterProgramming, LeaveProgramming
<1>3. CASE AttemptFails
  BY <1>3, AttemptsAssumption DEF AttemptFails, Attempts
<1>4. CASE TooManyAttempts
  BY <1>4, EmptyBufferType DEF TooManyAttempts, LeaveProgramming
<1>5. CASE StopProgramming
  <2>1. pageBuffer' \in Buffers /\ programming' \in BOOLEAN
    BY <1>5, EmptyBufferType DEF StopProgramming, LeaveProgramming
  <2>2. i' \in Counts /\ timeout' \in Attempts /\ oldPage' \in AllPages /\ Halves'
    BY <1>5 DEF StopProgramming
  <2>3. pc' \in Places /\ again' \in BOOLEAN /\ errors' \in BOOLEAN
    BY <1>5 DEF StopProgramming
  <2>5. fuse' \in 1..4
    BY <1>5 DEF StopProgramming
  <2>4. success' \in BOOLEAN /\ connected' \in BOOLEAN /\ floating' \in {"high", "low"}
        /\ signature' \in {"selected", "other"}
        /\ flash' \in [FlashAddresses -> Contents] /\ fuses' \in FuseType
    BY <1>5 DEF StopProgramming
  <2> QED
    BY <2>1, <2>2, <2>3, <2>4, <2>5
<1>6. CASE GetSignature
  BY <1>6, EmptyBufferType DEF GetSignature, LeaveProgramming
<1>7. CASE ReadLowFuse
  BY <1>7, EmptyBufferType DEF ReadLowFuse, LeaveProgramming
<1>8. CASE WriteLowFuse
  BY <1>8, FuseTypes DEF WriteLowFuse
<1>9. CASE LatchLowFuse
  BY <1>9, EmptyBufferType DEF LatchLowFuse, LeaveProgramming
<1>10. CASE ChipErase
  BY <1>10, FuseTypes DEF ChipErase, Contents
<1>11. CASE BeginLoad
  BY <1>11, EmptyBufferType DEF BeginLoad, LeaveProgramming
<1>12. CASE LoadWord
  <2>1. FillWord(pageBuffer, START_ADDRESS + i, Byte(START_ADDRESS + i), Byte(START_ADDRESS + i + 1))
          \in Buffers
    <3>1. START_ADDRESS + i \in Nat /\ START_ADDRESS + i + 1 \in Nat
      BY DEF Counts
    <3> QED
      BY <3>1, FillWordType, ByteType
  <2>2. pageBuffer' \in Buffers
    BY <2>1, <1>12 DEF LoadWord
  <2>3. i' \in Counts /\ i' % 2 = 0
    BY <1>12, ImageAssumption DEF LoadWord, Counts
  <2> QED
    BY <2>2, <2>3, <1>12 DEF LoadWord
<1>13. CASE BeginCommit
  BY <1>13, EmptyBufferType DEF BeginCommit, LeaveProgramming
<1>14. CASE CommitPage
  BY <1>14, WritePageType, EmptyBufferType DEF CommitPage
<1>15. CASE PageCommitted
  BY <1>15, EmptyBufferType DEF PageCommitted, LeaveProgramming
<1>16. CASE VerifyByte
  BY <1>16, ImageAssumption DEF VerifyByte, Counts
<1>17. CASE Verified
  BY <1>17, EmptyBufferType DEF Verified, LeaveProgramming
<1>18. CASE VerificationFails
  BY <1>18, EmptyBufferType DEF VerificationFails, LeaveProgramming
<1>19. CASE WriteNextFuse
  <2>1. Fuses[fuse] \in {"low", "high", "ext", "lock"}
    BY DEF Fuses
  <2> QED
    BY <1>19, <2>1, FuseTypes DEF WriteNextFuse
<1>20. CASE FuseWritten
  BY <1>20, EmptyBufferType DEF FuseWritten, LeaveProgramming
<1>21. CASE Loosen
  BY <1>21, EmptyBufferType DEF Loosen, LeaveProgramming
<1>22. CASE Fasten
  BY <1>22, EmptyBufferType DEF Fasten, LeaveProgramming
<1>23. CASE Restart
  <2>1. pageBuffer' \in Buffers /\ programming' \in BOOLEAN
    BY <1>23, EmptyBufferType DEF Restart, LeaveProgramming
  <2>2. i' \in Counts /\ timeout' \in Attempts /\ oldPage' \in AllPages /\ Halves'
    BY <1>23 DEF Restart
  <2>3. pc' \in Places /\ again' \in BOOLEAN /\ errors' \in BOOLEAN
    BY <1>23 DEF Restart
  <2>5. fuse' \in 1..4
    BY <1>23 DEF Restart
  <2>4. success' \in BOOLEAN /\ connected' \in BOOLEAN /\ floating' \in {"high", "low"}
        /\ signature' \in {"selected", "other"}
        /\ flash' \in [FlashAddresses -> Contents] /\ fuses' \in FuseType
    BY <1>23 DEF Restart
  <2> QED
    BY <2>1, <2>2, <2>3, <2>4, <2>5
<1>24. CASE UNCHANGED vars
  BY <1>24 DEF vars
<1> QED
  BY <1>1, <1>2, <1>3, <1>4, <1>5, <1>6, <1>7, <1>8, <1>9, <1>10, <1>11, <1>12, <1>13, <1>14, <1>15, <1>16, <1>17, <1>18, <1>19, <1>20, <1>21, <1>22, <1>23, <1>24
  DEF Next, Sketch

-----------------------------------------------------------------------------
\* A comparison that does not fail on an address the image can be told apart at was right.
LEMMA ReadsRightMeans ==
  ASSUME NEW a \in Image \ Imitated, ReadsRight(a)
  PROVE  flash[a] = Byte(a)
  BY DEF ReadsRight, Imitated

\* The bytes compared are the image's, one more with every step.
LEMMA ComparedStep == Typing /\ Compared /\ [Next]_vars => Compared'
<1> SUFFICES ASSUME Typing, Compared, [Next]_vars, pc' = "verify", ~errors',
                    NEW a \in Image \ Imitated, a < START_ADDRESS + i'
             PROVE  flash'[a] = Byte(a)
  BY DEF Compared
<1>a. a \in Nat /\ START_ADDRESS \in Nat /\ i \in Nat /\ a >= START_ADDRESS
  BY ImageAssumption DEF Image, Typing, Counts
<1>1. CASE VerifyByte
  <2>1. ~errors /\ pc = "verify" /\ flash' = flash /\ i' = i + 1 /\ ReadsRight(START_ADDRESS + i)
    BY <1>1 DEF VerifyByte, target, Typing
  <2>2. CASE a < START_ADDRESS + i
    BY <2>1, <2>2 DEF Compared
  <2>3. CASE ~(a < START_ADDRESS + i)
    <3>1. a = START_ADDRESS + i
      BY <1>a, <2>1, <2>3
    <3> QED
      BY <2>1, <3>1, ReadsRightMeans
  <2> QED
    BY <2>2, <2>3
<1>2. CASE PageCommitted
  <2>1. i' = 0
    BY <1>2 DEF PageCommitted
  <2> QED
    BY <1>a, <2>1
<1>3. CASE UNCHANGED <<pc, locals, flash>>
  BY <1>3 DEF Compared, locals
<1>4. CASE Loosen \/ Fasten \/ UNCHANGED vars
  <2>1. UNCHANGED <<pc, locals, flash>>
    BY <1>4 DEF Loosen, Fasten, vars, target
  <2> QED
    BY <1>3, <2>1
<1>5. CASE BeginRun \/ EnterProgramming \/ AttemptFails \/ TooManyAttempts \/ StopProgramming
           \/ GetSignature \/ ReadLowFuse \/ WriteLowFuse \/ LatchLowFuse
  BY <1>5 DEF BeginRun, EnterProgramming, AttemptFails, TooManyAttempts, StopProgramming,
              GetSignature, ReadLowFuse, WriteLowFuse, LatchLowFuse
<1>6. CASE ChipErase \/ BeginLoad \/ LoadWord \/ BeginCommit \/ CommitPage
           \/ Verified \/ VerificationFails \/ WriteNextFuse \/ FuseWritten \/ Restart
  BY <1>6 DEF ChipErase, BeginLoad, LoadWord, BeginCommit, CommitPage, Verified,
              VerificationFails, WriteNextFuse, FuseWritten, Restart
<1> QED
  BY <1>1, <1>2, <1>4, <1>5, <1>6 DEF Next, Sketch

\* Success is claimed with the whole image compared, and nothing after it programs.
LEMMA DoneStep == Typing /\ Compared /\ Done /\ [Next]_vars => Done'
<1> SUFFICES ASSUME Typing, Compared, Done, [Next]_vars PROVE Done'
  OBVIOUS
<1>1. CASE Verified
  <2>1. /\ success' /\ pc' = "writeFuse" /\ flash' = flash
        /\ pc = "verify" /\ i = loaderLength /\ ~errors
    BY <1>1 DEF Verified, target
  <2>2. ASSUME NEW a \in Image \ Imitated PROVE flash[a] = Byte(a)
    <3>1. a < START_ADDRESS + i
      BY <2>1, ImageAssumption DEF Image
    <3> QED
      BY <2>1, <3>1 DEF Compared
  <2> QED
    BY <2>1, <2>2 DEF Done, ImageStored
<1>2. CASE Restart
  BY <1>2 DEF Restart, Done
<1>3. CASE ChipErase \/ CommitPage
  BY <1>3 DEF ChipErase, CommitPage, Done
<1>4. CASE Loosen \/ Fasten \/ UNCHANGED vars
  BY <1>4 DEF Loosen, Fasten, vars, target, Done, ImageStored
<1>5. CASE BeginRun \/ EnterProgramming \/ AttemptFails \/ TooManyAttempts \/ StopProgramming
           \/ GetSignature \/ ReadLowFuse \/ WriteLowFuse \/ LatchLowFuse
  BY <1>5 DEF BeginRun, EnterProgramming, AttemptFails, TooManyAttempts, StopProgramming,
              GetSignature, ReadLowFuse, WriteLowFuse, LatchLowFuse, target, Done, ImageStored
<1>6. CASE BeginLoad \/ LoadWord \/ BeginCommit \/ PageCommitted \/ VerifyByte
           \/ VerificationFails \/ WriteNextFuse \/ FuseWritten
  BY <1>6 DEF BeginLoad, LoadWord, BeginCommit, PageCommitted, VerifyByte,
              VerificationFails, WriteNextFuse, FuseWritten, target, Done, ImageStored
<1> QED
  BY <1>1, <1>2, <1>3, <1>4, <1>5, <1>6 DEF Next, Sketch

-----------------------------------------------------------------------------
\* IInv holds in every reachable state: what has been compared is right and success
\* means that all of it has been.
THEOREM Invariance == Spec => []IInv
<1>1. Init => IInv
  BY Typed, TypingIsTypeOK DEF Init, IInv, Halves, Compared, Done
<1>2. IInv /\ [Next]_vars => IInv'
  <2>1. Typing <=> TypeOK
    BY TypingIsTypeOK
  <2>2. Typing' <=> TypeOK'
    BY TypingIsTypeOK, PTL
  <2> QED
    BY <2>1, <2>2, TypedStep, ComparedStep, DoneStep DEF IInv
<1> QED
  BY <1>1, <1>2, PTL DEF Spec

\* The loops of writeBootloader() stay inside the image and the flash, and every
\* variable keeps its type.
THEOREM TypeCorrect == Spec => []TypeOK
<1>1. IInv => TypeOK
  BY DEF IInv
<1> QED
  BY <1>1, Invariance, PTL

\* "indicates if programming + verification was successfull": with success the image
\* is in the target, whatever instructions the wires have lost.
THEOREM SuccessMeansStored == Spec => []SuccessIsReal
<1>1. IInv => SuccessIsReal
  BY DEF IInv, Done, SuccessIsReal
<1> QED
  BY <1>1, Invariance, PTL

\* "don't change fuses if errors": the fuses that hand control to the boot loader are
\* written only with the verified image in the target.
THEOREM FusesFollowBootloader == Spec => FusesAfterBootloader
<1> DEFINE Fact == \A f \in {"high", "ext", "lock"} :
                     fuses[f] = "old" /\ fuses'[f] = "new" => success /\ ImageStored
<1>1. IInv /\ [Next]_vars => Fact
  <2> SUFFICES ASSUME IInv, [Next]_vars, NEW f \in {"high", "ext", "lock"},
                      fuses[f] = "old", fuses'[f] = "new"
               PROVE  success /\ ImageStored
    OBVIOUS
  <2>0. fuses \in FuseType
    BY TypingIsTypeOK DEF IInv, Typing
  <2>1. fuses' # fuses
    OBVIOUS
  <2>2. ~WriteLowFuse /\ ~ChipErase
    BY <2>0 DEF WriteLowFuse, WriteFuse, ChipErase, FuseType
  <2>4. ~(BeginRun \/ EnterProgramming \/ AttemptFails \/ TooManyAttempts \/ StopProgramming
            \/ GetSignature \/ ReadLowFuse \/ LatchLowFuse)
    BY <2>1 DEF BeginRun, EnterProgramming, AttemptFails, TooManyAttempts, StopProgramming,
                GetSignature, ReadLowFuse, LatchLowFuse, target
  <2>5. ~(BeginLoad \/ LoadWord \/ BeginCommit \/ CommitPage \/ PageCommitted \/ VerifyByte
            \/ Verified \/ VerificationFails \/ FuseWritten)
    BY <2>1 DEF BeginLoad, LoadWord, BeginCommit, CommitPage, PageCommitted, VerifyByte,
                Verified, VerificationFails, FuseWritten, target
  <2>6. ~(Loosen \/ Fasten \/ Restart \/ UNCHANGED vars)
    BY <2>1 DEF Loosen, Fasten, Restart, vars, target
  <2>3. WriteNextFuse
    BY <2>2, <2>4, <2>5, <2>6 DEF Next, Sketch
  <2> QED
    BY <2>3 DEF WriteNextFuse, IInv, Done
<1>2. IInv /\ [Next]_vars => [Fact]_vars
  BY <1>1
<1> QED
  BY <1>2, Invariance, PTL DEF Spec, FusesAfterBootloader

-----------------------------------------------------------------------------
(* An attempt with wires that hold. *)

Top == START_ADDRESS + i

\* The load has come to Top on page oldPage: its bytes are in the page buffer, those of
\* the pages before in the flash, and from this page on the flash is blank.
Loading ==
  /\ \A a \in Image : a < Top => PageOf(a) <= oldPage
  /\ \A a \in Image : a < Top /\ PageOf(a) < oldPage => flash[a] = Byte(a)
  /\ \A a \in Image : a < Top /\ PageOf(a) = oldPage => pageBuffer[OffsetOf(a)] = Byte(a)
  /\ \A a \in FlashAddresses : a >= Top /\ PageOf(a) = oldPage => pageBuffer[OffsetOf(a)] = Erased
  /\ \A a \in FlashAddresses : PageOf(a) >= oldPage => flash[a] = Erased
  /\ i < loaderLength => thisPage >= oldPage

\* Page oldPage is in the flash and the next one begins.
Committed ==
  /\ \A a \in Image : a < Top => PageOf(a) <= oldPage /\ flash[a] = Byte(a)
  /\ \A a \in FlashAddresses : PageOf(a) > oldPage => flash[a] = Erased
  /\ i < loaderLength => thisPage > oldPage

\* The whole image is in the flash, the bytes a floating line imitates included.
Burnt == \A a \in Image : flash[a] = Byte(a)

AllFuses == {"low", "high", "ext", "lock"}

\* What an attempt has achieved at each place, from the erase to the last fuse.
Progress ==
  /\ pc \notin {"wait", "enter", "stop"} => programming
  /\ pc \in {"signature", "readLow", "writeLow", "pollLow", "erase", "pollErase", "pollPage"}
       => pageBuffer = EmptyBuffer
  /\ pc = "pollErase" => \A a \in FlashAddresses : flash[a] = Erased
  /\ pc \in {"load", "commit"} => Loading
  /\ pc = "commit" => i = loaderLength \/ thisPage > oldPage
  /\ pc = "pollPage" => Committed
  /\ pc \in {"verify", "writeFuse", "pollFuse", "stop"} => Burnt
  /\ ~errors
  /\ pc = "writeFuse" => \A j \in 1..4 : j < fuse => fuses[Fuses[j]] = "new"
  /\ pc = "pollFuse" => \A j \in 1..4 : j <= fuse => fuses[Fuses[j]] = "new"
  /\ pc = "stop" => success /\ \A f \in AllFuses : fuses[f] = "new"

\* An attempt ends with the image in the flash, byte for byte, the fuses written, and a success.
EndsInstalled ==
  pc = "stop" => success /\ Burnt /\ \A f \in AllFuses : fuses[f] = "new"

\* The wires hold, and the chip is the one the image is for, as long as an attempt runs.
WiresHold == pc # "wait" => connected /\ signature = "selected"

\* Both bytes of a word are on one page, next to each other.
LEMMA WordInPage ==
  ASSUME NEW a \in Nat, a % 2 = 0
  PROVE  OffsetOf(a) + 1 \in Offsets /\ PageOf(a + 1) = PageOf(a) /\ OffsetOf(a + 1) = OffsetOf(a) + 1
<1>1. PICK h \in Nat : SPM_PAGESIZE = 2 * h
  <2>1. SPM_PAGESIZE = 2 * (SPM_PAGESIZE \div 2) /\ SPM_PAGESIZE \div 2 \in Nat
    BY HalfPage
  <2> QED
    BY <2>1
<1>2. PICK q \in Nat, o \in Nat : q = PageOf(a) /\ o = OffsetOf(a) /\ o < SPM_PAGESIZE
                                  /\ a = q * SPM_PAGESIZE + o
  <2>1. PageOf(a) \in Nat /\ a = PageOf(a) * SPM_PAGESIZE + OffsetOf(a)
    BY PageBounds, OffsetInPage
  <2>2. OffsetOf(a) \in Nat /\ OffsetOf(a) < SPM_PAGESIZE
    BY OffsetType, PageSize DEF Offsets
  <2> QED
    BY <2>1, <2>2
<1>3. q * SPM_PAGESIZE = 2 * (q * h)
  BY <1>1
<1>4. PICK k \in Nat : k = q * h
  OBVIOUS
<1>5. o + 1 < SPM_PAGESIZE
  <2>1. a = 2 * k + o
    BY <1>2, <1>3, <1>4
  <2>2. o % 2 = 0
    BY <2>1
  <2> QED
    BY <1>1, <1>2, <2>2
<1> QED
  BY <1>2, <1>5, OffsetMoves, PageSize DEF Offsets

\* The next word to load is a word of the image.
LEMMA NextWord ==
  ASSUME i \in Counts, i % 2 = 0, i < loaderLength
  PROVE  /\ Top \in Image /\ Top + 1 \in Image /\ Top \in Nat
         /\ Top \in FlashAddresses /\ Top + 1 \in FlashAddresses
         /\ OffsetOf(Top) + 1 \in Offsets /\ PageOf(Top + 1) = PageOf(Top)
         /\ OffsetOf(Top + 1) = OffsetOf(Top) + 1
         /\ PageOf(Top) = thisPage
<1>1. Top \in Nat /\ Top % 2 = 0 /\ Top \in Image /\ Top + 1 \in Image
  BY ImageAssumption DEF Top, Counts, Image
<1>2. PageOf(Top) = thisPage
  BY DEF Top, thisPage
<1> QED
  BY <1>1, <1>2, WordInPage, ImageInFlash

LEMMA Addresses ==
  /\ Image \subseteq FlashAddresses
  /\ \A a \in FlashAddresses : a \in Nat /\ PageOf(a) \in Nat /\ OffsetOf(a) \in Offsets
  /\ Offsets \subseteq Nat /\ AllPages \subseteq Nat
<1>1. \A a \in FlashAddresses : a \in Nat
  BY AddressIsNat
<1>2. AllPages \subseteq Nat /\ Offsets \subseteq Nat
  BY PagesAssumption DEF AllPages, Offsets
<1> QED
  BY <1>1, <1>2, ImageInFlash, PageBounds, OffsetType

\* A word goes into the page buffer, next to those of its page.
LEMMA LoadsWord ==
  ASSUME Typing, Halves, Progress, WiresHold, LoadWord
  PROVE  Loading'
<1>a. /\ i \in Counts /\ i \in Nat /\ i % 2 = 0 /\ i < loaderLength /\ oldPage \in Nat /\ pageBuffer \in Buffers
  BY Addresses DEF Typing, Halves, LoadWord, Counts
<1>b. Loading /\ Answers
  BY DEF Progress, LoadWord, WiresHold, Answers
<1>c. /\ Top \in Nat /\ Top \in FlashAddresses /\ PageOf(Top) = oldPage /\ PageOf(Top + 1) = oldPage
      /\ OffsetOf(Top) + 1 \in Offsets /\ OffsetOf(Top + 1) = OffsetOf(Top) + 1
      /\ OffsetOf(Top) \in Nat
  <2>1. OffsetOf(Top) \in Offsets
    BY <1>a, NextWord, Addresses
  <2> QED
    BY <1>a, <2>1, NextWord, Addresses DEF LoadWord
<1>d. /\ Top' = Top + 2 /\ oldPage' = oldPage /\ flash' = flash /\ i' = i + 2
      /\ pageBuffer' = FillWord(pageBuffer, Top, Byte(Top), Byte(Top + 1))
  BY <1>a, <1>b, ImageAssumption DEF LoadWord, Top
<1>e. \A o \in Offsets : pageBuffer'[o] =
        IF o = OffsetOf(Top) THEN Byte(Top) ELSE IF o = OffsetOf(Top) + 1 THEN Byte(Top + 1) ELSE pageBuffer[o]
  <2>1. pageBuffer[OffsetOf(Top)] = Erased
    BY <1>b, <1>c DEF Loading
  <2> QED
    BY <1>a, <1>c, <1>d, <2>1, FillWordFills
<1>f. ASSUME NEW a \in FlashAddresses, PageOf(a) = oldPage
      PROVE  a \in Nat /\ OffsetOf(a) \in Offsets /\ OffsetOf(a) \in Nat
             /\ OffsetOf(a) - OffsetOf(Top) = a - Top
  BY <1>c, <1>f, Addresses, OffsetsApart
<1>1. ASSUME NEW a \in Image, a < Top' PROVE PageOf(a) <= oldPage
  <2>1. a \in Nat /\ (a < Top \/ a = Top \/ a = Top + 1)
    BY <1>1, <1>c, <1>d, Addresses
  <2> QED
    BY <1>a, <1>b, <1>c, <2>1 DEF Loading
<1>2. ASSUME NEW a \in Image, a < Top', PageOf(a) < oldPage PROVE flash[a] = Byte(a)
  <2>1. a \in Nat /\ (a < Top \/ a = Top \/ a = Top + 1)
    BY <1>2, <1>c, <1>d, Addresses
  <2>2. a < Top
    BY <1>2, <1>a, <1>c, <2>1
  <2> QED
    BY <1>2, <1>b, <2>2 DEF Loading
<1>3. ASSUME NEW a \in Image, a < Top', PageOf(a) = oldPage PROVE pageBuffer'[OffsetOf(a)] = Byte(a)
  <2>1. a \in Nat /\ (a < Top \/ a = Top \/ a = Top + 1)
    BY <1>3, <1>c, <1>d, Addresses
  <2>2. a \in FlashAddresses /\ OffsetOf(a) \in Offsets /\ OffsetOf(a) \in Nat
        /\ OffsetOf(a) - OffsetOf(Top) = a - Top
    BY <1>3, <1>f, Addresses
  <2>3. CASE a < Top
    <3>1. OffsetOf(a) # OffsetOf(Top) /\ OffsetOf(a) # OffsetOf(Top) + 1
      BY <1>c, <2>1, <2>2, <2>3
    <3> QED
      BY <1>3, <1>b, <1>e, <2>2, <2>3, <3>1 DEF Loading
  <2>4. CASE a = Top
    BY <1>e, <2>2, <2>4
  <2>5. CASE a = Top + 1
    <3>1. OffsetOf(a) = OffsetOf(Top) + 1 /\ OffsetOf(a) # OffsetOf(Top)
      BY <1>c, <2>5
    <3> QED
      BY <1>e, <2>2, <2>5, <3>1
  <2> QED
    BY <2>1, <2>3, <2>4, <2>5
<1>4. ASSUME NEW a \in FlashAddresses, a >= Top', PageOf(a) = oldPage PROVE pageBuffer'[OffsetOf(a)] = Erased
  <2>1. a \in Nat /\ OffsetOf(a) \in Offsets /\ OffsetOf(a) \in Nat /\ OffsetOf(a) - OffsetOf(Top) = a - Top
    BY <1>4, <1>f
  <2>2. OffsetOf(a) # OffsetOf(Top) /\ OffsetOf(a) # OffsetOf(Top) + 1 /\ a >= Top
    BY <1>4, <1>c, <1>d, <2>1
  <2> QED
    BY <1>4, <1>b, <1>e, <2>1, <2>2 DEF Loading
<1>5. i' < loaderLength => thisPage' >= oldPage
  <2>1. thisPage' = PageOf(Top') /\ Top' >= Top /\ Top' \in Int
    BY <1>c, <1>d DEF thisPage, Top
  <2> QED
    BY <1>c, <2>1, PagesInOrder
<1> QED
  BY <1>1, <1>2, <1>3, <1>4, <1>5, <1>b, <1>d DEF Loading

\* The page is programmed with what the buffer holds, onto a blank page.
LEMMA CommitsPage ==
  ASSUME Typing, Progress, WiresHold, CommitPage
  PROVE  Committed' /\ pageBuffer' = EmptyBuffer
<1>a. Loading /\ Answers /\ (i = loaderLength \/ thisPage > oldPage)
  BY DEF Progress, CommitPage, WiresHold, Answers
<1>b. /\ flash' = WritePage(flash, pageBuffer, oldPage) /\ pageBuffer' = EmptyBuffer
      /\ Top' = Top /\ oldPage' = oldPage /\ i' = i /\ thisPage' = thisPage
  BY <1>a DEF CommitPage, locals, Top, thisPage
<1>c. Blank(flash, oldPage) /\ oldPage \in Nat
  <2>1. oldPage \in Nat
    BY Addresses DEF Typing
  <2> QED
    BY <1>a, <2>1, Addresses DEF Loading, Blank
<1>d. \A a \in FlashAddresses : PageOf(a) # oldPage => flash'[a] = flash[a]
  BY <1>b DEF WritePage
<1>1. ASSUME NEW a \in Image, a < Top PROVE PageOf(a) <= oldPage /\ flash'[a] = Byte(a)
  <2>1. PageOf(a) <= oldPage /\ a \in FlashAddresses /\ PageOf(a) \in Nat
    BY <1>1, <1>a, Addresses DEF Loading
  <2>2. CASE PageOf(a) = oldPage
    <3>1. flash'[a] = pageBuffer[OffsetOf(a)]
      BY <1>b, <1>c, <2>1, <2>2, WritesBuffer
    <3> QED
      BY <1>1, <1>a, <2>1, <2>2, <3>1 DEF Loading
  <2>3. CASE PageOf(a) < oldPage
    <3>1. flash'[a] = flash[a]
      BY <1>c, <1>d, <2>1, <2>3
    <3> QED
      BY <1>1, <1>a, <2>1, <2>3, <3>1 DEF Loading
  <2> QED
    BY <1>c, <2>1, <2>2, <2>3
<1>2. ASSUME NEW a \in FlashAddresses, PageOf(a) > oldPage PROVE flash'[a] = Erased
  <2>1. PageOf(a) \in Nat /\ PageOf(a) # oldPage /\ PageOf(a) >= oldPage
    BY <1>2, <1>c, Addresses
  <2> QED
    BY <1>a, <1>d, <2>1 DEF Loading
<1>3. i < loaderLength => thisPage > oldPage
  <2>1. i = loaderLength => ~(i < loaderLength)
    BY ImageAssumption
  <2> QED
    BY <1>a, <2>1
<1> QED
  BY <1>1, <1>2, <1>3, <1>b DEF Committed

\* After the erase nothing is loaded yet.
LEMMA BeginsLoad == ASSUME Typing, Progress, BeginLoad PROVE Loading'
<1>a. /\ pageBuffer = EmptyBuffer /\ \A a \in FlashAddresses : flash[a] = Erased
      /\ i' = 0 /\ oldPage' = PageOf(START_ADDRESS) /\ UNCHANGED <<flash, pageBuffer>>
  BY DEF Progress, BeginLoad, target
<1>b. START_ADDRESS \in Nat /\ START_ADDRESS + 0 = START_ADDRESS
  BY ImageAssumption
<1>c. Top' = START_ADDRESS /\ thisPage' = PageOf(START_ADDRESS)
  BY <1>a, <1>b DEF Top, thisPage
<1>1. \A a \in Image : ~(a < START_ADDRESS)
  BY <1>b, ImageAssumption DEF Image
<1>2. \A a \in FlashAddresses : EmptyBuffer[OffsetOf(a)] = Erased
  BY Addresses DEF EmptyBuffer
<1>3. PageOf(START_ADDRESS) >= PageOf(START_ADDRESS)
  BY <1>b, PageBounds
<1> QED
  BY <1>a, <1>c, <1>1, <1>2, <1>3 DEF Loading

\* Another page follows, or the whole image is in the flash.
LEMMA FinishesPage ==
  ASSUME Typing, Progress, PageCommitted
  PROVE  IF i < loaderLength THEN Loading' ELSE Burnt'
<1>a. Committed /\ pageBuffer = EmptyBuffer /\ UNCHANGED <<flash, pageBuffer>>
  BY DEF Progress, PageCommitted, target
<1>b. i \in Nat /\ i <= loaderLength /\ oldPage \in Nat /\ START_ADDRESS \in Nat /\ loaderLength \in Nat
  BY ImageAssumption, Addresses DEF Typing, Counts
<1>1. CASE i < loaderLength
  <2>a. oldPage' = thisPage /\ i' = i /\ thisPage > oldPage
    BY <1>1, <1>a DEF PageCommitted, Committed
  <2>b. Top' = Top /\ thisPage' = thisPage /\ thisPage \in Nat
    <3>1. START_ADDRESS + i \in Nat
      BY <1>b
    <3> QED
      BY <2>a, <3>1, PageBounds DEF Top, thisPage
  <2>1. ASSUME NEW a \in Image, a < Top
        PROVE  PageOf(a) <= thisPage /\ PageOf(a) # thisPage /\ flash[a] = Byte(a)
    <3>1. PageOf(a) <= oldPage /\ PageOf(a) \in Nat /\ flash[a] = Byte(a)
      BY <2>1, <1>a, Addresses DEF Committed
    <3> QED
      BY <1>b, <2>a, <2>b, <3>1
  <2>2. ASSUME NEW a \in FlashAddresses, PageOf(a) >= thisPage PROVE flash[a] = Erased
    <3>1. PageOf(a) > oldPage
      BY <2>2, <1>b, <2>a, <2>b, Addresses
    <3> QED
      BY <1>a, <3>1 DEF Committed
  <2>3. \A a \in FlashAddresses : EmptyBuffer[OffsetOf(a)] = Erased
    BY Addresses DEF EmptyBuffer
  <2>4. Loading'
    BY <1>a, <2>a, <2>b, <2>1, <2>2, <2>3 DEF Loading
  <2> QED
    BY <1>1, <2>4
<1>2. CASE ~(i < loaderLength)
  <2>1. \A a \in Image : a < Top
    BY <1>2, <1>b DEF Image, Top
  <2> QED
    BY <1>2, <1>a, <2>1 DEF Committed, Burnt
<1> QED
  BY <1>1, <1>2

\* Everything read back is right.
LEMMA Verifies ==
  ASSUME Typing, Progress, WiresHold, VerifyByte
  PROVE  ~errors'
<1>1. START_ADDRESS + i \in Image
  BY ImageAssumption DEF VerifyByte, Typing, Counts, Image
<1>2. Answers /\ Burnt /\ ~errors
  BY DEF Progress, WiresHold, VerifyByte, Answers
<1>3. ReadsRight(START_ADDRESS + i)
  BY <1>1, <1>2 DEF Burnt, ReadsRight
<1> QED
  BY <1>2, <1>3 DEF VerifyByte

\* The fuses are written in their order.
LEMMA WritesFuse ==
  ASSUME Typing, Progress, WiresHold, WriteNextFuse
  PROVE  \A j \in 1..4 : j <= fuse => fuses'[Fuses[j]] = "new"
<1> SUFFICES ASSUME NEW j \in 1..4, j <= fuse PROVE fuses'[Fuses[j]] = "new"
  OBVIOUS
<1>1. fuses' = [fuses EXCEPT ![Fuses[fuse]] = "new"] /\ fuses \in FuseType /\ fuse \in 1..4
  BY DEF Progress, WiresHold, WriteNextFuse, WriteFuse, Answers, Typing
<1>2. \A k \in 1..4 : Fuses[k] \in {"low", "high", "ext", "lock"}
  BY DEF Fuses
<1>3. j < fuse => fuses[Fuses[j]] = "new"
  BY DEF Progress, WriteNextFuse
<1>4. j = fuse \/ j < fuse
  BY <1>1
<1>5. fuses'[Fuses[j]] = IF Fuses[j] = Fuses[fuse] THEN "new" ELSE fuses[Fuses[j]]
  BY <1>1, <1>2 DEF FuseType
<1> QED
  BY <1>3, <1>4, <1>5

\* With the fourth of them written they are all written.
LEMMA FourFuses ==
  ASSUME fuse = 4, \A j \in 1..4 : j <= fuse => fuses[Fuses[j]] = "new"
  PROVE  \A f \in AllFuses : fuses[f] = "new"
<1>1. /\ fuses[Fuses[1]] = "new" /\ fuses[Fuses[2]] = "new"
      /\ fuses[Fuses[3]] = "new" /\ fuses[Fuses[4]] = "new"
  OBVIOUS
<1>2. Fuses[1] = "low" /\ Fuses[2] = "high" /\ Fuses[3] = "ext" /\ Fuses[4] = "lock"
  BY DEF Fuses
<1> QED
  BY <1>1, <1>2 DEF AllFuses

LEMMA ProgressStep ==
  Typing /\ Halves /\ Done /\ Progress /\ WiresHold /\ WiresHold' /\ [Next]_vars => Progress'
<1> SUFFICES ASSUME Typing, Halves, Done, Progress, WiresHold, WiresHold', [Next]_vars PROVE Progress'
  OBVIOUS
<1>1. CASE BeginRun \/ TooManyAttempts \/ StopProgramming \/ AttemptFails
  <2>1. pc' \in {"enter", "wait"} /\ ~errors'
    BY <1>1 DEF BeginRun, TooManyAttempts, StopProgramming, AttemptFails, WiresHold, Progress
  <2> QED
    BY <2>1 DEF Progress
<1>2. CASE EnterProgramming
  <2>1. pc' \in {"erase", "signature"} /\ ~errors' /\ programming' /\ pageBuffer' = EmptyBuffer
    BY <1>2 DEF EnterProgramming, locals, Progress
  <2> QED
    BY <2>1 DEF Progress
<1>3. CASE GetSignature \/ ReadLowFuse \/ WriteLowFuse
  <2>1. pc \in {"signature", "readLow", "writeLow"} /\ pc' \in {"readLow", "erase", "writeLow", "pollLow"}
    BY <1>3 DEF GetSignature, ReadLowFuse, WriteLowFuse, WiresHold, Progress, Answers
  <2>2. UNCHANGED <<errors, programming, pageBuffer>>
    BY <1>3 DEF GetSignature, ReadLowFuse, WriteLowFuse, locals, target
  <2> QED
    BY <2>1, <2>2 DEF Progress
<1>4. CASE LatchLowFuse \/ Restart
  <2>1. pc' \in {"enter", "wait"} /\ ~errors'
    BY <1>4 DEF LatchLowFuse, Restart, Progress
  <2> QED
    BY <2>1 DEF Progress
<1>5. CASE ChipErase
  <2>1. Answers /\ pageBuffer = EmptyBuffer
    BY <1>5 DEF ChipErase, WiresHold, Progress, Answers
  <2>2. /\ pc' = "pollErase" /\ flash' = [a \in FlashAddresses |-> Erased]
        /\ UNCHANGED <<errors, programming, pageBuffer>>
    BY <1>5, <2>1 DEF ChipErase, locals
  <2> QED
    BY <2>1, <2>2 DEF Progress, Answers
<1>6. CASE BeginLoad \/ LoadWord
  <2>1. Loading'
    BY <1>6, BeginsLoad, LoadsWord
  <2>2. pc' = "load" /\ UNCHANGED <<errors, programming>> /\ programming
    BY <1>6 DEF BeginLoad, LoadWord, target, Progress
  <2> QED
    BY <2>1, <2>2 DEF Progress
<1>7. CASE BeginCommit
  <2>1. /\ Loading /\ ~errors /\ programming /\ pc' = "commit"
        /\ i = loaderLength \/ thisPage # oldPage
        /\ UNCHANGED <<i, oldPage, errors, programming, flash, pageBuffer>>
    BY <1>7 DEF BeginCommit, locals, target, Progress
  <2>2. i = loaderLength \/ thisPage > oldPage
    <3>1. i # loaderLength => i < loaderLength
      BY ImageAssumption DEF Typing, Counts
    <3>2. i < loaderLength => thisPage >= oldPage /\ thisPage \in Nat /\ oldPage \in Nat
      BY <2>1, Pages, Addresses DEF Loading, Typing
    <3> QED
      BY <2>1, <3>1, <3>2
  <2>3. Top' = Top /\ thisPage' = thisPage
    BY <2>1 DEF Top, thisPage
  <2>4. Loading'
    BY <2>1, <2>3 DEF Loading
  <2> QED
    BY <2>1, <2>2, <2>3, <2>4 DEF Progress
<1>8. CASE CommitPage
  <2>1. Committed' /\ pageBuffer' = EmptyBuffer
    BY <1>8, CommitsPage
  <2>2. pc' = "pollPage" /\ programming' /\ ~errors'
    BY <1>8 DEF CommitPage, locals, Progress
  <2> QED
    BY <2>1, <2>2 DEF Progress
<1>9. CASE PageCommitted
  <2>1. \/ pc' = "load" /\ Loading'
        \/ pc' = "verify" /\ Burnt'
    <3>1. IF i < loaderLength THEN Loading' ELSE Burnt'
      BY <1>9, FinishesPage
    <3>2. IF i < loaderLength THEN pc' = "load" ELSE pc' = "verify"
      BY <1>9 DEF PageCommitted
    <3> QED
      BY <3>1, <3>2
  <2>2. programming' /\ ~errors'
    BY <1>9 DEF PageCommitted, target, Progress
  <2> QED
    BY <2>1, <2>2 DEF Progress
<1>10. CASE VerifyByte
  <2>1. ~errors'
    BY <1>10, Verifies
  <2>2. pc' = "verify" /\ programming' /\ Burnt'
    BY <1>10 DEF VerifyByte, target, Progress, Burnt
  <2> QED
    BY <2>1, <2>2 DEF Progress
<1>11. CASE Verified \/ VerificationFails
  <2>1. Verified
    BY <1>11 DEF VerificationFails, Progress
  <2>2. pc' = "writeFuse" /\ fuse' = 1 /\ programming' /\ Burnt' /\ ~errors'
    BY <2>1 DEF Verified, target, Progress, Burnt
  <2>3. \A j \in 1..4 : ~(j < 1)
    OBVIOUS
  <2> QED
    BY <2>2, <2>3 DEF Progress
<1>12. CASE WriteNextFuse
  <2>1. \A j \in 1..4 : j <= fuse => fuses'[Fuses[j]] = "new"
    BY <1>12, WritesFuse
  <2>2. pc' = "pollFuse" /\ fuse' = fuse /\ programming' /\ Burnt' /\ ~errors'
    BY <1>12 DEF WriteNextFuse, locals, Progress, Burnt
  <2> QED
    BY <2>1, <2>2 DEF Progress
<1>13. CASE FuseWritten
  <2>1. /\ Burnt' /\ programming' /\ ~errors' /\ fuses' = fuses
        /\ \A j \in 1..4 : j <= fuse => fuses[Fuses[j]] = "new"
    BY <1>13 DEF FuseWritten, target, Progress, Burnt
  <2>2. CASE fuse < 4
    <3>1. pc' = "writeFuse" /\ fuse' = fuse + 1
      BY <1>13, <2>2 DEF FuseWritten
    <3>2. \A j \in 1..4 : j < fuse + 1 => j <= fuse
      BY DEF Typing
    <3> QED
      BY <2>1, <3>1, <3>2 DEF Progress
  <2>3. CASE ~(fuse < 4)
    <3>1. pc' = "stop" /\ success' = success /\ fuse = 4
      BY <1>13, <2>3 DEF FuseWritten, Typing
    <3>2. success
      BY <1>13 DEF FuseWritten, Done
    <3> QED
      BY <2>1, <3>1, <3>2, FourFuses DEF Progress
  <2> QED
    BY <2>2, <2>3
<1>14. CASE Loosen
  <2>1. pc' = "wait" /\ ~errors'
    BY <1>14 DEF Loosen, WiresHold, locals, Progress
  <2> QED
    BY <2>1 DEF Progress
<1>15. CASE Fasten \/ UNCHANGED vars
  <2>1. UNCHANGED <<pc, success, locals, target>>
    BY <1>15 DEF Fasten, vars
  <2>2. UNCHANGED <<pc, success, i, oldPage, errors, fuse, flash, pageBuffer, fuses, programming>>
    BY <2>1 DEF locals, target
  <2>3. Top' = Top /\ thisPage' = thisPage
    BY <2>2 DEF Top, thisPage
  <2>4. (Loading => Loading') /\ (Committed => Committed') /\ (Burnt => Burnt')
    BY <2>2, <2>3 DEF Loading, Committed, Burnt
  <2> QED
    BY <2>2, <2>3, <2>4 DEF Progress
<1> QED
  BY <1>1, <1>2, <1>3, <1>4, <1>5, <1>6, <1>7, <1>8, <1>9, <1>10, <1>11, <1>12, <1>13, <1>14, <1>15
  DEF Next, Sketch

\* "indicates if programming + verification was successfull", the other way round: of the
\* right chip, with wires that hold while the sketch is at it, no attempt ends without success.
THEOREM HoldingWiresInstall == Spec /\ []WiresHold => []EndsInstalled
<1>1. Init => Progress
  BY DEF Init, Progress
<1>2. IInv => Typing /\ Halves /\ Done
  BY TypingIsTypeOK DEF IInv
<1>3. Progress => EndsInstalled
  BY DEF Progress, EndsInstalled
<1> QED
  BY <1>1, <1>2, <1>3, ProgressStep, Invariance, PTL DEF Spec

\* Whenever the sketch polls, the target answers that it is ready.
PollsAreAnswered == pc \in Polling => Ready

\* Under the same condition the sketch never polls a target that has left programming mode,
\* which the run installer_retry finds it doing for ever with a wire that comes loose.
THEOREM HoldingWiresAnswer == Spec /\ []WiresHold => []PollsAreAnswered
<1>1. Init => Progress
  BY DEF Init, Progress
<1>2. IInv => Typing /\ Halves /\ Done
  BY TypingIsTypeOK DEF IInv
<1>3. Progress /\ WiresHold => PollsAreAnswered
  BY DEF Progress, WiresHold, PollsAreAnswered, Polling, Ready, Answers
<1> QED
  BY <1>1, <1>2, <1>3, ProgressStep, Invariance, PTL DEF Spec
=============================================================================
