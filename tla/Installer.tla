------------------------------- MODULE Installer -------------------------------
(***************************************************************************)
(* The installation sketch: an Arduino that burns HoodLoader2 into another *)
(* chip through its serial programming pins, verifies it, writes the fuses *)
(* and tries again every ten seconds until that has worked.                *)
(*                                                                         *)
(* The target is its flash, the page buffer its programming instructions   *)
(* fill, and its fuses.  The wires may come loose and be fixed at any      *)
(* instruction: the target then misses instructions, may leave programming *)
(* mode, and the sketch reads a line that nobody drives.                   *)
(***************************************************************************)
EXTENDS SpmFlash

CONSTANTS START_ADDRESS,               \* loaderStart: 0x3000
          loaderLength,                \* bytes of the image: 4096
          ENTER_PROGRAMMING_ATTEMPTS,  \* 50
          Zeros, Ones                  \* where the image holds 0x00 and 0xFF

ASSUME ImageAssumption ==
  /\ START_ADDRESS \in Nat /\ START_ADDRESS % 2 = 0
  /\ loaderLength \in Nat \ {0} /\ loaderLength % 2 = 0
  /\ START_ADDRESS + loaderLength <= (AppPages + BootPages) * SPM_PAGESIZE
ASSUME AttemptsAssumption == ENTER_PROGRAMMING_ATTEMPTS \in Nat
ASSUME BytesAssumption ==
  Zeros \cap Ones = {} /\ Zeros \cup Ones \subseteq START_ADDRESS..(START_ADDRESS + loaderLength - 1)

VARIABLES
  pc,            \* where loop() is; "wait" counts down the LED
  success,
  again,         \* startProgramming() was called by writeBootloader()
  timeout,       \* failed attempts
  i, oldPage,
  errors,        \* some byte read back was wrong: the count matters only to the log
  fuse,          \* the fuse being written
  flash, pageBuffer, fuses,
  programming,   \* the target is in programming mode
  connected,     \* the wires hold
  floating,      \* the level read when nobody drives the line: "high" or "low"
  signature      \* what the target answers to readSignatureByte

locals == <<again, timeout, i, oldPage, errors, fuse>>
target == <<flash, pageBuffer, fuses, programming>>
wires  == <<connected, floating, signature>>
vars   == <<pc, success, locals, target, wires>>

Fuses   == <<"low", "high", "ext", "lock">>
Image   == START_ADDRESS..(START_ADDRESS + loaderLength - 1)
Byte(a) == IF a \in Ones THEN Erased ELSE a + 1      \* the image's byte for this address
Old     == 2 * (AppPages + BootPages) * SPM_PAGESIZE + 1
Polling == {"pollLow", "pollErase", "pollPage", "pollFuse"}

TypeOK ==
  /\ pc \in {"wait", "enter", "signature", "readLow", "writeLow", "erase", "load", "commit",
             "verify", "writeFuse", "stop"} \cup Polling
  /\ success \in BOOLEAN /\ again \in BOOLEAN
  /\ timeout \in 0..ENTER_PROGRAMMING_ATTEMPTS
  /\ i \in 0..loaderLength /\ errors \in BOOLEAN
  /\ oldPage \in 0..(AppPages + BootPages - 1)
  /\ fuse \in 1..4
  /\ flash \in [FlashAddresses -> Contents]
  /\ pageBuffer \in [Offsets -> Nat \cup {Erased}]
  /\ fuses \in [{"low", "high", "ext", "lock"} -> {"old", "new"}]
  /\ programming \in BOOLEAN /\ connected \in BOOLEAN
  /\ floating \in {"high", "low"} /\ signature \in {"selected", "other"}

Init ==
  /\ pc = "wait" /\ success = FALSE /\ again = FALSE /\ timeout = 0
  /\ i = 0 /\ oldPage = PageOf(START_ADDRESS) /\ errors = FALSE /\ fuse = 1
  /\ flash = [a \in FlashAddresses |-> Old] /\ pageBuffer = EmptyBuffer
  /\ fuses \in {[f \in {"low", "high", "ext", "lock"} |-> IF f = "low" THEN l ELSE "old"] :
                  l \in {"old", "new"}}
  /\ programming = FALSE /\ connected \in BOOLEAN /\ floating \in {"high", "low"}
  /\ signature \in {"selected", "other"}

-----------------------------------------------------------------------------
(* The wires, and the reset button of the Arduino. *)

LeaveProgramming == programming' = FALSE /\ pageBuffer' = EmptyBuffer

\* A loose reset wire lets the target run; the others do not.
Loosen ==
  /\ connected /\ connected' = FALSE
  /\ floating' \in {"high", "low"}
  /\ LeaveProgramming \/ UNCHANGED <<programming, pageBuffer>>
  /\ UNCHANGED <<pc, success, locals, flash, fuses, signature>>

Fasten ==
  /\ ~connected /\ connected' = TRUE
  /\ UNCHANGED <<pc, success, locals, target, floating, signature>>

Restart ==
  /\ pc' = "wait" /\ success' = FALSE /\ again' = FALSE /\ timeout' = 0
  /\ i' = 0 /\ oldPage' = PageOf(START_ADDRESS) /\ errors' = FALSE /\ fuse' = 1
  /\ LeaveProgramming
  /\ UNCHANGED <<flash, fuses, wires>>

\* program(): the target takes the instruction and answers it.
Answers == connected /\ programming

-----------------------------------------------------------------------------
(* loop(), startProgramming(), stopProgramming() and getSignature(). *)

\* Once it has worked, the LED blinks for ever.
BeginRun ==
  /\ pc = "wait" /\ ~success
  /\ pc' = "enter" /\ again' = FALSE /\ timeout' = 0
  /\ UNCHANGED <<success, i, oldPage, errors, fuse, target, wires>>

\* A pulse on reset puts the target in programming mode, if it gets there.
EnterProgramming ==
  /\ pc = "enter" /\ connected
  /\ programming' = TRUE /\ pageBuffer' = EmptyBuffer
  /\ pc' = IF again THEN "erase" ELSE "signature"
  /\ UNCHANGED <<success, locals, flash, fuses, wires>>

\* Mutated: one attempt too many.
AttemptFailsOnceMore ==
  /\ pc = "enter" /\ ~connected /\ timeout <= ENTER_PROGRAMMING_ATTEMPTS
  /\ timeout' = timeout + 1
  /\ UNCHANGED <<pc, success, again, i, oldPage, errors, fuse, target, wires>>

AttemptFails ==
  /\ pc = "enter" /\ ~connected /\ timeout < ENTER_PROGRAMMING_ATTEMPTS
  /\ timeout' = timeout + 1
  /\ UNCHANGED <<pc, success, again, i, oldPage, errors, fuse, target, wires>>

TooManyAttempts ==
  /\ pc = "enter" /\ ~connected /\ timeout = ENTER_PROGRAMMING_ATTEMPTS
  /\ pc' = "stop"
  /\ UNCHANGED <<success, locals, target, wires>>

\* The sketch lets go of the reset line.
StopProgramming ==
  /\ pc = "stop" /\ pc' = "wait"
  /\ i' = 0 /\ errors' = FALSE /\ fuse' = 1 /\ again' = FALSE /\ timeout' = 0
  /\ oldPage' = PageOf(START_ADDRESS)
  /\ IF connected THEN LeaveProgramming ELSE UNCHANGED <<programming, pageBuffer>>
  /\ UNCHANGED <<success, flash, fuses, wires>>

\* An unknown chip, or one the selected image is not for, is left alone.
GetSignature ==
  /\ pc = "signature"
  /\ pc' = IF Answers /\ signature = "selected" THEN "readLow" ELSE "stop"
  /\ UNCHANGED <<success, locals, target, wires>>

-----------------------------------------------------------------------------
(* writeBootloader() *)

\* What is read from a floating line is not the fuse byte of the table.
ReadLowFuse ==
  /\ pc = "readLow"
  /\ pc' = IF Answers /\ fuses["low"] = "new" THEN "erase" ELSE "writeLow"
  /\ UNCHANGED <<success, locals, target, wires>>

WriteFuse(f) == fuses' = IF Answers THEN [fuses EXCEPT ![f] = "new"] ELSE fuses

WriteLowFuse ==
  /\ pc = "writeLow" /\ pc' = "pollLow"
  /\ WriteFuse("low")
  /\ UNCHANGED <<success, locals, flash, pageBuffer, programming, wires>>

\* pollUntilReady() goes on when bit 0 of the answer is clear.
Ready == IF Answers THEN TRUE ELSE floating = "low"

\* The fuse takes effect when reset is released; then programming mode again.
LatchLowFuse ==
  /\ pc = "pollLow" /\ Ready
  /\ pc' = "enter" /\ again' = TRUE /\ timeout' = 0
  /\ IF connected THEN LeaveProgramming ELSE UNCHANGED <<programming, pageBuffer>>
  /\ UNCHANGED <<success, i, oldPage, errors, fuse, flash, fuses, wires>>

ChipErase ==
  /\ pc = "erase" /\ pc' = "pollErase"
  /\ IF Answers
     THEN /\ flash' = [a \in FlashAddresses |-> Erased]
          /\ fuses' = [fuses EXCEPT !["lock"] = "old"]
     ELSE UNCHANGED <<flash, fuses>>
  /\ UNCHANGED <<success, locals, pageBuffer, programming, wires>>

BeginLoad ==
  /\ pc = "pollErase" /\ Ready
  /\ pc' = "load" /\ i' = 0 /\ oldPage' = PageOf(START_ADDRESS)
  /\ UNCHANGED <<success, again, timeout, errors, fuse, target, wires>>

thisPage == PageOf(START_ADDRESS + i)

LoadWord ==
  /\ pc = "load" /\ i < loaderLength /\ thisPage = oldPage
  /\ LET a == START_ADDRESS + i
     IN  pageBuffer' = IF Answers THEN FillWord(pageBuffer, a, Byte(a), Byte(a + 1))
                                  ELSE pageBuffer
  /\ i' = i + 2
  /\ UNCHANGED <<pc, success, again, timeout, oldPage, errors, fuse, flash, fuses, programming,
                 wires>>

\* Mutated: the final page is not committed.
BeginCommitNotLast ==
  /\ pc = "load" /\ (i = loaderLength \/ thisPage # oldPage)
  /\ IF i = loaderLength THEN pc' = "verify" /\ i' = 0 ELSE pc' = "commit" /\ UNCHANGED i
  /\ UNCHANGED <<success, again, timeout, oldPage, errors, fuse, target, wires>>

\* The page has changed, or the image has come to its end.
BeginCommit ==
  /\ pc = "load" /\ (i = loaderLength \/ thisPage # oldPage)
  /\ pc' = "commit"
  /\ UNCHANGED <<success, locals, target, wires>>

CommitPage ==
  /\ pc = "commit" /\ pc' = "pollPage"
  /\ IF Answers
     THEN flash' = WritePage(flash, pageBuffer, oldPage) /\ pageBuffer' = EmptyBuffer
     ELSE UNCHANGED <<flash, pageBuffer>>
  /\ UNCHANGED <<success, locals, fuses, programming, wires>>

PageCommitted ==
  /\ pc = "pollPage" /\ Ready
  /\ IF i < loaderLength
     THEN pc' = "load" /\ oldPage' = thisPage /\ UNCHANGED i
     ELSE pc' = "verify" /\ i' = 0 /\ UNCHANGED oldPage
  /\ UNCHANGED <<success, again, timeout, errors, fuse, target, wires>>

\* readFlash() gives the byte of the image for this address: a floating line reads as
\* eight equal bits.
ReadsRight(a) == IF Answers THEN flash[a] = Byte(a)
                            ELSE a \in (IF floating = "low" THEN Zeros ELSE Ones)

\* Mutated: the last byte is left out.
VerifyByteShort ==
  /\ pc = "verify" /\ i < loaderLength
  /\ errors' = (errors \/ (~ReadsRight(START_ADDRESS + i) /\ i # loaderLength - 1))
  /\ i' = i + 1
  /\ UNCHANGED <<pc, success, again, timeout, oldPage, fuse, target, wires>>

VerifyByte ==
  /\ pc = "verify" /\ i < loaderLength
  /\ errors' = (errors \/ ~ReadsRight(START_ADDRESS + i))
  /\ i' = i + 1
  /\ UNCHANGED <<pc, success, again, timeout, oldPage, fuse, target, wires>>

Verified ==
  /\ pc = "verify" /\ i = loaderLength /\ ~errors
  /\ success' = TRUE
  /\ pc' = "writeFuse" /\ fuse' = 1
  /\ UNCHANGED <<again, timeout, i, oldPage, errors, target, wires>>

\* Mutated: the return is missing.
VerificationFailsButFuses ==
  /\ pc = "verify" /\ i = loaderLength /\ errors
  /\ pc' = "writeFuse"
  /\ UNCHANGED <<success, locals, target, wires>>

\* "don't change fuses if errors"
VerificationFails ==
  /\ pc = "verify" /\ i = loaderLength /\ errors
  /\ pc' = "stop"
  /\ UNCHANGED <<success, locals, target, wires>>

WriteNextFuse ==
  /\ pc = "writeFuse" /\ pc' = "pollFuse"
  /\ WriteFuse(Fuses[fuse])
  /\ UNCHANGED <<success, locals, flash, pageBuffer, programming, wires>>

FuseWritten ==
  /\ pc = "pollFuse" /\ Ready
  /\ IF fuse < 4 THEN pc' = "writeFuse" /\ fuse' = fuse + 1
                 ELSE pc' = "stop" /\ UNCHANGED fuse
  /\ UNCHANGED <<success, again, timeout, i, oldPage, errors, target, wires>>

-----------------------------------------------------------------------------
Sketch == \/ BeginRun \/ EnterProgramming \/ AttemptFails \/ TooManyAttempts \/ StopProgramming
          \/ GetSignature \/ ReadLowFuse \/ WriteLowFuse \/ LatchLowFuse
          \/ ChipErase \/ BeginLoad \/ LoadWord \/ BeginCommit \/ CommitPage \/ PageCommitted
          \/ VerifyByte \/ Verified \/ VerificationFails \/ WriteNextFuse \/ FuseWritten

Next == Sketch \/ Loosen \/ Fasten \/ Restart

Spec == Init /\ [][Next]_vars

\* The sketch runs.  Nobody is asked to fix wires or to press a button.
FairSpec == Spec /\ WF_vars(Sketch)

-----------------------------------------------------------------------------
Imitated == Zeros \cup Ones
ImageStored == \A a \in Image \ Imitated : flash[a] = Byte(a)

\* "indicates if programming + verification was successfull": while the LED says so the
\* image is in the target, whichever instructions a loose wire has lost.  Only a byte that
\* a floating line reads as may be wrong.
SuccessIsReal == success => ImageStored

\* "don't change fuses if errors": the target is told to start in the bootloader, and
\* locked, only with the bootloader in place.
FusesAfterBootloader ==
  [][ \A f \in {"high", "ext", "lock"} :
        fuses[f] = "old" /\ fuses'[f] = "new" => success /\ ImageStored ]_vars

\* Once the wires hold for good, the right chip gets its bootloader, or the sketch was
\* caught polling a target that no longer answers, unless someone keeps pressing reset.
\* (Without success the button at "stop" does what stopProgramming() does.)
SucceedsOrPolls ==
  <>[](connected /\ signature = "selected") =>
     \/ <>[](success \/ pc \in Polling)
     \/ []<><<(pc # "stop" \/ success) /\ Restart>>_vars

\* "wait 10 sec and retry if not successful": with the wires in place again for good, the
\* sketch comes back to try again.
RetriesIfNotSuccessful == <>[]connected => (pc # "wait" ~> pc = "wait")
=============================================================================
