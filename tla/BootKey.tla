------------------------------- MODULE BootKey --------------------------------
(***************************************************************************)
(* Which program a reset starts: Application_Jump_Check(), which runs      *)
(* before main(), StartSketch(), and ResetMCU(), with the reset flags, the *)
(* watchdog and the two boot keys in RAM that survive a reset.             *)
(*                                                                         *)
(* A reset can come between any two steps.  The only thing about a key     *)
(* byte that matters is whether it holds MAGIC_BOOT_KEY, so a key is       *)
(* TRUE or FALSE.                                                          *)
(***************************************************************************)
EXTENDS FiniteSets

CONSTANTS DOUBLE_TAB_RESET_TO_BOOTLOADER,   \* makefile options
          POWER_ON_TO_BOOTLOADER,
          SECOND_BOOTKEY                    \* the key at 0x280 is in use too

ASSUME OptionsAssumption ==
  /\ DOUBLE_TAB_RESET_TO_BOOTLOADER \in BOOLEAN
  /\ POWER_ON_TO_BOOTLOADER \in BOOLEAN
  /\ SECOND_BOOTKEY \in BOOLEAN

VARIABLES
  pc,                   \* where execution is
  MCUSR,                \* the reset flags
  wdtOn,                \* the watchdog is running
  key, secondKey,       \* *MagicBootKeyPtr, *SecondMagicBootKeyPtr
  sketchPresent,        \* pgm_read_word(0) # 0xFFFF
  keyVal,               \* bootKeyPtrVal or secondBootKeyPtrVal was the magic
  mcusr_state,
  asked                 \* history: what the last reset asks for

vars == <<pc, MCUSR, wdtOn, key, secondKey, sketchPresent, keyVal,
          mcusr_state, asked>>

Flags   == {"PORF", "EXTRF", "BORF", "WDRF"}
Startup == {"saveKey", "saveSecondKey", "saveFlags", "stopWatchdog", "decide",
            "armSecond", "window", "disarmSecond"}
Running == {"sketch", "bootloader", "resetting"}

TypeOK ==
  /\ pc \in Startup \cup Running
  /\ MCUSR \subseteq Flags /\ mcusr_state \subseteq Flags
  /\ wdtOn \in BOOLEAN /\ sketchPresent \in BOOLEAN
  /\ key \in BOOLEAN /\ secondKey \in BOOLEAN /\ keyVal \in BOOLEAN
  /\ asked \in {"sketch", "bootloader", "either"}

MagicInRam == key \/ (SECOND_BOOTKEY /\ secondKey)

-----------------------------------------------------------------------------
(***************************************************************************)
(* Resets.  asked records what the user may expect, from what was running  *)
(* and not from what the code remembers of it.  Nothing is promised for a  *)
(* reset that hits the few microseconds of start up, for a power-on with   *)
(* the reset line held down (the keys are then whatever the RAM came up    *)
(* with), or for a brown-out.                                              *)
(***************************************************************************)
Choose(toBootloader) ==
  IF ~sketchPresent THEN "bootloader"
  ELSE IF pc \in Startup \ {"window"} THEN "either"
  ELSE IF toBootloader THEN "bootloader" ELSE "sketch"

Restart(flags) ==
  /\ pc' = "saveKey"
  /\ MCUSR' = flags
  /\ wdtOn' = ("WDRF" \in flags)
  /\ UNCHANGED <<sketchPresent, keyVal, mcusr_state>>

Tap ==
  /\ Restart(MCUSR \cup {"EXTRF"})
  /\ LET again == pc = "window" \/ (pc = "sketch" /\ MagicInRam)
     IN  asked' = Choose(again = DOUBLE_TAB_RESET_TO_BOOTLOADER)
  /\ UNCHANGED <<key, secondKey>>

\* Start up stops the watchdog within microseconds; its shortest period is 16 ms.
WatchdogFires ==
  /\ wdtOn /\ pc \notin {"saveKey", "saveSecondKey", "saveFlags", "stopWatchdog"}
  /\ Restart(MCUSR \cup {"WDRF"})
  /\ asked' = Choose(pc = "sketch" /\ MagicInRam)
  /\ UNCHANGED <<key, secondKey>>

PowerOn(flags) ==
  /\ Restart(flags)
  /\ key' \in BOOLEAN /\ secondKey' \in BOOLEAN
  /\ asked' = IF ~sketchPresent THEN "bootloader"
              ELSE IF "EXTRF" \in flags THEN "either"
              ELSE IF POWER_ON_TO_BOOTLOADER THEN "bootloader" ELSE "sketch"

BrownOut ==
  /\ Restart(MCUSR \cup {"BORF"})
  /\ key' \in BOOLEAN /\ secondKey' \in BOOLEAN
  /\ asked' = IF sketchPresent THEN "either" ELSE "bootloader"

PowerOnFlags == {{"PORF"}, {"PORF", "BORF"}, {"PORF", "EXTRF"}}

Init ==
  /\ pc = "saveKey" /\ MCUSR \in PowerOnFlags /\ wdtOn = FALSE
  /\ key \in BOOLEAN /\ secondKey \in BOOLEAN
  /\ sketchPresent \in BOOLEAN
  /\ keyVal = FALSE /\ mcusr_state = {}
  /\ asked = IF ~sketchPresent THEN "bootloader"
             ELSE IF "EXTRF" \in MCUSR THEN "either"
             ELSE IF POWER_ON_TO_BOOTLOADER THEN "bootloader" ELSE "sketch"

-----------------------------------------------------------------------------
(* Application_Jump_Check() *)

\* Mutated: the key is read after it was cleared.
SaveClearedKey ==
  /\ pc = "saveKey" /\ pc' = "saveSecondKey"
  /\ keyVal' = FALSE /\ key' = FALSE
  /\ UNCHANGED <<MCUSR, wdtOn, secondKey, sketchPresent, mcusr_state, asked>>

SaveKey ==
  /\ pc = "saveKey" /\ pc' = "saveSecondKey"
  /\ keyVal' = key /\ key' = FALSE
  /\ UNCHANGED <<MCUSR, wdtOn, secondKey, sketchPresent, mcusr_state, asked>>

\* Mutated: the second key stays in RAM.
SaveAndKeepSecondKey ==
  /\ pc = "saveSecondKey" /\ pc' = "saveFlags"
  /\ keyVal' = (keyVal \/ (SECOND_BOOTKEY /\ secondKey))
  /\ UNCHANGED <<MCUSR, wdtOn, key, secondKey, sketchPresent, mcusr_state, asked>>

SaveSecondKey ==
  /\ pc = "saveSecondKey" /\ pc' = "saveFlags"
  /\ IF SECOND_BOOTKEY
     THEN keyVal' = (keyVal \/ secondKey) /\ secondKey' = FALSE
     ELSE UNCHANGED <<keyVal, secondKey>>
  /\ UNCHANGED <<MCUSR, wdtOn, key, sketchPresent, mcusr_state, asked>>

SaveFlags ==
  /\ pc = "saveFlags" /\ pc' = "stopWatchdog"
  /\ mcusr_state' = MCUSR /\ MCUSR' = {}
  /\ UNCHANGED <<wdtOn, key, secondKey, sketchPresent, keyVal, asked>>

\* Mutated: wdt_disable() is not called.
LeaveWatchdog ==
  /\ pc = "stopWatchdog" /\ pc' = "decide"
  /\ UNCHANGED <<MCUSR, wdtOn, key, secondKey, sketchPresent, keyVal, mcusr_state, asked>>

\* The hardware keeps the watchdog on for as long as WDRF is set.
StopWatchdog ==
  /\ pc = "stopWatchdog" /\ pc' = "decide"
  /\ wdtOn' = (wdtOn /\ "WDRF" \in MCUSR)
  /\ UNCHANGED <<MCUSR, key, secondKey, sketchPresent, keyVal, mcusr_state, asked>>

StartSketch == pc' = "sketch"

\* Returning goes on to main().
StartBootloader == pc' = "bootloader"

Decide ==
  /\ pc = "decide"
  /\ \/ ~sketchPresent /\ StartBootloader /\ UNCHANGED key
     \/ /\ sketchPresent /\ "EXTRF" \in mcusr_state
        /\ IF ~keyVal THEN pc' = "armSecond" /\ key' = TRUE
           ELSE /\ IF DOUBLE_TAB_RESET_TO_BOOTLOADER THEN StartBootloader ELSE StartSketch
                /\ UNCHANGED key
     \/ /\ sketchPresent /\ "EXTRF" \notin mcusr_state /\ "PORF" \in mcusr_state
        /\ IF POWER_ON_TO_BOOTLOADER THEN StartBootloader ELSE StartSketch
        /\ UNCHANGED key
     \/ /\ sketchPresent /\ mcusr_state \cap {"EXTRF", "PORF"} = {}
        /\ IF "WDRF" \in mcusr_state /\ ~keyVal THEN StartSketch ELSE StartBootloader
        /\ UNCHANGED key
  /\ UNCHANGED <<MCUSR, wdtOn, secondKey, sketchPresent, keyVal, mcusr_state, asked>>

ArmSecond ==
  /\ pc = "armSecond" /\ pc' = "window"
  /\ secondKey' = (secondKey \/ SECOND_BOOTKEY)
  /\ UNCHANGED <<MCUSR, wdtOn, key, sketchPresent, keyVal, mcusr_state, asked>>

\* Mutated: the key outlives the window.
WindowClosesWithKey ==
  /\ pc = "window" /\ pc' = "disarmSecond"
  /\ UNCHANGED <<MCUSR, wdtOn, key, secondKey, sketchPresent, keyVal, mcusr_state, asked>>

\* _delay_ms(EXT_RESET_TIMEOUT_PERIOD) is over.
WindowCloses ==
  /\ pc = "window" /\ pc' = "disarmSecond"
  /\ key' = FALSE
  /\ UNCHANGED <<MCUSR, wdtOn, secondKey, sketchPresent, keyVal, mcusr_state, asked>>

DisarmSecond ==
  /\ pc = "disarmSecond"
  /\ secondKey' = (secondKey /\ ~SECOND_BOOTKEY)
  /\ IF DOUBLE_TAB_RESET_TO_BOOTLOADER THEN StartSketch ELSE StartBootloader
  /\ UNCHANGED <<MCUSR, wdtOn, key, sketchPresent, keyVal, mcusr_state, asked>>

ApplicationJumpCheck ==
  \/ SaveKey \/ SaveSecondKey \/ SaveFlags \/ StopWatchdog \/ Decide
  \/ ArmSecond \/ WindowCloses \/ DisarmSecond

-----------------------------------------------------------------------------
(* The programs that run. *)

\* A sketch owns the RAM: it may put the key there on purpose
\* (RunBootloader.ino) or by chance.
SketchRuns ==
  /\ pc = "sketch"
  /\ key' \in BOOLEAN /\ secondKey' \in BOOLEAN /\ wdtOn' \in BOOLEAN
  /\ UNCHANGED <<pc, MCUSR, sketchPresent, keyVal, mcusr_state, asked>>

\* AVR109 erase and block write commands.
FlashChanges ==
  /\ pc = "bootloader" /\ sketchPresent' = ~sketchPresent
  /\ UNCHANGED <<pc, MCUSR, wdtOn, key, secondKey, keyVal, mcusr_state, asked>>

\* Mutated: the watchdog is not started.
SpinForEver ==
  /\ pc = "bootloader" /\ pc' = "resetting"
  /\ UNCHANGED <<MCUSR, wdtOn, key, secondKey, sketchPresent, keyVal, mcusr_state, asked>>

ResetMCU ==
  /\ pc = "bootloader" /\ pc' = "resetting"
  /\ wdtOn' = TRUE
  /\ UNCHANGED <<MCUSR, key, secondKey, sketchPresent, keyVal, mcusr_state, asked>>

-----------------------------------------------------------------------------
Next == \/ Tap \/ WatchdogFires \/ BrownOut
        \/ \E flags \in PowerOnFlags : PowerOn(flags)
        \/ ApplicationJumpCheck
        \/ SketchRuns \/ FlashChanges \/ ResetMCU

Spec == Init /\ [][Next]_vars

\* The processor executes, and a running watchdog bites: ResetMCU() never
\* resets the timer.
FairSpec == /\ Spec
            /\ WF_vars(ApplicationJumpCheck)
            /\ WF_vars(pc = "resetting" /\ WatchdogFires)

-----------------------------------------------------------------------------
\* The program the last reset asked for is the one that runs: two taps within
\* the window give the bootloader, one tap, a power-on, a watchdog reset without
\* the key or the end of programming give the sketch, and without a sketch there
\* is only the bootloader.
RunsWhatWasAsked ==
  /\ pc = "sketch" => asked # "bootloader"
  /\ pc \in {"bootloader", "resetting"} => asked # "sketch"

\* The watchdog that caused a reset cannot fire again while the code waits for
\* a second tap, nor in the bootloader before ResetMCU() starts it.
WatchdogOffWhileWaiting ==
  pc \in {"decide", "armSecond", "window", "disarmSecond", "bootloader"} => ~wdtOn

\* A key is good for one entry: no program is started with it still in RAM, so
\* the next reset is not taken for a second tap.
KeySpentAtStart ==
  [][(pc \in Startup /\ pc' \in Running) => ~MagicInRam']_vars

\* The bootloader's exit ends in the sketch, unless something else resets the
\* processor on the way.
ExitReachesSketch ==
  (pc = "resetting" /\ sketchPresent) ~> (pc = "sketch" \/ MCUSR \ {"WDRF"} # {})

(***************************************************************************)
(* The inductive invariant: what the variables remember of what was asked. *)
(***************************************************************************)
Remembers ==
  LET flags == IF pc \in {"saveKey", "saveSecondKey", "saveFlags"}
               THEN MCUSR ELSE mcusr_state
      magic == CASE pc = "saveKey" -> MagicInRam
                 [] pc = "saveSecondKey" -> keyVal \/ (SECOND_BOOTKEY /\ secondKey)
                 [] OTHER -> keyVal
      leadsTo ==
        IF ~sketchPresent THEN "bootloader"
        ELSE IF "EXTRF" \in flags
             THEN IF magic = DOUBLE_TAB_RESET_TO_BOOTLOADER THEN "bootloader" ELSE "sketch"
        ELSE IF "PORF" \in flags
             THEN IF POWER_ON_TO_BOOTLOADER THEN "bootloader" ELSE "sketch"
        ELSE IF "WDRF" \in flags /\ ~magic THEN "sketch" ELSE "bootloader"
  IN  pc \in Startup => asked \in {leadsTo, "either"}

Control ==
  /\ pc \in {"armSecond", "window", "disarmSecond"} =>
       sketchPresent /\ "EXTRF" \in mcusr_state /\ ~keyVal
  /\ pc \notin {"saveKey", "saveSecondKey", "saveFlags"} => MCUSR = {}
  /\ pc \in {"armSecond", "window"} => key
  /\ pc \in {"saveFlags", "stopWatchdog", "decide", "bootloader", "resetting"} => ~MagicInRam
  /\ pc = "saveSecondKey" => ~key
  /\ pc = "disarmSecond" => ~key

IInv == TypeOK /\ Remembers /\ Control /\ RunsWhatWasAsked /\ WatchdogOffWhileWaiting
=============================================================================
