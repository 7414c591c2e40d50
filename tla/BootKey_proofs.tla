---------------------------- MODULE BootKey_proofs ----------------------------
(***************************************************************************)
(* Proofs about BootKey, for every choice of the makefile options.  The    *)
(* inductive invariant says what the keys, the flags and the locals of     *)
(* Application_Jump_Check() still know of the reset at every one of its    *)
(* steps; it is needed because what was asked for is decided long before   *)
(* the code acts on it.                                                    *)
(***************************************************************************)
EXTENDS BootKey, TLAPS

LEMMA InitIInv == Init => IInv
  BY OptionsAssumption
  DEF Init, IInv, TypeOK, Remembers, Control, RunsWhatWasAsked,
      WatchdogOffWhileWaiting, PowerOnFlags, Flags, Startup, Running, MagicInRam

LEMMA TypeStep == ASSUME TypeOK, [Next]_vars PROVE TypeOK'
  <1> USE OptionsAssumption DEF TypeOK, Flags, Startup, Running
  <1>1. CASE Tap
    BY <1>1 DEF Tap, Restart, Choose
  <1>2. CASE WatchdogFires
    BY <1>2 DEF WatchdogFires, Restart, Choose
  <1>3. CASE BrownOut
    BY <1>3 DEF BrownOut, Restart
  <1>4. CASE \E flags \in PowerOnFlags : PowerOn(flags)
    BY <1>4 DEF PowerOn, PowerOnFlags, Restart
  <1>5. CASE SaveKey \/ SaveSecondKey \/ SaveFlags \/ StopWatchdog
    BY <1>5 DEF SaveKey, SaveSecondKey, SaveFlags, StopWatchdog
  <1>6. CASE Decide
    BY <1>6 DEF Decide, StartSketch, StartBootloader
  <1>7. CASE ArmSecond \/ WindowCloses \/ DisarmSecond
    BY <1>7 DEF ArmSecond, WindowCloses, DisarmSecond, StartSketch, StartBootloader
  <1>8. CASE SketchRuns \/ FlashChanges \/ ResetMCU
    BY <1>8 DEF SketchRuns, FlashChanges, ResetMCU
  <1>9. CASE UNCHANGED vars
    BY <1>9 DEF vars
  <1> QED
    BY <1>1, <1>2, <1>3, <1>4, <1>5, <1>6, <1>7, <1>8, <1>9
    DEF Next, ApplicationJumpCheck

\* A reset, whatever it finds, leaves the invariant for the start up to keep.
LEMMA ResetStep ==
  ASSUME IInv, \/ Tap \/ WatchdogFires \/ BrownOut
               \/ \E flags \in PowerOnFlags : PowerOn(flags)
  PROVE  Remembers' /\ Control' /\ RunsWhatWasAsked' /\ WatchdogOffWhileWaiting'
  <1> USE OptionsAssumption
      DEF IInv, TypeOK, Remembers, Control, RunsWhatWasAsked,
          WatchdogOffWhileWaiting, Startup, Running, MagicInRam, Restart
  <1>1. CASE Tap
    BY <1>1 DEF Tap, Choose
  <1>2. CASE WatchdogFires
    BY <1>2 DEF WatchdogFires, Choose
  <1>3. CASE BrownOut
    BY <1>3 DEF BrownOut
  <1>4. CASE \E flags \in PowerOnFlags : PowerOn(flags)
    BY <1>4 DEF PowerOn, PowerOnFlags
  <1> QED
    BY <1>1, <1>2, <1>3, <1>4

LEMMA CodeStep ==
  ASSUME IInv, ApplicationJumpCheck \/ SketchRuns \/ FlashChanges \/ ResetMCU
  PROVE  Remembers' /\ Control' /\ RunsWhatWasAsked' /\ WatchdogOffWhileWaiting'
  <1> USE OptionsAssumption
      DEF IInv, TypeOK, Remembers, Control, RunsWhatWasAsked,
          WatchdogOffWhileWaiting, Startup, Running, MagicInRam
  <1>1. CASE SaveKey
    BY <1>1 DEF SaveKey
  <1>2. CASE SaveSecondKey
    BY <1>2 DEF SaveSecondKey
  <1>3. CASE SaveFlags
    BY <1>3 DEF SaveFlags
  <1>4. CASE StopWatchdog
    BY <1>4 DEF StopWatchdog
  <1>5. CASE Decide
    BY <1>5 DEF Decide, StartSketch, StartBootloader
  <1>6. CASE ArmSecond
    BY <1>6 DEF ArmSecond
  <1>7. CASE WindowCloses
    BY <1>7 DEF WindowCloses
  <1>8. CASE DisarmSecond
    BY <1>8 DEF DisarmSecond, StartSketch, StartBootloader
  <1>9. CASE SketchRuns \/ FlashChanges \/ ResetMCU
    BY <1>9 DEF SketchRuns, FlashChanges, ResetMCU
  <1> QED
    BY <1>1, <1>2, <1>3, <1>4, <1>5, <1>6, <1>7, <1>8, <1>9
    DEF ApplicationJumpCheck

LEMMA StepIInv == IInv /\ [Next]_vars => IInv'
  <1> SUFFICES ASSUME IInv, [Next]_vars PROVE IInv'
    OBVIOUS
  <1>1. TypeOK'
    BY TypeStep DEF IInv
  <1>2. CASE Next
    BY <1>1, <1>2, ResetStep, CodeStep DEF IInv, Next
  <1>3. CASE UNCHANGED vars
    BY <1>1, <1>3 DEF vars, IInv, Remembers, Control, RunsWhatWasAsked,
       WatchdogOffWhileWaiting, MagicInRam
  <1> QED
    BY <1>2, <1>3

\* IInv holds in every reachable state.
THEOREM Invariance == Spec => []IInv
  BY InitIInv, StepIInv, PTL DEF Spec

\* Every reset starts the program it asked for.
THEOREM ResetRunsWhatWasAsked == Spec => []RunsWhatWasAsked
  <1>1. IInv => RunsWhatWasAsked
    BY DEF IInv
  <1> QED
    BY <1>1, Invariance, PTL

\* The watchdog is off while the code waits for a second tap.
THEOREM NoWatchdogInWindow == Spec => []WatchdogOffWhileWaiting
  <1>1. IInv => WatchdogOffWhileWaiting
    BY DEF IInv
  <1> QED
    BY <1>1, Invariance, PTL

\* No program is started with a boot key left in RAM.
THEOREM KeyIsSpent == Spec => KeySpentAtStart
  <1>1. ASSUME IInv, [Next]_vars, pc \in Startup, pc' \in Running
        PROVE  ~MagicInRam'
    <2> USE <1>1, OptionsAssumption DEF Startup, Running, MagicInRam, IInv, TypeOK, Control
    <2>1. CASE Tap \/ WatchdogFires \/ BrownOut \/ \E f \in PowerOnFlags : PowerOn(f)
      BY <2>1 DEF Tap, WatchdogFires, BrownOut, PowerOn, Restart
    <2>2. CASE ApplicationJumpCheck
      BY <2>2 DEF ApplicationJumpCheck, SaveKey, SaveSecondKey, SaveFlags, StopWatchdog,
         Decide, ArmSecond, WindowCloses, DisarmSecond, StartSketch, StartBootloader
    <2>3. CASE SketchRuns \/ FlashChanges \/ ResetMCU \/ UNCHANGED vars
      BY <2>3 DEF SketchRuns, FlashChanges, ResetMCU, vars
    <2> QED
      BY <2>1, <2>2, <2>3 DEF Next
  <1> QED
    BY <1>1, Invariance, PTL DEF Spec, KeySpentAtStart
=============================================================================
