CONSTANTS
  DOUBLE_TAB_RESET_TO_BOOTLOADER = TRUE
  POWER_ON_TO_BOOTLOADER = FALSE
  SECOND_BOOTKEY = TRUE
SPECIFICATION FairSpec
INVARIANTS IInv RunsWhatWasAsked WatchdogOffWhileWaiting
PROPERTIES KeySpentAtStart ExitReachesSketch
