\* Every interleaving of main() with the bus: safety, and what main() owes.
SPECIFICATION FairSpec
CONSTANTS
  F_CPU = 16000000
  BAUDRATE_CDC_BOOTLOADER = 57600
  LineCodings <- MCLineCodings
  TX_RX_LED_PULSE_MS = 2
INVARIANTS TypeOK  LineIsReported
PROPERTIES SeenLossDisablesUsart ExitHonoured
