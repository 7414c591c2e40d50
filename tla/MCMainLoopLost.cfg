\* The comment at HoodLoader2.c:284, refuted: a loss between the two reads.
SPECIFICATION FairSpec
CONSTANTS
  F_CPU = 16000000
  BAUDRATE_CDC_BOOTLOADER = 57600
  LineCodings <- MCLineCodings
  TX_RX_LED_PULSE_MS = 1
PROPERTY LossDisablesUsart
