\* Ring of four slots, packets of up to three bytes: safety, refinement, liveness.
CONSTANTS
  USB2USART_BUFLEN = 4
  CDC_RX_EPSIZE = 3
  MaxBytes = 8
SPECIFICATION FairSpec
INVARIANTS TypeOK IInv CopyHasRoom NoLostWakeup
PROPERTIES ImplementsChannel EveryByteSent 
