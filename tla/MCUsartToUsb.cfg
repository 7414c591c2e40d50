\* Ring of four slots, packets of up to three bytes: up to two overruns.
CONSTANTS
  USART2USB_BUFLEN = 4
  CDC_TX_EPSIZE = 4
  CDC_TX_BANK_SIZE = 2
  MaxBytes = 8
SPECIFICATION FairSpec
INVARIANTS TypeOK IInv
PROPERTIES ImplementsChannel EveryByteSent
