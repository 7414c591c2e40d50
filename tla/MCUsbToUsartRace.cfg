CONSTANTS
  USB2USART_BUFLEN = 4
  CDC_RX_EPSIZE = 3
  MaxBytes = 8
SPECIFICATION Spec
INVARIANT OffWhenAllSent
