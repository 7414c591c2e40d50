\* Self programming: flash and EEPROM, empty, odd and whole blocks, with the
\* connection and the power going anywhere; a command ends when the connection goes.
SPECIFICATION FairSpec
CONSTANTS
  SPM_PAGESIZE = 4
  AppPages = 1
  BootPages = 1
  CDC_RX_EPSIZE = 1
  CDC_TX_EPSIZE = 3
  CDC_TX_BANK_SIZE = 1
  ByteBase = 2
  BlockSizes = {0, 2, 3}
  EepromSize = 2
  MaxReply = 1
INVARIANTS TypeOK ErasedFromTheStart AddressInStep
PROPERTIES ConfirmedBlockIsStored DamageConfined ImplementsFlash GivesUp
