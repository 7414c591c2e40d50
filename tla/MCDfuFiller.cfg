\* A block that does not start at a packet boundary.
SPECIFICATION Spec
CONSTANTS
  SPM_PAGESIZE = 4
  AppPages = 2
  BootPages = 1
  FIXED_CONTROL_ENDPOINT_SIZE = 4
  CommandSize = 2
  DFU_FILLER_BYTES_SIZE = 2
  DFU_FILE_SUFFIX_SIZE = 1
  SECURE_MODE = FALSE
  EepromSize = 2
  FlashBlocks <- MCUnalignedBlocks
  EepromBlocks <- MCEepromBlocks
PROPERTY FillerThrownAway
