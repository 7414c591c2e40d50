\* A session that starts secure, with every way a transfer can break off.
SPECIFICATION FairSpec
CONSTANTS
  SPM_PAGESIZE = 4
  AppPages = 2
  BootPages = 1
  FIXED_CONTROL_ENDPOINT_SIZE = 4
  CommandSize = 2
  DFU_FILLER_BYTES_SIZE = 2
  DFU_FILE_SUFFIX_SIZE = 1
  SECURE_MODE = TRUE
  EepromSize = 2
  FlashBlocks <- MCFlashBlocks
  EepromBlocks <- MCEepromBlocks
INVARIANTS TypeOK UploadRangeInOrder KeyForWatchdog
PROPERTIES ImplementsFlash DownloadStored SecureUntilErased ApplicationStarts GivesUp
