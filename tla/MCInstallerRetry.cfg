\* A wire that comes loose while the sketch polls for the end of a write.
SPECIFICATION FairSpec
CONSTANTS
  SPM_PAGESIZE = 4
  AppPages = 1
  BootPages = 1
  START_ADDRESS = 2
  loaderLength = 6
  ENTER_PROGRAMMING_ATTEMPTS = 1
  Zeros = {3}
  Ones = {6}
PROPERTY RetriesIfNotSuccessful
