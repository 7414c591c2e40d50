\* An installation with wires that come loose at any instruction.
SPECIFICATION FairSpec
CONSTANTS
  SPM_PAGESIZE = 4
  AppPages = 1
  BootPages = 1
  START_ADDRESS = 2
  loaderLength = 6
  ENTER_PROGRAMMING_ATTEMPTS = 1
  Zeros = {3}
  Ones = {6}
INVARIANTS TypeOK SuccessIsReal
PROPERTIES FusesAfterBootloader SucceedsOrPolls
