\* A read of the file that fails is taken for its end.
CONSTANTS
    FLASH_WORD_SIZE = 3
    Bits = {"a", "b"}
    Files <- MCFiles
    PROGRAM_ATTEMPTS = 3
    ERASE_ATTEMPTS = 3
CHECK_DEADLOCK FALSE
SPECIFICATION Spec
INVARIANT SuccessMeansWholeFile
