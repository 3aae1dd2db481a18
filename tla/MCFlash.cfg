\* exit_terminate stops the program.
CONSTANTS
    FLASH_WORD_SIZE = 3
    Bits = {"a", "b"}
    Files <- MCFiles
    PROGRAM_ATTEMPTS = 3
    ERASE_ATTEMPTS = 3
CHECK_DEADLOCK FALSE
SPECIFICATION FairSpec
INVARIANTS
    TypeOK
    SuccessMeansImage
    ChecksReadCells
PROPERTY Terminates
