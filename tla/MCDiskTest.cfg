\* Ints of six bits, and a CDB that counts blocks in two of one bit.
CONSTANTS
    MAX_BUFFER_SIZE = 12
    MAX_BLOCKS = 2
    VALUE_START = 47
    VALUE_INC = 24
    INT_SIZE = 64
    COUNT_SIZE = 2
    BlockSizes <- MCBlockSizes
    LastBlocks <- MCLastBlocks
CHECK_DEADLOCK FALSE
SPECIFICATION Spec
INVARIANTS
    TypeOK
    TransferFits
    PassedMeansStored
    HonestDiskPasses
