\* A file of four bytes, windows of two that are checked from one before.
CONSTANTS
    SIZE = 4
    BLOCK = 2
    BACK = 1
    INT_BYTES = 2
    BYTE = 2
    OVERWRITES = 3
    READS = 2
    REREADS = 2
    WRITES = 2
CHECK_DEADLOCK FALSE
SPECIFICATION FairSpec
INVARIANTS
    TypeOK
    FaithfulPasses
    PassMeansStored
PROPERTY Ends
