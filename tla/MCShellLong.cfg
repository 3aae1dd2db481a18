\* Two logical processes with three descriptors each, and trees of four entries.
CONSTANTS
    TFS_MAX_PROCS = 2
    MESSAGE_SIZE = 4
    Lengths <- MCLengths
    TFS_OPEN_MAX = 3
    Names <- MCNames
    Trees <- MCTrees
    Args <- MCArgs
    LongPaths <- MCLongPaths
    TIMES = 2
CHECK_DEADLOCK FALSE
SPECIFICATION ShellSpec
INVARIANT EntryPathFits
