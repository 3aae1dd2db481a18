\* Three nexuses, so that two can compete while the command of the third is
\* disconnected.  No symmetry, for some of the properties are about liveness.
CONSTANTS
    Nexus = {n1, n2, n3}
    NoNexus = NoNexus
    Cdbs <- MCCdbs
    DATA_SIZE = 2
    INQUIRY_SIZE = 1
    Garbage <- MCGarbage
    Reported = {"SCSI_RESET", "STARG_ABORT", "INVALID"}
SPECIFICATION FairSpec
INVARIANTS
    TypeOK
    ChunkFits
    NoBusyLeak
    OneAtATime
    CompleteMeansAll
    DirectionKept
    RestartOnlyTerminated
    ReselectOnlyLive
PROPERTIES
    ParkedStateStable
    ServesAsPromised
    EveryCommandEnds
    BusyEnds
