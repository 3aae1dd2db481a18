CONSTANTS
    Nexus = {n1, n2}
    NoNexus = NoNexus
    Cdbs <- MCCdbs
    DATA_SIZE = 2
    INQUIRY_SIZE = 1
    Garbage <- MCGarbage
    Reported = {"STARG_ABORT"}
SYMMETRY NexusSymmetry
SPECIFICATION Spec
INVARIANTS
    OnlyTerminatedRestarted
