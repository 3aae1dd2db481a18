CONSTANTS
    Nexus = {n1, n2, n3}
    NoNexus = NoNexus
    Cdbs <- MCCdbs
    DATA_SIZE = 2
    INQUIRY_SIZE = 1
    Garbage <- MCGarbage
    Reported = {"SCSI_RESET"}
SYMMETRY NexusSymmetry
SPECIFICATION Spec
INVARIANTS
    TerminatedNotReselected
