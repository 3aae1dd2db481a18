----------------------------- MODULE MCScsiTarget -----------------------------
(* Instances of ScsiTarget for TLC: the commands and the uninitialised words. *)
EXTENDS TargetInvariants, TLC

\* A buffer of two bytes: length 2 takes one transfer, and 5 takes three, the last
\* of them partial.  The inquiry data is one byte, so 3 asks for more than there is.
MCCdbs ==
    [op : {"SEND"}, len : {0, 5}]
        \cup [op : {"RECEIVE"}, len : {2}]
        \cup [op : {"INQUIRY"}, len : {3}]
        \cup [op : {"TEST_UNIT_READY", "UNRECOGNISED"}, len : {0}]

MCGarbage == {7}

NexusSymmetry == Permutations(Nexus)
=============================================================================
