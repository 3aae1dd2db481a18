------------------------------ MODULE MCDiskTest ------------------------------
(* An instance of DiskTest for TLC: a buffer of three words. *)
EXTENDS DiskTest

\* Too small, odd, of one word, of two, of all of the buffer, and too large.
MCBlockSizes == {3, 4, 5, 8, 12, 13}

\* No block, one, two, and more than fit in an int: the largest, and one that
\* is negative as an int.
MCLastBlocks == {-1, 0, 1, 4, 31, -32}
================================================================================
