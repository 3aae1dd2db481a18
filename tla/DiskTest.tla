------------------------------ MODULE DiskTest ------------------------------
(***************************************************************************)
(* The SCSI disk test utility, TTM50/EXAMPLES/DISKTEST.C: it sizes its     *)
(* buffer from what the disk says of itself, and then once, or again and   *)
(* again, fills the start of the disk with a pattern, reads it back and    *)
(* compares.                                                               *)
(*                                                                         *)
(* The unit of data is the word that the loops step by.  The last word of  *)
(* a buffer whose size is no multiple of four reaches past it.             *)
(***************************************************************************)
EXTENDS Integers

CONSTANTS
    MAX_BUFFER_SIZE,    \* bytes
    MAX_BLOCKS,         \* blocks of one transfer
    VALUE_START,
    VALUE_INC,
    INT_SIZE,           \* 2^32: an int and an unsigned long are that wide
    COUNT_SIZE,         \* 2^8: the block count of a CDB has two bytes
    BlockSizes,         \* what the disk may say of itself
    LastBlocks

Ints == (-(INT_SIZE \div 2))..(INT_SIZE \div 2 - 1)

\* The pattern wraps round.
Value(w) == (VALUE_START + w * VALUE_INC) % INT_SIZE

WordsIn(size) == 0..((size - 1) \div 4)

\* VALUE_START is odd and VALUE_INC is even.
PatternIsNeverZero == \A w \in WordsIn(MAX_BUFFER_SIZE) : Value(w) # 0

ASSUME WidthAssumption ==
    /\ INT_SIZE \in Nat /\ INT_SIZE \div 2 > MAX_BUFFER_SIZE
    /\ COUNT_SIZE \in Nat \ {0}
    /\ MAX_BUFFER_SIZE \in Nat \ {0}
    /\ MAX_BLOCKS \in 1..(COUNT_SIZE * COUNT_SIZE - 1)
ASSUME DiskAssumption == BlockSizes \subseteq Ints /\ LastBlocks \subseteq Ints
ASSUME PatternAssumption ==
    VALUE_START \in Nat /\ VALUE_INC \in Nat /\ PatternIsNeverZero

VARIABLES
    phase,          \* where the program is
    continuous,     \* the -c flag
    unit,           \* what the library found out about the disk
    buffer_blocks,
    buffer,         \* the words of the buffer
    disk,           \* the words at the start of the disk
    honest          \* has it stored and returned all that it said it had?

vars == <<phase, continuous, unit, buffer_blocks, buffer, disk, honest>>

Phases == {"start", "size", "fill", "dump", "compare", "passed", "done",
           "invalid", "failed", "mismatch"}
Contents == {Value(w) : w \in WordsIn(MAX_BUFFER_SIZE)} \cup {0}
Words == WordsIn(buffer_blocks * unit.block_size)

TypeOK ==
    /\ phase \in Phases
    /\ continuous \in BOOLEAN
    /\ unit \in [block_size : BlockSizes, last_block : LastBlocks]
    /\ buffer_blocks \in 0..MAX_BLOCKS
    /\ honest \in BOOLEAN
    /\ disk \in [WordsIn(MAX_BUFFER_SIZE) -> Contents]
    /\ buffer \in [Words -> Contents]

Init ==
    /\ phase = "start"
    /\ continuous \in BOOLEAN
    /\ unit \in [block_size : BlockSizes, last_block : LastBlocks]
    /\ buffer_blocks = 0
    /\ buffer = [w \in {} |-> 0]
    /\ disk \in [WordsIn(MAX_BUFFER_SIZE) -> Contents]
    /\ honest = TRUE

-----------------------------------------------------------------------------
\* What scsi_command says of a transfer.
Outcomes ==
    [result : {"SCSI_OK", "SCSI_NOT_OK"}, status : {"GOOD", "CHECK"}, residue : {0, 1}]

\* Mutant: the residue is not looked at.
SucceededInPart(outcome) == outcome.result = "SCSI_OK" /\ outcome.status = "GOOD"
Succeeded(outcome) ==
    outcome.result = "SCSI_OK" /\ outcome.status = "GOOD" /\ outcome.residue = 0

\* The outcome that says that all of the data has moved (COMMAND(3)).
Complete == [result |-> "SCSI_OK", status |-> "GOOD", residue |-> 0]

\* A write may leave anything on the disk, whatever it says.
WriteToDisk(data, outcome) ==
    /\ disk' \in [WordsIn(MAX_BUFFER_SIZE) -> Contents]
    /\ honest' = (honest /\ (outcome = Complete => \A w \in Words : disk'[w] = data[w]))

\* A read may leave any of the words as they were.
ReadFromDisk(before, outcome) ==
    /\ \E missed \in SUBSET Words :
          buffer' = [w \in Words |-> IF w \in missed THEN before[w] ELSE disk[w]]
    /\ honest' = (honest /\ (outcome = Complete => \A w \in Words : buffer'[w] = disk[w]))
    /\ UNCHANGED disk

-----------------------------------------------------------------------------
Goto(p) == phase' = p /\ UNCHANGED <<continuous, unit>>

\* The library has to start, its own id must not be the disk's, and there must
\* be a disk.
Start ==
    /\ phase = "start"
    /\ Goto("failed") \/ Goto("size")
    /\ UNCHANGED <<buffer_blocks, buffer, disk, honest>>

Wrapped(n) == ((n + INT_SIZE \div 2) % INT_SIZE) - INT_SIZE \div 2

\* Mutant: the largest block size is not checked.
ValidDiskAnySize(number_blocks) == unit.block_size >= 4 /\ number_blocks >= 1
ValidDisk(number_blocks) ==
    /\ unit.block_size >= 4
    /\ unit.block_size <= MAX_BUFFER_SIZE
    /\ number_blocks >= 1

Least(a, b) == IF a < b THEN a ELSE b

\* Mutant: the transfer may have any number of blocks.
BufferBlocksUncut(number_blocks) == Least(MAX_BUFFER_SIZE \div unit.block_size, number_blocks)
BufferBlocks(number_blocks) ==
    Least(Least(MAX_BUFFER_SIZE \div unit.block_size, MAX_BLOCKS), number_blocks)

\* The number of blocks may not fit in an int.
Size ==
    LET number_blocks == Wrapped(unit.last_block + 1)
    IN  /\ phase = "size"
        /\ \/ /\ ~ValidDisk(number_blocks)
              /\ Goto("invalid")
              /\ UNCHANGED <<buffer_blocks, buffer>>
           \/ /\ ValidDisk(number_blocks)
              /\ Goto("failed")
              /\ UNCHANGED <<buffer_blocks, buffer>>
           \/ /\ ValidDisk(number_blocks)
              /\ Goto("fill")
              /\ buffer_blocks' = BufferBlocks(number_blocks)
              /\ buffer' = [w \in WordsIn(buffer_blocks' * unit.block_size) |-> 0]
        /\ UNCHANGED <<disk, honest>>

Filled == [w \in Words |-> Value(w)]

\* Mutant: the disk is read into the pattern.
ClearedNot == Filled
Cleared == [w \in Words |-> 0]

Fill ==
    /\ phase = "fill"
    /\ buffer' = Filled
    /\ \E outcome \in Outcomes :
          /\ WriteToDisk(Filled, outcome)
          /\ IF Succeeded(outcome) THEN Goto("dump") ELSE Goto("failed")
    /\ UNCHANGED buffer_blocks

Dump ==
    /\ phase = "dump"
    /\ \E outcome \in Outcomes :
          /\ ReadFromDisk(Cleared, outcome)
          /\ IF Succeeded(outcome) THEN Goto("compare") ELSE Goto("failed")
    /\ UNCHANGED buffer_blocks

Matches == \A w \in Words : buffer[w] = Value(w)

Compare ==
    /\ phase = "compare"
    /\ IF Matches THEN Goto("passed") ELSE Goto("mismatch")
    /\ UNCHANGED <<buffer_blocks, buffer, disk, honest>>

\* The next trial writes the same pattern to the same blocks.
Repeat ==
    /\ phase = "passed"
    /\ IF continuous THEN Goto("fill") ELSE Goto("done")
    /\ UNCHANGED <<buffer_blocks, buffer, disk, honest>>

Next == Start \/ Size \/ Fill \/ Dump \/ Compare \/ Repeat

Spec == Init /\ [][Next]_vars

-----------------------------------------------------------------------------
\* The count in bytes 7 and 8 of the CDB (DISKTEST.C:57-58, 107-108).
CdbBlocks ==
    ((buffer_blocks \div COUNT_SIZE) % COUNT_SIZE) * COUNT_SIZE + (buffer_blocks % COUNT_SIZE)

\* Every transfer moves at least a block, as many as its CDB says, and none past
\* the end of the disk, which counts its blocks without a sign; and no buffer is
\* larger than it may be (DISKTEST.C:347-371).
TransferFits ==
    phase \in {"fill", "dump"} =>
        /\ buffer_blocks > 0
        /\ CdbBlocks = buffer_blocks
        /\ buffer_blocks <= (unit.last_block % INT_SIZE) + 1
        /\ buffer_blocks * unit.block_size <= MAX_BUFFER_SIZE

\* "Passed all tests" is printed only when the disk holds every word of the
\* pattern, whatever its writes stored and its reads left out
\* (fill_test, DISKTEST.C:142-202).
PassedMeansStored == phase = "passed" => \A w \in Words : disk[w] = Value(w)

\* A disk that does all that it says it has done is never said to differ, also when
\* it leaves out what it says it has left out, by a result, a status or a residue
\* (fill and dump, DISKTEST.C:72-89, 122-139, and fill_test, 164-201).
HonestDiskPasses == phase = "mismatch" => ~honest
=============================================================================
