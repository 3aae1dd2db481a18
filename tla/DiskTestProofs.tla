---------------------------- MODULE DiskTestProofs ----------------------------
(***************************************************************************)
(* Proofs about the disk test, for every size of buffer and of disk, every *)
(* pattern without a zero word and everything that a disk may do.          *)
(***************************************************************************)
EXTENDS DiskTest, TLAPS

Running == {"fill", "dump", "compare", "passed", "done", "mismatch"}

\* The buffer is of whole blocks and no larger than it may be.
SizeInv ==
    phase \in Running =>
        /\ buffer_blocks \in 1..MAX_BLOCKS
        /\ buffer_blocks * unit.block_size \in 4..MAX_BUFFER_SIZE
        /\ buffer_blocks <= unit.last_block + 1

\* What a read left out is zero and so not mistaken for the pattern.
ReadInv ==
    phase = "compare" => \A w \in Words : buffer[w] \in {0, disk[w]}

HonestInv ==
    /\ phase = "dump" /\ honest => \A w \in Words : disk[w] = Value(w)
    /\ phase = "compare" /\ honest => \A w \in Words : buffer[w] = Value(w)

DiskInv ==
    /\ TypeOK
    /\ SizeInv
    /\ ReadInv
    /\ HonestInv
    /\ PassedMeansStored
    /\ HonestDiskPasses

-----------------------------------------------------------------------------
LEMMA QuotientFits ==
    ASSUME NEW m \in Nat \ {0}, NEW b \in 1..m
    PROVE  m \div b \in Nat \ {0} /\ (m \div b) * b <= m
  OBVIOUS

LEMMA ProductMonotone ==
    ASSUME NEW x \in Nat, NEW y \in Nat, NEW b \in Nat, x <= y
    PROVE  x * b <= y * b
  OBVIOUS

LEMMA ProductLarge ==
    ASSUME NEW x \in Nat \ {0}, NEW b \in Nat
    PROVE  x * b >= b
  OBVIOUS

LEMMA RemainderSmall ==
    ASSUME NEW d \in Nat \ {0}, NEW x \in 0..(d - 1)
    PROVE  x % d = x
  OBVIOUS

LEMMA Digits ==
    ASSUME NEW d \in Nat \ {0}, NEW x \in Nat
    PROVE  /\ x \div d \in Nat
           /\ x % d \in 0..(d - 1)
           /\ x = (x \div d) * d + (x % d)
  OBVIOUS

\* Two digits are enough.
LEMMA TwoDigits ==
    ASSUME NEW d \in Nat \ {0}, NEW x \in 0..(d * d - 1)
    PROVE  ((x \div d) % d) * d + (x % d) = x
<1> DEFINE q == x \div d
<1>1. d * d \in Nat /\ x \in Nat /\ x < d * d
  OBVIOUS
<1>2. q \in Nat /\ x % d \in 0..(d - 1) /\ x = q * d + (x % d)
  BY <1>1, Digits
<1> HIDE DEF q
<1>3. q < d
  <2> SUFFICES ASSUME d <= q PROVE FALSE
    BY <1>2
  <2>1. d * d <= q * d
    BY <1>2, ProductMonotone
  <2>2. q * d \in Nat
    BY <1>2
  <2> QED
    BY <1>1, <1>2, <2>1, <2>2
<1>4. q % d = q
  BY <1>2, <1>3, RemainderSmall
<1> QED
  BY <1>2, <1>4 DEF q

LEMMA HalfInt ==
    /\ INT_SIZE \div 2 \in Nat \ {0}
    /\ 2 * (INT_SIZE \div 2) <= INT_SIZE
    /\ INT_SIZE <= 2 * (INT_SIZE \div 2) + 1
  BY WidthAssumption

\* The number of blocks is right unless it turned negative.
LEMMA WrappedExact ==
    ASSUME NEW n \in Ints, Wrapped(n + 1) >= 1
    PROVE  Wrapped(n + 1) = n + 1 /\ n \in Nat
<1> DEFINE H == INT_SIZE \div 2
<1>1. /\ H \in Nat \ {0}
      /\ INT_SIZE \in Nat
      /\ 2 * H <= INT_SIZE
      /\ INT_SIZE <= 2 * H + 1
  BY HalfInt, WidthAssumption
<1>2. n \in (-H)..(H - 1)
  BY DEF Ints
<1>3. Wrapped(n + 1) = ((n + 1 + H) % INT_SIZE) - H
  BY DEF Wrapped
<1> HIDE DEF H
<1>4. CASE n + 1 + H < INT_SIZE
  <2>1. n + 1 + H \in 0..(INT_SIZE - 1)
    BY <1>1, <1>2, <1>4
  <2>2. (n + 1 + H) % INT_SIZE = n + 1 + H
    BY <1>1, <2>1, RemainderSmall
  <2>3. Wrapped(n + 1) = n + 1
    BY <1>1, <1>2, <1>3, <2>2
  <2> QED
    BY <1>2, <1>1, <2>3
<1>5. CASE n + 1 + H = INT_SIZE
  <2>1. INT_SIZE % INT_SIZE = 0
    BY <1>1
  <2> QED
    BY <1>1, <1>2, <1>3, <1>5, <2>1
<1> QED
  BY <1>1, <1>2, <1>4, <1>5

\* What the program makes of a disk that it accepts.
LEMMA BufferFits ==
    ASSUME NEW size \in Ints, NEW last \in Ints, NEW blocks,
           size >= 4, size <= MAX_BUFFER_SIZE, Wrapped(last + 1) >= 1,
           blocks = Least(Least(MAX_BUFFER_SIZE \div size, MAX_BLOCKS), Wrapped(last + 1))
    PROVE  /\ blocks \in 1..MAX_BLOCKS
           /\ blocks * size \in 4..MAX_BUFFER_SIZE
           /\ blocks <= last + 1
<1>1. Wrapped(last + 1) = last + 1 /\ last \in Nat
  BY WrappedExact
<1>2. size \in Nat /\ size \in 1..MAX_BUFFER_SIZE
  BY WidthAssumption, HalfInt DEF Ints
<1>3. MAX_BUFFER_SIZE \in Nat \ {0} /\ MAX_BLOCKS \in Nat \ {0}
  BY WidthAssumption
<1> DEFINE q == MAX_BUFFER_SIZE \div size
<1>4. q \in Nat \ {0} /\ q * size <= MAX_BUFFER_SIZE
  BY <1>2, <1>3, QuotientFits
<1> HIDE DEF q
<1>5. /\ blocks \in Nat \ {0}
      /\ blocks <= q
      /\ blocks <= MAX_BLOCKS
      /\ blocks <= last + 1
  BY <1>1, <1>3, <1>4 DEF Least, q
<1>6. blocks * size <= q * size /\ blocks * size >= size
  BY <1>2, <1>4, <1>5, ProductMonotone, ProductLarge
<1>7. blocks * size \in Nat /\ q * size \in Nat
  BY <1>2, <1>4, <1>5
<1> QED
  BY <1>2, <1>3, <1>4, <1>5, <1>6, <1>7

LEMMA WordsType ==
    ASSUME NEW size \in Int, size <= MAX_BUFFER_SIZE
    PROVE  WordsIn(size) \subseteq WordsIn(MAX_BUFFER_SIZE)
  BY WidthAssumption DEF WordsIn

LEMMA ValueType ==
    /\ 0 \in Contents
    /\ \A w \in WordsIn(MAX_BUFFER_SIZE) : Value(w) \in Contents /\ Value(w) # 0
  BY PatternAssumption DEF Contents, PatternIsNeverZero

LEMMA RunningWords ==
    ASSUME TypeOK, SizeInv, phase \in Running
    PROVE  Words \subseteq WordsIn(MAX_BUFFER_SIZE)
<1>1. buffer_blocks * unit.block_size \in 4..MAX_BUFFER_SIZE
  BY DEF SizeInv
<1>2. buffer_blocks * unit.block_size \in Int /\ buffer_blocks * unit.block_size <= MAX_BUFFER_SIZE
  BY <1>1, WidthAssumption
<1> QED
  BY <1>2, WordsType DEF Words

LEMMA SameWords ==
    ASSUME UNCHANGED <<unit, buffer_blocks>>
    PROVE  Words' = Words
  BY DEF Words, WordsIn

-----------------------------------------------------------------------------
LEMMA DiskInvInit == Init => DiskInv
<1> SUFFICES ASSUME Init PROVE DiskInv
  OBVIOUS
<1>1. buffer_blocks * unit.block_size = 0
  <2>1. unit.block_size \in Int
    <3>1. Ints \subseteq Int
      BY HalfInt DEF Ints
    <3> QED
      BY <3>1, DiskAssumption DEF Init
  <2> QED
    BY <2>1 DEF Init
<1>2. Words = {}
  BY <1>1 DEF Words, WordsIn
<1>3. TypeOK
  BY <1>2, WidthAssumption DEF Init, TypeOK, Phases
<1> QED
  BY <1>3 DEF Init, DiskInv, SizeInv, ReadInv, HonestInv, PassedMeansStored,
              HonestDiskPasses, Running

LEMMA StartStep == DiskInv /\ Start => DiskInv'
<1> SUFFICES ASSUME DiskInv, Start PROVE DiskInv'
  OBVIOUS
<1>1. /\ UNCHANGED <<continuous, unit, buffer_blocks, buffer, disk, honest>>
      /\ phase' \in {"failed", "size"}
  BY DEF Start, Goto
<1>2. TypeOK'
  BY <1>1, SameWords DEF DiskInv, TypeOK, Phases
<1> QED
  BY <1>1, <1>2 DEF DiskInv, SizeInv, ReadInv, HonestInv, PassedMeansStored,
                    HonestDiskPasses, Running

LEMMA SizeStep == DiskInv /\ Size => DiskInv'
<1> SUFFICES ASSUME DiskInv, Size PROVE DiskInv'
  OBVIOUS
<1>1. CASE phase' # "fill"
  <2>1. /\ UNCHANGED <<continuous, unit, buffer_blocks, buffer, disk, honest>>
        /\ phase' \in {"failed", "invalid"}
    BY <1>1 DEF Size, Goto
  <2>2. TypeOK'
    BY <2>1, SameWords DEF DiskInv, TypeOK, Phases
  <2> QED
    BY <2>1, <2>2 DEF DiskInv, SizeInv, ReadInv, HonestInv, PassedMeansStored,
                      HonestDiskPasses, Running
<1>2. CASE phase' = "fill"
  <2>1. /\ UNCHANGED <<continuous, unit, disk, honest>>
        /\ ValidDisk(Wrapped(unit.last_block + 1))
        /\ buffer_blocks' = BufferBlocks(Wrapped(unit.last_block + 1))
        /\ buffer' = [w \in WordsIn(buffer_blocks' * unit.block_size) |-> 0]
    BY <1>2 DEF Size, Goto
  <2>2. unit.block_size \in Ints /\ unit.last_block \in Ints
    BY DiskAssumption DEF DiskInv, TypeOK
  <2>3. /\ buffer_blocks' \in 1..MAX_BLOCKS
        /\ buffer_blocks' * unit.block_size \in 4..MAX_BUFFER_SIZE
        /\ buffer_blocks' <= unit.last_block + 1
    BY <2>1, <2>2, BufferFits DEF ValidDisk, BufferBlocks
  <2>4. TypeOK'
    <3>1. buffer' \in [Words' -> Contents]
      BY <2>1, ValueType DEF Words
    <3>2. buffer_blocks' \in 0..MAX_BLOCKS
      BY <2>3, WidthAssumption
    <3> QED
      BY <1>2, <2>1, <3>1, <3>2 DEF DiskInv, TypeOK, Phases
  <2>5. SizeInv'
    BY <2>1, <2>3 DEF SizeInv
  <2> QED
    BY <1>2, <2>4, <2>5 DEF DiskInv, ReadInv, HonestInv, PassedMeansStored, HonestDiskPasses
<1> QED
  BY <1>1, <1>2

LEMMA SuccessIsComplete ==
    ASSUME NEW outcome \in Outcomes, Succeeded(outcome)
    PROVE  outcome = Complete
  BY DEF Outcomes, Succeeded, Complete

LEMMA FillStep == DiskInv /\ Fill => DiskInv'
<1> SUFFICES ASSUME DiskInv, Fill PROVE DiskInv'
  OBVIOUS
<1>1. /\ phase = "fill"
      /\ UNCHANGED <<continuous, unit, buffer_blocks>>
      /\ phase' \in {"dump", "failed"}
      /\ buffer' = [w \in Words |-> Value(w)]
      /\ disk' \in [WordsIn(MAX_BUFFER_SIZE) -> Contents]
      /\ honest' \in BOOLEAN
      /\ phase' = "dump" /\ honest' => \A w \in Words : disk'[w] = buffer'[w]
  <2>1. PICK outcome \in Outcomes :
          /\ WriteToDisk(Filled, outcome)
          /\ IF Succeeded(outcome) THEN Goto("dump") ELSE Goto("failed")
    BY DEF Fill
  <2>2. honest' \in BOOLEAN
    BY <2>1 DEF WriteToDisk
  <2>3. phase' = "dump" => outcome = Complete
    BY <2>1, SuccessIsComplete DEF Goto
  <2>4. /\ UNCHANGED <<continuous, unit>> /\ phase' \in {"dump", "failed"}
        /\ disk' \in [WordsIn(MAX_BUFFER_SIZE) -> Contents]
    BY <2>1 DEF Goto, WriteToDisk
  <2>5. outcome = Complete /\ honest' => \A w \in Words : disk'[w] = Filled[w]
    BY <2>1 DEF WriteToDisk
  <2> QED
    BY <2>2, <2>3, <2>4, <2>5 DEF Fill, Filled
<1>2. Words' = Words /\ Words \subseteq WordsIn(MAX_BUFFER_SIZE)
  BY <1>1, SameWords, RunningWords DEF DiskInv, Running
<1>3. TypeOK'
  <2>1. buffer' \in [Words' -> Contents]
    BY <1>1, <1>2, ValueType
  <2> QED
    BY <1>1, <2>1 DEF DiskInv, TypeOK, Phases
<1>4. SizeInv'
  BY <1>1 DEF DiskInv, SizeInv, Running
<1>5. HonestInv'
  BY <1>1, <1>2 DEF HonestInv, Value
<1> QED
  BY <1>1, <1>3, <1>4, <1>5 DEF DiskInv, ReadInv, PassedMeansStored, HonestDiskPasses

LEMMA DumpStep == DiskInv /\ Dump => DiskInv'
<1> SUFFICES ASSUME DiskInv, Dump PROVE DiskInv'
  OBVIOUS
<1>1. /\ phase = "dump"
      /\ UNCHANGED <<continuous, unit, buffer_blocks, disk>>
      /\ phase' \in {"compare", "failed"}
      /\ honest' \in BOOLEAN
      /\ phase' = "compare" /\ honest' => honest /\ \A w \in Words : buffer'[w] = disk[w]
      /\ \E missed \in SUBSET Words :
            buffer' = [w \in Words |-> IF w \in missed THEN Cleared[w] ELSE disk[w]]
  <2>1. PICK outcome \in Outcomes :
          /\ ReadFromDisk(Cleared, outcome)
          /\ IF Succeeded(outcome) THEN Goto("compare") ELSE Goto("failed")
    BY DEF Dump
  <2>2. honest' \in BOOLEAN
    BY <2>1 DEF ReadFromDisk
  <2>3. phase' = "compare" => outcome = Complete
    BY <2>1, SuccessIsComplete DEF Goto
  <2>4. /\ UNCHANGED <<continuous, unit, disk>> /\ phase' \in {"compare", "failed"}
        /\ \E missed \in SUBSET Words :
              buffer' = [w \in Words |-> IF w \in missed THEN Cleared[w] ELSE disk[w]]
    BY <2>1 DEF Goto, ReadFromDisk
  <2>5. outcome = Complete /\ honest' => honest /\ \A w \in Words : buffer'[w] = disk[w]
    BY <2>1 DEF ReadFromDisk
  <2> QED
    BY <2>2, <2>3, <2>4, <2>5 DEF Dump
<1>2. PICK missed \in SUBSET Words :
        buffer' = [w \in Words |-> IF w \in missed THEN 0 ELSE disk[w]]
  <2>1. \A w \in Words : Cleared[w] = 0
    BY DEF Cleared
  <2> QED
    BY <1>1, <2>1
<1>3. Words' = Words /\ Words \subseteq WordsIn(MAX_BUFFER_SIZE)
  BY <1>1, SameWords, RunningWords DEF DiskInv, Running
<1>4. TypeOK'
  <2>1. disk \in [WordsIn(MAX_BUFFER_SIZE) -> Contents]
    BY DEF DiskInv, TypeOK
  <2>2. buffer' \in [Words' -> Contents]
    BY <1>2, <1>3, <2>1, ValueType
  <2> QED
    BY <1>1, <2>2 DEF DiskInv, TypeOK, Phases
<1>5. SizeInv'
  BY <1>1 DEF DiskInv, SizeInv, Running
<1>6. ReadInv'
  BY <1>1, <1>2, <1>3 DEF ReadInv
<1>7. HonestInv'
  <2>1. honest => \A w \in Words : disk[w] = Value(w)
    BY <1>1 DEF DiskInv, HonestInv
  <2>2. phase' = "compare" /\ honest' => honest /\ \A w \in Words : buffer'[w] = disk[w]
    BY <1>1
  <2>3. phase' = "compare" /\ honest' => \A w \in Words' : buffer'[w] = Value(w)'
    BY <1>3, <2>1, <2>2 DEF Value
  <2> QED
    BY <1>1, <2>3 DEF HonestInv
<1> QED
  BY <1>1, <1>4, <1>5, <1>6, <1>7 DEF DiskInv, PassedMeansStored, HonestDiskPasses

LEMMA CompareStep == DiskInv /\ Compare => DiskInv'
<1> SUFFICES ASSUME DiskInv, Compare PROVE DiskInv'
  OBVIOUS
<1>1. /\ phase = "compare"
      /\ UNCHANGED <<continuous, unit, buffer_blocks, buffer, disk, honest>>
      /\ \/ phase' = "passed" /\ \A w \in Words : buffer[w] = Value(w)
         \/ phase' = "mismatch" /\ ~\A w \in Words : buffer[w] = Value(w)
  BY DEF Compare, Goto, Matches
<1>2. Words' = Words /\ Words \subseteq WordsIn(MAX_BUFFER_SIZE)
  BY <1>1, SameWords, RunningWords DEF DiskInv, Running
<1>3. TypeOK'
  BY <1>1, <1>2 DEF DiskInv, TypeOK, Phases
<1>4. SizeInv'
  BY <1>1 DEF DiskInv, SizeInv, Running
<1>5. PassedMeansStored'
  <2> SUFFICES ASSUME phase' = "passed", NEW w \in Words'
               PROVE  disk'[w] = Value(w)'
    BY DEF PassedMeansStored
  <2>1. buffer[w] = Value(w) /\ Value(w) # 0
    BY <1>1, <1>2, ValueType
  <2>2. buffer[w] \in {0, disk[w]}
    BY <1>1, <1>2 DEF DiskInv, ReadInv
  <2> QED
    BY <1>1, <2>1, <2>2 DEF Value
<1>6. HonestDiskPasses'
  BY <1>1 DEF DiskInv, HonestInv, HonestDiskPasses
<1> QED
  BY <1>1, <1>3, <1>4, <1>5, <1>6 DEF DiskInv, ReadInv, HonestInv

LEMMA RepeatStep == DiskInv /\ Repeat => DiskInv'
<1> SUFFICES ASSUME DiskInv, Repeat PROVE DiskInv'
  OBVIOUS
<1>1. /\ phase = "passed"
      /\ UNCHANGED <<continuous, unit, buffer_blocks, buffer, disk, honest>>
      /\ phase' \in {"fill", "done"}
  BY DEF Repeat, Goto
<1>2. TypeOK'
  BY <1>1, SameWords DEF DiskInv, TypeOK, Phases
<1>3. SizeInv'
  BY <1>1 DEF DiskInv, SizeInv, Running
<1> QED
  BY <1>1, <1>2, <1>3 DEF DiskInv, ReadInv, HonestInv, PassedMeansStored, HonestDiskPasses

LEMMA DiskInvStep == DiskInv /\ [Next]_vars => DiskInv'
<1> SUFFICES ASSUME DiskInv, [Next]_vars PROVE DiskInv'
  OBVIOUS
<1>1. CASE Next
  BY <1>1, StartStep, SizeStep, FillStep, DumpStep, CompareStep, RepeatStep DEF Next
<1>2. CASE UNCHANGED vars
  <2>1. Words' = Words
    BY <1>2, SameWords DEF vars
  <2>2. TypeOK' /\ SizeInv'
    BY <1>2, <2>1 DEF vars, DiskInv, TypeOK, SizeInv
  <2>3. ReadInv' /\ HonestInv' /\ PassedMeansStored' /\ HonestDiskPasses'
    BY <1>2, <2>1 DEF vars, DiskInv, ReadInv, HonestInv, PassedMeansStored,
                      HonestDiskPasses, Value
  <2> QED
    BY <2>2, <2>3 DEF DiskInv
<1> QED
  BY <1>1, <1>2

LEMMA DiskInvariant == Spec => []DiskInv
<1> QED
  BY DiskInvInit, DiskInvStep, PTL DEF Spec

-----------------------------------------------------------------------------
\* The buffer holds only the pattern and zeros, and the number of blocks keeps
\* below its limit (main and fill_test, DISKTEST.C:142-202, 347-371).
THEOREM DiskTypeCorrect == Spec => []TypeOK
<1> QED
  BY DiskInvariant, PTL DEF DiskInv

\* Every transfer is of at least a block, stays on the disk and in the buffer,
\* and is what its CDB says, for every geometry a disk may report
\* (main, DISKTEST.C:344-371, and the CDBs, 57-58 and 107-108).
THEOREM TransfersAreExact == Spec => []TransferFits
<1>1. DiskInv => TransferFits
  <2> SUFFICES ASSUME DiskInv, phase \in {"fill", "dump"}
               PROVE  /\ buffer_blocks > 0
                      /\ CdbBlocks = buffer_blocks
                      /\ buffer_blocks <= (unit.last_block % INT_SIZE) + 1
                      /\ buffer_blocks * unit.block_size <= MAX_BUFFER_SIZE
    BY DEF TransferFits
  <2>1. /\ buffer_blocks \in 1..MAX_BLOCKS
        /\ buffer_blocks * unit.block_size \in 4..MAX_BUFFER_SIZE
        /\ buffer_blocks <= unit.last_block + 1
    BY DEF DiskInv, SizeInv, Running
  <2>2. CdbBlocks = buffer_blocks
    <3>1. buffer_blocks \in 0..(COUNT_SIZE * COUNT_SIZE - 1)
      BY <2>1, WidthAssumption
    <3> QED
      BY <3>1, TwoDigits, WidthAssumption DEF CdbBlocks
  <2>3. unit.last_block % INT_SIZE = unit.last_block
    <3>1. unit.last_block \in Ints
      BY DiskAssumption DEF DiskInv, TypeOK
    <3>2. unit.last_block \in Int /\ unit.last_block < INT_SIZE
      BY <3>1, HalfInt, WidthAssumption DEF Ints
    <3>3. INT_SIZE \in Nat \ {0} /\ unit.last_block \in 0..(INT_SIZE - 1)
      BY <2>1, <3>2, HalfInt, WidthAssumption
    <3> QED
      BY <3>3, RemainderSmall
  <2> QED
    BY <2>1, <2>2, <2>3, WidthAssumption
<1> QED
  BY <1>1, DiskInvariant, PTL

\* A run that passes has tested the disk: the pattern is on it, whatever its
\* writes lost and its reads left out (fill_test, DISKTEST.C:142-202).
THEOREM PassIsTrue == Spec => []PassedMeansStored
<1> QED
  BY DiskInvariant, PTL DEF DiskInv

\* A disk that does all that it says it has done is never said to differ
\* (fill, dump and fill_test, DISKTEST.C:72-89, 122-139, 164-201).
THEOREM GoodDisksPass == Spec => []HonestDiskPasses
<1> QED
  BY DiskInvariant, PTL DEF DiskInv
================================================================================
