------------------------------ MODULE FileTests ------------------------------
(***************************************************************************)
(* The three tests of the contents of a file in TFS/FULLTEST.C (the same   *)
(* text is in RTFS/FULLTEST.C): a file is overwritten at random places,    *)
(* read at random places, and written at random places, and what it holds  *)
(* is compared with a buffer that shadows it.  The file system may lose or *)
(* misplace what a write brings, silently or with an error, and any call   *)
(* may fail; what a read returns is what the file holds.                   *)
(*                                                                         *)
(* A step is a call, with the seek before it and the comparison after it.  *)
(***************************************************************************)
EXTENDS Integers

CONSTANTS
    SIZE, BLOCK,        \* of the file and of a window: 100 * 1024 and 1000
    BACK,               \* how far before a write it is checked: 100
    INT_BYTES, BYTE,    \* bytes of an integer, values of a byte: 4 and 256
    OVERWRITES,         \* rounds of the tests: 1000, 100, 1000 and 1000
    READS,
    REREADS,
    WRITES

\* random(SIZE - BLOCK) takes a remainder; the pattern fills whole integers, of
\* which two bytes vary.
ASSUME SizesAssumption ==
    /\ SIZE \in Nat /\ BLOCK \in Nat \ {0} /\ BLOCK < SIZE
    /\ BACK \in Nat
    /\ INT_BYTES \in Nat \ {0} /\ BYTE \in Nat \ {0, 1}
    /\ {OVERWRITES, READS, REREADS, WRITES} \subseteq Nat \ {0}

Offsets == 0..(SIZE - 1)
Bytes == 0..(BYTE - 1)
Contents == [Offsets -> Bytes]

\* Mutant: a window may begin at any byte.
PlacesAll == 0..(SIZE - 1)
\* random never starts a window at the last place that has room for one.
Places == 0..(SIZE - BLOCK - 1)
Window(p) == p..(p + BLOCK - 1)

VARIABLES
    test, at,       \* the test that runs and its next step
    count,          \* of its rounds
    pos,            \* where the round, or the search for gaps, is
    opened,         \* does fd stand for an open file?
    buf_orig,       \* what the file should hold
    buf_cmp,        \* the marks of the places written, then what was read
    alarm,          \* has an error been reported?
    \* The file system.
    stored, size,   \* what the file holds; zeros where nothing was written
    faithful        \* has every call done what was asked?

program == <<test, at, count, pos, opened, buf_orig, buf_cmp, alarm>>
file == <<stored, size>>
vars == <<test, at, count, pos, opened, buf_orig, buf_cmp, alarm, stored, size, faithful>>

\* The tests, and what comes of them; the steps of each.
Steps ==
    [overwrite |-> {"open", "fill", "write", "check", "compare", "close"},
     seq |-> {"open", "fill", "check", "reopen", "recheck", "close"},
     rand |-> {"open", "write", "gaps", "reopen", "compare", "close"},
     done |-> {"open"},
     aborted |-> {"open"}]

TypeOK ==
    /\ test \in DOMAIN Steps /\ at \in Steps[test]
    /\ count \in Nat
    /\ pos \in 0..SIZE
    /\ opened \in BOOLEAN
    /\ buf_orig \in Contents
    /\ buf_cmp \in Contents
    /\ alarm \in BOOLEAN
    /\ stored \in Contents
    /\ size \in 0..SIZE
    /\ faithful \in BOOLEAN

Zeros == [i \in Offsets |-> 0]

Init ==
    /\ test = "overwrite" /\ at = "open"
    /\ count = 0 /\ pos = 0
    /\ opened = FALSE
    /\ buf_orig = Zeros /\ buf_cmp = Zeros
    /\ alarm = FALSE
    /\ stored = Zeros /\ size = 0
    /\ faithful = TRUE

-----------------------------------------------------------------------------
\* The file system.  A place that lies in a gap holds zero (LSEEK(3)).
Written(p, n, data) == [i \in Offsets |-> IF i \in p..(p + n - 1) THEN data[i] ELSE stored[i]]

Store(p, n, data) ==
    /\ stored' = Written(p, n, data)
    /\ size' = IF p + n > size THEN p + n ELSE size
    /\ UNCHANGED faithful

Damage == stored' \in Contents /\ size' \in 0..SIZE /\ faithful' = FALSE

\* A write that returns what it was asked to write.
Write(p, n, data) == opened /\ (Store(p, n, data) \/ Damage)

Fails == faithful' = FALSE /\ UNCHANGED file

\* Mutant: a window is taken for right without looking at its last byte.
HoldsAllButLast(p, n) == p + n <= size /\ \A i \in p..(p + n - 2) : stored[i] = buf_orig[i]
\* A read of n bytes returns them all, and they are the right ones.
Holds(p, n) == p + n <= size /\ \A i \in p..(p + n - 1) : stored[i] = buf_orig[i]

-----------------------------------------------------------------------------
\* What the program does next.
Goto(step) == at' = step /\ UNCHANGED <<test, opened, alarm>>

NextTest == [overwrite |-> "seq", seq |-> "rand", rand |-> "done"]
Leave == test' = NextTest[test] /\ at' = "open"

\* serious_error and return, which leaves the file open; assert.
Return == alarm' = TRUE /\ Leave /\ UNCHANGED opened
Abort == alarm' = TRUE /\ test' = "aborted" /\ at' = "open" /\ UNCHANGED opened

\* Mutant: the rounds are not counted.
RoundNot(rounds, again, then) == UNCHANGED count /\ at' = again
\* A loop of so many rounds.
Round(rounds, again, then) ==
    IF count + 1 < rounds
    THEN count' = count + 1 /\ at' = again
    ELSE count' = 0 /\ at' = then

\* tfs_open, with TRUNC or only to read; otherwise says what follows a failure.
Truncate(otherwise) ==
    \/ /\ opened' = TRUE
       /\ stored' = Zeros /\ size' = 0
       /\ at' = (IF test = "rand" THEN "write" ELSE "fill")
       /\ UNCHANGED <<test, alarm, faithful>>
    \/ Fails /\ otherwise

\* The integers 0, 1, 2 ... with the low byte first.
Pattern ==
    [i \in Offsets |->
        LET word == i \div INT_BYTES
        IN  CASE i % INT_BYTES = 0 -> word % BYTE
              [] i % INT_BYTES = 1 -> (word \div BYTE) % BYTE
              [] OTHER -> 0]

\* The mark of a byte that has been written.
Mark == 1

Open ==
    /\ at = "open"
    /\ \/ /\ test = "overwrite"
          /\ Truncate(Abort)
          /\ buf_orig' = Zeros
          /\ UNCHANGED buf_cmp
       \/ /\ test = "seq"
          /\ Truncate(Return)
          /\ buf_orig' = Pattern
          /\ UNCHANGED buf_cmp
       \/ /\ test = "rand"
          /\ Truncate(Return)
          /\ buf_orig' \in Contents
          /\ buf_cmp' = Zeros
    /\ count' = 0
    /\ UNCHANGED pos

\* The whole file is written at once.
Fill ==
    /\ at = "fill"
    /\ \/ Write(0, SIZE, buf_orig) /\ Goto(IF test = "seq" THEN "check" ELSE "write")
       \/ test = "seq" /\ (Fails \/ Damage) /\ Return
       \/ test = "overwrite" /\ (Fails \/ Damage) /\ Abort
    /\ UNCHANGED <<count, pos, buf_orig, buf_cmp>>

-----------------------------------------------------------------------------
\* Mutant: the shadow is not kept.
ShadowNot(p) == buf_orig
\* buf_orig with the number of the round in a window.
Shadow(p) == [i \in Offsets |-> IF i \in Window(p) THEN count % BYTE ELSE buf_orig[i]]

\* overwrite_tst.  Only a failed seek is no reason to give up.
Overwrite ==
    /\ test = "overwrite" /\ at = "write"
    /\ \E p \in Places :
          /\ pos' = p
          /\ buf_orig' = Shadow(p)
          /\ \/ Write(p, BLOCK, [i \in Window(p) |-> count % BYTE]) /\ Goto("check")
             \/ Fails /\ Return
             \/ Damage /\ Abort
    /\ UNCHANGED <<count, buf_cmp>>

\* The window that is read begins a little before the one written.
CheckBack ==
    /\ test = "overwrite" /\ at = "check"
    /\ LET back == IF pos < BACK THEN 0 ELSE pos - BACK
       IN  \/ /\ Holds(back, BLOCK)
             /\ Round(OVERWRITES, "write", "compare")
             /\ UNCHANGED <<test, opened, alarm, faithful>>
           \/ ~Holds(back, BLOCK) /\ Abort /\ UNCHANGED <<count, faithful>>
           \/ Fails /\ Abort /\ UNCHANGED count
    /\ UNCHANGED <<pos, buf_orig, buf_cmp, stored, size>>

CompareWhole ==
    /\ test = "overwrite" /\ at = "compare"
    /\ \/ Holds(0, SIZE) /\ Goto("close") /\ UNCHANGED faithful
       \/ ~Holds(0, SIZE) /\ Abort /\ UNCHANGED faithful
       \/ Fails /\ Abort
    /\ UNCHANGED <<count, pos, buf_orig, buf_cmp, stored, size>>

-----------------------------------------------------------------------------
\* tst_seq_write_rand_read.  Before the file is closed a wrong byte is reported
\* and the loop goes on, and a call that fails ends the test.
ReadAnywhere ==
    /\ test = "seq" /\ at = "check"
    /\ \E p \in Places :
          \/ /\ p + BLOCK <= size
             /\ Round(READS, "check", "reopen")
             /\ alarm' = (alarm \/ ~Holds(p, BLOCK))
             /\ UNCHANGED <<test, opened, faithful>>
          \/ p + BLOCK > size /\ Return /\ UNCHANGED <<count, faithful>>
          \/ Fails /\ Return /\ UNCHANGED count
    /\ UNCHANGED <<pos, buf_orig, buf_cmp, stored, size>>

\* The file is opened again to be read.  Nobody looks whether it could be, nor
\* in rand_write whether it could be closed.
Reopen ==
    /\ at = "reopen"
    /\ at' = (IF test = "seq" THEN "recheck" ELSE "compare")
    /\ \/ opened' = TRUE /\ UNCHANGED <<alarm, faithful>>
       \/ /\ faithful' = FALSE
          /\ opened' \in BOOLEAN
          /\ alarm' \in (IF test = "seq" THEN {alarm, TRUE} ELSE {alarm})
    /\ UNCHANGED <<test, count, pos, buf_orig, buf_cmp, stored, size>>

\* After that every error is one too many.
ReadAgain ==
    /\ test = "seq" /\ at = "recheck"
    /\ \E p \in Places :
          \/ /\ opened /\ Holds(p, BLOCK)
             /\ Round(REREADS, "recheck", "close")
             /\ UNCHANGED <<test, opened, alarm, faithful>>
          \/ ~(opened /\ Holds(p, BLOCK)) /\ Abort /\ UNCHANGED <<count, faithful>>
          \/ Fails /\ Abort /\ UNCHANGED count
    /\ UNCHANGED <<pos, buf_orig, buf_cmp, stored, size>>

-----------------------------------------------------------------------------
\* tst_rand_write_seq_read, whose writes nobody looks at.
WriteAnywhere ==
    /\ test = "rand" /\ at = "write"
    /\ \E p \in Places :
          /\ Write(p, BLOCK, buf_orig)
          /\ buf_cmp' = [i \in Offsets |-> IF i \in Window(p) THEN Mark ELSE buf_cmp[i]]
    /\ Round(WRITES, "write", "gaps")
    /\ pos' = 0
    /\ UNCHANGED <<test, opened, alarm, buf_orig>>

\* There is a gap of n bytes from p on.
Gap(p, n) ==
    /\ \A i \in p..(p + n - 1) : buf_cmp[i] = 0
    /\ p + n < SIZE => buf_cmp[p + n] # 0

\* The rest of a gap is written from each of its places again: writing it marks
\* nothing.
FillGap ==
    /\ test = "rand" /\ at = "gaps" /\ pos < SIZE
    /\ \/ buf_cmp[pos] # 0 /\ UNCHANGED <<stored, size, faithful>>
       \/ \E n \in 1..(SIZE - pos) : Gap(pos, n) /\ Write(pos, n, buf_orig)
    /\ pos' = pos + 1
    /\ at' = (IF pos + 1 = SIZE THEN "reopen" ELSE "gaps")
    /\ UNCHANGED <<test, count, opened, alarm, buf_orig, buf_cmp>>

\* A read that returns less than the file leaves the rest of the marks to be
\* compared.
CompareRead ==
    /\ test = "rand" /\ at = "compare"
    /\ \E n \in 0..SIZE :
          /\ \/ opened /\ n = size /\ UNCHANGED <<stored, size, faithful>>
             \/ n <= size /\ (opened \/ n = 0) /\ Fails
          /\ buf_cmp' = [i \in Offsets |-> IF i < n THEN stored[i] ELSE buf_cmp[i]]
          /\ \/ /\ buf_cmp' = buf_orig
                /\ at' = "close"
                /\ alarm' = (alarm \/ n # SIZE)
                /\ UNCHANGED <<test, opened>>
             \/ buf_cmp' # buf_orig /\ Abort
    /\ UNCHANGED <<count, pos, buf_orig>>

\* Only the second test looks at what this returns.
Close ==
    /\ at = "close"
    /\ \/ Leave /\ opened' = FALSE /\ UNCHANGED <<alarm, faithful>>
       \/ test = "seq" /\ faithful' = FALSE /\ Abort
       \/ test # "seq" /\ faithful' = FALSE /\ Leave /\ UNCHANGED <<opened, alarm>>
    /\ UNCHANGED <<count, pos, buf_orig, buf_cmp, stored, size>>

Next ==
    \/ Open
    \/ Fill
    \/ Overwrite
    \/ CheckBack
    \/ CompareWhole
    \/ ReadAnywhere
    \/ Reopen
    \/ ReadAgain
    \/ WriteAnywhere
    \/ FillGap
    \/ CompareRead
    \/ Close

Spec == Init /\ [][Next]_vars

\* One program, whose calls return.
FairSpec == Spec /\ WF_vars(Next)

-----------------------------------------------------------------------------
\* A file system that does what it is asked is not accused by any of the tests,
\* whatever numbers random draws: the shadow, the clipped window and the search
\* for the gaps agree with what the calls have written (FULLTEST.C:249-541).
FaithfulPasses == faithful => ~alarm

\* When the first or the last test has found nothing the file holds every byte
\* that it should, whatever the writes did and said (FULLTEST.C:416-437, 529-538).
PassMeansStored ==
    at = "close" /\ test \in {"overwrite", "rand"} /\ ~alarm => size = SIZE /\ stored = buf_orig

\* The tests come to an end, at main's next line or at an assertion
\* (FULLTEST.C:902-904).
Ends == <>(test \in {"done", "aborted"})
=============================================================================
