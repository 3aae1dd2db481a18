--------------------------- MODULE FileTestsProofs ---------------------------
(***************************************************************************)
(* What the runs of MCFileTests check for a file of four bytes, proved for *)
(* every size of the file, the windows and the integers and any number of  *)
(* rounds: TypeOK, PassMeansStored and FaithfulPasses.                     *)
(***************************************************************************)
EXTENDS FileTests, TLAPS

-----------------------------------------------------------------------------
(* Lemmas.                                                                 *)

\* What a remainder and a quotient are.
LEMMA Remainder ==
    ASSUME NEW a \in Nat, NEW b \in Nat \ {0}
    PROVE  a % b \in 0..(b - 1) /\ a \div b \in Nat
  OBVIOUS

\* The contents that the program makes are contents.
LEMMA PatternType == Pattern \in Contents
<1> SUFFICES ASSUME NEW i \in Offsets
             PROVE  Pattern[i] \in Bytes /\ DOMAIN Pattern = Offsets
    BY DEF Pattern, Contents
<1>1. i \in Nat /\ INT_BYTES \in Nat \ {0} /\ BYTE \in Nat \ {0, 1}
    BY SizesAssumption DEF Offsets
<1>2. i \div INT_BYTES \in Nat
    BY <1>1, Remainder
<1>3. (i \div INT_BYTES) \div BYTE \in Nat
    BY <1>1, <1>2, Remainder
<1>4. (i \div INT_BYTES) % BYTE \in Bytes /\ ((i \div INT_BYTES) \div BYTE) % BYTE \in Bytes
    BY <1>1, <1>2, <1>3, Remainder DEF Bytes
<1>5. 0 \in Bytes
    BY <1>1 DEF Bytes
<1> DEFINE word == i \div INT_BYTES
<1>6. Pattern[i] = CASE i % INT_BYTES = 0 -> word % BYTE
                     [] i % INT_BYTES = 1 -> (word \div BYTE) % BYTE
                     [] OTHER -> 0
    BY DEF Pattern
<1>7. Pattern[i] \in {word % BYTE, (word \div BYTE) % BYTE, 0}
    <2> HIDE DEF word
    <2> QED BY <1>6
<1> QED BY <1>4, <1>5, <1>7 DEF Pattern

LEMMA ZerosType == Zeros \in Contents
    BY SizesAssumption DEF Zeros, Contents, Bytes

\* A window lies in the file.
LEMMA WindowInside ==
    ASSUME NEW p \in Places
    PROVE  p \in Nat /\ p + BLOCK \in Nat /\ p + BLOCK < SIZE /\ Window(p) \subseteq Offsets
    BY SizesAssumption DEF Places, Window, Offsets

LEMMA ShadowType ==
    ASSUME TypeOK, NEW p \in Places
    PROVE  Shadow(p) \in Contents
<1>1. count % BYTE \in Bytes
    BY SizesAssumption, Remainder DEF TypeOK, Bytes
<1> QED BY <1>1 DEF Shadow, Contents, TypeOK

\* What a write leaves, and how it looks afterwards.
LEMMA WrittenType ==
    ASSUME TypeOK, NEW p \in Nat, NEW n \in Nat, p + n <= SIZE, NEW data,
           \A i \in p..(p + n - 1) : data[i] \in Bytes
    PROVE  Written(p, n, data) \in Contents
    BY DEF Written, Contents, TypeOK

LEMMA WriteType ==
    ASSUME TypeOK, NEW p \in Nat, NEW n \in Nat, p + n <= SIZE, NEW data,
           \A i \in p..(p + n - 1) : data[i] \in Bytes,
           Write(p, n, data)
    PROVE  stored' \in Contents /\ size' \in 0..SIZE /\ faithful' \in BOOLEAN
<1>1. CASE Store(p, n, data)
    <2>1. stored' \in Contents
        BY <1>1, WrittenType DEF Store
    <2>2. size' \in 0..SIZE
        BY <1>1, SizesAssumption DEF Store, TypeOK
    <2>3. faithful' \in BOOLEAN
        BY <1>1 DEF Store, TypeOK
    <2> QED BY <2>1, <2>2, <2>3
<1>2. CASE Damage
    BY <1>2 DEF Damage
<1> QED BY <1>1, <1>2 DEF Write

\* The next step of a loop is one of the two it is given.
LEMMA RoundType ==
    ASSUME TypeOK, NEW rounds \in Nat, NEW again, NEW then, Round(rounds, again, then)
    PROVE  count' \in Nat /\ at' \in {again, then}
    BY DEF Round, TypeOK

-----------------------------------------------------------------------------
(* Types.                                                                  *)

\* What Goto, Return and Abort leave is a test at one of its steps.
LEMMA LeaveType ==
    ASSUME TypeOK, Return \/ Abort \/ (Leave /\ UNCHANGED alarm), test \in DOMAIN NextTest
    PROVE  /\ test' \in DOMAIN Steps /\ at' \in Steps[test']
           /\ alarm' \in BOOLEAN
<1>1. test' \in {"seq", "rand", "done", "aborted"} /\ at' = "open"
    BY DEF Return, Abort, Leave, NextTest
<1>2. test' \in DOMAIN Steps /\ at' \in Steps[test']
    BY <1>1 DEF Steps
<1>3. alarm' \in BOOLEAN
    BY DEF Return, Abort, TypeOK
<1> QED BY <1>2, <1>3

LEMMA TypeOpen == ASSUME TypeOK, Open PROVE TypeOK'
<1>1. test \in {"overwrite", "seq", "rand"} /\ test \in DOMAIN NextTest
    BY DEF Open, NextTest
<1>2. buf_orig' \in Contents /\ buf_cmp' \in Contents
    BY PatternType, ZerosType DEF Open, TypeOK
<1>3. count' \in Nat /\ pos' \in 0..SIZE
    BY DEF Open, TypeOK
<1>4. Truncate(Return) \/ Truncate(Abort)
    BY DEF Open
<1>5. CASE /\ opened' = TRUE /\ stored' = Zeros /\ size' = 0
           /\ at' = (IF test = "rand" THEN "write" ELSE "fill")
           /\ UNCHANGED <<test, alarm, faithful>>
    <2>1. test' \in DOMAIN Steps /\ at' \in Steps[test']
        BY <1>1, <1>5 DEF Steps
    <2>2. opened' \in BOOLEAN /\ stored' \in Contents /\ size' \in 0..SIZE
        BY <1>5, ZerosType, SizesAssumption
    <2>3. alarm' \in BOOLEAN /\ faithful' \in BOOLEAN
        BY <1>5 DEF TypeOK
    <2> QED BY <1>2, <1>3, <2>1, <2>2, <2>3 DEF TypeOK
<1>6. CASE Fails /\ (Return \/ Abort)
    <2>1. test' \in DOMAIN Steps /\ at' \in Steps[test'] /\ alarm' \in BOOLEAN
        BY <1>1, <1>6, LeaveType
    <2>2. opened' \in BOOLEAN
        BY <1>6 DEF Return, Abort, TypeOK
    <2>3. stored' \in Contents /\ size' \in 0..SIZE /\ faithful' \in BOOLEAN
        BY <1>6 DEF Fails, file, TypeOK
    <2> QED BY <1>2, <1>3, <2>1, <2>2, <2>3 DEF TypeOK
<1> QED BY <1>4, <1>5, <1>6 DEF Truncate

LEMMA TypeFill == ASSUME TypeOK, Fill PROVE TypeOK'
<1>1. test \in {"overwrite", "seq"} /\ test \in DOMAIN NextTest
    BY DEF Fill, TypeOK, Steps, NextTest
<1>2. count' \in Nat /\ pos' \in 0..SIZE /\ buf_orig' \in Contents /\ buf_cmp' \in Contents
    BY DEF Fill, TypeOK
<1>3. CASE Write(0, SIZE, buf_orig) /\ Goto(IF test = "seq" THEN "check" ELSE "write")
    <2>1. stored' \in Contents /\ size' \in 0..SIZE /\ faithful' \in BOOLEAN
        <3>1. \A i \in 0..(0 + SIZE - 1) : buf_orig[i] \in Bytes
            BY SizesAssumption DEF TypeOK, Contents, Offsets
        <3> QED BY <1>3, <3>1, WriteType, SizesAssumption
    <2>2. test' \in DOMAIN Steps /\ at' \in Steps[test']
        BY <1>1, <1>3 DEF Goto, Steps
    <2>3. opened' \in BOOLEAN /\ alarm' \in BOOLEAN
        BY <1>3 DEF Goto, TypeOK
    <2> QED BY <1>2, <2>1, <2>2, <2>3 DEF TypeOK
<1>4. CASE (Fails \/ Damage) /\ (Return \/ Abort)
    <2>1. test' \in DOMAIN Steps /\ at' \in Steps[test'] /\ alarm' \in BOOLEAN
        BY <1>1, <1>4, LeaveType
    <2>2. opened' \in BOOLEAN
        BY <1>4 DEF Return, Abort, TypeOK
    <2>3. stored' \in Contents /\ size' \in 0..SIZE /\ faithful' \in BOOLEAN
        BY <1>4 DEF Fails, Damage, file, TypeOK
    <2> QED BY <1>2, <2>1, <2>2, <2>3 DEF TypeOK
<1> QED BY <1>3, <1>4 DEF Fill

LEMMA TypeOverwrite == ASSUME TypeOK, Overwrite PROVE TypeOK'
<1>1. test = "overwrite" /\ test \in DOMAIN NextTest
    BY DEF Overwrite, NextTest
<1>2. PICK p \in Places :
          /\ pos' = p
          /\ buf_orig' = Shadow(p)
          /\ \/ Write(p, BLOCK, [i \in Window(p) |-> count % BYTE]) /\ Goto("check")
             \/ Fails /\ Return
             \/ Damage /\ Abort
    BY DEF Overwrite
<1>3. count' \in Nat /\ pos' \in 0..SIZE /\ buf_orig' \in Contents /\ buf_cmp' \in Contents
    <2>1. pos' \in 0..SIZE
        BY <1>2, WindowInside, SizesAssumption DEF Places
    <2> QED BY <1>2, <2>1, ShadowType DEF Overwrite, TypeOK
<1>4. CASE Write(p, BLOCK, [i \in Window(p) |-> count % BYTE]) /\ Goto("check")
    <2>1. stored' \in Contents /\ size' \in 0..SIZE /\ faithful' \in BOOLEAN
        <3>1. count % BYTE \in Bytes
            BY SizesAssumption, Remainder DEF TypeOK, Bytes
        <3>2. \A i \in p..(p + BLOCK - 1) : [k \in Window(p) |-> count % BYTE][i] \in Bytes
            BY <3>1 DEF Window
        <3>3. p \in Nat /\ BLOCK \in Nat /\ p + BLOCK <= SIZE
            BY WindowInside, SizesAssumption
        <3> QED BY <1>4, <3>2, <3>3, WriteType
    <2>2. test' \in DOMAIN Steps /\ at' \in Steps[test']
        BY <1>1, <1>4 DEF Goto, Steps
    <2>3. opened' \in BOOLEAN /\ alarm' \in BOOLEAN
        BY <1>4 DEF Goto, TypeOK
    <2> QED BY <1>3, <2>1, <2>2, <2>3 DEF TypeOK
<1>5. CASE (Fails \/ Damage) /\ (Return \/ Abort)
    <2>1. test' \in DOMAIN Steps /\ at' \in Steps[test'] /\ alarm' \in BOOLEAN
        BY <1>1, <1>5, LeaveType
    <2>2. opened' \in BOOLEAN
        BY <1>5 DEF Return, Abort, TypeOK
    <2>3. stored' \in Contents /\ size' \in 0..SIZE /\ faithful' \in BOOLEAN
        BY <1>5 DEF Fails, Damage, file, TypeOK
    <2> QED BY <1>3, <2>1, <2>2, <2>3 DEF TypeOK
<1> QED BY <1>2, <1>4, <1>5

\* A step that writes nothing, with what follows of it: a round, or an error.
LEMMA TypeReads ==
    ASSUME TypeOK, CheckBack \/ CompareWhole \/ ReadAnywhere \/ ReadAgain
    PROVE  TypeOK'
<1>1. /\ test \in {"overwrite", "seq"} /\ test \in DOMAIN NextTest
      /\ CheckBack \/ CompareWhole => test = "overwrite"
      /\ ReadAnywhere \/ ReadAgain => test = "seq"
    BY DEF CheckBack, CompareWhole, ReadAnywhere, ReadAgain, NextTest
<1>2. /\ pos' \in 0..SIZE /\ buf_orig' \in Contents /\ buf_cmp' \in Contents
      /\ stored' \in Contents /\ size' \in 0..SIZE
    BY DEF CheckBack, CompareWhole, ReadAnywhere, ReadAgain, TypeOK
<1>3. faithful' \in BOOLEAN
    BY DEF CheckBack, CompareWhole, ReadAnywhere, ReadAgain, Fails, TypeOK
<1>4. opened' \in BOOLEAN
    BY DEF CheckBack, CompareWhole, ReadAnywhere, ReadAgain, Goto, Return, Abort, TypeOK
<1>5. CASE (Return \/ Abort) /\ UNCHANGED count
    <2>1. test' \in DOMAIN Steps /\ at' \in Steps[test'] /\ alarm' \in BOOLEAN
        BY <1>1, <1>5, LeaveType
    <2>2. count' \in Nat
        BY <1>5 DEF TypeOK
    <2> QED BY <1>2, <1>3, <1>4, <2>1, <2>2 DEF TypeOK
<1>6. CASE /\ test = "overwrite" /\ Round(OVERWRITES, "write", "compare")
           /\ UNCHANGED <<test, opened, alarm, faithful>>
    <2>1. count' \in Nat /\ at' \in {"write", "compare"}
        BY <1>6, RoundType, SizesAssumption
    <2>2. test' \in DOMAIN Steps /\ at' \in Steps[test']
        BY <1>6, <2>1 DEF Steps
    <2>3. alarm' \in BOOLEAN
        BY <1>6 DEF TypeOK
    <2> QED BY <1>2, <1>3, <1>4, <2>1, <2>2, <2>3 DEF TypeOK
<1>7. CASE test = "overwrite" /\ Goto("close") /\ UNCHANGED count
    <2>1. count' \in Nat /\ alarm' \in BOOLEAN
        BY <1>7 DEF Goto, TypeOK
    <2>2. test' \in DOMAIN Steps /\ at' \in Steps[test']
        BY <1>7 DEF Goto, Steps
    <2> QED BY <1>2, <1>3, <1>4, <2>1, <2>2 DEF TypeOK
<1>8. CASE /\ test = "seq" /\ UNCHANGED test /\ alarm' \in BOOLEAN
           /\ Round(READS, "check", "reopen") \/ Round(REREADS, "recheck", "close")
    <2>1. count' \in Nat /\ at' \in {"check", "reopen", "recheck", "close"}
        BY <1>8, RoundType, SizesAssumption
    <2>2. test' \in DOMAIN Steps /\ at' \in Steps[test']
        BY <1>8, <2>1 DEF Steps
    <2> QED BY <1>2, <1>3, <1>4, <1>8, <2>1, <2>2 DEF TypeOK
<1>9. CASE CheckBack
    BY <1>1, <1>5, <1>6, <1>9 DEF CheckBack
<1>10. CASE CompareWhole
    BY <1>1, <1>5, <1>7, <1>10 DEF CompareWhole
<1>11. CASE ReadAnywhere
    <2>1. PICK p \in Places :
              \/ /\ p + BLOCK <= size
                 /\ Round(READS, "check", "reopen")
                 /\ alarm' = (alarm \/ ~Holds(p, BLOCK))
                 /\ UNCHANGED <<test, opened, faithful>>
              \/ p + BLOCK > size /\ Return /\ UNCHANGED <<count, faithful>>
              \/ Fails /\ Return /\ UNCHANGED count
        BY <1>11 DEF ReadAnywhere
    <2>2. CASE /\ Round(READS, "check", "reopen")
               /\ alarm' = (alarm \/ ~Holds(p, BLOCK))
               /\ UNCHANGED <<test, opened, faithful>>
        <3>1. alarm' \in BOOLEAN
            BY <2>2
        <3> QED BY <1>1, <1>8, <1>11, <2>2, <3>1
    <2> QED BY <1>5, <2>1, <2>2
<1>12. CASE ReadAgain
    <2>1. alarm \in BOOLEAN
        BY DEF TypeOK
    <2> QED BY <1>1, <1>5, <1>8, <1>12, <2>1 DEF ReadAgain
<1> QED BY <1>9, <1>10, <1>11, <1>12

LEMMA TypeReopen == ASSUME TypeOK, Reopen PROVE TypeOK'
<1>1. test \in {"seq", "rand"}
    BY DEF Reopen, TypeOK, Steps
<1>2. test' \in DOMAIN Steps /\ at' \in Steps[test']
    BY <1>1 DEF Reopen, Steps
<1>3. opened' \in BOOLEAN /\ alarm' \in BOOLEAN /\ faithful' \in BOOLEAN
    BY DEF Reopen, TypeOK
<1> QED BY <1>2, <1>3 DEF Reopen, TypeOK

LEMMA TypeWriteAnywhere == ASSUME TypeOK, WriteAnywhere PROVE TypeOK'
<1>1. PICK p \in Places :
          /\ Write(p, BLOCK, buf_orig)
          /\ buf_cmp' = [i \in Offsets |-> IF i \in Window(p) THEN Mark ELSE buf_cmp[i]]
    BY DEF WriteAnywhere
<1>2. stored' \in Contents /\ size' \in 0..SIZE /\ faithful' \in BOOLEAN
    <2>1. \A i \in p..(p + BLOCK - 1) : buf_orig[i] \in Bytes
        BY WindowInside DEF Window, TypeOK, Contents
    <2>2. p \in Nat /\ BLOCK \in Nat /\ p + BLOCK <= SIZE
        BY WindowInside, SizesAssumption
    <2> QED BY <1>1, <2>1, <2>2, WriteType
<1>3. buf_cmp' \in Contents
    <2>1. Mark \in Bytes
        BY SizesAssumption DEF Mark, Bytes
    <2> QED BY <1>1, <2>1 DEF TypeOK, Contents
<1>4. count' \in Nat /\ at' \in {"write", "gaps"}
    BY RoundType, SizesAssumption DEF WriteAnywhere
<1>5. test' \in DOMAIN Steps /\ at' \in Steps[test']
    BY <1>4 DEF WriteAnywhere, Steps
<1>6. pos' \in 0..SIZE
    BY SizesAssumption DEF WriteAnywhere
<1> QED BY <1>2, <1>3, <1>4, <1>5, <1>6 DEF WriteAnywhere, TypeOK

LEMMA TypeFillGap == ASSUME TypeOK, FillGap PROVE TypeOK'
<1>1. pos \in Nat /\ pos < SIZE /\ pos' \in 0..SIZE
    BY SizesAssumption DEF FillGap, TypeOK
<1>2. stored' \in Contents /\ size' \in 0..SIZE /\ faithful' \in BOOLEAN
    <2>1. CASE UNCHANGED <<stored, size, faithful>>
        BY <2>1 DEF TypeOK
    <2>2. ASSUME NEW n \in 1..(SIZE - pos), Write(pos, n, buf_orig)
          PROVE  stored' \in Contents /\ size' \in 0..SIZE /\ faithful' \in BOOLEAN
        <3>1. n \in Nat /\ pos + n <= SIZE
            BY <1>1, SizesAssumption
        <3>2. \A i \in pos..(pos + n - 1) : buf_orig[i] \in Bytes
            BY <1>1, <3>1, SizesAssumption DEF TypeOK, Contents, Offsets
        <3> QED BY <1>1, <2>2, <3>1, <3>2, WriteType
    <2> QED BY <2>1, <2>2 DEF FillGap
<1>3. test' \in DOMAIN Steps /\ at' \in Steps[test']
    BY DEF FillGap, Steps
<1> QED BY <1>1, <1>2, <1>3 DEF FillGap, TypeOK

LEMMA TypeCompareRead == ASSUME TypeOK, CompareRead PROVE TypeOK'
<1>1. test = "rand" /\ test \in DOMAIN NextTest
    BY DEF CompareRead, NextTest
<1>2. PICK n \in 0..SIZE :
          /\ \/ opened /\ n = size /\ UNCHANGED <<stored, size, faithful>>
             \/ n <= size /\ (opened \/ n = 0) /\ Fails
          /\ buf_cmp' = [i \in Offsets |-> IF i < n THEN stored[i] ELSE buf_cmp[i]]
          /\ \/ /\ buf_cmp' = buf_orig
                /\ at' = "close"
                /\ alarm' = (alarm \/ n # SIZE)
                /\ UNCHANGED <<test, opened>>
             \/ buf_cmp' # buf_orig /\ Abort
    BY DEF CompareRead
<1>3. stored' \in Contents /\ size' \in 0..SIZE /\ faithful' \in BOOLEAN
    BY <1>2 DEF Fails, file, TypeOK
<1>4. buf_cmp' \in Contents
    BY <1>2 DEF TypeOK, Contents
<1>5. test' \in DOMAIN Steps /\ at' \in Steps[test'] /\ alarm' \in BOOLEAN
    <2>1. CASE at' = "close" /\ alarm' = (alarm \/ n # SIZE) /\ UNCHANGED test
        <3>1. test' \in DOMAIN Steps /\ at' \in Steps[test']
            BY <1>1, <2>1 DEF Steps
        <3>2. alarm' \in BOOLEAN
            BY <2>1
        <3> QED BY <3>1, <3>2
    <2>2. CASE Abort
        BY <1>1, <2>2, LeaveType
    <2> QED BY <1>2, <2>1, <2>2
<1>6. opened' \in BOOLEAN
    BY <1>2 DEF Abort, TypeOK
<1> QED BY <1>3, <1>4, <1>5, <1>6 DEF CompareRead, TypeOK

LEMMA TypeClose == ASSUME TypeOK, Close PROVE TypeOK'
<1>1. test \in DOMAIN NextTest
    BY DEF Close, TypeOK, Steps, NextTest
<1>2. test' \in DOMAIN Steps /\ at' \in Steps[test'] /\ alarm' \in BOOLEAN
    BY <1>1, LeaveType DEF Close
<1>3. opened' \in BOOLEAN /\ faithful' \in BOOLEAN
    BY DEF Close, Abort, TypeOK
<1> QED BY <1>2, <1>3 DEF Close, TypeOK

LEMMA TypeInit == Init => TypeOK
<1> SUFFICES ASSUME Init PROVE TypeOK
    OBVIOUS
<1>1. test \in DOMAIN Steps /\ at \in Steps[test]
    BY DEF Init, Steps
<1>2. buf_orig \in Contents /\ buf_cmp \in Contents /\ stored \in Contents
    BY ZerosType DEF Init
<1>3. count \in Nat /\ pos \in 0..SIZE /\ size \in 0..SIZE
    BY SizesAssumption DEF Init
<1>4. opened \in BOOLEAN /\ alarm \in BOOLEAN /\ faithful \in BOOLEAN
    BY DEF Init
<1> QED BY <1>1, <1>2, <1>3, <1>4 DEF TypeOK

LEMMA TypeStep == TypeOK /\ [Next]_vars => TypeOK'
<1> SUFFICES ASSUME TypeOK, [Next]_vars PROVE TypeOK'
    OBVIOUS
<1>1. CASE UNCHANGED vars
    BY <1>1 DEF vars, TypeOK
<1> QED BY <1>1, TypeOpen, TypeFill, TypeOverwrite, TypeReads, TypeReopen, TypeWriteAnywhere,
           TypeFillGap, TypeCompareRead, TypeClose DEF Next

\* Every variable keeps its type, and a test is at one of its own steps, for any
\* sizes and rounds (FULLTEST.C:232-541).
THEOREM FileTypes == Spec => []TypeOK
<1>1. Init => TypeOK
    BY TypeInit
<1>2. TypeOK /\ [Next]_vars => TypeOK'
    BY TypeStep
<1> QED BY <1>1, <1>2, PTL DEF Spec

-----------------------------------------------------------------------------
(* A test that passes.                                                     *)

\* The whole file was found to be what the buffer says.
LEMMA HoldsAll ==
    ASSUME TypeOK, Holds(0, SIZE)
    PROVE  size = SIZE /\ stored = buf_orig
<1>1. size = SIZE
    BY SizesAssumption DEF Holds, TypeOK
<1>2. \A i \in Offsets : stored[i] = buf_orig[i]
    BY SizesAssumption DEF Holds, Offsets
<1> QED BY <1>1, <1>2 DEF TypeOK, Contents

LEMMA PassStep == TypeOK /\ PassMeansStored /\ [Next]_vars => PassMeansStored'
<1> SUFFICES ASSUME TypeOK, PassMeansStored, [Next]_vars,
                    at' = "close", test' \in {"overwrite", "rand"}, ~alarm'
             PROVE  size' = SIZE /\ stored' = buf_orig'
    BY DEF PassMeansStored
<1>1. CASE UNCHANGED vars
    BY <1>1 DEF vars, PassMeansStored
<1>2. CASE CompareWhole
    <2>1. Holds(0, SIZE) /\ UNCHANGED <<stored, size, buf_orig>>
        BY <1>2 DEF CompareWhole, Abort
    <2> QED BY <2>1, HoldsAll
<1>3. CASE CompareRead
    <2>1. PICK n \in 0..SIZE :
              /\ \/ opened /\ n = size /\ UNCHANGED <<stored, size, faithful>>
                 \/ n <= size /\ (opened \/ n = 0) /\ Fails
              /\ buf_cmp' = [i \in Offsets |-> IF i < n THEN stored[i] ELSE buf_cmp[i]]
              /\ \/ /\ buf_cmp' = buf_orig
                    /\ at' = "close"
                    /\ alarm' = (alarm \/ n # SIZE)
                    /\ UNCHANGED <<test, opened>>
                 \/ buf_cmp' # buf_orig /\ Abort
        BY <1>3 DEF CompareRead
    <2>2. n = SIZE /\ size = SIZE /\ UNCHANGED <<stored, size>> /\ buf_cmp' = buf_orig
        <3>1. UNCHANGED <<stored, size>>
            BY <2>1 DEF Fails, file
        <3>2. buf_cmp' = buf_orig /\ alarm' = (alarm \/ n # SIZE)
            BY <2>1 DEF Abort
        <3>3. n = SIZE
            BY <3>2
        <3>4. n <= size
            BY <2>1, SizesAssumption DEF TypeOK
        <3> QED BY <3>1, <3>2, <3>3, <3>4, SizesAssumption DEF TypeOK
    <2>3. \A i \in Offsets : stored[i] = buf_orig[i]
        <3>1. \A i \in Offsets : i < n
            BY <2>2, SizesAssumption DEF Offsets
        <3> QED BY <2>1, <2>2, <3>1
    <2>4. stored = buf_orig
        BY <2>3 DEF TypeOK, Contents
    <2> QED BY <1>3, <2>1, <2>2, <2>4 DEF CompareRead
<1>4. CASE Open \/ Fill \/ Overwrite
    BY <1>4 DEF Open, Truncate, Fill, Overwrite, Goto, Return, Abort, Leave
<1>5. CASE CheckBack \/ ReadAnywhere
    BY <1>5 DEF CheckBack, ReadAnywhere, Round, Return, Abort, Leave
<1>6. CASE Reopen \/ WriteAnywhere \/ FillGap
    BY <1>6 DEF Reopen, WriteAnywhere, FillGap, Round
<1>7. CASE ReadAgain
    BY <1>7 DEF ReadAgain, Abort
<1>8. CASE Close
    BY <1>8 DEF Close, Leave, Abort
<1> QED BY <1>1, <1>2, <1>3, <1>4, <1>5, <1>6, <1>7, <1>8 DEF Next

\* When the first or the last test has found nothing, the file holds all that it
\* should, whatever the writes did and said (FULLTEST.C:416-437, 529-538).
THEOREM PassIsProof == Spec => []PassMeansStored
<1>1. Init => PassMeansStored
    BY DEF Init, PassMeansStored
<1>2. TypeOK /\ PassMeansStored /\ [Next]_vars => PassMeansStored'
    BY PassStep
<1> QED BY <1>1, <1>2, FileTypes, PTL DEF Spec

-----------------------------------------------------------------------------
(* A file system that is not to blame.                                     *)

\* A byte of the file is there and is what it should be.
Kept(i) == i < size /\ stored[i] = buf_orig[i]

\* While the file system does what it is asked the file agrees with the buffer
\* once it has been filled; in the last test it agrees where a mark is, then up to
\* the place that the search for gaps has reached, then everywhere.
Agreement ==
    faithful =>
        /\ ~alarm
        /\ \/ test = "overwrite" /\ at \in {"write", "check", "compare", "close"}
           \/ test = "seq" /\ at \in {"check", "reopen", "recheck", "close"}
           => size = SIZE /\ stored = buf_orig
        /\ test = "overwrite" /\ at = "check" => pos \in Places
        /\ test = "seq" /\ at = "recheck" => opened
        /\ test = "rand" /\ at \in {"write", "gaps"} => \A i \in Offsets : buf_cmp[i] # 0 => Kept(i)
        /\ test = "rand" /\ at = "gaps" => \A i \in Offsets : i < pos => Kept(i)
        /\ test = "rand" /\ at \in {"reopen", "compare"} => \A i \in Offsets : Kept(i)

\* A write without a fault, by what is in the file after it.
LEMMA StoreKeeps ==
    ASSUME TypeOK, NEW p \in Nat, NEW n \in Nat \ {0}, p + n <= SIZE, NEW data,
           Write(p, n, data), faithful'
    PROVE  /\ faithful
           /\ size' = (IF p + n > size THEN p + n ELSE size)
           /\ \A i \in Offsets : stored'[i] = (IF i \in p..(p + n - 1) THEN data[i] ELSE stored[i])
<1>1. Store(p, n, data)
    BY DEF Write, Damage
<1> QED BY <1>1 DEF Store, Written

\* A write of what the buffer holds keeps what agrees and adds the window to it.
LEMMA WriteKeeps ==
    ASSUME TypeOK, NEW p \in Nat, NEW n \in Nat \ {0}, p + n <= SIZE,
           Write(p, n, buf_orig), UNCHANGED buf_orig, faithful',
           NEW i \in Offsets, Kept(i) \/ i \in p..(p + n - 1)
    PROVE  Kept(i)'
<1>1. /\ size' = (IF p + n > size THEN p + n ELSE size)
      /\ stored'[i] = (IF i \in p..(p + n - 1) THEN buf_orig[i] ELSE stored[i])
    BY StoreKeeps
<1>2. i < size'
    BY <1>1, SizesAssumption DEF Kept, Offsets, TypeOK
<1>3. stored'[i] = buf_orig[i]
    BY <1>1 DEF Kept
<1> QED BY <1>2, <1>3 DEF Kept

\* In a file that agrees every window holds what it should.
LEMMA HoldsAnywhere ==
    ASSUME TypeOK, size = SIZE, stored = buf_orig, NEW p \in Nat, NEW n \in Nat, p + n <= SIZE
    PROVE  Holds(p, n)
    BY DEF Holds

LEMMA AgreeOpen == ASSUME TypeOK, Agreement, Open, faithful' PROVE Agreement'
<1>1. /\ opened' = TRUE /\ stored' = Zeros /\ size' = 0
      /\ at' = (IF test = "rand" THEN "write" ELSE "fill")
      /\ UNCHANGED <<test, alarm, faithful>>
    BY DEF Open, Truncate, Fails
<1>2. ~alarm'
    BY <1>1 DEF Agreement
<1>3. CASE test # "rand"
    BY <1>1, <1>2, <1>3 DEF Agreement
<1>4. CASE test = "rand"
    <2>1. \A i \in Offsets : buf_cmp'[i] = 0
        BY <1>4 DEF Open, Zeros
    <2> QED BY <1>1, <1>2, <1>4, <2>1 DEF Agreement
<1> QED BY <1>3, <1>4

LEMMA AgreeFill == ASSUME TypeOK, Agreement, Fill, faithful' PROVE Agreement'
<1>1. Write(0, SIZE, buf_orig) /\ Goto(IF test = "seq" THEN "check" ELSE "write")
    BY DEF Fill, Fails, Damage
<1>2. test \in {"overwrite", "seq"}
    BY DEF Fill, TypeOK, Steps
<1>3. /\ faithful
      /\ size' = (IF 0 + SIZE > size THEN 0 + SIZE ELSE size)
      /\ \A i \in Offsets : stored'[i] = (IF i \in 0..(0 + SIZE - 1) THEN buf_orig[i] ELSE stored[i])
    BY <1>1, StoreKeeps, SizesAssumption
<1>4. size' = SIZE
    BY <1>3, SizesAssumption DEF TypeOK
<1>5. stored' = buf_orig'
    <2>1. \A i \in Offsets : stored'[i] = buf_orig[i]
        BY <1>3, SizesAssumption DEF Offsets
    <2>2. stored' \in Contents /\ buf_orig \in Contents /\ UNCHANGED buf_orig
        BY TypeFill DEF TypeOK, Fill
    <2> QED BY <2>1, <2>2 DEF Contents
<1>6. ~alarm'
    BY <1>1, <1>3 DEF Goto, Agreement
<1>7. CASE test = "overwrite"
    BY <1>1, <1>4, <1>5, <1>6, <1>7 DEF Goto, Agreement
<1>8. CASE test = "seq"
    BY <1>1, <1>4, <1>5, <1>6, <1>8 DEF Goto, Agreement
<1> QED BY <1>2, <1>7, <1>8

LEMMA AgreeOverwrite == ASSUME TypeOK, Agreement, Overwrite, faithful' PROVE Agreement'
<1>1. PICK p \in Places :
          /\ pos' = p /\ buf_orig' = Shadow(p)
          /\ Write(p, BLOCK, [i \in Window(p) |-> count % BYTE]) /\ Goto("check")
    BY DEF Overwrite, Fails, Damage
<1>2. /\ p \in Nat /\ BLOCK \in Nat \ {0} /\ p + BLOCK < SIZE /\ p + BLOCK <= SIZE
    BY WindowInside, SizesAssumption
<1>3. /\ faithful
      /\ size' = (IF p + BLOCK > size THEN p + BLOCK ELSE size)
      /\ \A i \in Offsets : stored'[i] = (IF i \in p..(p + BLOCK - 1)
                                        THEN [k \in Window(p) |-> count % BYTE][i] ELSE stored[i])
    BY <1>1, <1>2, StoreKeeps
<1>4. size = SIZE /\ stored = buf_orig /\ ~alarm /\ test = "overwrite"
    BY <1>3 DEF Agreement, Overwrite
<1>5. size' = SIZE
    BY <1>2, <1>3, <1>4, SizesAssumption
<1>6. stored' = buf_orig'
    <2>1. \A i \in Offsets : stored'[i] = (IF i \in Window(p) THEN count % BYTE ELSE buf_orig[i])
        BY <1>3, <1>4 DEF Window
    <2>2. stored' \in Contents /\ TypeOK'
        BY TypeOverwrite DEF TypeOK
    <2> QED BY <1>1, <2>1, <2>2 DEF Shadow, Contents
<1> QED BY <1>1, <1>4, <1>5, <1>6 DEF Goto, Agreement

LEMMA AgreeCheckBack == ASSUME TypeOK, Agreement, CheckBack, faithful' PROVE Agreement'
<1> DEFINE back == IF pos < BACK THEN 0 ELSE pos - BACK
<1>1. faithful /\ test = "overwrite" /\ at = "check"
    BY DEF CheckBack, Fails
<1>2. size = SIZE /\ stored = buf_orig /\ ~alarm /\ pos \in Places
    BY <1>1 DEF Agreement
<1>3. back \in Nat /\ back + BLOCK <= SIZE
    BY <1>2, WindowInside, SizesAssumption DEF Places
<1>4. Holds(back, BLOCK)
    BY <1>2, <1>3, HoldsAnywhere, SizesAssumption
<1>5. /\ Round(OVERWRITES, "write", "compare")
      /\ UNCHANGED <<test, opened, alarm, faithful, buf_orig, stored, size>>
    BY <1>4 DEF CheckBack, Fails
<1>6. at' \in {"write", "compare"}
    BY <1>5, RoundType, SizesAssumption
<1> QED BY <1>1, <1>2, <1>5, <1>6 DEF Agreement

LEMMA AgreeCompareWhole == ASSUME TypeOK, Agreement, CompareWhole, faithful' PROVE Agreement'
<1>1. faithful /\ test = "overwrite" /\ at = "compare"
    BY DEF CompareWhole, Fails
<1>2. size = SIZE /\ stored = buf_orig /\ ~alarm
    BY <1>1 DEF Agreement
<1>3. Holds(0, SIZE)
    BY <1>2, HoldsAnywhere, SizesAssumption
<1>4. Goto("close") /\ UNCHANGED <<buf_orig, stored, size>>
    BY <1>3 DEF CompareWhole, Fails
<1> QED BY <1>1, <1>2, <1>4 DEF Goto, Agreement

LEMMA AgreeReads == ASSUME TypeOK, Agreement, ReadAnywhere \/ ReadAgain, faithful' PROVE Agreement'
<1>1. /\ faithful /\ test = "seq" /\ at \in {"check", "recheck"}
      /\ UNCHANGED <<buf_orig, stored, size>>
    BY DEF ReadAnywhere, ReadAgain, Fails
<1>2. size = SIZE /\ stored = buf_orig /\ ~alarm /\ (at = "recheck" => opened)
    BY <1>1 DEF Agreement
<1>3. \A p \in Places : p + BLOCK <= size /\ Holds(p, BLOCK)
    BY <1>2, WindowInside, HoldsAnywhere, SizesAssumption
<1>4. CASE ReadAnywhere
    <2>1. PICK p \in Places :
              \/ /\ p + BLOCK <= size
                 /\ Round(READS, "check", "reopen")
                 /\ alarm' = (alarm \/ ~Holds(p, BLOCK))
                 /\ UNCHANGED <<test, opened, faithful>>
              \/ p + BLOCK > size /\ Return /\ UNCHANGED <<count, faithful>>
              \/ Fails /\ Return /\ UNCHANGED count
        BY <1>4 DEF ReadAnywhere
    <2>2. ~(p + BLOCK > size)
        BY <1>2, WindowInside, SizesAssumption
    <2>3. Round(READS, "check", "reopen") /\ alarm' = (alarm \/ ~Holds(p, BLOCK)) /\ UNCHANGED test
        BY <2>1, <2>2 DEF Fails
    <2>4. ~alarm'
        BY <1>2, <1>3, <2>3
    <2>5. at' \in {"check", "reopen"}
        BY <2>3, RoundType, SizesAssumption
    <2> QED BY <1>1, <1>2, <2>3, <2>4, <2>5 DEF Agreement
<1>5. CASE ReadAgain
    <2>1. at = "recheck"
        BY <1>5 DEF ReadAgain
    <2>2. Round(REREADS, "recheck", "close") /\ UNCHANGED <<test, opened, alarm>>
        BY <1>2, <1>3, <1>5, <2>1 DEF ReadAgain, Fails
    <2>3. at' \in {"recheck", "close"}
        BY <2>2, RoundType, SizesAssumption
    <2> QED BY <1>1, <1>2, <2>1, <2>2, <2>3 DEF Agreement
<1> QED BY <1>4, <1>5

LEMMA AgreeReopen == ASSUME TypeOK, Agreement, Reopen, faithful' PROVE Agreement'
<1>1. /\ faithful /\ test \in {"seq", "rand"} /\ at = "reopen" /\ opened'
      /\ at' = (IF test = "seq" THEN "recheck" ELSE "compare")
      /\ UNCHANGED <<test, alarm, buf_orig, stored, size>>
    <2>1. at = "reopen" /\ test \in {"seq", "rand"}
        BY DEF Reopen, TypeOK, Steps
    <2>2. opened' = TRUE /\ UNCHANGED <<alarm, faithful>>
        BY DEF Reopen
    <2> QED BY <2>1, <2>2 DEF Reopen
<1>2. CASE test = "seq"
    BY <1>1, <1>2 DEF Agreement
<1>3. CASE test = "rand"
    BY <1>1, <1>3 DEF Agreement, Kept
<1> QED BY <1>1, <1>2, <1>3

LEMMA AgreeWriteAnywhere == ASSUME TypeOK, Agreement, WriteAnywhere, faithful' PROVE Agreement'
<1>1. PICK p \in Places :
          /\ Write(p, BLOCK, buf_orig)
          /\ buf_cmp' = [i \in Offsets |-> IF i \in Window(p) THEN Mark ELSE buf_cmp[i]]
    BY DEF WriteAnywhere
<1>2. /\ p \in Nat /\ BLOCK \in Nat \ {0} /\ p + BLOCK <= SIZE
    BY WindowInside, SizesAssumption
<1>3. faithful /\ test = "rand" /\ at = "write" /\ pos' = 0 /\ UNCHANGED <<test, alarm, buf_orig>>
    BY <1>1, <1>2, StoreKeeps DEF WriteAnywhere
<1>4. ASSUME NEW i \in Offsets, buf_cmp'[i] # 0 PROVE Kept(i)'
    <2>1. Kept(i) \/ i \in p..(p + BLOCK - 1)
        BY <1>1, <1>3, <1>4 DEF Window, Agreement
    <2> QED BY <1>1, <1>2, <1>3, <2>1, WriteKeeps
<1>5. \A i \in Offsets : ~(i < pos')
    BY <1>3 DEF Offsets
<1>6. at' \in {"write", "gaps"}
    BY RoundType, SizesAssumption DEF WriteAnywhere
<1>7. ~alarm'
    BY <1>3 DEF Agreement
<1> QED BY <1>3, <1>4, <1>5, <1>6, <1>7 DEF Agreement

LEMMA AgreeFillGap == ASSUME TypeOK, Agreement, FillGap, faithful' PROVE Agreement'
<1>1. /\ test = "rand" /\ at = "gaps" /\ pos \in Nat /\ pos < SIZE /\ pos' = pos + 1
      /\ at' = (IF pos + 1 = SIZE THEN "reopen" ELSE "gaps")
      /\ UNCHANGED <<test, alarm, buf_orig, buf_cmp>>
    BY SizesAssumption DEF FillGap, TypeOK
<1>2. faithful /\ \A i \in Offsets : Kept(i) \/ i = pos => Kept(i)'
    <2>1. CASE buf_cmp[pos] # 0 /\ UNCHANGED <<stored, size, faithful>>
        <3>1. faithful /\ pos \in Offsets
            BY <1>1, <2>1, SizesAssumption DEF Offsets
        <3>2. Kept(pos)
            BY <1>1, <2>1, <3>1 DEF Agreement
        <3> QED BY <1>1, <2>1, <3>1, <3>2 DEF Kept
    <2>2. ASSUME NEW n \in 1..(SIZE - pos), Write(pos, n, buf_orig)
          PROVE  faithful /\ \A i \in Offsets : Kept(i) \/ i = pos => Kept(i)'
        <3>1. n \in Nat \ {0} /\ pos + n <= SIZE /\ pos \in pos..(pos + n - 1)
            BY <1>1, SizesAssumption
        <3>2. faithful
            BY <1>1, <2>2, <3>1, StoreKeeps
        <3>3. ASSUME NEW i \in Offsets, Kept(i) \/ i = pos PROVE Kept(i)'
            BY <1>1, <2>2, <3>1, <3>3, WriteKeeps
        <3> QED BY <3>2, <3>3
    <2> QED BY <2>1, <2>2 DEF FillGap
<1>3. ~alarm'
    BY <1>1, <1>2 DEF Agreement
<1>4. \A i \in Offsets : i < pos' => Kept(i)'
    <2>1. \A i \in Offsets : i < pos => Kept(i)
        BY <1>1, <1>2 DEF Agreement
    <2>2. \A i \in Offsets : i < pos' => i < pos \/ i = pos
        BY <1>1, SizesAssumption DEF Offsets
    <2> QED BY <1>2, <2>1, <2>2
<1>5. CASE pos + 1 = SIZE
    <2>1. \A i \in Offsets : Kept(i)'
        BY <1>1, <1>4, <1>5, SizesAssumption DEF Offsets
    <2> QED BY <1>1, <1>3, <1>5, <2>1 DEF Agreement
<1>6. CASE pos + 1 # SIZE
    <2>1. \A i \in Offsets : buf_cmp'[i] # 0 => Kept(i)'
        BY <1>1, <1>2 DEF Agreement
    <2> QED BY <1>1, <1>3, <1>4, <1>6, <2>1 DEF Agreement
<1> QED BY <1>5, <1>6

LEMMA AgreeCompareRead == ASSUME TypeOK, Agreement, CompareRead, faithful' PROVE Agreement'
<1>1. PICK n \in 0..SIZE :
          /\ n = size /\ UNCHANGED <<stored, size, faithful>>
          /\ buf_cmp' = [i \in Offsets |-> IF i < n THEN stored[i] ELSE buf_cmp[i]]
          /\ \/ /\ at' = "close"
                /\ alarm' = (alarm \/ n # SIZE)
                /\ UNCHANGED <<test, opened>>
             \/ buf_cmp' # buf_orig /\ Abort
    BY DEF CompareRead, Fails
<1>2. faithful /\ test = "rand" /\ at = "compare" /\ ~alarm /\ \A i \in Offsets : Kept(i)
    BY <1>1 DEF CompareRead, Agreement
<1>3. n = SIZE
    <2>1. SIZE - 1 \in Offsets
        BY SizesAssumption DEF Offsets
    <2>2. SIZE - 1 < size
        BY <1>2, <2>1 DEF Kept
    <2> QED BY <1>1, <2>2, SizesAssumption
<1>4. buf_cmp' = buf_orig
    <2>1. \A i \in Offsets : i < n /\ stored[i] = buf_orig[i]
        BY <1>2, <1>3, SizesAssumption DEF Offsets, Kept
    <2> QED BY <1>1, <2>1 DEF TypeOK, Contents
<1>5. at' = "close" /\ alarm' = (alarm \/ n # SIZE) /\ UNCHANGED test
    BY <1>1, <1>4
<1>6. ~alarm'
    BY <1>2, <1>3, <1>5
<1> QED BY <1>2, <1>5, <1>6 DEF Agreement

LEMMA AgreeClose == ASSUME TypeOK, Agreement, Close, faithful' PROVE Agreement'
<1>1. Leave /\ UNCHANGED <<alarm, faithful>>
    BY DEF Close
<1>2. at' = "open" /\ ~alarm'
    BY <1>1 DEF Leave, Agreement
<1> QED BY <1>2 DEF Agreement

LEMMA AgreeStep == TypeOK /\ Agreement /\ [Next]_vars => Agreement'
<1> SUFFICES ASSUME TypeOK, Agreement, [Next]_vars, faithful' PROVE Agreement'
    BY DEF Agreement
<1>1. CASE UNCHANGED vars
    BY <1>1 DEF vars, Agreement, Kept
<1> QED BY <1>1, AgreeOpen, AgreeFill, AgreeOverwrite, AgreeCheckBack, AgreeCompareWhole,
           AgreeReads, AgreeReopen, AgreeWriteAnywhere, AgreeFillGap, AgreeCompareRead,
           AgreeClose DEF Next

\* A file system that does what it is asked is accused by none of the tests, for any
\* sizes and rounds and whatever random draws (FULLTEST.C:249-541).
THEOREM NoFalseAccusation == Spec => []FaithfulPasses
<1>1. Init => Agreement
    BY DEF Init, Agreement
<1>2. TypeOK /\ Agreement /\ [Next]_vars => Agreement'
    BY AgreeStep
<1>3. Agreement => FaithfulPasses
    BY DEF Agreement, FaithfulPasses
<1> QED BY <1>1, <1>2, <1>3, FileTypes, PTL DEF Spec
=============================================================================
