------------------------------ MODULE FlashProofs ------------------------------
(***************************************************************************)
(* Proofs about the flash programmer, for every size of device and word,   *)
(* every hex file, whether it fits the device or not, every behaviour of   *)
(* the cells and a file that cannot be read to its end.                    *)
(***************************************************************************)
EXTENDS Flash, TLAPS

Written == {"open", "program", "reopen", "check", "success"}

\* Nothing but the words that the file covers is touched once the device is blank.
BlankInv == phase \in Written => \A w \in Words : ~Covered(w) => cells[w] = Bits

\* The lines that were checked hold, and the check changes nothing.
CheckedInv ==
    /\ phase = "check" => \A k \in DOMAIN file : k < line => Holds(k)
    /\ phase = "success" => \A k \in DOMAIN file : k < line => Holds(k)

ModeInv == phase \notin {"identify", "identify_again", "failure"} => mode # "id"

\* The word in hand is a word of the device, and then of the line.
WordInv ==
    /\ phase = "zero" => word \in Words
    /\ phase = "program" /\ LineIs("data") => word < Len(file[line].data)

FlashInv ==
    /\ TypeOK
    /\ ModeInv
    /\ BlankInv
    /\ CheckedInv

LEMMA FlashInvInit == Init => FlashInv
<1> SUFFICES ASSUME Init PROVE FlashInv
  OBVIOUS
<1>1. TypeOK
  <2>1. line \in 1..(Len(file) + 1)
    BY FilesAssumption DEF Init
  <2> QED
    BY <2>1, SizesAssumption DEF Init, TypeOK, Phases, Words
<1> QED
  BY <1>1 DEF Init, FlashInv, ModeInv, BlankInv, CheckedInv, Written

LEMMA FileType ==
    ASSUME TypeOK
    PROVE  /\ file \in Seq(Lines)
           /\ Len(file) \in Nat
           /\ DOMAIN file = 1..Len(file)
  BY FilesAssumption DEF TypeOK

\* A line of data has an address, of the device or not, and some words.
LEMMA DataLine ==
    ASSUME TypeOK, NEW k \in DOMAIN file, file[k].kind = "data"
    PROVE  /\ file[k].addr \in Nat
           /\ file[k].data \in Seq(SUBSET Bits)
           /\ Len(file[k].data) \in Nat
           /\ Len(file[k].data) > 0
<1>1. file[k] \in Lines
  BY FileType
<1>2. file[k].addr \in Nat /\ file[k].data \in Seq(SUBSET Bits)
  BY <1>1 DEF Lines
<1> QED
  BY <1>2, FilesAssumption DEF TypeOK

LEMMA PulseType ==
    ASSUME TypeOK, NEW w \in Words, NEW value, ProgramPulse(w, value)
    PROVE  /\ cells' \in [Words -> SUBSET Bits]
           /\ \A v \in Words \ {w} : cells'[v] = cells[v]
  BY DEF TypeOK, ProgramPulse

\* Which words the file covers, and whether a line holds, is a matter of the
\* file and the cells.
LEMMA SameFile ==
    ASSUME UNCHANGED file
    PROVE  \A w : Covered(w)' <=> Covered(w)
  BY DEF Covered

LEMMA SameImage ==
    ASSUME UNCHANGED <<cells, file>>
    PROVE  \A k : Holds(k)' <=> Holds(k)
  BY DEF Holds

\* The counters after a step.
LEMMA EnterType ==
    ASSUME TypeOK, NEW p \in Phases, Enter(p)
    PROVE  /\ phase' \in Phases
           /\ file' \in Files
           /\ line' \in 1..(Len(file') + 1)
           /\ word' \in Nat /\ WordInv'
           /\ \E most \in {PROGRAM_ATTEMPTS, ERASE_ATTEMPTS} : attempt' \in 1..most
<1>1. file' \in Files /\ line' = 1 /\ word' = 0 /\ attempt' = 1 /\ phase' \in Phases
  BY DEF Enter, TypeOK
<1>2. Len(file') \in Nat
  BY FileType DEF Enter
<1>3. ASSUME LineIs("data")'
      PROVE  word' < Len(file'[line'].data)
  <2>1. file' = file /\ 1 \in DOMAIN file /\ file[1].kind = "data"
    BY <1>1, <1>3, FileType DEF LineIs, AtEnd, Enter
  <2>2. Len(file[1].data) > 0
    BY <2>1, FilesAssumption DEF TypeOK
  <2> QED
    BY <1>1, <2>1, <2>2
<1> QED
  BY <1>1, <1>2, <1>3, SizesAssumption DEF Words, WordInv

LEMMA ExitType ==
    ASSUME TypeOK, NEW p \in {"success", "failure"}, Exit(p)
    PROVE  /\ phase' \in Phases
           /\ file' \in Files
           /\ line' \in 1..(Len(file') + 1)
           /\ word' \in Nat /\ WordInv'
           /\ \E most \in {PROGRAM_ATTEMPTS, ERASE_ATTEMPTS} : attempt' \in 1..most
  BY DEF Exit, TypeOK, Phases, WordInv

\* The line in hand is a new one.
LEMMA NextLineWord ==
    ASSUME TypeOK, ~AtEnd, phase \in {"program", "check"}, NextLine
    PROVE  WordInv'
<1> SUFFICES ASSUME LineIs("data")'
             PROVE  word' < Len(file'[line'].data)
  BY DEF WordInv, NextLine
<1>1. file' = file /\ line' = line + 1 /\ word' = 0
  BY DEF NextLine
<1>2. Len(file) \in Nat /\ line \in 1..Len(file)
  BY FileType DEF TypeOK, AtEnd
<1>3. line + 1 \in DOMAIN file /\ file[line + 1].kind = "data"
  BY <1>1, <1>2, FileType DEF LineIs, AtEnd
<1>4. Len(file[line + 1].data) > 0
  BY <1>3, FilesAssumption DEF TypeOK
<1> QED
  BY <1>1, <1>4

LEMMA NextLineType ==
    ASSUME TypeOK, ~AtEnd, phase \in {"program", "check"}, NextLine
    PROVE  /\ phase' \in Phases
           /\ file' \in Files
           /\ line' \in 1..(Len(file') + 1)
           /\ word' \in Nat /\ WordInv'
           /\ \E most \in {PROGRAM_ATTEMPTS, ERASE_ATTEMPTS} : attempt' \in 1..most
<1>1. /\ file' = file
      /\ line' = line + 1
      /\ word' = 0
      /\ attempt' = 1
      /\ phase' = phase
  BY DEF NextLine
<1>2. Len(file) \in Nat /\ line \in 1..Len(file)
  BY FileType DEF TypeOK, AtEnd
<1> QED
  BY <1>1, <1>2, NextLineWord, SizesAssumption DEF TypeOK

-----------------------------------------------------------------------------
\* One lemma for each action.

LEMMA ReadIdentifiersStep == FlashInv /\ ReadIdentifiers => FlashInv'
<1> SUFFICES ASSUME FlashInv, ReadIdentifiers PROVE FlashInv'
  OBVIOUS
<1> USE DEF FlashInv
<1>1. /\ cells' = cells
      /\ phase' \in {"identify_again", "zero", "failure"}
      /\ mode' \in {"id", "read"}
      /\ phase' = "zero" => mode' = "read"
  BY DEF ReadIdentifiers, Exit, Enter, Identified, ResetFe
<1>2. TypeOK'
  <2>1. Enter("identify_again") \/ Enter("zero") \/ Exit("failure")
    BY DEF ReadIdentifiers, Identified
  <2> QED
    BY <1>1, <2>1, EnterType, ExitType DEF TypeOK, Phases, Modes, WordInv
<1> QED
  BY <1>1, <1>2 DEF ModeInv, BlankInv, CheckedInv, Written

LEMMA ProgramToZeroStep == FlashInv /\ ProgramToZero => FlashInv'
<1> SUFFICES ASSUME FlashInv, ProgramToZero PROVE FlashInv'
  OBVIOUS
<1> USE DEF FlashInv
<1>1. phase' \in {"zero", "check_zero"} /\ mode' = "program_verify"
  BY DEF ProgramToZero, Retry, Enter
<1>2. TypeOK'
  <2>1. cells' \in [Words -> SUBSET Bits]
    <3>1. word \in Words
      BY DEF TypeOK, ProgramToZero
    <3> QED
      BY <3>1, PulseType DEF ProgramToZero
  <2>2. CASE Enter("check_zero")
    BY <1>1, <2>1, <2>2, EnterType DEF TypeOK, Phases, Modes, WordInv
  <2>3. CASE Retry /\ attempt < PROGRAM_ATTEMPTS
    <3>1. attempt' \in 1..PROGRAM_ATTEMPTS
      BY <2>3, SizesAssumption DEF Retry, TypeOK
    <3> QED
      BY <1>1, <2>1, <2>3, <3>1 DEF Retry, TypeOK, Modes, ProgramToZero
  <2>4. CASE ~LastWord /\ word' = word + 1 /\ attempt' = 1 /\ UNCHANGED <<phase, file, line>>
    <3>1. word' \in Words /\ attempt' \in 1..PROGRAM_ATTEMPTS
      BY <2>4, SizesAssumption DEF LastWord, TypeOK, Words, ProgramToZero
    <3> QED
      BY <1>1, <2>1, <2>4, <3>1 DEF TypeOK, Modes, ProgramToZero, Words
  <2> QED
    BY <2>2, <2>3, <2>4 DEF ProgramToZero
<1> QED
  BY <1>1, <1>2 DEF ModeInv, BlankInv, CheckedInv, Written

LEMMA CheckZeroStep == FlashInv /\ CheckZero => FlashInv'
<1> SUFFICES ASSUME FlashInv, CheckZero PROVE FlashInv'
  OBVIOUS
<1> USE DEF FlashInv
<1>1. /\ cells' = cells
      /\ \/ /\ phase' = "erase" /\ mode' = "read" /\ Enter("erase")
            /\ \A w \in Words : cells[w] = {}
         \/ phase' = "failure" /\ mode' = mode /\ Exit("failure")
  BY DEF CheckZero, ResetFe, Enter, Exit, ReadsAs
<1>2. TypeOK'
  BY <1>1, EnterType, ExitType DEF TypeOK, Phases, Modes, WordInv
<1> QED
  BY <1>1, <1>2 DEF ModeInv, BlankInv, CheckedInv, Written

LEMMA EraseStep == FlashInv /\ Erase => FlashInv'
<1> SUFFICES ASSUME FlashInv, Erase PROVE FlashInv'
  OBVIOUS
<1> USE DEF FlashInv
<1>1. \/ phase' = "check_ones" /\ mode' = "read" /\ Enter("check_ones")
      \/ phase' = "erase" /\ mode' = "erase_verify" /\ Retry /\ attempt < ERASE_ATTEMPTS
      \/ phase' = "failure" /\ mode' = "read" /\ Exit("failure")
  BY DEF Erase, Enter, Exit, Retry
<1>2. TypeOK'
  <2>1. cells' \in [Words -> SUBSET Bits]
    BY DEF Erase, ErasePulse
  <2>2. CASE Enter("check_ones") /\ mode' = "read"
    BY <2>1, <2>2, EnterType DEF TypeOK, Phases, Modes, WordInv
  <2>3. CASE Exit("failure") /\ mode' = "read"
    BY <2>1, <2>3, ExitType DEF TypeOK, Phases, Modes, WordInv
  <2>4. CASE Retry /\ attempt < ERASE_ATTEMPTS /\ mode' = "erase_verify"
    <3>1. attempt' \in 1..ERASE_ATTEMPTS
      BY <2>4, SizesAssumption DEF Retry, TypeOK
    <3> QED
      BY <2>1, <2>4, <3>1 DEF Retry, TypeOK, Modes, Erase
  <2> QED
    BY <1>1, <2>2, <2>3, <2>4
<1> QED
  BY <1>1, <1>2 DEF ModeInv, BlankInv, CheckedInv, Written

LEMMA CheckOnesStep == FlashInv /\ CheckOnes => FlashInv'
<1> SUFFICES ASSUME FlashInv, CheckOnes PROVE FlashInv'
  OBVIOUS
<1> USE DEF FlashInv
<1>1. /\ cells' = cells
      /\ \/ /\ phase' = "open" /\ mode' = "read" /\ Enter("open")
            /\ \A w \in Words : cells[w] = Bits
         \/ phase' = "failure" /\ mode' = mode /\ Exit("failure")
  BY DEF CheckOnes, ResetFe, Enter, Exit, ReadsAs
<1>2. TypeOK'
  BY <1>1, EnterType, ExitType DEF TypeOK, Phases, Modes, WordInv
<1> QED
  BY <1>1, <1>2 DEF ModeInv, BlankInv, CheckedInv, Written

LEMMA OpenStep == FlashInv /\ Open => FlashInv'
<1> SUFFICES ASSUME FlashInv, Open PROVE FlashInv'
  OBVIOUS
<1> USE DEF FlashInv
<1>1. /\ cells' = cells
      /\ mode' = mode
      /\ file' = file
      /\ phase \in {"open", "reopen"}
      /\ \/ phase' = "failure" /\ Exit("failure")
         \/ phase' = "program" /\ Enter("program")
         \/ phase' = "check" /\ Enter("check")
  BY DEF Open, Enter, Exit
<1>2. TypeOK'
  BY <1>1, EnterType, ExitType DEF TypeOK, Phases, WordInv
<1>4. BlankInv'
  BY <1>1, SameFile DEF BlankInv, Written
<1>5. CheckedInv'
  <2>1. CASE Enter("check")
    <3>1. line' = 1 /\ phase' = "check" /\ DOMAIN file' = 1..Len(file')
      BY <2>1, <1>1, FileType DEF Enter
    <3>2. \A k \in DOMAIN file' : ~(k < line')
      BY <1>1, <3>1, FileType
    <3> QED
      BY <3>1, <3>2 DEF CheckedInv
  <2> QED
    BY <1>1, <2>1 DEF CheckedInv
<1> QED
  BY <1>1, <1>2, <1>4, <1>5 DEF ModeInv

\* A line is left behind, either because it holds or because it is no data.
LEMMA NextLineChecked ==
    ASSUME TypeOK, CheckedInv, ~AtEnd, phase \in {"program", "check"}, NextLine, UNCHANGED cells,
           phase = "check" => Holds(line)
    PROVE  CheckedInv'
<1>1. /\ file' = file
      /\ cells' = cells
      /\ phase' = phase
      /\ line' = line + 1
  BY DEF NextLine
<1>2. DOMAIN file = 1..Len(file) /\ Len(file) \in Nat /\ line \in 1..Len(file)
  BY FileType DEF TypeOK, AtEnd
<1>3. ASSUME phase' = "check", NEW k \in DOMAIN file', k < line'
      PROVE  Holds(k)'
  <2>1. k < line \/ k = line
    BY <1>1, <1>2, <1>3
  <2>2. Holds(k)
    BY <1>1, <1>3, <2>1 DEF CheckedInv
  <2> QED
    BY <1>1, <2>2, SameImage
<1> QED
  BY <1>1, <1>3 DEF CheckedInv

LEMMA GetLineStep == FlashInv /\ GetLine => FlashInv'
<1> SUFFICES ASSUME FlashInv, GetLine PROVE FlashInv'
  OBVIOUS
<1> USE DEF FlashInv
<1>1. /\ cells' = cells
      /\ file' = file
      /\ mode' \in {mode, "read"}
      /\ phase \in {"program", "check"}
      /\ \/ phase' = "reopen" /\ Enter("reopen")
         \/ phase' = "success" /\ Exit("success") /\ phase = "check"
         \/ phase' = "failure" /\ Exit("failure")
         \/ phase' = phase /\ NextLine /\ LineIs("blank")
  BY DEF GetLine, Enter, Exit, NextLine, ResetFe
<1>2. TypeOK'
  <2>1. cells' \in [Words -> SUBSET Bits] /\ mode' \in Modes
    BY <1>1 DEF TypeOK, Modes
  <2>2. CASE NextLine /\ LineIs("blank")
    BY <1>1, <2>1, <2>2, NextLineType DEF TypeOK, LineIs, WordInv
  <2>3. CASE Enter("reopen")
    BY <2>1, <2>3, EnterType DEF TypeOK, Phases, WordInv
  <2>4. CASE Exit("success") \/ Exit("failure")
    BY <2>1, <2>4, ExitType DEF TypeOK, Phases, WordInv
  <2> QED
    BY <1>1, <2>2, <2>3, <2>4
<1>4. BlankInv'
  BY <1>1, SameFile DEF BlankInv, Written
<1>5. CheckedInv'
  <2>1. CASE NextLine /\ LineIs("blank")
    <3>1. Holds(line) /\ ~AtEnd
      BY <2>1 DEF Holds, LineIs
    <3> QED
      BY <1>1, <2>1, <3>1, NextLineChecked
  <2>2. CASE Exit("success") /\ phase' = "success" /\ phase = "check"
    BY <1>1, <2>2, SameImage DEF CheckedInv, Exit
  <2> QED
    BY <1>1, <2>1, <2>2 DEF CheckedInv
<1>6. ModeInv'
  BY <1>1 DEF ModeInv
<1> QED
  BY <1>1, <1>2, <1>4, <1>5, <1>6

LEMMA ProgramWordStep == FlashInv /\ ProgramWord => FlashInv'
<1> SUFFICES ASSUME FlashInv, ProgramWord PROVE FlashInv'
  OBVIOUS
<1> USE DEF FlashInv
<1> DEFINE first == file[line].addr
           w == first + word
           value == file[line].data[word + 1]
<1>1. phase = "program" /\ LineIs("data") /\ ~AtEnd /\ file[line].kind = "data"
  BY DEF ProgramWord, LineIs
<1>2. line \in DOMAIN file
  BY <1>1, FileType DEF TypeOK, AtEnd
<1>3. first \in Nat /\ Len(file[line].data) \in Nat /\ Len(file[line].data) > 0
  BY <1>1, <1>2, DataLine
<1>4. word \in Nat /\ word < Len(file[line].data)
  BY <1>1 DEF TypeOK
\* The words that may change are words that the line covers.
<1>5. Covered(first) /\ Covered(w)
  <2>1. {first, w} \subseteq first..(first + Len(file[line].data) - 1)
    BY <1>3, <1>4
  <2> QED
    BY <1>1, <1>2, <2>1 DEF Covered
<1>6. /\ cells' \in [Words -> SUBSET Bits]
      /\ \A v \in Words \ {first, w} : cells'[v] = cells[v]
  <2>1. WriteWord(first, w, value)
    BY DEF ProgramWord
  <2>2. CASE w \in Words /\ ProgramPulse(w, value)
    BY <2>2, PulseType
  <2>3. CASE first \in Words /\ ProgramPulse(first, {})
    BY <2>3, PulseType
  <2>4. CASE UNCHANGED cells
    BY <2>4 DEF TypeOK
  <2> QED
    BY <2>1, <2>2, <2>3, <2>4 DEF WriteWord
<1>7. /\ mode' \in Modes /\ mode' # "id"
      /\ file' = file
      /\ phase' \in {"program", "failure"}
  <2>1. Selected(first, w) \/ ResetLine(first)
    BY DEF ProgramWord
  <2>2. mode \in Modes /\ mode # "id"
    BY <1>1 DEF TypeOK, ModeInv
  <2>3. mode' \in Modes /\ mode' # "id"
    BY <2>1, <2>2 DEF Selected, ResetLine, ResetFe, Modes
  <2> QED
    BY <1>1, <2>3 DEF ProgramWord, Retry, NextLine, Exit
<1>8. \/ NextLine
      \/ Exit("failure") /\ phase' = "failure"
      \/ Retry /\ attempt < PROGRAM_ATTEMPTS
      \/ /\ word + 1 < Len(file[line].data)
         /\ word' = word + 1 /\ attempt' = 1 /\ UNCHANGED <<phase, file, line>>
  BY DEF ProgramWord, Exit
<1>9. TypeOK'
  <2>1. CASE NextLine
    BY <1>1, <1>6, <1>7, <2>1, NextLineType DEF TypeOK, WordInv
  <2>2. CASE Exit("failure") /\ phase' = "failure"
    BY <1>6, <1>7, <2>2, ExitType DEF TypeOK, WordInv
  <2>3. CASE Retry /\ attempt < PROGRAM_ATTEMPTS
    <3>1. attempt' \in 1..PROGRAM_ATTEMPTS
      BY <2>3, SizesAssumption DEF Retry, TypeOK
    <3>2. WordInv'
      BY <1>1, <1>4, <2>3 DEF WordInv, Retry
    <3> QED
      BY <1>6, <1>7, <2>3, <3>1, <3>2 DEF Retry, TypeOK, WordInv
  <2>4. CASE /\ word + 1 < Len(file[line].data)
             /\ word' = word + 1 /\ attempt' = 1 /\ UNCHANGED <<phase, file, line>>
    <3>1. word' \in Nat /\ attempt' \in 1..PROGRAM_ATTEMPTS
      BY <1>4, <2>4, SizesAssumption
    <3>2. WordInv'
      BY <1>1, <2>4 DEF WordInv
    <3> QED
      BY <1>6, <1>7, <2>4, <3>1, <3>2 DEF TypeOK, WordInv
  <2> QED
    BY <1>8, <2>1, <2>2, <2>3, <2>4
<1>10. BlankInv'
  <2>1. \A v \in Words : ~Covered(v) => cells[v] = Bits
    BY <1>1 DEF BlankInv, Written
  <2> QED
    BY <1>5, <1>6, <1>7, <2>1, SameFile DEF BlankInv
<1> QED
  BY <1>7, <1>9, <1>10 DEF ModeInv, CheckedInv

LEMMA CheckLineStep == FlashInv /\ CheckLine => FlashInv'
<1> SUFFICES ASSUME FlashInv, CheckLine PROVE FlashInv'
  OBVIOUS
<1> USE DEF FlashInv
<1>1. /\ UNCHANGED <<cells, mode, file>>
      /\ ~AtEnd
      /\ phase = "check"
      /\ \/ NextLine /\ phase' = "check" /\ Holds(line)
         \/ Exit("failure") /\ phase' = "failure"
  BY DEF CheckLine, NextLine, Exit, LineIs, Holds, MayReadAs, ReadsAs
<1>2. TypeOK'
  BY <1>1, NextLineType, ExitType DEF TypeOK, Phases, WordInv
<1>4. BlankInv'
  BY <1>1, SameFile DEF BlankInv, Written
<1>5. CheckedInv'
  <2>1. CASE NextLine /\ Holds(line)
    BY <1>1, <2>1, NextLineChecked
  <2>2. CASE phase' = "failure"
    BY <2>2 DEF CheckedInv
  <2> QED
    BY <1>1, <2>1, <2>2
<1> QED
  BY <1>1, <1>2, <1>4, <1>5 DEF ModeInv

LEMMA FlashInvStep == FlashInv /\ [Next]_vars => FlashInv'
<1> SUFFICES ASSUME FlashInv, [Next]_vars PROVE FlashInv'
  OBVIOUS
<1>1. CASE Next
  BY <1>1, ReadIdentifiersStep, ProgramToZeroStep, CheckZeroStep, EraseStep, CheckOnesStep,
     OpenStep, GetLineStep, ProgramWordStep, CheckLineStep DEF Next
<1>2. CASE UNCHANGED vars
  <2>1. TypeOK <=> TypeOK'
    BY <1>2 DEF vars, TypeOK, LineIs, AtEnd
  <2>2. (BlankInv <=> BlankInv') /\ (CheckedInv <=> CheckedInv')
    BY <1>2, SameFile, SameImage DEF vars, BlankInv, CheckedInv
  <2>3. ModeInv <=> ModeInv'
    BY <1>2 DEF vars, ModeInv
  <2> QED
    BY <2>1, <2>2, <2>3 DEF FlashInv
<1> QED
  BY <1>1, <1>2

LEMMA FlashInvariant == Spec => []FlashInv
<1> QED
  BY FlashInvInit, FlashInvStep, PTL DEF Spec

-----------------------------------------------------------------------------
\* The counters stay within their bounds: prog_to_0 addresses the words of the
\* device and no other (FLASH.C:389-421), prog_ep no word behind the last of its
\* line (FLASH.C:504-555), and no retry loop counts past its limit.
THEOREM FlashTypeCorrect == Spec => []TypeOK
<1> QED
  BY FlashInvariant, PTL DEF FlashInv

\* When success is reported, every line that the check has read is in the
\* device as far as it has a place there, and every word that the file has
\* nothing for is blank (high_pr, FLASH.C:166-179).  That is so for every hex
\* file, with lines that overlap or lie behind the device, however the pulses
\* take and wherever reading the file fails.
THEOREM SuccessIsTrue == Spec => []SuccessMeansImage
<1>1. FlashInv => SuccessMeansImage
  BY DEF FlashInv, BlankInv, CheckedInv, Written, SuccessMeansImage
<1> QED
  BY <1>1, FlashInvariant, PTL

\* Every read that the program judges by returns a cell and not an identifier
\* (read_i_i and check_value, FLASH.C:348-387, 250-273).
THEOREM ReadsCells == Spec => []ChecksReadCells
<1>1. FlashInv => ChecksReadCells
  BY DEF FlashInv, ModeInv, ChecksReadCells
<1> QED
  BY <1>1, FlashInvariant, PTL
================================================================================
