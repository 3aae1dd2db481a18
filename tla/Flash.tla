------------------------------- MODULE Flash -------------------------------
(***************************************************************************)
(* The flash EPROM programmer, TTM50/EXAMPLES/FLASH.C: one process that    *)
(* programs every word to zero, erases the device, programs a hex file     *)
(* into it and reads it all back.  Pulses may take only partly, which is   *)
(* why every loop verifies and retries.                                    *)
(*                                                                         *)
(* A word is the set of its bits that are 1: programming can only clear    *)
(* bits, erasing can only set them.  A step is one turn of a loop.         *)
(***************************************************************************)
EXTENDS Integers, Sequences

CONSTANTS
    FLASH_WORD_SIZE,    \* words of the device
    Bits,               \* bits of a word
    Files,              \* the hex files there may be, as sequences of lines
    PROGRAM_ATTEMPTS,   \* the loops run while i < 4, from i = 1: three times
    ERASE_ATTEMPTS      \* while i < 1000, from i = 1

Words == 0..(FLASH_WORD_SIZE - 1)

\* A line of a hex file holds an address and one to four words of data, or
\* nothing, or something else.  Nobody compares the address with the device: it
\* is the number of a word from FLASH_BASE_ADDRESS on, or of one behind the last.
Lines == [kind : {"data"}, addr : Nat, data : Seq(SUBSET Bits)]
            \cup [kind : {"blank", "invalid"}]

ASSUME SizesAssumption ==
    /\ FLASH_WORD_SIZE \in Nat \ {0}
    /\ PROGRAM_ATTEMPTS \in Nat \ {0}
    /\ ERASE_ATTEMPTS \in Nat \ {0}
ASSUME FilesAssumption ==
    /\ Files \subseteq Seq(Lines)
    /\ \A file \in Files : \A k \in DOMAIN file :
          file[k].kind = "data" => Len(file[k].data) > 0

VARIABLES
    cells,      \* the device's memory
    mode,       \* what its command register holds, and so what a read returns
    phase,      \* where the program is
    file,       \* the hex file
    line,       \* the line that was read last
    word,       \* the index j of the word in hand
    attempt     \* the loop counter i

vars == <<cells, mode, phase, file, line, word, attempt>>

Phases == {"identify", "identify_again", "zero", "check_zero", "erase",
           "check_ones", "open", "program", "reopen", "check", "success", "failure"}
Modes == {"read", "id", "program_verify", "erase_verify"}

AtEnd == line = Len(file) + 1
LineIs(kind) == ~AtEnd /\ file[line].kind = kind

TypeOK ==
    /\ cells \in [Words -> SUBSET Bits]
    /\ mode \in Modes
    /\ phase \in Phases
    /\ file \in Files
    /\ line \in 1..(Len(file) + 1)
    /\ word \in Nat
    /\ phase = "zero" => word \in Words
    /\ phase = "program" /\ LineIs("data") => word < Len(file[line].data)
    /\ \E most \in {PROGRAM_ATTEMPTS, ERASE_ATTEMPTS} : attempt \in 1..most

\* A run may find anything in the device: it may follow one that was cut off.
Init ==
    /\ cells \in [Words -> SUBSET Bits]
    /\ mode \in Modes
    /\ phase = "identify"
    /\ file \in Files
    /\ line = 1
    /\ word = 0
    /\ attempt = 1

-----------------------------------------------------------------------------
\* The device.  A program pulse clears some of the bits that it should, and an
\* erase pulse sets some.
ProgramPulse(w, value) ==
    \E cleared \in SUBSET (cells[w] \ value) :
        cells' = [cells EXCEPT ![w] = @ \ cleared]

ErasePulse ==
    /\ cells' \in [Words -> SUBSET Bits]
    /\ \A w \in Words : cells[w] \subseteq cells'[w]

\* While the identifiers are selected a read does not return the cells.
ReadsAs(w, value) == mode # "id" /\ cells[w] = value

\* A read behind the device returns whatever the bus does.
MayReadAs(w, value) == w \in Words => ReadsAs(w, value)
MayReadOther(w, value) == w \in Words => ~ReadsAs(w, value)

-----------------------------------------------------------------------------
\* Writing the reset command twice ends any other command.
ResetFe == mode' = "read"

\* exit_terminate: nothing runs after it.
Exit(outcome) == phase' = outcome /\ UNCHANGED <<file, line, word, attempt>>

Enter(p) ==
    /\ phase' = p
    /\ line' = 1
    /\ word' = 0
    /\ attempt' = 1
    /\ UNCHANGED file

\* Mutant: the identifiers stay selected when the words are read.
IdentifiedNoReset == mode' = "id" /\ Enter("zero")
Identified == ResetFe /\ Enter("zero")

\* reset_fe and read_i_i, done twice, with one more reset at the end.  Without
\* the 12V supply the identifiers read wrong and stay selected.
ReadIdentifiers ==
    /\ phase \in {"identify", "identify_again"}
    /\ \/ mode' = "id" /\ Exit("failure")
       \/ phase = "identify" /\ mode' = "id" /\ Enter("identify_again")
       \/ phase = "identify_again" /\ Identified
    /\ UNCHANGED cells

\* Mutant: the attempts are not counted.
RetryUncounted == UNCHANGED <<phase, file, line, word, attempt>>
Retry == attempt' = attempt + 1 /\ UNCHANGED <<phase, file, line, word>>

\* Mutant: one word too many.
LastWordOver == word = FLASH_WORD_SIZE
LastWord == word + 1 = FLASH_WORD_SIZE

\* After the last attempt prog_to_0 goes on to the next word in silence.
ProgramToZero ==
    /\ phase = "zero"
    /\ ProgramPulse(word, {})
    /\ mode' = "program_verify"
    /\ IF cells'[word] # {} /\ attempt < PROGRAM_ATTEMPTS
       THEN Retry
       ELSE IF LastWord
            THEN Enter("check_zero")
            ELSE word' = word + 1 /\ attempt' = 1 /\ UNCHANGED <<phase, file, line>>

\* check_value(0), with the verify command still selected.
CheckZero ==
    /\ phase = "check_zero"
    /\ IF \A w \in Words : ReadsAs(w, {})
       THEN ResetFe /\ Enter("erase")
       ELSE Exit("failure") /\ UNCHANGED mode
    /\ UNCHANGED cells

\* Every turn erases the whole device and verifies it up to the first word that
\* is not all ones.
Erase ==
    /\ phase = "erase"
    /\ ErasePulse
    /\ IF \A w \in Words : cells'[w] = Bits
       THEN mode' = "read" /\ Enter("check_ones")
       ELSE IF attempt < ERASE_ATTEMPTS
            THEN mode' = "erase_verify" /\ Retry
            ELSE mode' = "read" /\ Exit("failure")

CheckOnes ==
    /\ phase = "check_ones"
    /\ IF \A w \in Words : ReadsAs(w, Bits)
       THEN ResetFe /\ Enter("open")
       ELSE Exit("failure") /\ UNCHANGED mode
    /\ UNCHANGED cells

\* The file is opened only now, and again for the check.
Open ==
    /\ phase \in {"open", "reopen"}
    /\ \/ Exit("failure")
       \/ phase = "open" /\ Enter("program")
       \/ phase = "reopen" /\ Enter("check")
    /\ UNCHANGED <<cells, mode>>

NextLine ==
    /\ line' = line + 1
    /\ word' = 0
    /\ attempt' = 1
    /\ UNCHANGED <<phase, file>>

\* get_line, but for a line of data.  fgets returns NULL at the end of the file,
\* and as well when it cannot read a line: both are taken for the end.
GetLine ==
    /\ phase \in {"program", "check"} /\ word = 0 /\ attempt = 1
    /\ \/ phase = "program" /\ ResetFe /\ Enter("reopen")
       \/ phase = "check" /\ Exit("success") /\ UNCHANGED mode
       \/ LineIs("blank") /\ NextLine /\ UNCHANGED mode
       \/ LineIs("invalid") /\ ResetFe /\ Exit("failure")
    /\ UNCHANGED cells

\* Set-up and verify command go to the first word of the line, the data to its
\* own word.  When only that one is behind the device, the device takes the
\* verify command for the data: its first word is programmed to that.
WriteWord(first, w, value) ==
    \/ w \in Words /\ ProgramPulse(w, value)
    \/ w \notin Words /\ first \in Words /\ ProgramPulse(first, {})
    \/ first \notin Words /\ UNCHANGED cells

Selected(first, w) ==
    \/ w \in Words /\ mode' = "program_verify"
    \/ w \notin Words /\ first \in Words /\ mode' \in Modes \ {"id"}
    \/ first \notin Words /\ UNCHANGED mode

\* The reset of prog_ep goes to the first word of the line as well.
ResetLine(first) == IF first \in Words THEN ResetFe ELSE UNCHANGED mode

ProgramWord ==
    /\ phase = "program"
    /\ LineIs("data")
    /\ LET first == file[line].addr
           w == first + word
           value == file[line].data[word + 1]
       IN  /\ WriteWord(first, w, value)
           /\ \/ /\ w \in Words => cells'[w] = value
                 /\ Selected(first, w)
                 /\ IF word + 1 < Len(file[line].data)
                    THEN word' = word + 1 /\ attempt' = 1 /\ UNCHANGED <<phase, file, line>>
                    ELSE NextLine
              \/ /\ w \in Words => cells'[w] # value
                 /\ \/ attempt < PROGRAM_ATTEMPTS /\ Selected(first, w) /\ Retry
                    \/ attempt = PROGRAM_ATTEMPTS /\ ResetLine(first) /\ Exit("failure")

\* Mutant: the file is read through without looking at the device.
CheckLineUnchecked ==
    /\ phase = "check"
    /\ LineIs("data")
    /\ NextLine
    /\ UNCHANGED <<cells, mode>>

CheckLine ==
    /\ phase = "check"
    /\ LineIs("data")
    /\ \/ /\ \A k \in 1..Len(file[line].data) :
                MayReadAs(file[line].addr + k - 1, file[line].data[k])
          /\ NextLine
       \/ /\ \E k \in 1..Len(file[line].data) :
                MayReadOther(file[line].addr + k - 1, file[line].data[k])
          /\ Exit("failure")
    /\ UNCHANGED <<cells, mode>>

Next ==
    \/ ReadIdentifiers
    \/ ProgramToZero
    \/ CheckZero
    \/ Erase
    \/ CheckOnes
    \/ Open
    \/ GetLine
    \/ ProgramWord
    \/ CheckLine

Spec == Init /\ [][Next]_vars

\* One process at high priority, which nothing interrupts.
FairSpec == Spec /\ WF_vars(Next)

-----------------------------------------------------------------------------
Covered(w) ==
    \E k \in DOMAIN file :
        /\ file[k].kind = "data"
        /\ w \in file[k].addr..(file[k].addr + Len(file[k].data) - 1)

\* What a line has for the device is there.
Holds(k) ==
    file[k].kind = "data" =>
        \A i \in 1..Len(file[k].data) :
            file[k].addr + i - 1 \in Words
                => cells[file[k].addr + i - 1] = file[k].data[i]

\* "Programmed succesfully" is printed only when every line that the check has
\* read is in the device, also where lines overlap, and every word that the file
\* has nothing for is blank (high_pr, FLASH.C:166-179).
SuccessMeansImage ==
    phase = "success" =>
        /\ \A k \in DOMAIN file : k < line => Holds(k)
        /\ \A w \in Words : ~Covered(w) => cells[w] = Bits

\* What the message says: the file is in the device (FLASH.C:175-179).  It is not
\* when fgets failed before the end (FLASH.C:435-441).
SuccessMeansWholeFile ==
    phase = "success" => \A k \in DOMAIN file : Holds(k)

\* The program never takes the identifiers for data, however the commands
\* before a read left the device.
ChecksReadCells ==
    phase \in {"zero", "check_zero", "erase", "check_ones", "program", "check"}
        => mode # "id"

\* A device that never takes a pulse, or a file that overlaps itself, ends the
\* program all the same.
Terminates == <>(phase \in {"success", "failure"})
=============================================================================
