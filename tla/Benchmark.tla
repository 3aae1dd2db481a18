------------------------------ MODULE Benchmark ------------------------------
(***************************************************************************)
(* The command benchmark of the shell, TFSH/BENCH.C: a file is written,    *)
(* closed, opened and read, with a buffer that every way out has to free   *)
(* and a descriptor that one way out has to close and another must not.    *)
(***************************************************************************)
EXTENDS TfsFiles

CONSTANT TIMES      \* blocks that are written and read

ASSUME TimesAssumption == TIMES \in Nat \ {0} /\ "temp.dat" \in Names

VARIABLES
    label,          \* where it is
    buffer,         \* is the buffer allocated?
    fd,             \* what tfs_open has returned
    count

bench == <<label, buffer, fd, count>>

Labels == {"write", "close", "reopen", "read", "err_close", "err_exit"}

BenchTypeOK ==
    /\ label \in Labels
    /\ buffer \in BOOLEAN
    /\ fd \in Fds \cup {-1}
    /\ count \in 0..TIMES

BenchInit == label = "err_exit" /\ buffer = FALSE /\ fd = -1 /\ count = 0

-----------------------------------------------------------------------------
\* tfs_open, which may make the file but not of a directory, and where to go then.
Open(made, then) ==
    /\ count' = 0
    /\ \/ /\ \A path \in made : ~IsDir(path)
          /\ \E new \in Fds : TfsOpen(new) /\ fd' = new
          /\ tree' = [path \in DOMAIN tree \cup made |-> IF path \in made THEN "file" ELSE tree[path]]
          /\ label' = then
       \/ fd' = -1 /\ label' = "err_exit" /\ UNCHANGED files

\* The commands with wrong arguments, and without memory, do nothing
\* (OtherCommand).
BenchStart ==
    /\ command = "none" /\ phase = "prompt"
    /\ command' = "benchmark"
    /\ buffer' = TRUE
    /\ Open({<<"temp.dat">>}, "write")
    /\ UNCHANGED vars

\* The labels at which fd is to be closed.
Holding == {"write", "close", "read", "err_close"}

\* A loop of calls that each may fail.
Loop(from, then) ==
    /\ command = "benchmark" /\ label = from
    /\ \/ Live /\ count + 1 < TIMES /\ count' = count + 1 /\ UNCHANGED label
       \/ Live /\ count + 1 = TIMES /\ count' = 0 /\ label' = then
       \/ UNCHANGED count /\ label' = "err_close"
    /\ UNCHANGED <<vars, command, files, buffer, fd>>

BenchWrite == Loop("write", "close")

\* Mutant: the file is closed as it was after the writing.
BenchReadToClose == Loop("read", "close")
BenchRead == Loop("read", "err_close")

\* Mutant: the failed close is tried again.
CloseFailedNot == "err_close"
CloseFailed == "err_exit"

BenchClose ==
    /\ command = "benchmark" /\ label = "close"
    /\ \/ TfsClose(fd) /\ label' = "reopen"
       \/ TfsCloseFails(fd) /\ label' = CloseFailed
    /\ UNCHANGED <<vars, command, tree, buffer, fd, count>>

BenchReopen ==
    /\ command = "benchmark" /\ label = "reopen"
    /\ Open({}, "read")
    /\ UNCHANGED <<vars, command, buffer>>

BenchErrClose ==
    /\ command = "benchmark" /\ label = "err_close"
    /\ TfsClose(fd) \/ TfsCloseFails(fd)
    /\ label' = "err_exit"
    /\ UNCHANGED <<vars, command, tree, buffer, fd, count>>

\* Mutant: the buffer is freed only when there was a file.
FreeIfOpened == buffer' = (fd = -1)
Free == buffer' = FALSE

BenchErrExit ==
    /\ command = "benchmark" /\ label = "err_exit"
    /\ Free
    /\ End
    /\ label' = "err_exit" /\ fd' = -1 /\ count' = 0
    /\ UNCHANGED files

BenchStep ==
    BenchStart \/ BenchWrite \/ BenchClose \/ BenchReopen \/ BenchRead \/ BenchErrClose \/ BenchErrExit

=============================================================================
