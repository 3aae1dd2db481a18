# Verification of TTM50 and TFS

TLA+ models, TLC runs and TLAPS proofs for the Transtech SCSI TRAM software
(`src/TTM50`) and the Transtech File System (`src/TFS`): C programs of 1993 for
transputers.  The SCSI and file system libraries, the file server, the
multiplexers and the routers are delivered as binaries only.  What is modelled
is the C source that uses them; their behaviour enters as environment actions
taken from the manual pages and from how the source relies on them, and marked
external in `PROJECT.json`.

## 1. Inventory

| Component | Source | State it keeps | Operations | How it interacts | What is hard |
|---|---|---|---|---|---|
| SCSI target driver | `TTM50/EXAMPLES/TARGET.C` | residue, direction, `busy`, `working`, shared by all nexuses | one callback, with a branch per reason: command, data moved, disconnect, reselect, reset, abort | called back by the library under its lock | it gives the lock up in the middle of a callback; terminations may arrive at any moment, more than once |
| Flash programmer | `TTM50/EXAMPLES/FLASH.C` | the EPROM's cells and its command register; the position in the hex file | identify, program to zero, check, erase, check, program the file, check the file | memory-mapped device, host files | pulses that do not take, three nested bounded loops, an exit from anywhere |
| Disk test | `TTM50/EXAMPLES/DISKTEST.C` | sizes, one buffer, the start of the disk | size, fill, write, read, compare, repeat | `scsi_command` | sizes at their boundaries, transfers that half succeed, one buffer used for both directions |
| Device probe, unit test | `TTM50/EXAMPLES/PROBE.C`, `TEST.C` | none | scan addresses, one command | `scsi_command` | nothing that lasts from one device to the next |
| File system shell, session | `TFS/EXAMPLES/TFSH/TFS_UTIL.C` | `pid`, the prompt `cwd` | mount, logon, logoff, offline, terminate, other commands; `listen` | calls into the TFS library, which keeps its own side; `listen` runs beside it | state on two sides of an interface, every call may fail |
| Shell of a remote client | `TFS/EXAMPLES/TFSH/RTFSH.C` | `pid` | connect, commands, disconnect | channels to the server | - |
| find | `TFS/EXAMPLES/TFSH/FIND.C` | a descriptor and a path per level of the walk | recursive walk | a command of the shell; TFS library | descriptors run out; any call fails at any depth; `.` and `..` |
| benchmark | `TFS/EXAMPLES/TFSH/BENCH.C` | a descriptor, a buffer | writes, closes, opens and reads a file | a command of the shell; TFS library | clean-up on every exit path |
| API test clients | `TFS/EXAMPLES/RTFS/FULLTEST.C`, `TEST.CFS` | files, directories, mask and current directory at the server | eleven tests in a row | several clients on one server | they run at once; a run starts from what an earlier one left |
| API test, local | `TFS/EXAMPLES/TFS/FULLTEST.C` | the same, and the mounted file system | the same tests, `statcmp` | linked to the TFS library | cut off it takes the file system with it; a test that cannot fail |
| Tests of contents | both `FULLTEST.C` | a file, and a buffer that shadows it | overwrite, random reads, random writes | TFS library | random windows at the ends of the file, gaps, writes nobody looks at |
| mkfs | `TFS/EXAMPLES/TFS/MKFS.C` | none | init, mkfs, terminate | TFS library | goes on after failures |
| IO router user | `TFS/EXAMPLES/IOROUTER/USER.C`, the `.CFS` networks | none | write and read a file | channels | binaries on the other side |

What makes each correct:

* target driver - one command at a time, each moved completely, in its own
  direction and in pieces that fit; a terminated command is given up and no
  other is; the driver becomes free again, and is right again, whatever upset it;
* flash programmer - success means the image is there; no read takes the
  identifiers for data; it always ends;
* disk test - transfers that fit the buffer, the CDB and the disk; a pass means
  the data got to the disk; a disk that does what it says it does is not accused;
* shell - the pid is live or -1; the prompt does not hide a session or a disk;
  success leaves the file system down; a command ends, gives back what it took
  and leaves the session as it was;
* find - what is printed is what was asked for, all of it but for what is
  reported, and in order;
* test clients - a correct server is not blamed and one with a defect is; clients
  keep out of each other's home;
* tests of contents - a faithful file is not blamed; one that differs from its
  shadow does not pass.

## 2. Modules

    TargetDriver      the callback of TARGET.C
    ScsiTarget        EXTENDS TargetDriver: the library around it; properties
    TargetPromise     what the driver promises, without flags, lock or callbacks
    TargetInvariants  EXTENDS ScsiTarget: inductive invariants
    TargetProofs      theorems for every environment
    TargetCalmProofs  what holds unless the target is upset, and that the driver
                      implements TargetPromise
    Flash             FLASH.C and the EPROM             FlashProofs
    DiskTest          DISKTEST.C and the disk           DiskTestProofs
    Tfsh              the shell's session
    TfsFiles          EXTENDS Tfsh: the tree and the descriptors of a session
    Find, Benchmark   EXTEND TfsFiles: the two commands
    Shell             EXTENDS both: session, commands, listen   ShellProofs
                                                        FindProofs (walk and types)
    FullTest          the tests of the name space, their clients and the server
    FullTestInvariants  EXTENDS FullTest: inductive invariants
                                                        FullTestProofs
    FileTests         the tests of contents, and a file that may lose writes
                                                        FileTestsProofs
    MC...             instances of the above for TLC

### Target driver

`residue, direction, busy, working` are the fields of the driver's state;
`target[n]` is the library's `struct scsi_target` for a nexus n, `lock` is the
lock of `scsi_lock`, and `stage[n]` says where the process of the nexus is: idle,
in a call of the callback, inside the callback with the lock given up, or
waiting for the library to act on a reply.  A callback is one atomic action,
because the library calls it with the lock held; the disconnect branch is two
(`Disconnected`, `Relock`), because the driver calls `scsi_unlock` and `scsi_lock`
there.  `TargetCommand`, `DataTransferred`, `Reselected`, `Terminated` are the
other branches.  `ScsiTarget` adds the library: `Select`, `Transfer`,
`Disconnect`, `Reselect`, `Finish`, and the terminations `Interrupt` (of a
connected command) and `Signal` (while nothing is connected).  Its variables
`moved`, `condemned`, `signalled`, `upset` and `crossed` belong to the environment
and only observe.

`ServesAsPromised` is a refinement: under the mapping owner = the nexus whose
command is served, left = the residue, aside = is it disconnected?, the driver
does only what `TargetPromise` allows.

A termination may be reported any number of times: "a single reset can cause
callback to be called multiple times with this value of reason" (MAN3/TARGET:186),
and any nexus may be aborted while the command of another is disconnected.
Neither is bounded or assumed away, in a run or a proof.  The driver is not right
in all of this: `working` is cleared by the first report, and a second one then
frees the driver under a disconnected command.  From there on the target is
`upset`, until every nexus has become idle again (`OthersIdle`); `crossed` says
that a nexus was aborted while another was disconnected.  The properties say
which of them they need: `TypeOK`, `ChunkFits`, `NoBusyLeak` and `BusyEnds` neither,
`RestartOnlyTerminated` both, the others that the target is not upset.  The same
is in `TargetPromise`, which promises nothing between `BeUpset` and `Settle`.  Two
runs show the two failures themselves (section 4).

### Flash programmer

A word is the set of its one bits; a program pulse clears any subset of what it
should clear, an erase pulse sets anything.  `mode` is the command register:
`ReadsAs` is how a read depends on it.  A line of a hex file may have any address,
for nobody compares it with the device: behind the last word a write changes
nothing, except that the commands of `prog_ep` go to the first word of the line,
which may still be on the device and take the verify command for data
(`WriteWord`), and a read returns anything (`MayReadAs`, `MayReadOther`).  `fgets`
returns NULL at the end of the file and as well when a read fails: `GetLine` takes
either for the end, at any line.  A step is one turn of a loop.  `phase`
follows `high_pr`; `line`, `word` and `attempt` are the loop counters.  The text
of a hex line is reduced to its kind, its address and its words.

### Disk test

The unit of data is the word that the loops step by.  `Wrapped` is the width of
an int and `CdbBlocks` the two bytes of the CDB.  A write may leave anything on
the disk, a read may leave anything unread, and both may report any combination
of result, status and residue; `honest` records whether they did all that they
said they had done.

### Shell session

`pid`, `cwd` and the phase are the shell's; `mounted`, `logged` and `refused` the
library's.  Each command is one action, with an outcome for each way its call may
end; the commands that change nothing of the session are `OtherCommand`, and so is
`source`: the commands of its file run one by one as any others do, also in a shell
that was given `source` on its command line (`Done`).
`Listen` is the process beside it, which may end the program at any moment.

### Commands of the shell

`TfsFiles` adds to the session what its commands work on: `tree`, from paths to
kinds (`IsTree`: with a path it has the directories above it); `descriptors`, those open for the logical process of the session; and
`leaked`, those that `tfs_close` has failed for.  `TfsOpen`, `TfsClose` and
`TfsCloseFails` are the library's; every call may fail, and all fail that are
made for a process that is not logged on (`Live`).

`Find`: the recursion of `_find` and `find_dir` is the stack `frames`, one record
for each `find_dir` that is running: its descriptor, the path it prints, the
directory this is, and the entries it has not read yet.  `Visit` is `_find`;
`FindReadEntry` is one turn of the loop of `find_dir` and `FindClose` its end.  A
read that fails looks to the loop like the end of the directory, so `FindClose` is
possible before the entries are used up; `cut` records where.  `reported` are the
paths with an error message.  `entry_path` has room for a path of 255 characters;
`LongPaths` are those that have more, and `FindOverrun` is the `strcat` that writes
one of them behind the end of the buffer.  What follows is undefined: the model
stops the walk there, `overrun` says so, and `FindComplete` and `CommandsEnd` speak of
walks that come to an end.  The entries come in one order - `.`, `..`, an
unused one, then the names - because the order changes nothing but that of the
output.

`Benchmark`: `label` is the next call or the label to which the code jumps.
`Holding` are those at which `fd` is the program's to close.

`Shell` composes them: `Session` is a step of `Tfsh` at a prompt with no command
running, or `Listen` at any moment; a command runs from one prompt to the next,
with `Listen` in between.  `KeepsSession` is the refinement: seen through the
variables of `Tfsh`, whatever the commands do is a session of `Tfsh`, so that what
holds there holds here.

### Tests of the name space

`tree` maps a path to an inode; `cwd` and `umask` are what the server keeps for
each logical process.  A step is a call, together with the close that follows an
open.  `CutOff` stops a client between any two calls; `Run` starts it again.
The operators of the server (`Mkdir`, `Open`, `CanLink`, ...) are external.  The
three tests of contents are one step that leaves their file behind.

`Shared` says that `tfs_errno` may be that of another client, for it is one variable
for all the logical processes (MAN3/ERRNO:150).  Two tests decide by it:
`test_umask` whether `tfs_umask` has failed, after which it returns, and `test_create`
whether the directory was there already (`MkdirFailed`).  `SameStat` is what `memcmp`
may say of two structures whose padding nobody has set: the remote `test_fstat` may
find a difference where there is none.

`clients`, `local` and `defect` are chosen once.  `local` is the program linked to
the file system: alone, in the root directory, with `Mount` and `Terminate`
instead of connecting, and with `statcmp`.  When it is cut off, the entries that
the cache had not written may be `Lost`.  `defect` names one call that reports
success and does not do, or return, what it should (`KnownDefects`): the tests
are there to find it.  `Unseen` says which they do not, and why.  `FalseAlarmAt` names the four places where
a server without a defect is blamed.

### Tests of contents

A file of `SIZE` bytes beside the buffer that shadows it.  A write does what it
should or any damage, with or without an error; any call may fail; a read that
succeeds returns what the file holds.  `faithful` is true as long as every call
has done what it was asked to.  `test` and `at` are the place in the program;
`Return` is `serious_error` and `return`, which leaves the file open, and `Abort`
is an `assert` that fails.  Three things that the model keeps because the code
has them: `random(SIZE-BLOCK)` never draws the last window, so that only the gap
filling writes the last byte; the number of a round is stored in a byte and wraps;
and a final read that is short leaves the marks of the writes in the buffer that
is compared.

## 3. Plan

Done, in this order: target driver, its promise and proofs; flash programmer;
disk test; shell session; the name space tests of the clients; the tests of
contents and their proofs; the local program, its loss of cached entries and the
defects the tests are to find; find and benchmark, and the shell that runs them;
the proofs of the refinement of the target driver, of the name space tests and of
the walk of find; the proofs of what the name space tests find out.

Left, in the order of what it would add:

1. the bytes of a block that is not a multiple of four in `DiskTest`, and what a
   write that stores nothing does in its later trials;
2. the debug listener `err_mon` of `TFS/FULLTEST.C`, once it is known how long a
   message of the library can be.

## 4. Runs

| Run | Instance | Shows |
|---|---|---|
| `target` | 3 nexuses, 6 commands, buffer of 2 bytes, lengths up to 5, any terminations, fair | `TypeOK`, `ChunkFits`, `NoBusyLeak`, `OneAtATime`, `CompleteMeansAll`, `DirectionKept`, `ReselectOnlyLive`, `RestartOnlyTerminated`, `ParkedStateStable`; the driver implements `TargetPromise` (`ServesAsPromised`); `EveryCommandEnds`, `BusyEnds` |
| `target_two_resets` | violation | two reports of one reset resume a terminated command |
| `target_cross_abort` | violation | an abort of one nexus restarts the command of another |
| `flash` | 3 words of 2 bits, 9 files, 3 attempts | `SuccessMeansImage`, `ChecksReadCells`, `Terminates` |
| `flash_read_error` | violation | a read of the hex file that fails is taken for its end, and the program reports success |
| `disk` | 6 block sizes, 6 block counts, ints of 6 bits | `TransferFits`, `PassedMeansStored`, `HonestDiskPasses` |
| `filetests` | a file of 4 bytes, windows of 2, bytes of one bit, 2 or 3 rounds | `FaithfulPasses`, `PassMeansStored`, `Ends` |
| `shell` | 2 logical processes with 3 descriptors, three trees, one of them with a path that is too long, 2 calls of find, 2 blocks | the session's `PidIsLoggedOn`, `PromptIsModest`, `SuccessIsClean`; `FindComplete`, `PrintsInOrder`, `ClosedOnce`, `CommandsCleanUp`, `CommandsEnd`; `KeepsSession` |
| `shell_long_path` | violation | find writes a path over the end of its buffer |
| `fulltest` | 2 clients (as in `TEST.CFS`) or the local program, 2 runs each (`DefectBound`), 2 files in the big directory, 9 defects | `NoFalseAlarm`, `DefectsReported`, `NamesBounded`, `HomesApart` |
| `fulltest_fstat` | violation | `statcmp` cannot find a difference |
| `fulltest_errno` | violation | a client blames `tfs_umask` for the `tfs_errno` of another |

Why the bounds are enough.  Target: three nexuses are a disconnected one, one
that holds the bus and one that interferes with both; with a buffer of two bytes
length 5 takes three transfers, the last partial, 2 is an exact multiple and 0
is nothing.  The number of terminations has no bound.  Flash: two bits let a pulse
take partly, three words let lines overlap, leave a gap, end at the last word, run
over it and lie behind it; the thousand attempts of `erase` differ from three only
in number.  Disk: the block sizes are
below, at and above each comparison, the counts reach the wrap-around, and the
pattern wraps as well.  Contents: with 4 bytes, windows of 2 and a check from one
byte before, a window overlaps the one before it, is clipped at the beginning,
leaves a gap before, after or between, and the number of the round wraps; the
proofs are for every size.  Shell: one tree is three levels deep, which three
descriptors are just enough for, and not when a failed close has kept one;
another is wide, and is walked by two paths in a row; the third has a file whose
path is too long, which stands for the tenth level below names of 27 characters
(`TFS_NAME_MAX`, within the 16 descriptors of a process).  Two logical processes are the
session's and one that a logon over it leaves behind.  The proofs cover any tree
and any number of either.  Clients:
two runs are a run on what another left; a third finds nothing that a second
could not leave, and the proofs cover any number of clients and runs.  Where the
server has a defect only one of two clients runs a second time (`DefectBound`).

`CHECK_DEADLOCK FALSE` is set where the program ends: the flash programmer, the
disk test, the tests of contents, the shell and the clients.  The target driver
never ends and is checked for deadlock.

Symmetry is used over the nexuses in the two violation runs of the target and over
the clients in the runs of `FullTest`, runs of safety properties only.

What the runs found, beside what they confirm:

* `statcmp` of the local program compares every field with itself
  (`TFS/FULLTEST.C:705-712`), so that its test of `fstat` cannot fail;
* the remote `test_fstat` compares the padding of two structures (`RTFS/FULLTEST.C:744`)
  and may report a difference between equal answers;
* `tfs_errno` of another client makes `test_umask` blame the server and leave out
  its rest (`RTFS/FULLTEST.C:118`), and `test_create` take a directory that is there
  for one that cannot be made (203);
* a read error of the hex file ends in "programmed succesfully" (`FLASH.C:435`);
* `find` overruns its buffer ten levels down (`FIND.C:34-36`);
* read beside the model, and in no run: the comments "4 attempts only" (`FLASH.C:417`,
  `542`) stand at loops that make three attempts; and `logon` does not look at the
  prompt that the manual makes its condition (`MAN1/TFSH:107`), so that a logon over
  a logon leaves the first logical process logged on until the file system goes
  down;
* the `working` flag of the target driver cannot tell one report of a
  termination from two, nor whose it was (the two violation runs of the target);
* `test_link` of the test clients is the only test that cannot be run again after
  it was cut off: `link2.test` is left, and the server gets the blame for refusing
  to link.  This, the padding and the two uses of `tfs_errno` are the exceptions of
  `NoFalseAlarm` (`FalseAlarmAt`);
* a directory that find cannot read to its end is the one failure that it does not
  report (`FIND.C:26`): the exception `cut` in `FindComplete`;
* in a second run the least size that `test_dir` asks of the big directory is
  reached by the entries of the first: `Unseen`.

### Fairness

`FairSpec` of the target driver has weak fairness of the library's progress with
each nexus it holds - it has nothing else to wait for - and strong fairness of
`Resume`, because `scsi_lock` queues the processes that wait for it: whoever waits
gets the lock although others keep taking it in between.  There is no fairness
of `Select` or of terminations.  `FairSpec` of the flash programmer is weak
fairness of its one process, which runs at high priority and is never preempted.
That of `FileTests` is weak fairness of its one process: its calls return, with a
result or an error.  `ShellFairSpec` is the same for each command, and says
nothing of the user, who need not type anything, nor of `listen`, which need not
get a message.  The other models have only safety properties and no fairness.

## 5. Proofs

Every theorem holds for all values of the constants that satisfy the named
assumptions of the modules: any set of nexuses and commands, any buffer size, any
hex file with any addresses, any disk, any size of a file, any tree, any number of
logical processes and descriptors, any number of test clients.

* `TargetProofs`: `TypeCorrect`, `TransfersFit`, `BusyReleased`, by `DriverInv`.
  Neither property is inductive.  That a transfer fits needs to know that the
  residue is at least the length of the transfer in progress (`MovingInv`) and
  positive on the way through a disconnect (`TurningInv`).  That the residue is
  positive when a command resumes needs that a set `working` flag stands for a
  disconnected command with bytes left (`WorkingInv`); that nobody else changed
  it needs the lock (`LockInv`).  No assumption on terminations is made.
* `TargetCalmProofs`: `SafeInvariant` says that `SafeInv` is inductive: `DriverInv`
  always, `CalmInv` while the target is not upset, and `IdleInv`, by which nothing of
  an ended command is left with its nexus.  When an upset target settles every nexus
  is idle, and `CalmInv` follows from `DriverInv` and `IdleInv` alone; so no
  assumption on terminations is made here either.  In `CalmInv`, `ParkedInv` is the
  core: the first report is what clears the flag of a disconnected command, so until
  then the command has its flag and the driver stays busy, and afterwards, unless
  there is a second report, nothing can set the flag again before the command wakes
  up.  `CountInv` ties the initiator's data pointer to the residue,
  `SavedDirectionInv` the saved direction to the command.  From it follow
  `MutualExclusion`, `GoodMeansComplete`, `DirectionSurvives`, `TerminatedNotResumed`
  and `ParkedStateUntouched`.  `RestartedWasTerminated` also needs `OwnInv`: unless
  another nexus was aborted (`crossed`), whatever clears the flag of a disconnected
  command condemns it.  `KeepsItsPromise` is the refinement, Spec =>
  ServesAsPromised: `CalmInv` makes the abstract owner unique (`OwnerIsKeeper`): at
  most one nexus is in a command, and one that is being terminated counts only
  while nothing is disconnected.  Then each step of the driver is shown to be a
  step of the promise or to change nothing that it speaks of.
* `FlashProofs`: `FlashTypeCorrect`, `SuccessIsTrue`, `ReadsCells`, by `FlashInv`:
  what is outside of the file is blank from the check for ones on (`BlankInv`),
  because programming touches only covered words, the first of a line that runs
  over the end included; the lines before the one in hand have been seen to hold,
  and the check changes nothing (`CheckedInv`), so lines that were programmed over
  each other are caught; the identifiers are never selected once the program is
  past them (`ModeInv`).  `SuccessIsTrue` speaks of the lines that the check has
  read: a read error cuts both passes short, and `flash_read_error` shows it.
* `DiskTestProofs`: `DiskTypeCorrect`, `TransfersAreExact`, `PassIsTrue`,
  `GoodDisksPass`, by `DiskInv`.  A pass is true because the buffer was cleared: a
  word that equals the pattern, which is never zero (`PatternIsNeverZero`), was
  read.  The lemmas on quotients bound the buffer and the CDB.
* `ShellProofs`, the session: `PidIsLive`, `PromptIsNoUnderstatement`, `SuccessLeavesNothing`,
  by `SessionInv`, which adds to the properties that nobody is logged on to a
  disk that is not mounted and what is known before the first prompt.
* `ShellProofs`, the commands: `CommandsKeepSession`, `ShellIsSound`, `EachClosedOnce`,
  `NothingKept`.  The first needs only that a command runs at a prompt or after the
  program has ended (`PhaseInv`), and carries the theorems of the session over.
  `HeldInv` is behind the others: the descriptors that are open and not leaked are
  exactly those of the frames, all different, or the one of the benchmark at a
  label of `Holding`; the lemmas `PushFrame`, `PopFrame` and `ReadFrame` say what
  that means for the stack.
* `FindProofs`: `WalkIsComplete`, `WalkIsInOrder`, `ShellTypes`.  The recursion is
  the stack, so the walk needs no induction over the tree, only an invariant of its
  steps, `WalkInv`: every path that was asked for has been printed, or lies under one
  that was reported, or under one that is left (`Covers`), where what is left
  (`Todo`) are the paths of the queue and the entries that the frames have not read.
  A visit takes one path off and puts its entries in its place (`Visited`); nothing
  is lost because a directory lists each of its names (`EntriesOf`) and all that is
  under it is under one of them (`UnderEntry`, `TreeOf`).  For the order, nothing
  that is left lies under another or above what has been printed (`InOrder`), and
  nothing is left twice (`LeftOnce`), which needs that the frames lie one below the
  other (`StackInv`).  Assumed are that a tree is one (`IsTree`) and that no name is
  one of the `Dots`.
* `FileTestsProofs`: `FileTypes`, `NoFalseAccusation`, `PassIsProof`.  That a
  faithful file is not accused follows from `Agreement`, which says for each step of
  each test which bytes of file and shadow agree: all of them in the first two
  tests; in the third those that are marked and, while the gaps are being filled,
  those that the search has passed.  `PassIsProof` follows from
  the last comparison alone, whatever was stored before it.
* `FullTestProofs`, the homes: `NameSpaceTypes`, `NameGrowsByRuns`, `HomesKeptApart`, by
  `ClientInv`.  Every step of every test is first brought to one form (`Change`,
  `Moved`): at the server the client changes at most one entry of its own home, its
  current directory or its mask.  Then a client that is connected is in its home
  (`PlacedInv`), which keeps its entries away from those of others; and a directory
  with a made-up name was left by this run or by an earlier one (`LeftInv`), so that
  the search for an unused name is over after as many letters as there were runs.
* `FullTestProofs`, the verdicts: `DefectsAreReported`, `NoFalseAlarmIsRaised`, by
  `TrackInv`, which holds for every defect and for none.  `TreeInv`: whatever is in
  the tree, also after a cut, has the kind that its name says, the only link is
  `link2.test`, and nothing lies in a directory of `test_rmdir`; so a call can never
  find the wrong kind of entry, `Links` counts one or two (`LinksCounted`) and the
  directory to be removed is empty.  `Placed`: where a client is and with which mask,
  whatever has failed.  `FirstRun`: the big directory of a first run holds what that
  run has put there, so that the size it asks for is exact (`BigDirectory`,
  `EntriesCounted`).  `OnTrack` speaks of a client that has reported nothing: the
  files that its next call relies on are there with the mode, size and links that they
  should have, or as the defect leaves them, and `Found` lists the defects that the
  tests behind it exclude.  Each test keeps this for its own client (`Stays`: the
  lemmas `...Tracks`), leaves it alone for the others, all of whose paths lie in
  their own homes (`Apart`), and a cut or a new run starts it again.  At
  `test_disconnect` `Found` leaves only the defects of `Unseen`: mkdir goes because
  the client stands in a directory (`DirIsMade`).  Without a defect every call passes
  (`...IsQuiet`), but for a link whose name is taken.
  `NamesAssumption` says that the made-up names differ from each other and from
  all others, and that no home and no numbered file is called like a test's file;
  the set of clients is finite.

Only model-checked: liveness (`EveryCommandEnds`, `BusyEnds`, `Terminates`, `Ends`,
`CommandsEnd`), which is out of the prover's reach, and the violation runs.  Every
other property of a run is a theorem.

## 6. Not modelled

The libraries, the server, the multiplexer and the routers have no source.
`PROBE.C`, `TEST.C`, `MKFS.C`, `RTFSH.C` and `USER.C` are straight lines of calls
that keep no state between them: a model would restate them.  `err_mon` of
`TFS/FULLTEST.C` prints what the library sends and keeps nothing.  Arguments,
printing, timing and the text of hex lines are left out of the modelled programs,
as are the `.CFS` networks but for the number of clients.

What the models simplify, beside that:

* the addresses of a hex file are numbers of words: an address that is no multiple
  of a word, and one that is OR-ed into the device again (`FLASH.C:494`), are not
  told apart from others, and a write behind the device changes nothing else;
* nothing is said of a program after it has written over the end of the buffer of
  find, nor of the other buffers: the 256 characters that `test_rmdir` appends to
  (`NamesBounded` says how many runs it takes);
* in the disk test the bytes of a block beyond the last whole word, and what a write
  that stores nothing does in a later trial, which writes the same pattern;
* in the name space tests a call and the `tfs_close` after it are one step, and a
  close of a descriptor that has just been opened does not fail; `access`, which
  `test_rmdir` trusts, tells the truth;
* properties that excuse a case name it: `refused` (the library could not go down),
  `leaked` (a close that failed), `cut` (a directory not read to its end), `Unseen`,
  `FalseAlarmAt`, `upset`, `crossed`, `overrun`.
