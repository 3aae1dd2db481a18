-------------------------------- MODULE Shell --------------------------------
(***************************************************************************)
(* The shell with its commands: the session of Tfsh, in which find and     *)
(* benchmark run from one prompt to the next, and listen beside them may   *)
(* end the program in the middle of either.  What the commands do is a     *)
(* stutter of the session, or its OtherCommand.                            *)
(***************************************************************************)
EXTENDS Find, Benchmark

shell_vars == <<vars, command, files, walk, bench>>

ShellTypeOK ==
    /\ TypeOK
    /\ command \in {"none", "find", "benchmark"}
    /\ tree \in [DOMAIN tree -> {"file", "dir"}]
    /\ descriptors \subseteq Fds
    /\ leaked \subseteq Fds
    /\ command = "find" => FindTypeOK
    /\ command = "benchmark" => BenchTypeOK

ShellInit ==
    /\ Init
    /\ command = "none"
    /\ tree \in Trees
    /\ descriptors = {} /\ leaked = {}
    /\ FindInit
    /\ BenchInit

\* The descriptors go with the logical process that they belong to.
Session ==
    /\ \/ command = "none" /\ Next
       \/ Listen
    /\ IF pid' = pid /\ logged \cap {pid} = logged' \cap {pid}
       THEN UNCHANGED <<descriptors, leaked>>
       ELSE descriptors' = {} /\ leaked' = {}
    /\ UNCHANGED <<command, tree, walk, bench>>

ShellNext ==
    \/ Session
    \/ phase # "exited" /\ FindStep /\ UNCHANGED bench
    \/ phase # "exited" /\ BenchStep /\ UNCHANGED walk

ShellSpec == ShellInit /\ [][ShellNext]_shell_vars

\* The process that runs the commands goes on, and its calls return.
ShellFairSpec ==
    /\ ShellSpec
    /\ WF_shell_vars(command = "find" /\ phase # "exited" /\ FindStep /\ UNCHANGED bench)
    /\ WF_shell_vars(command = "benchmark" /\ phase # "exited" /\ BenchStep /\ UNCHANGED walk)

-----------------------------------------------------------------------------
\* Whatever the commands do, the session is one of Tfsh: a command leaves it where it
\* was, and at its end goes back to the prompt or, if it was the one of the command
\* line, to the end (TFS_UTIL.C:128-149).
KeepsSession == Spec

\* What a command is about to close is open, and tfs_close has not been called for it:
\* each is closed once, on every way to the end, and never one that another level of
\* the walk holds (FIND.C:16-42, BENCH.C:83-132).
ClosedOnce ==
    /\ command = "find" =>
          /\ \A i \in DOMAIN frames : frames[i].fd \in descriptors \ leaked
          /\ \A i, j \in DOMAIN frames : frames[i].fd = frames[j].fd => i = j
    /\ command = "benchmark" => (label \in Holding <=> fd \in descriptors \ leaked)

\* When a command is over it has given back all that it took: no descriptor is open
\* but one whose close has failed, and no buffer is allocated, whatever else failed
\* and wherever (FIND.C:14-45, BENCH.C:41-132).
CommandsCleanUp == command = "none" => descriptors \subseteq leaked /\ ~buffer

\* Every command comes to its end, unless listen ends the program first or a path
\* overruns its buffer: find does not go round in circles (FIND.C:28-40,
\* BENCH.C:63-113).
CommandsEnd == command # "none" ~> command = "none" \/ phase = "exited" \/ overrun
=============================================================================
