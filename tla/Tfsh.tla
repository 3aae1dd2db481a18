-------------------------------- MODULE Tfsh --------------------------------
(***************************************************************************)
(* A session of the TFS shell, TFS/EXAMPLES/TFSH/TFS_UTIL.C: the process   *)
(* that runs tfsh and its commands, the listen process beside it that      *)
(* prints the debug messages of the file system, and of the file system    *)
(* library as much as the session depends on: whether a disk is mounted    *)
(* and which logical processes are logged on to it.                        *)
(***************************************************************************)
EXTENDS Integers

CONSTANTS
    TFS_MAX_PROCS,      \* logical processes that may be logged on at once
    MESSAGE_SIZE,       \* of the buffer that listen has for a message
    Lengths             \* lengths that a debug message may be sent with

ASSUME SessionAssumption ==
    /\ TFS_MAX_PROCS \in Nat \ {0}
    /\ MESSAGE_SIZE \in Nat
    /\ Lengths \subseteq Int

Pids == 0..(TFS_MAX_PROCS - 1)

VARIABLES
    phase,          \* where the program is
    once,           \* was it given a command, and so ends after it?
    pid,            \* the logical process of the session, or -1
    cwd,            \* what the prompt shows
    exit_code,
    \* The library.
    mounted,
    logged,         \* the logical processes that are logged on
    refused         \* did the library report that it could not go down?

shell == <<phase, once, pid, cwd, exit_code>>
library == <<mounted, logged, refused>>
vars == <<phase, once, pid, cwd, exit_code, mounted, logged, refused>>

Phases == {"start", "mount", "logon", "prompt", "terminate", "exited"}
Prompts == {"not mounted", "not logged on", "directory"}

TypeOK ==
    /\ phase \in Phases
    /\ once \in BOOLEAN
    /\ pid \in Pids \cup {-1}
    /\ cwd \in Prompts
    /\ exit_code \in {"none", "success", "failure"}
    /\ mounted \in BOOLEAN
    /\ logged \subseteq Pids
    /\ refused \in BOOLEAN

Init ==
    /\ phase = "start"
    /\ once \in BOOLEAN
    /\ pid = -1
    /\ cwd = "not mounted"
    /\ exit_code = "none"
    /\ mounted = FALSE
    /\ logged = {}
    /\ refused = FALSE

-----------------------------------------------------------------------------
\* The library's side of the calls.  Any of them may fail.
TfsMount == ~mounted /\ mounted' = TRUE /\ UNCHANGED <<logged, refused>>

TfsLogon(p) == mounted /\ p \in Pids \ logged /\ logged' = logged \cup {p} /\ UNCHANGED <<mounted, refused>>

TfsLogoff == pid \in logged /\ logged' = logged \ {pid} /\ UNCHANGED <<mounted, refused>>

\* tfs_terminate and tfs_offline log everybody off, or say that they could not.
TfsDown ==
    \/ mounted' = FALSE /\ logged' = {} /\ UNCHANGED refused
    \/ refused' = TRUE /\ UNCHANGED <<mounted, logged>>

-----------------------------------------------------------------------------
\* A command that has run ends the shell if it was given on the command line, but not
\* when that one is source and the file has further commands, which run like any other.
Done == phase' \in (IF once THEN {"prompt", "terminate"} ELSE {"prompt"})

\* main and the beginning of tfsh; with -n nothing is mounted.
Start ==
    /\ phase = "start"
    /\ \/ phase' = "exited" /\ exit_code' = "failure"
       \/ phase' \in {"mount", "prompt"} /\ UNCHANGED exit_code
    /\ UNCHANGED <<once, pid, cwd, mounted, logged, refused>>

MountFirst ==
    /\ phase = "mount"
    /\ \/ /\ phase' = "terminate"
          /\ UNCHANGED <<cwd, mounted, logged, refused>>
       \/ /\ TfsMount
          /\ phase' = "logon"
          /\ cwd' = "not logged on"
    /\ UNCHANGED <<once, pid, exit_code>>

\* The shell goes on when it could not log on.
LogonFirst ==
    /\ phase = "logon"
    /\ phase' = "prompt"
    /\ \/ pid' = -1 /\ UNCHANGED <<cwd, mounted, logged, refused>>
       \/ \E p \in Pids :
             /\ TfsLogon(p)
             /\ pid' = p
             /\ cwd' = "directory"
    /\ UNCHANGED <<once, exit_code>>

\* The commands.  One with the wrong arguments prints its usage and does nothing.
Logon ==
    /\ phase = "prompt"
    /\ \/ UNCHANGED <<pid, cwd, mounted, logged, refused>>
       \/ pid' = -1 /\ UNCHANGED <<cwd, mounted, logged, refused>>
       \/ \E p \in Pids :
             /\ TfsLogon(p)
             /\ pid' = p
             /\ cwd' = "directory"
    /\ Done
    /\ UNCHANGED <<once, exit_code>>

\* Mutant: the pid is kept.
ForgetPidNot == UNCHANGED pid
ForgetPid == pid' = -1

\* The session is over for the shell even when the library did not end it.
Logoff ==
    /\ phase = "prompt"
    /\ TfsLogoff \/ UNCHANGED library
    /\ ForgetPid
    /\ cwd' = "not logged on"
    /\ Done
    /\ UNCHANGED <<once, exit_code>>

\* Mutant: the prompt is left as it was.
PromptMountedNot == UNCHANGED cwd
PromptMounted == cwd' = "not logged on"

Mount ==
    /\ phase = "prompt"
    /\ \/ UNCHANGED <<cwd, mounted, logged, refused>>
       \/ TfsMount /\ PromptMounted
    /\ Done
    /\ UNCHANGED <<once, pid, exit_code>>

Exit(code) ==
    /\ phase' = "exited"
    /\ exit_code' = code
    /\ UNCHANGED <<once, pid, cwd>>

Offline ==
    /\ phase = "prompt"
    /\ TfsDown
    /\ Exit("success")

\* format, mkfs, find, benchmark and the commands of the library; source, whose
\* commands follow one by one; or the end of the input.
OtherCommand ==
    /\ phase = "prompt"
    /\ Done \/ phase' = "terminate"
    /\ UNCHANGED <<once, pid, cwd, exit_code, mounted, logged, refused>>

\* Mutant: only a session that mounted the disk itself terminates the library.
TerminateUnlessMounted ==
    /\ phase = "terminate"
    /\ IF pid = -1 THEN UNCHANGED library ELSE TfsDown
    /\ Exit("success")

Terminate ==
    /\ phase = "terminate"
    /\ TfsDown
    /\ Exit("success")

\* listen, which runs from before tfs_init on.
Listen ==
    /\ phase # "exited"
    /\ \E length \in Lengths :
          /\ length < 0 \/ length > MESSAGE_SIZE
          /\ Exit("failure")
    /\ UNCHANGED library

Next ==
    \/ Start
    \/ MountFirst
    \/ LogonFirst
    \/ Logon
    \/ Logoff
    \/ Mount
    \/ Offline
    \/ OtherCommand
    \/ Terminate
    \/ Listen

Spec == Init /\ [][Next]_vars

-----------------------------------------------------------------------------
\* Every call of a command is made for a process that is logged on, or for none:
\* the library hands out the numbers of others again
\* (logon and logoff, TFS_UTIL.C:169-176, 182-186).
PidIsLoggedOn == phase # "exited" /\ pid # -1 => pid \in logged /\ mounted

\* The prompt does not promise more than there is: "not mounted" is shown only
\* without a disk, and "not logged on" only when commands run for no process
\* (tfsh, logoff and mount, TFS_UTIL.C:107, 186, 221).
PromptIsModest ==
    phase \in {"prompt", "logon"} =>
        /\ cwd = "not mounted" => ~mounted
        /\ cwd = "not logged on" => pid = -1

\* A shell that exits with success leaves the file system down with nobody logged
\* on, however its commands failed, or with an answer of the library that it could
\* not go down, which nothing looks at (main and offline, TFS_UTIL.C:190-194,
\* 288-291).
SuccessIsClean == exit_code = "success" => refused \/ (~mounted /\ logged = {})
=============================================================================
