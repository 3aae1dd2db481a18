------------------------------- MODULE TfsFiles -------------------------------
(***************************************************************************)
(* What the commands of the shell find in the file system: the tree under  *)
(* the directory of the session and the descriptors of its logical         *)
(* process.  Any call may fail, and all do that are made for no process.   *)
(* The library is external; this is what FIND.C and BENCH.C rely on.       *)
(***************************************************************************)
EXTENDS Tfsh, Sequences, FiniteSets, SequencesExt

CONSTANTS
    TFS_OPEN_MAX,   \* descriptors of a process: 16
    Names,          \* of files and directories
    Trees           \* what there may be: each a function from paths to kinds

\* The entries that name nothing below a directory: itself, its parent, and one that
\* is not used.
Dots == {".", "..", "unused"}

\* A tree holds its root and, with a path, the directories above it.
IsTree(t) ==
    /\ IsFiniteSet(DOMAIN t)
    /\ t \in [DOMAIN t -> {"file", "dir"}]
    /\ <<>> \in DOMAIN t /\ t[<<>>] = "dir"
    /\ \A path \in DOMAIN t :
          /\ path \in Seq(Names)
          /\ \A n \in 0..(Len(path) - 1) :
                SubSeq(path, 1, n) \in DOMAIN t /\ t[SubSeq(path, 1, n)] = "dir"

ASSUME FilesAssumption ==
    /\ TFS_OPEN_MAX \in Nat
    /\ Names \cap Dots = {}
    /\ \A t \in Trees : IsTree(t)

Fds == 0..(TFS_OPEN_MAX - 1)

VARIABLES
    command,        \* the command that runs, or "none"
    tree,
    descriptors,    \* of the logical process of the session
    leaked          \* those that tfs_close has failed for

files == <<tree, descriptors, leaked>>

Live == pid \in logged

Exists(node) == node \in DOMAIN tree
IsDir(node) == Exists(node) /\ tree[node] = "dir"

TfsOpen(fd) ==
    /\ Live
    /\ fd \in Fds \ descriptors
    /\ descriptors' = descriptors \cup {fd}
    /\ leaked' = leaked \ {fd}

TfsClose(fd) == descriptors' = descriptors \ {fd} /\ UNCHANGED leaked

\* It is not said what becomes of the descriptor.
TfsCloseFails(fd) ==
    /\ descriptors' \in {descriptors, descriptors \ {fd}}
    /\ leaked' = leaked \cup {fd}

\* The command is over, and with it the shell if it was started for the command.
EndExits == command' = "none" /\ Exit("success") /\ UNCHANGED library
End ==
    /\ command' = "none"
    /\ Done
    /\ UNCHANGED <<once, pid, cwd, exit_code, mounted, logged, refused>>
=============================================================================
