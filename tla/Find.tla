--------------------------------- MODULE Find ---------------------------------
(***************************************************************************)
(* The command find of the shell, TFSH/FIND.C: a walk down the tree that   *)
(* holds a directory open for each level it is below, and a buffer for the *)
(* path of an entry, which takes paths as long as the library does.        *)
(***************************************************************************)
EXTENDS TfsFiles

CONSTANTS
    Args,       \* the sequences of paths that find is called with
    LongPaths   \* the paths that are longer than TFS_PATH_MAX, 255 characters

ASSUME ArgsAssumption ==
    /\ Args \subseteq Seq(Seq(Names))
    /\ LongPaths \subseteq Seq(Names)

VARIABLES
    args, queue,    \* the paths it was called with, and those still to walk
    frames,         \* the calls of find_dir, the innermost last
    type_mask, print,
    printed,        \* what has been printed, in order
    reported,       \* the paths with an error message
    cut,            \* the directories whose entries could not all be read
    overrun         \* was a path written over the end of its buffer?

walk == <<args, queue, frames, type_mask, print, printed, reported, cut, overrun>>

\* A frame has its descriptor, the path that find_dir was called with, the
\* directory that this is, and the entries that are still to be read.
FindTypeOK ==
    /\ args \in Seq(Seq(Names)) /\ queue \in Seq(Seq(Names))
    /\ \A i \in DOMAIN frames :
          /\ frames[i].fd \in Fds /\ IsDir(frames[i].node)
          /\ frames[i].path \in Seq(Names) /\ frames[i].left \in Seq(Names \cup Dots)
    /\ type_mask \subseteq {"file", "dir"}
    /\ print \in BOOLEAN
    /\ printed \in Seq(Seq(Names))
    /\ \A path \in reported \cup cut : path \in Seq(Names)
    /\ overrun \in BOOLEAN

FindInit ==
    /\ args = <<>> /\ queue = <<>> /\ frames = <<>>
    /\ type_mask = {} /\ print = FALSE
    /\ printed = <<>> /\ reported = {} /\ cut = {} /\ overrun = FALSE

\* The entries of a directory in the order that they are read in: its own, its
\* parent's, one that is not used (inode_no is 0), and what it holds.
Entries(node) ==
    <<".", "..", "unused">> \o
    SetToSeq({Last(p) : p \in {q \in DOMAIN tree \ {<<>>} : Front(q) = node}})

\* The node that an entry stands for.
Node(node, entry) ==
    CASE entry = "." -> node
      [] entry = ".." -> IF node = <<>> THEN node ELSE Front(node)
      [] OTHER -> Append(node, entry)

\* Mutant: the parent is not left out.
SkipTooFew(entry) == entry \in {"unused", "."}
Skip(entry) == entry \in {"unused", ".", ".."}

\* Mutant: the entry is not appended.
EntryPathBare(dir_path, entry) == dir_path
EntryPath(dir_path, entry) == Append(dir_path, entry)

\* Mutant: find_dir is called for every path.
DescendsAlways(node) == TRUE
Descends(node) == tree[node] = "dir"

-----------------------------------------------------------------------------
\* find parses its arguments and turns to the first path.
FindStart ==
    /\ command = "none" /\ phase = "prompt"
    /\ command' = "find"
    /\ args' \in Args /\ queue' = args'
    /\ type_mask' \in {{"file", "dir"}, {"file"}, {"dir"}}
    /\ print' \in BOOLEAN
    /\ frames' = <<>> /\ printed' = <<>> /\ reported' = {} /\ cut' = {}
    /\ UNCHANGED <<vars, files, overrun>>

Report(path) == reported' = reported \cup {path}

\* _find: below is the stack to go on with when the path is a directory that can
\* be opened, which find_dir puts its frame on.
Visit(path, node, below) ==
    \/ /\ Report(path)
       /\ frames' = below
       /\ UNCHANGED <<printed, descriptors, leaked>>
    \/ /\ Live /\ Exists(node)
       /\ printed' = IF print /\ tree[node] \in type_mask THEN Append(printed, path) ELSE printed
       /\ \/ /\ ~Descends(node)
             /\ frames' = below
             /\ UNCHANGED <<reported, descriptors, leaked>>
          \/ /\ Descends(node)
             /\ Report(path)
             /\ frames' = below
             /\ UNCHANGED <<descriptors, leaked>>
          \/ /\ Descends(node)
             /\ \E fd \in Fds :
                   /\ TfsOpen(fd)
                   /\ frames' = Append(below, [fd |-> fd, path |-> path, node |-> node,
                                               left |-> Entries(node)])
             /\ UNCHANGED reported

FindNextPath ==
    /\ command = "find" /\ frames = <<>> /\ queue # <<>>
    /\ Visit(Head(queue), Head(queue), <<>>)
    /\ queue' = Tail(queue)
    /\ UNCHANGED <<vars, command, tree, args, type_mask, print, cut, overrun>>

\* find_dir reads the next entry, and walks what it names when its path fits.
FindReadEntry ==
    /\ command = "find" /\ frames # <<>> /\ ~overrun
    /\ LET top == Last(frames)
           entry == Head(top.left)
           rest == Append(Front(frames), [top EXCEPT !.left = Tail(@)])
       IN  /\ top.left # <<>>
           /\ IF Skip(entry)
              THEN frames' = rest /\ UNCHANGED <<printed, reported, descriptors, leaked>>
              ELSE /\ EntryPath(top.path, entry) \notin LongPaths
                   /\ Visit(EntryPath(top.path, entry), Node(top.node, entry), rest)
    /\ UNCHANGED <<vars, command, tree, args, queue, type_mask, print, cut, overrun>>

\* Nobody asks whether it does.  What strcat then writes over is undefined, and the
\* walk goes no further here.
FindOverrun ==
    /\ command = "find" /\ frames # <<>> /\ ~overrun
    /\ LET top == Last(frames)
           entry == Head(top.left)
       IN  /\ top.left # <<>> /\ ~Skip(entry)
           /\ EntryPath(top.path, entry) \in LongPaths
    /\ overrun' = TRUE
    /\ UNCHANGED <<vars, command, files, args, queue, frames, type_mask, print, printed,
                   reported, cut>>

\* Mutant: the directory is left open.
CloseDirNot(fd) == UNCHANGED <<descriptors, leaked>>
CloseDir(fd) == TfsClose(fd) \/ TfsCloseFails(fd)

\* A read that does not bring an entry is taken for the end of the directory.
FindClose ==
    /\ command = "find" /\ frames # <<>> /\ ~overrun
    /\ LET top == Last(frames)
       IN  /\ CloseDir(top.fd)
           /\ cut' = IF top.left = <<>> THEN cut ELSE cut \cup {top.path}
    /\ frames' = Front(frames)
    /\ UNCHANGED <<vars, command, tree, args, queue, type_mask, print, printed, reported, overrun>>

\* Nothing of a walk outlives it; the mask and print are static, and find sets
\* them before it uses them.
FindEnd ==
    /\ command = "find" /\ frames = <<>> /\ queue = <<>>
    /\ End
    /\ args' = <<>>
    /\ type_mask' = {} /\ print' = FALSE
    /\ printed' = <<>> /\ reported' = {} /\ cut' = {}
    /\ UNCHANGED <<files, queue, frames, overrun>>

FindStep ==
    FindStart \/ FindNextPath \/ FindReadEntry \/ FindOverrun \/ FindClose \/ FindEnd

-----------------------------------------------------------------------------
\* What find was asked to print.
Wanted(path) ==
    /\ print
    /\ Exists(path) /\ tree[path] \in type_mask
    /\ \E i \in DOMAIN args : IsPrefix(args[i], path)

\* A walk that comes to its end has printed what it was asked for and nothing else,
\* but for what lies in or under a path it has reported, or a directory that it could
\* not read to its end, which it does not report (FIND.C:20-45, 48-71).  One that
\* meets a path too long for its buffer does not come to its end.
FindComplete ==
    command = "find" /\ queue = <<>> /\ frames = <<>> =>
        /\ \A i \in DOMAIN printed : Wanted(printed[i])
        /\ \A path \in DOMAIN tree :
              Wanted(path) =>
                  \/ \E i \in DOMAIN printed : printed[i] = path
                  \/ \E above \in reported \cup cut : IsPrefix(above, path)

\* When no path of its arguments lies under another, no path is printed twice, and
\* none after what lies under it (FIND.C:30-38, 59-68).
PrintsInOrder ==
    (\A i \in DOMAIN args : \A j \in DOMAIN args : i # j => ~IsPrefix(args[i], args[j])) =>
        \A i \in DOMAIN printed : \A j \in DOMAIN printed :
            i < j => ~IsPrefix(printed[j], printed[i])

\* The buffer of find_dir is as long as the longest path that the library takes
\* (TFS_PATH_MAX, TFS.H:20), but the path of an entry is longer than that of its
\* directory, and it is put together before the library sees it (FIND.C:17, 34-38).
EntryPathFits == ~overrun
=============================================================================
