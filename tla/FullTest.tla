------------------------------ MODULE FullTest ------------------------------
(***************************************************************************)
(* The programs that test the TFS, which share the text of their tests:    *)
(* the clients of a server, RTFS/FULLTEST.C, as many as the configuration  *)
(* says (RTFS/TEST.CFS), each in a home directory of its own, all on the   *)
(* one tree of a server that serves a call at a time; and the program that *)
(* is linked to the file system itself, TFS/FULLTEST.C, alone in the root  *)
(* directory.  A client may be cut off between any two calls and run again *)
(* on what it left; the local program takes the file system down with it.  *)
(*                                                                         *)
(* A step is a call, with the close that follows an open: no defect is     *)
(* about the close of a file that has just been opened.  What the tests of *)
(* contents find out is FileTests; here they leave their file behind.      *)
(***************************************************************************)
EXTENDS Integers, Sequences, FiniteSets, SequencesExt, TLC

CONSTANTS
    Users,      \* those that may run; a home is named for its client, "fulltest%d"
    Defects,    \* what the server may do wrong, among KnownDefects
    FILES,      \* files of the big directory: 300
    RUNS,       \* runs of a client
    Tmpdirs     \* "tmpdir", "tmpdirA", "tmpdirAA" ... as far as the runs need them

\* Calls that report success and do not do, or return, what they should.
KnownDefects ==
    {"umask", "chmod", "unlink", "link", "mkdir", "rmdir", "size", "entries", "fstat"}

ASSUME ClientsAssumption ==
    /\ IsFiniteSet(Users)
    /\ FILES \in Nat \ {0}
    /\ RUNS \in Nat \ {0}
    /\ Tmpdirs \in Seq(STRING) /\ Len(Tmpdirs) > RUNS
    /\ Defects \subseteq KnownDefects

\* Permissions: all of the owner's, and w and the others of the group's and of
\* everybody else's.
Perms == {"u", "g", "gw", "o", "ow"}
Default == {"gw", "ow"}         \* TFS_DEFAULT_UMASK, 022
NoOthers == {"o", "ow"}         \* 07

VARIABLES
    \* Who tests what, which stays as it is.
    clients,    \* the programs that run
    local,      \* is it TFS/FULLTEST.C?
    defect,     \* of the server, or "none"
    \* The server.
    tree,       \* what there is under each path
    cwd,        \* the directory of each logical process
    umask,
    \* The clients.
    test,       \* the test that a client is in
    step,       \* its next call
    tmp,        \* the name that test_rmdir tries
    old_mask,
    seen,       \* what stat returned
    run,
    failed      \* has it reported an error?

setup == <<clients, local, defect>>
server == <<tree, cwd, umask>>
vars == <<clients, local, defect, tree, cwd, umask, test, step, tmp, old_mask, seen, run, failed>>

\* An inode goes by the path that it was made under; a home is named for its user.
\* The files of the big directory, "file.%d", go by their numbers.
FixedNames == {"fulltest", "test.file", "test_dir", "test_file", "Umask_test_file",
               "link.test", "link2.test", "fstat.test", "bandwidth.test"}
Numbers == {ToString(i) : i \in 1..FILES}
PlainNames == Users \cup FixedNames \cup Numbers
TmpNames == {Tmpdirs[i] : i \in DOMAIN Tmpdirs}
Names == PlainNames \cup TmpNames

\* Each A makes a new name, and none of the others; two numbers are written differently;
\* and no home and no file of the big directory has the name of another file.
ASSUME NamesAssumption ==
    /\ PlainNames \cap TmpNames = {}
    /\ \A i, j \in DOMAIN Tmpdirs : Tmpdirs[i] = Tmpdirs[j] => i = j
    /\ \A i, j \in 1..FILES : ToString(i) = ToString(j) => i = j
    /\ Users \cap (FixedNames \cup Numbers) = {}
    /\ FixedNames \cap Numbers = {}

Inode == [kind : {"file", "dir"}, ino : Seq(Names), perms : SUBSET Perms, size : {0, 6}]
Directory(path, perms) == [kind |-> "dir", ino |-> path, perms |-> perms, size |-> 0]
Root == <<>>

\* main calls the tests in this order; the steps of each.
After ==
    [test_connect |-> "contents", contents |-> "test_create", test_create |-> "test_dir",
     test_dir |-> "test_umask", test_umask |-> "test_link", test_link |-> "test_rmdir",
     test_rmdir |-> "test_fstat", test_fstat |-> "test_bandwidth",
     test_bandwidth |-> "test_disconnect", test_disconnect |-> "stopped"]
LastStep ==
    [test_connect |-> 3, contents |-> 1, test_create |-> 4, test_dir |-> FILES + 2,
     test_umask |-> 10, test_link |-> 4, test_rmdir |-> 4, test_fstat |-> 3,
     test_bandwidth |-> 2, test_disconnect |-> 1]

TypeOK ==
    /\ clients \subseteq Users
    /\ local \in BOOLEAN
    /\ defect \in Defects \cup {"none"}
    /\ \A path \in DOMAIN tree : path \in Seq(Names) /\ tree[path] \in Inode
    /\ cwd \in [Users -> DOMAIN tree]
    /\ umask \in [Users -> SUBSET Perms]
    /\ old_mask \in [Users -> SUBSET Perms]
    /\ test \in [Users -> DOMAIN After \cup {"stopped"}]
    /\ \A u \in Users : test[u] # "stopped" => step[u] \in 1..LastStep[test[u]]
    /\ tmp \in [Users -> DOMAIN Tmpdirs]
    /\ seen \in [Users -> Inode]
    /\ run \in [Users -> 0..RUNS]
    /\ failed \in [Users -> BOOLEAN]

\* The local program is alone with its file system.
Init ==
    /\ local \in BOOLEAN
    /\ defect \in Defects \cup {"none"}
    /\ clients \in SUBSET Users \ {{}}
    /\ local => Cardinality(clients) = 1
    /\ tree = [path \in {Root} |-> Directory(Root, Perms)]
    /\ cwd = [u \in Users |-> Root]
    /\ umask = [u \in Users |-> Default]
    /\ test = [u \in Users |-> "stopped"]
    /\ step = [u \in Users |-> 1]
    /\ tmp = [u \in Users |-> 1]
    /\ old_mask = [u \in Users |-> {}]
    /\ seen = [u \in Users |-> Directory(Root, Perms)]
    /\ run = [u \in Users |-> 0]
    /\ failed = [u \in Users |-> FALSE]

-----------------------------------------------------------------------------
\* What a client does with an answer.
Goto(u, t, s) ==
    /\ test' = [test EXCEPT ![u] = t]
    /\ step' = [step EXCEPT ![u] = s]
    /\ UNCHANGED <<setup, run>>

Onward(u) ==
    IF step[u] < LastStep[test[u]] THEN Goto(u, test[u], step[u] + 1)
                                   ELSE Goto(u, After[test[u]], 1)

Pass(u) == Onward(u) /\ UNCHANGED failed

\* An error ends a test where the code returns, and everything where it is fatal.
Fail(u) == Onward(u) /\ failed' = [failed EXCEPT ![u] = TRUE]
Return(u) == Goto(u, After[test[u]], 1) /\ failed' = [failed EXCEPT ![u] = TRUE]
Fatal(u) == Goto(u, "stopped", 1) /\ failed' = [failed EXCEPT ![u] = TRUE]

-----------------------------------------------------------------------------
\* The server: each call in a sentence of TFS.H's manual that the tests rely on.
Path(u, name) == Append(cwd[u], name)
Exists(path) == path \in DOMAIN tree
IsDir(path) == Exists(path) /\ tree[path].kind = "dir"
IsFile(path) == Exists(path) /\ tree[path].kind = "file"
Entries(path) == {p \in DOMAIN tree : p # Root /\ Front(p) = path}
Links(path) == Cardinality({p \in DOMAIN tree : tree[p].ino = tree[path].ino})

\* A call with that defect leaves the tree as it is.
Unless(name, change) == IF defect = name THEN UNCHANGED tree ELSE change

Add(path, inode) == tree' = [p \in DOMAIN tree \cup {path} |-> IF p = path THEN inode ELSE tree[p]]
Detach(path) == tree' = [p \in DOMAIN tree \ {path} |-> tree[p]]

CanMkdir(path) == IsDir(Front(path)) /\ ~Exists(path)
Masked(u) == IF defect = "umask" THEN Perms ELSE Perms \ umask[u]
Mkdir(u, path) ==
    Unless("mkdir", Add(path, Directory(path, Masked(u)))) /\ UNCHANGED <<cwd, umask>>
Unlink(path) == Unless("unlink", Detach(path)) /\ UNCHANGED <<cwd, umask>>
Rmdir(path) == Unless("rmdir", Detach(path)) /\ UNCHANGED <<cwd, umask>>
Chmod(path, perms) ==
    Unless("chmod", Add(path, [tree[path] EXCEPT !.perms = perms])) /\ UNCHANGED <<cwd, umask>>
Link(path, new) == Unless("link", Add(new, tree[path])) /\ UNCHANGED <<cwd, umask>>

\* TFS_O_CREAT makes a file where there is none.  The size is what has been
\* written into it by the time somebody asks: only of test_file does a test ask.
CanOpen(path) == IsDir(Front(path)) /\ ~IsDir(path)
Open(u, path, size) ==
    /\ Add(path, IF IsFile(path)
                 THEN [tree[path] EXCEPT !.size = IF defect = "size" THEN 0 ELSE size]
                 ELSE [kind |-> "file", ino |-> path, perms |-> Masked(u), size |-> size])
    /\ UNCHANGED <<cwd, umask>>

CanLink(path, new) == IsFile(path) /\ IsDir(Front(new)) /\ ~Exists(new)
Fstat(path) == IF defect = "fstat" THEN [tree[path] EXCEPT !.size = 6 - @] ELSE tree[path]
Size(path) == 2 + Cardinality(Entries(path)) - (IF defect = "entries" THEN 1 ELSE 0)
Chdir(u, path) == cwd' = [cwd EXCEPT ![u] = path] /\ UNCHANGED <<tree, umask>>

-----------------------------------------------------------------------------
\* The tests.  A call is tried on the server as it is at that moment.
Try(u, possible, effect, otherwise) ==
    \/ possible /\ effect /\ Pass(u)
    \/ ~possible /\ UNCHANGED server /\ otherwise

Check(u, expected, otherwise) ==
    /\ IF expected THEN Pass(u) ELSE otherwise
    /\ UNCHANGED server

\* tfs_errno is one for all processes: the value of a call may be gone by the time
\* it is looked at when another one is logged on.
Shared(u) == \E v \in clients \ {u} : test[v] # "stopped"

\* Opening a file that need not be there cannot fail in a directory.
Create(u, name, otherwise) ==
    Try(u, CanOpen(Path(u, name)), Open(u, Path(u, name), 0), otherwise)

\* Mutant: every client has the same home.
HomeShared(u) == <<"fulltest">>
Home(u) == IF local THEN Root ELSE <<u>>

\* A client that is not connected has not run: it is as if it were cut off here.
TestConnect(u) ==
    /\ test[u] = "test_connect" /\ ~local
    /\ \/ /\ step[u] = 1
          /\ \/ IsDir(Home(u)) /\ Chdir(u, Home(u)) /\ Goto(u, "contents", 1) /\ UNCHANGED failed
             \/ ~IsDir(Home(u)) /\ UNCHANGED server /\ Pass(u)
       \/ step[u] = 2 /\ Try(u, CanMkdir(Home(u)), Mkdir(u, Home(u)), Fatal(u))
       \/ step[u] = 3 /\ Try(u, IsDir(Home(u)), Chdir(u, Home(u)), Fatal(u))
    /\ UNCHANGED <<tmp, old_mask, seen>>

\* The local program initialises, mounts and logs on, or gives up before the tests.
\* It stays in the root directory.
Mount(u) ==
    /\ test[u] = "test_connect" /\ local
    /\ Goto(u, "contents", 1) \/ Goto(u, "stopped", 1)
    /\ UNCHANGED <<server, tmp, old_mask, seen, failed>>

Contents(u) ==
    /\ test[u] = "contents"
    /\ Create(u, "test.file", Fatal(u))
    /\ UNCHANGED <<tmp, old_mask, seen>>

\* A directory that is there already is no error, as tfs_errno says.
MkdirFailed(u, dir) ==
    \/ (Exists(dir) \/ Shared(u)) /\ Pass(u)
    \/ (~Exists(dir) \/ Shared(u)) /\ Return(u)

TestCreate(u) ==
    LET dir == Path(u, "test_dir")
        file == Append(dir, "test_file")
    IN  /\ test[u] = "test_create"
        /\ \/ step[u] = 1 /\ Try(u, CanMkdir(dir), Mkdir(u, dir), MkdirFailed(u, dir))
           \/ step[u] = 2 /\ Try(u, CanOpen(file), Open(u, file, 0), Return(u))
           \/ step[u] = 3 /\ Try(u, IsFile(file), Open(u, file, 6), Return(u))
           \/ step[u] = 4 /\ Check(u, IsFile(file) /\ tree[file].size = 6, Fail(u))
        /\ UNCHANGED <<tmp, old_mask, seen>>

\* Two entries of its own, test_file, and the others.
TestDir(u) ==
    LET dir == Path(u, "test_dir")
    IN  /\ test[u] = "test_dir"
        /\ \/ step[u] = 1 /\ Try(u, IsDir(dir), Chdir(u, dir), Return(u))
           \/ \E i \in 1..FILES :
                 step[u] = i + 1 /\ Create(u, ToString(i), Return(u))
           \/ /\ step[u] = FILES + 2
              /\ Check(u, IsDir(cwd[u]) /\ Size(cwd[u]) >= FILES + 3, Fail(u))
        /\ UNCHANGED <<tmp, old_mask, seen>>

\* Mutant: the mode is not looked at.
HasAnyPerms(path, perms) == Exists(path)
HasPerms(path, perms) == Exists(path) /\ tree[path].perms = perms

\* The umask stays as it is until the client connects again.  Whether tfs_umask
\* has failed is asked of tfs_errno alone.
TestUmask(u) ==
    LET file == Path(u, "Umask_test_file")
    IN  /\ test[u] = "test_umask"
        /\ \/ step[u] = 1 /\ Try(u, IsFile(file), Unlink(file), Pass(u))
           \/ step[u] \in {2, 9} /\ Create(u, "Umask_test_file", IF step[u] = 2 THEN Return(u) ELSE Fail(u))
           \/ /\ step[u] = 3
              /\ umask' = [umask EXCEPT ![u] = NoOthers]
              /\ Pass(u) \/ (Shared(u) /\ Return(u))
              /\ UNCHANGED <<tree, cwd>>
           \/ step[u] = 4 /\ Check(u, HasPerms(file, Perms \ old_mask[u]),
                                   IF Exists(file) THEN Fail(u) ELSE Return(u))
           \/ step[u] = 5 /\ Try(u, Exists(file), Chmod(file, {"u"}), Fail(u))
           \/ step[u] = 6 /\ Check(u, HasPerms(file, {"u"}), Fail(u))
           \/ step[u] = 7 /\ Try(u, IsFile(file), Unlink(file), Fail(u))
           \/ step[u] = 8 /\ Check(u, ~Exists(file), Fail(u))
           \/ step[u] = 10 /\ Check(u, HasPerms(file, Perms \ NoOthers), Fail(u))
        /\ old_mask' = [old_mask EXCEPT ![u] = IF step[u] = 3 THEN umask[u] ELSE @]
        /\ UNCHANGED <<tmp, seen>>

TestLink(u) ==
    LET old == Path(u, "link.test")
        new == Path(u, "link2.test")
    IN  /\ test[u] = "test_link"
        /\ \/ step[u] = 1 /\ Create(u, "link.test", Return(u))
           \/ step[u] = 2 /\ Try(u, CanLink(old, new), Link(old, new), Return(u))
           \/ step[u] = 3 /\ Check(u, Exists(old) /\ Links(old) = 2,
                                   IF Exists(old) THEN Fail(u) ELSE Return(u))
           \/ step[u] = 4 /\ Try(u, IsFile(new), Unlink(new), Return(u))
        /\ UNCHANGED <<tmp, old_mask, seen>>

\* Mutant: the first name is good enough.
NextNameNever(u) == FALSE
\* Mutant: access says 0 also for what is not there.
NextNameAlways(u) == TRUE
NextName(u) == Exists(Path(u, Tmpdirs[tmp[u]]))

\* An A is appended to the name for as long as it is taken.
TestRmdir(u) ==
    LET dir == Path(u, Tmpdirs[tmp[u]])
    IN  /\ test[u] = "test_rmdir"
        /\ \/ /\ step[u] = 1
              /\ IF NextName(u)
                 THEN tmp' = [tmp EXCEPT ![u] = @ + 1] /\ UNCHANGED <<setup, test, step, run, failed>>
                 ELSE UNCHANGED tmp /\ Pass(u)
              /\ UNCHANGED server
           \/ step[u] = 2 /\ Try(u, CanMkdir(dir), Mkdir(u, dir), Return(u)) /\ UNCHANGED tmp
           \/ /\ step[u] = 3
              /\ Try(u, IsDir(dir) /\ Entries(dir) = {}, Rmdir(dir), Return(u))
              /\ UNCHANGED tmp
           \/ step[u] = 4 /\ Check(u, ~Exists(dir), Fail(u)) /\ UNCHANGED tmp
        /\ UNCHANGED <<old_mask, seen>>

\* statcmp of the local program; the others compare the memory, and with it the
\* padding of two structures on the stack, which may differ where no field does.
StatCmp(s1, s2) == \A field \in DOMAIN s1 : s1[field] = s1[field]
SameStat(s1, s2) == IF local THEN {StatCmp(s1, s2)} ELSE {s1 = s2, FALSE}

TestFstat(u) ==
    LET file == Path(u, "fstat.test")
    IN  /\ test[u] = "test_fstat"
        /\ \/ step[u] = 1 /\ Create(u, "fstat.test", Return(u)) /\ UNCHANGED seen
           \/ /\ step[u] = 2
              /\ Check(u, Exists(file), Return(u))
              /\ seen' = [seen EXCEPT ![u] = IF Exists(file) THEN tree[file] ELSE @]
           \/ /\ step[u] = 3
              /\ \E same \in SameStat(seen[u], Fstat(file)) :
                    Check(u, Exists(file) /\ same, Fail(u))
              /\ UNCHANGED seen
        /\ UNCHANGED <<tmp, old_mask>>

\* The second open does not create the file.
TestBandwidth(u) ==
    LET file == Path(u, "bandwidth.test")
    IN  /\ test[u] = "test_bandwidth"
        /\ \/ step[u] = 1 /\ Create(u, "bandwidth.test", Return(u))
           \/ step[u] = 2 /\ Check(u, IsFile(file), Return(u))
        /\ UNCHANGED <<tmp, old_mask, seen>>

\* The server forgets the directory and the mask of a process that is gone.
Gone(u) ==
    /\ cwd' = [cwd EXCEPT ![u] = Root]
    /\ umask' = [umask EXCEPT ![u] = Default]
    /\ Goto(u, "stopped", 1)
    /\ UNCHANGED <<tmp, old_mask, seen, failed>>

TestDisconnect(u) == test[u] = "test_disconnect" /\ ~local /\ Gone(u) /\ UNCHANGED tree

\* tfs_logoff and tfs_terminate, which writes out what the cache has.
Terminate(u) == test[u] = "test_disconnect" /\ local /\ Gone(u) /\ UNCHANGED tree

Run(u) ==
    /\ test[u] = "stopped"
    /\ run[u] < RUNS
    /\ run' = [run EXCEPT ![u] = @ + 1]
    /\ test' = [test EXCEPT ![u] = "test_connect"]
    /\ step' = [step EXCEPT ![u] = 1]
    /\ tmp' = [tmp EXCEPT ![u] = 1]
    /\ failed' = [failed EXCEPT ![u] = FALSE]
    /\ UNCHANGED <<setup, server, old_mask, seen>>

\* The local program takes with it what the cache has not written; fsck leaves
\* a tree without that entry and what was under it.
Lost(path) == {p \in DOMAIN tree : IsPrefix(path, p)}
CutOff(u) ==
    /\ test[u] # "stopped"
    /\ Gone(u)
    /\ \/ UNCHANGED tree
       \/ /\ local
          /\ \E path \in DOMAIN tree \ {Root} :
                tree' = [p \in DOMAIN tree \ Lost(path) |-> tree[p]]

Test(u) ==
    \/ TestConnect(u)
    \/ Mount(u)
    \/ Contents(u)
    \/ TestCreate(u)
    \/ TestDir(u)
    \/ TestUmask(u)
    \/ TestLink(u)
    \/ TestRmdir(u)
    \/ TestFstat(u)
    \/ TestBandwidth(u)
    \/ TestDisconnect(u)
    \/ Terminate(u)

Next == \E u \in clients : Run(u) \/ Test(u) \/ CutOff(u)

Spec == Init /\ [][Next]_vars

-----------------------------------------------------------------------------
\* Where the tests may blame a server that has no defect.
FalseAlarmAt(u) ==
    \/ /\ test[u] = "test_link" /\ step[u] = 2
       /\ Home(u) \o <<"test_dir", "link2.test">> \in DOMAIN tree
    \/ /\ test[u] = "test_create" /\ step[u] = 1 /\ Shared(u)
       /\ Home(u) \o <<"test_dir">> \in DOMAIN tree
    \/ test[u] = "test_umask" /\ step[u] = 3 /\ Shared(u)
    \/ test[u] = "test_fstat" /\ step[u] = 3 /\ ~local

\* A server that does what its manual says is not blamed, whatever the other
\* clients do meanwhile and wherever earlier runs were cut off, but for four things
\* (FULLTEST.C:46-848): the link of test_link, when an earlier run was cut off
\* before it removed link2.test (649-654); a directory that was there or a umask,
\* when tfs_errno may be another client's (203, 118); and the padding (744).
NoFalseAlarm ==
    [][defect = "none" => \A u \in Users : ~failed[u] /\ failed'[u] => FalseAlarmAt(u)]_vars

\* "The only possible failure is if the specified process ID is invalid"
\* (MAN3/UMASK), so that the call of test_umask does not fail; the test says that it
\* does when another client has set tfs_errno (FULLTEST.C:117-122).
UmaskNeverFails ==
    [][\A u \in Users :
          test[u] = "test_umask" /\ step[u] = 3 /\ step'[u] # 3 /\ ~failed[u]
              => failed'[u] = FALSE]_vars

\* No defect gets past a run that comes to its end, also of one that finds the
\* remains of another, but for what the program cannot see: the local one a wrong
\* fstat, and a second run entries that are missing from the size of a directory,
\* which by then is larger than the least that test_dir asks for (FULLTEST.C:193-750,
\* 622; TFS/FULLTEST.C:703-714).
Unseen(u) == (local /\ defect = "fstat") \/ (run[u] > 1 /\ defect = "entries")
DefectsReported ==
    \A u \in Users :
        test[u] = "test_disconnect" /\ defect # "none" /\ ~Unseen(u) => failed[u]

\* "difference between stat and fstat" (TFS/FULLTEST.C:754) is reported when there is
\* one.
FstatDifferenceReported ==
    \A u \in Users : test[u] = "test_disconnect" /\ defect = "fstat" => failed[u]

\* test_rmdir has appended an A at most once for each run before this one, which is
\* what keeps the name in its 256 characters (FULLTEST.C:683-689).
NamesBounded == \A u \in Users : tmp[u] <= run[u] \/ run[u] = 0

Subtree(u) == {<<path, tree[path]>> : path \in Lost(Home(u))}

\* No client changes anything in the home of another (main, FULLTEST.C:858).
HomesApart ==
    [][~local => \A u \in Users : \A v \in Users \ {u} :
          <<test[u], step[u]>> # <<test'[u], step'[u]>> => Subtree(v)' = Subtree(v)]_vars
=============================================================================
