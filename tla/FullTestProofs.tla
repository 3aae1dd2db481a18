---------------------------- MODULE FullTestProofs ----------------------------
(***************************************************************************)
(* Proofs about the tests of the name space, for any number of clients, of *)
(* runs and of files, and for every defect of the server: the clients keep *)
(* to their homes, the name that test_rmdir makes up does not grow by more *)
(* than a letter a run, no defect gets past a run that comes to its end,   *)
(* and a server without one is not blamed.                                 *)
(***************************************************************************)
EXTENDS FullTestInvariants, SequenceTheorems, FunctionTheorems, FiniteSetTheorems, TLAPS

-----------------------------------------------------------------------------
\* What a test of u may do to the server.
ChangesTree(u) ==
    /\ UNCHANGED <<cwd, umask>>
    /\ \E path : /\ Own(u, path)
                 /\ \/ \E inode \in Inode :
                          /\ Add(path, inode)
                          /\ Exists(path) => inode.kind = tree[path].kind
                          /\ \A i \in DOMAIN Tmpdirs :
                                Last(path) = Tmpdirs[i] => i = tmp[u] /\ Late(u)'
                    \/ Detach(path) /\ (IsFile(path) \/ Last(path) \in TmpNames)

ChangesDir(u) ==
    \E path : Own(u, path) /\ IsDir(path) /\ Last(path) \notin TmpNames /\ Chdir(u, path)

Change(u) ==
    \/ UNCHANGED server
    \/ ChangesTree(u)
    \/ ChangesDir(u)
    \/ umask' = [umask EXCEPT ![u] = NoOthers] /\ UNCHANGED <<tree, cwd>>

\* What it may do to the client.
Moved(u) ==
    /\ test' \in [Users -> DOMAIN After \cup {"stopped"}]
    /\ step' \in [Users -> Nat]
    /\ failed' \in [Users -> BOOLEAN]
    /\ test'[u] # "stopped" => step'[u] \in 1..LastStep[test'[u]]
    /\ \A w \in Users \ {u} : test'[w] = test[w] /\ step'[w] = step[w]
    /\ Late(u) => Late(u)'
    /\ UNCHANGED <<setup, run>>

Kept ==
    /\ old_mask' \in [Users -> SUBSET Perms]
    /\ seen' \in [Users -> Inode]

-----------------------------------------------------------------------------
LEMMA Tests ==
    /\ DOMAIN After = {"test_connect", "contents", "test_create", "test_dir", "test_umask",
                       "test_link", "test_rmdir", "test_fstat", "test_bandwidth",
                       "test_disconnect"}
    /\ DOMAIN LastStep = DOMAIN After
    /\ \A t \in DOMAIN After : After[t] \in DOMAIN After \cup {"stopped"}
    /\ \A t \in DOMAIN After : LastStep[t] \in Nat \ {0}
    /\ After["test_rmdir"] = "test_fstat" /\ After["test_fstat"] = "test_bandwidth"
    /\ After["test_bandwidth"] = "test_disconnect" /\ After["test_disconnect"] = "stopped"
  BY ClientsAssumption DEF After, LastStep

LEMMA NameOfPath ==
    ASSUME NEW s \in Seq(Names), NEW name \in Names
    PROVE  /\ Append(s, name) \in Seq(Names)
           /\ Append(s, name) # Root
           /\ Last(Append(s, name)) = name
           /\ s # Root => Append(s, name)[1] = s[1]
  BY AppendProperties, EmptySeq DEF Last, Root

LEMMA PathOwn ==
    ASSUME ClientInv, NEW u \in Users, NEW name \in Names,
           test[u] \notin {"stopped", "test_connect"}
    PROVE  Own(u, Path(u, name)) /\ Last(Path(u, name)) = name
<1>1. cwd[u] \in Seq(Names)
  BY DEF ClientInv, TypeOK
<1> QED
  BY <1>1, NameOfPath DEF ClientInv, PlacedInv, Own, Path

LEMMA PlainIsNotTmp ==
    ASSUME NEW name \in PlainNames
    PROVE  name \in Names /\ name \notin TmpNames /\ \A i \in DOMAIN Tmpdirs : name # Tmpdirs[i]
  BY NamesAssumption DEF Names, TmpNames

LEMMA GotoMoves ==
    ASSUME ClientInv, NEW u \in Users, NEW t \in DOMAIN After \cup {"stopped"}, NEW s \in Nat,
           Goto(u, t, s), failed' \in [Users -> BOOLEAN],
           t # "stopped" => s \in 1..LastStep[t],
           Late(u) => \/ t \in {"stopped", "test_fstat", "test_bandwidth", "test_disconnect"}
                      \/ t = "test_rmdir" /\ s > 2
    PROVE  Moved(u)
  BY DEF ClientInv, TypeOK, Goto, Moved, Late

LEMMA AnswerMoves ==
    ASSUME ClientInv, NEW u \in Users, test[u] # "stopped",
           Pass(u) \/ Fail(u) \/ Return(u) \/ Fatal(u)
    PROVE  Moved(u)
<1>0. test[u] \in DOMAIN After /\ step[u] \in 1..LastStep[test[u]]
      /\ LastStep[test[u]] \in Nat
  BY Tests DEF ClientInv, TypeOK
<1>1. failed' \in [Users -> BOOLEAN]
  BY DEF ClientInv, TypeOK, Pass, Fail, Return, Fatal
<1>2. CASE Goto(u, test[u], step[u] + 1) /\ step[u] < LastStep[test[u]]
  BY <1>0, <1>1, <1>2, GotoMoves DEF Late
<1>3. CASE Goto(u, After[test[u]], 1)
  <2>1. Late(u) => After[test[u]] \in {"stopped", "test_fstat", "test_bandwidth", "test_disconnect"}
    BY <1>0, Tests DEF Late
  <2>2. After[test[u]] \in DOMAIN After \cup {"stopped"}
        /\ (After[test[u]] # "stopped" => 1 \in 1..LastStep[After[test[u]]])
    BY <1>0, Tests
  <2> QED
    BY <1>1, <1>3, <2>1, <2>2, GotoMoves
<1>4. CASE Goto(u, "stopped", 1)
  BY <1>1, <1>4, GotoMoves
<1> QED
  BY <1>2, <1>3, <1>4 DEF Pass, Fail, Return, Fatal, Onward

-----------------------------------------------------------------------------
\* The calls of the server.

LEMMA MaskedType ==
    ASSUME ClientInv, NEW u \in Users
    PROVE  Masked(u) \in SUBSET Perms
  BY DEF ClientInv, TypeOK, Masked

LEMMA MkdirChanges ==
    ASSUME ClientInv, NEW u \in Users, NEW path, Own(u, path), ~Exists(path), Mkdir(u, path),
           \A i \in DOMAIN Tmpdirs : Last(path) = Tmpdirs[i] => i = tmp[u] /\ Late(u)'
    PROVE  Change(u)
<1>1. Directory(path, Masked(u)) \in Inode
  BY MaskedType DEF Directory, Inode, Own
<1> QED
  BY <1>1 DEF Mkdir, Unless, Change, ChangesTree, server

LEMMA OpenChanges ==
    ASSUME ClientInv, NEW u \in Users, NEW path, Own(u, path), ~IsDir(path),
           NEW size \in {0, 6}, Open(u, path, size),
           \A i \in DOMAIN Tmpdirs : Last(path) # Tmpdirs[i]
    PROVE  Change(u)
<1> DEFINE inode == IF IsFile(path)
                    THEN [tree[path] EXCEPT !.size = IF defect = "size" THEN 0 ELSE size]
                    ELSE [kind |-> "file", ino |-> path, perms |-> Masked(u), size |-> size]
<1>1. CASE IsFile(path)
  <2>1. tree[path] \in Inode
    BY <1>1 DEF ClientInv, TypeOK, IsFile, Exists
  <2>2. inode \in Inode /\ inode.kind = tree[path].kind
    BY <1>1, <2>1 DEF Inode
  <2> HIDE DEF inode
  <2>3. Add(path, inode)
    BY DEF Open, inode
  <2> QED
    BY <2>2, <2>3 DEF Change, ChangesTree, Open
<1>2. CASE ~IsFile(path)
  <2>1. inode \in Inode
    BY <1>2, MaskedType DEF Inode, Own
  <2>2. ~Exists(path)
    <3>1. Exists(path) => tree[path].kind \in {"file", "dir"}
      BY DEF ClientInv, TypeOK, Exists, Inode
    <3> QED
      BY <1>2, <3>1 DEF IsFile, IsDir
  <2> HIDE DEF inode
  <2>3. Add(path, inode)
    BY DEF Open, inode
  <2> QED
    BY <2>1, <2>2, <2>3 DEF Change, ChangesTree, Open
<1> QED
  BY <1>1, <1>2

LEMMA CreateChanges ==
    ASSUME ClientInv, NEW u \in Users, NEW path, Own(u, path), Last(path) \in PlainNames,
           NEW size \in {0, 6},
           CanOpen(path) \/ IsFile(path), Open(u, path, size)
    PROVE  Change(u)
  BY OpenChanges, PlainIsNotTmp DEF CanOpen, IsFile, IsDir

LEMMA LinkChanges ==
    ASSUME ClientInv, NEW u \in Users, NEW path, NEW new, Own(u, new), Last(new) \in PlainNames,
           CanLink(path, new), Link(path, new)
    PROVE  Change(u)
<1>1. tree[path] \in Inode /\ ~Exists(new)
  BY DEF ClientInv, TypeOK, CanLink, IsFile, Exists
<1> QED
  BY <1>1, PlainIsNotTmp DEF Link, Unless, Change, ChangesTree, server

LEMMA ChmodChanges ==
    ASSUME ClientInv, NEW u \in Users, NEW path, Own(u, path), Last(path) \in PlainNames,
           Exists(path), NEW perms \in SUBSET Perms, Chmod(path, perms)
    PROVE  Change(u)
<1>1. tree[path] \in Inode
  BY DEF ClientInv, TypeOK, Exists
<1>2. [tree[path] EXCEPT !.perms = perms] \in Inode
      /\ [tree[path] EXCEPT !.perms = perms].kind = tree[path].kind
  BY <1>1 DEF Inode
<1> QED
  BY <1>2, PlainIsNotTmp DEF Chmod, Unless, Change, ChangesTree, server

LEMMA DetachChanges ==
    ASSUME NEW u \in Users, NEW path, Own(u, path),
           \/ IsFile(path) /\ Unlink(path)
           \/ Last(path) \in TmpNames /\ Rmdir(path)
    PROVE  Change(u)
  BY DEF Unlink, Rmdir, Unless, Change, ChangesTree, server

-----------------------------------------------------------------------------
\* The tests.

LEMMA ConnectDoes ==
    ASSUME ClientInv, NEW u \in clients, TestConnect(u)
    PROVE  /\ Change(u) /\ Moved(u) /\ Kept /\ UNCHANGED tmp
           /\ test'[u] \notin {"stopped", "test_connect"} => cwd'[u] # Root
<1>0. /\ u \in Users /\ test[u] = "test_connect" /\ ~local
      /\ Home(u) = <<u>>
      /\ Kept /\ UNCHANGED tmp
      /\ test \in [Users -> DOMAIN After \cup {"stopped"}] /\ cwd \in [Users -> DOMAIN tree]
      /\ failed \in [Users -> BOOLEAN]
  BY DEF ClientInv, TypeOK, TestConnect, Home, Kept
<1>1. u \in PlainNames
  BY <1>0 DEF PlainNames
<1>2. Own(u, Home(u)) /\ Last(Home(u)) = u
  BY <1>0, <1>1 DEF Own, Last, Names, Root
<1>3. \A i \in DOMAIN Tmpdirs : Last(Home(u)) # Tmpdirs[i]
  BY <1>1, <1>2, PlainIsNotTmp
<1>4. Last(Home(u)) \notin TmpNames
  BY <1>1, <1>2, PlainIsNotTmp
<1>5. CASE IsDir(Home(u)) /\ Chdir(u, Home(u)) /\ Goto(u, "contents", 1) /\ UNCHANGED failed
  <2>1. Change(u)
    BY <1>2, <1>4, <1>5 DEF Change, ChangesDir
  <2>2. Moved(u)
    BY <1>0, <1>5, Tests, GotoMoves DEF Late
  <2>3. cwd'[u] # Root
    BY <1>0, <1>2, <1>5 DEF Chdir, Own
  <2> QED
    BY <1>0, <2>1, <2>2, <2>3
<1>6. CASE step[u] \in {1, 2} /\ (Pass(u) \/ Fatal(u))
           /\ (UNCHANGED server \/ (~Exists(Home(u)) /\ Mkdir(u, Home(u))))
  <2>1. Change(u)
    BY <1>0, <1>2, <1>3, <1>6, MkdirChanges DEF Change
  <2>2. Moved(u)
    BY <1>0, <1>6, AnswerMoves
  <2>3. test'[u] \in {"stopped", "test_connect"}
    BY <1>0, <1>6 DEF Pass, Fatal, Onward, Goto, LastStep
  <2> QED
    BY <1>0, <2>1, <2>2, <2>3
<1>7. CASE Try(u, IsDir(Home(u)), Chdir(u, Home(u)), Fatal(u))
  <2>1. Change(u)
    BY <1>2, <1>4, <1>7 DEF Change, ChangesDir, Try
  <2>2. Moved(u)
    BY <1>0, <1>7, AnswerMoves DEF Try
  <2>3. test'[u] # "stopped" => cwd'[u] # Root
    BY <1>0, <1>2, <1>7 DEF Try, Fatal, Goto, Chdir, Own
  <2> QED
    BY <1>0, <2>1, <2>2, <2>3
<1> QED
  BY <1>5, <1>6, <1>7 DEF TestConnect, Try, CanMkdir

\* In a test a path of the current directory is the client's own.
LEMMA PlainOwn ==
    ASSUME ClientInv, NEW u \in Users, NEW name \in PlainNames,
           test[u] \notin {"stopped", "test_connect"}
    PROVE  Own(u, Path(u, name)) /\ Last(Path(u, name)) = name
  BY PathOwn, PlainIsNotTmp

LEMMA CreateDoes ==
    ASSUME ClientInv, NEW u \in Users, NEW name \in PlainNames,
           test[u] \notin {"stopped", "test_connect"},
           Create(u, name, Fatal(u)) \/ Create(u, name, Return(u)) \/ Create(u, name, Fail(u))
    PROVE  Change(u) /\ Moved(u)
<1>1. Change(u)
  BY PlainOwn, CreateChanges DEF Create, Try, Change
<1>2. Moved(u)
  BY AnswerMoves DEF Create, Try
<1> QED
  BY <1>1, <1>2

LEMMA CheckDoes ==
    ASSUME ClientInv, NEW u \in Users, test[u] # "stopped", NEW expected,
           \/ Check(u, expected, Fail(u)) \/ Check(u, expected, Return(u))
    PROVE  Change(u) /\ Moved(u)
  BY AnswerMoves DEF Check, Change

LEMMA CreateTestDoes ==
    ASSUME ClientInv, NEW u \in clients, TestCreate(u)
    PROVE  Change(u) /\ Moved(u) /\ Kept /\ UNCHANGED tmp
<1> DEFINE dir == Path(u, "test_dir")
           file == Append(dir, "test_file")
<1>0. /\ u \in Users /\ test[u] = "test_create"
      /\ Kept /\ UNCHANGED tmp
  BY DEF ClientInv, TypeOK, TestCreate, Kept
<1>1. {"test_dir", "test_file"} \subseteq PlainNames
  BY DEF PlainNames, FixedNames, Numbers
<1>2. Own(u, dir) /\ Last(dir) = "test_dir"
  BY <1>0, <1>1, PlainOwn
<1>3. Own(u, file) /\ Last(file) = "test_file"
  BY <1>1, <1>2, NameOfPath, PlainIsNotTmp DEF Own
<1> HIDE DEF dir, file
<1>4. CASE Try(u, CanMkdir(dir), Mkdir(u, dir), MkdirFailed(u, dir))
  <2>1. \A i \in DOMAIN Tmpdirs : Last(dir) # Tmpdirs[i]
    BY <1>1, <1>2, PlainIsNotTmp
  <2>2. Change(u)
    BY <1>0, <1>2, <1>4, <2>1, MkdirChanges DEF Try, CanMkdir, Change
  <2> QED
    BY <1>0, <1>4, <2>2, AnswerMoves DEF Try, MkdirFailed
<1>5. CASE Try(u, CanOpen(file), Open(u, file, 0), Return(u))
           \/ Try(u, IsFile(file), Open(u, file, 6), Return(u))
  <2>1. Change(u)
    BY <1>0, <1>1, <1>3, <1>5, CreateChanges DEF Try, Change
  <2> QED
    BY <1>0, <1>5, <2>1, AnswerMoves DEF Try
<1>6. CASE Check(u, IsFile(file) /\ tree[file].size = 6, Fail(u))
  BY <1>0, <1>6, CheckDoes
<1> QED
  BY <1>4, <1>5, <1>6 DEF TestCreate, dir, file

LEMMA DirTestDoes ==
    ASSUME ClientInv, NEW u \in clients, TestDir(u)
    PROVE  Change(u) /\ Moved(u) /\ Kept /\ UNCHANGED tmp
<1> DEFINE dir == Path(u, "test_dir")
<1>0. /\ u \in Users /\ test[u] = "test_dir"
      /\ Kept /\ UNCHANGED tmp
  BY DEF ClientInv, TypeOK, TestDir, Kept
<1>1. "test_dir" \in PlainNames /\ \A i \in 1..FILES : ToString(i) \in PlainNames
  BY DEF PlainNames, FixedNames, Numbers
<1>2. Own(u, dir) /\ Last(dir) = "test_dir" /\ Last(dir) \notin TmpNames
  BY <1>0, <1>1, PlainOwn, PlainIsNotTmp
<1> HIDE DEF dir
<1>3. CASE Try(u, IsDir(dir), Chdir(u, dir), Return(u))
  BY <1>0, <1>2, <1>3, AnswerMoves DEF Try, Change, ChangesDir
<1>4. ASSUME NEW i \in 1..FILES, Create(u, ToString(i), Return(u))
      PROVE  Change(u) /\ Moved(u)
  BY <1>0, <1>1, <1>4, CreateDoes
<1>5. CASE Check(u, IsDir(cwd[u]) /\ Size(cwd[u]) >= FILES + 3, Fail(u))
  BY <1>0, <1>5, CheckDoes
<1> QED
  BY <1>0, <1>3, <1>4, <1>5 DEF TestDir, dir

LEMMA UmaskTestDoes ==
    ASSUME ClientInv, NEW u \in clients, TestUmask(u)
    PROVE  Change(u) /\ Moved(u) /\ Kept /\ UNCHANGED tmp
<1> DEFINE file == Path(u, "Umask_test_file")
<1>0. /\ u \in Users /\ test[u] = "test_umask"
      /\ Kept /\ UNCHANGED tmp
  BY DEF ClientInv, TypeOK, TestUmask, Kept
<1>1. "Umask_test_file" \in PlainNames
  BY DEF PlainNames, FixedNames, Numbers
<1>2. Own(u, file) /\ Last(file) = "Umask_test_file"
  BY <1>0, <1>1, PlainOwn
<1> HIDE DEF file
<1>3. CASE Try(u, IsFile(file), Unlink(file), Pass(u)) \/ Try(u, IsFile(file), Unlink(file), Fail(u))
  BY <1>0, <1>2, <1>3, AnswerMoves, DetachChanges DEF Try, Change
<1>4. CASE Create(u, "Umask_test_file", IF step[u] = 2 THEN Return(u) ELSE Fail(u))
  <2>1. Create(u, "Umask_test_file", Return(u)) \/ Create(u, "Umask_test_file", Fail(u))
    BY <1>4 DEF Create, Try
  <2> QED
    BY <1>0, <1>1, <2>1, CreateDoes
<1>5. CASE umask' = [umask EXCEPT ![u] = NoOthers] /\ (Pass(u) \/ Return(u)) /\ UNCHANGED <<tree, cwd>>
  BY <1>0, <1>5, AnswerMoves DEF Change
<1>6. CASE Check(u, HasPerms(file, Perms \ old_mask[u]), IF Exists(file) THEN Fail(u) ELSE Return(u))
  <2>1. UNCHANGED server /\ (Pass(u) \/ Fail(u) \/ Return(u))
    BY <1>6 DEF Check
  <2> QED
    BY <1>0, <2>1, AnswerMoves DEF Change
<1>7. CASE Try(u, Exists(file), Chmod(file, {"u"}), Fail(u))
  <2>1. {"u"} \in SUBSET Perms
    BY DEF Perms
  <2> QED
    BY <1>0, <1>1, <1>2, <1>7, <2>1, AnswerMoves, ChmodChanges DEF Try, Change
<1>8. CASE \/ Check(u, HasPerms(file, {"u"}), Fail(u))
           \/ Check(u, ~Exists(file), Fail(u))
           \/ Check(u, HasPerms(file, Perms \ NoOthers), Fail(u))
  BY <1>0, <1>8, CheckDoes
<1> QED
  BY <1>3, <1>4, <1>5, <1>6, <1>7, <1>8 DEF TestUmask, file

LEMMA LinkTestDoes ==
    ASSUME ClientInv, NEW u \in clients, TestLink(u)
    PROVE  Change(u) /\ Moved(u) /\ Kept /\ UNCHANGED tmp
<1> DEFINE old == Path(u, "link.test")
           new == Path(u, "link2.test")
<1>0. /\ u \in Users /\ test[u] = "test_link"
      /\ Kept /\ UNCHANGED tmp
  BY DEF ClientInv, TypeOK, TestLink, Kept
<1>1. {"link.test", "link2.test"} \subseteq PlainNames
  BY DEF PlainNames, FixedNames, Numbers
<1>2. Own(u, new) /\ Last(new) = "link2.test"
  BY <1>0, <1>1, PlainOwn
<1> HIDE DEF old, new
<1>3. CASE Create(u, "link.test", Return(u))
  BY <1>0, <1>1, <1>3, CreateDoes
<1>4. CASE Try(u, CanLink(old, new), Link(old, new), Return(u))
  BY <1>0, <1>1, <1>2, <1>4, AnswerMoves, LinkChanges DEF Try, Change
<1>5. CASE Check(u, Exists(old) /\ Links(old) = 2, IF Exists(old) THEN Fail(u) ELSE Return(u))
  <2>1. UNCHANGED server /\ (Pass(u) \/ Fail(u) \/ Return(u))
    BY <1>5 DEF Check
  <2> QED
    BY <1>0, <2>1, AnswerMoves DEF Change
<1>6. CASE Try(u, IsFile(new), Unlink(new), Return(u))
  BY <1>0, <1>2, <1>6, AnswerMoves, DetachChanges DEF Try, Change
<1> QED
  BY <1>0, <1>3, <1>4, <1>5, <1>6 DEF TestLink, old, new

\* The search for a name, when it goes on.
NameTaken(u) ==
    /\ tmp' = [tmp EXCEPT ![u] = @ + 1]
    /\ test[u] = "test_rmdir" /\ ~Late(u)
    /\ Exists(Path(u, Tmpdirs[tmp[u]]))
    /\ UNCHANGED tree

LEMMA RmdirTestDoes ==
    ASSUME ClientInv, NEW u \in clients, TestRmdir(u)
    PROVE  Change(u) /\ Moved(u) /\ Kept /\ (UNCHANGED tmp \/ NameTaken(u))
<1> DEFINE dir == Path(u, Tmpdirs[tmp[u]])
<1>0. /\ u \in Users /\ test[u] = "test_rmdir"
      /\ tmp[u] \in DOMAIN Tmpdirs
      /\ Kept
  BY DEF ClientInv, TypeOK, TestRmdir, Kept
<1>1. Tmpdirs[tmp[u]] \in TmpNames /\ Tmpdirs[tmp[u]] \in Names
  BY <1>0 DEF TmpNames, Names
<1>2. Own(u, dir) /\ Last(dir) = Tmpdirs[tmp[u]]
  BY <1>0, <1>1, PathOwn
<1>3. \A i \in DOMAIN Tmpdirs : Last(dir) = Tmpdirs[i] => i = tmp[u]
  BY <1>0, <1>2, NamesAssumption
<1> HIDE DEF dir
<1>4. CASE step[u] = 1 /\ Exists(dir) /\ tmp' = [tmp EXCEPT ![u] = @ + 1]
           /\ UNCHANGED <<setup, test, step, run, failed, server>>
  <2>1. Moved(u)
    BY <1>4 DEF ClientInv, TypeOK, Moved, Late
  <2> QED
    BY <1>0, <1>4, <2>1 DEF Change, NameTaken, Late, server, dir
<1>5. CASE step[u] = 1 /\ UNCHANGED tmp /\ Pass(u) /\ UNCHANGED server
  BY <1>0, <1>5, AnswerMoves DEF Change
<1>6. CASE step[u] = 2 /\ Try(u, CanMkdir(dir), Mkdir(u, dir), Return(u)) /\ UNCHANGED tmp
  <2>1. Moved(u)
    BY <1>0, <1>6, AnswerMoves DEF Try
  <2>2. CASE UNCHANGED server
    BY <1>0, <1>6, <2>1, <2>2 DEF Change
  <2>3. CASE CanMkdir(dir) /\ Mkdir(u, dir) /\ Pass(u)
    <3>1. Late(u)'
      BY <1>0, <1>6, <2>3 DEF ClientInv, TypeOK, Pass, Onward, Goto, LastStep, Late
    <3>2. Change(u)
      BY <1>0, <1>2, <1>3, <2>3, <3>1, MkdirChanges DEF CanMkdir
    <3> QED
      BY <1>0, <1>6, <2>1, <3>2
  <2> QED
    BY <1>6, <2>2, <2>3 DEF Try
<1>7. CASE Try(u, IsDir(dir) /\ Entries(dir) = {}, Rmdir(dir), Return(u)) /\ UNCHANGED tmp
  BY <1>0, <1>1, <1>2, <1>7, AnswerMoves, DetachChanges DEF Try, Change
<1>8. CASE Check(u, ~Exists(dir), Fail(u)) /\ UNCHANGED tmp
  BY <1>0, <1>8, CheckDoes
<1> QED
  BY <1>0, <1>4, <1>5, <1>6, <1>7, <1>8 DEF TestRmdir, NextName, dir, server

LEMMA FstatTestDoes ==
    ASSUME ClientInv, NEW u \in clients, TestFstat(u)
    PROVE  Change(u) /\ Moved(u) /\ Kept /\ UNCHANGED tmp
<1> DEFINE file == Path(u, "fstat.test")
<1>0. /\ u \in Users /\ test[u] = "test_fstat"
      /\ UNCHANGED tmp
  BY DEF ClientInv, TypeOK, TestFstat
<1>1. Kept
  <2>1. Exists(file) => tree[file] \in Inode
    BY DEF ClientInv, TypeOK, Exists
  <2> QED
    BY <2>1 DEF ClientInv, TypeOK, TestFstat, Kept
<1>2. "fstat.test" \in PlainNames
  BY DEF PlainNames, FixedNames, Numbers
<1>3. \/ Create(u, "fstat.test", Return(u))
      \/ Check(u, Exists(file), Return(u))
      \/ \E same \in SameStat(seen[u], Fstat(file)) : Check(u, Exists(file) /\ same, Fail(u))
  BY DEF TestFstat
<1> HIDE DEF file
<1> QED
  BY <1>0, <1>1, <1>2, <1>3, CreateDoes, CheckDoes

LEMMA OtherTestsDo ==
    ASSUME ClientInv, NEW u \in clients, Contents(u) \/ TestBandwidth(u) \/ Mount(u)
    PROVE  Change(u) /\ Moved(u) /\ Kept /\ UNCHANGED tmp
<1>0. /\ u \in Users
      /\ Kept /\ UNCHANGED tmp
  BY DEF ClientInv, TypeOK, Contents, TestBandwidth, Mount, Kept
<1>1. {"test.file", "bandwidth.test"} \subseteq PlainNames
  BY DEF PlainNames, FixedNames, Numbers
<1>2. CASE Contents(u)
  BY <1>0, <1>1, <1>2, CreateDoes DEF Contents
<1>3. CASE TestBandwidth(u)
  BY <1>0, <1>1, <1>3, CreateDoes, CheckDoes DEF TestBandwidth
<1>4. CASE Mount(u)
  <2>1. failed' \in [Users -> BOOLEAN] /\ UNCHANGED server
    BY <1>4 DEF ClientInv, TypeOK, Mount
  <2>2. Moved(u)
    BY <1>0, <1>4, <2>1, Tests, GotoMoves DEF Mount, Late
  <2> QED
    BY <1>0, <2>1, <2>2 DEF Change
<1> QED
  BY <1>2, <1>3, <1>4

-----------------------------------------------------------------------------
\* What the changes leave of the invariant.

LEMMA ChangeTypes ==
    ASSUME ClientInv, NEW u \in clients, Change(u), UNCHANGED setup
    PROVE  /\ \A path \in DOMAIN tree' : path \in Seq(Names) /\ tree'[path] \in Inode
           /\ IsDir(Root)'
           /\ cwd' \in [Users -> DOMAIN tree']
           /\ umask' \in [Users -> SUBSET Perms]
           /\ \A w \in Users : IsDir(cwd[w])'
           /\ \A w \in Users : cwd'[w] # Root => Own(w, cwd[w])' /\ Last(cwd'[w]) \notin TmpNames
           /\ \A w \in Users \ {u} : cwd'[w] = cwd[w]
           /\ cwd[u] # Root => cwd'[u] # Root
           /\ cwd'[u] # Root \/ cwd'[u] = cwd[u]
<1>0. /\ u \in Users
      /\ cwd \in [Users -> DOMAIN tree] /\ umask \in [Users -> SUBSET Perms]
      /\ \A path \in DOMAIN tree : path \in Seq(Names) /\ tree[path] \in Inode
      /\ \A w \in Users : cwd[w] \in DOMAIN tree /\ tree[cwd[w]].kind = "dir"
      /\ \A w \in Users : cwd[w] # Root => Own(w, cwd[w]) /\ Last(cwd[w]) \notin TmpNames
      /\ Root \in DOMAIN tree /\ tree[Root].kind = "dir"
  BY DEF ClientInv, TypeOK, PlacedInv, IsDir, Exists
<1>1. \A w, path : Own(w, path)' <=> Own(w, path)
  BY DEF Own, setup
<1>2. CASE UNCHANGED server
  BY <1>0, <1>1, <1>2 DEF server, IsDir, Exists
<1>3. CASE ChangesTree(u)
  <2>1. PICK path : Own(u, path) /\ (\/ \E inode \in Inode :
                                          /\ Add(path, inode)
                                          /\ Exists(path) => inode.kind = tree[path].kind
                                     \/ Detach(path) /\ (IsFile(path) \/ Last(path) \in TmpNames))
    BY <1>3 DEF ChangesTree
  <2> DEFINE Typed == \A p \in DOMAIN tree' : p \in Seq(Names) /\ tree'[p] \in Inode
             DirsStay == \A p \in DOMAIN tree :
                             tree[p].kind = "dir" /\ (p = Root \/ Last(p) \notin TmpNames)
                                 => p \in DOMAIN tree' /\ tree'[p].kind = "dir"
  <2>2. Typed /\ DirsStay
    <3>1. ASSUME NEW inode \in Inode, Add(path, inode),
                 Exists(path) => inode.kind = tree[path].kind
          PROVE  Typed /\ DirsStay
      BY <1>0, <2>1, <3>1 DEF Add, Own, Exists
    <3>2. ASSUME Detach(path), IsFile(path) \/ Last(path) \in TmpNames
          PROVE  Typed /\ DirsStay
      BY <1>0, <2>1, <3>2 DEF Detach, Own, IsFile, Exists
    <3> QED
      BY <2>1, <3>1, <3>2
  <2>3. UNCHANGED <<cwd, umask>>
    BY <1>3 DEF ChangesTree
  <2> QED
    BY <1>0, <1>1, <2>2, <2>3 DEF IsDir, Exists
<1>4. CASE ChangesDir(u)
  BY <1>0, <1>1, <1>4 DEF ChangesDir, Chdir, IsDir, Exists, Own
<1>5. CASE umask' = [umask EXCEPT ![u] = NoOthers] /\ UNCHANGED <<tree, cwd>>
  <2>1. NoOthers \in SUBSET Perms
    BY DEF NoOthers, Perms
  <2> QED
    BY <1>0, <1>1, <1>5, <2>1 DEF IsDir, Exists
<1> QED
  BY <1>2, <1>3, <1>4, <1>5 DEF Change

\* Only the client itself makes directories that its test_rmdir may find.
LEMMA ChangeLeaves ==
    ASSUME ClientInv, NEW u \in clients, test[u] # "stopped", Change(u), Moved(u)
    PROVE  LeftInv'
<1>0. u \in Users /\ UNCHANGED <<setup, run>> /\ tmp[u] <= run[u]
  <2>1. u \in Users /\ run[u] \in Nat
    BY ClientsAssumption DEF ClientInv, TypeOK
  <2> QED
    BY <2>1 DEF ClientInv, NamesBounded, Moved
<1>1. \A path \in DOMAIN tree' : \A i \in DOMAIN Tmpdirs :
          path \notin DOMAIN tree /\ Last(path) = Tmpdirs[i]
              => Own(u, path) /\ i = tmp[u] /\ Late(u)'
  <2>1. CASE UNCHANGED tree
    BY <2>1
  <2>2. CASE ChangesTree(u)
    BY <2>2 DEF ChangesTree, Add, Detach
  <2> QED
    BY <2>1, <2>2 DEF Change, ChangesDir, Chdir, server
<1> SUFFICES ASSUME NEW w \in clients, NEW path \in DOMAIN tree', NEW i \in DOMAIN Tmpdirs,
                    Own(w, path), Last(path) = Tmpdirs[i]
             PROVE  i <= run[w] /\ (i < run[w] \/ Late(w)')
  BY <1>0 DEF LeftInv, Own, setup
<1>2. CASE path \in DOMAIN tree
  <2>1. i <= run[w] /\ (i < run[w] \/ Late(w))
    BY <1>2 DEF ClientInv, LeftInv
  <2>2. w \in Users /\ (Late(w) => Late(w)')
    BY DEF ClientInv, TypeOK, Moved, Late
  <2> QED
    BY <2>1, <2>2
<1>3. CASE path \notin DOMAIN tree
  <2>1. Own(u, path) /\ i = tmp[u] /\ Late(u)'
    BY <1>1, <1>3
  <2>2. u = w
    BY <2>1 DEF ClientInv, Own
  <2> QED
    BY <1>0, <2>1, <2>2
<1> QED
  BY <1>2, <1>3

LEMMA NextNameBounded ==
    ASSUME ClientInv, NEW u \in clients, NameTaken(u)
    PROVE  tmp[u] + 1 <= run[u] /\ tmp[u] + 1 \in DOMAIN Tmpdirs
<1>1. /\ u \in Users /\ tmp[u] \in DOMAIN Tmpdirs /\ run[u] \in 0..RUNS
      /\ tmp[u] \in Nat
      /\ DOMAIN Tmpdirs = 1..Len(Tmpdirs) /\ Len(Tmpdirs) \in Nat
  BY ClientsAssumption DEF ClientInv, TypeOK
<1>2. Own(u, Path(u, Tmpdirs[tmp[u]])) /\ Last(Path(u, Tmpdirs[tmp[u]])) = Tmpdirs[tmp[u]]
  BY <1>1, PathOwn DEF NameTaken, TmpNames, Names
<1>3. tmp[u] <= run[u] /\ (tmp[u] < run[u] \/ Late(u))
  BY <1>1, <1>2 DEF ClientInv, LeftInv, NameTaken, Exists
<1> QED
  BY <1>1, <1>3, ClientsAssumption DEF NameTaken

LEMMA ChangeKeeps ==
    ASSUME ClientInv, NEW u \in clients, test[u] # "stopped",
           Change(u), Moved(u), Kept, UNCHANGED tmp \/ NameTaken(u),
           test[u] = "test_connect" /\ ~local /\ test'[u] \notin {"stopped", "test_connect"}
               => cwd'[u] # Root
    PROVE  ClientInv'
<1>0. u \in Users /\ clients \subseteq Users /\ UNCHANGED <<setup, run>>
  BY DEF ClientInv, TypeOK, Moved
<1>1. /\ tmp' \in [Users -> DOMAIN Tmpdirs]
      /\ NamesBounded'
  <2>1. tmp \in [Users -> DOMAIN Tmpdirs] /\ NamesBounded
    BY DEF ClientInv, TypeOK
  <2>2. CASE UNCHANGED tmp
    BY <1>0, <2>1, <2>2 DEF NamesBounded
  <2>3. CASE NameTaken(u)
    <3>1. \A w \in Users : tmp'[w] = IF w = u THEN tmp[u] + 1 ELSE tmp[w]
      BY <2>1, <2>3 DEF NameTaken
    <3>2. tmp[u] + 1 <= run[u] /\ tmp[u] + 1 \in DOMAIN Tmpdirs
      BY <2>3, NextNameBounded
    <3>3. NamesBounded'
      BY <1>0, <2>1, <3>1, <3>2 DEF NamesBounded
    <3> QED
      BY <2>1, <2>3, <3>2, <3>3 DEF NameTaken
  <2> QED
    BY <2>2, <2>3
<1>2. LeftInv'
  BY ChangeLeaves
<1>3. TypeOK'
  BY <1>0, <1>1, ChangeTypes DEF ClientInv, TypeOK, Moved, Kept, setup
<1>4. PlacedInv'
  <2>1. /\ \A w \in Users : IsDir(cwd[w])'
        /\ \A w \in Users : cwd'[w] # Root => Own(w, cwd[w])' /\ Last(cwd'[w]) \notin TmpNames
        /\ \A w \in Users \ {u} : cwd'[w] = cwd[w]
        /\ cwd[u] # Root => cwd'[u] # Root
    BY <1>0, ChangeTypes
  <2> QED
    BY <1>0, <2>1 DEF ClientInv, PlacedInv, Moved, setup
<1>5. IsDir(Root)'
  BY <1>0, ChangeTypes
<1>6. \A w \in Users : test'[w] # "stopped" => run'[w] > 0
  BY <1>0 DEF ClientInv, Moved
<1> QED
  BY <1>0, <1>1, <1>2, <1>3, <1>4, <1>5, <1>6 DEF ClientInv, Moved, setup

LEMMA GoneKeeps ==
    ASSUME ClientInv, NEW u \in clients, Gone(u),
           \/ UNCHANGED tree
           \/ local /\ \E path \in DOMAIN tree \ {Root} :
                           tree' = [p \in DOMAIN tree \ Lost(path) |-> tree[p]]
    PROVE  ClientInv'
<1>0. /\ u \in Users /\ UNCHANGED <<setup, run, tmp, seen, old_mask, failed>>
      /\ cwd' = [cwd EXCEPT ![u] = Root] /\ umask' = [umask EXCEPT ![u] = Default]
      /\ test' = [test EXCEPT ![u] = "stopped"] /\ step' = [step EXCEPT ![u] = 1]
  BY DEF ClientInv, TypeOK, Gone, Goto
<1>t. TypeOK /\ step \in [Users -> Nat] /\ Root \in DOMAIN tree /\ tree[Root].kind = "dir"
  BY DEF ClientInv, IsDir, Exists
<1> DEFINE Pruned == /\ Root \in DOMAIN tree'
                     /\ \A w \in Users \ {u} : cwd[w] \in DOMAIN tree'
                     /\ DOMAIN tree' \subseteq DOMAIN tree
                     /\ \A p \in DOMAIN tree' : tree'[p] = tree[p]
<1>1. Pruned
  <2>1. CASE UNCHANGED tree
    BY <1>t, <2>1 DEF TypeOK
  <2>2. ASSUME local, NEW path \in DOMAIN tree \ {Root},
               tree' = [p \in DOMAIN tree \ Lost(path) |-> tree[p]]
        PROVE  Pruned
    <3>1. Root \notin Lost(path)
      <4>1. path \in Seq(Names) /\ Len(path) > 0
        BY <1>t, <2>2, EmptySeq, LenProperties DEF TypeOK, Root
      <4>2. Len(Root) = 0
        BY DEF Root
      <4> QED
        BY <4>1, <4>2 DEF Lost, IsPrefix
    <3>2. \A w \in Users \ {u} : cwd[w] = Root
      BY <2>2 DEF ClientInv, PlacedInv
    <3> QED
      BY <1>t, <2>2, <3>1, <3>2
  <2> QED
    BY <2>1, <2>2
<1>2. TypeOK'
  <2>1. Default \in SUBSET Perms
    BY DEF Default, Perms
  <2>2. cwd' \in [Users -> DOMAIN tree']
    BY <1>0, <1>t, <1>1 DEF TypeOK
  <2> QED
    BY <1>0, <1>t, <1>1, <2>1, <2>2 DEF TypeOK, setup
<1>3. PlacedInv' /\ IsDir(Root)'
  BY <1>0, <1>t, <1>1 DEF ClientInv, TypeOK, PlacedInv, IsDir, Exists, Own, setup
<1>4. LeftInv'
  BY <1>0, <1>t, <1>1 DEF ClientInv, LeftInv, Late, Own, TypeOK, setup
<1>5. NamesBounded'
  BY <1>0 DEF ClientInv, NamesBounded
<1> QED
  BY <1>0, <1>t, <1>2, <1>3, <1>4, <1>5 DEF ClientInv, TypeOK, setup

LEMMA RunKeeps ==
    ASSUME ClientInv, NEW u \in clients, Run(u)
    PROVE  ClientInv'
<1>0. /\ u \in Users /\ UNCHANGED <<setup, server, seen, old_mask>>
      /\ run[u] < RUNS /\ run' = [run EXCEPT ![u] = @ + 1]
      /\ test' = [test EXCEPT ![u] = "test_connect"] /\ step' = [step EXCEPT ![u] = 1]
      /\ tmp' = [tmp EXCEPT ![u] = 1] /\ failed' = [failed EXCEPT ![u] = FALSE]
      /\ test[u] = "stopped"
  BY DEF ClientInv, TypeOK, Run
<1>t. TypeOK /\ step \in [Users -> Nat] /\ run[u] \in 0..RUNS /\ RUNS \in Nat
  BY <1>0, ClientsAssumption DEF ClientInv, TypeOK
<1>1. 1 \in DOMAIN Tmpdirs /\ DOMAIN Tmpdirs \subseteq Nat
  BY <1>t, ClientsAssumption
<1>2. TypeOK'
  <2>1. \A w \in Users : test'[w] # "stopped" => step'[w] \in 1..LastStep[test'[w]]
    BY <1>0, <1>t DEF TypeOK, LastStep
  <2>2. run' \in [Users -> 0..RUNS]
    BY <1>0, <1>t DEF TypeOK
  <2>3. test' \in [Users -> DOMAIN After \cup {"stopped"}]
    BY <1>0, <1>t, Tests DEF TypeOK
  <2> QED
    BY <1>0, <1>t, <1>1, <2>1, <2>2, <2>3 DEF TypeOK, setup, server
<1>3. PlacedInv' /\ IsDir(Root)'
  BY <1>0, <1>t DEF ClientInv, TypeOK, PlacedInv, IsDir, Exists, Own, setup, server
<1>4. LeftInv'
  <2> SUFFICES ASSUME NEW w \in clients, NEW path \in DOMAIN tree, NEW i \in DOMAIN Tmpdirs,
                      Own(w, path), Last(path) = Tmpdirs[i]
               PROVE  i <= run'[w] /\ (i < run'[w] \/ Late(w)')
    BY <1>0 DEF LeftInv, Own, setup, server
  <2>1. i <= run[w] /\ (i < run[w] \/ Late(w)) /\ i \in Nat
    BY <1>1 DEF ClientInv, LeftInv
  <2>2. CASE w = u
    BY <1>0, <1>t, <2>1, <2>2 DEF TypeOK
  <2>3. CASE w # u
    BY <1>0, <1>t, <2>1, <2>3 DEF TypeOK, Late
  <2> QED
    BY <2>2, <2>3
<1>5. NamesBounded'
  BY <1>0, <1>t DEF ClientInv, NamesBounded, TypeOK
<1> QED
  BY <1>0, <1>t, <1>2, <1>3, <1>4, <1>5 DEF ClientInv, TypeOK, setup

-----------------------------------------------------------------------------
LEMMA TestDoes ==
    ASSUME ClientInv, NEW u \in clients, Test(u), ~(TestDisconnect(u) \/ Terminate(u))
    PROVE  /\ test[u] # "stopped"
           /\ Change(u) /\ Moved(u) /\ Kept /\ (UNCHANGED tmp \/ NameTaken(u))
           /\ test[u] = "test_connect" /\ ~local /\ test'[u] \notin {"stopped", "test_connect"}
                  => cwd'[u] # Root
<1>1. CASE TestConnect(u)
  BY <1>1, ConnectDoes DEF TestConnect
<1>2. CASE Mount(u)
  BY <1>2, OtherTestsDo DEF Mount
<1>3. CASE ~TestConnect(u) /\ ~Mount(u)
  <2>1. test[u] \in {"contents", "test_create", "test_dir", "test_umask", "test_link",
                     "test_rmdir", "test_fstat", "test_bandwidth"}
    BY <1>3 DEF Test, Contents, TestCreate, TestDir, TestUmask, TestLink, TestRmdir, TestFstat,
                TestBandwidth
  <2> QED
    BY <1>3, <2>1, OtherTestsDo, CreateTestDoes, DirTestDoes, UmaskTestDoes, LinkTestDoes,
       RmdirTestDoes, FstatTestDoes DEF Test
<1> QED
  BY <1>1, <1>2, <1>3

LEMMA ClientInvStep == ClientInv /\ [Next]_vars => ClientInv'
<1> SUFFICES ASSUME ClientInv, [Next]_vars PROVE ClientInv'
  OBVIOUS
<1>1. CASE UNCHANGED vars
  BY <1>1 DEF vars, ClientInv, TypeOK, IsDir, Exists, PlacedInv, NamesBounded, LeftInv, Own, Late
<1>2. ASSUME NEW u \in clients, Test(u) PROVE ClientInv'
  <2>1. CASE TestDisconnect(u) \/ Terminate(u)
    BY <2>1, GoneKeeps DEF TestDisconnect, Terminate
  <2> QED
    BY <1>2, <2>1, TestDoes, ChangeKeeps
<1>3. ASSUME NEW u \in clients, CutOff(u) PROVE ClientInv'
  BY <1>3, GoneKeeps DEF CutOff
<1> QED
  BY <1>1, <1>2, <1>3, RunKeeps DEF Next

LEMMA ClientInvInit == Init => ClientInv
<1> SUFFICES ASSUME Init PROVE ClientInv
  OBVIOUS
<1>1. clients \subseteq Users /\ IsFiniteSet(clients)
  BY ClientsAssumption, FS_Subset DEF Init
<1>2. local => \A u, w \in clients : u = w
  <2>1. local => Cardinality(clients) = 1
    BY DEF Init
  <2>2. local => \E x : clients = {x}
    BY <1>1, <2>1, FS_Singleton
  <2> QED
    BY <2>2
<1>3. /\ DOMAIN tree = {Root} /\ tree[Root] \in Inode /\ tree[Root].kind = "dir"
      /\ Root \in Seq(Names)
  BY DEF Init, Directory, Inode, Root
<1>4. Default \in SUBSET Perms /\ {} \in SUBSET Perms /\ Directory(Root, Perms) \in Inode
  BY <1>3 DEF Default, Perms, Init
<1>5. 1 \in DOMAIN Tmpdirs /\ 0 \in 0..RUNS
  BY ClientsAssumption
<1>6. TypeOK
  BY <1>1, <1>3, <1>4, <1>5 DEF Init, TypeOK
<1>7. PlacedInv /\ IsDir(Root)
  BY <1>3 DEF Init, PlacedInv, IsDir, Exists
<1>8. LeftInv
  BY <1>3 DEF LeftInv, Own
<1> QED
  BY <1>1, <1>2, <1>6, <1>7, <1>8 DEF Init, ClientInv, NamesBounded

LEMMA ClientInvariant == Spec => []ClientInv
  BY ClientInvInit, ClientInvStep, PTL DEF Spec

\* Every variable is of its type for any number of clients, files and runs: no test runs
\* past its last step, no name past the ones there are, and no process is left in a
\* directory that has been removed (FULLTEST.C:46-848).
THEOREM NameSpaceTypes == Spec => []TypeOK
<1>1. ClientInv => TypeOK
  BY DEF ClientInv
<1> QED
  BY <1>1, ClientInvariant, PTL

\* test_rmdir appends at most one A for each run before this one, wherever those were
\* cut off and whatever the server does wrong (FULLTEST.C:683-689).
THEOREM NameGrowsByRuns == Spec => []NamesBounded
<1>1. ClientInv => NamesBounded
  BY DEF ClientInv
<1> QED
  BY <1>1, ClientInvariant, PTL

\* No step of a client of the server changes anything in the home of another one
\* (FULLTEST.C:858-882).
THEOREM HomesKeptApart == Spec => HomesApart
<1>1. ASSUME ClientInv, Next, ~local, NEW u \in Users, NEW v \in Users \ {u},
             <<test[u], step[u]>> # <<test'[u], step'[u]>>
      PROVE  Subtree(v)' = Subtree(v)
  <2>1. PICK w \in clients : Run(w) \/ Test(w) \/ CutOff(w)
    BY <1>1 DEF Next
  <2>2. CASE UNCHANGED <<tree, setup>>
    BY <2>2 DEF Subtree, Lost, Home, setup
  <2>3. CASE Test(w) /\ ~(TestDisconnect(w) \/ Terminate(w))
    <3>1. Change(w) /\ Moved(w)
      BY <1>1, <2>3, TestDoes
    <3>2. w = u /\ UNCHANGED setup
      BY <1>1, <3>1 DEF Moved
    <3>3. CASE UNCHANGED tree
      BY <2>2, <3>2, <3>3
    <3>4. CASE ChangesTree(w)
      <4>1. PICK path : Own(u, path) /\ ((\E inode \in Inode : Add(path, inode)) \/ Detach(path))
        BY <3>2, <3>4 DEF ChangesTree
      <4>2. ~IsPrefix(<<v>>, path)
        <5>1. path \in Seq(Names) /\ path # Root /\ path[1] = u /\ u # v
          BY <1>1, <4>1 DEF Own
        <5>2. Len(path) \in Nat /\ Len(<<v>>) = 1
          BY <5>1
        <5>3. SubSeq(path, 1, 1)[1] = path[1] /\ SubSeq(<<v>>, 1, 1)[1] = v
          BY <5>1, <5>2, EmptySeq, SubSeqProperties DEF Root
        <5> QED
          BY <5>1, <5>2, <5>3 DEF IsPrefix
      <4>3. /\ \A p : p # path => (p \in DOMAIN tree' <=> p \in DOMAIN tree)
            /\ \A p \in DOMAIN tree : p # path => tree'[p] = tree[p]
        BY <4>1 DEF Add, Detach
      <4>4. Home(v) = <<v>> /\ Home(v)' = <<v>>
        BY <1>1, <3>2 DEF Home, setup
      <4> QED
        BY <4>2, <4>3, <4>4 DEF Subtree, Lost
    <3> QED
      BY <3>1, <3>3, <3>4 DEF Change, ChangesDir, Chdir, server
  <2>4. CASE ~(Test(w) /\ ~(TestDisconnect(w) \/ Terminate(w)))
    <3>1. UNCHANGED <<tree, setup>>
      BY <1>1, <2>1, <2>4 DEF Run, CutOff, TestDisconnect, Terminate, Gone, Goto, server
    <3> QED
      BY <2>2, <3>1
  <2> QED
    BY <2>3, <2>4
<1>2. ClientInv /\ [Next]_vars
        => [~local => \A u \in Users : \A v \in Users \ {u} :
               <<test[u], step[u]>> # <<test'[u], step'[u]>> => Subtree(v)' = Subtree(v)]_vars
  BY <1>1
<1> QED
  BY <1>2, ClientInvariant, PTL DEF Spec, HomesApart

-----------------------------------------------------------------------------
\* Paths and names.

LEMMA Paths ==
    ASSUME NEW s \in Seq(Names), NEW name \in Names
    PROVE  /\ Append(s, name) \in Seq(Names) /\ Append(s, name) # Root
           /\ Front(Append(s, name)) = s /\ Last(Append(s, name)) = name
           /\ Append(s, name) # s
<1> DEFINE a == Append(s, name)
<1>1. /\ a \in Seq(Names) /\ a # Root /\ Len(a) = Len(s) + 1 /\ a[Len(a)] = name
      /\ Len(s) \in Nat /\ \A i \in 1..Len(s) : a[i] = s[i]
  BY AppendProperties DEF Root
<1> HIDE DEF a
<1>2. /\ SubSeq(a, 1, Len(a) - 1) \in Seq(Names)
      /\ Len(SubSeq(a, 1, Len(a) - 1)) = Len(s)
      /\ \A i \in 1..Len(s) : SubSeq(a, 1, Len(a) - 1)[i] = s[i]
  <2>1. \A i \in 1..Len(a) - 1 : a[i] \in Names
    BY <1>1, ElementOfSeq
  <2> QED
    BY <1>1, <2>1, SubSeqProperties
<1>3. Front(a) = s
  BY <1>1, <1>2, SeqEqual DEF Front
<1>4. a # s
  BY <1>1
<1> QED
  BY <1>1, <1>3, <1>4 DEF Last, a

LEMMA PathParts ==
    ASSUME NEW path \in Seq(Names), path # Root
    PROVE  /\ Front(path) \in Seq(Names) /\ Last(path) \in Names
           /\ path = Append(Front(path), Last(path))
<1>1. PICK s \in Seq(Names), name \in Names : path = Append(s, name)
  BY SequenceEmptyOrAppend DEF Root
<1> QED
  BY <1>1, Paths

LEMMA FileNames ==
    /\ FixedNames \cup Numbers \subseteq Names
    /\ (FixedNames \cup Numbers) \ {"test_dir"} \subseteq Names \ DirNames
    /\ DirNames \subseteq Names
    /\ "test_dir" \in DirNames /\ "test_dir" \notin TmpNames
    /\ \A i \in 1..FILES : ToString(i) \in Numbers
    /\ FixedNames \cap Numbers = {}
<1>1. "test_dir" \in FixedNames
  BY DEF FixedNames
<1> QED
  BY <1>1, NamesAssumption DEF Names, PlainNames, DirNames, Numbers

LEMMA TmpNamesAreDirs ==
    \A i \in DOMAIN Tmpdirs : Tmpdirs[i] \in DirNames /\ Tmpdirs[i] \in Names
                              /\ Tmpdirs[i] \in TmpNames
  BY DEF DirNames, Names, TmpNames

\* A home, the directory of the tests in it, and what is there.
LEMMA Homes ==
    ASSUME NEW u \in Users, local \in BOOLEAN
    PROVE  /\ Home(u) \in Seq(Names) /\ Dir(u) \in Seq(Names)
           /\ Home(u) = Root \/ Last(Home(u)) \notin TmpNames
           /\ Dir(u) # Home(u) /\ Dir(u) # Root /\ Own(u, Dir(u))
           /\ Front(Dir(u)) = Home(u) /\ Last(Dir(u)) = "test_dir"
           /\ \A name \in Names :
                 /\ In(u, name) \in Seq(Names) /\ Own(u, In(u, name))
                 /\ Front(In(u, name)) = Dir(u) /\ Last(In(u, name)) = name
                 /\ In(u, name) # Dir(u)
<1>1. u \in PlainNames /\ u \in Names /\ "test_dir" \in Names /\ u \notin TmpNames
  BY FileNames, PlainIsNotTmp DEF PlainNames, FixedNames
<1>2. Home(u) \in Seq(Names) /\ (local \/ Own(u, Home(u)))
      /\ (Home(u) = Root \/ Last(Home(u)) \notin TmpNames)
  BY <1>1 DEF Home, Own, Root, Last
<1>3. ASSUME NEW s \in Seq(Names), local \/ Own(u, s), NEW name \in Names
      PROVE  Own(u, Append(s, name))
  BY <1>3, NameOfPath DEF Own
<1> QED
  BY <1>1, <1>2, <1>3, Paths DEF Dir, In

-----------------------------------------------------------------------------
\* What an answer does.

LEMMA PassDoes ==
    ASSUME ClientInv, NEW u \in Users, test[u] # "stopped", Pass(u)
    PROVE  /\ UNCHANGED <<setup, run, failed>>
           /\ \/ /\ step[u] < LastStep[test[u]]
                 /\ test'[u] = test[u] /\ step'[u] = step[u] + 1
              \/ /\ step[u] = LastStep[test[u]]
                 /\ test'[u] = After[test[u]] /\ step'[u] = 1
<1>0. test[u] \in DOMAIN After /\ step[u] \in 1..LastStep[test[u]]
      /\ LastStep[test[u]] \in Nat
  BY Tests DEF ClientInv, TypeOK
<1>1. test \in [Users -> DOMAIN After \cup {"stopped"}] /\ step \in [Users -> Nat]
  BY DEF ClientInv, TypeOK
<1> QED
  BY <1>0, <1>1 DEF Pass, Onward, Goto

LEMMA AnswerKeeps ==
    ASSUME ClientInv, NEW u \in Users, Pass(u) \/ Fail(u) \/ Return(u) \/ Fatal(u)
    PROVE  /\ UNCHANGED <<setup, run>>
           /\ failed'[u] = failed[u] \/ failed'[u] = TRUE
           /\ \A w \in Users \ {u} : failed'[w] = failed[w]
  BY DEF ClientInv, TypeOK, Pass, Onward, Fail, Return, Fatal, Goto

-----------------------------------------------------------------------------
\* What a call does to the tree.

\* Nothing happens but to that path.
Only(path) ==
    /\ \A p : p # path => /\ p \in DOMAIN tree' <=> p \in DOMAIN tree
                          /\ p \in DOMAIN tree => tree'[p] = tree[p]
    /\ UNCHANGED <<cwd, umask>>

LEMMA AddDoes ==
    ASSUME NEW path, NEW inode, Add(path, inode)
    PROVE  /\ path \in DOMAIN tree' /\ tree'[path] = inode
           /\ DOMAIN tree' = DOMAIN tree \cup {path}
           /\ \A p : p # path => /\ p \in DOMAIN tree' <=> p \in DOMAIN tree
                                 /\ p \in DOMAIN tree => tree'[p] = tree[p]
  BY DEF Add

LEMMA DetachDoes ==
    ASSUME NEW path, Detach(path)
    PROVE  /\ path \notin DOMAIN tree' /\ DOMAIN tree' = DOMAIN tree \ {path}
           /\ \A p : p # path => /\ p \in DOMAIN tree' <=> p \in DOMAIN tree
                                 /\ p \in DOMAIN tree => tree'[p] = tree[p]
  BY DEF Detach

LEMMA AddSound ==
    ASSUME TreeInv, UNCHANGED setup, NEW path, path # Root, NEW inode, Add(path, inode),
           Sound(path, inode)
    PROVE  TreeInv'
<1>1. IsFiniteSet(DOMAIN tree')
  BY AddDoes, FS_AddElement DEF TreeInv
<1>2. ASSUME NEW p \in DOMAIN tree' \ {Root} PROVE Sound(p, tree'[p])
  BY <1>2, AddDoes DEF TreeInv
<1>3. \A p \in DOMAIN tree' \ {Root} : Sound(p, tree[p])'
  BY <1>2 DEF Sound, setup
<1>4. Root \in DOMAIN tree' => tree'[Root].ino = Root
  BY AddDoes DEF TreeInv
<1> QED
  BY <1>1, <1>3, <1>4 DEF TreeInv

LEMMA LessSound ==
    ASSUME TreeInv, UNCHANGED setup, DOMAIN tree' \subseteq DOMAIN tree,
           \A p \in DOMAIN tree' : tree'[p] = tree[p]
    PROVE  TreeInv'
<1>1. IsFiniteSet(DOMAIN tree')
  BY FS_Subset DEF TreeInv
<1>2. \A p \in DOMAIN tree' \ {Root} : Sound(p, tree[p])'
  BY DEF TreeInv, Sound, setup
<1> QED
  BY <1>1, <1>2 DEF TreeInv

\* A place for an entry: below the root and not in a directory of test_rmdir.
Place(path) ==
    /\ path \in Seq(Names) /\ path # Root
    /\ Front(path) = Root \/ Last(Front(path)) \notin TmpNames

LEMMA KindOfEntry ==
    ASSUME TreeInv, NEW path \in DOMAIN tree, path # Root
    PROVE  /\ IsDir(path) <=> Last(path) \in DirNames
           /\ IsFile(path) <=> Last(path) \notin DirNames
           /\ IsDir(path) => defect # "mkdir"
<1>1. Sound(path, tree[path])
  BY DEF TreeInv
<1> QED
  BY <1>1 DEF Sound, IsDir, IsFile, Exists

LEMMA MkdirDoes ==
    ASSUME TreeInv, UNCHANGED setup, NEW u \in Users, NEW path, Place(path),
           Last(path) \in DirNames, Mkdir(u, path), ~Exists(path)
    PROVE  /\ TreeInv' /\ Only(path)
           /\ defect # "mkdir" => path \in DOMAIN tree' /\ tree'[path].kind = "dir"
           /\ path \in DOMAIN tree' => defect # "mkdir"
<1>1. CASE defect = "mkdir"
  BY <1>1 DEF Mkdir, Unless, TreeInv, Sound, setup, Only, Exists
<1>2. CASE defect # "mkdir"
  <2> DEFINE inode == Directory(path, Masked(u))
  <2>1. inode.kind = "dir" /\ inode.ino = path
    BY DEF Directory
  <2>2. Sound(path, inode)
    BY <1>2, <2>1 DEF Sound, Place
  <2> HIDE DEF inode
  <2>3. Add(path, inode) /\ UNCHANGED <<cwd, umask>> /\ path # Root
    BY <1>2 DEF Place, Mkdir, Unless, inode
  <2>4. path \in DOMAIN tree' /\ tree'[path].kind = "dir" /\ Only(path)
    BY <2>1, <2>3, AddDoes DEF Only
  <2> QED
    BY <1>2, <2>2, <2>3, <2>4, AddSound
<1> QED
  BY <1>1, <1>2

LEMMA OpenDoes ==
    ASSUME ClientInv, TreeInv, UNCHANGED setup, NEW u \in Users, NEW path, Place(path),
           Last(path) \notin DirNames, NEW size, Open(u, path, size)
    PROVE  /\ TreeInv' /\ Only(path)
           /\ path \in DOMAIN tree'
           /\ tree'[path].perms = IF Exists(path) THEN tree[path].perms ELSE Masked(u)
           /\ Exists(path) => tree'[path].size = IF defect = "size" THEN 0 ELSE size
<1>1. CASE IsFile(path)
  <2> DEFINE inode == [tree[path] EXCEPT !.size = IF defect = "size" THEN 0 ELSE size]
  <2>0. path \in DOMAIN tree /\ tree[path] \in Inode /\ Sound(path, tree[path])
    BY <1>1 DEF ClientInv, TypeOK, IsFile, Exists, TreeInv, Place
  <2>1. /\ inode.kind = tree[path].kind /\ inode.ino = tree[path].ino
        /\ inode.perms = tree[path].perms
        /\ inode.size = IF defect = "size" THEN 0 ELSE size
    BY <2>0 DEF Inode
  <2>2. Sound(path, inode)
    BY <2>0, <2>1 DEF Sound
  <2> HIDE DEF inode
  <2>3. Add(path, inode) /\ UNCHANGED <<cwd, umask>> /\ path # Root
    BY <1>1 DEF Place, Open, inode
  <2> QED
    BY <1>1, <2>0, <2>1, <2>2, <2>3, AddDoes, AddSound DEF IsFile, Exists, Only
<1>2. CASE ~IsFile(path)
  <2> DEFINE inode == [kind |-> "file", ino |-> path, perms |-> Masked(u), size |-> size]
  <2>0. ~Exists(path)
    BY <1>2, KindOfEntry DEF Exists, Place
  <2>1. inode.kind = "file" /\ inode.ino = path /\ inode.perms = Masked(u)
    OBVIOUS
  <2>2. Sound(path, inode)
    BY <2>1 DEF Sound, Place
  <2> HIDE DEF inode
  <2>3. Add(path, inode) /\ UNCHANGED <<cwd, umask>> /\ path # Root
    BY <1>2 DEF Place, Open, inode
  <2> QED
    BY <2>0, <2>1, <2>2, <2>3, AddDoes, AddSound DEF IsFile, Exists, Only
<1> QED
  BY <1>1, <1>2

LEMMA UnlinkDoes ==
    ASSUME TreeInv, UNCHANGED setup, NEW path, Exists(path), Unlink(path)
    PROVE  /\ TreeInv' /\ Only(path)
           /\ path \in DOMAIN tree' <=> defect = "unlink"
<1>1. CASE defect = "unlink"
  BY <1>1 DEF Unlink, Unless, TreeInv, Sound, setup, Only, Exists
<1>2. CASE defect # "unlink"
  BY <1>2, DetachDoes, LessSound DEF Unlink, Unless, Only, Exists
<1> QED
  BY <1>1, <1>2

LEMMA RmdirDoes ==
    ASSUME TreeInv, UNCHANGED setup, NEW path, Exists(path), Rmdir(path)
    PROVE  /\ TreeInv' /\ Only(path)
           /\ path \in DOMAIN tree' <=> defect = "rmdir"
<1>1. CASE defect = "rmdir"
  BY <1>1 DEF Rmdir, Unless, TreeInv, Sound, setup, Only, Exists
<1>2. CASE defect # "rmdir"
  BY <1>2, DetachDoes, LessSound DEF Rmdir, Unless, Only, Exists
<1> QED
  BY <1>1, <1>2

LEMMA ChmodDoes ==
    ASSUME ClientInv, TreeInv, UNCHANGED setup, NEW path, path # Root, Exists(path), NEW perms,
           Chmod(path, perms)
    PROVE  /\ TreeInv' /\ Only(path)
           /\ path \in DOMAIN tree'
           /\ tree'[path].perms = IF defect = "chmod" THEN tree[path].perms ELSE perms
<1>1. CASE defect = "chmod"
  BY <1>1 DEF Chmod, Unless, TreeInv, Sound, setup, Only, Exists
<1>2. CASE defect # "chmod"
  <2> DEFINE inode == [tree[path] EXCEPT !.perms = perms]
  <2>0. path \in DOMAIN tree /\ tree[path] \in Inode /\ Sound(path, tree[path])
    BY DEF ClientInv, TypeOK, Exists, TreeInv
  <2>1. /\ inode.kind = tree[path].kind /\ inode.ino = tree[path].ino
        /\ inode.perms = perms
    BY <2>0 DEF Inode
  <2>2. Sound(path, inode)
    BY <2>0, <2>1 DEF Sound
  <2> HIDE DEF inode
  <2>3. Add(path, inode) /\ UNCHANGED <<cwd, umask>>
    BY <1>2 DEF Chmod, Unless, inode
  <2> QED
    BY <1>2, <2>1, <2>2, <2>3, AddDoes, AddSound DEF Exists, Only
<1> QED
  BY <1>1, <1>2

LEMMA LinkDoes ==
    ASSUME TreeInv, UNCHANGED setup, NEW path, Place(path), Last(path) = "link.test",
           NEW new, Place(new), Last(new) = "link2.test", Front(path) = Front(new),
           CanLink(path, new), Link(path, new)
    PROVE  /\ TreeInv' /\ Only(new)
           /\ new \in DOMAIN tree' <=> defect # "link"
           /\ defect # "link" => tree'[new].ino = path
<1>1. CASE defect = "link"
  BY <1>1 DEF Link, Unless, TreeInv, Sound, setup, Only, Exists, CanLink
<1>2. CASE defect # "link"
  <2>1. /\ path # Root /\ new # Root /\ path = Append(Front(new), "link.test")
        /\ Front(new) = Root \/ Last(Front(new)) \notin TmpNames
    BY PathParts DEF Place
  <2>2. Sound(path, tree[path]) /\ tree[path].kind = "file"
    BY <2>1 DEF TreeInv, CanLink, IsFile, Exists
  <2>3. "link2.test" \notin DirNames
    BY FileNames DEF FixedNames
  <2>4. Sound(new, tree[path]) /\ tree[path].ino = path
    BY <1>2, <2>1, <2>2, <2>3 DEF Sound
  <2>5. Add(new, tree[path]) /\ UNCHANGED <<cwd, umask>>
    BY <1>2 DEF Link, Unless
  <2> QED
    BY <1>2, <2>1, <2>4, <2>5, AddDoes, AddSound DEF Exists, Only
<1> QED
  BY <1>1, <1>2

-----------------------------------------------------------------------------
\* What the step of a client leaves of the invariant for the client itself.
Stays(u) == TreeInv' /\ Placed(u)' /\ FirstRun(u)' /\ (~failed'[u] => OnTrack(u)')

LEMMA SameTree ==
    ASSUME TreeInv, UNCHANGED <<tree, setup>>
    PROVE  TreeInv'
  BY DEF TreeInv, Sound, setup

LEMMA FirstRunStays ==
    ASSUME NEW u \in Users, FirstRun(u), UNCHANGED <<setup, run>>, test[u] # "stopped",
           test'[u] \in Early => test[u] \in Early,
           run[u] > 0,
           run[u] \in Nat,
           \A p \in DOMAIN tree' \ {Root} :
               p \in DOMAIN tree \/ (Front(p) = Dir(u) => Last(p) \in {"test_file"} \cup Numbers)
    PROVE  FirstRun(u)'
  BY DEF FirstRun, Dir, Home, setup

LEMMA Known ==
    ASSUME TrackInv, NEW u \in clients, test[u] # "stopped"
    PROVE  /\ u \in Users /\ ClientInv /\ TreeInv
           /\ local \in BOOLEAN
           /\ Placed(u) /\ FirstRun(u) /\ (~failed[u] => OnTrack(u))
           /\ run[u] \in Nat /\ run[u] > 0
           /\ test[u] \in DOMAIN After /\ step[u] \in Nat \ {0}
           /\ failed[u] \in BOOLEAN
           /\ IsDir(cwd[u]) /\ cwd[u] \in Seq(Names)
           /\ cwd[u] = Root \/ Last(cwd[u]) \notin TmpNames
<1>1. u \in Users /\ ClientInv /\ TypeOK
  BY DEF TrackInv, ClientInv, TypeOK
<1>2. run[u] \in Nat
  BY <1>1, ClientsAssumption DEF TypeOK
<1>3. test[u] \in DOMAIN After
  BY <1>1, Tests DEF TypeOK
<1>4. step[u] \in Nat \ {0}
  BY <1>1, <1>3, Tests DEF TypeOK
<1> QED
  BY <1>1, <1>2, <1>3, <1>4 DEF TrackInv, ClientInv, TypeOK, PlacedInv

\* On its way a client is in one test.
LEMMA TrackOnly ==
    ASSUME NEW u \in Users, Found(u)',
           \/ test'[u] \in {"stopped", "contents", "test_disconnect"}
           \/ test'[u] = "test_connect" /\ OnConnect(u)'
           \/ test'[u] = "test_create" /\ OnCreate(u)'
           \/ test'[u] = "test_dir" /\ OnDir(u)'
           \/ test'[u] = "test_umask" /\ OnUmask(u)'
           \/ test'[u] = "test_link" /\ OnLink(u)'
           \/ test'[u] = "test_rmdir" /\ OnRmdir(u)'
           \/ test'[u] = "test_fstat" /\ OnFstat(u)'
           \/ test'[u] = "test_bandwidth" /\ OnBandwidth(u)'
           \/ step'[u] = 1 /\ test'[u] # "test_dir"
    PROVE  OnTrack(u)'
<1> DEFINE t == test'[u]
           s == step'[u]
<1>1. (t = "test_connect" /\ OnConnect(u)') \/ t # "test_connect" \/ s = 1 => OnConnect(u)'
  BY DEF OnConnect
<1>2. (t = "test_create" /\ OnCreate(u)') \/ t # "test_create" \/ s = 1 => OnCreate(u)'
  BY DEF OnCreate
<1>3. (t = "test_dir" /\ OnDir(u)') \/ t # "test_dir" => OnDir(u)'
  BY DEF OnDir
<1>4. (t = "test_umask" /\ OnUmask(u)') \/ t # "test_umask" \/ s = 1 => OnUmask(u)'
  BY DEF OnUmask
<1>5. (t = "test_link" /\ OnLink(u)') \/ t # "test_link" \/ s = 1 => OnLink(u)'
  BY DEF OnLink
<1>6. (t = "test_rmdir" /\ OnRmdir(u)') \/ t # "test_rmdir" \/ s = 1 => OnRmdir(u)'
  BY DEF OnRmdir
<1>7. (t = "test_fstat" /\ OnFstat(u)') \/ t # "test_fstat" \/ s = 1 => OnFstat(u)'
  BY DEF OnFstat
<1>8. (t = "test_bandwidth" /\ OnBandwidth(u)') \/ t # "test_bandwidth" \/ s = 1 => OnBandwidth(u)'
  BY DEF OnBandwidth, At
<1> QED
  BY <1>1, <1>2, <1>3, <1>4, <1>5, <1>6, <1>7, <1>8 DEF OnTrack

LEMMA ConnectTracks ==
    ASSUME TrackInv, NEW u \in clients, TestConnect(u)
    PROVE  Stays(u)
<1>0. /\ test[u] = "test_connect" /\ ~local /\ Home(u) = <<u>>
      /\ UNCHANGED <<tmp, old_mask, seen>>
  BY DEF TestConnect, Home
<1>1. /\ u \in Users /\ ClientInv /\ TreeInv
      /\ local \in BOOLEAN
      /\ Placed(u) /\ FirstRun(u) /\ (~failed[u] => OnTrack(u))
      /\ run[u] \in Nat /\ run[u] > 0
      /\ failed[u] \in BOOLEAN
      /\ umask[u] = Default
  BY <1>0, Known DEF Placed, Early
<1>2. /\ Home(u) \in Seq(Names) /\ Home(u) # Root /\ Front(Home(u)) = Root
      /\ Last(Home(u)) = u /\ u \in DirNames
      /\ Root # Dir(u) /\ Place(Home(u))
  <2>1. u \in Names /\ Home(u) = Append(Root, u) /\ Root \in Seq(Names)
    BY <1>0, <1>1, FileNames DEF Root, DirNames
  <2> QED
    BY <1>1, <2>1, Paths, Homes DEF DirNames, Place
<1>3. ASSUME UNCHANGED tree, UNCHANGED <<setup, run>>, 
             test'[u] \in {"test_connect", "contents", "stopped"}
      PROVE  TreeInv' /\ FirstRun(u)'
  BY <1>0, <1>1, <1>3, SameTree, FirstRunStays DEF Early
<1>4. CASE step[u] = 1 /\ IsDir(Home(u)) /\ Chdir(u, Home(u)) /\ Goto(u, "contents", 1)
           /\ UNCHANGED failed
  <2>1. /\ UNCHANGED <<tree, setup, run, umask>> /\ cwd'[u] = Home(u)
        /\ test'[u] = "contents" /\ step'[u] = 1
    BY <1>1, <1>4 DEF Chdir, Goto, ClientInv, TypeOK
  <2>2. Placed(u)'
    BY <1>1, <2>1 DEF Placed, At, Home, setup, Early
  <2>3. OnTrack(u)'
    BY <1>1, <2>1, TrackOnly DEF Found, AfterDir
  <2> QED
    BY <1>3, <2>1, <2>2, <2>3 DEF Stays
<1>5. CASE step[u] = 1 /\ ~IsDir(Home(u)) /\ UNCHANGED server /\ Pass(u)
  <2>1. /\ UNCHANGED <<tree, setup, run, umask, cwd>> /\ failed'[u] = failed[u]
        /\ test'[u] = "test_connect" /\ step'[u] = 2
    BY <1>0, <1>1, <1>5, PassDoes DEF server, LastStep
  <2>2. Placed(u)'
    BY <1>0, <1>1, <2>1 DEF Placed, At, Home, setup, Early
  <2>3. ~Exists(Home(u))'
    BY <1>0, <1>2, <1>1, <1>5, <2>1, KindOfEntry DEF Exists, Home, setup
  <2>4. OnTrack(u)'
    BY <1>1, <2>1, <2>3, TrackOnly DEF Found, AfterDir, OnConnect
  <2> QED
    BY <1>3, <2>1, <2>2, <2>4 DEF Stays
<1>6. CASE step[u] = 2 /\ CanMkdir(Home(u)) /\ Mkdir(u, Home(u)) /\ Pass(u)
  <2>1. /\ UNCHANGED <<setup, run>> /\ failed'[u] = failed[u]
        /\ test'[u] = "test_connect" /\ step'[u] = 3
    BY <1>0, <1>1, <1>6, PassDoes DEF LastStep
  <2>2. /\ TreeInv' /\ Only(Home(u))
        /\ defect # "mkdir" => Home(u) \in DOMAIN tree' /\ tree'[Home(u)].kind = "dir"
    BY <1>1, <1>2, <1>6, <2>1, MkdirDoes DEF CanMkdir
  <2>3. Placed(u)'
    BY <1>0, <1>1, <2>1, <2>2 DEF Placed, At, Home, setup, Early, Only
  <2>4. FirstRun(u)'
    BY <1>0, <1>1, <1>2, <2>1, <2>2, FirstRunStays DEF Only, Early
  <2>5. OnTrack(u)'
    BY <1>1, <2>1, <2>2, TrackOnly DEF Found, AfterDir, OnConnect, IsDir, Exists, Home, setup
  <2> QED
    BY <2>2, <2>3, <2>4, <2>5 DEF Stays
<1>7. CASE step[u] = 3 /\ IsDir(Home(u)) /\ Chdir(u, Home(u)) /\ Pass(u)
  <2>1. /\ UNCHANGED <<tree, setup, run, umask>> /\ cwd'[u] = Home(u)
        /\ test'[u] = "contents" /\ step'[u] = 1
    BY <1>0, <1>1, <1>7, PassDoes DEF Chdir, LastStep, After, ClientInv, TypeOK
  <2>2. Placed(u)'
    BY <1>1, <2>1 DEF Placed, At, Home, setup, Early
  <2>3. OnTrack(u)'
    BY <1>1, <2>1, TrackOnly DEF Found, AfterDir
  <2> QED
    BY <1>3, <2>1, <2>2, <2>3 DEF Stays
<1>8. CASE UNCHANGED server /\ Fatal(u)
  <2>1. /\ UNCHANGED <<tree, setup, run, umask>> /\ failed'[u] = TRUE
        /\ test'[u] = "stopped"
    BY <1>1, <1>8 DEF Fatal, Goto, ClientInv, TypeOK, server
  <2>2. Placed(u)'
    BY <1>0, <1>1, <2>1 DEF Placed, At, Home, setup, Early
  <2> QED
    BY <1>3, <2>1, <2>2 DEF Stays
<1> QED
  BY <1>4, <1>5, <1>6, <1>7, <1>8 DEF TestConnect, Try

LEMMA PlaceHere ==
    ASSUME TrackInv, NEW u \in clients, test[u] # "stopped", NEW name \in Names
    PROVE  /\ Place(Path(u, name)) /\ Last(Path(u, name)) = name /\ Front(Path(u, name)) = cwd[u]
           /\ Path(u, name) \in Seq(Names)
  BY Known, Paths DEF Place, Path

\* In a directory there is room for a file, whose name is only given to files.
LEMMA CreatePasses ==
    ASSUME TrackInv, NEW u \in clients, test[u] # "stopped",
           NEW name \in (FixedNames \cup Numbers) \ {"test_dir"},
           Create(u, name, Fatal(u)) \/ Create(u, name, Return(u)) \/ Create(u, name, Fail(u))
    PROVE  LET path == Path(u, name)
           IN  /\ Pass(u) /\ TreeInv' /\ Only(path) /\ path \in DOMAIN tree'
               /\ tree'[path].perms = IF Exists(path) THEN tree[path].perms ELSE Masked(u)
<1> DEFINE path == Path(u, name)
<1>1. u \in Users /\ ClientInv /\ TreeInv /\ IsDir(cwd[u]) /\ name \in Names /\ name \notin DirNames
  BY Known, FileNames
<1>2. Place(path) /\ Last(path) = name /\ Front(path) = cwd[u]
  BY <1>1, PlaceHere
<1> HIDE DEF path
<1>3. CanOpen(path)
  BY <1>1, <1>2, KindOfEntry DEF CanOpen, IsDir, Exists, Place
<1>4. Open(u, path, 0) /\ Pass(u)
  BY <1>3 DEF Create, Try, path
<1>5. UNCHANGED setup
  BY <1>1, <1>4, PassDoes
<1>6. /\ TreeInv' /\ Only(path) /\ path \in DOMAIN tree'
      /\ tree'[path].perms = IF Exists(path) THEN tree[path].perms ELSE Masked(u)
  BY <1>1, <1>2, <1>4, <1>5, OpenDoes DEF Exists
<1> QED
  BY <1>4, <1>6 DEF path

LEMMA MountTracks ==
    ASSUME TrackInv, NEW u \in clients, Mount(u)
    PROVE  Stays(u)
<1>0. /\ test[u] = "test_connect" /\ local
      /\ u \in Users /\ ClientInv /\ TreeInv
      /\ Placed(u) /\ FirstRun(u)
      /\ run[u] \in Nat /\ run[u] > 0
      /\ cwd[u] = Home(u) /\ umask[u] = Default
  BY Known DEF Mount, Placed, Early
<1>1. /\ UNCHANGED <<tree, setup, run, umask, cwd>>
      /\ test'[u] \in {"contents", "stopped"} /\ step'[u] = 1
  BY <1>0 DEF Mount, Goto, server, ClientInv, TypeOK
<1>2. TreeInv' /\ FirstRun(u)'
  BY <1>0, <1>1, SameTree, FirstRunStays DEF Early
<1>3. Placed(u)'
  BY <1>0, <1>1 DEF Placed, At, Home, setup, Early
<1>4. OnTrack(u)'
  BY <1>0, <1>1, TrackOnly DEF Found, AfterDir
<1> QED
  BY <1>2, <1>3, <1>4 DEF Stays

LEMMA ContentsTracks ==
    ASSUME TrackInv, NEW u \in clients, Contents(u)
    PROVE  Stays(u) /\ failed'[u] = failed[u]
<1>0. /\ test[u] = "contents"
      /\ u \in Users /\ ClientInv /\ TreeInv
      /\ Placed(u) /\ FirstRun(u)
      /\ run[u] \in Nat /\ run[u] > 0 /\ local \in BOOLEAN
      /\ cwd[u] = Home(u) /\ umask[u] = Default
  BY Known DEF Contents, Placed, Early
<1> DEFINE path == Path(u, "test.file")
<1>1. "test.file" \in FixedNames
  BY DEF FixedNames
<1>2. Pass(u) /\ TreeInv' /\ Only(path)
  BY <1>0, <1>1, CreatePasses DEF Contents
<1>3. Front(path) = Home(u) /\ Home(u) # Dir(u)
  BY <1>0, <1>1, PlaceHere, Homes, FileNames
<1> HIDE DEF path
<1>4. /\ UNCHANGED <<setup, run, failed>>
      /\ test'[u] = "test_create" /\ step'[u] = 1 /\ step[u] = 1
  BY <1>0, <1>2, PassDoes DEF LastStep, After, ClientInv, TypeOK
<1>5. FirstRun(u)'
  BY <1>0, <1>2, <1>3, <1>4, FirstRunStays DEF Only, Early
<1>6. Placed(u)'
  BY <1>0, <1>2, <1>4 DEF Placed, At, Home, setup, Early, Only
<1>7. OnTrack(u)'
  BY <1>0, <1>4, TrackOnly DEF Found, AfterDir
<1> QED
  BY <1>2, <1>4, <1>5, <1>6, <1>7 DEF Stays

LEMMA CreateTestTracks ==
    ASSUME TrackInv, NEW u \in clients, TestCreate(u)
    PROVE  Stays(u)
<1> DEFINE dir == Dir(u)
           file == In(u, "test_file")
<1>0. /\ test[u] = "test_create"
      /\ u \in Users /\ ClientInv /\ TreeInv
      /\ Placed(u) /\ FirstRun(u) /\ (~failed[u] => OnTrack(u))
      /\ run[u] \in Nat /\ run[u] > 0 /\ local \in BOOLEAN
      /\ cwd[u] = Home(u) /\ umask[u] = Default
      /\ UNCHANGED <<tmp, old_mask, seen>>
      /\ IsDir(cwd[u])
  BY Known DEF TestCreate, Placed, Early
<1>1. /\ dir \in Seq(Names) /\ dir # Root /\ Last(dir) = "test_dir" /\ Front(dir) = Home(u)
      /\ "test_dir" \in DirNames /\ "test_dir" \notin TmpNames
      /\ file \in Seq(Names) /\ file # Root /\ Last(file) = "test_file" /\ Front(file) = dir
      /\ "test_file" \notin DirNames
      /\ Home(u) # dir /\ file # dir
      /\ Home(u) = Root \/ Last(Home(u)) \notin TmpNames
  <2>1. "test_file" \in Names \ DirNames /\ "test_file" # "test_dir"
    BY FileNames DEF FixedNames
  <2> QED
    BY <1>0, <2>1, FileNames, Homes DEF Own
<1>2. Path(u, "test_dir") = dir /\ Append(dir, "test_file") = file /\ Place(dir) /\ Place(file)
  BY <1>0, <1>1 DEF Path, Dir, In, Place
<1>3. ASSUME UNCHANGED setup PROVE Dir(u)' = dir /\ In(u, "test_file")' = file /\ Home(u)' = Home(u)
  BY <1>3 DEF Dir, In, Home, setup
<1>e. dir = Dir(u) /\ file = In(u, "test_file")
  OBVIOUS
<1> HIDE DEF dir, file
\* The tests stay in the home until test_dir begins.
<1>4. ASSUME UNCHANGED <<setup, run, cwd, umask>>,
             test'[u] = "test_create" \/ (test'[u] = "test_dir" /\ step'[u] = 1)
      PROVE  Placed(u)'
  BY <1>0, <1>3, <1>4 DEF Placed, At, setup, Early
<1>5. ASSUME UNCHANGED <<setup, run>>, Only(dir) \/ Only(file) \/ UNCHANGED tree,
             test'[u] \in {"test_create", "test_dir"}
      PROVE  FirstRun(u)'
  BY <1>0, <1>1, <1>e, <1>5, FirstRunStays DEF Only, Early
\* A call that fails ends the test.
<1>6. CASE UNCHANGED server /\ (Return(u) \/ (step[u] = 4 /\ Fail(u)))
  <2>1. /\ UNCHANGED <<setup, run, tree, cwd, umask>> /\ failed'[u] = TRUE
        /\ test'[u] = "test_dir" /\ step'[u] = 1
    BY <1>0, <1>6 DEF Fail, Return, Onward, Goto, ClientInv, TypeOK, server, LastStep, After
  <2> QED
    BY <1>0, <1>4, <1>5, <2>1, SameTree DEF Stays
<1>7. CASE step[u] < 4 /\ Pass(u) /\ TreeInv' /\ UNCHANGED <<cwd, umask>>
           /\ (Only(dir) \/ Only(file) \/ UNCHANGED tree)
           /\ (~failed[u] /\ OnCreate(u) /\ test'[u] = "test_create" /\ step'[u] = step[u] + 1
               /\ UNCHANGED setup => OnCreate(u)')
  <2>1. /\ UNCHANGED <<setup, run, failed>> /\ step[u] \in 1..4
        /\ test'[u] = "test_create" /\ step'[u] = step[u] + 1
    BY <1>0, <1>7, PassDoes DEF LastStep, ClientInv, TypeOK
  <2>2. ~failed'[u] => OnCreate(u)'
    BY <1>0, <1>7, <2>1 DEF OnTrack
  <2>3. ~failed'[u] => OnTrack(u)'
    BY <1>0, <2>1, <2>2, TrackOnly DEF Found, AfterDir
  <2> QED
    BY <1>4, <1>5, <1>7, <2>1, <2>3 DEF Stays
<1>8. CASE step[u] = 1 /\ Try(u, CanMkdir(dir), Mkdir(u, dir),
                              MkdirFailed(u, dir))
  <2>1. CASE CanMkdir(dir) /\ Mkdir(u, dir) /\ Pass(u)
    <3>1. UNCHANGED setup
      BY <1>0, <2>1, PassDoes
    <3>2. /\ TreeInv' /\ Only(dir)
          /\ defect # "mkdir" => dir \in DOMAIN tree' /\ tree'[dir].kind = "dir"
      BY <1>0, <1>1, <1>2, <2>1, <3>1, MkdirDoes DEF CanMkdir
    <3>3. OnCreate(u) /\ test'[u] = "test_create" /\ step'[u] = step[u] + 1 => OnCreate(u)'
      BY <1>3, <1>e, <1>8, <3>1, <3>2 DEF OnCreate, IsDir, Exists, setup
    <3> QED
      BY <1>7, <1>8, <2>1, <3>2, <3>3 DEF Only
  <2>2. CASE ~CanMkdir(dir) /\ UNCHANGED server /\ Pass(u)
    <3>1. UNCHANGED setup
      BY <1>0, <2>2, PassDoes
    <3>2. IsDir(dir) /\ TreeInv'
      BY <1>0, <1>1, <2>2, <3>1, KindOfEntry, SameTree DEF CanMkdir, Exists, server
    <3>3. OnCreate(u) /\ test'[u] = "test_create" /\ step'[u] = step[u] + 1 => OnCreate(u)'
      BY <1>3, <1>e, <1>8, <2>2, <3>1, <3>2 DEF OnCreate, IsDir, Exists, setup, server
    <3> QED
      BY <1>7, <1>8, <2>2, <3>2, <3>3 DEF server
  <2> QED
    BY <1>6, <1>8, <2>1, <2>2 DEF Try, MkdirFailed
<1>9. ASSUME step[u] \in {2, 3}, NEW size, Open(u, file, size), Pass(u),
             step[u] = 2 => IsDir(dir),
             step[u] = 3 => IsFile(file) /\ size = 6
      PROVE  Stays(u)
  <2>1. UNCHANGED setup
    BY <1>0, <1>9, PassDoes
  <2>2. /\ TreeInv' /\ Only(file) /\ file \in DOMAIN tree'
        /\ Exists(file) => tree'[file].size = IF defect = "size" THEN 0 ELSE size
    BY <1>0, <1>1, <1>2, <1>9, <2>1, OpenDoes
  <2>3. OnCreate(u) /\ test'[u] = "test_create" /\ step'[u] = step[u] + 1 => OnCreate(u)'
    BY <1>0, <1>1, <1>3, <1>e, <1>9, <2>1, <2>2 DEF OnCreate, IsDir, IsFile, Exists, setup, Only
  <2> QED
    BY <1>7, <1>9, <2>2, <2>3 DEF Only
<1>10. CASE step[u] = 4 /\ Check(u, IsFile(file) /\ tree[file].size = 6, Fail(u))
  <2>1. CASE IsFile(file) /\ tree[file].size = 6 /\ Pass(u) /\ UNCHANGED server
    <3>1. /\ UNCHANGED <<setup, run, failed, tree, cwd, umask>>
          /\ test'[u] = "test_dir" /\ step'[u] = 1
      BY <1>0, <1>10, <2>1, PassDoes DEF LastStep, After, server
    <3>2. ~failed[u] => IsDir(dir) /\ defect # "size" /\ Exists(file)
      BY <1>0, <1>10, <2>1 DEF OnTrack, OnCreate, dir, file
    <3>3. ~failed[u] => OnTrack(u)'
      BY <1>0, <1>3, <3>1, <3>2, TrackOnly DEF Found, AfterDir, OnDir, IsDir, Exists, setup
    <3> QED
      BY <1>0, <1>4, <1>5, <3>1, <3>3, SameTree DEF Stays
  <2> QED
    BY <1>6, <1>10, <2>1 DEF Check
<1>11. CASE step[u] = 2 /\ Try(u, CanOpen(file), Open(u, file, 0), Return(u))
  BY <1>1, <1>6, <1>9, <1>11 DEF Try, CanOpen
<1>12. CASE step[u] = 3 /\ Try(u, IsFile(file), Open(u, file, 6), Return(u))
  BY <1>6, <1>9, <1>12 DEF Try
<1> QED
  BY <1>2, <1>8, <1>10, <1>11, <1>12 DEF TestCreate

\* What test_dir is to find at the least, and a first run at the most.
BigFiles(u) == {In(u, name) : name \in {"test_file"} \cup Numbers}

LEMMA BigDirectory ==
    ASSUME NEW u \in Users, local \in BOOLEAN
    PROVE  IsFiniteSet(BigFiles(u)) /\ Cardinality(BigFiles(u)) = FILES + 1
<1> DEFINE files == {In(u, name) : name \in Numbers}
           file == [i \in 1..FILES |-> In(u, ToString(i))]
<1>1. FILES \in Nat /\ IsFiniteSet(1..FILES) /\ Cardinality(1..FILES) = FILES
  <2>1. FILES \in Nat /\ FILES >= 1 /\ FILES \in Int /\ 1 \in Int
    BY ClientsAssumption
  <2>2. IsFiniteSet(1..FILES) /\ Cardinality(1..FILES) = IF 1 > FILES THEN 0 ELSE FILES - 1 + 1
    BY <2>1, FS_Interval
  <2> QED
    BY <2>1, <2>2
<1>2. ASSUME NEW a \in Numbers \cup {"test_file"}, NEW b \in Numbers \cup {"test_file"},
             In(u, a) = In(u, b)
      PROVE  a = b
  <2>1. a \in Names /\ b \in Names
    BY FileNames DEF FixedNames
  <2> QED
    BY <1>2, <2>1, Homes
<1>3. file \in Surjection(1..FILES, files)
  BY DEF Surjection, Numbers
<1>4. file \in Injection(1..FILES, files)
  <2>1. file \in [1..FILES -> files]
    BY DEF Numbers
  <2>2. \A i, j \in 1..FILES : file[i] = file[j] => i = j
    BY <1>2, NamesAssumption DEF Numbers
  <2> HIDE DEF file, files
  <2> QED
    BY <2>1, <2>2, Fun_IsInj
<1>5. IsFiniteSet(files) /\ Cardinality(files) = FILES
  <2> HIDE DEF file, files
  <2> QED
    BY <1>1, <1>3, <1>4, FS_Surjection
<1>6. In(u, "test_file") \notin files /\ BigFiles(u) = files \cup {In(u, "test_file")}
  BY <1>2, FileNames DEF BigFiles, FixedNames
<1> HIDE DEF files
<1> QED
  BY <1>1, <1>5, <1>6, FS_AddElement

LEMMA EntriesCounted ==
    ASSUME NEW u \in Users, local \in BOOLEAN, TreeInv,
           \A p \in DOMAIN tree : p \in Seq(Names)
    PROVE  /\ (\A name \in {"test_file"} \cup Numbers : Exists(In(u, name)))
                  => Cardinality(Entries(Dir(u))) >= FILES + 1
           /\ (\A p \in DOMAIN tree \ {Root} :
                   Front(p) = Dir(u) => Last(p) \in {"test_file"} \cup Numbers)
                  => Cardinality(Entries(Dir(u))) <= FILES + 1
           /\ Cardinality(Entries(Dir(u))) \in Nat
<1>1. IsFiniteSet(Entries(Dir(u)))
  BY FS_Subset DEF TreeInv, Entries
<1>2. FILES \in Nat /\ Cardinality(Entries(Dir(u))) \in Nat
  BY <1>1, FS_CardinalityType, ClientsAssumption
<1>3. {"test_file"} \cup Numbers \subseteq Names
  BY FileNames DEF FixedNames
<1>4. ASSUME \A name \in {"test_file"} \cup Numbers : Exists(In(u, name))
      PROVE  Cardinality(Entries(Dir(u))) >= FILES + 1
  <2>1. BigFiles(u) \subseteq Entries(Dir(u))
    BY <1>3, <1>4, Homes DEF BigFiles, Entries, Exists, Own
  <2> QED
    BY <1>1, <1>2, <2>1, BigDirectory, FS_Subset
<1>5. ASSUME \A p \in DOMAIN tree \ {Root} :
                 Front(p) = Dir(u) => Last(p) \in {"test_file"} \cup Numbers
      PROVE  Cardinality(Entries(Dir(u))) <= FILES + 1
  <2>1. Entries(Dir(u)) \subseteq BigFiles(u)
    BY <1>5, PathParts DEF BigFiles, Entries, In
  <2> QED
    BY <1>1, <1>2, <2>1, BigDirectory, FS_Subset
<1> QED
  BY <1>2, <1>4, <1>5

LEMMA DirTestTracks ==
    ASSUME TrackInv, NEW u \in clients, TestDir(u)
    PROVE  Stays(u)
<1> DEFINE dir == Dir(u)
<1>0. /\ test[u] = "test_dir"
      /\ u \in Users /\ ClientInv /\ TreeInv
      /\ Placed(u) /\ FirstRun(u) /\ (~failed[u] => OnTrack(u))
      /\ run[u] \in Nat /\ run[u] > 0 /\ local \in BOOLEAN /\ failed[u] \in BOOLEAN
      /\ umask[u] = Default
      /\ step[u] = 1 => cwd[u] = Home(u)
      /\ step[u] > 1 => cwd[u] = Dir(u)
      /\ UNCHANGED <<tmp, old_mask, seen>>
      /\ step[u] \in 1..FILES + 2 /\ FILES \in Nat \ {0}
      /\ LastStep[test[u]] = FILES + 2 /\ After[test[u]] = "test_umask"
      /\ \A p \in DOMAIN tree : p \in Seq(Names)
  <2>1. test[u] = "test_dir" /\ UNCHANGED <<tmp, old_mask, seen>>
    BY DEF TestDir
  <2>2. /\ u \in Users /\ ClientInv /\ TypeOK /\ TreeInv
        /\ Placed(u) /\ FirstRun(u) /\ (~failed[u] => OnTrack(u))
        /\ run[u] \in Nat /\ run[u] > 0 /\ local \in BOOLEAN /\ failed[u] \in BOOLEAN
    BY <2>1, Known DEF ClientInv
  <2>3. FILES \in Nat \ {0}
    BY ClientsAssumption
  <2>4. LastStep[test[u]] = FILES + 2 /\ After[test[u]] = "test_umask"
    BY <2>1 DEF LastStep, After
  <2>5. step[u] \in 1..FILES + 2 /\ \A p \in DOMAIN tree : p \in Seq(Names)
    BY <2>1, <2>2, <2>4 DEF TypeOK
  <2>6. umask[u] = Default /\ (step[u] = 1 => cwd[u] = Home(u)) /\ (step[u] > 1 => cwd[u] = Dir(u))
    BY <2>1, <2>2 DEF Placed, At, Early
  <2> QED
    BY <2>1, <2>2, <2>3, <2>4, <2>5, <2>6
<1>1. /\ Dir(u) # Root /\ Dir(u) \in Seq(Names)
      /\ Path(u, "test_dir") = IF step[u] = 1 THEN Dir(u) ELSE Append(Dir(u), "test_dir")
  <2>1. Dir(u) # Root /\ Dir(u) \in Seq(Names)
    BY <1>0, Homes
  <2>2. CASE step[u] = 1
    BY <1>0, <2>1, <2>2 DEF Path, Dir
  <2>3. CASE step[u] # 1
    <3>1. cwd[u] = Dir(u)
      BY <1>0, <2>3
    <3> QED
      BY <2>1, <2>3, <3>1 DEF Path
  <2> QED
    BY <2>2, <2>3
<1>2. ASSUME UNCHANGED setup
      PROVE  /\ Dir(u)' = Dir(u) /\ Home(u)' = Home(u)
             /\ \A name : In(u, name)' = In(u, name)
  BY <1>2 DEF Dir, In, Home, setup
<1>3. ~failed[u] => OnDir(u) /\ Found(u)
  BY <1>0 DEF OnTrack
<1>4. CASE UNCHANGED server /\ (Return(u) \/ (step[u] = FILES + 2 /\ Fail(u)))
  <2>1. /\ UNCHANGED <<setup, run, tree, cwd, umask>> /\ failed'[u] = TRUE
        /\ test'[u] = "test_umask" /\ step'[u] = 1
    BY <1>0, <1>4 DEF Fail, Return, Onward, Goto, ClientInv, TypeOK, server
  <2>2. Placed(u)' /\ FirstRun(u)'
    BY <1>0, <2>1, FirstRunStays DEF Placed, At, Early
  <2> QED
    BY <1>0, <2>1, <2>2, SameTree DEF Stays
<1>5. CASE step[u] = 1 /\ IsDir(dir) /\ Chdir(u, dir) /\ Pass(u)
  <2>1. /\ UNCHANGED <<setup, run, failed, tree, umask>> /\ cwd'[u] = Dir(u)
        /\ test'[u] = "test_dir" /\ step'[u] = 2
    BY <1>0, <1>5, PassDoes DEF Chdir, ClientInv, TypeOK
  <2>2. Placed(u)' /\ FirstRun(u)'
    BY <1>0, <1>2, <2>1, FirstRunStays DEF Placed, At, Early
  <2>3. ~failed'[u] => OnDir(u)' /\ Found(u)'
    BY <1>0, <1>2, <1>3, <1>5, <2>1 DEF OnDir, Found, IsDir, Exists, AfterDir, setup
  <2> QED
    BY <1>0, <2>1, <2>2, <2>3, SameTree, TrackOnly DEF Stays
<1>6. ASSUME NEW i \in 1..FILES, step[u] = i + 1, Create(u, ToString(i), Return(u))
      PROVE  Stays(u)
  <2> DEFINE file == In(u, ToString(i))
  <2>0. ToString(i) \in Numbers /\ ToString(i) # "test_dir" /\ Path(u, ToString(i)) = file
        /\ ToString(i) \in Names
    BY <1>0, <1>6, FileNames DEF FixedNames, Path, In
  <2>1. Pass(u) /\ TreeInv' /\ Only(file) /\ file \in DOMAIN tree'
    BY <1>0, <1>6, <2>0, CreatePasses
  <2>2. /\ UNCHANGED <<setup, run, failed, cwd, umask>>
        /\ test'[u] = "test_dir" /\ step'[u] = i + 2
    BY <1>0, <1>6, <2>1, PassDoes DEF Only
  <2>3. file # Dir(u) /\ Front(file) = Dir(u) /\ Last(file) = ToString(i)
    BY <1>0, <2>0, Homes
  <2> HIDE DEF file
  <2>4. Placed(u)'
    BY <1>0, <1>2, <1>6, <2>2 DEF Placed, At, Early
  <2>5. FirstRun(u)'
    BY <1>0, <2>0, <2>1, <2>2, <2>3, FirstRunStays DEF Only, Early
  <2>6. ASSUME ~failed[u] PROVE OnDir(u)' /\ Found(u)'
    <3>1. IsDir(Dir(u)) /\ Exists(In(u, "test_file"))
          /\ \A j \in 1..FILES : j + 1 < step[u] => Exists(In(u, ToString(j)))
      BY <1>0, <1>3, <2>6 DEF OnDir
    <3>2. Dir(u) \in DOMAIN tree' /\ tree'[Dir(u)].kind = "dir"
          /\ In(u, "test_file") \in DOMAIN tree'
      BY <2>1, <2>3, <3>1 DEF IsDir, Exists, Only
    <3>3. ASSUME NEW j \in 1..FILES, j + 1 < i + 2 PROVE In(u, ToString(j)) \in DOMAIN tree'
      <4>1. j = i \/ j + 1 < step[u]
        BY <1>6, <3>3
      <4> QED
        BY <2>1, <3>1, <4>1 DEF file, Only, Exists
    <3> QED
      BY <1>2, <1>3, <2>2, <2>6, <3>2, <3>3, <1>0 DEF OnDir, Found, IsDir, Exists, AfterDir, setup
  <2> QED
    BY <1>0, <2>1, <2>2, <2>4, <2>5, <2>6, TrackOnly DEF Stays
<1>7. CASE step[u] = FILES + 2 /\ IsDir(cwd[u]) /\ Size(cwd[u]) >= FILES + 3
           /\ UNCHANGED server /\ Pass(u)
  <2>1. /\ UNCHANGED <<setup, run, failed, tree, cwd, umask>>
        /\ test'[u] = "test_umask" /\ step'[u] = 1
    BY <1>0, <1>7, PassDoes DEF server
  <2>2. Placed(u)' /\ FirstRun(u)'
    BY <1>0, <2>1, FirstRunStays DEF Placed, At, Early
  <2>3. defect = "entries" => run[u] > 1
    <3> SUFFICES ASSUME defect = "entries", run[u] = 1 PROVE FALSE
      BY <1>0
    <3>1. Cardinality(Entries(Dir(u))) <= FILES + 1 /\ Cardinality(Entries(Dir(u))) \in Nat
      BY <1>0, EntriesCounted DEF FirstRun, Early
    <3>2. 2 + Cardinality(Entries(Dir(u))) - 1 >= FILES + 3
      BY <1>0, <1>7 DEF Size
    <3> QED
      BY <1>0, <3>1, <3>2
  <2>4. ~failed'[u] => Found(u)'
    BY <1>0, <1>2, <1>3, <1>7, <2>1, <2>3 DEF Found, AfterDir, setup
  <2> QED
    BY <1>0, <2>1, <2>2, <2>4, SameTree, TrackOnly DEF Stays
<1>8. CASE step[u] = 1 /\ Try(u, IsDir(dir), Chdir(u, dir), Return(u))
  BY <1>4, <1>5, <1>8 DEF Try
<1>9. CASE step[u] = FILES + 2 /\ Check(u, IsDir(cwd[u]) /\ Size(cwd[u]) >= FILES + 3, Fail(u))
  BY <1>4, <1>7, <1>9 DEF Check
<1> QED
  BY <1>1, <1>6, <1>8, <1>9 DEF TestDir

\* The masks tell files apart.
LEMMA MasksDiffer ==
    /\ Perms # Perms \ Default /\ Perms \ Default # {"u"}
    /\ Default \subseteq Perms
<1>1. "gw" \in Perms /\ "gw" \notin Perms \ Default
  BY DEF Perms, Default
<1>2. "g" \in Perms \ Default /\ "g" \notin {"u"}
  BY DEF Perms, Default
<1>3. Default \subseteq Perms
  BY DEF Perms, Default
<1> QED
  BY <1>1, <1>2, <1>3

LEMMA UmaskTestTracks ==
    ASSUME TrackInv, NEW u \in clients, TestUmask(u)
    PROVE  Stays(u)
<1> DEFINE file == Path(u, "Umask_test_file")
<1>0. /\ test[u] = "test_umask"
      /\ u \in Users /\ ClientInv /\ TreeInv
      /\ Placed(u) /\ (~failed[u] => OnTrack(u))
      /\ run[u] \in Nat /\ run[u] > 0 /\ local \in BOOLEAN /\ failed[u] \in BOOLEAN
      /\ UNCHANGED <<tmp, seen>>
      /\ step[u] \in 1..10
      /\ LastStep[test[u]] = 10 /\ After[test[u]] = "test_link"
      /\ umask[u] = IF step[u] <= 3 THEN Default ELSE NoOthers
      /\ step[u] > 3 => old_mask[u] = Default
      /\ old_mask'[u] = IF step[u] = 3 THEN umask[u] ELSE old_mask[u]
  BY Known DEF TestUmask, Placed, ClientInv, TypeOK, LastStep, After
<1>1. /\ Place(file) /\ Last(file) \notin DirNames /\ file # Root
      /\ "Umask_test_file" \in FixedNames /\ "Umask_test_file" # "test_dir"
  BY <1>0, FileNames, PlaceHere DEF FixedNames, Place
<1>2. ASSUME UNCHANGED setup
      PROVE  /\ Dir(u)' = Dir(u)
             /\ \A name : In(u, name)' = In(u, name)
  BY <1>2 DEF Dir, In, Home, setup
<1>3. ~failed[u] => OnUmask(u) /\ Found(u) /\ cwd[u] = Dir(u) /\ file = In(u, "Umask_test_file")
  BY <1>0 DEF OnTrack, Found, AfterDir, Path, In
<1> HIDE DEF file
<1>4. ASSUME UNCHANGED <<setup, run>>, TreeInv', cwd' = cwd,
             umask'[u] = IF step[u] = 3 THEN NoOthers ELSE umask[u],
             \/ test'[u] = "test_umask" /\ step'[u] = step[u] + 1
             \/ test'[u] = "test_link"
      PROVE  Placed(u)' /\ FirstRun(u)'
  BY <1>0, <1>4 DEF Placed, At, FirstRun, Early
<1>5. CASE UNCHANGED server /\ (Fail(u) \/ Return(u)) /\ step[u] # 3
  <2>1. /\ UNCHANGED <<setup, run, tree, cwd, umask>> /\ failed'[u] = TRUE
        /\ \/ test'[u] = "test_umask" /\ step'[u] = step[u] + 1
           \/ test'[u] = "test_link"
    BY <1>0, <1>5 DEF Fail, Return, Onward, Goto, ClientInv, TypeOK, server
  <2> QED
    BY <1>0, <1>4, <1>5, <2>1, SameTree DEF Stays
<1>6. ASSUME Pass(u), TreeInv', cwd' = cwd,
             umask'[u] = IF step[u] = 3 THEN NoOthers ELSE umask[u],
             ~failed[u] /\ step[u] < 10 /\ UNCHANGED setup /\ test'[u] = "test_umask"
                 /\ step'[u] = step[u] + 1 => OnUmask(u)'
      PROVE  Stays(u)
  <2>1. /\ UNCHANGED <<setup, run, failed>>
        /\ \/ step[u] < 10 /\ test'[u] = "test_umask" /\ step'[u] = step[u] + 1
           \/ step[u] = 10 /\ test'[u] = "test_link" /\ step'[u] = 1
    BY <1>0, <1>6, PassDoes
  <2>2. Placed(u)' /\ FirstRun(u)'
    BY <1>4, <1>6, <2>1
  <2>3. ~failed[u] => Found(u)'
    BY <1>0, <1>2, <1>3, <1>6, <2>1 DEF Found, AfterDir, setup, OnUmask
  <2>4. ~failed[u] => OnTrack(u)'
    BY <1>0, <1>6, <2>1, <2>3, TrackOnly
  <2> QED
    BY <1>6, <2>1, <2>2, <2>4 DEF Stays
\* A call that changes nothing, and the next.
<1>7. ASSUME UNCHANGED server, Pass(u), step[u] # 3,
             step[u] = 1 => ~Exists(file),
             step[u] = 4 => HasPerms(file, Perms \ old_mask[u]),
             step[u] = 6 => HasPerms(file, {"u"}),
             step[u] = 8 => ~Exists(file),
             step[u] \notin {2, 5, 7, 9}
      PROVE  Stays(u)
  <2>1. UNCHANGED <<setup, tree, cwd, umask>> /\ TreeInv'
    BY <1>0, <1>7, PassDoes, SameTree DEF server
  <2>2. ASSUME ~failed[u], step[u] < 10, test'[u] = "test_umask", step'[u] = step[u] + 1
        PROVE  OnUmask(u)'
    BY <1>0, <1>2, <1>3, <1>7, <2>1, <2>2, MasksDiffer DEF OnUmask, HasPerms, Exists, setup
  <2> QED
    BY <1>6, <1>7, <2>1, <2>2
<1>8. ASSUME step[u] \in {1, 7}, IsFile(file), Unlink(file), Pass(u)
      PROVE  Stays(u)
  <2>1. UNCHANGED setup /\ Exists(file)
    BY <1>0, <1>8, PassDoes DEF IsFile
  <2>2. TreeInv' /\ Only(file) /\ (file \in DOMAIN tree' <=> defect = "unlink")
    BY <1>0, <1>8, <2>1, UnlinkDoes
  <2>3. ASSUME ~failed[u], step[u] < 10, test'[u] = "test_umask", step'[u] = step[u] + 1
        PROVE  OnUmask(u)'
    BY <1>0, <1>2, <1>3, <1>8, <2>1, <2>2, <2>3, MasksDiffer DEF OnUmask, HasPerms, Exists, setup
  <2> QED
    BY <1>6, <1>8, <2>2, <2>3 DEF Only
<1>9. ASSUME step[u] \in {2, 9},
             Create(u, "Umask_test_file", IF step[u] = 2 THEN Return(u) ELSE Fail(u))
      PROVE  Stays(u)
  <2>1. Create(u, "Umask_test_file", Return(u)) \/ Create(u, "Umask_test_file", Fail(u))
    BY <1>9 DEF Create, Try
  <2>2. /\ Pass(u) /\ TreeInv' /\ Only(file) /\ file \in DOMAIN tree'
        /\ tree'[file].perms = IF Exists(file) THEN tree[file].perms ELSE Masked(u)
    BY <1>0, <1>1, <2>1, CreatePasses DEF file
  <2>3. UNCHANGED setup
    BY <1>0, <2>2, PassDoes
  <2>4. ASSUME ~failed[u], step[u] < 10, test'[u] = "test_umask", step'[u] = step[u] + 1
        PROVE  OnUmask(u)'
    <3>1. CASE step[u] = 2
      <4>1. Masked(u) = IF defect = "umask" THEN Perms ELSE Perms \ Default
        BY <1>0, <3>1 DEF Masked
      <4>2. defect # "unlink" => ~Exists(file)
        BY <1>0, <1>3, <2>4, <3>1 DEF OnUmask
      <4>3. defect # "unlink" => tree'[file].perms = IF defect = "umask" THEN Perms
                                                                         ELSE Perms \ Default
        BY <2>2, <4>1, <4>2
      <4> QED
        BY <1>2, <1>3, <2>2, <2>3, <2>4, <3>1, <4>3 DEF OnUmask, HasPerms, Exists, setup
    <3>2. CASE step[u] = 9
      <4>1. ~Exists(file) /\ defect # "umask" /\ defect # "chmod" /\ defect # "unlink"
        BY <1>0, <1>3, <2>4, <3>2 DEF OnUmask
      <4>2. tree'[file].perms = Perms \ NoOthers
        BY <1>0, <2>2, <3>2, <4>1 DEF Masked
      <4> QED
        BY <1>2, <1>3, <2>2, <2>3, <2>4, <3>2, <4>1, <4>2 DEF OnUmask, HasPerms, Exists, setup
    <3> QED
      BY <1>9, <3>1, <3>2
  <2> QED
    BY <1>6, <1>9, <2>2, <2>4 DEF Only
<1>10. ASSUME step[u] = 3, umask' = [umask EXCEPT ![u] = NoOthers], Pass(u), UNCHANGED <<tree, cwd>>
       PROVE  Stays(u)
  <2>1. UNCHANGED setup /\ TreeInv' /\ umask'[u] = NoOthers
    BY <1>0, <1>10, PassDoes, SameTree DEF ClientInv, TypeOK
  <2>2. ASSUME ~failed[u], step[u] < 10, test'[u] = "test_umask", step'[u] = step[u] + 1
        PROVE  OnUmask(u)'
    BY <1>0, <1>2, <1>3, <1>10, <2>1, <2>2 DEF OnUmask, HasPerms, Exists, setup
  <2> QED
    BY <1>6, <1>10, <2>1, <2>2
<1>11. ASSUME step[u] = 5, Exists(file), Chmod(file, {"u"}), Pass(u)
       PROVE  Stays(u)
  <2>1. UNCHANGED setup
    BY <1>0, <1>11, PassDoes
  <2>2. /\ TreeInv' /\ Only(file) /\ file \in DOMAIN tree'
        /\ tree'[file].perms = IF defect = "chmod" THEN tree[file].perms ELSE {"u"}
    BY <1>0, <1>1, <1>11, <2>1, ChmodDoes
  <2>3. ASSUME ~failed[u], step[u] < 10, test'[u] = "test_umask", step'[u] = step[u] + 1
        PROVE  OnUmask(u)'
    <3>1. tree[file].perms = Perms \ Default /\ defect # "umask"
      BY <1>0, <1>3, <1>11, <2>3 DEF OnUmask, HasPerms
    <3>2. file \in DOMAIN tree' /\ tree'[file].perms = IF defect = "chmod" THEN Perms \ Default
                                                                            ELSE {"u"}
      BY <2>2, <3>1
    <3> QED
      BY <1>2, <1>3, <1>11, <2>1, <2>3, <3>1, <3>2 DEF OnUmask, HasPerms, Exists, setup
  <2> QED
    BY <1>6, <1>11, <2>2, <2>3 DEF Only
<1>12. CASE step[u] = 1 /\ Try(u, IsFile(file), Unlink(file), Pass(u))
  <2>1. ~IsFile(file) => ~Exists(file)
    BY <1>0, <1>1, KindOfEntry DEF Exists
  <2> QED
    BY <1>7, <1>8, <1>12, <2>1 DEF Try
<1>13. CASE step[u] = 4 /\ Check(u, HasPerms(file, Perms \ old_mask[u]),
                                 IF Exists(file) THEN Fail(u) ELSE Return(u))
  BY <1>5, <1>7, <1>13 DEF Check
<1>14. CASE step[u] = 5 /\ Try(u, Exists(file), Chmod(file, {"u"}), Fail(u))
  BY <1>5, <1>11, <1>14 DEF Try
<1>15. CASE step[u] = 7 /\ Try(u, IsFile(file), Unlink(file), Fail(u))
  BY <1>5, <1>8, <1>15 DEF Try
\* tfs_errno is said to be an error.
<1>16. CASE step[u] = 3 /\ umask' = [umask EXCEPT ![u] = NoOthers] /\ Return(u)
            /\ UNCHANGED <<tree, cwd>>
  <2>1. /\ UNCHANGED <<setup, run, tree, cwd>> /\ failed'[u] = TRUE
        /\ test'[u] = "test_link" /\ umask'[u] = NoOthers
    BY <1>0, <1>16 DEF Return, Goto, ClientInv, TypeOK
  <2> QED
    BY <1>0, <1>4, <1>16, <2>1, SameTree DEF Stays
<1>17. CASE \/ step[u] = 6 /\ Check(u, HasPerms(file, {"u"}), Fail(u))
            \/ step[u] = 8 /\ Check(u, ~Exists(file), Fail(u))
            \/ step[u] = 10 /\ Check(u, HasPerms(file, Perms \ NoOthers), Fail(u))
  BY <1>5, <1>7, <1>17 DEF Check
<1> QED
  BY <1>9, <1>10, <1>12, <1>13, <1>14, <1>15, <1>17, <1>16 DEF TestUmask, file

-----------------------------------------------------------------------------
\* From test_umask on a test stays in one directory, and has only its files to tell of.
LEMMA LateTracks ==
    ASSUME TrackInv, NEW u \in clients, test[u] \in AfterDir \ {"test_umask"},
           test'[u] \in AfterDir \ {"test_umask"}, UNCHANGED <<setup, run>>, TreeInv',
           cwd' = cwd,
           ~failed'[u] => ~failed[u] /\ OnTrack(u)'
    PROVE  Stays(u)
<1>1. Placed(u)'
  BY DEF Placed, At, Early, AfterDir
<1>2. FirstRun(u)'
  BY Known DEF FirstRun, Early, AfterDir
<1> QED
  BY <1>1, <1>2 DEF Stays

\* In a test a file is where the tests have gone, while nothing has failed.
LEMMA LateKnown ==
    ASSUME TrackInv, NEW u \in clients, test[u] \in AfterDir
    PROVE  /\ u \in Users /\ ClientInv /\ TreeInv /\ failed[u] \in BOOLEAN /\ local \in BOOLEAN
           /\ test[u] # "stopped" /\ step[u] \in 1..LastStep[test[u]]
           /\ tmp[u] \in DOMAIN Tmpdirs
           /\ ~failed[u] => /\ OnTrack(u) /\ Found(u) /\ cwd[u] = Dir(u)
                            /\ \A name : Path(u, name) = In(u, name)
           /\ UNCHANGED setup => /\ Dir(u)' = Dir(u)
                                 /\ \A name : In(u, name)' = In(u, name)
<1>1. test[u] # "stopped"
  BY DEF AfterDir
<1>2. /\ u \in Users /\ ClientInv /\ TreeInv /\ failed[u] \in BOOLEAN /\ local \in BOOLEAN
      /\ ~failed[u] => OnTrack(u)
  BY <1>1, Known
<1>3. step[u] \in 1..LastStep[test[u]] /\ tmp[u] \in DOMAIN Tmpdirs
  BY <1>1, <1>2 DEF ClientInv, TypeOK
<1> QED
  BY <1>1, <1>2, <1>3 DEF OnTrack, Found, Path, In, Dir, Home, setup

\* The tests after test_dir work in a directory that mkdir has made.
LEMMA DirIsMade ==
    ASSUME TrackInv, NEW u \in clients, test[u] \in AfterDir, ~failed[u]
    PROVE  defect # "mkdir"
<1>1. u \in Users /\ local \in BOOLEAN /\ TreeInv /\ cwd[u] = Dir(u) /\ IsDir(cwd[u])
  BY Known DEF AfterDir, OnTrack, Found
<1>2. Dir(u) # Root
  BY <1>1, Homes
<1> QED
  BY <1>1, <1>2, KindOfEntry DEF IsDir, Exists

LEMMA LinksCounted ==
    ASSUME ClientInv, TreeInv, NEW old, Place(old), Last(old) = "link.test", Exists(old),
           NEW new, Place(new), Last(new) = "link2.test", Front(old) = Front(new)
    PROVE  /\ defect = "link" => Links(old) = 1
           /\ Exists(new) /\ tree[new].ino = old => Links(old) = 2
<1> DEFINE linked == {p \in DOMAIN tree : tree[p].ino = tree[old].ino}
<1>0. {"link.test", "link2.test"} \subseteq Names
  BY FileNames DEF FixedNames
<1>1. /\ old # Root /\ old # new /\ new # Root
      /\ old = Append(Front(new), "link.test") /\ new = Append(Front(new), "link2.test")
      /\ Front(new) \in Seq(Names)
  BY PathParts DEF Place
<1>2. tree[old].ino = old
  BY <1>1 DEF TreeInv, Sound, Exists
<1>3. ASSUME NEW p \in linked PROVE p = old \/ (p = new /\ defect # "link")
  <2>1. p \in Seq(Names) /\ p \in DOMAIN tree /\ tree[p].ino = old
    BY <1>2 DEF ClientInv, TypeOK
  <2>2. p # Root
    BY <1>1, <2>1 DEF TreeInv
  <2>3. CASE p # old
    <3>1. Last(p) = "link2.test" /\ defect # "link" /\ old = Append(Front(p), "link.test")
      BY <2>1, <2>2, <2>3 DEF TreeInv, Sound
    <3>2. Front(p) \in Seq(Names) /\ p = Append(Front(p), "link2.test")
      BY <2>1, <2>2, <3>1, PathParts
    <3>3. Front(p) = Front(new)
      BY <1>0, <1>1, <3>1, <3>2, Paths
    <3> QED
      BY <1>1, <3>1, <3>2, <3>3
  <2> QED
    BY <2>3
<1>4. old \in linked
  BY DEF Exists
<1>5. ASSUME defect = "link" PROVE Links(old) = 1
  <2>1. linked = {old}
    BY <1>3, <1>4, <1>5
  <2> QED
    BY <2>1, FS_Singleton DEF Links
<1>6. ASSUME Exists(new), tree[new].ino = old PROVE Links(old) = 2
  <2>1. linked = {old} \cup {new}
    BY <1>2, <1>3, <1>4, <1>6 DEF Exists
  <2> HIDE DEF linked
  <2>2. IsFiniteSet({old}) /\ Cardinality({old}) = 1 /\ new \notin {old}
    BY <1>1, FS_Singleton
  <2>3. Cardinality(linked) = 1 + 1
    BY <2>1, <2>2, FS_AddElement
  <2> QED
    BY <2>3 DEF Links, linked
<1> QED
  BY <1>5, <1>6

LEMMA LinkTestTracks ==
    ASSUME TrackInv, NEW u \in clients, TestLink(u)
    PROVE  Stays(u)
<1> DEFINE old == Path(u, "link.test")
           new == Path(u, "link2.test")
<1>0. /\ test[u] = "test_link" /\ test[u] \in AfterDir \ {"test_umask"}
      /\ UNCHANGED <<tmp, old_mask, seen>>
      /\ LastStep[test[u]] = 4 /\ After[test[u]] = "test_rmdir"
      /\ {"link.test", "link2.test"} \subseteq FixedNames \ {"test_dir"}
      /\ {"link.test", "link2.test"} \subseteq Names \ DirNames
  BY FileNames DEF TestLink, AfterDir, LastStep, After, FixedNames
<1>1. /\ u \in Users /\ ClientInv /\ TreeInv /\ failed[u] \in BOOLEAN
      /\ step[u] \in 1..4
      /\ ~failed[u] => /\ OnLink(u) /\ Found(u)
                       /\ old = In(u, "link.test") /\ new = In(u, "link2.test")
      /\ UNCHANGED setup => /\ Dir(u)' = Dir(u)
                            /\ \A name : In(u, name)' = In(u, name)
  BY <1>0, LateKnown DEF OnTrack
<1>2. /\ Place(old) /\ Last(old) = "link.test" /\ Place(new) /\ Last(new) = "link2.test"
      /\ Front(old) = Front(new) /\ old # new
  BY <1>0, PlaceHere DEF AfterDir
<1> HIDE DEF old, new
<1>3. ASSUME UNCHANGED server, Fail(u) \/ Return(u)
      PROVE  Stays(u)
  <2>1. /\ UNCHANGED <<setup, run, tree, cwd, umask>> /\ failed'[u] = TRUE
        /\ test'[u] \in {"test_link", "test_rmdir"}
    BY <1>0, <1>1, <1>3 DEF Fail, Return, Onward, Goto, ClientInv, TypeOK, server
  <2> QED
    BY <1>0, <1>1, <2>1, SameTree, LateTracks DEF AfterDir
<1>4. ASSUME Pass(u), TreeInv', cwd' = cwd,
             ~failed[u] /\ step[u] < 4 /\ UNCHANGED setup /\ test'[u] = "test_link"
                 /\ step'[u] = step[u] + 1 => OnLink(u)'
      PROVE  Stays(u)
  <2>1. /\ UNCHANGED <<setup, run, failed>>
        /\ \/ step[u] < 4 /\ test'[u] = "test_link" /\ step'[u] = step[u] + 1
           \/ step[u] = 4 /\ test'[u] = "test_rmdir" /\ step'[u] = 1
    BY <1>0, <1>1, <1>4, PassDoes
  <2>2. ~failed[u] => Found(u)'
    BY <1>0, <1>1, <1>4, <2>1 DEF Found, AfterDir, setup, OnLink
  <2>3. ~failed[u] => OnTrack(u)'
    BY <1>1, <1>4, <2>1, <2>2, TrackOnly
  <2> QED
    BY <1>0, <1>4, <2>1, <2>3, LateTracks DEF AfterDir
<1>5. ASSUME step[u] = 1, Create(u, "link.test", Return(u))
      PROVE  Stays(u)
  <2>1. Pass(u) /\ TreeInv' /\ Only(old) /\ old \in DOMAIN tree'
    BY <1>0, <1>1, <1>5, CreatePasses DEF old, AfterDir
  <2>2. ASSUME ~failed[u], UNCHANGED setup, test'[u] = "test_link", step'[u] = step[u] + 1
        PROVE  OnLink(u)'
    BY <1>1, <1>5, <2>1, <2>2 DEF OnLink, Exists
  <2> QED
    BY <1>4, <2>1, <2>2 DEF Only
<1>6. ASSUME step[u] = 2, CanLink(old, new), Link(old, new), Pass(u)
      PROVE  Stays(u)
  <2>1. UNCHANGED setup
    BY <1>1, <1>0, <1>6, PassDoes
  <2>2. /\ TreeInv' /\ Only(new)
        /\ new \in DOMAIN tree' <=> defect # "link"
        /\ defect # "link" => tree'[new].ino = old
    BY <1>1, <1>2, <1>6, <2>1, LinkDoes
  <2>3. ASSUME ~failed[u], test'[u] = "test_link", step'[u] = step[u] + 1
        PROVE  OnLink(u)'
    <3>1. old \in DOMAIN tree'
      BY <1>2, <1>6, <2>2 DEF CanLink, IsFile, Exists, Only
    <3> QED
      BY <1>1, <1>6, <2>1, <2>2, <2>3, <3>1 DEF OnLink, Exists, setup
  <2> QED
    BY <1>4, <1>6, <2>2, <2>3 DEF Only
<1>7. ASSUME step[u] = 3, Exists(old), Links(old) = 2, UNCHANGED server, Pass(u)
      PROVE  Stays(u)
  <2>1. UNCHANGED setup /\ TreeInv'
    BY <1>0, <1>1, <1>7, PassDoes, SameTree DEF server
  <2>2. defect # "link"
    BY <1>1, <1>2, <1>7, LinksCounted
  <2>3. ASSUME ~failed[u], test'[u] = "test_link", step'[u] = step[u] + 1
        PROVE  OnLink(u)'
    BY <1>0, <1>1, <1>7, <2>1, <2>2, <2>3 DEF OnLink, Exists, setup, server
  <2> QED
    BY <1>4, <1>7, <2>1, <2>3 DEF server
<1>8. ASSUME step[u] = 4, IsFile(new), Unlink(new), Pass(u)
      PROVE  Stays(u)
  <2>1. UNCHANGED setup /\ Exists(new)
    BY <1>0, <1>1, <1>8, PassDoes DEF IsFile
  <2>2. TreeInv' /\ Only(new)
    BY <1>1, <1>8, <2>1, UnlinkDoes
  <2> QED
    BY <1>4, <1>8, <2>2 DEF Only
<1>9. CASE step[u] = 2 /\ Try(u, CanLink(old, new), Link(old, new), Return(u))
  BY <1>3, <1>6, <1>9 DEF Try
<1>10. CASE step[u] = 3 /\ Check(u, Exists(old) /\ Links(old) = 2,
                                 IF Exists(old) THEN Fail(u) ELSE Return(u))
  BY <1>3, <1>7, <1>10 DEF Check
<1>11. CASE step[u] = 4 /\ Try(u, IsFile(new), Unlink(new), Return(u))
  BY <1>3, <1>8, <1>11 DEF Try
<1> QED
  BY <1>5, <1>9, <1>10, <1>11 DEF TestLink, old, new

LEMMA RmdirTestTracks ==
    ASSUME TrackInv, NEW u \in clients, TestRmdir(u)
    PROVE  Stays(u)
<1> DEFINE dir == Path(u, Tmpdirs[tmp[u]])
<1>0. /\ test[u] = "test_rmdir" /\ test[u] \in AfterDir \ {"test_umask"}
      /\ UNCHANGED <<old_mask, seen>>
      /\ LastStep[test[u]] = 4 /\ After[test[u]] = "test_fstat"
  BY DEF TestRmdir, AfterDir, LastStep, After
<1>1. /\ u \in Users /\ ClientInv /\ TreeInv /\ failed[u] \in BOOLEAN
      /\ step[u] \in 1..4 /\ tmp[u] \in DOMAIN Tmpdirs
      /\ ~failed[u] => /\ OnRmdir(u) /\ Found(u) /\ dir = In(u, Tmpdirs[tmp[u]])
      /\ UNCHANGED setup => /\ Dir(u)' = Dir(u)
                            /\ \A name : In(u, name)' = In(u, name)
  BY <1>0, LateKnown DEF OnTrack
<1>2. Place(dir) /\ Last(dir) \in DirNames
  BY <1>0, <1>1, PlaceHere, TmpNamesAreDirs DEF AfterDir
<1>d. ~failed[u] => defect # "mkdir"
  BY <1>0, DirIsMade
<1>e. dir = Path(u, Tmpdirs[tmp[u]])
  OBVIOUS
<1> HIDE DEF dir
<1>3. ASSUME UNCHANGED server, Fail(u) \/ Return(u)
      PROVE  Stays(u)
  <2>1. /\ UNCHANGED <<setup, run, tree, cwd, umask>> /\ failed'[u] = TRUE
        /\ test'[u] \in {"test_rmdir", "test_fstat"}
    BY <1>0, <1>1, <1>3 DEF Fail, Return, Onward, Goto, ClientInv, TypeOK, server
  <2> QED
    BY <1>0, <1>1, <2>1, SameTree, LateTracks DEF AfterDir
<1>4. ASSUME Pass(u), UNCHANGED tmp, TreeInv', cwd' = cwd,
             step[u] = 1 => dir \notin DOMAIN tree',
             step[u] = 2 /\ ~failed[u] => dir \in DOMAIN tree',
             step[u] = 3 => (dir \in DOMAIN tree' <=> defect = "rmdir"),
             step[u] = 4 /\ ~failed[u] => defect # "rmdir"
      PROVE  Stays(u)
  <2>1. /\ UNCHANGED <<setup, run, failed>>
        /\ \/ step[u] < 4 /\ test'[u] = "test_rmdir" /\ step'[u] = step[u] + 1
           \/ step[u] = 4 /\ test'[u] = "test_fstat" /\ step'[u] = 1
    BY <1>0, <1>1, <1>4, PassDoes
  <2>2. ~failed[u] => Found(u)'
    BY <1>0, <1>1, <1>4, <2>1 DEF Found, AfterDir, setup
  <2>3. ~failed[u] /\ test'[u] = "test_rmdir" => OnRmdir(u)'
    BY <1>0, <1>1, <1>4, <2>1 DEF OnRmdir, Exists, setup
  <2>4. ~failed[u] => OnTrack(u)'
    BY <1>1, <2>1, <2>2, <2>3, TrackOnly
  <2> QED
    BY <1>0, <1>4, <2>1, <2>4, LateTracks DEF AfterDir
\* The search goes on, or is over.
<1>5. CASE step[u] = 1 /\ UNCHANGED server
           /\ UNCHANGED <<setup, test, step, run, failed>>
  <2>1. TreeInv'
    BY <1>1, <1>5, SameTree DEF server
  <2>2. ~failed[u] => Found(u)'
    BY <1>0, <1>1, <1>5 DEF Found, AfterDir, setup, server
  <2>3. ~failed[u] => OnTrack(u)'
    BY <1>0, <1>1, <1>5, <2>2, TrackOnly
  <2> QED
    BY <1>0, <1>5, <2>1, <2>3, LateTracks DEF server
<1>6. CASE step[u] = 1 /\ ~Exists(dir) /\ UNCHANGED tmp /\ Pass(u) /\ UNCHANGED server
  <2>1. TreeInv' /\ dir \notin DOMAIN tree'
    BY <1>0, <1>1, <1>6, PassDoes, SameTree DEF server, Exists
  <2> QED
    BY <1>4, <1>6, <2>1 DEF server
<1>7. CASE step[u] = 2 /\ CanMkdir(dir) /\ Mkdir(u, dir) /\ Pass(u) /\ UNCHANGED tmp
  <2>1. UNCHANGED setup
    BY <1>0, <1>1, <1>7, PassDoes
  <2>2. TreeInv' /\ Only(dir) /\ (defect # "mkdir" => dir \in DOMAIN tree')
    BY <1>1, <1>2, <1>7, <2>1, MkdirDoes DEF CanMkdir
  <2>3. ~failed[u] => defect # "mkdir"
    BY <1>d
  <2> QED
    BY <1>4, <1>7, <2>2, <2>3 DEF Only
<1>8. CASE step[u] = 3 /\ IsDir(dir) /\ Rmdir(dir) /\ Pass(u) /\ UNCHANGED tmp
  <2>1. UNCHANGED setup /\ Exists(dir)
    BY <1>0, <1>1, <1>8, PassDoes DEF IsDir
  <2>2. TreeInv' /\ Only(dir) /\ (dir \in DOMAIN tree' <=> defect = "rmdir")
    BY <1>1, <1>8, <2>1, RmdirDoes
  <2> QED
    BY <1>4, <1>8, <2>2 DEF Only
<1>9. CASE step[u] = 4 /\ ~Exists(dir) /\ Pass(u) /\ UNCHANGED server /\ UNCHANGED tmp
  <2>1. TreeInv'
    BY <1>0, <1>1, <1>9, PassDoes, SameTree DEF server
  <2>2. ~failed[u] => defect # "rmdir"
    BY <1>0, <1>1, <1>9 DEF OnRmdir
  <2> QED
    BY <1>4, <1>9, <2>1, <2>2 DEF server
<1>10. CASE step[u] = 2 /\ Try(u, CanMkdir(dir), Mkdir(u, dir), Return(u)) /\ UNCHANGED tmp
  BY <1>3, <1>7, <1>10 DEF Try
<1>11. CASE step[u] = 3 /\ Try(u, IsDir(dir) /\ Entries(dir) = {}, Rmdir(dir), Return(u))
            /\ UNCHANGED tmp
  BY <1>3, <1>8, <1>11 DEF Try
<1>12. CASE step[u] = 4 /\ Check(u, ~Exists(dir), Fail(u)) /\ UNCHANGED tmp
  BY <1>3, <1>9, <1>12 DEF Check
<1> QED
  BY <1>e, <1>5, <1>6, <1>10, <1>11, <1>12 DEF TestRmdir, NextName

LEMMA FstatTestTracks ==
    ASSUME TrackInv, NEW u \in clients, TestFstat(u)
    PROVE  Stays(u)
<1> DEFINE file == Path(u, "fstat.test")
<1>0. /\ test[u] = "test_fstat" /\ test[u] \in AfterDir \ {"test_umask"}
      /\ UNCHANGED <<tmp, old_mask>>
      /\ LastStep[test[u]] = 3 /\ After[test[u]] = "test_bandwidth"
      /\ "fstat.test" \in FixedNames \ {"test_dir"}
  BY DEF TestFstat, AfterDir, LastStep, After, FixedNames
<1>1. /\ u \in Users /\ ClientInv /\ TreeInv /\ failed[u] \in BOOLEAN
      /\ step[u] \in 1..3 /\ seen \in [Users -> Inode]
      /\ ~failed[u] => /\ OnFstat(u) /\ Found(u) /\ file = In(u, "fstat.test")
      /\ UNCHANGED setup => /\ Dir(u)' = Dir(u)
                            /\ \A name : In(u, name)' = In(u, name)
  BY <1>0, LateKnown DEF OnTrack, ClientInv, TypeOK
<1> HIDE DEF file
<1>3. ASSUME UNCHANGED server, Fail(u) \/ Return(u)
      PROVE  Stays(u)
  <2>1. /\ UNCHANGED <<setup, run, tree, cwd, umask>> /\ failed'[u] = TRUE
        /\ test'[u] \in {"test_fstat", "test_bandwidth"}
    BY <1>0, <1>1, <1>3 DEF Fail, Return, Onward, Goto, ClientInv, TypeOK, server
  <2> QED
    BY <1>0, <1>1, <2>1, SameTree, LateTracks DEF AfterDir
<1>4. ASSUME Pass(u), TreeInv', cwd' = cwd,
             step[u] < 3 => file \in DOMAIN tree',
             step[u] = 2 => seen'[u] = tree'[file],
             step[u] = 3 /\ ~failed[u] => (defect = "fstat" => local)
      PROVE  Stays(u)
  <2>1. /\ UNCHANGED <<setup, run, failed>>
        /\ \/ step[u] < 3 /\ test'[u] = "test_fstat" /\ step'[u] = step[u] + 1
           \/ step[u] = 3 /\ test'[u] = "test_bandwidth" /\ step'[u] = 1
    BY <1>0, <1>1, <1>4, PassDoes
  <2>2. ~failed[u] => Found(u)'
    BY <1>0, <1>1, <1>4, <2>1 DEF Found, AfterDir, setup
  <2>3. ~failed[u] /\ test'[u] = "test_fstat" => OnFstat(u)'
    BY <1>0, <1>1, <1>4, <2>1 DEF OnFstat, Exists
  <2>4. ~failed[u] => OnTrack(u)'
    BY <1>1, <2>1, <2>2, <2>3, TrackOnly
  <2> QED
    BY <1>0, <1>4, <2>1, <2>4, LateTracks DEF AfterDir
<1>5. CASE step[u] = 1 /\ Create(u, "fstat.test", Return(u))
  <2>1. Pass(u) /\ TreeInv' /\ Only(file) /\ file \in DOMAIN tree'
    BY <1>0, <1>1, <1>5, CreatePasses DEF file, AfterDir
  <2> QED
    BY <1>4, <1>5, <2>1 DEF Only
<1>6. CASE step[u] = 2 /\ Exists(file) /\ Pass(u) /\ UNCHANGED server
           /\ seen' = [seen EXCEPT ![u] = IF Exists(file) THEN tree[file] ELSE @]
  <2>1. TreeInv' /\ file \in DOMAIN tree' /\ tree' = tree
    BY <1>0, <1>1, <1>6, PassDoes, SameTree DEF server, Exists
  <2>2. seen'[u] = tree[file]
    BY <1>1, <1>6
  <2> QED
    BY <1>4, <1>6, <2>1, <2>2 DEF server
<1>7. CASE step[u] = 3 /\ Exists(file) /\ TRUE \in SameStat(seen[u], Fstat(file)) /\ Pass(u)
           /\ UNCHANGED server
  <2>1. TreeInv'
    BY <1>0, <1>1, <1>7, PassDoes, SameTree DEF server
  <2>2. ASSUME ~failed[u], defect = "fstat", ~local PROVE FALSE
    <3>1. tree[file] \in Inode /\ seen[u] = tree[file]
      BY <1>0, <1>1, <1>7, <2>2 DEF OnFstat, Exists, ClientInv, TypeOK
    <3>2. Fstat(file).size = 6 - tree[file].size /\ tree[file].size \in {0, 6}
      BY <2>2, <3>1 DEF Fstat, Inode
    <3>3. tree[file] = Fstat(file)
      BY <1>7, <2>2, <3>1 DEF SameStat
    <3> QED
      BY <3>2, <3>3
  <2> QED
    BY <1>4, <1>7, <2>1, <2>2 DEF server
<1>8. CASE step[u] = 2 /\ Check(u, Exists(file), Return(u))
           /\ seen' = [seen EXCEPT ![u] = IF Exists(file) THEN tree[file] ELSE @]
  BY <1>3, <1>6, <1>8 DEF Check
<1>9. ASSUME step[u] = 3, NEW same \in SameStat(seen[u], Fstat(file)),
             Check(u, Exists(file) /\ same, Fail(u))
      PROVE  Stays(u)
  <2>1. same \in BOOLEAN
    BY <1>9 DEF SameStat, StatCmp
  <2> QED
    BY <1>3, <1>7, <1>9, <2>1 DEF Check
<1> QED
  BY <1>5, <1>8, <1>9 DEF TestFstat, file

LEMMA BandwidthTracks ==
    ASSUME TrackInv, NEW u \in clients, TestBandwidth(u)
    PROVE  Stays(u)
<1> DEFINE file == Path(u, "bandwidth.test")
<1>0. /\ test[u] = "test_bandwidth" /\ test[u] \in AfterDir \ {"test_umask"}
      /\ LastStep[test[u]] = 2 /\ After[test[u]] = "test_disconnect"
      /\ "bandwidth.test" \in FixedNames \ {"test_dir"}
  BY DEF TestBandwidth, AfterDir, LastStep, After, FixedNames
<1>1. /\ u \in Users /\ ClientInv /\ TreeInv /\ failed[u] \in BOOLEAN
      /\ step[u] \in 1..2
      /\ ~failed[u] => /\ OnBandwidth(u) /\ Found(u) /\ file = In(u, "bandwidth.test")
      /\ UNCHANGED setup => /\ Dir(u)' = Dir(u)
                            /\ \A name : In(u, name)' = In(u, name)
  BY <1>0, LateKnown DEF OnTrack
<1> HIDE DEF file
<1>3. ASSUME UNCHANGED server, Return(u)
      PROVE  Stays(u)
  <2>1. /\ UNCHANGED <<setup, run, tree, cwd, umask>> /\ failed'[u] = TRUE
        /\ test'[u] = "test_disconnect"
    BY <1>0, <1>1, <1>3 DEF Return, Goto, ClientInv, TypeOK, server
  <2> QED
    BY <1>0, <1>1, <2>1, SameTree, LateTracks DEF AfterDir
<1>4. ASSUME Pass(u), TreeInv', cwd' = cwd,
             step[u] = 1 => file \in DOMAIN tree'
      PROVE  Stays(u)
  <2>1. /\ UNCHANGED <<setup, run, failed>>
        /\ \/ step[u] = 1 /\ test'[u] = "test_bandwidth" /\ step'[u] = 2
           \/ step[u] = 2 /\ test'[u] = "test_disconnect" /\ step'[u] = 1
    BY <1>0, <1>1, <1>4, PassDoes
  <2>2. ~failed[u] => Found(u)'
    BY <1>0, <1>1, <1>4, <2>1 DEF Found, AfterDir, setup
  <2>3. ~failed[u] /\ test'[u] = "test_bandwidth" => OnBandwidth(u)'
    BY <1>0, <1>1, <1>4, <2>1 DEF OnBandwidth, Exists, At
  <2>4. ~failed[u] => OnTrack(u)'
    BY <1>1, <2>1, <2>2, <2>3, TrackOnly
  <2> QED
    BY <1>0, <1>4, <2>1, <2>4, LateTracks DEF AfterDir
<1>5. CASE step[u] = 1 /\ Create(u, "bandwidth.test", Return(u))
  <2>1. Pass(u) /\ TreeInv' /\ Only(file) /\ file \in DOMAIN tree'
    BY <1>0, <1>1, <1>5, CreatePasses DEF file, AfterDir
  <2> QED
    BY <1>4, <1>5, <2>1 DEF Only
<1>6. CASE step[u] = 2 /\ IsFile(file) /\ Pass(u) /\ UNCHANGED server
  <2>1. TreeInv'
    BY <1>0, <1>1, <1>6, PassDoes, SameTree DEF server
  <2> QED
    BY <1>4, <1>6, <2>1 DEF server
<1>7. CASE step[u] = 2 /\ Check(u, IsFile(file), Return(u))
  BY <1>3, <1>6, <1>7 DEF Check
<1> QED
  BY <1>5, <1>7 DEF TestBandwidth, file

-----------------------------------------------------------------------------
\* The other clients.

\* Nothing changes for that client or in its home.
Apart(w) ==
    /\ UNCHANGED setup
    /\ test'[w] = test[w] /\ step'[w] = step[w] /\ run'[w] = run[w] /\ tmp'[w] = tmp[w]
    /\ old_mask'[w] = old_mask[w] /\ seen'[w] = seen[w] /\ failed'[w] = failed[w]
    /\ cwd'[w] = cwd[w] /\ umask'[w] = umask[w]
    /\ \A p : Own(w, p) => /\ p \in DOMAIN tree' <=> p \in DOMAIN tree
                           /\ p \in DOMAIN tree => tree'[p] = tree[p]

LEMMA ApartStays ==
    ASSUME TrackInv, NEW w \in clients, ~local, Apart(w), TypeOK'
    PROVE  Placed(w)' /\ FirstRun(w)' /\ (~failed'[w] => OnTrack(w)')
<1>1. /\ w \in Users /\ local \in BOOLEAN /\ tmp[w] \in DOMAIN Tmpdirs
      /\ Placed(w) /\ FirstRun(w) /\ (~failed[w] => OnTrack(w))
      /\ UNCHANGED setup
      /\ Home(w)' = Home(w) /\ Dir(w)' = Dir(w) /\ \A name : In(w, name)' = In(w, name)
  BY DEF TrackInv, ClientInv, TypeOK, Apart, Home, Dir, In, setup
<1>2. /\ test'[w] = test[w] /\ step'[w] = step[w] /\ run'[w] = run[w] /\ tmp'[w] = tmp[w]
      /\ old_mask'[w] = old_mask[w] /\ seen'[w] = seen[w] /\ failed'[w] = failed[w]
      /\ cwd'[w] = cwd[w] /\ umask'[w] = umask[w]
  BY DEF Apart
<1> DEFINE Same(p) == /\ p \in DOMAIN tree' <=> p \in DOMAIN tree
                      /\ p \in DOMAIN tree => tree'[p] = tree[p]
<1>3. /\ Same(Home(w)) /\ Same(Dir(w))
      /\ \A name \in Names : Same(In(w, name))
  <2>1. w \in Names
    BY <1>1, FileNames DEF DirNames
  <2>2. Own(w, Home(w))
    BY <2>1 DEF Own, Home, Root
  <2> QED
    BY <1>1, <2>2, Homes DEF Apart
<1>4. /\ {"test_file", "Umask_test_file", "link.test", "link2.test", "fstat.test",
          "bandwidth.test"} \subseteq Names
      /\ \A i \in 1..FILES : ToString(i) \in Names
      /\ Tmpdirs[tmp[w]] \in Names
  BY <1>1, FileNames, TmpNamesAreDirs DEF FixedNames
<1>5. Placed(w)'
  BY <1>1, <1>2 DEF Placed, At, setup
<1>6. FirstRun(w)'
  <2> SUFFICES ASSUME run[w] = 0 \/ (run[w] = 1 /\ test[w] \in Early),
                      NEW p \in DOMAIN tree' \ {Root}, Front(p) = Dir(w)
               PROVE  Last(p) \in {"test_file"} \cup Numbers
    BY <1>1, <1>2 DEF FirstRun
  <2>1. p \in Seq(Names) /\ p # Root
    BY DEF TypeOK
  <2>2. Last(p) \in Names /\ p = In(w, Last(p))
    BY <2>1, PathParts DEF In
  <2>3. p \in DOMAIN tree
    BY <1>3, <2>2
  <2> QED
    BY <1>1, <2>3 DEF FirstRun
<1> HIDE DEF Same
<1>7. ASSUME ~failed[w] PROVE OnTrack(w)'
  <2>1. OnConnect(w)'
    BY <1>1, <1>2, <1>3, <1>7 DEF OnTrack, OnConnect, Exists, IsDir, Same, setup
  <2>2. OnCreate(w)'
    BY <1>1, <1>2, <1>3, <1>4, <1>7 DEF OnTrack, OnCreate, Exists, IsDir, Same, setup
  <2>3. OnDir(w)'
    BY <1>1, <1>2, <1>3, <1>4, <1>7 DEF OnTrack, OnDir, Exists, IsDir, Same
  <2>4. OnUmask(w)'
    BY <1>1, <1>2, <1>3, <1>4, <1>7 DEF OnTrack, OnUmask, Exists, HasPerms, Same, setup
  <2>5. OnLink(w)'
    BY <1>1, <1>2, <1>3, <1>4, <1>7 DEF OnTrack, OnLink, Exists, Same, setup
  <2>6. OnRmdir(w)'
    BY <1>1, <1>2, <1>3, <1>4, <1>7 DEF OnTrack, OnRmdir, Exists, Same, setup
  <2>7. OnFstat(w)' /\ OnBandwidth(w)'
    BY <1>1, <1>2, <1>3, <1>4, <1>7 DEF OnTrack, OnFstat, OnBandwidth, At, Exists, Same
  <2>8. Found(w)'
    BY <1>1, <1>2, <1>7 DEF OnTrack, Found, setup
  <2> QED
    BY <2>1, <2>2, <2>3, <2>4, <2>5, <2>6, <2>7, <2>8 DEF OnTrack
<1> QED
  BY <1>2, <1>5, <1>6, <1>7

\* What a client has read and reported is its own.
LEMMA TestIsOwn ==
    ASSUME ClientInv, NEW u \in clients, Test(u), ~(TestDisconnect(u) \/ Terminate(u)),
           NEW w \in Users \ {u}
    PROVE  failed'[w] = failed[w] /\ old_mask'[w] = old_mask[w] /\ seen'[w] = seen[w]
<1>1. /\ u \in Users
      /\ old_mask \in [Users -> SUBSET Perms] /\ seen \in [Users -> Inode]
  BY DEF ClientInv, TypeOK
<1>2. Pass(u) \/ Fail(u) \/ Return(u) \/ Fatal(u) => failed'[w] = failed[w]
  BY <1>1, AnswerKeeps
<1>3. CASE TestConnect(u) \/ Mount(u) \/ Contents(u) \/ TestCreate(u)
  BY <1>2, <1>3 DEF TestConnect, Mount, Contents, TestCreate, MkdirFailed, Create, Try, Check
<1>4. CASE TestDir(u) \/ TestLink(u) \/ TestBandwidth(u)
  BY <1>2, <1>4 DEF TestDir, TestLink, TestBandwidth, Create, Try, Check
<1>5. CASE TestUmask(u)
  BY <1>1, <1>2, <1>5 DEF TestUmask, Create, Try, Check
<1>6. CASE TestRmdir(u)
  BY <1>2, <1>6 DEF TestRmdir, Create, Try, Check
<1>7. CASE TestFstat(u)
  BY <1>1, <1>2, <1>7 DEF TestFstat, Create, Try, Check
<1> QED
  BY <1>3, <1>4, <1>5, <1>6, <1>7 DEF Test

LEMMA TestLeavesApart ==
    ASSUME ClientInv, NEW u \in clients, Test(u), ~(TestDisconnect(u) \/ Terminate(u)),
           NEW w \in clients \ {u}
    PROVE  Apart(w)
<1>1. /\ Change(u) /\ Moved(u) /\ (UNCHANGED tmp \/ NameTaken(u))
      /\ u \in Users /\ w \in Users \ {u} /\ ~local
      /\ cwd \in [Users -> DOMAIN tree] /\ umask \in [Users -> SUBSET Perms]
      /\ tmp \in [Users -> DOMAIN Tmpdirs]
  BY TestDoes DEF ClientInv, TypeOK
<1>2. failed'[w] = failed[w] /\ old_mask'[w] = old_mask[w] /\ seen'[w] = seen[w]
  BY <1>1, TestIsOwn
<1>3. tmp'[w] = tmp[w]
  BY <1>1 DEF NameTaken
<1>4. cwd'[w] = cwd[w] /\ umask'[w] = umask[w]
  BY <1>1 DEF Change, ChangesTree, ChangesDir, Chdir, server
<1>5. ASSUME NEW p, Own(w, p)
      PROVE  (p \in DOMAIN tree' <=> p \in DOMAIN tree) /\ (p \in DOMAIN tree => tree'[p] = tree[p])
  <2>1. CASE UNCHANGED tree
    BY <2>1
  <2>2. CASE ChangesTree(u)
    <3>1. PICK path : Own(u, path) /\ ((\E inode \in Inode : Add(path, inode)) \/ Detach(path))
      BY <2>2 DEF ChangesTree
    <3>2. p # path
      BY <1>1, <1>5, <3>1 DEF Own
    <3> QED
      BY <3>1, <3>2, AddDoes, DetachDoes
  <2> QED
    BY <1>1, <2>1, <2>2 DEF Change, ChangesDir, Chdir, server
<1> QED
  BY <1>1, <1>2, <1>3, <1>4, <1>5 DEF Apart, Moved

LEMMA GoneTracks ==
    ASSUME TrackInv, NEW u \in clients, test[u] # "stopped", Gone(u), ClientInv',
           \/ UNCHANGED tree
           \/ local /\ \E path \in DOMAIN tree \ {Root} :
                           tree' = [p \in DOMAIN tree \ Lost(path) |-> tree[p]]
    PROVE  /\ TreeInv' /\ UNCHANGED setup
           /\ \A w \in clients : Placed(w)' /\ FirstRun(w)' /\ (~failed'[w] => OnTrack(w)')
           /\ \A w \in Users \ clients : test'[w] = test[w]
<1>1. /\ u \in Users /\ clients \subseteq Users /\ run[u] \in Nat /\ run[u] > 0
      /\ ClientInv /\ TypeOK /\ TypeOK' /\ TreeInv /\ local \in BOOLEAN
      /\ step \in [Users -> Nat]
  BY Known DEF ClientInv, TypeOK
<1>2. /\ UNCHANGED <<setup, run, tmp, seen, old_mask, failed>>
      /\ cwd' = [cwd EXCEPT ![u] = Root] /\ umask' = [umask EXCEPT ![u] = Default]
      /\ test' = [test EXCEPT ![u] = "stopped"] /\ step' = [step EXCEPT ![u] = 1]
  BY DEF Gone, Goto
<1>3. /\ cwd'[u] = Root /\ umask'[u] = Default /\ test'[u] = "stopped"
      /\ \A w \in Users \ {u} : /\ cwd'[w] = cwd[w] /\ umask'[w] = umask[w]
                                /\ test'[w] = test[w] /\ step'[w] = step[w]
  BY <1>1, <1>2 DEF TypeOK
<1>4. TreeInv'
  BY <1>1, <1>2, LessSound
<1>5. Placed(u)' /\ FirstRun(u)' /\ OnTrack(u)'
  <2>1. Placed(u)'
    BY <1>2, <1>3 DEF Placed, At, Home, setup
  <2>2. FirstRun(u)'
    BY <1>1, <1>2, <1>3 DEF FirstRun, Early
  <2>3. OnTrack(u)'
    BY <1>1, <1>3, TrackOnly DEF Found, AfterDir
  <2> QED
    BY <2>1, <2>2, <2>3
<1>6. ASSUME NEW w \in clients \ {u}
      PROVE  Placed(w)' /\ FirstRun(w)' /\ (~failed'[w] => OnTrack(w)')
  <2>1. ~local /\ UNCHANGED tree
    BY <1>1 DEF ClientInv
  <2>2. Apart(w)
    BY <1>1, <1>2, <1>3, <2>1 DEF Apart
  <2> QED
    BY <1>1, <2>1, <2>2, ApartStays
<1> QED
  BY <1>1, <1>2, <1>3, <1>4, <1>5, <1>6

LEMMA RunTracks ==
    ASSUME TrackInv, NEW u \in clients, Run(u), ClientInv'
    PROVE  /\ TreeInv' /\ UNCHANGED setup
           /\ \A w \in clients : Placed(w)' /\ FirstRun(w)' /\ (~failed'[w] => OnTrack(w)')
           /\ \A w \in Users \ clients : test'[w] = test[w]
<1>1. /\ u \in Users /\ clients \subseteq Users /\ run[u] \in Nat
      /\ ClientInv /\ TypeOK /\ TypeOK' /\ TreeInv /\ local \in BOOLEAN
      /\ step \in [Users -> Nat] /\ Placed(u) /\ FirstRun(u)
  BY ClientsAssumption DEF TrackInv, ClientInv, TypeOK
<1>2. /\ UNCHANGED <<setup, tree, cwd, umask, seen, old_mask>>
      /\ run' = [run EXCEPT ![u] = @ + 1]
      /\ test' = [test EXCEPT ![u] = "test_connect"] /\ step' = [step EXCEPT ![u] = 1]
      /\ tmp' = [tmp EXCEPT ![u] = 1] /\ failed' = [failed EXCEPT ![u] = FALSE]
      /\ test[u] = "stopped"
  BY DEF Run, server
<1>3. /\ run'[u] = run[u] + 1 /\ test'[u] = "test_connect" /\ step'[u] = 1
      /\ \A w \in Users \ {u} : /\ run'[w] = run[w] /\ tmp'[w] = tmp[w]
                                /\ test'[w] = test[w] /\ step'[w] = step[w]
                                /\ failed'[w] = failed[w]
  BY <1>1, <1>2 DEF TypeOK
<1>4. TreeInv'
  BY <1>1, <1>2, SameTree
<1>5. Placed(u)' /\ FirstRun(u)' /\ OnTrack(u)'
  <2>1. Placed(u)'
    <3>1. umask[u] = Default /\ (local => cwd[u] = Home(u))
      BY <1>1, <1>2 DEF Placed
    <3>2. umask'[u] = Default /\ test'[u] = "test_connect" /\ local' = local
          /\ (local => cwd'[u] = Home(u)) /\ Home(u)' = Home(u)
      BY <1>2, <1>3, <3>1 DEF Home, setup
    <3> QED
      BY <3>2 DEF Placed, At
  <2>2. FirstRun(u)'
    <3>1. Dir(u)' = Dir(u) /\ tree' = tree
      BY <1>2 DEF Dir, Home, setup
    <3>2. run'[u] \in {0, 1} => run[u] = 0
      BY <1>1, <1>3
    <3> QED
      BY <1>1, <3>1, <3>2 DEF FirstRun
  <2>3. OnTrack(u)'
    BY <1>1, <1>3, TrackOnly DEF Found, AfterDir
  <2> QED
    BY <2>1, <2>2, <2>3
<1>6. ASSUME NEW w \in clients \ {u}
      PROVE  Placed(w)' /\ FirstRun(w)' /\ (~failed'[w] => OnTrack(w)')
  <2>1. ~local
    BY <1>1 DEF ClientInv
  <2>2. Apart(w)
    BY <1>1, <1>2, <1>3 DEF Apart
  <2> QED
    BY <1>1, <2>1, <2>2, ApartStays
<1> QED
  BY <1>1, <1>2, <1>3, <1>4, <1>5, <1>6

LEMMA TestTracks ==
    ASSUME TrackInv, NEW u \in clients, Test(u), ~(TestDisconnect(u) \/ Terminate(u)), ClientInv'
    PROVE  /\ TreeInv' /\ UNCHANGED setup
           /\ \A w \in clients : Placed(w)' /\ FirstRun(w)' /\ (~failed'[w] => OnTrack(w)')
           /\ \A w \in Users \ clients : test'[w] = test[w]
<1>1. ClientInv /\ TypeOK' /\ u \in Users /\ clients \subseteq Users /\ Moved(u)
  BY TestDoes DEF TrackInv, ClientInv, TypeOK
<1>2. Stays(u)
  BY ConnectTracks, MountTracks, ContentsTracks, CreateTestTracks, DirTestTracks, UmaskTestTracks,
     LinkTestTracks, RmdirTestTracks, FstatTestTracks, BandwidthTracks DEF Test
<1>3. ASSUME NEW w \in clients \ {u}
      PROVE  Placed(w)' /\ FirstRun(w)' /\ (~failed'[w] => OnTrack(w)')
  <2>1. ~local
    BY <1>1 DEF ClientInv
  <2> QED
    BY <1>1, <2>1, TestLeavesApart, ApartStays
<1> QED
  BY <1>1, <1>2, <1>3 DEF Stays, Moved

LEMMA TrackInvStep == TrackInv /\ [Next]_vars => TrackInv'
<1> SUFFICES ASSUME TrackInv, [Next]_vars PROVE TrackInv'
  OBVIOUS
<1>0. ClientInv /\ ClientInv'
  BY ClientInvStep DEF TrackInv
<1> DEFINE Tracked == /\ TreeInv' /\ UNCHANGED setup
                      /\ \A w \in clients : Placed(w)' /\ FirstRun(w)'
                                            /\ (~failed'[w] => OnTrack(w)')
                      /\ \A w \in Users \ clients : test'[w] = test[w]
<1>1. CASE UNCHANGED vars
  <2>1. TreeInv' /\ UNCHANGED setup
    BY <1>1, SameTree DEF TrackInv, vars, setup
  <2>2. ASSUME NEW w \in clients
        PROVE  Placed(w)' /\ FirstRun(w)' /\ (OnTrack(w) => OnTrack(w)')
    <3>1. Placed(w)' /\ FirstRun(w)'
      BY <1>1 DEF TrackInv, Placed, FirstRun, At, Dir, Home, vars
    <3>2. /\ OnConnect(w)' = OnConnect(w) /\ OnCreate(w)' = OnCreate(w)
          /\ OnDir(w)' = OnDir(w) /\ OnUmask(w)' = OnUmask(w)
      BY <1>1 DEF OnConnect, OnCreate, OnDir, OnUmask, HasPerms, IsDir, Exists, In, Dir, Home, vars
    <3>3. /\ OnLink(w)' = OnLink(w) /\ OnRmdir(w)' = OnRmdir(w)
          /\ OnFstat(w)' = OnFstat(w) /\ OnBandwidth(w)' = OnBandwidth(w)
          /\ Found(w)' = Found(w)
      BY <1>1 DEF OnLink, OnRmdir, OnFstat, OnBandwidth, Found, At, Exists, In, Dir, Home, vars
    <3> QED
      BY <3>1, <3>2, <3>3 DEF OnTrack
  <2> QED
    BY <1>0, <1>1, <2>1, <2>2 DEF TrackInv, vars
<1>2. ASSUME NEW u \in clients, Test(u) PROVE Tracked
  <2>1. CASE TestDisconnect(u) \/ Terminate(u)
    BY <1>0, <2>1, GoneTracks DEF TestDisconnect, Terminate
  <2> QED
    BY <1>0, <1>2, <2>1, TestTracks
<1>3. ASSUME NEW u \in clients, CutOff(u) PROVE Tracked
  BY <1>0, <1>3, GoneTracks DEF CutOff
<1>4. ASSUME NEW u \in clients, Run(u) PROVE Tracked
  BY <1>0, <1>4, RunTracks
<1>5. ASSUME Tracked PROVE TrackInv'
  BY <1>0, <1>5 DEF TrackInv, setup
<1> QED
  BY <1>1, <1>2, <1>3, <1>4, <1>5 DEF Next

LEMMA TrackInvInit == Init => TrackInv
<1> SUFFICES ASSUME Init PROVE TrackInv
  OBVIOUS
<1>1. DOMAIN tree = {Root} /\ tree[Root].ino = Root
  BY DEF Init, Directory
<1>2. TreeInv
  BY <1>1, FS_Singleton DEF TreeInv
<1>3. ASSUME NEW u \in clients PROVE Placed(u) /\ FirstRun(u) /\ OnTrack(u)
  <2>1. u \in Users
    BY ClientInvInit DEF ClientInv, TypeOK
  <2>2. /\ test[u] = "stopped" /\ cwd[u] = Root /\ umask[u] = Default
    BY <2>1 DEF Init
  <2>3. Placed(u)
    BY <2>2 DEF Placed, At, Home
  <2>4. FirstRun(u)
    BY <1>1 DEF FirstRun
  <2>5. OnTrack(u)
    BY <2>2 DEF OnTrack, OnConnect, OnCreate, OnDir, OnUmask, OnLink, OnRmdir, OnFstat,
                OnBandwidth, Found, At, AfterDir
  <2> QED
    BY <2>3, <2>4, <2>5
<1> QED
  BY <1>2, <1>3, ClientInvInit DEF TrackInv, Init

LEMMA TrackInvariant == Spec => []TrackInv
  BY TrackInvInit, TrackInvStep, PTL DEF Spec

-----------------------------------------------------------------------------
\* No defect gets past a run that comes to its end, but for what the program cannot see,
\* with any number of clients at once, wherever the runs before it were cut off: a test
\* that reports nothing has seen the effect of each call that it relies on
\* (FULLTEST.C:193-750, 622; TFS/FULLTEST.C:703-714).
THEOREM DefectsAreReported == Spec => []DefectsReported
<1>1. TrackInv => DefectsReported
  <2> SUFFICES ASSUME TrackInv, NEW u \in Users, test[u] = "test_disconnect", defect # "none",
                      ~Unseen(u), ~failed[u]
               PROVE  FALSE
    BY DEF DefectsReported, TrackInv, ClientInv, TypeOK
  <2>1. u \in clients /\ OnTrack(u)
    BY DEF TrackInv
  <2>2. defect \in KnownDefects
    BY ClientsAssumption DEF TrackInv, ClientInv, TypeOK
  <2>3. defect # "mkdir"
    BY <2>1, DirIsMade DEF AfterDir
  <2> QED
    BY <2>1, <2>2, <2>3 DEF OnTrack, Found, AfterDir, KnownDefects, Unseen
<1> QED
  BY <1>1, TrackInvariant, PTL

-----------------------------------------------------------------------------
\* A server without a defect gets every call of a client that has reported nothing past
\* its check.
Right(u) == defect = "none" /\ ~failed[u]

LEMMA RightKnown ==
    ASSUME TrackInv, NEW u \in clients, test[u] # "stopped", Right(u)
    PROVE  /\ u \in Users /\ ClientInv /\ TreeInv /\ OnTrack(u) /\ local \in BOOLEAN
           /\ tmp[u] \in DOMAIN Tmpdirs /\ IsDir(cwd[u])
           /\ test[u] \in AfterDir => /\ cwd[u] = Dir(u)
                                      /\ \A name : Path(u, name) = In(u, name)
           /\ Pass(u) => ~failed'[u]
           /\ \A name \in (FixedNames \cup Numbers) \ {"test_dir"} :
                 Create(u, name, Fatal(u)) \/ Create(u, name, Return(u)) \/ Create(u, name, Fail(u))
                     => ~failed'[u]
           /\ \A name \in Names : /\ IsDir(Path(u, name)) <=> name \in DirNames /\ Exists(Path(u, name))
                                  /\ IsFile(Path(u, name)) <=> name \notin DirNames /\ Exists(Path(u, name))
<1>1. /\ u \in Users /\ ClientInv /\ TreeInv /\ OnTrack(u) /\ local \in BOOLEAN /\ IsDir(cwd[u])
      /\ tmp[u] \in DOMAIN Tmpdirs
  BY Known DEF Right, ClientInv, TypeOK
<1>2. test[u] \in AfterDir => cwd[u] = Dir(u) /\ \A name : Path(u, name) = In(u, name)
  BY <1>1 DEF OnTrack, Found, Path, In
<1>3. Pass(u) => ~failed'[u]
  BY DEF Pass, Right
<1>4. ASSUME NEW name \in Names
      PROVE  /\ IsDir(Path(u, name)) <=> name \in DirNames /\ Exists(Path(u, name))
             /\ IsFile(Path(u, name)) <=> name \notin DirNames /\ Exists(Path(u, name))
  <2>1. Path(u, name) # Root /\ Last(Path(u, name)) = name
    BY <1>4, PlaceHere DEF Place
  <2> QED
    BY <1>1, <2>1, KindOfEntry DEF IsDir, IsFile, Exists
<1> QED
  BY <1>1, <1>2, <1>3, <1>4, CreatePasses

LEMMA ConnectIsQuiet ==
    ASSUME TrackInv, NEW u \in clients, Right(u), TestConnect(u)
    PROVE  ~failed'[u]
<1>1. /\ u \in Users /\ ClientInv /\ OnConnect(u) /\ test[u] = "test_connect" /\ ~local
      /\ (Pass(u) => ~failed'[u])
  BY RightKnown DEF TestConnect, OnTrack
<1>2. Front(Home(u)) = Root /\ IsDir(Root)
  <2>1. u \in Names /\ Home(u) = Append(Root, u) /\ Root \in Seq(Names)
    BY <1>1, FileNames DEF Root, DirNames, Home
  <2> QED
    BY <1>1, <2>1, Paths DEF ClientInv
<1>3. step[u] = 2 => CanMkdir(Home(u))
  BY <1>1, <1>2 DEF OnConnect, CanMkdir
<1>4. step[u] = 3 => IsDir(Home(u))
  BY <1>1 DEF OnConnect, Right
<1>5. UNCHANGED failed => ~failed'[u]
  BY DEF Right
<1> QED
  BY <1>1, <1>3, <1>4, <1>5 DEF TestConnect, Try

LEMMA CreateTestIsQuiet ==
    ASSUME TrackInv, NEW u \in clients, Right(u), TestCreate(u), failed'[u]
    PROVE  FalseAlarmAt(u)
<1> DEFINE dir == Path(u, "test_dir")
           file == Append(dir, "test_file")
<1>1. /\ u \in Users /\ ClientInv /\ OnCreate(u) /\ test[u] = "test_create" /\ local \in BOOLEAN
      /\ IsDir(cwd[u]) /\ (Pass(u) => ~failed'[u]) /\ TreeInv
      /\ dir = Path(u, "test_dir") /\ dir = Dir(u) /\ file = In(u, "test_file")
      /\ step[u] \in 1..4
  BY RightKnown, Known DEF TestCreate, OnTrack, Placed, Path, Dir, In, ClientInv, TypeOK, LastStep
<1> HIDE DEF dir, file
<1>2. /\ Front(dir) = cwd[u] /\ Front(file) = dir /\ file # Root /\ Last(file) = "test_file"
      /\ "test_file" \notin DirNames
  <2>1. {"test_dir", "test_file"} \subseteq Names /\ "test_file" \notin DirNames
    BY FileNames DEF FixedNames
  <2>2. Front(dir) = cwd[u]
    BY <1>1, <2>1, PlaceHere
  <2>3. Front(file) = dir /\ Last(file) = "test_file" /\ Own(u, file)
    BY <1>1, <2>1, Homes
  <2> QED
    BY <2>1, <2>2, <2>3 DEF Own
<1>3. Exists(file) => IsFile(file)
  BY <1>1, <1>2, KindOfEntry DEF Exists
<1>4. CASE step[u] = 1
  <2>1. Exists(dir) /\ Shared(u)
    BY <1>1, <1>2, <1>4 DEF TestCreate, Try, CanMkdir, MkdirFailed, dir
  <2>2. dir = Home(u) \o <<"test_dir">>
    <3>1. Home(u) \in Seq(Names) /\ "test_dir" \in Names
      BY <1>1, FileNames, Homes DEF FixedNames
    <3> QED
      BY <1>1, <3>1 DEF Dir
  <2> QED
    BY <1>1, <1>4, <2>1, <2>2 DEF FalseAlarmAt, Exists
<1>5. CASE step[u] = 2
  <2>1. CanOpen(file)
    BY <1>1, <1>2, <1>3, <1>5 DEF CanOpen, OnCreate, Right, IsDir, IsFile
  <2> QED
    BY <1>1, <1>5, <2>1 DEF TestCreate, Try, dir, file
<1>6. CASE step[u] = 3
  <2>1. IsFile(file)
    BY <1>1, <1>3, <1>6 DEF OnCreate
  <2> QED
    BY <1>1, <1>6, <2>1 DEF TestCreate, Try, dir, file
<1>7. CASE step[u] = 4
  <2>1. IsFile(file) /\ tree[file].size = 6
    BY <1>1, <1>3, <1>7 DEF OnCreate, Right
  <2> QED
    BY <1>1, <1>7, <2>1 DEF TestCreate, Check, dir, file
<1> QED
  BY <1>1, <1>4, <1>5, <1>6, <1>7

LEMMA DirTestIsQuiet ==
    ASSUME TrackInv, NEW u \in clients, Right(u), TestDir(u)
    PROVE  ~failed'[u]
<1>1. /\ u \in Users /\ ClientInv /\ TreeInv /\ OnDir(u) /\ test[u] = "test_dir"
      /\ local \in BOOLEAN /\ (Pass(u) => ~failed'[u])
      /\ IsDir(cwd[u]) /\ (step[u] = 1 => cwd[u] = Home(u)) /\ (step[u] > 1 => cwd[u] = Dir(u))
      /\ FILES \in Nat \ {0}
  BY RightKnown, Known, ClientsAssumption DEF TestDir, OnTrack, Placed, At
<1>2. CASE step[u] = 1 /\ Try(u, IsDir(Path(u, "test_dir")), Chdir(u, Path(u, "test_dir")), Return(u))
  BY <1>1, <1>2 DEF Try, OnDir, Path, Dir
<1>3. ASSUME NEW i \in 1..FILES, Create(u, ToString(i), Return(u)) PROVE ~failed'[u]
  <2>1. ToString(i) \in (FixedNames \cup Numbers) \ {"test_dir"}
    BY FileNames DEF FixedNames
  <2> QED
    BY <1>1, <1>3, <2>1, RightKnown
<1>4. CASE step[u] = FILES + 2 /\ Check(u, IsDir(cwd[u]) /\ Size(cwd[u]) >= FILES + 3, Fail(u))
  <2>1. \A name \in {"test_file"} \cup Numbers : Exists(In(u, name))
    BY <1>1, <1>4 DEF OnDir, Numbers
  <2>2. Cardinality(Entries(Dir(u))) >= FILES + 1 /\ Cardinality(Entries(Dir(u))) \in Nat
    BY <1>1, <2>1, EntriesCounted DEF ClientInv, TypeOK
  <2>3. Size(cwd[u]) >= FILES + 3
    BY <1>1, <1>4, <2>2 DEF Size, Right
  <2> QED
    BY <1>1, <1>4, <2>3 DEF Check
<1> QED
  BY <1>2, <1>3, <1>4 DEF TestDir

LEMMA UmaskTestIsQuiet ==
    ASSUME TrackInv, NEW u \in clients, Right(u), TestUmask(u), failed'[u]
    PROVE  FalseAlarmAt(u)
<1> DEFINE file == Path(u, "Umask_test_file")
<1>0. "Umask_test_file" \in FixedNames \ {"test_dir"} /\ "Umask_test_file" \in Names \ DirNames
  BY FileNames DEF FixedNames
<1>1. /\ u \in Users /\ OnUmask(u) /\ test[u] = "test_umask" /\ (Pass(u) => ~failed'[u])
      /\ step[u] > 3 => old_mask[u] = Default
      /\ file = In(u, "Umask_test_file") /\ (IsFile(file) <=> Exists(file))
      /\ step[u] \in Nat
      /\ defect = "none"
  BY <1>0, RightKnown, Known DEF TestUmask, OnTrack, Placed, AfterDir, Right
<1>2. ASSUME Create(u, "Umask_test_file", IF step[u] = 2 THEN Return(u) ELSE Fail(u))
      PROVE  ~failed'[u]
  <2>1. Create(u, "Umask_test_file", Return(u)) \/ Create(u, "Umask_test_file", Fail(u))
    BY <1>2
  <2> QED
    BY <1>0, <1>1, <2>1, RightKnown
<1> HIDE DEF file
<1>3. CASE step[u] \in {1, 3}
  BY <1>1, <1>3 DEF TestUmask, Try, FalseAlarmAt, file
<1>4. CASE step[u] = 4
  <2>1. HasPerms(file, Perms \ old_mask[u])
    BY <1>1, <1>4 DEF OnUmask
  <2> QED
    BY <1>1, <1>4, <2>1 DEF TestUmask, Check, file
<1>5. CASE step[u] \in {5, 7}
  <2>1. Exists(file) /\ IsFile(file)
    BY <1>1, <1>5 DEF OnUmask, HasPerms
  <2> QED
    BY <1>1, <1>5, <2>1 DEF TestUmask, Try, file
<1>6. CASE step[u] \in {6, 8, 10}
  <2>1. /\ step[u] = 6 => HasPerms(file, {"u"})
        /\ step[u] = 8 => ~Exists(file)
        /\ step[u] = 10 => HasPerms(file, Perms \ NoOthers)
    BY <1>1 DEF OnUmask
  <2> QED
    BY <1>1, <1>6, <2>1 DEF TestUmask, Check, file
<1> QED
  BY <1>2, <1>3, <1>4, <1>5, <1>6 DEF TestUmask

\* test_link blames a server without a defect only where the new name is taken.
LEMMA LinkTestIsQuiet ==
    ASSUME TrackInv, NEW u \in clients, Right(u), TestLink(u),
           step[u] = 2 => ~Exists(In(u, "link2.test"))
    PROVE  ~failed'[u]
<1> DEFINE old == Path(u, "link.test")
           new == Path(u, "link2.test")
<1>0. /\ {"link.test", "link2.test"} \subseteq FixedNames \ {"test_dir"}
      /\ {"link.test", "link2.test"} \subseteq Names \ DirNames
  BY FileNames DEF FixedNames
<1>1. /\ u \in Users /\ OnLink(u) /\ test[u] = "test_link" /\ (Pass(u) => ~failed'[u])
      /\ ClientInv /\ TreeInv /\ IsDir(cwd[u])
      /\ old = In(u, "link.test") /\ new = In(u, "link2.test")
      /\ IsFile(old) <=> Exists(old)
      /\ IsFile(new) <=> Exists(new)
      /\ defect = "none"
  BY <1>0, RightKnown DEF TestLink, OnTrack, AfterDir, Right
<1>2. /\ Place(old) /\ Last(old) = "link.test" /\ Place(new) /\ Last(new) = "link2.test"
      /\ Front(old) = Front(new) /\ Front(new) = cwd[u]
  BY <1>0, <1>1, PlaceHere
<1>3. CASE Create(u, "link.test", Return(u))
  BY <1>0, <1>1, <1>3, RightKnown
<1> HIDE DEF old, new
<1>4. CASE step[u] = 2 /\ Try(u, CanLink(old, new), Link(old, new), Return(u))
  <2>1. CanLink(old, new)
    BY <1>1, <1>2, <1>4 DEF CanLink, OnLink
  <2> QED
    BY <1>1, <1>4, <2>1 DEF Try
<1>5. CASE step[u] = 3 /\ Check(u, Exists(old) /\ Links(old) = 2,
                                IF Exists(old) THEN Fail(u) ELSE Return(u))
  <2>1. Exists(old) /\ Exists(new) /\ tree[new].ino = old
    BY <1>1, <1>5 DEF OnLink
  <2>2. Links(old) = 2
    BY <1>1, <1>2, <2>1, LinksCounted
  <2> QED
    BY <1>1, <1>5, <2>1, <2>2 DEF Check
<1>6. CASE step[u] = 4 /\ Try(u, IsFile(new), Unlink(new), Return(u))
  <2>1. IsFile(new)
    BY <1>1, <1>6 DEF OnLink
  <2> QED
    BY <1>1, <1>6, <2>1 DEF Try
<1> QED
  BY <1>3, <1>4, <1>5, <1>6 DEF TestLink, old, new

LEMMA RmdirTestIsQuiet ==
    ASSUME TrackInv, NEW u \in clients, Right(u), TestRmdir(u)
    PROVE  ~failed'[u]
<1> DEFINE dir == Path(u, Tmpdirs[tmp[u]])
<1>1. /\ u \in Users /\ OnRmdir(u) /\ test[u] = "test_rmdir" /\ (Pass(u) => ~failed'[u])
      /\ ClientInv /\ TreeInv /\ IsDir(cwd[u]) /\ tmp[u] \in DOMAIN Tmpdirs
      /\ dir = In(u, Tmpdirs[tmp[u]]) /\ defect = "none"
  BY RightKnown DEF TestRmdir, OnTrack, AfterDir, Right
<1>2. /\ Tmpdirs[tmp[u]] \in TmpNames /\ Tmpdirs[tmp[u]] \in DirNames
      /\ dir \in Seq(Names) /\ dir # Root /\ Front(dir) = cwd[u] /\ Last(dir) = Tmpdirs[tmp[u]]
      /\ IsDir(dir) <=> Exists(dir)
  BY <1>1, PlaceHere, TmpNamesAreDirs, RightKnown DEF Place
<1> HIDE DEF dir
<1>3. Entries(dir) = {}
  BY <1>2 DEF Entries, TrackInv, TreeInv, Sound
<1>4. CASE step[u] = 1
  BY <1>1, <1>4 DEF TestRmdir, Right
<1>5. CASE step[u] = 2
  BY <1>1, <1>2, <1>5 DEF TestRmdir, Try, CanMkdir, OnRmdir, dir
<1>6. CASE step[u] = 3
  BY <1>1, <1>2, <1>3, <1>6 DEF TestRmdir, Try, OnRmdir, dir
<1>7. CASE step[u] = 4
  BY <1>1, <1>7 DEF TestRmdir, Check, OnRmdir, dir
<1> QED
  BY <1>4, <1>5, <1>6, <1>7 DEF TestRmdir

LEMMA FstatTestIsQuiet ==
    ASSUME TrackInv, NEW u \in clients, Right(u), TestFstat(u), failed'[u]
    PROVE  FalseAlarmAt(u)
<1> DEFINE file == Path(u, "fstat.test")
<1>0. "fstat.test" \in (FixedNames \cup Numbers) \ {"test_dir"}
  BY DEF FixedNames
<1>1. /\ u \in Users /\ OnFstat(u) /\ test[u] = "test_fstat" /\ (Pass(u) => ~failed'[u])
      /\ file = In(u, "fstat.test") /\ defect = "none"
  BY RightKnown DEF TestFstat, OnTrack, AfterDir, Right
<1>2. CASE Create(u, "fstat.test", Return(u))
  BY <1>0, <1>1, <1>2, RightKnown
<1> HIDE DEF file
<1>3. CASE step[u] = 2 /\ Check(u, Exists(file), Return(u))
  BY <1>1, <1>3 DEF OnFstat, Check
<1>4. ASSUME step[u] = 3, NEW same \in SameStat(seen[u], Fstat(file)),
             Check(u, Exists(file) /\ same, Fail(u))
      PROVE  FalseAlarmAt(u)
  <2>1. Exists(file)
    BY <1>1, <1>4 DEF OnFstat
  <2>2. local => same = TRUE
    BY <1>4 DEF SameStat, StatCmp
  <2>3. ~local
    BY <1>1, <1>4, <2>1, <2>2 DEF Check
  <2> QED
    BY <1>1, <1>4, <2>3 DEF FalseAlarmAt
<1> QED
  BY <1>2, <1>3, <1>4 DEF TestFstat, file

LEMMA BandwidthIsQuiet ==
    ASSUME TrackInv, NEW u \in clients, Right(u), TestBandwidth(u)
    PROVE  ~failed'[u]
<1> DEFINE file == Path(u, "bandwidth.test")
<1>0. "bandwidth.test" \in (FixedNames \cup Numbers) \ {"test_dir"}
      /\ "bandwidth.test" \in Names \ DirNames
  BY FileNames DEF FixedNames
<1>1. /\ u \in Users /\ OnBandwidth(u) /\ test[u] = "test_bandwidth" /\ (Pass(u) => ~failed'[u])
      /\ file = In(u, "bandwidth.test") /\ (IsFile(file) <=> Exists(file))
  BY <1>0, RightKnown DEF TestBandwidth, OnTrack, AfterDir
<1>2. CASE Create(u, "bandwidth.test", Return(u))
  BY <1>0, <1>1, <1>2, RightKnown
<1> HIDE DEF file
<1>3. CASE step[u] = 2 /\ Check(u, IsFile(file), Return(u))
  BY <1>1, <1>3 DEF OnBandwidth, At, Check
<1> QED
  BY <1>2, <1>3 DEF TestBandwidth, file

LEMMA TestIsQuiet ==
    ASSUME TrackInv, NEW u \in clients, Right(u), Test(u), failed'[u]
    PROVE  FalseAlarmAt(u)
<1>1. CASE Mount(u) \/ TestDisconnect(u) \/ Terminate(u)
  BY <1>1 DEF Mount, TestDisconnect, Terminate, Gone, Right
<1>2. CASE Contents(u)
  BY <1>2, ContentsTracks DEF Right
<1>3. CASE TestLink(u)
  <2>1. At(u, "test_link", 2) /\ Exists(In(u, "link2.test"))
    BY <1>3, LinkTestIsQuiet DEF At, TestLink
  <2>2. Home(u) \o <<"test_dir", "link2.test">> = In(u, "link2.test")
    <3>1. Home(u) \in Seq(Names) /\ {"test_dir", "link2.test"} \subseteq Names
      <4>1. u \in Users /\ ClientInv /\ local \in BOOLEAN
        BY <1>3, RightKnown DEF TestLink
      <4> QED
        BY <4>1, FileNames, Homes DEF FixedNames
    <3>2. <<"test_dir", "link2.test">> = Append(<<"test_dir">>, "link2.test")
          /\ Home(u) \o <<"test_dir">> = Append(Home(u), "test_dir")
      BY <3>1
    <3> QED
      BY <3>1, <3>2 DEF In, Dir
  <2> QED
    BY <2>1, <2>2 DEF FalseAlarmAt, At, Exists
<1> QED
  BY <1>1, <1>2, <1>3, ConnectIsQuiet, CreateTestIsQuiet, DirTestIsQuiet, UmaskTestIsQuiet,
     RmdirTestIsQuiet, FstatTestIsQuiet, BandwidthIsQuiet DEF Test

\* A server without a defect is blamed at four places only, for any number of clients
\* that run at once and may be cut off anywhere: at the second call of test_link where
\* an earlier run has left link2.test behind; where tfs_errno may be another client's,
\* at a directory that was there and at tfs_umask; and for the padding that the remote
\* test_fstat compares.  Nothing else that the clients do to one another, or an earlier
\* run has left, is taken for a fault (FULLTEST.C:46-848, 649-654, 203, 118, 744).
THEOREM NoFalseAlarmIsRaised == Spec => NoFalseAlarm
<1>1. ASSUME TrackInv, Next, defect = "none", NEW u \in Users, ~failed[u], failed'[u]
      PROVE  FalseAlarmAt(u)
  <2>1. PICK w \in clients : Run(w) \/ Test(w) \/ CutOff(w)
    BY <1>1 DEF Next
  <2>2. ClientInv /\ w \in Users /\ local \in BOOLEAN /\ failed \in [Users -> BOOLEAN]
    BY <1>1 DEF TrackInv, ClientInv, TypeOK
  <2>3. ~Run(w)
    BY <1>1, <2>2 DEF Run
  <2>4. ~CutOff(w) /\ ~TestDisconnect(w) /\ ~Terminate(w)
    BY <1>1, <2>2 DEF CutOff, TestDisconnect, Terminate, Gone
  <2>5. Test(w) /\ w = u
    BY <1>1, <2>1, <2>2, <2>3, <2>4, TestIsOwn
  <2> QED
    BY <1>1, <2>5, TestIsQuiet DEF Right
<1>2. TrackInv /\ [Next]_vars
        => [defect = "none" =>
               \A u \in Users : ~failed[u] /\ failed'[u] => FalseAlarmAt(u)]_vars
  BY <1>1
<1> QED
  BY <1>2, TrackInvariant, PTL DEF Spec, NoFalseAlarm
=============================================================================
