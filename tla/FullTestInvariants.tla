--------------------------- MODULE FullTestInvariants ---------------------------
(***************************************************************************)
(* The inductive invariants behind the properties of FullTest.  ClientInv  *)
(* keeps the clients apart; TrackInv says, step by step, what a client     *)
(* that has reported nothing has put into its home, and which defects the  *)
(* server can then no longer have.                                         *)
(***************************************************************************)
EXTENDS FullTest

\* A path below the root, which for a client of the server is in its home.
Own(u, path) ==
    /\ path \in Seq(Names) /\ path # Root
    /\ local \/ path[1] = u

\* test_rmdir has made its directory in this run, if it makes one.
Late(u) ==
    \/ test[u] \in {"stopped", "test_fstat", "test_bandwidth", "test_disconnect"}
    \/ test[u] = "test_rmdir" /\ step[u] > 2

\* A process that has connected is somewhere in its home.
PlacedInv ==
    /\ \A u \in Users : IsDir(cwd[u])
    /\ \A u \in Users : cwd[u] # Root => Own(u, cwd[u]) /\ Last(cwd[u]) \notin TmpNames
    /\ \A u \in Users \ clients : cwd[u] = Root
    /\ \A u \in Users : ~local /\ test[u] \notin {"stopped", "test_connect"} => cwd[u] # Root

\* A directory of test_rmdir was left by this run or by an earlier one.
LeftInv ==
    \A u \in clients : \A path \in DOMAIN tree : \A i \in DOMAIN Tmpdirs :
        Own(u, path) /\ Last(path) = Tmpdirs[i] => i <= run[u] /\ (i < run[u] \/ Late(u))

ClientInv ==
    /\ TypeOK
    /\ step \in [Users -> Nat]
    /\ IsDir(Root)
    /\ local => \A u, w \in clients : u = w
    /\ \A u \in Users : test[u] # "stopped" => run[u] > 0
    /\ PlacedInv
    /\ NamesBounded
    /\ LeftInv

-----------------------------------------------------------------------------
\* What is a directory, where it is one.
DirNames == Users \cup {"test_dir"} \cup TmpNames

\* An entry is what its name says; only link2.test shares the inode of another one; and
\* nothing is put into a directory of test_rmdir.
Sound(path, inode) ==
    /\ inode.kind = IF Last(path) \in DirNames THEN "dir" ELSE "file"
    /\ inode.kind = "dir" => defect # "mkdir"
    /\ \/ inode.ino = path
       \/ /\ Last(path) = "link2.test" /\ defect # "link"
          /\ inode.ino = Append(Front(path), "link.test")
    /\ Front(path) = Root \/ Last(Front(path)) \notin TmpNames

TreeInv ==
    /\ IsFiniteSet(DOMAIN tree)
    /\ Root \in DOMAIN tree => tree[Root].ino = Root
    /\ \A p \in DOMAIN tree \ {Root} : Sound(p, tree[p])

\* The directory that the tests work in.
Dir(u) == Append(Home(u), "test_dir")
In(u, name) == Append(Dir(u), name)
At(u, t, s) == test[u] = t /\ step[u] = s
Early == {"test_connect", "contents", "test_create", "test_dir"}
AfterDir == {"test_umask", "test_link", "test_rmdir", "test_fstat", "test_bandwidth",
             "test_disconnect"}

\* Where a client is and with which mask, whatever has failed.
Placed(u) ==
    /\ \/ test[u] \in {"contents", "test_create"}
       \/ local /\ test[u] \in {"stopped", "test_connect"}
       \/ At(u, "test_dir", 1)
       => cwd[u] = Home(u)
    /\ test[u] = "test_dir" /\ step[u] > 1 => cwd[u] = Dir(u)
    /\ test[u] \in Early \cup {"stopped"} \/ (test[u] = "test_umask" /\ step[u] <= 3)
       => umask[u] = Default
    /\ test[u] = "test_umask" /\ step[u] > 3 => umask[u] = NoOthers /\ old_mask[u] = Default

\* Before test_umask a first run has only the files of test_create and test_dir there.
FirstRun(u) ==
    run[u] = 0 \/ (run[u] = 1 /\ test[u] \in Early)
    => \A p \in DOMAIN tree \ {Root} : Front(p) = Dir(u) => Last(p) \in {"test_file"} \cup Numbers

\* A client that has reported nothing: what each test has done, and which defects the
\* server can no longer have.
OnConnect(u) == test[u] = "test_connect" =>
    /\ step[u] = 2 => ~Exists(Home(u))
    /\ step[u] = 3 => defect = "mkdir" \/ IsDir(Home(u))

OnCreate(u) == test[u] = "test_create" =>
    /\ step[u] = 2 => defect = "mkdir" \/ IsDir(Dir(u))
    /\ step[u] = 3 => Exists(In(u, "test_file"))
    /\ step[u] = 4 => /\ Exists(In(u, "test_file"))
                      /\ tree[In(u, "test_file")].size = IF defect = "size" THEN 0 ELSE 6
    /\ step[u] > 2 => IsDir(Dir(u))

OnDir(u) == test[u] = "test_dir" =>
    /\ IsDir(Dir(u)) /\ Exists(In(u, "test_file"))
    /\ \A i \in 1..FILES : i + 1 < step[u] => Exists(In(u, ToString(i)))

OnUmask(u) == test[u] = "test_umask" =>
    LET file == In(u, "Umask_test_file")
    IN  /\ step[u] = 2 /\ defect # "unlink" => ~Exists(file)
        /\ step[u] \in {3, 4} /\ defect # "unlink"
               => HasPerms(file, IF defect = "umask" THEN Perms ELSE Perms \ Default)
        /\ step[u] = 5 => HasPerms(file, Perms \ Default)
        /\ step[u] = 6 => HasPerms(file, IF defect = "chmod" THEN Perms \ Default ELSE {"u"})
        /\ step[u] = 7 => Exists(file)
        /\ step[u] = 8 => (Exists(file) <=> defect = "unlink")
        /\ step[u] = 9 => ~Exists(file)
        /\ step[u] = 10 => HasPerms(file, Perms \ NoOthers)
        /\ step[u] > 4 => defect # "umask"
        /\ step[u] > 6 => defect # "chmod"
        /\ step[u] > 8 => defect # "unlink"

OnLink(u) == test[u] = "test_link" =>
    /\ step[u] \in {2, 3} => Exists(In(u, "link.test"))
    /\ step[u] = 3 /\ defect # "link"
           => /\ Exists(In(u, "link2.test"))
              /\ tree[In(u, "link2.test")].ino = In(u, "link.test")
    /\ step[u] = 4 => Exists(In(u, "link2.test")) /\ defect # "link"

OnRmdir(u) == test[u] = "test_rmdir" =>
    LET dir == In(u, Tmpdirs[tmp[u]])
    IN  /\ step[u] = 2 => ~Exists(dir)
        /\ step[u] = 3 => Exists(dir)
        /\ step[u] = 4 => (Exists(dir) <=> defect = "rmdir")

OnFstat(u) == test[u] = "test_fstat" =>
    /\ step[u] \in {2, 3} => Exists(In(u, "fstat.test"))
    /\ step[u] = 3 => seen[u] = tree[In(u, "fstat.test")]

OnBandwidth(u) == At(u, "test_bandwidth", 2) => Exists(In(u, "bandwidth.test"))

Found(u) ==
    /\ test[u] \in {"test_dir"} \cup AfterDir => defect # "size"
    /\ test[u] \in AfterDir => cwd[u] = Dir(u) /\ (defect = "entries" => run[u] > 1)
    /\ test[u] \in AfterDir \ {"test_umask"} => defect \notin {"umask", "chmod", "unlink"}
    /\ test[u] \in AfterDir \ {"test_umask", "test_link"} => defect # "link"
    /\ test[u] \in {"test_fstat", "test_bandwidth", "test_disconnect"} => defect # "rmdir"
    /\ test[u] \in {"test_bandwidth", "test_disconnect"} => (defect = "fstat" => local)

OnTrack(u) ==
    /\ OnConnect(u) /\ OnCreate(u) /\ OnDir(u) /\ OnUmask(u) /\ OnLink(u)
    /\ OnRmdir(u) /\ OnFstat(u) /\ OnBandwidth(u) /\ Found(u)

TrackInv ==
    /\ ClientInv
    /\ TreeInv
    /\ \A u \in clients : Placed(u) /\ FirstRun(u) /\ (~failed[u] => OnTrack(u))
    /\ \A u \in Users \ clients : test[u] = "stopped"
=============================================================================
