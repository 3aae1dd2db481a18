------------------------------ MODULE FindProofs ------------------------------
(***************************************************************************)
(* Proofs about the walk of find, for any tree, any paths it is called     *)
(* with and any failure of its calls: it prints what it was asked for, all *)
(* of it but for what it could not read, and in order.  And, with what is  *)
(* known of the descriptors, the types of the shell with its commands.     *)
(***************************************************************************)
EXTENDS ShellProofs, FiniteSetTheorems

\* A path, the last component of which may be an entry that names nothing.
EntryNames == Names \cup Dots
Paths == Seq(EntryNames)

-----------------------------------------------------------------------------
\* Lemmas about paths.

LEMMA PrefixOf ==
    ASSUME NEW s \in Paths, NEW t \in Paths
    PROVE  IsPrefix(s, t) <=> Len(s) <= Len(t) /\ \A i \in 1..Len(s) : s[i] = t[i]
<1> USE DEF Paths
<1>1. Len(s) \in Nat /\ Len(t) \in Nat
  BY LenProperties
<1>2. SubSeq(s, 1, Len(s)) = s
  BY SubSeqFull
<1>3. ASSUME Len(s) <= Len(t)
      PROVE  /\ SubSeq(t, 1, Len(s)) \in Seq(EntryNames)
             /\ Len(SubSeq(t, 1, Len(s))) = Len(s)
             /\ \A i \in 1..Len(s) : SubSeq(t, 1, Len(s))[i] = t[i]
  <2>1. \A i \in 1..Len(s) : t[i] \in EntryNames
    BY <1>1, <1>3, ElementOfSeq
  <2>2. /\ SubSeq(t, 1, Len(s)) \in Seq(EntryNames)
        /\ Len(SubSeq(t, 1, Len(s))) = IF 1 <= Len(s) THEN Len(s) - 1 + 1 ELSE 0
        /\ \A i \in 1..(Len(s) - 1 + 1) : SubSeq(t, 1, Len(s))[i] = t[1 + i - 1]
    BY <1>1, <2>1, SubSeqProperties
  <2> QED
    BY <1>1, <2>2
<1>4. CASE ~(Len(s) <= Len(t))
  BY <1>4 DEF IsPrefix
<1>5. CASE Len(s) <= Len(t)
  <2> DEFINE u == SubSeq(t, 1, Len(s))
  <2>1. IsPrefix(s, t) <=> s = u
    BY <1>2, <1>5 DEF IsPrefix
  <2>2. u \in Seq(EntryNames) /\ Len(u) = Len(s) /\ \A i \in 1..Len(s) : u[i] = t[i]
    BY <1>3, <1>5
  <2> HIDE DEF u
  <2>3. (\A i \in 1..Len(s) : s[i] = u[i]) => s = u
    BY <2>2, SeqEqual
  <2> QED
    BY <1>5, <2>1, <2>2, <2>3
<1> QED
  BY <1>4, <1>5

LEMMA EntryOf ==
    ASSUME NEW s \in Paths, NEW e \in EntryNames
    PROVE  /\ Append(s, e) \in Paths /\ Len(Append(s, e)) = Len(s) + 1
           /\ \A i \in 1..Len(s) : Append(s, e)[i] = s[i]
           /\ Append(s, e)[Len(s) + 1] = e
  BY AppendProperties DEF Paths

LEMMA PathLength ==
    ASSUME NEW s \in Paths
    PROVE  Len(s) \in Nat /\ DOMAIN s = 1..Len(s) /\ \A i \in 1..Len(s) : s[i] \in EntryNames
  BY LenProperties, ElementOfSeq DEF Paths

LEMMA PathEqual ==
    ASSUME NEW s \in Paths, NEW t \in Paths, Len(s) = Len(t), \A i \in 1..Len(s) : s[i] = t[i]
    PROVE  s = t
  BY SeqEqual DEF Paths

LEMMA PrefixOrder ==
    ASSUME NEW s \in Paths, NEW t \in Paths
    PROVE  /\ IsPrefix(s, s)
           /\ \A u \in Paths : IsPrefix(s, t) /\ IsPrefix(t, u) => IsPrefix(s, u)
           /\ IsPrefix(s, t) /\ Len(s) = Len(t) => s = t
           /\ IsPrefix(s, t) => Len(s) <= Len(t)
<1>1. IsPrefix(s, s)
  BY PrefixOf, PathLength
<1>2. ASSUME NEW u \in Paths, IsPrefix(s, t), IsPrefix(t, u)
      PROVE  IsPrefix(s, u)
  <2>1. Len(s) <= Len(t) /\ Len(t) <= Len(u) /\ Len(s) \in Nat /\ Len(t) \in Nat /\ Len(u) \in Nat
    BY <1>2, PrefixOf, PathLength
  <2>2. \A i \in 1..Len(s) : s[i] = t[i] /\ t[i] = u[i]
    BY <1>2, <2>1, PrefixOf
  <2> QED
    BY <2>1, <2>2, PrefixOf
<1> QED
  BY <1>1, <1>2, PrefixOf, PathEqual

\* What lies under an entry lies under its directory, and has the entry for its next
\* component; nothing is between the two.
LEMMA UnderEntry ==
    ASSUME NEW s \in Paths, NEW e \in EntryNames, NEW t \in Paths
    PROVE  /\ IsPrefix(Append(s, e), t) <=> IsPrefix(s, t) /\ Len(s) < Len(t) /\ t[Len(s) + 1] = e
           /\ IsPrefix(t, Append(s, e)) => IsPrefix(t, s) \/ t = Append(s, e)
<1> DEFINE a == Append(s, e)
<1>1. a \in Paths /\ Len(a) = Len(s) + 1 /\ (\A i \in 1..Len(s) : a[i] = s[i]) /\ a[Len(s) + 1] = e
  BY EntryOf
<1>2. Len(s) \in Nat /\ Len(t) \in Nat
  BY PathLength
<1> HIDE DEF a
<1>3. IsPrefix(a, t) <=> Len(a) <= Len(t) /\ \A i \in 1..Len(a) : a[i] = t[i]
  BY <1>1, PrefixOf
<1>4. IsPrefix(s, t) <=> Len(s) <= Len(t) /\ \A i \in 1..Len(s) : s[i] = t[i]
  BY PrefixOf
<1>5. IsPrefix(a, t) <=> IsPrefix(s, t) /\ Len(s) < Len(t) /\ t[Len(s) + 1] = e
  <2>1. \A i \in 1..Len(a) : i \in 1..Len(s) \/ i = Len(s) + 1
    BY <1>1, <1>2
  <2>2. Len(s) + 1 \in 1..Len(a) /\ \A i \in 1..Len(s) : i \in 1..Len(a)
    BY <1>1, <1>2
  <2>3. Len(a) <= Len(t) <=> Len(s) < Len(t)
    BY <1>1, <1>2
  <2>4. (\A i \in 1..Len(a) : a[i] = t[i]) <=> (\A i \in 1..Len(s) : s[i] = t[i]) /\ t[Len(s) + 1] = e
    BY <1>1, <2>1, <2>2, Zenon
  <2>5. IsPrefix(a, t) <=> Len(a) <= Len(t) /\ (\A i \in 1..Len(s) : s[i] = t[i]) /\ t[Len(s) + 1] = e
    BY <1>3, <2>4, Zenon
  <2>6. Len(s) < Len(t) => Len(s) <= Len(t)
    BY <1>2
  <2> QED
    BY <1>4, <2>3, <2>5, <2>6, Zenon
<1>6. ASSUME IsPrefix(t, a) PROVE IsPrefix(t, s) \/ t = a
  <2>1. Len(t) <= Len(s) + 1 /\ \A i \in 1..Len(t) : t[i] = a[i]
    BY <1>1, <1>6, PrefixOf
  <2>2. CASE Len(t) <= Len(s)
    <3>1. \A i \in 1..Len(t) : t[i] = s[i]
      BY <1>1, <1>2, <2>1, <2>2
    <3> QED
      BY <2>2, <3>1, PrefixOf
  <2>3. CASE Len(t) = Len(s) + 1
    BY <1>1, <2>1, <2>3, PathEqual
  <2> QED
    BY <1>2, <2>1, <2>2, <2>3
<1> QED
  BY <1>5, <1>6 DEF a

-----------------------------------------------------------------------------
\* What a directory holds.

LEMMA ListOfSet ==
    ASSUME NEW S, IsFiniteSet(S), NEW X, S \subseteq X
    PROVE  /\ SetToSeq(S) \in Seq(X)
           /\ \A i, j \in DOMAIN SetToSeq(S) : SetToSeq(S)[i] = SetToSeq(S)[j] => i = j
           /\ {SetToSeq(S)[i] : i \in DOMAIN SetToSeq(S)} = S
<1> DEFINE n == Cardinality(S)
           f == SetToSeq(S)
<1>1. n \in Nat /\ ExistsBijection(1..n, S)
  BY FS_CardinalityType
<1>2. \E g \in [1..n -> S] : IsInjective(g)
  BY <1>1 DEF ExistsBijection, Bijection, Injection
<1>3. f \in [1..n -> S] /\ IsInjective(f)
  BY <1>2 DEF SetToSeq
<1> HIDE DEF f
<1>4. f \in Injection(1..n, S)
  BY <1>3 DEF Injection
<1>5. IsFiniteSet(1..n) /\ Cardinality(1..n) = n
  BY <1>1, FS_Interval
<1> HIDE DEF n
<1>6. f \in Surjection(1..n, S)
  BY <1>4, <1>5, FS_Injection DEF n
<1>7. {f[i] : i \in 1..n} = S
  BY <1>3, <1>6 DEF Surjection
<1>8. f \in [1..n -> X]
  BY <1>3
<1>9. f \in Seq(X)
  BY <1>1, <1>8, SeqDef
<1> QED
  BY <1>3, <1>7, <1>9 DEF IsInjective, f

LEMMA FrontOf ==
    ASSUME NEW p \in Paths, p # <<>>
    PROVE  /\ Len(p) \in Nat \ {0} /\ Front(p) \in Paths /\ Last(p) \in EntryNames
           /\ Append(Front(p), Last(p)) = p
<1>1. Len(p) \in Nat \ {0}
  BY EmptySeq DEF Paths
<1>2. /\ Front(p) \in Paths /\ Len(Front(p)) = Len(p) - 1
      /\ \A i \in 1..(Len(p) - 1) : Front(p)[i] = p[i]
  <2>1. \A i \in 1..(Len(p) - 1) : p[i] \in EntryNames
    BY <1>1, PathLength
  <2>2. /\ SubSeq(p, 1, Len(p) - 1) \in Seq(EntryNames)
        /\ Len(SubSeq(p, 1, Len(p) - 1)) = IF 1 <= Len(p) - 1 THEN Len(p) - 1 - 1 + 1 ELSE 0
        /\ \A i \in 1..(Len(p) - 1 - 1 + 1) : SubSeq(p, 1, Len(p) - 1)[i] = p[1 + i - 1]
    BY <1>1, <2>1, SubSeqProperties
  <2>3. Len(Front(p)) = Len(p) - 1
    <3> DEFINE q == SubSeq(p, 1, Len(p) - 1)
    <3>1. Len(q) = IF 1 <= Len(p) - 1 THEN Len(p) - 1 - 1 + 1 ELSE 0
      BY <2>2
    <3> HIDE DEF q
    <3>2. \A n \in Nat \ {0} : (IF 1 <= n - 1 THEN n - 1 - 1 + 1 ELSE 0) = n - 1
      OBVIOUS
    <3>3. Len(q) = Len(p) - 1
      BY <1>1, <3>1, <3>2, Zenon
    <3> QED
      BY <3>3 DEF Front, q
  <2>4. \A i \in 1..(Len(p) - 1) : i \in 1..(Len(p) - 1 - 1 + 1) /\ p[1 + i - 1] = p[i]
    BY <1>1
  <2>5. \A i \in 1..(Len(p) - 1) : Front(p)[i] = p[i]
    BY <2>2, <2>4 DEF Front
  <2> QED
    BY <2>2, <2>3, <2>5 DEF Front, Paths
<1>3. Last(p) \in EntryNames /\ Last(p) = p[Len(p)]
  BY <1>1, PathLength DEF Last
<1> DEFINE q == Append(Front(p), Last(p))
<1>4. /\ q \in Paths /\ Len(q) = Len(p)
      /\ \A i \in 1..(Len(p) - 1) : q[i] = Front(p)[i]
      /\ q[Len(p)] = Last(p)
  BY <1>1, <1>2, <1>3, EntryOf
<1> HIDE DEF q
<1>5. q = p
  BY <1>1, <1>2, <1>3, <1>4, PathEqual
<1> QED
  BY <1>1, <1>2, <1>3, <1>5 DEF q

LEMMA FrontOfEntry ==
    ASSUME NEW s \in Paths, NEW e \in EntryNames
    PROVE  Append(s, e) # <<>> /\ Front(Append(s, e)) = s /\ Last(Append(s, e)) = e
<1> DEFINE a == Append(s, e)
<1>1. a \in Paths /\ Len(a) = Len(s) + 1 /\ (\A i \in 1..Len(s) : a[i] = s[i]) /\ a[Len(s) + 1] = e
  BY EntryOf
<1>2. Len(s) \in Nat /\ a # <<>>
  BY PathLength, AppendProperties DEF Paths
<1> HIDE DEF a
<1>3. Last(a) = e
  BY <1>1 DEF Last
<1>4. /\ SubSeq(a, 1, Len(s)) \in Seq(EntryNames)
      /\ Len(SubSeq(a, 1, Len(s))) = IF 1 <= Len(s) THEN Len(s) - 1 + 1 ELSE 0
      /\ \A i \in 1..(Len(s) - 1 + 1) : SubSeq(a, 1, Len(s))[i] = a[1 + i - 1]
  <2>1. \A i \in 1..Len(s) : a[i] \in EntryNames
    BY <1>1, <1>2, PathLength
  <2> QED
    BY <1>2, <2>1, SubSeqProperties
<1>5. Front(a) = SubSeq(a, 1, Len(s))
  BY <1>1, <1>2 DEF Front
<1>6. Front(a) = s
  BY <1>1, <1>2, <1>4, <1>5, PathEqual DEF Paths
<1> QED
  BY <1>2, <1>3, <1>6 DEF a

LEMMA TreeOf ==
    ASSUME IsTree(tree)
    PROVE  /\ IsFiniteSet(DOMAIN tree)
           /\ DOMAIN tree \subseteq Paths
           /\ \A p \in DOMAIN tree : \A i \in 1..Len(p) : p[i] \notin Dots
           /\ \A p \in DOMAIN tree, q \in Paths :
                 IsPrefix(q, p) /\ Len(q) < Len(p) => q \in DOMAIN tree /\ tree[q] = "dir"
<1>1. IsFiniteSet(DOMAIN tree) /\ DOMAIN tree \subseteq Paths
  <2>1. \A p \in Seq(Names) : p \in Seq(EntryNames)
    <3>1. Names \subseteq EntryNames
      BY DEF EntryNames
    <3> QED
      BY <3>1, SeqMonotonic
  <2> QED
    BY <2>1 DEF IsTree, Paths
<1>2. ASSUME NEW p \in DOMAIN tree, NEW i \in 1..Len(p)
      PROVE  p[i] \notin Dots
  <2>1. p \in Seq(Names)
    BY DEF IsTree
  <2>2. p[i] \in Names
    BY <2>1, ElementOfSeq
  <2> QED
    BY <2>2, FilesAssumption
<1>3. ASSUME NEW p \in DOMAIN tree, NEW q \in Paths, IsPrefix(q, p), Len(q) < Len(p)
      PROVE  q \in DOMAIN tree /\ tree[q] = "dir"
  <2>1. Len(p) \in Nat /\ Len(q) \in Nat
    BY <1>1, PathLength
  <2>2. q = SubSeq(p, 1, Len(q))
    BY <1>3, SubSeqFull DEF IsPrefix, Paths
  <2>3. Len(q) \in 0..(Len(p) - 1)
    BY <1>3, <2>1
  <2>4. /\ SubSeq(p, 1, Len(q)) \in DOMAIN tree
        /\ tree[SubSeq(p, 1, Len(q))] = "dir"
    BY <2>3 DEF IsTree
  <2> QED
    BY <2>2, <2>4
<1> QED
  BY <1>1, <1>2, <1>3

\* find_dir reads every name of a directory once.
LEMMA EntriesOf ==
    ASSUME IsTree(tree), NEW d \in Paths
    PROVE  /\ Entries(d) \in Seq(EntryNames)
           /\ \A i, j \in DOMAIN Entries(d) : Entries(d)[i] = Entries(d)[j] => i = j
           /\ \A e \in EntryNames : Append(d, e) \in DOMAIN tree =>
                 \E i \in DOMAIN Entries(d) : Entries(d)[i] = e
<1> DEFINE Q == {q \in DOMAIN tree \ {<<>>} : Front(q) = d}
           S == {Last(p) : p \in Q}
<1>1. IsFiniteSet(S)
  <2>1. IsFiniteSet(Q)
    <3>1. Q \in SUBSET DOMAIN tree
      OBVIOUS
    <3> QED
      BY <3>1, TreeOf, FS_Subset
  <2> DEFINE g == [p \in Q |-> Last(p)]
  <2>2. g \in Surjection(Q, S)
    BY DEF Surjection
  <2> HIDE DEF g, Q, S
  <2> QED
    BY <2>1, <2>2, FS_Surjection
<1>2. S \subseteq EntryNames \ Dots
  <2> SUFFICES ASSUME NEW p \in Q PROVE Last(p) \in EntryNames \ Dots
    OBVIOUS
  <2>1. p \in DOMAIN tree /\ p \in Paths /\ p # <<>>
    BY TreeOf
  <2>2. Len(p) \in 1..Len(p) /\ Last(p) = p[Len(p)] /\ Last(p) \in EntryNames
    BY <2>1, FrontOf DEF Last
  <2> QED
    BY <2>1, <2>2, TreeOf
<1> DEFINE f == SetToSeq(S)
<1>3. /\ f \in Seq(EntryNames)
      /\ \A i, j \in DOMAIN f : f[i] = f[j] => i = j
      /\ {f[i] : i \in DOMAIN f} = S
  <2> HIDE DEF S
  <2>1. S \subseteq EntryNames
    BY <1>2
  <2> QED
    BY <1>1, <2>1, ListOfSet
<1> DEFINE dots == <<".", "..", "unused">>
<1>4. Entries(d) = dots \o f
  BY DEF Entries
<1>5. /\ dots \in Seq(EntryNames) /\ Len(dots) = 3
      /\ \A i \in 1..3 : dots[i] \in Dots
      /\ \A i, j \in 1..3 : dots[i] = dots[j] => i = j
  <2>1. "." \in EntryNames /\ ".." \in EntryNames /\ "unused" \in EntryNames
    BY DEF EntryNames, Dots
  <2>2. dots \in Seq(EntryNames) /\ Len(dots) = 3
    BY <2>1
  <2>3. dots[1] = "." /\ dots[2] = ".." /\ dots[3] = "unused"
    OBVIOUS
  <2>4. "." # ".." /\ "." # "unused" /\ ".." # "unused"
    OBVIOUS
  <2> HIDE DEF dots
  <2>5. \A i \in 1..3 : i = 1 \/ i = 2 \/ i = 3
    OBVIOUS
  <2>6. \A i, j \in 1..3 : dots[i] = dots[j] => i = j
    BY <2>3, <2>5, <2>4, Zenon
  <2>7. \A i \in 1..3 : dots[i] \in Dots
    BY <2>3, <2>5 DEF Dots
  <2> QED
    BY <2>2, <2>6, <2>7
<1> HIDE DEF dots, f
<1>6. /\ dots \o f \in Seq(EntryNames)
      /\ Len(dots \o f) = 3 + Len(f)
      /\ \A i \in 1..(3 + Len(f)) : (dots \o f)[i] = IF i <= 3 THEN dots[i] ELSE f[i - 3]
  <2>1. f \in Seq(EntryNames) /\ dots \in Seq(EntryNames) /\ Len(dots) = 3
    BY <1>3, <1>5
  <2>2. /\ dots \o f \in Seq(EntryNames)
        /\ Len(dots \o f) = Len(dots) + Len(f)
        /\ \A i \in 1..(Len(dots) + Len(f)) :
              (dots \o f)[i] = IF i <= Len(dots) THEN dots[i] ELSE f[i - Len(dots)]
    BY <2>1, ConcatProperties
  <2> QED
    BY <2>1, <2>2
<1>7. Len(f) \in Nat /\ DOMAIN f = 1..Len(f) /\ DOMAIN (dots \o f) = 1..(3 + Len(f))
  BY <1>3, <1>6, LenProperties
<1> DEFINE h == dots \o f
<1> HIDE DEF h
<1>8. \A i \in DOMAIN h : \/ i \in 1..3 /\ h[i] = dots[i]
                          \/ i - 3 \in DOMAIN f /\ h[i] = f[i - 3]
  BY <1>6, <1>7 DEF h
<1>9. \A k \in DOMAIN f : f[k] \notin Dots
  BY <1>2, <1>3
<1>10. ASSUME NEW i \in DOMAIN h, NEW j \in DOMAIN h, h[i] = h[j]
       PROVE  i = j
  <2>1. i \in Nat /\ j \in Nat
    BY <1>7 DEF h
  <2>2. CASE i \in 1..3 /\ h[i] = dots[i] /\ j \in 1..3 /\ h[j] = dots[j]
    BY <1>5, <1>10, <2>2
  <2>3. CASE i - 3 \in DOMAIN f /\ h[i] = f[i - 3] /\ j - 3 \in DOMAIN f /\ h[j] = f[j - 3]
    <3>1. i - 3 = j - 3
      BY <1>3, <1>10, <2>3
    <3> QED
      BY <2>1, <3>1
  <2> QED
    BY <1>5, <1>8, <1>9, <1>10, <2>2, <2>3
<1>11. ASSUME NEW e \in EntryNames, Append(d, e) \in DOMAIN tree
       PROVE  \E i \in DOMAIN h : h[i] = e
  <2>1. Append(d, e) \in Q /\ Last(Append(d, e)) = e
    BY <1>11, FrontOfEntry
  <2>2. PICK k \in DOMAIN f : f[k] = e
    BY <1>3, <2>1
  <2>3. k + 3 \in DOMAIN h /\ h[k + 3] = f[k]
    BY <1>6, <1>7, <2>2 DEF h
  <2> QED
    BY <2>2, <2>3
<1> QED
  BY <1>4, <1>6, <1>10, <1>11 DEF h

-----------------------------------------------------------------------------
\* The stack of find_dir, and what is left to walk.

WalkFrame == [fd : Fds, path : Paths, node : Paths, left : Seq(EntryNames)]

GoodFrame(r) ==
    /\ r.path = r.node /\ IsDir(r.node)
    /\ \A i, j \in DOMAIN r.left : r.left[i] = r.left[j] => i = j

StackInv(f) ==
    /\ f \in Seq(WalkFrame)
    /\ \A i \in DOMAIN f : GoodFrame(f[i])
    /\ \A i, j \in DOMAIN f : i < j => Len(f[i].path) < Len(f[j].path)

Items(r) == {Append(r.path, r.left[i]) : i \in DOMAIN r.left}

ItemsOf(f) == UNION {Items(f[i]) : i \in DOMAIN f}

LEMMA ItemsArePaths ==
    ASSUME NEW r \in WalkFrame
    PROVE  \A p \in Items(r) : p \in Paths /\ Len(p) = Len(r.path) + 1 /\ IsPrefix(r.path, p)
<1> SUFFICES ASSUME NEW i \in DOMAIN r.left
             PROVE  LET p == Append(r.path, r.left[i])
                    IN  p \in Paths /\ Len(p) = Len(r.path) + 1 /\ IsPrefix(r.path, p)
  BY DEF Items
<1>1. r.path \in Paths /\ r.left \in Seq(EntryNames)
  BY DEF WalkFrame
<1>2. r.left[i] \in EntryNames
  BY <1>1, LenProperties, ElementOfSeq
<1> DEFINE e == r.left[i]
           p == Append(r.path, e)
<1>3. p \in Paths /\ Len(p) = Len(r.path) + 1
  BY <1>1, <1>2, EntryOf
<1>4. IsPrefix(r.path, p)
  <2> HIDE DEF e
  <2>1. IsPrefix(p, p)
    BY <1>3, PrefixOrder
  <2> QED
    BY <1>1, <1>2, <1>3, <2>1, UnderEntry DEF e
<1> QED
  BY <1>3, <1>4

LEMMA PushItems ==
    ASSUME NEW f, StackInv(f), NEW r \in WalkFrame, GoodFrame(r),
           \A i \in DOMAIN f : Len(f[i].path) < Len(r.path)
    PROVE  StackInv(Append(f, r)) /\ ItemsOf(Append(f, r)) = ItemsOf(f) \cup Items(r)
<1> DEFINE g == Append(f, r)
<1>1. f \in Seq(WalkFrame)
  BY DEF StackInv
<1>2. /\ g \in Seq(WalkFrame) /\ Len(g) = Len(f) + 1
      /\ \A i \in 1..Len(f) : g[i] = f[i]
      /\ g[Len(f) + 1] = r
  BY <1>1, AppendProperties
<1> HIDE DEF g
<1>3. Len(f) \in Nat /\ DOMAIN f = 1..Len(f) /\ DOMAIN g = 1..(Len(f) + 1)
  BY <1>1, <1>2, LenProperties
<1>4. \A i \in DOMAIN g : (i \in DOMAIN f /\ g[i] = f[i]) \/ (i = Len(f) + 1 /\ g[i] = r)
  BY <1>2, <1>3
<1>5. \A i \in DOMAIN f : i \in DOMAIN g /\ g[i] = f[i] /\ i < Len(f) + 1
  BY <1>2, <1>3
<1>6. Len(f) + 1 \in DOMAIN g /\ g[Len(f) + 1] = r
  BY <1>2, <1>3
<1>7. \A i \in DOMAIN g : GoodFrame(g[i])
  BY <1>4 DEF StackInv
<1>8. ASSUME NEW i \in DOMAIN g, NEW j \in DOMAIN g, i < j
      PROVE  Len(g[i].path) < Len(g[j].path)
  <2>1. i \in DOMAIN f /\ g[i] = f[i]
    BY <1>3, <1>4, <1>8
  <2> QED
    BY <1>4, <1>8, <2>1 DEF StackInv
<1>9. ItemsOf(g) = ItemsOf(f) \cup Items(r)
  BY <1>4, <1>5, <1>6 DEF ItemsOf
<1> QED
  BY <1>2, <1>7, <1>8, <1>9 DEF StackInv, g

LEMMA PopItems ==
    ASSUME NEW f, StackInv(f), f # <<>>
    PROVE  /\ StackInv(Front(f))
           /\ Last(f) \in WalkFrame /\ GoodFrame(Last(f))
           /\ \A i \in DOMAIN Front(f) : Len(Front(f)[i].path) < Len(Last(f).path)
           /\ ItemsOf(f) = ItemsOf(Front(f)) \cup Items(Last(f))
<1>1. f \in Seq(WalkFrame)
  BY DEF StackInv
<1>2. Len(f) \in Nat \ {0} /\ DOMAIN f = 1..Len(f)
  BY <1>1, EmptySeq, LenProperties
<1>3. /\ Front(f) \in Seq(WalkFrame)
      /\ DOMAIN Front(f) = 1..(Len(f) - 1)
      /\ \A i \in 1..(Len(f) - 1) : Front(f)[i] = f[i]
  <2>1. Front(f) = [i \in 1..(Len(f) - 1) |-> f[i]]
    BY <1>1, <1>2 DEF Front
  <2>2. \A i \in 1..(Len(f) - 1) : f[i] \in WalkFrame
    BY <1>1, <1>2, ElementOfSeq
  <2>3. Front(f) \in [1..(Len(f) - 1) -> WalkFrame] /\ Len(f) - 1 \in Nat
    BY <2>1, <2>2, <1>2
  <2>4. Front(f) \in Seq(WalkFrame)
    BY <2>3, SeqDef
  <2> QED
    BY <2>1, <2>4
<1>4. Last(f) = f[Len(f)] /\ Len(f) \in DOMAIN f /\ Last(f) \in WalkFrame
  BY <1>1, <1>2, ElementOfSeq DEF Last
<1>5. \A i \in DOMAIN Front(f) : i \in DOMAIN f /\ Front(f)[i] = f[i] /\ i < Len(f)
  BY <1>2, <1>3
<1>6. \A i \in DOMAIN f : (i \in DOMAIN Front(f) /\ Front(f)[i] = f[i]) \/ i = Len(f)
  BY <1>2, <1>3
<1>7. StackInv(Front(f))
  BY <1>3, <1>5 DEF StackInv
<1>8. GoodFrame(Last(f)) /\ \A i \in DOMAIN Front(f) : Len(Front(f)[i].path) < Len(Last(f).path)
  BY <1>4, <1>5 DEF StackInv
<1>9. ItemsOf(f) = ItemsOf(Front(f)) \cup Items(Last(f))
  BY <1>4, <1>5, <1>6 DEF ItemsOf
<1> QED
  BY <1>4, <1>7, <1>8, <1>9

\* An entry that is taken off is left nowhere else.
LEMMA TakeItem ==
    ASSUME NEW f, StackInv(f), f # <<>>, Last(f).left # <<>>,
           NEW q, q = Append(Last(f).path, Head(Last(f).left)),
           NEW g, g = Append(Front(f), [Last(f) EXCEPT !.left = Tail(@)])
    PROVE  /\ StackInv(g) /\ q \in Paths
           /\ ItemsOf(f) = ItemsOf(g) \cup {q} /\ q \notin ItemsOf(g)
           /\ \A i \in DOMAIN g : Len(g[i].path) < Len(q)
<1> DEFINE r == Last(f)
           s == [r EXCEPT !.left = Tail(r.left)]
           h == Front(f)
<1>1. /\ StackInv(h)
      /\ r \in WalkFrame /\ GoodFrame(r)
      /\ \A i \in DOMAIN h : Len(h[i].path) < Len(r.path)
      /\ ItemsOf(f) = ItemsOf(h) \cup Items(r)
  BY PopItems
<1>2. r.left \in Seq(EntryNames) /\ r.left # <<>> /\ r.path \in Paths
  BY <1>1 DEF WalkFrame
<1>3. /\ Head(r.left) \in EntryNames /\ Tail(r.left) \in Seq(EntryNames)
      /\ Len(Tail(r.left)) = Len(r.left) - 1
      /\ \A i \in 1..Len(Tail(r.left)) : Tail(r.left)[i] = r.left[i + 1]
  BY <1>2, HeadTailProperties
<1>4. Len(r.left) \in Nat \ {0} /\ DOMAIN r.left = 1..Len(r.left) /\ Head(r.left) = r.left[1]
  BY <1>2, EmptySeq, LenProperties
<1>5. DOMAIN Tail(r.left) = 1..(Len(r.left) - 1)
  BY <1>3, LenProperties
<1>6. s \in WalkFrame /\ s.path = r.path /\ s.node = r.node /\ s.left = Tail(r.left)
  BY <1>1, <1>3 DEF WalkFrame
<1>7. q = Append(r.path, Head(r.left)) /\ g = Append(h, s)
  OBVIOUS
<1> HIDE DEF r, s, h
<1>8. GoodFrame(s)
  <2> DEFINE a == r.left
             b == s.left
  <2>1. \A i \in DOMAIN b : i + 1 \in DOMAIN a /\ b[i] = a[i + 1] /\ i \in Nat
    BY <1>3, <1>4, <1>5, <1>6
  <2>2. \A i, j \in DOMAIN a : a[i] = a[j] => i = j
    BY <1>1 DEF GoodFrame
  <2> HIDE DEF a, b
  <2>3. ASSUME NEW i \in DOMAIN b, NEW j \in DOMAIN b, b[i] = b[j]
        PROVE  i = j
    <3>1. i + 1 = j + 1 /\ i \in Nat /\ j \in Nat
      BY <2>1, <2>2, <2>3
    <3> QED
      BY <3>1
  <2>4. r.path = r.node /\ IsDir(r.node)
    BY <1>1 DEF GoodFrame
  <2> QED
    BY <1>6, <2>3, <2>4 DEF GoodFrame, b
<1>9. q \in Paths /\ Len(q) = Len(r.path) + 1 /\ Len(r.path) \in Nat
  <2>1. /\ Append(r.path, Head(r.left)) \in Paths
        /\ Len(Append(r.path, Head(r.left))) = Len(r.path) + 1
    BY <1>2, <1>3, EntryOf
  <2>2. Len(r.path) \in Nat
    BY <1>2, PathLength
  <2> QED
    BY <1>7, <2>1, <2>2, Zenon
<1>10. StackInv(g) /\ ItemsOf(g) = ItemsOf(h) \cup Items(s)
  BY <1>1, <1>6, <1>7, <1>8, PushItems
<1>11. \A i \in DOMAIN r.left : r.left[i] \in EntryNames
  BY <1>2, <1>4, ElementOfSeq
<1>12. Items(r) = Items(s) \cup {q}
  <2>1. \A i \in DOMAIN r.left : i = 1 \/ (i - 1 \in DOMAIN s.left /\ s.left[i - 1] = r.left[i])
    BY <1>3, <1>4, <1>5, <1>6
  <2>2. \A i \in DOMAIN s.left : i + 1 \in DOMAIN r.left /\ s.left[i] = r.left[i + 1]
    BY <1>3, <1>4, <1>5, <1>6
  <2>3. 1 \in DOMAIN r.left /\ q = Append(r.path, r.left[1])
    BY <1>4, <1>7
  <2>4. Items(r) \subseteq Items(s) \cup {q}
    <3> SUFFICES ASSUME NEW i \in DOMAIN r.left
                 PROVE  Append(r.path, r.left[i]) \in Items(s) \cup {q}
      BY DEF Items
    <3>1. CASE i = 1
      BY <2>3, <3>1
    <3>2. CASE i - 1 \in DOMAIN s.left /\ s.left[i - 1] = r.left[i]
      BY <1>6, <3>2, Zenon DEF Items
    <3> QED
      BY <2>1, <3>1, <3>2
  <2>5. Items(s) \subseteq Items(r)
    <3> SUFFICES ASSUME NEW i \in DOMAIN s.left
                 PROVE  Append(r.path, s.left[i]) \in Items(r)
      BY <1>6 DEF Items
    <3> QED
      BY <2>2, Zenon DEF Items
  <2>6. q \in Items(r)
    BY <2>3, Zenon DEF Items
  <2> QED
    BY <2>4, <2>5, <2>6
<1>13. q \notin Items(s)
  <2> SUFFICES ASSUME NEW i \in DOMAIN s.left, q = Append(r.path, s.left[i])
               PROVE  FALSE
    BY <1>6 DEF Items
  <2>1. i + 1 \in DOMAIN r.left /\ s.left[i] = r.left[i + 1] /\ 1 \in DOMAIN r.left /\ i + 1 # 1
    BY <1>3, <1>4, <1>5, <1>6
  <2>2. r.left[i + 1] = r.left[1]
    <3>1. r.left[i + 1] \in EntryNames /\ r.left[1] \in EntryNames
      BY <1>11, <2>1
    <3>2. Last(Append(r.path, r.left[i + 1])) = r.left[i + 1]
      BY <1>2, <3>1, FrontOfEntry
    <3>3. Last(Append(r.path, r.left[1])) = r.left[1]
      BY <1>2, <3>1, FrontOfEntry
    <3> QED
      BY <1>4, <1>7, <2>1, <3>2, <3>3
  <2> QED
    BY <1>1, <2>1, <2>2 DEF GoodFrame
<1>14. \A i \in DOMAIN h : Len(h[i].path) \in Nat /\ h[i] \in WalkFrame
  <2> SUFFICES ASSUME NEW i \in DOMAIN h PROVE Len(h[i].path) \in Nat /\ h[i] \in WalkFrame
    OBVIOUS
  <2>1. h[i] \in WalkFrame
    BY <1>1, LenProperties, ElementOfSeq DEF StackInv
  <2>2. h[i].path \in Paths
    BY <2>1 DEF WalkFrame
  <2> QED
    BY <2>1, <2>2, PathLength
<1>15. q \notin ItemsOf(h)
  <2> SUFFICES ASSUME NEW i \in DOMAIN h, q \in Items(h[i])
               PROVE  FALSE
    BY DEF ItemsOf
  <2>1. Len(q) = Len(h[i].path) + 1
    BY <1>14, ItemsArePaths
  <2> QED
    BY <1>1, <1>9, <1>14, <2>1
<1>16. \A i \in DOMAIN g : Len(g[i].path) < Len(q)
  <2>1. h \in Seq(WalkFrame)
    BY <1>1 DEF StackInv
  <2>2. \A i \in DOMAIN g : (i \in DOMAIN h /\ g[i] = h[i]) \/ g[i] = s
    <3> DEFINE k == Append(h, s)
    <3>1. /\ k \in Seq(WalkFrame) /\ Len(k) = Len(h) + 1
          /\ \A i \in 1..Len(h) : k[i] = h[i]
          /\ k[Len(h) + 1] = s
      BY <1>6, <2>1, AppendProperties
    <3> HIDE DEF k
    <3>2. Len(h) \in Nat /\ DOMAIN h = 1..Len(h) /\ DOMAIN k = 1..(Len(h) + 1)
      BY <2>1, <3>1, LenProperties
    <3>3. \A i \in DOMAIN k : (i \in DOMAIN h /\ k[i] = h[i]) \/ k[i] = s
      BY <3>1, <3>2
    <3> QED
      BY <1>7, <3>3, Zenon DEF k
  <2>3. \A i \in DOMAIN h : Len(h[i].path) < Len(q)
    BY <1>1, <1>9, <1>14
  <2>4. Len(s.path) < Len(q)
    BY <1>6, <1>9
  <2> QED
    BY <2>2, <2>3, <2>4
<1> QED
  BY <1>1, <1>9, <1>10, <1>12, <1>13, <1>15, <1>16

-----------------------------------------------------------------------------
\* The invariant of a walk.

Todo == Range(queue) \cup ItemsOf(frames)

\* What was asked for has been printed, or is under what was reported or is left.
Covers(T, pr, rep) ==
    \A path \in DOMAIN tree : Wanted(path) =>
        \/ \E i \in DOMAIN pr : pr[i] = path
        \/ \E above \in rep \cup T : IsPrefix(above, path)

FromArgs(T) == \A p \in T : \E i \in DOMAIN args : IsPrefix(args[i], p)

ArgsApart == \A i \in DOMAIN args : \A j \in DOMAIN args : i # j => ~IsPrefix(args[i], args[j])

\* Nothing that is left lies under another, nor above what has been printed.
InOrder(T, pr) ==
    /\ \A p, q \in T : p # q => ~IsPrefix(p, q)
    /\ \A p \in T : \A i \in DOMAIN pr : ~IsPrefix(p, pr[i])
    /\ \A i \in DOMAIN pr : \A j \in DOMAIN pr : i < j => ~IsPrefix(pr[j], pr[i])

LeftOnce(que, f) ==
    /\ \A i, j \in DOMAIN que : que[i] = que[j] => i = j
    /\ Range(que) \cap ItemsOf(f) = {}

WalkTypes ==
    /\ args \in Seq(Seq(Names)) /\ queue \in Seq(Seq(Names)) /\ printed \in Seq(Seq(Names))
    /\ reported \subseteq Seq(Names) /\ cut \subseteq Seq(Names)
    /\ type_mask \subseteq {"file", "dir"} /\ print \in BOOLEAN

WalkInv ==
    /\ WalkTypes
    /\ StackInv(frames)
    /\ FromArgs(Todo)
    /\ \A i \in DOMAIN printed : Wanted(printed[i])
    /\ Covers(Todo, printed, reported \cup cut)
    /\ ArgsApart => InOrder(Todo, printed) /\ LeftOnce(queue, frames)

FindInv ==
    /\ IsTree(tree)
    /\ IF command = "find" THEN WalkInv ELSE printed = <<>>

LEMMA NamedPaths ==
    /\ Seq(Names) \subseteq Paths
    /\ Names \subseteq EntryNames /\ \A e \in EntryNames : ~Skip(e) => e \in Names
    /\ \A e \in EntryNames : Skip(e) => e \in Dots
<1>1. Names \subseteq EntryNames
  BY DEF EntryNames
<1>2. Seq(Names) \subseteq Paths
  BY <1>1, SeqMonotonic DEF Paths
<1> QED
  BY <1>1, <1>2 DEF EntryNames, Dots, Skip

LEMMA TodoPaths ==
    ASSUME NEW f, StackInv(f)
    PROVE  ItemsOf(f) \subseteq Paths
<1>1. \A i \in DOMAIN f : f[i] \in WalkFrame
  BY LenProperties, ElementOfSeq DEF StackInv
<1> QED
  BY <1>1, ItemsArePaths DEF ItemsOf

-----------------------------------------------------------------------------
\* What a visit does to it.

Children(q) == {Append(q, Entries(q)[i]) : i \in DOMAIN Entries(q)}

Prints(q) == Exists(q) /\ print /\ tree[q] \in type_mask

Visited(q, N) ==
    /\ \/ N = {} /\ reported' = reported \cup {q}
       \/ /\ Exists(q) /\ reported' = reported
          /\ N = IF IsDir(q) THEN Children(q) ELSE {}
    /\ \/ printed' = printed /\ (Prints(q) => q \in reported')
       \/ printed' = Append(printed, q) /\ Prints(q)

LEMMA VisitDoes ==
    ASSUME IsTree(tree), NEW q \in Seq(Names), NEW below, StackInv(below),
           \A i \in DOMAIN below : Len(below[i].path) < Len(q),
           Visit(q, q, below)
    PROVE  /\ StackInv(frames')
           /\ \E N : ItemsOf(frames') = ItemsOf(below) \cup N /\ Visited(q, N)
<1>1. CASE Report(q) /\ frames' = below /\ printed' = printed
  <2>1. ItemsOf(frames') = ItemsOf(below) \cup {} /\ Visited(q, {})
    BY <1>1 DEF Report, Visited
  <2> QED
    BY <1>1, <2>1
<1>2. ASSUME Live /\ Exists(q),
             printed' = IF print /\ tree[q] \in type_mask THEN Append(printed, q) ELSE printed,
             \/ ~Descends(q) /\ frames' = below /\ reported' = reported
             \/ Report(q) /\ frames' = below
      PROVE  StackInv(frames') /\ \E N : ItemsOf(frames') = ItemsOf(below) \cup N /\ Visited(q, N)
  <2>1. ItemsOf(frames') = ItemsOf(below) \cup {}
    BY <1>2
  <2>2. Visited(q, {})
    BY <1>2 DEF Report, Visited, Prints, Descends, IsDir
  <2> QED
    BY <1>2, <2>1, <2>2
<1>3. ASSUME Live /\ Exists(q), Descends(q), reported' = reported,
             printed' = IF print /\ tree[q] \in type_mask THEN Append(printed, q) ELSE printed,
             NEW new \in Fds,
             frames' = Append(below, [fd |-> new, path |-> q, node |-> q, left |-> Entries(q)])
      PROVE  StackInv(frames') /\ \E N : ItemsOf(frames') = ItemsOf(below) \cup N /\ Visited(q, N)
  <2> DEFINE r == [fd |-> new, path |-> q, node |-> q, left |-> Entries(q)]
  <2>1. q \in Paths /\ IsDir(q)
    BY <1>3, NamedPaths DEF Descends, IsDir
  <2>2. /\ Entries(q) \in Seq(EntryNames)
        /\ \A i, j \in DOMAIN Entries(q) : Entries(q)[i] = Entries(q)[j] => i = j
    BY <2>1, EntriesOf
  <2>3. r \in WalkFrame
    BY <2>1, <2>2 DEF WalkFrame
  <2>4. GoodFrame(r)
    BY <2>1, <2>2 DEF GoodFrame
  <2>5. Items(r) = Children(q) /\ r.path = q
    BY DEF Items, Children
  <2> HIDE DEF r
  <2>6. StackInv(Append(below, r)) /\ ItemsOf(Append(below, r)) = ItemsOf(below) \cup Items(r)
    BY <2>3, <2>4, <2>5, PushItems
  <2>7. Visited(q, Children(q))
    BY <1>3, <2>1 DEF Visited, Prints
  <2> QED
    BY <1>3, <2>5, <2>6, <2>7 DEF r
<1> QED
  BY <1>1, <1>2, <1>3 DEF Visit

LEMMA PrintedStays ==
    ASSUME NEW q, NEW N, Visited(q, N), NEW X, printed \in Seq(X), q \in X
    PROVE  /\ printed' \in Seq(X)
           /\ Len(printed) \in Nat /\ DOMAIN printed = 1..Len(printed)
           /\ \A i \in DOMAIN printed : i \in DOMAIN printed' /\ printed'[i] = printed[i]
           /\ \/ printed' = printed
              \/ /\ Prints(q) /\ DOMAIN printed' = 1..(Len(printed) + 1)
                 /\ printed'[Len(printed) + 1] = q
<1>1. Len(printed) \in Nat /\ DOMAIN printed = 1..Len(printed)
  BY LenProperties
<1>2. CASE printed' = printed
  BY <1>1, <1>2
<1>3. CASE printed' = Append(printed, q) /\ Prints(q)
  <2> DEFINE a == Append(printed, q)
  <2>1. /\ a \in Seq(X) /\ Len(a) = Len(printed) + 1
        /\ \A i \in 1..Len(printed) : a[i] = printed[i]
        /\ a[Len(printed) + 1] = q
    BY AppendProperties
  <2> HIDE DEF a
  <2>2. DOMAIN a = 1..(Len(printed) + 1)
    BY <2>1, LenProperties
  <2>3. \A i \in DOMAIN printed : i \in DOMAIN a /\ a[i] = printed[i]
    BY <1>1, <2>1, <2>2
  <2>4. printed' = a
    BY <1>3 DEF a
  <2> QED
    BY <1>1, <1>3, <2>1, <2>2, <2>3, <2>4
<1> QED
  BY <1>2, <1>3 DEF Visited

LEMMA VisitCovers ==
    ASSUME IsTree(tree), NEW q \in Seq(Names), printed \in Seq(Seq(Names)),
           NEW T, NEW N, Visited(q, N),
           Covers(T \cup {q}, printed, reported \cup cut)
    PROVE  Covers(T \cup N, printed', reported' \cup cut)
<1> SUFFICES ASSUME NEW path \in DOMAIN tree, Wanted(path)
             PROVE  \/ \E i \in DOMAIN printed' : printed'[i] = path
                    \/ \E above \in (reported' \cup cut) \cup (T \cup N) : IsPrefix(above, path)
  BY DEF Covers
<1>1. q \in Paths /\ path \in Paths
  BY NamedPaths, TreeOf
<1>2. /\ \A i \in DOMAIN printed : i \in DOMAIN printed' /\ printed'[i] = printed[i]
      /\ Len(printed) \in Nat
      /\ \/ printed' = printed
         \/ DOMAIN printed' = 1..(Len(printed) + 1) /\ printed'[Len(printed) + 1] = q
  BY PrintedStays
<1>3. reported \subseteq reported'
  BY DEF Visited
<1>4. CASE \E i \in DOMAIN printed : printed[i] = path
  BY <1>2, <1>4
<1>5. CASE \E above \in (reported \cup cut) \cup T : IsPrefix(above, path)
  BY <1>3, <1>5
<1>6. CASE IsPrefix(q, path) /\ q \in reported'
  BY <1>6
<1>7. CASE IsPrefix(q, path) /\ q \notin reported'
  <2>1. Exists(q) /\ N = IF IsDir(q) THEN Children(q) ELSE {}
    BY <1>7 DEF Visited
  <2>2. CASE path = q
    <3>1. Prints(q)
      BY <2>2 DEF Wanted, Prints
    <3>2. printed' = Append(printed, q)
      BY <1>7, <3>1 DEF Visited
    <3>3. q \in Seq(Names) /\ printed \in Seq(Seq(Names))
      OBVIOUS
    <3>4. Len(printed) + 1 \in DOMAIN printed' /\ printed'[Len(printed) + 1] = q
      <4> DEFINE a == Append(printed, q)
      <4>1. a \in Seq(Seq(Names)) /\ Len(a) = Len(printed) + 1 /\ a[Len(printed) + 1] = q
        BY <3>3, AppendProperties
      <4> HIDE DEF a
      <4>2. DOMAIN a = 1..(Len(printed) + 1)
        BY <4>1, LenProperties
      <4> QED
        BY <1>2, <3>2, <4>1, <4>2 DEF a
    <3> QED
      BY <2>2, <3>4
  <2>3. CASE path # q
    <3>1. Len(q) < Len(path) /\ Len(q) \in Nat /\ Len(path) \in Nat
      BY <1>1, <1>7, <2>3, PrefixOrder, PathLength
    <3>2. IsDir(q)
      BY <1>1, <1>7, <3>1, TreeOf DEF IsDir, Exists
    <3> DEFINE e == path[Len(q) + 1]
    <3>3. e \in EntryNames
      BY <1>1, <3>1, PathLength
    <3>4. IsPrefix(Append(q, e), path) /\ Append(q, e) \in Paths /\ Len(Append(q, e)) = Len(q) + 1
      BY <1>1, <1>7, <3>1, <3>3, UnderEntry, EntryOf
    <3>5. Append(q, e) \in DOMAIN tree
      <4> DEFINE a == Append(q, e)
      <4> HIDE DEF a, e
      <4>1. a \in Paths /\ IsPrefix(a, path) /\ Len(a) = Len(q) + 1
        BY <3>4 DEF a
      <4>2. Len(a) < Len(path) => a \in DOMAIN tree
        BY <1>1, <4>1, TreeOf
      <4>3. Len(a) = Len(path) => a = path
        BY <1>1, <4>1, PrefixOrder
      <4>4. a \in DOMAIN tree
        BY <3>1, <4>1, <4>2, <4>3
      <4> QED
        BY <4>4 DEF a
    <3>6. PICK k \in DOMAIN Entries(q) : Entries(q)[k] = e
      BY <1>1, <3>3, <3>5, EntriesOf
    <3>7. Append(q, e) \in N
      BY <2>1, <3>2, <3>6, Zenon DEF Children
    <3> QED
      BY <3>4, <3>7
  <2> QED
    BY <2>2, <2>3
<1> QED
  BY <1>4, <1>5, <1>6, <1>7 DEF Covers

LEMMA ChildPaths ==
    ASSUME IsTree(tree), NEW q \in Paths, NEW N, Visited(q, N)
    PROVE  \A p \in N : \E e \in EntryNames : p = Append(q, e)
<1>1. \A i \in DOMAIN Entries(q) : Entries(q)[i] \in EntryNames
  BY EntriesOf, LenProperties, ElementOfSeq
<1>2. \A p \in Children(q) : \E e \in EntryNames : p = Append(q, e)
  BY <1>1 DEF Children
<1>3. N \subseteq Children(q)
  BY DEF Visited
<1> QED
  BY <1>2, <1>3

LEMMA VisitFromArgs ==
    ASSUME IsTree(tree), args \in Seq(Seq(Names)), NEW q \in Paths, NEW T, NEW N, Visited(q, N),
           FromArgs(T \cup {q})
    PROVE  FromArgs(T \cup N)
<1> SUFFICES ASSUME NEW p \in N
             PROVE  \E i \in DOMAIN args : IsPrefix(args[i], p)
  BY DEF FromArgs
<1>1. PICK e \in EntryNames : p = Append(q, e)
  BY ChildPaths
<1>2. p \in Paths /\ IsPrefix(q, p)
  <2> DEFINE a == Append(q, e)
  <2>1. a \in Paths
    BY EntryOf
  <2>2. IsPrefix(a, a)
    BY <2>1, PrefixOrder
  <2>3. IsPrefix(q, a)
    BY <2>1, <2>2, UnderEntry
  <2> QED
    BY <1>1, <2>1, <2>3
<1>3. PICK i \in DOMAIN args : IsPrefix(args[i], q)
  BY DEF FromArgs
<1>4. args[i] \in Paths
  BY LenProperties, ElementOfSeq, NamedPaths
<1> QED
  BY <1>2, <1>3, <1>4, PrefixOrder

LEMMA VisitInOrder ==
    ASSUME IsTree(tree), NEW q \in Paths, printed \in Seq(Paths),
           NEW T, T \subseteq Paths, q \notin T, NEW N, Visited(q, N),
           InOrder(T \cup {q}, printed)
    PROVE  InOrder(T \cup N, printed') /\ T \cap N = {}
<1>1. \A p \in T : ~IsPrefix(p, q) /\ ~IsPrefix(q, p)
  BY DEF InOrder
<1>2. ASSUME NEW p \in N
      PROVE  /\ p \in Paths /\ Len(p) = Len(q) + 1 /\ IsPrefix(q, p)
             /\ \A t \in Paths : /\ IsPrefix(p, t) => IsPrefix(q, t)
                                 /\ IsPrefix(t, p) => IsPrefix(t, q) \/ t = p
  <2>1. PICK e \in EntryNames : p = Append(q, e)
    BY ChildPaths
  <2> DEFINE a == Append(q, e)
  <2>2. a \in Paths /\ Len(a) = Len(q) + 1
    BY EntryOf
  <2>3. \A t \in Paths : /\ IsPrefix(a, t) => IsPrefix(q, t)
                         /\ IsPrefix(t, a) => IsPrefix(t, q) \/ t = a
    BY UnderEntry
  <2>4. IsPrefix(a, a)
    BY <2>2, PrefixOrder
  <2> HIDE DEF a
  <2>5. p = a
    BY <2>1 DEF a
  <2> QED
    BY <2>2, <2>3, <2>4, <2>5
<1>3. T \cap N = {}
  BY <1>1, <1>2
<1>4. ASSUME NEW p \in T \cup N, NEW t \in T \cup N, p # t
      PROVE  ~IsPrefix(p, t)
  <2>1. CASE p \in T /\ t \in T
    BY <1>4, <2>1 DEF InOrder
  <2>2. CASE p \in T /\ t \in N
    BY <1>1, <1>2, <1>4, <2>2
  <2>3. CASE p \in N /\ t \in T
    BY <1>1, <1>2, <2>3
  <2>4. CASE p \in N /\ t \in N
    BY <1>2, <1>4, <2>4, PrefixOrder
  <2> QED
    BY <2>1, <2>2, <2>3, <2>4
<1>5. /\ printed' \in Seq(Paths)
      /\ Len(printed) \in Nat /\ DOMAIN printed = 1..Len(printed)
      /\ \A i \in DOMAIN printed : i \in DOMAIN printed' /\ printed'[i] = printed[i]
      /\ \/ printed' = printed
         \/ DOMAIN printed' = 1..(Len(printed) + 1) /\ printed'[Len(printed) + 1] = q
  BY PrintedStays
<1>6. \A i \in DOMAIN printed' : \/ i \in DOMAIN printed /\ printed'[i] = printed[i]
                                 \/ i = Len(printed) + 1 /\ printed'[i] = q
  BY <1>5
<1>7. \A i \in DOMAIN printed : printed[i] \in Paths
  BY <1>5, ElementOfSeq
<1>8. ASSUME NEW p \in T \cup N, NEW i \in DOMAIN printed'
      PROVE  ~IsPrefix(p, printed'[i])
  <2>1. CASE p \in T /\ printed'[i] = q
    BY <1>1, <2>1
  <2>2. CASE p \in T /\ i \in DOMAIN printed /\ printed'[i] = printed[i]
    BY <2>2 DEF InOrder
  <2>3. CASE p \in N /\ printed'[i] = q
    <3>1. Len(q) \in Nat /\ Len(p) = Len(q) + 1 /\ p \in Paths
      BY <1>2, <2>3, PathLength
    <3>2. ~(Len(p) <= Len(q))
      BY <3>1
    <3> QED
      BY <2>3, <3>1, <3>2, PrefixOrder
  <2>4. CASE p \in N /\ i \in DOMAIN printed /\ printed'[i] = printed[i]
    <3>1. ~IsPrefix(q, printed[i])
      BY <2>4 DEF InOrder
    <3> QED
      BY <1>2, <1>7, <2>4, <3>1
  <2> QED
    BY <1>6, <2>1, <2>2, <2>3, <2>4
<1>9. ASSUME NEW i \in DOMAIN printed', NEW j \in DOMAIN printed', i < j
      PROVE  ~IsPrefix(printed'[j], printed'[i])
  <2>1. i \in DOMAIN printed /\ printed'[i] = printed[i]
    <3>1. i \in Nat /\ j \in Nat
      BY <1>5
    <3> QED
      BY <1>5, <1>6, <1>9, <3>1
  <2>2. CASE j \in DOMAIN printed /\ printed'[j] = printed[j]
    BY <1>9, <2>1, <2>2 DEF InOrder
  <2>3. CASE printed'[j] = q
    BY <2>1, <2>3 DEF InOrder
  <2> QED
    BY <1>6, <2>2, <2>3
<1> QED
  BY <1>3, <1>4, <1>8, <1>9 DEF InOrder

-----------------------------------------------------------------------------
\* One lemma for each action of the walk.

LEMMA WalkNext ==
    ASSUME IsTree(tree), UNCHANGED <<tree, args, type_mask, print>>, WalkTypes',
           NEW f, frames' = f, StackInv(f),
           NEW T, T = Range(queue') \cup ItemsOf(f),
           FromArgs(T),
           \A i \in DOMAIN printed' : Wanted(printed'[i]),
           Covers(T, printed', reported' \cup cut'),
           ArgsApart => InOrder(T, printed') /\ LeftOnce(queue', f)
    PROVE  WalkInv'
<1>1. T = Todo'
  BY DEF Todo
<1>2. StackInv(frames)'
  BY DEF StackInv, GoodFrame, IsDir, Exists
<1>3. FromArgs(Todo)'
  BY <1>1 DEF FromArgs
<1>4. \A i \in DOMAIN printed' : Wanted(printed[i])'
  BY DEF Wanted, Exists
<1>5. Covers(Todo, printed, reported \cup cut)'
  BY <1>1 DEF Covers, Wanted, Exists
<1>6. ArgsApart' = ArgsApart
  BY DEF ArgsApart
<1>7. ArgsApart' => InOrder(Todo, printed)' /\ LeftOnce(queue, frames)'
  BY <1>1, <1>6 DEF InOrder, LeftOnce
<1> QED
  BY <1>2, <1>3, <1>4, <1>5, <1>7 DEF WalkInv

LEMMA EmptyStack == StackInv(<<>>) /\ ItemsOf(<<>>) = {}
<1>1. <<>> \in Seq(WalkFrame) /\ DOMAIN <<>> = {}
  BY EmptySeq
<1> QED
  BY <1>1 DEF StackInv, ItemsOf

\* After a visit, whatever was taken off for it.
LEMMA VisitWalk ==
    ASSUME IsTree(tree), WalkTypes, UNCHANGED <<tree, args, type_mask, print, cut>>,
           queue' \in Seq(Seq(Names)),
           NEW q \in Seq(Names), NEW below, StackInv(below),
           \A i \in DOMAIN below : Len(below[i].path) < Len(q),
           Visit(q, q, below),
           NEW T, T = Range(queue') \cup ItemsOf(below),
           FromArgs(T \cup {q}),
           \A i \in DOMAIN printed : Wanted(printed[i]),
           Covers(T \cup {q}, printed, reported \cup cut),
           ArgsApart => /\ InOrder(T \cup {q}, printed) /\ q \notin T
                        /\ LeftOnce(queue', below)
    PROVE  WalkInv'
<1>1. StackInv(frames')
  BY VisitDoes
<1>2. PICK N : ItemsOf(frames') = ItemsOf(below) \cup N /\ Visited(q, N)
  BY VisitDoes
<1> DEFINE U == T \cup N
<1>3. U = Range(queue') \cup ItemsOf(frames')
  BY <1>2
<1>4. q \in Paths /\ args \in Seq(Seq(Names)) /\ printed \in Seq(Seq(Names))
  BY NamedPaths DEF WalkTypes
<1>5. T \subseteq Paths
  <2>1. Range(queue') \subseteq Seq(Names)
    BY LenProperties, ElementOfSeq DEF Range
  <2> QED
    BY <2>1, NamedPaths, TodoPaths
<1>6. FromArgs(U)
  BY <1>2, <1>4, VisitFromArgs
<1>7. Covers(U, printed', reported' \cup cut')
  BY <1>2, <1>4, VisitCovers
<1>8. /\ printed' \in Seq(Seq(Names))
      /\ \A i \in DOMAIN printed : i \in DOMAIN printed' /\ printed'[i] = printed[i]
      /\ DOMAIN printed = 1..Len(printed) /\ Len(printed) \in Nat
      /\ \/ printed' = printed
         \/ /\ Prints(q) /\ DOMAIN printed' = 1..(Len(printed) + 1)
            /\ printed'[Len(printed) + 1] = q
  BY <1>2, <1>4, PrintedStays
<1>9. \A i \in DOMAIN printed' : Wanted(printed'[i])
  <2>1. Prints(q) => Wanted(q)
    BY DEF Prints, Wanted, FromArgs
  <2>2. \A i \in DOMAIN printed' : \/ i \in DOMAIN printed /\ printed'[i] = printed[i]
                                   \/ Prints(q) /\ printed'[i] = q
    BY <1>8
  <2> QED
    BY <2>1, <2>2
<1>10. WalkTypes'
  <2>1. reported' \subseteq Seq(Names)
    BY <1>2 DEF Visited, WalkTypes
  <2> QED
    BY <1>8, <2>1 DEF WalkTypes
<1>11. ASSUME ArgsApart
       PROVE  InOrder(U, printed') /\ LeftOnce(queue', frames')
  <2>1. printed \in Seq(Paths)
    BY <1>4, NamedPaths, SeqMonotonic
  <2>2. InOrder(U, printed') /\ T \cap N = {}
    BY <1>2, <1>4, <1>5, <1>11, <2>1, VisitInOrder
  <2>3. LeftOnce(queue', frames')
    BY <1>2, <1>11, <2>2 DEF LeftOnce
  <2> QED
    BY <2>2, <2>3
<1> HIDE DEF U
<1> QED
  BY <1>1, <1>3, <1>6, <1>7, <1>9, <1>10, <1>11, WalkNext

LEMMA StartWalk == FindInv /\ FindStart => WalkInv'
<1> SUFFICES ASSUME FindInv, FindStart PROVE WalkInv'
  OBVIOUS
<1>1. /\ args' \in Seq(Seq(Names)) /\ queue' = args' /\ frames' = <<>>
      /\ printed' = <<>> /\ reported' = {} /\ cut' = {}
      /\ type_mask' \subseteq {"file", "dir"} /\ print' \in BOOLEAN
      /\ tree' = tree
  BY ArgsAssumption DEF FindStart, files
<1>2. WalkTypes'
  BY <1>1 DEF WalkTypes
<1>3. StackInv(frames)'
  <2>1. <<>> \in Seq(WalkFrame) /\ DOMAIN <<>> = {}
    BY EmptySeq
  <2> QED
    BY <1>1, <2>1 DEF StackInv
<1>4. Todo' = Range(args')
  BY <1>1, EmptyStack DEF Todo
<1>5. \A i \in DOMAIN args' : args'[i] \in Paths /\ IsPrefix(args'[i], args'[i])
  <2>1. \A i \in DOMAIN args' : args'[i] \in Paths
    BY <1>1, LenProperties, ElementOfSeq, NamedPaths
  <2> QED
    BY <2>1, PrefixOrder
<1>6. FromArgs(Todo)'
  BY <1>4, <1>5 DEF FromArgs, Range
<1>7. Covers(Todo, printed, reported \cup cut)'
  BY <1>4 DEF Covers, Wanted, Range
<1>8. \A i \in DOMAIN printed' : Wanted(printed[i])'
  BY <1>1
<1>9. ASSUME ArgsApart'
      PROVE  InOrder(Todo, printed)' /\ LeftOnce(queue, frames)'
  <2>1. \A i, j \in DOMAIN args' : i # j => ~IsPrefix(args'[i], args'[j])
    BY <1>9 DEF ArgsApart
  <2>2. \A i, j \in DOMAIN args' : args'[i] = args'[j] => i = j
    BY <1>5, <2>1
  <2>3. InOrder(Todo, printed)'
    BY <1>1, <1>4, <2>1 DEF InOrder, Range
  <2>4. LeftOnce(queue, frames)'
    BY <1>1, <2>2, EmptyStack DEF LeftOnce
  <2> QED
    BY <2>3, <2>4
<1> QED
  BY <1>2, <1>3, <1>6, <1>7, <1>8, <1>9 DEF WalkInv

LEMMA NextPathWalk == FindInv /\ FindNextPath => WalkInv'
<1> SUFFICES ASSUME FindInv, FindNextPath PROVE WalkInv'
  OBVIOUS
<1> DEFINE q == Head(queue)
           T == Range(Tail(queue)) \cup ItemsOf(<<>>)
<1>1. /\ IsTree(tree) /\ WalkInv
      /\ frames = <<>> /\ queue # <<>> /\ queue' = Tail(queue)
      /\ Visit(q, q, <<>>)
      /\ UNCHANGED <<tree, args, type_mask, print, cut>>
  BY DEF FindInv, FindNextPath
<1>2. queue \in Seq(Seq(Names)) /\ WalkTypes
  BY <1>1 DEF WalkInv, WalkTypes
<1>3. /\ q \in Seq(Names) /\ Tail(queue) \in Seq(Seq(Names))
      /\ Len(Tail(queue)) = Len(queue) - 1
      /\ \A i \in 1..Len(Tail(queue)) : Tail(queue)[i] = queue[i + 1]
  BY <1>1, <1>2, HeadTailProperties
<1>4. /\ Len(queue) \in Nat \ {0} /\ DOMAIN queue = 1..Len(queue) /\ q = queue[1]
      /\ DOMAIN Tail(queue) = 1..(Len(queue) - 1)
  BY <1>1, <1>2, <1>3, EmptySeq, LenProperties
<1>5. T = Range(Tail(queue))
  BY EmptyStack
<1>6. \A i \in DOMAIN queue : i = 1 \/ (i - 1 \in DOMAIN Tail(queue) /\ Tail(queue)[i - 1] = queue[i])
  BY <1>3, <1>4
<1>7. \A i \in DOMAIN Tail(queue) : i + 1 \in DOMAIN queue /\ Tail(queue)[i] = queue[i + 1] /\ i \in Nat
  BY <1>3, <1>4
<1>8. Todo = T \cup {q}
  <2>1. Todo = Range(queue)
    BY <1>1, EmptyStack DEF Todo
  <2>2. Range(queue) \subseteq Range(Tail(queue)) \cup {q}
    BY <1>4, <1>6, Zenon DEF Range
  <2>3. Range(Tail(queue)) \subseteq Range(queue)
    BY <1>7 DEF Range
  <2>4. q \in Range(queue)
    BY <1>4 DEF Range
  <2> QED
    BY <1>5, <2>1, <2>2, <2>3, <2>4
<1>9. ASSUME \A i, j \in DOMAIN queue : queue[i] = queue[j] => i = j
      PROVE  /\ q \notin Range(Tail(queue))
             /\ \A i, j \in DOMAIN Tail(queue) : Tail(queue)[i] = Tail(queue)[j] => i = j
  <2>1. ASSUME NEW i \in DOMAIN Tail(queue), q = Tail(queue)[i]
        PROVE  FALSE
    <3>1. i + 1 = 1 /\ i \in Nat
      BY <1>4, <1>7, <1>9, <2>1
    <3> QED
      BY <1>4, <2>1, <3>1
  <2>2. ASSUME NEW i \in DOMAIN Tail(queue), NEW j \in DOMAIN Tail(queue),
               Tail(queue)[i] = Tail(queue)[j]
        PROVE  i = j
    <3>1. i + 1 = j + 1 /\ i \in Nat /\ j \in Nat
      BY <1>7, <1>9, <2>2
    <3> QED
      BY <3>1
  <2> QED
    BY <2>1, <2>2 DEF Range
<1> HIDE DEF q, T
<1>10. ArgsApart => /\ InOrder(T \cup {q}, printed) /\ q \notin T
                    /\ LeftOnce(Tail(queue), <<>>)
  BY <1>1, <1>5, <1>8, <1>9, EmptyStack DEF WalkInv, LeftOnce
<1>11. /\ FromArgs(T \cup {q})
       /\ \A i \in DOMAIN printed : Wanted(printed[i])
       /\ Covers(T \cup {q}, printed, reported \cup cut)
  BY <1>1, <1>8 DEF WalkInv
<1>12. \A i \in DOMAIN <<>> : Len(<<>>[i].path) < Len(q)
  OBVIOUS
<1>13. T = Range(queue') \cup ItemsOf(<<>>) /\ queue' \in Seq(Seq(Names))
  BY <1>1, <1>3 DEF T
<1> QED
  BY <1>1, <1>2, <1>3, <1>10, <1>11, <1>12, <1>13, EmptyStack, VisitWalk

LEMMA ReadEntryWalk == FindInv /\ FindReadEntry => WalkInv'
<1> SUFFICES ASSUME FindInv, FindReadEntry PROVE WalkInv'
  OBVIOUS
<1> DEFINE top == Last(frames)
           entry == Head(top.left)
           rest == Append(Front(frames), [top EXCEPT !.left = Tail(@)])
           q == Append(top.path, entry)
           T == Range(queue) \cup ItemsOf(rest)
<1>1. /\ IsTree(tree) /\ WalkInv
      /\ frames # <<>> /\ top.left # <<>>
      /\ UNCHANGED <<tree, args, queue, type_mask, print, cut>>
      /\ IF Skip(entry)
         THEN frames' = rest /\ UNCHANGED <<printed, reported>>
         ELSE Visit(EntryPath(top.path, entry), Node(top.node, entry), rest)
  BY DEF FindInv, FindReadEntry
<1>2. StackInv(frames) /\ WalkTypes /\ queue \in Seq(Seq(Names))
  BY <1>1 DEF WalkInv, WalkTypes
<1>3. /\ StackInv(rest) /\ q \in Paths
      /\ ItemsOf(frames) = ItemsOf(rest) \cup {q} /\ q \notin ItemsOf(rest)
      /\ \A i \in DOMAIN rest : Len(rest[i].path) < Len(q)
  BY <1>1, <1>2, TakeItem
<1>4. top \in WalkFrame /\ GoodFrame(top)
  BY <1>1, <1>2, PopItems
<1>5. /\ top.path = top.node /\ top.path \in DOMAIN tree /\ top.path \in Seq(Names)
      /\ top.path \in Paths /\ top.left \in Seq(EntryNames)
  BY <1>1, <1>4 DEF GoodFrame, IsDir, Exists, IsTree, WalkFrame
<1>6. entry \in EntryNames
  BY <1>1, <1>5, HeadTailProperties
<1> HIDE DEF top, entry, rest
<1>7. Todo = T \cup {q}
  BY <1>3 DEF Todo
<1>8. /\ FromArgs(T \cup {q})
      /\ \A i \in DOMAIN printed : Wanted(printed[i])
      /\ Covers(T \cup {q}, printed, reported \cup cut)
  BY <1>1, <1>7 DEF WalkInv
<1>9. ArgsApart => InOrder(T \cup {q}, printed) /\ q \notin T /\ LeftOnce(queue, rest)
  <2> SUFFICES ASSUME ArgsApart
               PROVE  InOrder(T \cup {q}, printed) /\ q \notin T /\ LeftOnce(queue, rest)
    OBVIOUS
  <2>1. InOrder(Todo, printed) /\ LeftOnce(queue, frames)
    BY <1>1 DEF WalkInv
  <2> QED
    BY <1>3, <1>7, <2>1 DEF LeftOnce
<1>10. CASE ~Skip(entry)
  <2>1. entry \in Names /\ entry \notin Dots
    BY <1>6, <1>10, NamedPaths, FilesAssumption
  <2>2. EntryPath(top.path, entry) = q
    BY DEF EntryPath
  <2>3. Node(top.node, entry) = q
    BY <1>5, <2>1 DEF Node, Dots
  <2>4. q \in Seq(Names)
    BY <1>5, <2>1, AppendProperties
  <2> HIDE DEF q, T
  <2>5. Visit(q, q, rest)
    BY <1>1, <1>10, <2>2, <2>3
  <2>6. T = Range(queue') \cup ItemsOf(rest) /\ queue' \in Seq(Seq(Names))
    BY <1>1, <1>2 DEF T
  <2>7. ArgsApart => InOrder(T \cup {q}, printed) /\ q \notin T /\ LeftOnce(queue', rest)
    BY <1>1, <1>9
  <2> QED
    BY <1>1, <1>2, <1>3, <1>8, <2>4, <2>5, <2>6, <2>7, VisitWalk
<1>11. CASE Skip(entry)
  <2>1. frames' = rest /\ UNCHANGED <<printed, reported, queue, cut>>
    BY <1>1, <1>11
  <2>2. entry \in Dots
    BY <1>6, <1>11, NamedPaths
  <2>3. \A path \in DOMAIN tree : ~IsPrefix(q, path)
    <3> SUFFICES ASSUME NEW path \in DOMAIN tree, IsPrefix(q, path) PROVE FALSE
      OBVIOUS
    <3>1. path \in Paths
      BY <1>1, TreeOf
    <3>2. Len(top.path) < Len(path) /\ path[Len(top.path) + 1] = entry
      BY <1>5, <1>6, <3>1, UnderEntry
    <3>3. Len(top.path) + 1 \in 1..Len(path)
      BY <1>5, <3>1, <3>2, PathLength
    <3> QED
      BY <1>1, <2>2, <3>2, <3>3, TreeOf
  <2> HIDE DEF q, T
  <2>4. Covers(T, printed', reported' \cup cut')
    BY <1>8, <2>1, <2>3 DEF Covers
  <2>5. FromArgs(T)
    BY <1>8 DEF FromArgs
  <2>6. ArgsApart => InOrder(T, printed') /\ LeftOnce(queue', rest)
    BY <1>9, <2>1 DEF InOrder
  <2>7. T = Range(queue') \cup ItemsOf(rest)
    BY <2>1 DEF T
  <2>8. \A i \in DOMAIN printed' : Wanted(printed'[i])
    BY <1>8, <2>1
  <2>9. WalkTypes'
    BY <1>1, <1>2, <2>1 DEF WalkTypes
  <2> QED
    BY <1>1, <1>3, <2>1, <2>4, <2>5, <2>6, <2>7, <2>8, <2>9, WalkNext
<1> QED
  BY <1>10, <1>11

LEMMA CloseWalk == FindInv /\ FindClose => WalkInv'
<1> SUFFICES ASSUME FindInv, FindClose PROVE WalkInv'
  OBVIOUS
<1> DEFINE top == Last(frames)
           below == Front(frames)
           T == Range(queue) \cup ItemsOf(below)
<1>1. /\ IsTree(tree) /\ WalkInv
      /\ frames # <<>> /\ frames' = below
      /\ cut' = IF top.left = <<>> THEN cut ELSE cut \cup {top.path}
      /\ UNCHANGED <<tree, args, queue, type_mask, print, printed, reported>>
  BY DEF FindInv, FindClose
<1>2. StackInv(frames) /\ WalkTypes
  BY <1>1 DEF WalkInv
<1>3. /\ StackInv(below) /\ top \in WalkFrame /\ GoodFrame(top)
      /\ ItemsOf(frames) = ItemsOf(below) \cup Items(top)
  BY <1>1, <1>2, PopItems
<1>4. top.path \in Paths /\ top.path \in DOMAIN tree /\ top.path \in Seq(Names)
  BY <1>1, <1>3 DEF GoodFrame, IsDir, Exists, IsTree, WalkFrame
<1> HIDE DEF top, below
<1>5. Todo = T \cup Items(top)
  BY <1>3 DEF Todo
<1>6. top.left = <<>> => Items(top) = {}
  BY DEF Items
<1>7. Covers(T, printed', reported' \cup cut')
  <2> SUFFICES ASSUME NEW path \in DOMAIN tree, Wanted(path)
               PROVE  \/ \E i \in DOMAIN printed : printed[i] = path
                      \/ \E above \in (reported \cup cut') \cup T : IsPrefix(above, path)
    BY <1>1 DEF Covers
  <2>1. \/ \E i \in DOMAIN printed : printed[i] = path
        \/ \E above \in (reported \cup cut) \cup (T \cup Items(top)) : IsPrefix(above, path)
    BY <1>1, <1>5 DEF WalkInv, Covers
  <2>2. ASSUME NEW p \in Items(top), IsPrefix(p, path)
        PROVE  top.path \in cut' /\ IsPrefix(top.path, path)
    <3>1. p \in Paths /\ IsPrefix(top.path, p) /\ path \in Paths
      BY <1>1, <1>3, ItemsArePaths, TreeOf
    <3>2. IsPrefix(top.path, path)
      BY <1>4, <2>2, <3>1, PrefixOrder
    <3> QED
      BY <1>1, <1>6, <2>2, <3>2
  <2>3. cut \subseteq cut'
    BY <1>1
  <2> QED
    BY <2>1, <2>2, <2>3
<1>8. FromArgs(T)
  BY <1>1, <1>5 DEF WalkInv, FromArgs
<1>9. ArgsApart => InOrder(T, printed') /\ LeftOnce(queue', below)
  <2> SUFFICES ASSUME ArgsApart PROVE InOrder(T, printed) /\ LeftOnce(queue, below)
    BY <1>1
  <2>1. InOrder(T \cup Items(top), printed) /\ LeftOnce(queue, frames)
    BY <1>1, <1>5 DEF WalkInv
  <2> QED
    BY <1>3, <2>1 DEF InOrder, LeftOnce
<1>10. WalkTypes'
  BY <1>1, <1>2, <1>4 DEF WalkTypes
<1>11. T = Range(queue') \cup ItemsOf(below)
  BY <1>1
<1>12. \A i \in DOMAIN printed' : Wanted(printed'[i])
  BY <1>1 DEF WalkInv
<1> HIDE DEF T
<1> QED
  BY <1>1, <1>3, <1>7, <1>8, <1>9, <1>10, <1>11, <1>12, WalkNext

\* What was overrun is no part of the invariant.
Walked == <<args, queue, frames, type_mask, print, printed, reported, cut>>

LEMMA UnchangedWalk == FindInv /\ UNCHANGED <<command, tree, Walked>> => FindInv'
<1> SUFFICES ASSUME FindInv, UNCHANGED <<command, tree, Walked>> PROVE FindInv'
  OBVIOUS
<1> USE DEF Walked
<1>1. IsTree(tree)'
  BY DEF FindInv, IsTree
<1>2. ASSUME WalkInv PROVE WalkInv'
  <2>1. StackInv(frames) /\ FromArgs(Todo) /\ Covers(Todo, printed, reported \cup cut)
    BY <1>2 DEF WalkInv
  <2>2. StackInv(frames)'
    BY <2>1 DEF StackInv, GoodFrame, IsDir, Exists
  <2>3. FromArgs(Todo)' /\ Covers(Todo, printed, reported \cup cut)'
    BY <2>1 DEF FromArgs, Covers, Todo, Wanted, Exists
  <2>4. WalkTypes' /\ \A i \in DOMAIN printed' : Wanted(printed[i])'
    BY <1>2 DEF WalkInv, WalkTypes, Wanted, Exists
  <2>5. ArgsApart' => InOrder(Todo, printed)' /\ LeftOnce(queue, frames)'
    BY <1>2 DEF WalkInv, ArgsApart, InOrder, LeftOnce, Todo
  <2> QED
    BY <2>2, <2>3, <2>4, <2>5 DEF WalkInv
<1> QED
  BY <1>1, <1>2 DEF FindInv

LEMMA FindKeepsWalk == FindInv /\ FindStep => FindInv'
<1> SUFFICES ASSUME FindInv, FindStep PROVE FindInv'
  OBVIOUS
<1>1. IsTree(tree)
  BY DEF FindInv
<1>2. ASSUME tree' = tree, command' = "find", WalkInv'
      PROVE  FindInv'
  BY <1>1, <1>2 DEF FindInv, IsTree
<1>3. CASE FindStart
  BY <1>2, <1>3, StartWalk DEF FindStart, files
<1>4. CASE FindNextPath
  BY <1>2, <1>4, NextPathWalk DEF FindNextPath
<1>5. CASE FindReadEntry
  BY <1>2, <1>5, ReadEntryWalk DEF FindReadEntry
<1>6. CASE FindClose
  BY <1>2, <1>6, CloseWalk DEF FindClose
<1>7. CASE FindEnd
  <2>1. command' = "none" /\ printed' = <<>> /\ tree' = tree
    BY <1>7 DEF FindEnd, End, files
  <2> QED
    BY <1>1, <2>1 DEF FindInv, IsTree
<1>8. CASE FindOverrun
  <2>1. UNCHANGED <<command, tree, Walked>>
    BY <1>8 DEF FindOverrun, files, Walked
  <2> QED
    BY <2>1, UnchangedWalk
<1> QED
  BY <1>3, <1>4, <1>5, <1>6, <1>7, <1>8 DEF FindStep

\* A file that tfs_open makes lies in the root directory.
LEMMA TreeGrows ==
    ASSUME IsTree(tree), NEW e \in Names, ~IsDir(<<e>>),
           tree' = [p \in DOMAIN tree \cup {<<e>>} |-> IF p \in {<<e>>} THEN "file" ELSE tree[p]]
    PROVE  IsTree(tree')
<1> DEFINE n == <<e>>
<1>1. n \in Seq(Names) /\ Len(n) = 1 /\ n # <<>>
  OBVIOUS
<1>2. SubSeq(n, 1, 0) = <<>>
  BY SubSeqEmpty
<1> HIDE DEF n
<1>3. DOMAIN tree' = DOMAIN tree \cup {n} /\ tree'[n] = "file"
      /\ \A p \in DOMAIN tree : p # n => tree'[p] = tree[p]
  BY DEF n
<1>4. tree' \in [DOMAIN tree' -> {"file", "dir"}]
  BY DEF IsTree, n
<1>5. IsFiniteSet(DOMAIN tree')
  BY <1>3, FS_AddElement DEF IsTree
<1>6. <<>> \in DOMAIN tree' /\ tree'[<<>>] = "dir"
  BY <1>1, <1>3 DEF IsTree
<1>7. \A p \in DOMAIN tree : tree[p] = "dir" => tree'[p] = "dir"
  BY <1>3 DEF IsDir, Exists, n
<1>8. ASSUME NEW p \in DOMAIN tree', NEW k \in 0..(Len(p) - 1)
      PROVE  SubSeq(p, 1, k) \in DOMAIN tree' /\ tree'[SubSeq(p, 1, k)] = "dir"
  <2>1. CASE p \in DOMAIN tree
    <3>1. SubSeq(p, 1, k) \in DOMAIN tree /\ tree[SubSeq(p, 1, k)] = "dir"
      BY <2>1, <1>8 DEF IsTree
    <3> QED
      BY <1>3, <1>7, <3>1
  <2>2. CASE p = n
    <3>1. k = 0
      <4>1. Len(p) = 1
        BY <1>1, <2>2, Zenon
      <4>2. \A j \in 0..(1 - 1) : j = 0
        OBVIOUS
      <4> QED
        BY <1>8, <4>1, <4>2, Zenon
    <3> QED
      BY <1>2, <1>6, <2>2, <3>1
  <2> QED
    BY <1>3, <2>1, <2>2
<1>9. \A p \in DOMAIN tree' : p \in Seq(Names)
  BY <1>1, <1>3 DEF IsTree
<1> QED
  BY <1>4, <1>5, <1>6, <1>8, <1>9 DEF IsTree

LEMMA BenchKeepsWalk == FindInv /\ BenchStep /\ UNCHANGED walk => FindInv'
<1> SUFFICES ASSUME FindInv, BenchStep, UNCHANGED walk PROVE FindInv'
  OBVIOUS
<1>1. command # "find" /\ command' # "find"
  BY DEF BenchStep, BenchStart, BenchWrite, BenchClose, BenchReopen, BenchRead, BenchErrClose,
         BenchErrExit, Loop, End
<1>2. printed' = <<>>
  BY <1>1 DEF FindInv, walk
<1>3. IsTree(tree')
  <2>1. IsTree(tree)
    BY DEF FindInv
  <2>2. CASE tree' = tree
    BY <2>1, <2>2
  <2>3. CASE BenchStart /\ tree' # tree
    <3>1. /\ ~IsDir(<<"temp.dat">>)
          /\ tree' = [p \in DOMAIN tree \cup {<<"temp.dat">>} |->
                         IF p \in {<<"temp.dat">>} THEN "file" ELSE tree[p]]
      BY <2>3 DEF BenchStart, Open, files
    <3>2. "temp.dat" \in Names
      BY TimesAssumption
    <3> QED
      BY <2>1, <3>1, <3>2, TreeGrows
  <2>4. CASE BenchReopen
    <3>1. CASE UNCHANGED files
      BY <2>2, <3>1 DEF files
    <3>2. CASE tree' = [p \in DOMAIN tree \cup {} |-> IF p \in {} THEN "file" ELSE tree[p]]
      <4>1. tree \in [DOMAIN tree -> {"file", "dir"}]
        BY <2>1 DEF IsTree
      <4>2. tree' = [p \in DOMAIN tree |-> tree[p]]
        BY <3>2
      <4> QED
        BY <2>2, <4>1, <4>2
    <3> QED
      BY <2>4, <3>1, <3>2 DEF BenchReopen, Open
  <2>5. CASE BenchWrite \/ BenchClose \/ BenchRead \/ BenchErrClose \/ BenchErrExit
    BY <2>2, <2>5 DEF BenchWrite, BenchClose, BenchRead, BenchErrClose, BenchErrExit, Loop, files
  <2> QED
    BY <2>2, <2>3, <2>4, <2>5 DEF BenchStep
<1>4. IsTree(tree)'
  BY <1>3 DEF IsTree
<1> QED
  BY <1>1, <1>2, <1>4 DEF FindInv

LEMMA FindInvStep == FindInv /\ [ShellNext]_shell_vars => FindInv'
<1>1. Session => UNCHANGED <<command, tree, Walked>>
  BY DEF Session, walk, Walked
<1>2. UNCHANGED shell_vars => UNCHANGED <<command, tree, Walked>>
  BY DEF shell_vars, files, walk, Walked
<1> QED
  BY <1>1, <1>2, UnchangedWalk, FindKeepsWalk, BenchKeepsWalk DEF ShellNext

LEMMA FindInvInit == ShellInit => FindInv
<1> SUFFICES ASSUME ShellInit PROVE FindInv
  OBVIOUS
<1>1. IsTree(tree)
  BY FilesAssumption DEF ShellInit
<1> QED
  BY <1>1 DEF ShellInit, FindInit, FindInv

LEMMA FindAlways == ShellSpec => []FindInv
  BY FindInvInit, FindInvStep, PTL DEF ShellSpec

\* Whatever the tree and wherever it runs out of descriptors: a find that comes to its
\* end, no path having been longer than its buffer on the way (FindOverrun), has printed
\* all that it was asked for, but for what lies under a path that it reported or under a
\* directory that it could not read to its end (FIND.C:20-45, 48-71).
THEOREM WalkIsComplete == ShellSpec => []FindComplete
<1>1. FindInv => FindComplete
  <2> SUFFICES ASSUME FindInv, command = "find", queue = <<>>, frames = <<>>
               PROVE  /\ \A i \in DOMAIN printed : Wanted(printed[i])
                      /\ \A path \in DOMAIN tree :
                            Wanted(path) =>
                               \/ \E i \in DOMAIN printed : printed[i] = path
                               \/ \E above \in reported \cup cut : IsPrefix(above, path)
    BY DEF FindComplete
  <2>1. WalkInv
    BY DEF FindInv
  <2>2. Todo = {}
    <3>1. \A i \in DOMAIN queue : FALSE
      OBVIOUS
    <3> QED
      BY <3>1, EmptyStack DEF Todo, Range
  <2> QED
    BY <2>1, <2>2 DEF WalkInv, Covers
<1> QED
  BY <1>1, FindAlways, PTL

\* And it prints a path once, before anything under it (FIND.C:30-38, 59-68).
THEOREM WalkIsInOrder == ShellSpec => []PrintsInOrder
<1>1. FindInv => PrintsInOrder
  <2>1. CASE command = "find"
    BY <2>1 DEF FindInv, WalkInv, PrintsInOrder, ArgsApart, InOrder
  <2>2. CASE command # "find"
    BY <2>2 DEF FindInv, PrintsInOrder
  <2> QED
    BY <2>1, <2>2
<1> QED
  BY <1>1, FindAlways, PTL

-----------------------------------------------------------------------------
\* Types.

BenchInv == command = "benchmark" => BenchTypeOK

FdInv == descriptors \subseteq Fds /\ leaked \subseteq Fds

OverrunInv == overrun \in BOOLEAN

LEMMA BenchInvStep == BenchInv /\ [ShellNext]_shell_vars => BenchInv'
<1> SUFFICES ASSUME BenchInv, [ShellNext]_shell_vars, command' = "benchmark" PROVE BenchTypeOK'
  BY DEF BenchInv
<1> USE TimesAssumption DEF BenchTypeOK, Labels
<1>1. CASE UNCHANGED <<command, bench>>
  BY <1>1 DEF BenchInv, bench
<1>2. CASE BenchStart
  BY <1>2 DEF BenchStart, Open
<1>3. CASE BenchWrite \/ BenchRead
  BY <1>3 DEF BenchWrite, BenchRead, Loop, BenchInv
<1>4. CASE BenchClose \/ BenchErrClose
  BY <1>4 DEF BenchClose, BenchErrClose, CloseFailed, BenchInv
<1>5. CASE BenchReopen
  BY <1>5 DEF BenchReopen, Open, BenchInv
<1>6. ~BenchErrExit
  BY DEF BenchErrExit, End
<1>7. ~FindStep
  BY DEF FindStep, FindStart, FindNextPath, FindReadEntry, FindOverrun, FindClose, FindEnd, End
<1> QED
  BY <1>1, <1>2, <1>3, <1>4, <1>5, <1>6, <1>7 DEF ShellNext, Session, BenchStep, shell_vars

LEMMA FdInvStep == HeldInv /\ FdInv /\ [ShellNext]_shell_vars => FdInv'
<1> SUFFICES ASSUME HeldInv, FdInv, [ShellNext]_shell_vars PROVE FdInv'
  OBVIOUS
<1>1. CASE UNCHANGED <<descriptors, leaked>>
  BY <1>1 DEF FdInv
<1>2. CASE \E new \in Fds : TfsOpen(new)
  BY <1>2 DEF TfsOpen, FdInv
<1>3. ASSUME NEW d, d \in Held, TfsClose(d) \/ TfsCloseFails(d) PROVE FdInv'
  BY <1>3 DEF TfsClose, TfsCloseFails, FdInv, Held
<1>4. CASE Session
  BY <1>1, <1>4 DEF Session, FdInv
<1>5. CASE FindStep
  <2>1. CASE FindStart \/ FindOverrun \/ FindEnd
    BY <1>1, <2>1 DEF FindStart, FindOverrun, FindEnd, files
  <2>2. CASE FindNextPath \/ FindReadEntry
    <3>1. UNCHANGED <<descriptors, leaked>> \/ \E new \in Fds : TfsOpen(new)
      BY <2>2 DEF FindNextPath, FindReadEntry, Visit
    <3> QED
      BY <1>1, <1>2, <3>1
  <2>3. CASE FindClose
    <3>1. /\ command = "find" /\ frames # <<>>
          /\ TfsClose(Last(frames).fd) \/ TfsCloseFails(Last(frames).fd)
      BY <2>3 DEF FindClose, CloseDir
    <3>2. Last(frames).fd \in Held
      BY <3>1, PopFrame DEF HeldInv
    <3> QED
      BY <1>3, <3>1, <3>2
  <2> QED
    BY <1>5, <2>1, <2>2, <2>3 DEF FindStep
<1>6. CASE BenchStep
  <2>1. CASE BenchStart \/ BenchReopen
    <3>1. UNCHANGED <<descriptors, leaked>> \/ \E new \in Fds : TfsOpen(new)
      BY <2>1 DEF BenchStart, BenchReopen, Open, files
    <3> QED
      BY <1>1, <1>2, <3>1
  <2>2. CASE BenchWrite \/ BenchRead \/ BenchErrExit
    BY <1>1, <2>2 DEF BenchWrite, BenchRead, BenchErrExit, Loop, files
  <2>3. CASE BenchClose \/ BenchErrClose
    <3>1. fd \in Held /\ (TfsClose(fd) \/ TfsCloseFails(fd))
      BY <2>3 DEF BenchClose, BenchErrClose, HeldInv, Holding
    <3> QED
      BY <1>3, <3>1
  <2> QED
    BY <1>6, <2>1, <2>2, <2>3 DEF BenchStep
<1> QED
  BY <1>1, <1>4, <1>5, <1>6 DEF ShellNext, shell_vars, files

LEMMA OverrunInvStep == OverrunInv /\ [ShellNext]_shell_vars => OverrunInv'
<1> SUFFICES ASSUME OverrunInv, [ShellNext]_shell_vars
             PROVE  overrun' = overrun \/ overrun' = TRUE
  BY DEF OverrunInv
<1>1. CASE FindStep
  BY <1>1 DEF FindStep, FindStart, FindNextPath, FindReadEntry, FindOverrun, FindClose, FindEnd
<1> QED
  BY <1>1 DEF ShellNext, Session, shell_vars, walk

\* Everything is of its type, for any trees, arguments and failures: in particular every
\* level of a walk has a descriptor, and a directory for what it is reading (FIND.C:13-45).
THEOREM ShellTypes == ShellSpec => []ShellTypeOK
<1>1. ShellInit => BenchInv /\ FdInv /\ OverrunInv
  BY DEF ShellInit, FindInit, BenchInv, FdInv, OverrunInv
<1>2. ShellSpec => [](BenchInv /\ FdInv /\ OverrunInv)
  BY <1>1, BenchInvStep, FdInvStep, OverrunInvStep, HeldAlways, PTL DEF ShellSpec
<1>3. SessionInv => TypeOK
  BY DEF SessionInv
<1>4. ShellSpec => []TypeOK
  BY <1>3, CommandsKeepSession, SessionInvariant, PTL DEF KeepsSession
<1>5. FindInv /\ OverrunInv /\ command = "find" => FindTypeOK
  <2> SUFFICES ASSUME WalkInv, IsTree(tree), OverrunInv PROVE FindTypeOK
    BY DEF FindInv
  <2>1. WalkTypes /\ StackInv(frames)
    BY DEF WalkInv
  <2>2. ASSUME NEW i \in DOMAIN frames
        PROVE  /\ frames[i].fd \in Fds /\ IsDir(frames[i].node)
               /\ frames[i].path \in Seq(Names) /\ frames[i].left \in Seq(Names \cup Dots)
    <3>1. frames[i] \in WalkFrame /\ GoodFrame(frames[i])
      BY <2>1, <2>2, LenProperties, ElementOfSeq DEF StackInv
    <3>2. IsDir(frames[i].node) /\ frames[i].path = frames[i].node
      BY <3>1 DEF GoodFrame
    <3>3. frames[i].path \in Seq(Names)
      BY <3>2 DEF IsDir, Exists, IsTree
    <3> QED
      BY <3>1, <3>2, <3>3 DEF WalkFrame, EntryNames
  <2> QED
    BY <2>1, <2>2 DEF FindTypeOK, WalkTypes, OverrunInv
<1>6. HeldInv /\ FindInv /\ BenchInv /\ FdInv /\ OverrunInv /\ TypeOK => ShellTypeOK
  BY <1>5 DEF HeldInv, FindInv, BenchInv, FdInv, ShellTypeOK, IsTree
<1> QED
  BY <1>2, <1>4, <1>6, HeldAlways, FindAlways, PTL
=============================================================================
