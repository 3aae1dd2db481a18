----------------------------- MODULE ShellProofs -----------------------------
(***************************************************************************)
(* Proofs about the shell: its session, for any number of logical          *)
(* processes, any sequence of commands and any failure of their calls; and *)
(* the commands that run in it, which leave the session as it is and give  *)
(* back what they take, for any trees, paths and descriptors.              *)
(***************************************************************************)
EXTENDS Shell, SequenceTheorems, TLAPS

-----------------------------------------------------------------------------
\* The session of Tfsh.

\* Nobody is logged on to a disk that is not mounted.
LibraryInv == logged # {} => mounted

\* Before its first prompt the shell has not mounted anything.
StartInv ==
    /\ phase \in {"start", "mount"} => ~mounted /\ pid = -1 /\ cwd = "not mounted"
    /\ phase = "logon" => pid = -1 /\ cwd = "not logged on"

PromptInv ==
    phase # "exited" =>
        /\ cwd = "not mounted" => ~mounted
        /\ cwd = "not logged on" => pid = -1

\* Only the last step of the program sets the exit code.
ExitInv == phase = "exited" <=> exit_code # "none"

SessionInv ==
    /\ TypeOK
    /\ LibraryInv
    /\ StartInv
    /\ PromptInv
    /\ ExitInv
    /\ PidIsLoggedOn
    /\ SuccessIsClean

LEMMA NoPid == -1 \notin Pids
  BY SessionAssumption DEF Pids

LEMMA SessionInvInit == Init => SessionInv
  BY DEF Init, SessionInv, TypeOK, LibraryInv, StartInv, PromptInv, ExitInv, PidIsLoggedOn,
         SuccessIsClean, Phases, Prompts

LEMMA DonePhase ==
    ASSUME Done
    PROVE  phase' \in {"prompt", "terminate"}
  BY DEF Done

-----------------------------------------------------------------------------
\* One lemma for each action.

LEMMA StartStep == SessionInv /\ Start => SessionInv'
<1> SUFFICES ASSUME SessionInv, Start PROVE SessionInv'
  OBVIOUS
<1> USE DEF Start, SessionInv
<1>1. TypeOK'
  BY DEF TypeOK, Phases, Prompts
<1>2. LibraryInv'
  BY DEF LibraryInv
<1>3. StartInv'
  BY DEF StartInv, TypeOK
<1>4. PromptInv'
  BY DEF PromptInv, StartInv, LibraryInv
<1>5. ExitInv'
  BY DEF ExitInv
<1>6. PidIsLoggedOn'
  BY DEF PidIsLoggedOn, LibraryInv, StartInv
<1>7. SuccessIsClean'
  BY DEF SuccessIsClean, ExitInv
<1> QED
  BY <1>1, <1>2, <1>3, <1>4, <1>5, <1>6, <1>7

LEMMA MountFirstStep == SessionInv /\ MountFirst => SessionInv'
<1> SUFFICES ASSUME SessionInv, MountFirst PROVE SessionInv'
  OBVIOUS
<1> USE DEF MountFirst, TfsMount, SessionInv
<1>1. TypeOK'
  BY DEF TypeOK, Phases, Prompts
<1>2. LibraryInv'
  BY DEF LibraryInv
<1>3. StartInv'
  BY DEF StartInv, TypeOK
<1>4. PromptInv'
  BY DEF PromptInv, StartInv, LibraryInv
<1>5. ExitInv'
  BY DEF ExitInv
<1>6. PidIsLoggedOn'
  BY DEF PidIsLoggedOn, LibraryInv, StartInv
<1>7. SuccessIsClean'
  BY DEF SuccessIsClean, ExitInv
<1> QED
  BY <1>1, <1>2, <1>3, <1>4, <1>5, <1>6, <1>7

LEMMA LogonFirstStep == SessionInv /\ LogonFirst => SessionInv'
<1> SUFFICES ASSUME SessionInv, LogonFirst PROVE SessionInv'
  OBVIOUS
<1> USE NoPid DEF LogonFirst, TfsLogon, SessionInv
<1>1. TypeOK'
  BY DEF TypeOK, Phases, Prompts
<1>2. LibraryInv'
  BY DEF LibraryInv
<1>3. StartInv'
  BY DEF StartInv, TypeOK
<1>4. PromptInv'
  BY DEF PromptInv, StartInv, LibraryInv
<1>5. ExitInv'
  BY DEF ExitInv
<1>6. PidIsLoggedOn'
  BY DEF PidIsLoggedOn, LibraryInv, StartInv
<1>7. SuccessIsClean'
  BY DEF SuccessIsClean, ExitInv
<1> QED
  BY <1>1, <1>2, <1>3, <1>4, <1>5, <1>6, <1>7

LEMMA LogonStep == SessionInv /\ Logon => SessionInv'
<1> SUFFICES ASSUME SessionInv, Logon PROVE SessionInv'
  OBVIOUS
<1> USE NoPid, DonePhase DEF Logon, TfsLogon, SessionInv
<1>1. TypeOK'
  BY DEF TypeOK, Phases, Prompts
<1>2. LibraryInv'
  BY DEF LibraryInv
<1>3. StartInv'
  BY DEF StartInv, TypeOK
<1>4. PromptInv'
  BY DEF PromptInv, StartInv, LibraryInv
<1>5. ExitInv'
  BY DEF ExitInv
<1>6. PidIsLoggedOn'
  BY DEF PidIsLoggedOn, LibraryInv, StartInv
<1>7. SuccessIsClean'
  BY DEF SuccessIsClean, ExitInv
<1> QED
  BY <1>1, <1>2, <1>3, <1>4, <1>5, <1>6, <1>7

LEMMA LogoffStep == SessionInv /\ Logoff => SessionInv'
<1> SUFFICES ASSUME SessionInv, Logoff PROVE SessionInv'
  OBVIOUS
<1> USE DonePhase DEF Logoff, TfsLogoff, library, ForgetPid, SessionInv
<1>1. TypeOK'
  BY DEF TypeOK, Phases, Prompts
<1>2. LibraryInv'
  <2>1. UNCHANGED mounted /\ (logged = {} => logged' = {})
    OBVIOUS
  <2> QED
    BY <2>1 DEF LibraryInv
<1>3. StartInv'
  BY DEF StartInv, TypeOK
<1>4. PromptInv'
  BY DEF PromptInv, StartInv, LibraryInv
<1>5. ExitInv'
  BY DEF ExitInv
<1>6. PidIsLoggedOn'
  BY DEF PidIsLoggedOn, LibraryInv, StartInv
<1>7. SuccessIsClean'
  BY DEF SuccessIsClean, ExitInv
<1> QED
  BY <1>1, <1>2, <1>3, <1>4, <1>5, <1>6, <1>7

LEMMA MountStep == SessionInv /\ Mount => SessionInv'
<1> SUFFICES ASSUME SessionInv, Mount PROVE SessionInv'
  OBVIOUS
<1> USE DEF SessionInv
<1>1. /\ phase = "prompt"
      /\ phase' \in {"prompt", "terminate"}
      /\ UNCHANGED <<once, pid, exit_code, logged, refused>>
  BY DonePhase DEF Mount, TfsMount
<1>2. CASE UNCHANGED <<cwd, mounted, logged, refused>>
  BY <1>1, <1>2 DEF TypeOK, LibraryInv, StartInv, PromptInv, ExitInv, PidIsLoggedOn,
                    SuccessIsClean, Phases, Prompts
<1>3. CASE TfsMount /\ cwd' = "not logged on"
  <2>1. ~mounted /\ mounted' = TRUE
    BY <1>3 DEF TfsMount
  <2>2. TypeOK'
    BY <1>1, <1>3, <2>1 DEF TypeOK, Phases, Prompts
  <2>3. pid = -1
    BY <1>1, <2>1 DEF PidIsLoggedOn
  <2>4. LibraryInv' /\ StartInv' /\ ExitInv' /\ SuccessIsClean'
    BY <1>1, <2>1 DEF LibraryInv, StartInv, ExitInv, SuccessIsClean
  <2>5. PromptInv' /\ PidIsLoggedOn'
    BY <1>1, <1>3, <2>1, <2>3 DEF PromptInv, PidIsLoggedOn
  <2> QED
    BY <2>2, <2>4, <2>5
<1> QED
  BY <1>2, <1>3 DEF Mount, PromptMounted

LEMMA OfflineStep == SessionInv /\ Offline => SessionInv'
<1> SUFFICES ASSUME SessionInv, Offline PROVE SessionInv'
  OBVIOUS
<1> USE DEF Offline, TfsDown, Exit, SessionInv
<1>1. TypeOK'
  BY DEF TypeOK, Phases, Prompts
<1>2. LibraryInv'
  BY DEF LibraryInv
<1>3. StartInv'
  BY DEF StartInv, TypeOK
<1>4. PromptInv'
  BY DEF PromptInv, StartInv, LibraryInv
<1>5. ExitInv'
  BY DEF ExitInv
<1>6. PidIsLoggedOn'
  BY DEF PidIsLoggedOn, LibraryInv, StartInv
<1>7. SuccessIsClean'
  BY DEF SuccessIsClean, ExitInv
<1> QED
  BY <1>1, <1>2, <1>3, <1>4, <1>5, <1>6, <1>7

LEMMA OtherCommandStep == SessionInv /\ OtherCommand => SessionInv'
<1> SUFFICES ASSUME SessionInv, OtherCommand PROVE SessionInv'
  OBVIOUS
<1> USE DonePhase DEF OtherCommand, SessionInv
<1>1. TypeOK'
  BY DEF TypeOK, Phases, Prompts
<1>2. LibraryInv'
  BY DEF LibraryInv
<1>3. StartInv'
  BY DEF StartInv, TypeOK
<1>4. PromptInv'
  BY DEF PromptInv, StartInv, LibraryInv
<1>5. ExitInv'
  BY DEF ExitInv
<1>6. PidIsLoggedOn'
  BY DEF PidIsLoggedOn, LibraryInv, StartInv
<1>7. SuccessIsClean'
  BY DEF SuccessIsClean, ExitInv
<1> QED
  BY <1>1, <1>2, <1>3, <1>4, <1>5, <1>6, <1>7

LEMMA TerminateStep == SessionInv /\ Terminate => SessionInv'
<1> SUFFICES ASSUME SessionInv, Terminate PROVE SessionInv'
  OBVIOUS
<1> USE DEF Terminate, TfsDown, Exit, SessionInv
<1>1. TypeOK'
  BY DEF TypeOK, Phases, Prompts
<1>2. LibraryInv'
  BY DEF LibraryInv
<1>3. StartInv'
  BY DEF StartInv, TypeOK
<1>4. PromptInv'
  BY DEF PromptInv, StartInv, LibraryInv
<1>5. ExitInv'
  BY DEF ExitInv
<1>6. PidIsLoggedOn'
  BY DEF PidIsLoggedOn, LibraryInv, StartInv
<1>7. SuccessIsClean'
  BY DEF SuccessIsClean, ExitInv
<1> QED
  BY <1>1, <1>2, <1>3, <1>4, <1>5, <1>6, <1>7

LEMMA ListenStep == SessionInv /\ Listen => SessionInv'
<1> SUFFICES ASSUME SessionInv, Listen PROVE SessionInv'
  OBVIOUS
<1> USE DEF Listen, library, Exit, SessionInv
<1>1. TypeOK'
  BY DEF TypeOK, Phases, Prompts
<1>2. LibraryInv'
  BY DEF LibraryInv
<1>3. StartInv'
  BY DEF StartInv, TypeOK
<1>4. PromptInv'
  BY DEF PromptInv, StartInv, LibraryInv
<1>5. ExitInv'
  BY DEF ExitInv
<1>6. PidIsLoggedOn'
  BY DEF PidIsLoggedOn, LibraryInv, StartInv
<1>7. SuccessIsClean'
  BY DEF SuccessIsClean, ExitInv
<1> QED
  BY <1>1, <1>2, <1>3, <1>4, <1>5, <1>6, <1>7

LEMMA SessionInvStep == SessionInv /\ [Next]_vars => SessionInv'
<1> SUFFICES ASSUME SessionInv, [Next]_vars PROVE SessionInv'
  OBVIOUS
<1>1. CASE Next
  BY <1>1, StartStep, MountFirstStep, LogonFirstStep, LogonStep, LogoffStep, MountStep,
     OfflineStep, OtherCommandStep, TerminateStep, ListenStep DEF Next
<1>2. CASE UNCHANGED vars
  BY <1>2 DEF vars, SessionInv, TypeOK, LibraryInv, StartInv, PromptInv, ExitInv,
              PidIsLoggedOn, SuccessIsClean
<1> QED
  BY <1>1, <1>2

LEMMA SessionInvariant == Spec => []SessionInv
<1> QED
  BY SessionInvInit, SessionInvStep, PTL DEF Spec

-----------------------------------------------------------------------------
\* The shell never works for a logical process that the library has taken back
\* (logon and logoff, TFS_UTIL.C:155-187).
THEOREM PidIsLive == Spec => []PidIsLoggedOn
<1> QED
  BY SessionInvariant, PTL DEF SessionInv

\* The prompt never claims less than there is (TFS_UTIL.C:107, 186, 221).
THEOREM PromptIsNoUnderstatement == Spec => []PromptIsModest
<1>1. SessionInv => PromptIsModest
  BY DEF SessionInv, PromptInv, PromptIsModest
<1> QED
  BY <1>1, SessionInvariant, PTL

\* Whatever failed on the way, the file system is down when the shell exits with
\* success, unless the library refused (main and offline, TFS_UTIL.C:190-194, 288-291).
THEOREM SuccessLeavesNothing == Spec => []SuccessIsClean
<1> QED
  BY SessionInvariant, PTL DEF SessionInv

-----------------------------------------------------------------------------
\* What the commands hold.

\* The stack of a walk, whatever its paths are.
IsStack(f) == \E P, N, L : f \in Seq([fd : Fds, path : P, node : N, left : L])

IsFrame(r) == \E p, n, l : r \in [fd : Fds, path : {p}, node : {n}, left : {l}]

Distinct(f) == \A i, j \in DOMAIN f : f[i].fd = f[j].fd => i = j

FdsOf(f) == {f[i].fd : i \in DOMAIN f}

\* What is open, and not because its close has failed.
Held == descriptors \ leaked

HeldInv ==
    /\ command \in {"none", "find", "benchmark"}
    /\ IsStack(frames)
    /\ command = "none" => Held = {} /\ ~buffer
    /\ command = "find" => Held = FdsOf(frames) /\ Distinct(frames) /\ ~buffer
    /\ command = "benchmark" => Held = IF label \in Holding THEN {fd} ELSE {}

\* Commands run from a prompt to the next.
PhaseInv == command # "none" => phase \in {"prompt", "exited"}

-----------------------------------------------------------------------------
\* Lemmas about stacks.

LEMMA PushFrame ==
    ASSUME NEW f, IsStack(f), Distinct(f),
           NEW r, IsFrame(r), r.fd \notin FdsOf(f)
    PROVE  /\ IsStack(Append(f, r)) /\ Distinct(Append(f, r))
           /\ FdsOf(Append(f, r)) = FdsOf(f) \cup {r.fd}
<1> DEFINE g == Append(f, r)
           d == r.fd
<1>0. PICK p, n, l : r \in [fd : Fds, path : {p}, node : {n}, left : {l}]
  BY DEF IsFrame
<1>1. PICK P, N, L : f \in Seq([fd : Fds, path : P, node : N, left : L])
  BY DEF IsStack
<1> DEFINE R == [fd : Fds, path : P \cup {p}, node : N \cup {n}, left : L \cup {l}]
<1>2. r \in R
  BY <1>0
<1>3. f \in Seq(R)
  BY <1>1, SeqMonotonic
<1>4. g \in Seq(R) /\ Len(g) = Len(f) + 1
      /\ (\A i \in 1..Len(f) : g[i] = f[i]) /\ g[Len(f) + 1] = r
  <2> HIDE DEF R
  <2> QED
    BY <1>2, <1>3, AppendProperties
<1>5. IsStack(g)
  BY <1>4 DEF IsStack
<1>6. Len(f) \in Nat /\ DOMAIN f = 1..Len(f) /\ DOMAIN g = 1..(Len(f) + 1)
  <2> HIDE DEF R
  <2> QED
    BY <1>3, <1>4, LenProperties
<1>7. \A i \in DOMAIN g : (i \in DOMAIN f /\ g[i] = f[i]) \/ (i = Len(f) + 1 /\ g[i].fd = d)
  BY <1>4, <1>6
<1>8. \A i \in DOMAIN f : i \in DOMAIN g /\ g[i] = f[i] /\ f[i].fd # d
  BY <1>4, <1>6 DEF FdsOf
<1>9. g[Len(f) + 1].fd = d /\ Len(f) + 1 \in DOMAIN g
  BY <1>4, <1>6
<1>10. Distinct(g)
  BY <1>7, <1>8 DEF Distinct
<1>11. FdsOf(g) = FdsOf(f) \cup {d}
  BY <1>7, <1>8, <1>9 DEF FdsOf
<1> QED
  BY <1>5, <1>10, <1>11

LEMMA PopFrame ==
    ASSUME NEW f, IsStack(f), Distinct(f), f # <<>>
    PROVE  /\ IsStack(Front(f)) /\ Distinct(Front(f))
           /\ Last(f).fd \in FdsOf(f)
           /\ FdsOf(Front(f)) = FdsOf(f) \ {Last(f).fd}
<1>1. PICK P, N, L : f \in Seq([fd : Fds, path : P, node : N, left : L])
  BY DEF IsStack
<1> DEFINE R == [fd : Fds, path : P, node : N, left : L]
<1> HIDE DEF R
<1>2. f \in Seq(R)
  BY <1>1 DEF R
<1>3. Len(f) \in Nat \ {0} /\ DOMAIN f = 1..Len(f)
  BY <1>2, EmptySeq, LenProperties
<1>4. /\ Front(f) \in Seq(R)
      /\ DOMAIN Front(f) = 1..(Len(f) - 1)
      /\ \A i \in 1..(Len(f) - 1) : Front(f)[i] = f[i]
  <2>1. Front(f) = [i \in 1..(Len(f) - 1) |-> f[i]]
    BY <1>2, <1>3 DEF Front
  <2>2. \A i \in 1..(Len(f) - 1) : f[i] \in R
    BY <1>2, <1>3, ElementOfSeq
  <2>3. Front(f) \in [1..(Len(f) - 1) -> R] /\ Len(f) - 1 \in Nat
    BY <2>1, <2>2, <1>3
  <2>4. Front(f) \in Seq(R)
    BY <2>3, SeqDef
  <2> QED
    BY <2>1, <2>4
<1>5. IsStack(Front(f))
  BY <1>4 DEF IsStack, R
<1>6. \A i \in DOMAIN f : (i \in DOMAIN Front(f) /\ Front(f)[i] = f[i]) \/ i = Len(f)
  BY <1>3, <1>4
<1>7. \A i \in DOMAIN Front(f) : i \in DOMAIN f /\ Front(f)[i] = f[i] /\ i # Len(f)
  BY <1>3, <1>4
<1>8. Last(f) = f[Len(f)] /\ Len(f) \in DOMAIN f
  BY <1>3 DEF Last
<1>9. Distinct(Front(f))
  BY <1>7 DEF Distinct
<1>10. FdsOf(Front(f)) = FdsOf(f) \ {Last(f).fd}
  BY <1>6, <1>7, <1>8 DEF FdsOf, Distinct
<1> QED
  BY <1>5, <1>8, <1>9, <1>10 DEF FdsOf

\* An entry is taken off the directory on top.
LEMMA ReadFrame ==
    ASSUME NEW f, IsStack(f), Distinct(f), f # <<>>,
           NEW g, g = Append(Front(f), [Last(f) EXCEPT !.left = Tail(@)])
    PROVE  IsStack(g) /\ Distinct(g) /\ FdsOf(g) = FdsOf(f)
<1>1. PICK P, N, L : f \in Seq([fd : Fds, path : P, node : N, left : L])
  BY DEF IsStack
<1> DEFINE R == [fd : Fds, path : P, node : N, left : L]
<1>2. Last(f) \in R
  <2> HIDE DEF R
  <2>1. f \in Seq(R)
    BY <1>1 DEF R
  <2>2. Len(f) \in Nat \ {0}
    BY <2>1, EmptySeq
  <2> QED
    BY <2>1, <2>2, ElementOfSeq DEF Last
<1> DEFINE r == [Last(f) EXCEPT !.left = Tail(Last(f).left)]
<1>3. IsFrame(r) /\ r.fd = Last(f).fd
  <2>1. r \in [fd : Fds, path : {Last(f).path}, node : {Last(f).node}, left : {r.left}]
        /\ r.fd = Last(f).fd
    BY <1>2
  <2> QED
    BY <2>1 DEF IsFrame
<1>4. /\ IsStack(Front(f)) /\ Distinct(Front(f))
      /\ Last(f).fd \in FdsOf(f)
      /\ FdsOf(Front(f)) = FdsOf(f) \ {Last(f).fd}
  BY PopFrame
<1>5. g = Append(Front(f), r)
  OBVIOUS
<1> DEFINE h == Front(f)
<1> HIDE DEF r, R, h
<1>6. IsStack(h) /\ Distinct(h) /\ IsFrame(r) /\ r.fd \notin FdsOf(h)
  BY <1>3, <1>4 DEF h
<1>7. /\ IsStack(Append(h, r)) /\ Distinct(Append(h, r))
      /\ FdsOf(Append(h, r)) = FdsOf(h) \cup {r.fd}
  BY <1>6, PushFrame
<1> QED
  BY <1>3, <1>4, <1>5, <1>7 DEF h

LEMMA NoFrames == IsStack(<<>>) /\ Distinct(<<>>) /\ FdsOf(<<>>) = {}
<1>1. <<>> \in Seq([fd : Fds, path : {}, node : {}, left : {}])
  BY EmptySeq
<1> QED
  BY <1>1 DEF IsStack, Distinct, FdsOf

-----------------------------------------------------------------------------
\* What the calls do to the descriptors that are held.

LEMMA OpenHeld ==
    ASSUME NEW d, TfsOpen(d)
    PROVE  d \in Fds /\ d \notin Held /\ Held' = Held \cup {d}
  BY DEF TfsOpen, Held

LEMMA CloseHeld ==
    ASSUME NEW d, TfsClose(d) \/ TfsCloseFails(d)
    PROVE  Held' = Held \ {d}
  BY DEF TfsClose, TfsCloseFails, Held

LEMMA KeptHeld ==
    ASSUME UNCHANGED <<descriptors, leaked>>
    PROVE  Held' = Held
  BY DEF Held

-----------------------------------------------------------------------------
\* One lemma for each action.

LEMMA VisitStep ==
    ASSUME NEW path, NEW node, NEW below, Visit(path, node, below),
           IsStack(below), Distinct(below), Held = FdsOf(below)
    PROVE  IsStack(frames') /\ Distinct(frames') /\ Held' = FdsOf(frames')
<1>1. CASE frames' = below /\ UNCHANGED <<descriptors, leaked>>
  BY <1>1, KeptHeld
<1>2. CASE \E new \in Fds :
              /\ TfsOpen(new)
              /\ frames' = Append(below, [fd |-> new, path |-> path, node |-> node,
                                          left |-> Entries(node)])
  <2>1. PICK new \in Fds :
              /\ TfsOpen(new)
              /\ frames' = Append(below, [fd |-> new, path |-> path, node |-> node,
                                          left |-> Entries(node)])
    BY <1>2
  <2>2. new \notin FdsOf(below) /\ Held' = Held \cup {new}
    BY <2>1, OpenHeld
  <2> DEFINE r == [fd |-> new, path |-> path, node |-> node, left |-> Entries(node)]
  <2>3. IsFrame(r) /\ r.fd = new /\ frames' = Append(below, r)
    BY <2>1 DEF IsFrame
  <2>4. IsStack(frames') /\ Distinct(frames') /\ FdsOf(frames') = FdsOf(below) \cup {new}
    <3> HIDE DEF r
    <3> QED
      BY <2>2, <2>3, PushFrame
  <2> QED
    BY <2>2, <2>4
<1> QED
  BY <1>1, <1>2 DEF Visit

LEMMA FindHeld ==
    ASSUME HeldInv, FindStep, UNCHANGED bench
    PROVE  HeldInv'
<1>1. CASE FindStart
  BY <1>1, NoFrames, KeptHeld DEF HeldInv, FindStart, files, bench
<1>2. CASE FindNextPath
  <2>1. Held = FdsOf(<<>>) /\ Visit(Head(queue), Head(queue), <<>>)
    BY <1>2 DEF HeldInv, FindNextPath
  <2>2. IsStack(frames') /\ Distinct(frames') /\ Held' = FdsOf(frames')
    BY <2>1, NoFrames, VisitStep
  <2> QED
    BY <1>2, <2>2 DEF HeldInv, FindNextPath, bench
<1>3. CASE FindReadEntry
  <2> DEFINE rest == Append(Front(frames), [Last(frames) EXCEPT !.left = Tail(@)])
             entry == Head(Last(frames).left)
  <2>1. IsStack(rest) /\ Distinct(rest) /\ Held = FdsOf(rest)
    <3>1. command = "find" /\ frames # <<>>
      BY <1>3 DEF FindReadEntry
    <3> QED
      BY <3>1, ReadFrame DEF HeldInv
  <2>2. \/ frames' = rest /\ UNCHANGED <<descriptors, leaked>>
        \/ Visit(EntryPath(Last(frames).path, entry), Node(Last(frames).node, entry), rest)
    BY <1>3 DEF FindReadEntry
  <2>3. IsStack(frames') /\ Distinct(frames') /\ Held' = FdsOf(frames')
    <3> HIDE DEF rest
    <3> QED
      BY <2>1, <2>2, VisitStep, KeptHeld
  <2>4. command = "find" /\ command' = "find" /\ ~buffer /\ buffer' = buffer
    BY <1>3 DEF FindReadEntry, HeldInv, bench
  <2> QED
    BY <2>3, <2>4 DEF HeldInv
<1>4. CASE FindClose
  <2>1. /\ command = "find" /\ command' = "find" /\ ~buffer /\ buffer' = buffer
        /\ frames # <<>> /\ frames' = Front(frames)
        /\ TfsClose(Last(frames).fd) \/ TfsCloseFails(Last(frames).fd)
    BY <1>4 DEF FindClose, CloseDir, HeldInv, bench
  <2>2. Held' = Held \ {Last(frames).fd}
    BY <2>1, CloseHeld
  <2>3. /\ IsStack(frames') /\ Distinct(frames')
        /\ FdsOf(frames') = FdsOf(frames) \ {Last(frames).fd}
    BY <2>1, PopFrame DEF HeldInv
  <2> QED
    BY <2>1, <2>2, <2>3 DEF HeldInv
<1>5. CASE FindEnd
  <2>1. /\ command = "find" /\ command' = "none" /\ ~buffer /\ buffer' = buffer
        /\ frames = <<>> /\ frames' = <<>> /\ UNCHANGED <<descriptors, leaked>>
    BY <1>5 DEF FindEnd, End, files, HeldInv, bench
  <2> QED
    BY <2>1, NoFrames, KeptHeld DEF HeldInv
<1>6. CASE FindOverrun
  <2>1. /\ command = "find" /\ command' = "find" /\ ~buffer /\ buffer' = buffer
        /\ frames' = frames /\ UNCHANGED <<descriptors, leaked>>
    BY <1>6 DEF FindOverrun, files, HeldInv, bench
  <2> QED
    BY <2>1, KeptHeld DEF HeldInv
<1> QED
  BY <1>1, <1>2, <1>3, <1>4, <1>5, <1>6 DEF FindStep

LEMMA OpenStep ==
    ASSUME NEW made, NEW then, then \in Holding, Held = {}, Open(made, then)
    PROVE  Held' = IF label' \in Holding THEN {fd'} ELSE {}
<1>1. CASE \E new \in Fds : TfsOpen(new) /\ fd' = new /\ label' = then
  BY <1>1, OpenHeld
<1>2. CASE label' = "err_exit" /\ UNCHANGED files
  BY <1>2, KeptHeld DEF files, Holding
<1> QED
  BY <1>1, <1>2 DEF Open

LEMMA BenchHeld ==
    ASSUME HeldInv, BenchStep, UNCHANGED walk
    PROVE  HeldInv'
<1>0. IsStack(frames')
  BY DEF walk, HeldInv
<1>1. CASE BenchStart
  <2>1. command' = "benchmark" /\ Held = {} /\ Open({<<"temp.dat">>}, "write")
    BY <1>1 DEF BenchStart, HeldInv
  <2> QED
    BY <1>0, <2>1, OpenStep DEF HeldInv, Holding
<1>2. CASE BenchWrite \/ BenchRead
  <2>1. /\ command = "benchmark" /\ command' = "benchmark"
        /\ label \in Holding /\ label' \in Holding
        /\ UNCHANGED <<descriptors, leaked, fd>>
    BY <1>2 DEF BenchWrite, BenchRead, Loop, Holding, files
  <2> QED
    BY <1>0, <2>1, KeptHeld DEF HeldInv
<1>3. CASE BenchClose \/ BenchErrClose
  <2>1. /\ command = "benchmark" /\ command' = "benchmark"
        /\ label \in Holding /\ label' \notin Holding
        /\ TfsClose(fd) \/ TfsCloseFails(fd)
    BY <1>3 DEF BenchClose, BenchErrClose, CloseFailed, Holding
  <2> QED
    BY <1>0, <2>1, CloseHeld DEF HeldInv
<1>4. CASE BenchReopen
  <2>1. command' = "benchmark" /\ Held = {} /\ Open({}, "read")
    BY <1>4 DEF BenchReopen, HeldInv, Holding
  <2> QED
    BY <1>0, <2>1, OpenStep DEF HeldInv, Holding
<1>5. CASE BenchErrExit
  <2>1. command' = "none" /\ buffer' = FALSE /\ Held = {} /\ UNCHANGED <<descriptors, leaked>>
    BY <1>5 DEF BenchErrExit, End, Free, files, HeldInv, Holding
  <2> QED
    BY <1>0, <2>1, KeptHeld DEF HeldInv
<1> QED
  BY <1>1, <1>2, <1>3, <1>4, <1>5 DEF BenchStep

LEMMA SessionHeld ==
    ASSUME HeldInv, Session
    PROVE  HeldInv'
<1>1. UNCHANGED <<command, frames, label, buffer, fd>>
  BY DEF Session, walk, bench
<1>2. CASE UNCHANGED <<descriptors, leaked>>
  BY <1>1, <1>2, KeptHeld DEF HeldInv
<1>3. CASE descriptors' = {} /\ leaked' = {} /\ command = "none"
  BY <1>1, <1>3 DEF HeldInv, Held
<1>4. command = "none" \/ UNCHANGED <<descriptors, leaked>>
  BY DEF Session, Listen, Exit, library
<1> QED
  BY <1>2, <1>3, <1>4 DEF Session

LEMMA HeldInvStep == HeldInv /\ [ShellNext]_shell_vars => HeldInv'
<1>1. ASSUME HeldInv, UNCHANGED shell_vars
      PROVE  HeldInv'
  BY <1>1, KeptHeld DEF shell_vars, files, walk, bench, HeldInv
<1> QED
  BY <1>1, SessionHeld, FindHeld, BenchHeld DEF ShellNext

LEMMA HeldInvInit == ShellInit => HeldInv
  BY NoFrames DEF ShellInit, FindInit, BenchInit, HeldInv, Held

-----------------------------------------------------------------------------
\* Between the prompts.

LEMMA FindKeepsVars ==
    ASSUME FindStart \/ FindNextPath \/ FindReadEntry \/ FindOverrun \/ FindClose
    PROVE  UNCHANGED vars /\ command' = "find" /\ (command = "find" \/ phase = "prompt")
  BY DEF FindStart, FindNextPath, FindReadEntry, FindOverrun, FindClose

LEMMA BenchKeepsVars ==
    ASSUME BenchStart \/ BenchWrite \/ BenchClose \/ BenchReopen \/ BenchRead \/ BenchErrClose
    PROVE  UNCHANGED vars /\ command' = "benchmark" /\ (command = "benchmark" \/ phase = "prompt")
  BY DEF BenchStart, BenchWrite, BenchClose, BenchReopen, BenchRead, BenchErrClose, Loop

LEMMA EndIsOtherCommand ==
    ASSUME PhaseInv, phase # "exited", FindEnd \/ BenchErrExit
    PROVE  OtherCommand /\ command' = "none"
<1>1. phase = "prompt"
  BY DEF PhaseInv, FindEnd, BenchErrExit
<1>2. End
  BY DEF FindEnd, BenchErrExit
<1> QED
  BY <1>1, <1>2 DEF End, OtherCommand

LEMMA PhaseInvStep == PhaseInv /\ [ShellNext]_shell_vars => PhaseInv'
<1> SUFFICES ASSUME PhaseInv, [ShellNext]_shell_vars PROVE PhaseInv'
  OBVIOUS
<1>1. CASE Session
  <2>1. command' = command /\ (command = "none" \/ phase' = "exited")
    BY <1>1 DEF Session, Listen, Exit
  <2> QED
    BY <2>1 DEF PhaseInv
<1>2. CASE phase # "exited" /\ FindStep
  BY <1>2, FindKeepsVars, EndIsOtherCommand DEF FindStep, PhaseInv, vars
<1>3. CASE phase # "exited" /\ BenchStep
  BY <1>3, BenchKeepsVars, EndIsOtherCommand DEF BenchStep, PhaseInv, vars
<1>4. CASE UNCHANGED shell_vars
  BY <1>4 DEF shell_vars, vars, PhaseInv
<1> QED
  BY <1>1, <1>2, <1>3, <1>4 DEF ShellNext

LEMMA StepIsSession == PhaseInv /\ [ShellNext]_shell_vars => [Next]_vars
<1> SUFFICES ASSUME PhaseInv, [ShellNext]_shell_vars PROVE [Next]_vars
  OBVIOUS
<1>1. CASE Session
  BY <1>1 DEF Session, Next
<1>2. CASE phase # "exited" /\ FindStep
  BY <1>2, FindKeepsVars, EndIsOtherCommand DEF FindStep, Next
<1>3. CASE phase # "exited" /\ BenchStep
  BY <1>3, BenchKeepsVars, EndIsOtherCommand DEF BenchStep, Next
<1>4. CASE UNCHANGED shell_vars
  BY <1>4 DEF shell_vars
<1> QED
  BY <1>1, <1>2, <1>3, <1>4 DEF ShellNext

-----------------------------------------------------------------------------
\* Whatever find and benchmark do, and wherever listen ends them, the shell is the
\* session of Tfsh (TFS_UTIL.C:128-149).
THEOREM CommandsKeepSession == ShellSpec => KeepsSession
<1>1. ShellInit => Init /\ PhaseInv
  BY DEF ShellInit, PhaseInv
<1> QED
  BY <1>1, PhaseInvStep, StepIsSession, PTL DEF ShellSpec, KeepsSession, Spec

\* So what holds of every session holds of the shell with its commands: they run for a
\* live process or for none, the prompt denies nothing, and success leaves nothing.
THEOREM ShellIsSound == ShellSpec => [](PidIsLoggedOn /\ PromptIsModest /\ SuccessIsClean)
  BY CommandsKeepSession, PidIsLive, PromptIsNoUnderstatement, SuccessLeavesNothing, PTL
     DEF KeepsSession

LEMMA HeldAlways == ShellSpec => []HeldInv
  BY HeldInvInit, HeldInvStep, PTL DEF ShellSpec

\* A command closes each descriptor once and none of another level, for every tree,
\* every depth and every failure (FIND.C:16-42, BENCH.C:83-132).
THEOREM EachClosedOnce == ShellSpec => []ClosedOnce
<1>1. HeldInv => ClosedOnce
  BY DEF HeldInv, Held, ClosedOnce, Distinct, FdsOf
<1> QED
  BY <1>1, HeldAlways, PTL

\* A command that is over holds no descriptor and no buffer (FIND.C:14-45, BENCH.C:41-132).
THEOREM NothingKept == ShellSpec => []CommandsCleanUp
<1>1. HeldInv => CommandsCleanUp
  BY DEF HeldInv, Held, CommandsCleanUp
<1> QED
  BY <1>1, HeldAlways, PTL
=============================================================================
