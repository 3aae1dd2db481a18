------------------------------ MODULE ScsiTarget ------------------------------
(***************************************************************************)
(* The target driver inside the SCSI library.  The library's code is not   *)
(* part of the repository: its actions are what scsi_target(3) and         *)
(* scsi_lock(3) promise and what the driver relies on.  It selects, moves  *)
(* data, disconnects, reselects, and reports resets and aborts, each with  *)
(* the SCSI system locked.  A reset may be reported any number of times,   *)
(* and a nexus may be aborted at any moment, as scsi_target(3) says.       *)
(***************************************************************************)
EXTENDS TargetDriver

CONSTANTS
    Reported        \* the reasons for which the library ends a command

ASSUME ReportedAssumption == Reported \subseteq Terminations

VARIABLES
    moved,          \* the initiator's data pointer: bytes moved for its command
    condemned,      \* nexuses whose disconnected command has been terminated
    signalled,      \* a termination has been reported since the last disconnect
    upset,          \* a second one has, and the target has not been idle since
    crossed         \* one nexus has been aborted while the command of another
                    \* was disconnected, and the target not idle since

busVars == <<moved, condemned, signalled, upset, crossed>>
vars == <<residue, direction, busy, working, target, stage, lock,
          moved, condemned, signalled, upset, crossed>>

Unlocked == {n \in Nexus : stage[n] = "unlocked"}
Attached(n) == stage[n] \notin {"idle", "unlocked"}

ClearTarget == [reason |-> "STARG_COMPLETE", cdb |-> NoCdb, data_len |-> 0,
                status |-> "GOOD", no_disconnects |-> FALSE]

TypeOK ==
    /\ residue \in Int
    /\ direction \in Directions \cup {"garbage"}
    /\ busy \in BOOLEAN
    /\ working \in BOOLEAN
    /\ target \in [Nexus -> Targets]
    /\ stage \in [Nexus -> Stages]
    /\ lock \in Nexus \cup {NoNexus}
    /\ moved \in [Nexus -> Nat]
    /\ condemned \subseteq Nexus
    /\ signalled \in BOOLEAN
    /\ upset \in BOOLEAN
    /\ crossed \in BOOLEAN

Init ==
    /\ DriverInit
    /\ target = [n \in Nexus |-> ClearTarget]
    /\ stage = [n \in Nexus |-> "idle"]
    /\ lock = NoNexus
    /\ moved = [n \in Nexus |-> 0]
    /\ condemned = {}
    /\ signalled = FALSE
    /\ upset = FALSE
    /\ crossed = FALSE

-----------------------------------------------------------------------------
Call(n, reason) ==
    /\ target' = [target EXCEPT ![n].reason = reason]
    /\ stage' = [stage EXCEPT ![n] = "callback"]

\* An initiator selects the target and sends a command descriptor block.  Its
\* IDENTIFY message says whether the target may disconnect.
Select(n) ==
    /\ stage[n] = "idle"
    /\ lock = NoNexus
    /\ lock' = n
    /\ \E cdb \in Cdbs, no_disconnects \in BOOLEAN :
          target' = [target EXCEPT ![n].reason = "STARG_COMMAND",
                                   ![n].cdb = cdb,
                                   ![n].no_disconnects = no_disconnects]
    /\ stage' = [stage EXCEPT ![n] = "callback"]
    /\ UNCHANGED <<driverVars, busVars>>

\* The data pointer is not followed while the target is upset, where nothing is
\* said of it: this keeps it bounded.
Transfer(n) ==
    /\ stage[n] \in Directions
    /\ moved' = IF upset THEN moved
                         ELSE [moved EXCEPT ![n] = @ + target[n].data_len]
    /\ Call(n, stage[n])
    /\ UNCHANGED <<driverVars, lock, condemned, signalled, upset, crossed>>

Disconnect(n) ==
    /\ stage[n] = "STARG_SAVE_AND_DISCONNECT"
    /\ Call(n, "STARG_DISCONNECT")
    /\ UNCHANGED <<driverVars, lock, busVars>>

Reselect(n) ==
    /\ stage[n] = "STARG_RESELECT"
    /\ Call(n, "STARG_RESELECT")
    /\ UNCHANGED <<driverVars, lock, busVars>>

\* Status sent, or the command given up: the library lets go of the nexus.  Its
\* structure is cleared, for each field is set again before it is next read.
\* Once every nexus is idle nothing is left of what upset the target.
OthersIdle(n) == \A m \in Nexus \ {n} : stage[m] = "idle"

Finish(n) ==
    /\ stage[n] \in Final
    /\ stage' = [stage EXCEPT ![n] = "idle"]
    /\ lock' = NoNexus
    /\ moved' = [moved EXCEPT ![n] = 0]
    /\ condemned' = condemned \ {n}
    /\ target' = [target EXCEPT ![n] = ClearTarget]
    /\ upset' = (upset /\ ~OthersIdle(n))
    /\ crossed' = (crossed /\ ~OthersIdle(n))
    /\ UNCHANGED <<driverVars, signalled>>

\* An abort ends the command of its own nexus.  A bus reset ends every command,
\* and so does SCSI_NOT_OK, the answer to an invalid reason: the library then
\* resets the bus.
Condemn(n, reason) ==
    IF reason = "STARG_ABORT" THEN Unlocked \cap {n} ELSE Unlocked

Report(n, reason) ==
    /\ reason \in Reported
    /\ condemned' = condemned \cup Condemn(n, reason)
    /\ signalled' = (signalled \/ Unlocked # {})
    /\ upset' = (upset \/ (signalled /\ Unlocked # {}))
    /\ crossed' = (crossed \/ (reason = "STARG_ABORT" /\ ~(Unlocked \subseteq {n})))

\* A connected command is interrupted: the next callback is not the one that
\* the driver's last reply asked for.
Interrupt(n) ==
    /\ Attached(n)
    /\ stage[n] \in (Replies \ Final) \cup {"STARG_COMPLETE"}
    /\ \E reason \in Reported : Report(n, reason) /\ Call(n, reason)
    /\ UNCHANGED <<driverVars, lock, moved>>

\* A reset or an abort that arrives while no command holds the bus, for a nexus
\* that is idle or has disconnected.  The whole callback runs under the lock and
\* nothing else sees the lock taken.
Signal(n) ==
    /\ ~Attached(n)
    /\ lock = NoNexus
    /\ \E reason \in Reported \ {"INVALID"} :
          /\ Report(n, reason)
          /\ target' = [target EXCEPT ![n].reason = reason]
    /\ ClearFlags
    /\ UNCHANGED <<stage, lock, moved>>

\* The driver's steps.  No termination has been reported since a disconnect.
Callback(n) ==
    /\ TargetCallback(n)
    /\ signalled' = IF target[n].reason = "STARG_DISCONNECT" THEN FALSE ELSE signalled
    /\ UNCHANGED <<moved, condemned, upset, crossed>>

Resume(n) ==
    /\ Relock(n)
    /\ signalled' = FALSE
    /\ UNCHANGED <<moved, condemned, upset, crossed>>

Progress(n) ==
    \/ Callback(n)
    \/ Transfer(n)
    \/ Disconnect(n)
    \/ Reselect(n)
    \/ Finish(n)

Next ==
    \E n \in Nexus :
        \/ Select(n)
        \/ Interrupt(n)
        \/ Signal(n)
        \/ Resume(n)
        \/ Progress(n)

Spec == Init /\ [][Next]_vars

\* The library moves on with a nexus it holds, and its lock is a queue: whoever
\* asks for it gets it although others keep taking it.
Fairness == \A n \in Nexus : WF_vars(Progress(n)) /\ SF_vars(Resume(n))
FairSpec == Spec /\ Fairness

-----------------------------------------------------------------------------
\* A command that the driver has accepted and the library has not ended.
InCommand(n) ==
    \/ stage[n] \in Directions
    \/ stage[n] \in {"STARG_SAVE_AND_DISCONNECT", "STARG_RESELECT", "unlocked"}
    \/ /\ stage[n] = "callback"
       /\ target[n].reason \in Directions
                                   \cup {"STARG_DISCONNECT", "STARG_RESELECT"}

Requested(cdb) ==
    CASE cdb.op = "INQUIRY"           -> InquiryLength(cdb.len)
      [] cdb.op \in {"SEND", "RECEIVE"} -> cdb.len
      [] OTHER                        -> 0

DirectionOf(cdb) ==
    IF cdb.op = "SEND" THEN "STARG_DATA_OUT" ELSE "STARG_DATA_IN"

\* Every transfer the driver asks for has something to move and fits its
\* buffer, whatever was terminated before it (data_len, TARGET.C:112-114,
\* 193-196, 240-243).
ChunkFits ==
    \A n \in Nexus : stage[n] \in Directions =>
        target[n].data_len > 0 /\ target[n].data_len <= DATA_SIZE

\* What the driver does right as long as it is not upset: a reset reported again
\* while a command is disconnected frees it too early (the run target_two_resets).

OneInCommand ==
    \A m, n \in Nexus : InCommand(m) /\ InCommand(n) => m = n

\* The busy flag admits one command at a time, disconnected ones included
\* (TARGET.C:42-50, 250-252).
OneAtATime == ~upset => OneInCommand

\* The busy flag is never left set behind the last command, which would have
\* the driver answer BUSY for ever (TARGET.C:177, 225, 252).
NoBusyLeak ==
    busy => \E n \in Nexus :
                \/ InCommand(n)
                \/ stage[n] = "callback" /\ target[n].reason \in Terminations

GoodHasMoved ==
    \A n \in Nexus : stage[n] = "STARG_COMPLETE" /\ target[n].status = "GOOD"
                        => moved[n] = Requested(target[n].cdb)

\* A command that ends with status GOOD has moved every byte it asked for, over
\* however many disconnects (TARGET.C:172-179).
CompleteMeansAll == ~upset => GoodHasMoved

OwnDirection ==
    \A n \in Nexus : stage[n] \in Directions =>
                        stage[n] = DirectionOf(target[n].cdb)

\* A transfer goes the way its own command asked, also when it is resumed with
\* the direction saved over a disconnect (TARGET.C:204, 245).
DirectionKept == ~upset => OwnDirection

TerminatedNotReselected ==
    \A n \in Nexus : stage[n] = "STARG_RESELECT" => n \notin condemned

\* A command that was reset or aborted while disconnected is not resumed
\* (TARGET.C:221-228).
ReselectOnlyLive == ~upset => TerminatedNotReselected

OnlyTerminatedRestarted ==
    \A n \in Nexus : stage[n] = "STARG_RESTART" => n \in condemned

\* Only a command that was reset or aborted while disconnected is restarted, unless
\* some other nexus was aborted meanwhile (TARGET.C:221-228, 259-267).
RestartOnlyTerminated == ~upset /\ ~crossed => OnlyTerminatedRestarted

\* What a disconnected command needs to resume is left alone by every command
\* that is handled meanwhile (TARGET.C:42-50, 215-218).
ParkedStateStable ==
    [][~upset => \A n \in Nexus : stage[n] = "unlocked" /\ stage'[n] = "unlocked"
            => UNCHANGED <<residue, direction>>]_vars

\* The nexus whose command keeps the driver busy: the one in a command, or the
\* one whose connected command is being terminated.
Owner ==
    CHOOSE n \in Nexus :
        \/ InCommand(n)
        \/ Unlocked = {} /\ stage[n] = "callback" /\ target[n].reason \in Terminations

Promise == INSTANCE TargetPromise WITH
    Buffer <- DATA_SIZE,
    owner  <- IF busy THEN Owner ELSE NoNexus,
    left   <- IF busy THEN residue ELSE 0,
    aside  <- busy /\ Unlocked # {},
    upset  <- upset

\* The driver, with its flags and its lock, does only what TargetPromise allows:
\* one command at a time, each served until all of it has moved or it is ended,
\* and again so after it has been upset (TARGET.C:159-287).
ServesAsPromised == Promise!PromiseSpec

\* Every accepted command comes to an end, unless the target is upset: one that
\* resumes with what others have left may go on for as long as others come
\* (TARGET.C:164-287).
EveryCommandEnds ==
    \A n \in Nexus : InCommand(n) ~> (stage[n] = "idle" \/ upset)

\* The driver always becomes ready again, upset or not (TARGET.C:42-50).
BusyEnds == busy ~> ~busy
=============================================================================
