--------------------------- MODULE TargetInvariants ---------------------------
(***************************************************************************)
(* The inductive invariants behind the safety properties of ScsiTarget.    *)
(* DriverInv holds always, CalmInv while the target is not upset, and      *)
(* IdleInv is what an upset target settles from.                           *)
(***************************************************************************)
EXTENDS ScsiTarget

Terminating(n) == stage[n] = "callback" /\ target[n].reason \in Terminations

\* Data is on the bus, or the driver is about to be told that it was.
Moving(n) ==
    \/ stage[n] \in Directions
    \/ stage[n] = "callback" /\ target[n].reason \in Directions

\* A command with bytes left, on its way to or from a disconnect.
Turning(n) ==
    \/ stage[n] \in {"STARG_SAVE_AND_DISCONNECT", "STARG_RESELECT"}
    \/ /\ stage[n] = "callback"
       /\ target[n].reason \in {"STARG_DISCONNECT", "STARG_RESELECT"}

\* scsi_lock is held by the nexus the library works for, and by no other.
LockInv == \A n \in Nexus : Attached(n) <=> lock = n

\* The working flag stands for a disconnected command with bytes left to move.
WorkingInv ==
    working => /\ busy
               /\ residue > 0
               /\ direction \in Directions
               /\ Unlocked # {}

MovingInv ==
    \A n \in Nexus : Moving(n) =>
        /\ busy
        /\ ~working
        /\ target[n].data_len > 0
        /\ target[n].data_len <= residue
        /\ target[n].data_len <= DATA_SIZE

TurningInv ==
    \A n \in Nexus : Turning(n) =>
        /\ busy
        /\ ~working
        /\ residue > 0
        /\ direction \in Directions

DriverInv ==
    /\ TypeOK
    /\ LockInv
    /\ WorkingInv
    /\ MovingInv
    /\ TurningInv
    /\ NoBusyLeak

-----------------------------------------------------------------------------
InCommandBusy == \A n \in Nexus : InCommand(n) => busy

\* The one termination that may be reported is what clears the working flag of
\* a disconnected command, and it is used up.
ParkedInv ==
    \A n \in Nexus : stage[n] = "unlocked" =>
        /\ ~signalled => working
        /\ (\E m \in Nexus : Terminating(m)) => working /\ signalled

CondemnedInv ==
    \A n \in condemned :
        \/ stage[n] = "unlocked" /\ (working => \E m \in Nexus : Terminating(m))
        \/ stage[n] = "STARG_RESTART"

\* What has moved and what is left make up what was asked for.
CountInv ==
    \A n \in Nexus :
        InCommand(n) =>
            residue + moved[n] = Requested(target[n].cdb)
                + (IF stage[n] = "callback" /\ target[n].reason \in Directions
                   THEN target[n].data_len ELSE 0)

NothingMovedInv ==
    \A n \in Nexus :
        stage[n] = "idle" \/ (stage[n] = "callback" /\ target[n].reason = "STARG_COMMAND")
            => moved[n] = 0

SavedDirectionInv ==
    \A n \in Nexus :
        /\ Turning(n) \/ stage[n] = "unlocked"
              => direction = DirectionOf(target[n].cdb)
        /\ stage[n] = "callback" /\ target[n].reason \in Directions
              => target[n].reason = DirectionOf(target[n].cdb)

CalmInv ==
    /\ DriverInv
    /\ OneInCommand
    /\ InCommandBusy
    /\ ParkedInv
    /\ CondemnedInv
    /\ CountInv
    /\ NothingMovedInv
    /\ GoodHasMoved
    /\ OwnDirection
    /\ SavedDirectionInv

-----------------------------------------------------------------------------
\* Nothing of an ended command is left with its nexus.
IdleInv ==
    \A n \in Nexus : stage[n] = "idle" => moved[n] = 0 /\ n \notin condemned

SafeInv ==
    /\ DriverInv
    /\ IdleInv
    /\ ~upset => CalmInv
=============================================================================
