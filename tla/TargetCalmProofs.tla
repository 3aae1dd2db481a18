--------------------------- MODULE TargetCalmProofs ---------------------------
(***************************************************************************)
(* Proofs of what the target driver promises in every environment, for     *)
(* every number of nexuses, every set of commands and every buffer size.   *)
(* The promises are suspended while the target is upset, for they are      *)
(* broken then: TLC shows how (the run target_two_resets).  First CalmInv, *)
(* the invariant of a target that is not upset, then SafeInv.              *)
(***************************************************************************)
EXTENDS TargetProofs

LEMMA RequestedType ==
    ASSUME NEW cdb \in Cdbs \cup {NoCdb}
    PROVE  Requested(cdb) \in Nat
<1>1. cdb.len \in Nat /\ cdb.op \in Opcodes
  BY CdbsAssumption DEF NoCdb, Opcodes
<1>2. InquiryLength(cdb.len) \in Nat
  BY <1>1, InquiryBounds
<1> QED
  BY <1>1, <1>2 DEF Requested

LEMMA CalmInvInit == Init => CalmInv
<1> SUFFICES ASSUME Init PROVE CalmInv
  OBVIOUS
<1>1. DriverInv
  BY DriverInvInit
<1>2. \A n \in Nexus : stage[n] = "idle" /\ moved[n] = 0
  BY DEF Init
<1> QED
  BY <1>1, <1>2
     DEF Init, CalmInv, OneInCommand, InCommandBusy, ParkedInv, CondemnedInv, CountInv,
         NothingMovedInv, GoodHasMoved, OwnDirection, SavedDirectionInv, InCommand,
         Turning, Directions

LEMMA ImmediateCalm ==
    ASSUME CalmInv, DriverInv', ~upset', NEW n \in Nexus, stage[n] = "callback",
           target[n].reason = "STARG_COMMAND", NEW status \in Statuses,
           status = "GOOD" => Requested(target[n].cdb) = 0,
           Complete(n, status),
           UNCHANGED <<driverVars, lock, busVars>>
    PROVE  CalmInv'
<1>f. \A m \in Nexus \ {n} :
          /\ stage'[m] = stage[m]
          /\ target'[m] = target[m]
          /\ moved'[m] = moved[m]
  BY DEF CalmInv, DriverInv, TypeOK, Complete, Return, busVars
<1>o. /\ stage'[n] = "STARG_COMPLETE"
      /\ target'[n].status = status
      /\ target'[n].cdb = target[n].cdb
      /\ moved'[n] = moved[n]
  BY DEF CalmInv, DriverInv, TypeOK, Targets, Complete, Return, busVars
<1>d. /\ UNCHANGED <<residue, direction, busy, working, lock>>
      /\ UNCHANGED <<condemned, signalled>>
  BY DEF driverVars, busVars
<1>1. OneInCommand'
  BY <1>f, <1>o, <1>d, NexusAssumption
     DEF CalmInv, DriverInv, TypeOK, OneInCommand, LockInv, Attached, InCommandBusy,
     InCommand, Directions
<1>2. InCommandBusy'
  BY <1>f, <1>o, <1>d, NexusAssumption
     DEF CalmInv, DriverInv, TypeOK, InCommandBusy, LockInv, Attached, OneInCommand,
     MovingInv, Moving, WorkingInv, ParkedInv, Terminating, Terminations, InCommand,
     Directions
<1>3. ParkedInv'
  BY <1>f, <1>o, <1>d, NexusAssumption
     DEF CalmInv, DriverInv, TypeOK, ParkedInv, OneInCommand, LockInv, Attached,
     InCommandBusy, Terminating, Terminations, Unlocked, InCommand, Directions
<1>4. CondemnedInv'
  BY <1>f, <1>o, <1>d, NexusAssumption
     DEF CalmInv, DriverInv, TypeOK, CondemnedInv, LockInv, Attached, OneInCommand,
     ParkedInv, Final, Terminating, Terminations, Unlocked, InCommand, Directions
<1>5. CountInv'
  BY <1>f, <1>o, <1>d, NexusAssumption
     DEF CalmInv, DriverInv, TypeOK, CountInv, LockInv, Attached, OneInCommand,
     InCommandBusy, NothingMovedInv, InCommand, Directions
<1>6. NothingMovedInv'
  BY <1>f, <1>o, <1>d, NexusAssumption
     DEF CalmInv, DriverInv, TypeOK, NothingMovedInv, LockInv, Attached, Terminations,
     InCommand, Directions
<1>7. GoodHasMoved'
  BY <1>f, <1>o, <1>d, NexusAssumption
     DEF CalmInv, DriverInv, TypeOK, GoodHasMoved, NothingMovedInv, CountInv,
     InCommand, Directions
<1>8. OwnDirection'
  BY <1>f, <1>o, <1>d, NexusAssumption
     DEF CalmInv, DriverInv, TypeOK, OwnDirection, SavedDirectionInv, Turning, Directions
<1>9. SavedDirectionInv'
  BY <1>f, <1>o, <1>d, NexusAssumption
     DEF CalmInv, DriverInv, TypeOK, SavedDirectionInv, LockInv, Attached, OwnDirection,
     OneInCommand, InCommandBusy, Turning, InCommand, Directions
<1> QED
  BY <1>1, <1>2, <1>3, <1>4, <1>5, <1>6, <1>7, <1>8, <1>9 DEF CalmInv

LEMMA BeginCalm ==
    ASSUME CalmInv, DriverInv', ~upset', NEW n \in Nexus, stage[n] = "callback",
           target[n].reason = "STARG_COMMAND", ~busy,
           NEW length \in Nat, NEW data_len \in Nat, NEW dir \in Directions,
           length = Requested(target[n].cdb), dir = DirectionOf(target[n].cdb),
           Begin(n, length, data_len, dir),
           UNCHANGED <<direction, working, lock, moved, condemned,
                       signalled, upset, crossed>>
    PROVE  CalmInv'
<1>f. \A m \in Nexus \ {n} :
          /\ stage'[m] = stage[m]
          /\ target'[m] = target[m]
          /\ moved'[m] = moved[m]
  BY DEF CalmInv, DriverInv, TypeOK, Begin, Complete, Return
<1>o. /\ stage'[n] = IF length = 0 THEN "STARG_COMPLETE" ELSE dir
      /\ target'[n].cdb = target[n].cdb
      /\ target'[n].reason = target[n].reason
      /\ moved'[n] = moved[n]
      /\ residue' = length
      /\ length # 0 => busy'
  BY DEF CalmInv, DriverInv, TypeOK, Targets, Begin, Complete, Return
<1>1. OneInCommand'
  BY <1>f, <1>o, NexusAssumption
     DEF CalmInv, DriverInv, TypeOK, OneInCommand, LockInv, Attached, InCommandBusy,
     InCommand, Directions
<1>2. InCommandBusy'
  BY <1>f, <1>o, NexusAssumption
     DEF CalmInv, DriverInv, TypeOK, InCommandBusy, LockInv, Attached, OneInCommand,
     MovingInv, Moving, WorkingInv, ParkedInv, Terminating, Terminations, InCommand,
     Directions
<1>3. ParkedInv'
  BY <1>f, <1>o, NexusAssumption
     DEF CalmInv, DriverInv, TypeOK, ParkedInv, OneInCommand, LockInv, Attached,
     InCommandBusy, Terminating, Terminations, Unlocked, InCommand, Directions
<1>4. CondemnedInv'
  BY <1>f, <1>o, NexusAssumption
     DEF CalmInv, DriverInv, TypeOK, CondemnedInv, LockInv, Attached, OneInCommand,
     ParkedInv, Final, Terminating, Terminations, Unlocked, InCommand, Directions
<1>5. CountInv'
  BY <1>f, <1>o, NexusAssumption
     DEF CalmInv, DriverInv, TypeOK, CountInv, LockInv, Attached, OneInCommand,
     InCommandBusy, NothingMovedInv, InCommand, Directions
<1>6. NothingMovedInv'
  BY <1>f, <1>o, NexusAssumption
     DEF CalmInv, DriverInv, TypeOK, NothingMovedInv, LockInv, Attached, Terminations,
     InCommand, Directions
<1>7. GoodHasMoved'
  BY <1>f, <1>o, NexusAssumption
     DEF CalmInv, DriverInv, TypeOK, GoodHasMoved, NothingMovedInv, CountInv,
     InCommand, Directions
<1>8. OwnDirection'
  BY <1>f, <1>o, NexusAssumption
     DEF CalmInv, DriverInv, TypeOK, OwnDirection, SavedDirectionInv, Turning, Directions
<1>9. SavedDirectionInv'
  BY <1>f, <1>o, NexusAssumption
     DEF CalmInv, DriverInv, TypeOK, SavedDirectionInv, LockInv, Attached, OwnDirection,
     OneInCommand, InCommandBusy, Turning, InCommand, Directions
<1> QED
  BY <1>1, <1>2, <1>3, <1>4, <1>5, <1>6, <1>7, <1>8, <1>9 DEF CalmInv

LEMMA DisconnectedCalm ==
    ASSUME CalmInv, DriverInv', ~upset', NEW n \in Nexus, stage[n] = "callback",
       Disconnected(n),
           signalled' = FALSE, UNCHANGED <<moved, condemned, upset, crossed>>
    PROVE  CalmInv'
<1>f. \A m \in Nexus \ {n} :
          /\ stage'[m] = stage[m]
          /\ target'[m] = target[m]
          /\ moved'[m] = moved[m]
  BY DEF CalmInv, DriverInv, TypeOK, Disconnected, Return
<1>o. /\ stage'[n] = "unlocked"
      /\ target' = target
      /\ target[n].reason = "STARG_DISCONNECT"
      /\ moved'[n] = moved[n]
  BY DEF CalmInv, DriverInv, TypeOK, Targets, Disconnected, Return
<1>d. working' /\ lock' = NoNexus /\ UNCHANGED <<residue, direction, busy, condemned>>
  BY DEF Disconnected
<1>1. OneInCommand'
  BY <1>f, <1>o, <1>d, NexusAssumption
     DEF CalmInv, DriverInv, TypeOK, OneInCommand, LockInv, Attached, InCommandBusy,
     InCommand, Directions
<1>2. InCommandBusy'
  BY <1>f, <1>o, <1>d, NexusAssumption
     DEF CalmInv, DriverInv, TypeOK, InCommandBusy, LockInv, Attached, OneInCommand,
     MovingInv, Moving, WorkingInv, ParkedInv, Terminating, Terminations, InCommand,
     Directions
<1>3. ParkedInv'
  BY <1>f, <1>o, <1>d, NexusAssumption
     DEF CalmInv, DriverInv, TypeOK, ParkedInv, OneInCommand, LockInv, Attached,
     InCommandBusy, Terminating, Terminations, Unlocked, InCommand, Directions
<1>4. CondemnedInv'
  BY <1>f, <1>o, <1>d, NexusAssumption
     DEF CalmInv, DriverInv, TypeOK, CondemnedInv, LockInv, Attached, OneInCommand,
     ParkedInv, Final, Terminating, Terminations, Unlocked, InCommand, Directions
<1>5. CountInv'
  BY <1>f, <1>o, <1>d, NexusAssumption
     DEF CalmInv, DriverInv, TypeOK, CountInv, LockInv, Attached, OneInCommand,
     InCommandBusy, NothingMovedInv, InCommand, Directions
<1>6. NothingMovedInv'
  BY <1>f, <1>o, <1>d, NexusAssumption
     DEF CalmInv, DriverInv, TypeOK, NothingMovedInv, LockInv, Attached, Terminations,
     InCommand, Directions
<1>7. GoodHasMoved'
  BY <1>f, <1>o, <1>d, NexusAssumption
     DEF CalmInv, DriverInv, TypeOK, GoodHasMoved, NothingMovedInv, CountInv,
     InCommand, Directions
<1>8. OwnDirection'
  BY <1>f, <1>o, <1>d, NexusAssumption
     DEF CalmInv, DriverInv, TypeOK, OwnDirection, SavedDirectionInv, Turning, Directions
<1>9. SavedDirectionInv'
  BY <1>f, <1>o, <1>d, NexusAssumption
     DEF CalmInv, DriverInv, TypeOK, SavedDirectionInv, LockInv, Attached, OwnDirection,
     OneInCommand, InCommandBusy, Turning, InCommand, Directions
<1> QED
  BY <1>1, <1>2, <1>3, <1>4, <1>5, <1>6, <1>7, <1>8, <1>9 DEF CalmInv

LEMMA ReselectedCalm ==
    ASSUME CalmInv, DriverInv', ~upset', NEW n \in Nexus, stage[n] = "callback",
       Reselected(n), UNCHANGED busVars
    PROVE  CalmInv'
<1>f. \A m \in Nexus \ {n} :
          /\ stage'[m] = stage[m]
          /\ target'[m] = target[m]
          /\ moved'[m] = moved[m]
  BY DEF CalmInv, DriverInv, TypeOK, Reselected, ResumeWith, Return, busVars
<1>o. /\ stage'[n] = direction
      /\ direction \in Directions
      /\ target'[n].reason = target[n].reason
      /\ target[n].reason = "STARG_RESELECT"
      /\ target'[n].cdb = target[n].cdb
      /\ moved'[n] = moved[n]
  BY DEF CalmInv, DriverInv, TypeOK, Targets, Reselected, ResumeWith, Return, busVars,
       TurningInv,
       Turning
<1>d. /\ UNCHANGED <<residue, direction, busy, working, lock>>
      /\ UNCHANGED <<condemned, signalled>>
  BY DEF Reselected, busVars
<1>1. OneInCommand'
  BY <1>f, <1>o, <1>d, NexusAssumption
     DEF CalmInv, DriverInv, TypeOK, OneInCommand, LockInv, Attached, InCommandBusy,
     InCommand, Directions
<1>2. InCommandBusy'
  BY <1>f, <1>o, <1>d, NexusAssumption
     DEF CalmInv, DriverInv, TypeOK, InCommandBusy, LockInv, Attached, OneInCommand,
     MovingInv, Moving, WorkingInv, ParkedInv, Terminating, Terminations, InCommand,
     Directions
<1>3. ParkedInv'
  BY <1>f, <1>o, <1>d, NexusAssumption
     DEF CalmInv, DriverInv, TypeOK, ParkedInv, OneInCommand, LockInv, Attached,
     InCommandBusy, Terminating, Terminations, Unlocked, InCommand, Directions
<1>4. CondemnedInv'
  BY <1>f, <1>o, <1>d, NexusAssumption
     DEF CalmInv, DriverInv, TypeOK, CondemnedInv, LockInv, Attached, OneInCommand,
     ParkedInv, Final, Terminating, Terminations, Unlocked, InCommand, Directions
<1>5. CountInv'
  BY <1>f, <1>o, <1>d, NexusAssumption
     DEF CalmInv, DriverInv, TypeOK, CountInv, LockInv, Attached, OneInCommand,
     InCommandBusy, NothingMovedInv, InCommand, Directions
<1>6. NothingMovedInv'
  BY <1>f, <1>o, <1>d, NexusAssumption
     DEF CalmInv, DriverInv, TypeOK, NothingMovedInv, LockInv, Attached, Terminations,
     InCommand, Directions
<1>7. GoodHasMoved'
  BY <1>f, <1>o, <1>d, NexusAssumption
     DEF CalmInv, DriverInv, TypeOK, GoodHasMoved, NothingMovedInv, CountInv,
     InCommand, Directions
<1>8. OwnDirection'
  BY <1>f, <1>o, <1>d, NexusAssumption
     DEF CalmInv, DriverInv, TypeOK, OwnDirection, SavedDirectionInv, Turning, Directions
<1>9. SavedDirectionInv'
  BY <1>f, <1>o, <1>d, NexusAssumption
     DEF CalmInv, DriverInv, TypeOK, SavedDirectionInv, LockInv, Attached, OwnDirection,
     OneInCommand, InCommandBusy, Turning, InCommand, Directions
<1> QED
  BY <1>1, <1>2, <1>3, <1>4, <1>5, <1>6, <1>7, <1>8, <1>9 DEF CalmInv

LEMMA TerminatedCalm ==
    ASSUME CalmInv, DriverInv', ~upset', NEW n \in Nexus, stage[n] = "callback",
       Terminated(n), UNCHANGED busVars
    PROVE  CalmInv'
<1>f. \A m \in Nexus \ {n} :
          /\ stage'[m] = stage[m]
          /\ target'[m] = target[m]
          /\ moved'[m] = moved[m]
  BY DEF CalmInv, DriverInv, TypeOK, Terminated, Return, busVars
<1>o. /\ stage'[n] \in {"SCSI_RESET", "STARG_ABORT", "SCSI_NOT_OK"}
      /\ target' = target
      /\ Terminating(n)
      /\ moved'[n] = moved[n]
  BY DEF CalmInv, DriverInv, TypeOK, Targets, Terminated, Return, busVars, Terminating,
       Terminations
<1>d. /\ ~working' /\ UNCHANGED <<residue, direction, lock, condemned, signalled>>
      /\ busy' = (busy /\ working)
  BY DEF Terminated, ClearFlags, busVars
<1>1. OneInCommand'
  BY <1>f, <1>o, <1>d, NexusAssumption
     DEF CalmInv, DriverInv, TypeOK, OneInCommand, LockInv, Attached, InCommandBusy,
     InCommand, Directions
<1>2. InCommandBusy'
  BY <1>f, <1>o, <1>d, NexusAssumption
     DEF CalmInv, DriverInv, TypeOK, InCommandBusy, LockInv, Attached, OneInCommand,
     MovingInv, Moving, WorkingInv, ParkedInv, Terminating, Terminations, InCommand,
     Directions
<1>3. ParkedInv'
  BY <1>f, <1>o, <1>d, NexusAssumption
     DEF CalmInv, DriverInv, TypeOK, ParkedInv, OneInCommand, LockInv, Attached,
     InCommandBusy, Terminating, Terminations, Unlocked, InCommand, Directions
<1>4. CondemnedInv'
  BY <1>f, <1>o, <1>d, NexusAssumption
     DEF CalmInv, DriverInv, TypeOK, CondemnedInv, LockInv, Attached, OneInCommand,
     ParkedInv, Final, Terminating, Terminations, Unlocked, InCommand, Directions
<1>5. CountInv'
  BY <1>f, <1>o, <1>d, NexusAssumption
     DEF CalmInv, DriverInv, TypeOK, CountInv, LockInv, Attached, OneInCommand,
     InCommandBusy, NothingMovedInv, InCommand, Directions
<1>6. NothingMovedInv'
  BY <1>f, <1>o, <1>d, NexusAssumption
     DEF CalmInv, DriverInv, TypeOK, NothingMovedInv, LockInv, Attached, Terminations,
     InCommand, Directions
<1>7. GoodHasMoved'
  BY <1>f, <1>o, <1>d, NexusAssumption
     DEF CalmInv, DriverInv, TypeOK, GoodHasMoved, NothingMovedInv, CountInv,
     InCommand, Directions
<1>8. OwnDirection'
  BY <1>f, <1>o, <1>d, NexusAssumption
     DEF CalmInv, DriverInv, TypeOK, OwnDirection, SavedDirectionInv, Turning, Directions
<1>9. SavedDirectionInv'
  BY <1>f, <1>o, <1>d, NexusAssumption
     DEF CalmInv, DriverInv, TypeOK, SavedDirectionInv, LockInv, Attached, OwnDirection,
     OneInCommand, InCommandBusy, Turning, InCommand, Directions
<1> QED
  BY <1>1, <1>2, <1>3, <1>4, <1>5, <1>6, <1>7, <1>8, <1>9 DEF CalmInv

LEMMA SelectCalm ==
    ASSUME CalmInv, DriverInv', ~upset', NEW n \in Nexus, Select(n)
    PROVE  CalmInv'
<1>p. PICK cdb \in Cdbs, no_disconnects \in BOOLEAN :
          target' = [target EXCEPT ![n].reason = "STARG_COMMAND",
                                   ![n].cdb = cdb,
                                   ![n].no_disconnects = no_disconnects]
  BY DEF Select
<1>f. \A m \in Nexus \ {n} :
          /\ stage'[m] = stage[m]
          /\ target'[m] = target[m]
          /\ moved'[m] = moved[m]
  BY <1>p DEF Select, CalmInv, DriverInv, TypeOK, busVars
<1>o. /\ stage'[n] = "callback"
      /\ target'[n].reason = "STARG_COMMAND"
      /\ moved'[n] = moved[n]
      /\ stage[n] = "idle"
  BY <1>p DEF Select, CalmInv, DriverInv, TypeOK, Targets, busVars
<1>d. /\ UNCHANGED <<residue, direction, busy, working, condemned, signalled>>
      /\ lock = NoNexus /\ lock' = n
  BY DEF Select, driverVars, busVars
<1>1. OneInCommand'
  BY <1>f, <1>o, <1>d, NexusAssumption
     DEF CalmInv, DriverInv, TypeOK, OneInCommand, LockInv, Attached, InCommandBusy,
     InCommand, Directions
<1>2. InCommandBusy'
  BY <1>f, <1>o, <1>d, NexusAssumption
     DEF CalmInv, DriverInv, TypeOK, InCommandBusy, LockInv, Attached, OneInCommand,
     MovingInv, Moving, WorkingInv, ParkedInv, Terminating, Terminations, InCommand,
     Directions
<1>3. ParkedInv'
  BY <1>f, <1>o, <1>d, NexusAssumption
     DEF CalmInv, DriverInv, TypeOK, ParkedInv, OneInCommand, LockInv, Attached,
     InCommandBusy, Terminating, Terminations, Unlocked, InCommand, Directions
<1>4. CondemnedInv'
  BY <1>f, <1>o, <1>d, NexusAssumption
     DEF CalmInv, DriverInv, TypeOK, CondemnedInv, LockInv, Attached, OneInCommand,
     ParkedInv, Final, Terminating, Terminations, Unlocked, InCommand, Directions
<1>5. CountInv'
  BY <1>f, <1>o, <1>d, NexusAssumption
     DEF CalmInv, DriverInv, TypeOK, CountInv, LockInv, Attached, OneInCommand,
     InCommandBusy, NothingMovedInv, InCommand, Directions
<1>6. NothingMovedInv'
  BY <1>f, <1>o, <1>d, NexusAssumption
     DEF CalmInv, DriverInv, TypeOK, NothingMovedInv, LockInv, Attached, Terminations,
     InCommand, Directions
<1>7. GoodHasMoved'
  BY <1>f, <1>o, <1>d, NexusAssumption
     DEF CalmInv, DriverInv, TypeOK, GoodHasMoved, NothingMovedInv, CountInv,
     InCommand, Directions
<1>8. OwnDirection'
  BY <1>f, <1>o, <1>d, NexusAssumption
     DEF CalmInv, DriverInv, TypeOK, OwnDirection, SavedDirectionInv, Turning, Directions
<1>9. SavedDirectionInv'
  BY <1>f, <1>o, <1>d, NexusAssumption
     DEF CalmInv, DriverInv, TypeOK, SavedDirectionInv, LockInv, Attached, OwnDirection,
     OneInCommand, InCommandBusy, Turning, InCommand, Directions
<1> QED
  BY <1>1, <1>2, <1>3, <1>4, <1>5, <1>6, <1>7, <1>8, <1>9 DEF CalmInv

LEMMA TransferCalm ==
    ASSUME CalmInv, DriverInv', ~upset', NEW n \in Nexus, Transfer(n)
    PROVE  CalmInv'
<1>f. \A m \in Nexus \ {n} :
          /\ stage'[m] = stage[m]
          /\ target'[m] = target[m]
          /\ moved'[m] = moved[m]
  BY DEF CalmInv, DriverInv, TypeOK, Transfer, Call
<1>o. /\ stage'[n] = "callback"
      /\ target'[n].reason = stage[n]
      /\ target'[n].cdb = target[n].cdb
      /\ target'[n].data_len = target[n].data_len
      /\ moved'[n] = moved[n] + target[n].data_len
      /\ moved[n] \in Nat /\ target[n].data_len \in Nat
      /\ stage[n] \in Directions
  <2>1. ~upset
    BY DEF Transfer
  <2> QED
    BY <2>1 DEF CalmInv, DriverInv, TypeOK, Targets, Transfer, Call
<1>r. residue \in Int /\ Requested(target[n].cdb) \in Nat
  BY RequestedType DEF CalmInv, DriverInv, TypeOK, Targets
<1>d. UNCHANGED <<residue, direction, busy, working, lock, condemned, signalled>>
  BY DEF Transfer, driverVars
<1>1. OneInCommand'
  BY <1>f, <1>o, <1>r, <1>d, NexusAssumption
     DEF CalmInv, DriverInv, TypeOK, OneInCommand, LockInv, Attached, InCommandBusy,
     InCommand, Directions
<1>2. InCommandBusy'
  BY <1>f, <1>o, <1>r, <1>d, NexusAssumption
     DEF CalmInv, DriverInv, TypeOK, InCommandBusy, LockInv, Attached, OneInCommand,
     MovingInv, Moving, WorkingInv, ParkedInv, Terminating, Terminations, InCommand,
     Directions
<1>3. ParkedInv'
  BY <1>f, <1>o, <1>r, <1>d, NexusAssumption
     DEF CalmInv, DriverInv, TypeOK, ParkedInv, OneInCommand, LockInv, Attached,
     InCommandBusy, Terminating, Terminations, Unlocked, InCommand, Directions
<1>4. CondemnedInv'
  BY <1>f, <1>o, <1>r, <1>d, NexusAssumption
     DEF CalmInv, DriverInv, TypeOK, CondemnedInv, LockInv, Attached, OneInCommand,
     ParkedInv, Final, Terminating, Terminations, Unlocked, InCommand, Directions
<1>5. CountInv'
  BY <1>f, <1>o, <1>r, <1>d, NexusAssumption
     DEF CalmInv, DriverInv, TypeOK, CountInv, LockInv, Attached, OneInCommand,
     InCommandBusy, NothingMovedInv, InCommand, Directions
<1>6. NothingMovedInv'
  BY <1>f, <1>o, <1>r, <1>d, NexusAssumption
     DEF CalmInv, DriverInv, TypeOK, NothingMovedInv, LockInv, Attached, Terminations,
     InCommand, Directions
<1>7. GoodHasMoved'
  BY <1>f, <1>o, <1>r, <1>d, NexusAssumption
     DEF CalmInv, DriverInv, TypeOK, GoodHasMoved, NothingMovedInv, CountInv,
     InCommand, Directions
<1>8. OwnDirection'
  BY <1>f, <1>o, <1>r, <1>d, NexusAssumption
     DEF CalmInv, DriverInv, TypeOK, OwnDirection, SavedDirectionInv, Turning, Directions
<1>9. SavedDirectionInv'
  BY <1>f, <1>o, <1>r, <1>d, NexusAssumption
     DEF CalmInv, DriverInv, TypeOK, SavedDirectionInv, LockInv, Attached, OwnDirection,
     OneInCommand, InCommandBusy, Turning, InCommand, Directions
<1> QED
  BY <1>1, <1>2, <1>3, <1>4, <1>5, <1>6, <1>7, <1>8, <1>9 DEF CalmInv

LEMMA DisconnectCalm ==
    ASSUME CalmInv, DriverInv', ~upset', NEW n \in Nexus, Disconnect(n)
    PROVE  CalmInv'
<1>f. \A m \in Nexus \ {n} :
          /\ stage'[m] = stage[m]
          /\ target'[m] = target[m]
          /\ moved'[m] = moved[m]
  BY DEF CalmInv, DriverInv, TypeOK, Disconnect, Call, busVars
<1>o. /\ stage'[n] = "callback"
      /\ stage[n] = "STARG_SAVE_AND_DISCONNECT"
      /\ target'[n].reason = "STARG_DISCONNECT"
      /\ target'[n].cdb = target[n].cdb
      /\ moved'[n] = moved[n]
  BY DEF CalmInv, DriverInv, TypeOK, Targets, Disconnect, Call, busVars
<1>d. UNCHANGED <<residue, direction, busy, working, lock, condemned, signalled>>
  BY DEF Disconnect, driverVars, busVars
<1>1. OneInCommand'
  BY <1>f, <1>o, <1>d, NexusAssumption
     DEF CalmInv, DriverInv, TypeOK, OneInCommand, LockInv, Attached, InCommandBusy,
     InCommand, Directions
<1>2. InCommandBusy'
  BY <1>f, <1>o, <1>d, NexusAssumption
     DEF CalmInv, DriverInv, TypeOK, InCommandBusy, LockInv, Attached, OneInCommand,
     MovingInv, Moving, WorkingInv, ParkedInv, Terminating, Terminations, InCommand,
     Directions
<1>3. ParkedInv'
  BY <1>f, <1>o, <1>d, NexusAssumption
     DEF CalmInv, DriverInv, TypeOK, ParkedInv, OneInCommand, LockInv, Attached,
     InCommandBusy, Terminating, Terminations, Unlocked, InCommand, Directions
<1>4. CondemnedInv'
  BY <1>f, <1>o, <1>d, NexusAssumption
     DEF CalmInv, DriverInv, TypeOK, CondemnedInv, LockInv, Attached, OneInCommand,
     ParkedInv, Final, Terminating, Terminations, Unlocked, InCommand, Directions
<1>5. CountInv'
  BY <1>f, <1>o, <1>d, NexusAssumption
     DEF CalmInv, DriverInv, TypeOK, CountInv, LockInv, Attached, OneInCommand,
     InCommandBusy, NothingMovedInv, InCommand, Directions
<1>6. NothingMovedInv'
  BY <1>f, <1>o, <1>d, NexusAssumption
     DEF CalmInv, DriverInv, TypeOK, NothingMovedInv, LockInv, Attached, Terminations,
     InCommand, Directions
<1>7. GoodHasMoved'
  BY <1>f, <1>o, <1>d, NexusAssumption
     DEF CalmInv, DriverInv, TypeOK, GoodHasMoved, NothingMovedInv, CountInv,
     InCommand, Directions
<1>8. OwnDirection'
  BY <1>f, <1>o, <1>d, NexusAssumption
     DEF CalmInv, DriverInv, TypeOK, OwnDirection, SavedDirectionInv, Turning, Directions
<1>9. SavedDirectionInv'
  BY <1>f, <1>o, <1>d, NexusAssumption
     DEF CalmInv, DriverInv, TypeOK, SavedDirectionInv, LockInv, Attached, OwnDirection,
     OneInCommand, InCommandBusy, Turning, InCommand, Directions
<1> QED
  BY <1>1, <1>2, <1>3, <1>4, <1>5, <1>6, <1>7, <1>8, <1>9 DEF CalmInv

LEMMA ReselectCalm ==
    ASSUME CalmInv, DriverInv', ~upset', NEW n \in Nexus, Reselect(n)
    PROVE  CalmInv'
<1>f. \A m \in Nexus \ {n} :
          /\ stage'[m] = stage[m]
          /\ target'[m] = target[m]
          /\ moved'[m] = moved[m]
  BY DEF CalmInv, DriverInv, TypeOK, Reselect, Call, busVars
<1>o. /\ stage'[n] = "callback"
      /\ stage[n] = "STARG_RESELECT"
      /\ target'[n].reason = "STARG_RESELECT"
      /\ target'[n].cdb = target[n].cdb
      /\ moved'[n] = moved[n]
  BY DEF CalmInv, DriverInv, TypeOK, Targets, Reselect, Call, busVars
<1>d. UNCHANGED <<residue, direction, busy, working, lock, condemned, signalled>>
  BY DEF Reselect, driverVars, busVars
<1>1. OneInCommand'
  BY <1>f, <1>o, <1>d, NexusAssumption
     DEF CalmInv, DriverInv, TypeOK, OneInCommand, LockInv, Attached, InCommandBusy,
     InCommand, Directions
<1>2. InCommandBusy'
  BY <1>f, <1>o, <1>d, NexusAssumption
     DEF CalmInv, DriverInv, TypeOK, InCommandBusy, LockInv, Attached, OneInCommand,
     MovingInv, Moving, WorkingInv, ParkedInv, Terminating, Terminations, InCommand,
     Directions
<1>3. ParkedInv'
  BY <1>f, <1>o, <1>d, NexusAssumption
     DEF CalmInv, DriverInv, TypeOK, ParkedInv, OneInCommand, LockInv, Attached,
     InCommandBusy, Terminating, Terminations, Unlocked, InCommand, Directions
<1>4. CondemnedInv'
  BY <1>f, <1>o, <1>d, NexusAssumption
     DEF CalmInv, DriverInv, TypeOK, CondemnedInv, LockInv, Attached, OneInCommand,
     ParkedInv, Final, Terminating, Terminations, Unlocked, InCommand, Directions
<1>5. CountInv'
  BY <1>f, <1>o, <1>d, NexusAssumption
     DEF CalmInv, DriverInv, TypeOK, CountInv, LockInv, Attached, OneInCommand,
     InCommandBusy, NothingMovedInv, InCommand, Directions
<1>6. NothingMovedInv'
  BY <1>f, <1>o, <1>d, NexusAssumption
     DEF CalmInv, DriverInv, TypeOK, NothingMovedInv, LockInv, Attached, Terminations,
     InCommand, Directions
<1>7. GoodHasMoved'
  BY <1>f, <1>o, <1>d, NexusAssumption
     DEF CalmInv, DriverInv, TypeOK, GoodHasMoved, NothingMovedInv, CountInv,
     InCommand, Directions
<1>8. OwnDirection'
  BY <1>f, <1>o, <1>d, NexusAssumption
     DEF CalmInv, DriverInv, TypeOK, OwnDirection, SavedDirectionInv, Turning, Directions
<1>9. SavedDirectionInv'
  BY <1>f, <1>o, <1>d, NexusAssumption
     DEF CalmInv, DriverInv, TypeOK, SavedDirectionInv, LockInv, Attached, OwnDirection,
     OneInCommand, InCommandBusy, Turning, InCommand, Directions
<1> QED
  BY <1>1, <1>2, <1>3, <1>4, <1>5, <1>6, <1>7, <1>8, <1>9 DEF CalmInv

LEMMA FinishCalm ==
    ASSUME CalmInv, DriverInv', ~upset', NEW n \in Nexus, Finish(n)
    PROVE  CalmInv'
<1>f. \A m \in Nexus \ {n} :
          /\ stage'[m] = stage[m]
          /\ target'[m] = target[m]
          /\ moved'[m] = moved[m]
  BY DEF CalmInv, DriverInv, TypeOK, Finish
<1>o. /\ stage'[n] = "idle"
      /\ stage[n] \in Final
      /\ moved'[n] = 0
  BY DEF CalmInv, DriverInv, TypeOK, Targets, Finish
<1>l. lock = n
  BY <1>o, NexusAssumption DEF CalmInv, DriverInv, LockInv, Attached, Final
<1>d. /\ UNCHANGED <<residue, direction, busy, working, signalled>>
      /\ condemned' = condemned \ {n}
      /\ lock' = NoNexus
  BY DEF Finish, driverVars
<1>1. OneInCommand'
  BY <1>f, <1>o, <1>l, <1>d, NexusAssumption
     DEF CalmInv, DriverInv, TypeOK, OneInCommand, LockInv, Attached, InCommandBusy,
     InCommand, Directions
<1>2. InCommandBusy'
  BY <1>f, <1>o, <1>l, <1>d, NexusAssumption
     DEF CalmInv, DriverInv, TypeOK, InCommandBusy, LockInv, Attached, OneInCommand,
     MovingInv, Moving, WorkingInv, ParkedInv, Terminating, Terminations, InCommand,
     Directions
<1>3. ParkedInv'
  BY <1>f, <1>o, <1>l, <1>d, NexusAssumption
     DEF CalmInv, DriverInv, TypeOK, ParkedInv, OneInCommand, LockInv, Attached,
     InCommandBusy, Terminating, Terminations, Unlocked, InCommand, Directions
<1>4. CondemnedInv'
  BY <1>f, <1>o, <1>l, <1>d, NexusAssumption
     DEF CalmInv, DriverInv, TypeOK, CondemnedInv, LockInv, Attached, OneInCommand,
     ParkedInv, Final, Terminating, Terminations, Unlocked, InCommand, Directions
<1>5. CountInv'
  BY <1>f, <1>o, <1>l, <1>d, NexusAssumption
     DEF CalmInv, DriverInv, TypeOK, CountInv, LockInv, Attached, OneInCommand,
     InCommandBusy, NothingMovedInv, InCommand, Directions
<1>6. NothingMovedInv'
  BY <1>f, <1>o, <1>l, <1>d, NexusAssumption
     DEF CalmInv, DriverInv, TypeOK, NothingMovedInv, LockInv, Attached, Terminations,
     InCommand, Directions
<1>7. GoodHasMoved'
  BY <1>f, <1>o, <1>l, <1>d, NexusAssumption
     DEF CalmInv, DriverInv, TypeOK, GoodHasMoved, NothingMovedInv, CountInv,
     InCommand, Directions
<1>8. OwnDirection'
  BY <1>f, <1>o, <1>l, <1>d, NexusAssumption
     DEF CalmInv, DriverInv, TypeOK, OwnDirection, SavedDirectionInv, Turning, Directions
<1>9. SavedDirectionInv'
  BY <1>f, <1>o, <1>l, <1>d, NexusAssumption
     DEF CalmInv, DriverInv, TypeOK, SavedDirectionInv, LockInv, Attached, OwnDirection,
     OneInCommand, InCommandBusy, Turning, InCommand, Directions
<1> QED
  BY <1>1, <1>2, <1>3, <1>4, <1>5, <1>6, <1>7, <1>8, <1>9 DEF CalmInv

LEMMA ResumeCalm ==
    ASSUME CalmInv, DriverInv', ~upset', NEW n \in Nexus, Resume(n)
    PROVE  CalmInv'
<1>f. \A m \in Nexus \ {n} :
          /\ stage'[m] = stage[m]
          /\ target'[m] = target[m]
          /\ moved'[m] = moved[m]
  BY DEF CalmInv, DriverInv, TypeOK, Resume, Relock, Restart, Return
<1>o. /\ stage'[n] = IF working THEN "STARG_RESELECT" ELSE "STARG_RESTART"
      /\ stage[n] = "unlocked"
      /\ target' = target
      /\ moved'[n] = moved[n]
  BY DEF CalmInv, DriverInv, TypeOK, Targets, Resume, Relock, Restart, Return
<1>d. /\ UNCHANGED <<residue, direction, condemned>>
      /\ lock = NoNexus /\ lock' = n /\ ~working'
      /\ working => busy' = busy
  BY DEF Resume, Relock, Restart
<1>1. OneInCommand'
  BY <1>f, <1>o, <1>d, NexusAssumption
     DEF CalmInv, DriverInv, TypeOK, OneInCommand, LockInv, Attached, InCommandBusy,
     InCommand, Directions
<1>2. InCommandBusy'
  BY <1>f, <1>o, <1>d, NexusAssumption
     DEF CalmInv, DriverInv, TypeOK, InCommandBusy, LockInv, Attached, OneInCommand,
     MovingInv, Moving, WorkingInv, ParkedInv, Terminating, Terminations, InCommand,
     Directions
<1>3. ParkedInv'
  BY <1>f, <1>o, <1>d, NexusAssumption
     DEF CalmInv, DriverInv, TypeOK, ParkedInv, OneInCommand, LockInv, Attached,
     InCommandBusy, Terminating, Terminations, Unlocked, InCommand, Directions
<1>4. CondemnedInv'
  BY <1>f, <1>o, <1>d, NexusAssumption
     DEF CalmInv, DriverInv, TypeOK, CondemnedInv, LockInv, Attached, OneInCommand,
     ParkedInv, Final, Terminating, Terminations, Unlocked, InCommand, Directions
<1>5. CountInv'
  BY <1>f, <1>o, <1>d, NexusAssumption
     DEF CalmInv, DriverInv, TypeOK, CountInv, LockInv, Attached, OneInCommand,
     InCommandBusy, NothingMovedInv, InCommand, Directions
<1>6. NothingMovedInv'
  BY <1>f, <1>o, <1>d, NexusAssumption
     DEF CalmInv, DriverInv, TypeOK, NothingMovedInv, LockInv, Attached, Terminations,
     InCommand, Directions
<1>7. GoodHasMoved'
  BY <1>f, <1>o, <1>d, NexusAssumption
     DEF CalmInv, DriverInv, TypeOK, GoodHasMoved, NothingMovedInv, CountInv,
     InCommand, Directions
<1>8. OwnDirection'
  BY <1>f, <1>o, <1>d, NexusAssumption
     DEF CalmInv, DriverInv, TypeOK, OwnDirection, SavedDirectionInv, Turning, Directions
<1>9. SavedDirectionInv'
  BY <1>f, <1>o, <1>d, NexusAssumption
     DEF CalmInv, DriverInv, TypeOK, SavedDirectionInv, LockInv, Attached, OwnDirection,
     OneInCommand, InCommandBusy, Turning, InCommand, Directions
<1> QED
  BY <1>1, <1>2, <1>3, <1>4, <1>5, <1>6, <1>7, <1>8, <1>9 DEF CalmInv

LEMMA InterruptCalm ==
    ASSUME CalmInv, DriverInv', ~upset', NEW n \in Nexus, Interrupt(n)
    PROVE  CalmInv'
<1>p. PICK reason \in Reported : Report(n, reason) /\ Call(n, reason)
  BY DEF Interrupt
<1>f. \A m \in Nexus \ {n} :
          /\ stage'[m] = stage[m]
          /\ target'[m] = target[m]
          /\ moved'[m] = moved[m]
  BY <1>p DEF Interrupt, Call, CalmInv, DriverInv, TypeOK
<1>o. /\ stage'[n] = "callback"
      /\ stage[n] \in (Replies \ Final) \cup {"STARG_COMPLETE"}
      /\ Attached(n) /\ target'[n].reason \in Terminations
      /\ target'[n].cdb = target[n].cdb
      /\ moved'[n] = moved[n]
  BY <1>p, ReportedAssumption DEF Interrupt, Call, CalmInv, DriverInv, TypeOK, Targets
<1>l. lock = n /\ \A m \in Nexus \ {n} : ~Attached(m)
  BY <1>o, NexusAssumption DEF CalmInv, DriverInv, LockInv
<1>d. UNCHANGED <<residue, direction, busy, working, lock>>
  BY DEF Interrupt, driverVars
<1>c. /\ condemned \subseteq condemned' /\ condemned' \subseteq condemned \cup Unlocked
      /\ Unlocked # {} => ~signalled /\ signalled'
      /\ Unlocked = {} => signalled' = signalled
  BY <1>p DEF Report, Condemn, CalmInv, DriverInv, TypeOK
<1>i. \A m \in Nexus : InCommand(m)' => m # n /\ stage[m] = "unlocked" /\ InCommand(m)
  BY <1>f, <1>o, <1>l DEF InCommand, Attached, Directions, Terminations
<1>1. OneInCommand'
  BY <1>f, <1>o, <1>l, <1>d, <1>c, <1>i, NexusAssumption
     DEF CalmInv, DriverInv, TypeOK, OneInCommand, LockInv, Attached, InCommandBusy,
     InCommand, Directions
<1>2. InCommandBusy'
  BY <1>f, <1>o, <1>l, <1>d, <1>c, <1>i, NexusAssumption
     DEF CalmInv, DriverInv, TypeOK, InCommandBusy, LockInv, Attached, OneInCommand,
     MovingInv, Moving, WorkingInv, ParkedInv, Terminating, Terminations, InCommand,
     Directions
<1>3. ParkedInv'
  BY <1>f, <1>o, <1>l, <1>d, <1>c, <1>i, NexusAssumption
     DEF CalmInv, DriverInv, TypeOK, ParkedInv, OneInCommand, LockInv, Attached,
     InCommandBusy, Terminating, Terminations, Unlocked, InCommand, Directions
<1>4. CondemnedInv'
  BY <1>f, <1>o, <1>l, <1>d, <1>c, <1>i, NexusAssumption
     DEF CalmInv, DriverInv, TypeOK, CondemnedInv, LockInv, Attached, OneInCommand,
     ParkedInv, Final, Terminating, Terminations, Unlocked, InCommand, Directions
<1>5. CountInv'
  BY <1>f, <1>o, <1>l, <1>d, <1>c, <1>i, NexusAssumption
     DEF CalmInv, DriverInv, TypeOK, CountInv, LockInv, Attached, OneInCommand,
     InCommandBusy, NothingMovedInv, InCommand, Directions
<1>6. NothingMovedInv'
  BY <1>f, <1>o, <1>l, <1>d, <1>c, <1>i, NexusAssumption
     DEF CalmInv, DriverInv, TypeOK, NothingMovedInv, LockInv, Attached, Terminations,
     InCommand, Directions
<1>7. GoodHasMoved'
  BY <1>f, <1>o, <1>l, <1>d, <1>c, <1>i, NexusAssumption
     DEF CalmInv, DriverInv, TypeOK, GoodHasMoved, NothingMovedInv, CountInv,
     InCommand, Directions
<1>8. OwnDirection'
  BY <1>f, <1>o, <1>l, <1>d, <1>c, <1>i, NexusAssumption
     DEF CalmInv, DriverInv, TypeOK, OwnDirection, SavedDirectionInv, Turning, Directions
<1>9. SavedDirectionInv'
  BY <1>f, <1>o, <1>l, <1>d, <1>c, <1>i, NexusAssumption
     DEF CalmInv, DriverInv, TypeOK, SavedDirectionInv, LockInv, Attached, OwnDirection,
     OneInCommand, InCommandBusy, Turning, InCommand, Directions
<1> QED
  BY <1>1, <1>2, <1>3, <1>4, <1>5, <1>6, <1>7, <1>8, <1>9 DEF CalmInv

LEMMA SignalCalm ==
    ASSUME CalmInv, DriverInv', ~upset', NEW n \in Nexus, Signal(n)
    PROVE  CalmInv'
<1>p. PICK reason \in Reported \ {"INVALID"} :
          /\ Report(n, reason)
          /\ target' = [target EXCEPT ![n].reason = reason]
  BY DEF Signal
<1>f. stage' = stage /\ moved' = moved /\ \A m \in Nexus \ {n} : target'[m] = target[m]
  BY <1>p DEF Signal, CalmInv, DriverInv, TypeOK
<1>o. /\ target'[n].cdb = target[n].cdb /\ target'[n].status = target[n].status
      /\ target'[n].data_len = target[n].data_len
  BY <1>p DEF CalmInv, DriverInv, TypeOK, Targets
<1>l. lock = NoNexus /\ \A m \in Nexus : ~Attached(m)
  BY NexusAssumption DEF CalmInv, DriverInv, LockInv, Signal
<1>d. /\ ~working' /\ busy' = (busy /\ working)
      /\ UNCHANGED <<residue, direction, lock>>
  BY DEF Signal, ClearFlags
<1>c. /\ condemned \subseteq condemned' /\ condemned' \subseteq condemned \cup Unlocked
      /\ Unlocked # {} => ~signalled /\ signalled'
      /\ Unlocked = {} => signalled' = signalled
  BY <1>p DEF Report, Condemn, CalmInv, DriverInv, TypeOK
<1>i. \A m \in Nexus : InCommand(m)' => stage[m] = "unlocked" /\ InCommand(m)
  BY <1>f, <1>l DEF InCommand, Attached, Directions, Terminations
<1>1. OneInCommand'
  BY <1>f, <1>o, <1>l, <1>d, <1>c, <1>i, NexusAssumption
     DEF CalmInv, DriverInv, TypeOK, OneInCommand, LockInv, Attached, InCommandBusy,
     InCommand, Directions
<1>2. InCommandBusy'
  <2> SUFFICES ASSUME NEW m \in Nexus, InCommand(m)' PROVE busy'
    BY DEF InCommandBusy
  <2>1. stage[m] = "unlocked" /\ InCommand(m)
    BY <1>i
  <2>2. ~signalled
    BY <2>1, <1>c DEF Unlocked
  <2>3. working
    BY <2>1, <2>2 DEF CalmInv, ParkedInv
  <2>4. busy
    BY <2>1 DEF CalmInv, InCommandBusy
  <2> QED
    BY <2>3, <2>4, <1>d
<1>3. ParkedInv'
  BY <1>f, <1>o, <1>l, <1>d, <1>c, <1>i, NexusAssumption
     DEF CalmInv, DriverInv, TypeOK, ParkedInv, OneInCommand, LockInv, Attached,
     InCommandBusy, Terminating, Terminations, Unlocked, InCommand, Directions
<1>4. CondemnedInv'
  BY <1>f, <1>o, <1>l, <1>d, <1>c, <1>i, NexusAssumption
     DEF CalmInv, DriverInv, TypeOK, CondemnedInv, LockInv, Attached, OneInCommand,
     ParkedInv, Final, Terminating, Terminations, Unlocked, InCommand, Directions
<1>5. CountInv'
  BY <1>f, <1>o, <1>l, <1>d, <1>c, <1>i, NexusAssumption
     DEF CalmInv, DriverInv, TypeOK, CountInv, LockInv, Attached, OneInCommand,
     InCommandBusy, NothingMovedInv, InCommand, Directions
<1>6. NothingMovedInv'
  BY <1>f, <1>o, <1>l, <1>d, <1>c, <1>i, NexusAssumption
     DEF CalmInv, DriverInv, TypeOK, NothingMovedInv, LockInv, Attached, Terminations,
     InCommand, Directions
<1>7. GoodHasMoved'
  BY <1>f, <1>o, <1>l, <1>d, <1>c, <1>i, NexusAssumption
     DEF CalmInv, DriverInv, TypeOK, GoodHasMoved, NothingMovedInv, CountInv,
     InCommand, Directions
<1>8. OwnDirection'
  BY <1>f, <1>o, <1>l, <1>d, <1>c, <1>i, NexusAssumption
     DEF CalmInv, DriverInv, TypeOK, OwnDirection, SavedDirectionInv, Turning, Directions
<1>9. SavedDirectionInv'
  BY <1>f, <1>o, <1>l, <1>d, <1>c, <1>i, NexusAssumption
     DEF CalmInv, DriverInv, TypeOK, SavedDirectionInv, LockInv, Attached, OwnDirection,
     OneInCommand, InCommandBusy, Turning, InCommand, Directions
<1> QED
  BY <1>1, <1>2, <1>3, <1>4, <1>5, <1>6, <1>7, <1>8, <1>9 DEF CalmInv

LEMMA DataTransferredCalm ==
    ASSUME CalmInv, DriverInv', ~upset', NEW n \in Nexus, stage[n] = "callback",
       DataTransferred(n), UNCHANGED busVars
    PROVE  CalmInv'
<1>0. /\ busy /\ ~working /\ target[n].reason \in Directions
      /\ residue \in Int /\ target[n].data_len \in Nat /\ residue - target[n].data_len >= 0
  BY DEF CalmInv, DriverInv, TypeOK, Targets, MovingInv, Moving, DataTransferred
<1>f. \A m \in Nexus \ {n} :
          /\ stage'[m] = stage[m]
          /\ target'[m] = target[m]
          /\ moved'[m] = moved[m]
  BY <1>0 DEF DataTransferred, NothingLeft, Continue, SaveAndDisconnect, Complete, Return,
       CalmInv, DriverInv, TypeOK, busVars
<1>r. Requested(target[n].cdb) \in Nat /\ moved[n] \in Nat
  BY RequestedType DEF CalmInv, DriverInv, TypeOK, Targets
<1>o. /\ target'[n].cdb = target[n].cdb
      /\ moved'[n] = moved[n]
      /\ residue' = residue - target[n].data_len
      /\ \/ stage'[n] = "STARG_COMPLETE" /\ residue' = 0
         \/ stage'[n] = target[n].reason /\ busy'
         \/ /\ stage'[n] = "STARG_SAVE_AND_DISCONNECT" /\ busy'
            /\ direction' = target[n].reason
  <2> DEFINE left == residue - target[n].data_len
  <2>1. residue' = left /\ moved'[n] = moved[n]
    BY DEF DataTransferred, busVars
  <2>2. CASE left = 0
    <3>1. Complete(n, "GOOD")
      BY <2>2 DEF DataTransferred, NothingLeft
    <3> QED
      BY <2>1, <2>2, <3>1 DEF Complete, Return, CalmInv, DriverInv, TypeOK, Targets
  <2>3. CASE left > 0
    <3>1. ~(left < 0) /\ left # 0
      BY <2>3, <1>0
    <3>2. Continue(n, left) \/ SaveAndDisconnect(n)
      BY <3>1 DEF DataTransferred, NothingLeft
    <3>3. busy'
      BY <3>1, <1>0 DEF DataTransferred, NothingLeft
    <3> QED
      BY <2>1, <3>2, <3>3 DEF Continue, SaveAndDisconnect, Return, CalmInv, DriverInv,
                              TypeOK, Targets
  <2> QED
    BY <2>2, <2>3, <1>0
<1>d. UNCHANGED <<working, lock, condemned, signalled>>
  BY DEF DataTransferred, busVars
<1>1. OneInCommand'
  BY <1>0, <1>f, <1>r, <1>o, <1>d, NexusAssumption
     DEF CalmInv, DriverInv, TypeOK, OneInCommand, LockInv, Attached, InCommandBusy,
     InCommand, Directions
<1>2. InCommandBusy'
  BY <1>0, <1>f, <1>r, <1>o, <1>d, NexusAssumption
     DEF CalmInv, DriverInv, TypeOK, InCommandBusy, LockInv, Attached, OneInCommand,
     MovingInv, Moving, WorkingInv, ParkedInv, Terminating, Terminations, InCommand,
     Directions
<1>3. ParkedInv'
  BY <1>0, <1>f, <1>r, <1>o, <1>d, NexusAssumption
     DEF CalmInv, DriverInv, TypeOK, ParkedInv, OneInCommand, LockInv, Attached,
     InCommandBusy, Terminating, Terminations, Unlocked, InCommand, Directions
<1>4. CondemnedInv'
  BY <1>0, <1>f, <1>r, <1>o, <1>d, NexusAssumption
     DEF CalmInv, DriverInv, TypeOK, CondemnedInv, LockInv, Attached, OneInCommand,
     ParkedInv, Final, Terminating, Terminations, Unlocked, InCommand, Directions
<1>5. CountInv'
  BY <1>0, <1>f, <1>r, <1>o, <1>d, NexusAssumption
     DEF CalmInv, DriverInv, TypeOK, CountInv, LockInv, Attached, OneInCommand,
     InCommandBusy, NothingMovedInv, InCommand, Directions
<1>6. NothingMovedInv'
  BY <1>0, <1>f, <1>r, <1>o, <1>d, NexusAssumption
     DEF CalmInv, DriverInv, TypeOK, NothingMovedInv, LockInv, Attached, Terminations,
     InCommand, Directions
<1>7. GoodHasMoved'
  BY <1>0, <1>f, <1>r, <1>o, <1>d, NexusAssumption
     DEF CalmInv, DriverInv, TypeOK, GoodHasMoved, NothingMovedInv, CountInv,
     InCommand, Directions
<1>8. OwnDirection'
  BY <1>0, <1>f, <1>r, <1>o, <1>d, NexusAssumption
     DEF CalmInv, DriverInv, TypeOK, OwnDirection, SavedDirectionInv, Turning, Directions
<1>9. SavedDirectionInv'
  BY <1>0, <1>f, <1>r, <1>o, <1>d, NexusAssumption
     DEF CalmInv, DriverInv, TypeOK, SavedDirectionInv, LockInv, Attached, OwnDirection,
     OneInCommand, InCommandBusy, Turning, InCommand, Directions
<1> QED
  BY <1>1, <1>2, <1>3, <1>4, <1>5, <1>6, <1>7, <1>8, <1>9 DEF CalmInv

LEMMA TargetCommandCalm ==
    ASSUME CalmInv, DriverInv', ~upset', NEW n \in Nexus,
           stage[n] = "callback", TargetCommand(n), UNCHANGED busVars
    PROVE  CalmInv'
<1> DEFINE len == target[n].cdb.len
<1>1. len \in Nat /\ Requested(target[n].cdb) \in Nat
  BY CdbsAssumption, RequestedType DEF CalmInv, DriverInv, TypeOK, Targets, NoCdb
<1>2. CASE RejectBusy(n)
  BY <1>2, ImmediateCalm DEF TargetCommand, RejectBusy, driverVars, Statuses
<1>3. CASE ~busy /\ TestUnitReady(n)
  <2>1. Requested(target[n].cdb) = 0
    BY <1>3 DEF TestUnitReady, Requested
  <2> QED
    BY <1>3, <2>1, ImmediateCalm DEF TargetCommand, TestUnitReady, driverVars, Statuses
<1>4. CASE ~busy /\ Unrecognised(n)
  BY <1>4, ImmediateCalm DEF TargetCommand, Unrecognised, driverVars, Statuses
<1>5. CASE ~busy /\ Inquiry(n)
  <2>1. Begin(n, InquiryLength(len), InquiryLength(len), "STARG_DATA_IN")
    BY <1>5 DEF Inquiry
  <2>2. /\ Requested(target[n].cdb) = InquiryLength(len)
        /\ DirectionOf(target[n].cdb) = "STARG_DATA_IN"
    BY <1>5 DEF Inquiry, Requested, DirectionOf
  <2> QED
    BY <2>1, <2>2, <1>1, <1>5, BeginCalm DEF TargetCommand, Directions, busVars
<1>6. CASE ~busy /\ Send(n)
  <2>1. Begin(n, len, ChunkLength(len), "STARG_DATA_OUT")
    BY <1>6 DEF Send
  <2>2. ChunkLength(len) \in Nat
    BY <1>1, SizeAssumption DEF ChunkLength
  <2>3. /\ Requested(target[n].cdb) = len
        /\ DirectionOf(target[n].cdb) = "STARG_DATA_OUT"
    BY <1>6 DEF Send, Requested, DirectionOf
  <2> QED
    BY <2>1, <2>2, <2>3, <1>1, <1>6, BeginCalm DEF TargetCommand, Directions, busVars
<1>7. CASE ~busy /\ Receive(n)
  <2>1. Begin(n, len, ChunkLength(len), "STARG_DATA_IN")
    BY <1>7 DEF Receive
  <2>2. ChunkLength(len) \in Nat
    BY <1>1, SizeAssumption DEF ChunkLength
  <2>3. /\ Requested(target[n].cdb) = len
        /\ DirectionOf(target[n].cdb) = "STARG_DATA_IN"
    BY <1>7 DEF Receive, Requested, DirectionOf
  <2> QED
    BY <2>1, <2>2, <2>3, <1>1, <1>7, BeginCalm DEF TargetCommand, Directions, busVars
<1> QED
  BY <1>2, <1>3, <1>4, <1>5, <1>6, <1>7 DEF TargetCommand

LEMMA CalmInvStep ==
    ASSUME ~upset', CalmInv, [Next]_vars
    PROVE  CalmInv'
<1>0. DriverInv'
  BY DriverInvStep DEF CalmInv
<1>1. CASE UNCHANGED vars
  BY <1>0, <1>1 DEF vars, CalmInv, OneInCommand, InCommandBusy, ParkedInv, CondemnedInv,
     CountInv, NothingMovedInv, GoodHasMoved, OwnDirection, SavedDirectionInv,
     InCommand, Turning, Terminating
<1>2. ASSUME NEW n \in Nexus, Callback(n) PROVE CalmInv'
  <2> USE <1>0, <1>2 DEF Callback
  <2>1. CASE TargetCommand(n)
    BY <2>1, TargetCommandCalm DEF TargetCallback, TargetCommand, busVars
  <2>2. CASE DataTransferred(n)
    BY <2>2, DataTransferredCalm DEF TargetCallback, DataTransferred, Directions, busVars
  <2>3. CASE Disconnected(n)
    BY <2>3, DisconnectedCalm DEF TargetCallback, Disconnected
  <2>4. CASE Reselected(n)
    BY <2>4, ReselectedCalm DEF TargetCallback, Reselected, busVars
  <2>5. CASE Terminated(n)
    BY <2>5, TerminatedCalm DEF TargetCallback, Terminated, busVars
  <2> QED
    BY <2>1, <2>2, <2>3, <2>4, <2>5 DEF TargetCallback
<1> QED
  BY <1>0, <1>1, <1>2, SelectCalm, InterruptCalm, SignalCalm, ResumeCalm, TransferCalm,
     DisconnectCalm, ReselectCalm, FinishCalm DEF Next, Progress

LEMMA IdleInvStep ==
    ASSUME DriverInv, IdleInv, [Next]_vars
    PROVE  IdleInv'
<1>0. /\ stage \in [Nexus -> Stages] /\ moved \in [Nexus -> Nat]
      /\ condemned \subseteq Nexus
  BY DEF DriverInv, TypeOK
<1>1. CASE UNCHANGED vars
  BY <1>1 DEF vars, IdleInv
<1>2. ASSUME NEW n \in Nexus, Select(n) \/ Disconnect(n) \/ Reselect(n) PROVE IdleInv'
  BY <1>0, <1>2 DEF IdleInv, Select, Disconnect, Reselect, Call, busVars
<1>3. ASSUME NEW n \in Nexus, Transfer(n) PROVE IdleInv'
  BY <1>0, <1>3 DEF IdleInv, Transfer, Call, Directions
<1>4. ASSUME NEW n \in Nexus, Finish(n) PROVE IdleInv'
  BY <1>0, <1>4 DEF IdleInv, Finish
<1>5. ASSUME NEW n \in Nexus, Interrupt(n) \/ Signal(n) PROVE IdleInv'
  <2>1. PICK reason : Report(n, reason)
    BY <1>5 DEF Interrupt, Signal
  <2>2. condemned' \subseteq condemned \cup Unlocked
    BY <2>1 DEF Report, Condemn
  <2>3. \A m \in Nexus : stage'[m] = "idle" => stage[m] = "idle"
    BY <1>0, <1>5 DEF Interrupt, Signal, Call
  <2>4. moved' = moved
    BY <1>5 DEF Interrupt, Signal
  <2> QED
    BY <2>2, <2>3, <2>4 DEF IdleInv, Unlocked
<1>6. ASSUME NEW n \in Nexus, Callback(n) \/ Resume(n) PROVE IdleInv'
  <2>1. UNCHANGED <<moved, condemned>>
    BY <1>6 DEF Callback, Resume
  <2>2. \A m \in Nexus \ {n} : stage'[m] = stage[m]
    BY <1>0, <1>6
       DEF Callback, TargetCallback, TargetCommand, RejectBusy, TestUnitReady, Inquiry, Send,
           Receive, Unrecognised, Begin, Complete, DataTransferred, Continue,
           SaveAndDisconnect, Disconnected, Reselected, Terminated, Resume, Relock, Restart,
           Return
  <2>3. stage[n] # "idle" /\ stage[n] \in {"callback", "unlocked"}
    BY <1>6 DEF Callback, TargetCallback, Resume, Relock
  <2>4. stage'[n] # "idle"
    <3>1. CASE Resume(n)
      BY <1>0, <3>1 DEF Resume, Relock, Restart, Return
    <3>2. CASE Callback(n) /\ Reselected(n)
      BY <1>0, <2>3, <3>2
         DEF Callback, TargetCallback, Reselected, ResumeWith, Return, Directions,
             DriverInv, TurningInv, Turning
    <3>3. CASE Callback(n) /\ ~Reselected(n)
      BY <1>0, <3>3
         DEF Callback, TargetCallback, TargetCommand, RejectBusy, TestUnitReady, Inquiry,
             Send, Receive, Unrecognised, Begin, Complete, DataTransferred, Continue,
             SaveAndDisconnect, Disconnected, Terminated, Return, Directions
    <3> QED
      BY <1>6, <3>1, <3>2, <3>3
  <2> QED
    BY <2>1, <2>2, <2>4 DEF IdleInv
<1> QED
  BY <1>1, <1>2, <1>3, <1>4, <1>5, <1>6 DEF Next, Progress

\* The target settles only by ending the last command, with which all is as at first.
LEMMA SettlesIdle ==
    ASSUME [Next]_vars, DriverInv, (upset /\ ~upset') \/ (crossed /\ ~crossed')
    PROVE  \A m \in Nexus : stage'[m] = "idle"
<1>1. ~UNCHANGED vars
  BY DEF vars
<1>2. ASSUME NEW n \in Nexus, Select(n) \/ Interrupt(n) \/ Signal(n) \/ Resume(n) \/ Callback(n)
                              \/ Transfer(n) \/ Disconnect(n) \/ Reselect(n)
      PROVE  FALSE
  BY <1>2 DEF Select, Interrupt, Signal, Report, Resume, Callback, Transfer, Disconnect, Reselect,
              busVars
<1>3. PICK n \in Nexus : Finish(n)
  BY <1>1, <1>2 DEF Next, Progress
<1> QED
  BY <1>3 DEF Finish, OthersIdle, DriverInv, TypeOK

LEMMA IdleIsCalm ==
    ASSUME DriverInv', IdleInv', \A m \in Nexus : stage'[m] = "idle"
    PROVE  CalmInv'
<1>1. \A m \in Nexus : ~InCommand(m)' /\ ~Turning(m)'
  BY DEF InCommand, Turning, Directions
<1>2. condemned' = {}
  BY DEF IdleInv, DriverInv, TypeOK
<1> QED
  BY <1>1, <1>2
     DEF CalmInv, OneInCommand, InCommandBusy, ParkedInv, CondemnedInv, CountInv,
         NothingMovedInv, GoodHasMoved, OwnDirection, SavedDirectionInv, IdleInv, Directions

LEMMA SafeInvStep == SafeInv /\ [Next]_vars => SafeInv'
<1> SUFFICES ASSUME SafeInv, [Next]_vars PROVE SafeInv'
  OBVIOUS
<1>1. DriverInv' /\ IdleInv'
  BY DriverInvStep, IdleInvStep DEF SafeInv
<1>2. ASSUME ~upset', upset PROVE CalmInv'
  BY <1>1, <1>2, SettlesIdle, IdleIsCalm DEF SafeInv
<1>3. ASSUME ~upset', ~upset PROVE CalmInv'
  BY <1>3, CalmInvStep DEF SafeInv
<1> QED
  BY <1>1, <1>2, <1>3 DEF SafeInv

\* SafeInv is inductive: what is right before a termination is reported again is right
\* again once every nexus has become idle.
THEOREM SafeInvariant == Spec => []SafeInv
<1>1. Init => SafeInv
  BY CalmInvInit, DriverInvInit DEF Init, SafeInv, IdleInv
<1> QED
  BY <1>1, SafeInvStep, PTL DEF Spec

\* The driver, unless it is upset, never has two commands in progress, disconnected
\* ones included.
THEOREM MutualExclusion == Spec => []OneAtATime
<1>1. SafeInv => OneAtATime
  BY DEF SafeInv, CalmInv, OneAtATime
<1> QED
  BY <1>1, SafeInvariant, PTL

\* GOOD status is sent, unless the target is upset, only when every byte that was
\* asked for has moved.
THEOREM GoodMeansComplete == Spec => []CompleteMeansAll
<1>1. SafeInv => CompleteMeansAll
  BY DEF SafeInv, CalmInv, CompleteMeansAll
<1> QED
  BY <1>1, SafeInvariant, PTL

\* Data goes the way the command asked for, also after a reselect, unless the target
\* is upset.
THEOREM DirectionSurvives == Spec => []DirectionKept
<1>1. SafeInv => DirectionKept
  BY DEF SafeInv, CalmInv, DirectionKept
<1> QED
  BY <1>1, SafeInvariant, PTL

\* A command that was terminated while disconnected is not resumed, unless the target
\* is upset.
THEOREM TerminatedNotResumed == Spec => []ReselectOnlyLive
<1>1. SafeInv => ReselectOnlyLive
  BY DEF SafeInv, CalmInv, CondemnedInv, ReselectOnlyLive, TerminatedNotReselected
<1> QED
  BY <1>1, SafeInvariant, PTL

\* No step of another nexus touches what a disconnected command resumes from, unless
\* the target is upset.
THEOREM ParkedStateUntouched == Spec => ParkedStateStable
<1>1. SafeInv /\ [Next]_vars
        => [~upset => \A n \in Nexus : stage[n] = "unlocked" /\ stage'[n] = "unlocked"
              => UNCHANGED <<residue, direction>>]_vars
  <2> SUFFICES ASSUME CalmInv, [Next]_vars, NEW n \in Nexus,
                      stage[n] = "unlocked", stage'[n] = "unlocked"
               PROVE  UNCHANGED <<residue, direction>>
    BY DEF SafeInv
  <2>1. InCommand(n) /\ busy
    BY DEF InCommand, CalmInv, InCommandBusy
  <2>2. \A m \in Nexus : InCommand(m) => m = n
    BY <2>1 DEF CalmInv, OneInCommand
  <2>3. ASSUME NEW m \in Nexus, Callback(m) PROVE UNCHANGED <<residue, direction>>
    <3>1. m # n /\ ~InCommand(m) /\ stage[m] = "callback"
      BY <2>2, <2>3 DEF Callback, TargetCallback
    <3>2. TargetCommand(m) \/ Terminated(m)
      BY <2>3, <3>1 DEF Callback, TargetCallback, DataTransferred, Disconnected,
                        Reselected, InCommand
    <3> QED
      BY <2>1, <3>2 DEF TargetCommand, RejectBusy, Terminated, ClearFlags
  <2> QED
    BY <2>3 DEF vars, Next, Progress, Select, Transfer, Disconnect, Reselect, Finish,
                Interrupt, Signal, ClearFlags, Resume, Relock, Restart, driverVars
<1> QED
  BY <1>1, SafeInvariant, PTL DEF Spec, ParkedStateStable

-----------------------------------------------------------------------------
\* What is needed beyond CalmInv when only its own nexus is aborted while a command
\* is disconnected: the working flag is cleared only by what condemns the command.
OwnInv ==
    /\ OnlyTerminatedRestarted
    /\ \A n \in Nexus : stage[n] = "unlocked" => working \/ n \in condemned
    /\ \A m, n \in Nexus : stage[n] = "unlocked" /\ Terminating(m) => n \in condemned

\* A step of m that leaves the flags and the condemned alone, and does not come from
\* or to one of the stages that OwnInv is about.
LEMMA AsideOwn ==
    ASSUME CalmInv, OwnInv, NEW m \in Nexus,
           UNCHANGED <<working, condemned>>,
           \A k \in Nexus \ {m} : stage'[k] = stage[k] /\ target'[k] = target[k],
           stage'[m] \notin {"unlocked", "STARG_RESTART"},
           stage'[m] = "callback" => target'[m].reason \notin Terminations
    PROVE  OwnInv'
  BY DEF OwnInv, OnlyTerminatedRestarted, Terminating

\* A report condemns every disconnected command, for there is one at most and an abort
\* is its own.
LEMMA ReportCondemns ==
    ASSUME ~crossed', NEW m \in Nexus, NEW n \in Unlocked, NEW reason, Report(m, reason)
    PROVE  n \in condemned'
<1>1. reason = "STARG_ABORT" => n = m
  BY DEF Report
<1> QED
  BY <1>1 DEF Report, Condemn

LEMMA LibraryOwn ==
    ASSUME CalmInv, OwnInv, NEW m \in Nexus,
           Select(m) \/ Transfer(m) \/ Disconnect(m) \/ Reselect(m) \/ Finish(m)
    PROVE  OwnInv'
<1>0. /\ stage \in [Nexus -> Stages] /\ target \in [Nexus -> Targets]
      /\ UNCHANGED working
  BY DEF CalmInv, DriverInv, TypeOK, driverVars, Select, Transfer, Disconnect, Reselect, Finish
<1>1. CASE Select(m)
  <2>1. target[m] \in Targets
    BY <1>0
  <2>2. PICK cdb \in Cdbs, no_disconnects \in BOOLEAN :
            target' = [target EXCEPT ![m].reason = "STARG_COMMAND", ![m].cdb = cdb,
                                     ![m].no_disconnects = no_disconnects]
    BY <1>1 DEF Select
  <2>3. target'[m].reason = "STARG_COMMAND"
        /\ \A k \in Nexus \ {m} : target'[k] = target[k]
    BY <1>0, <2>1, <2>2 DEF Targets
  <2> QED
    BY <1>0, <1>1, <2>3, AsideOwn DEF Select, busVars, Terminations
<1>2. CASE Transfer(m) \/ Disconnect(m) \/ Reselect(m)
  <2>1. PICK reason \in Directions \cup {"STARG_DISCONNECT", "STARG_RESELECT"} : Call(m, reason)
    BY <1>2 DEF Transfer, Disconnect, Reselect
  <2>2. target[m] \in Targets
    BY <1>0
  <2>3. /\ target'[m].reason = reason /\ stage'[m] = "callback"
        /\ \A k \in Nexus \ {m} : stage'[k] = stage[k] /\ target'[k] = target[k]
    BY <1>0, <2>1, <2>2 DEF Call, Targets
  <2>4. UNCHANGED condemned
    BY <1>2 DEF Transfer, Disconnect, Reselect, busVars
  <2> QED
    BY <1>0, <2>3, <2>4, AsideOwn DEF Terminations, Directions
<1>3. CASE Finish(m)
  <2>1. /\ condemned' = condemned \ {m} /\ stage'[m] = "idle"
        /\ \A k \in Nexus \ {m} : stage'[k] = stage[k] /\ target'[k] = target[k]
    BY <1>0, <1>3 DEF Finish
  <2> QED
    BY <1>0, <2>1 DEF OwnInv, OnlyTerminatedRestarted, Terminating
<1> QED
  BY <1>1, <1>2, <1>3

LEMMA CallbackOwn ==
    ASSUME CalmInv, OwnInv, NEW m \in Nexus, Callback(m)
    PROVE  OwnInv'
<1>0. /\ stage \in [Nexus -> Stages] /\ target \in [Nexus -> Targets]
      /\ UNCHANGED condemned /\ stage[m] = "callback"
      /\ \A k \in Nexus : stage[k] = "callback" => k = m
  BY NexusAssumption
     DEF CalmInv, DriverInv, TypeOK, LockInv, Attached, Callback, TargetCallback
<1>f. \A k \in Nexus \ {m} : stage'[k] = stage[k] /\ target'[k] = target[k]
  BY <1>0 DEF Callback, TargetCallback, TargetCommand, RejectBusy, TestUnitReady, Inquiry, Send,
              Receive, Unrecognised, Begin, Complete, DataTransferred, Continue,
              SaveAndDisconnect, Disconnected, Reselected, Terminated, Return
<1>1. CASE TargetCommand(m) \/ DataTransferred(m) \/ Reselected(m)
  <2>1. UNCHANGED working
    BY <1>1 DEF TargetCommand, DataTransferred, Reselected
  <2>2. stage'[m] \in Directions \cup {"STARG_COMPLETE", "SCSI_NOT_OK",
                                       "STARG_SAVE_AND_DISCONNECT"}
    <3>1. CASE TargetCommand(m)
      BY <1>0, <3>1 DEF TargetCommand, RejectBusy, TestUnitReady, Inquiry, Send, Receive,
                        Unrecognised, Begin, Complete, Return, Directions
    <3>2. CASE DataTransferred(m)
      BY <1>0, <3>2 DEF DataTransferred, Complete, Continue, SaveAndDisconnect, Return
    <3>3. CASE Reselected(m)
      BY <1>0, <3>3 DEF Reselected, Return, ResumeWith, CalmInv, DriverInv, TurningInv, Turning
    <3> QED
      BY <1>1, <3>1, <3>2, <3>3
  <2> QED
    BY <1>0, <1>f, <2>1, <2>2, AsideOwn DEF Directions
<1>2. CASE Disconnected(m)
  <2>1. working' = TRUE /\ stage'[m] = "unlocked"
    BY <1>0, <1>2 DEF Disconnected, Return
  <2> QED
    BY <1>0, <1>f, <2>1 DEF OwnInv, OnlyTerminatedRestarted, Terminating
<1>3. CASE Terminated(m)
  <2>1. stage'[m] \in {"SCSI_RESET", "STARG_ABORT", "SCSI_NOT_OK"} /\ Terminating(m)
    BY <1>0, <1>3 DEF Terminated, Return, Terminating, Terminations
  <2> QED
    BY <1>0, <1>f, <2>1 DEF OwnInv, OnlyTerminatedRestarted, Terminating
<1> QED
  BY <1>1, <1>2, <1>3 DEF Callback, TargetCallback

LEMMA InterruptOwn ==
    ASSUME CalmInv, OwnInv, ~crossed', NEW m \in Nexus, Interrupt(m) \/ Signal(m)
    PROVE  OwnInv'
<1>0. stage \in [Nexus -> Stages] /\ target \in [Nexus -> Targets]
  BY DEF CalmInv, DriverInv, TypeOK
<1>1. PICK reason : Report(m, reason)
  BY DEF Interrupt, Signal
<1>2. condemned \subseteq condemned' /\ \A n \in Unlocked : n \in condemned'
  BY <1>1, ReportCondemns DEF Report
<1>3. \A n \in Nexus : stage'[n] \in {"unlocked", "STARG_RESTART"} => stage'[n] = stage[n]
  BY <1>0 DEF Interrupt, Signal, Call
<1> QED
  BY <1>2, <1>3 DEF OwnInv, OnlyTerminatedRestarted, Unlocked

LEMMA ResumeOwn ==
    ASSUME CalmInv, OwnInv, NEW m \in Nexus, Resume(m)
    PROVE  OwnInv'
<1>0. /\ stage \in [Nexus -> Stages] /\ stage[m] = "unlocked"
      /\ UNCHANGED <<condemned, target>>
  BY DEF CalmInv, DriverInv, TypeOK, Resume, Relock
<1>1. /\ \A k \in Nexus \ {m} : stage'[k] = stage[k]
      /\ stage'[m] \in {"STARG_RESTART", "STARG_RESELECT"}
      /\ stage'[m] = "STARG_RESTART" => ~working \/ m \in condemned
  BY <1>0 DEF Resume, Relock, Restart, Return
<1>2. \A n \in Nexus \ {m} : stage[n] # "unlocked"
  BY <1>0 DEF CalmInv, OneInCommand, InCommand
<1> QED
  BY <1>0, <1>1, <1>2 DEF OwnInv, OnlyTerminatedRestarted

LEMMA OwnInvStep ==
    ASSUME CalmInv, OwnInv, ~crossed', [Next]_vars
    PROVE  OwnInv'
<1>1. CASE UNCHANGED vars
  BY <1>1 DEF vars, OwnInv, OnlyTerminatedRestarted, Terminating
<1> QED
  BY <1>1, LibraryOwn, CallbackOwn, InterruptOwn, ResumeOwn DEF Next, Progress

\* A command is ended with STARG_RESTART only when a reset, or an abort for its own
\* nexus, came while it was disconnected, unless the target is upset or another nexus
\* was aborted meanwhile (TARGET.C:217-234, 247-273).
THEOREM RestartedWasTerminated == Spec => []RestartOnlyTerminated
<1> DEFINE OwnSafe == ~upset /\ ~crossed => OwnInv
<1>1. Init => OwnSafe
  BY DEF Init, OwnInv, OnlyTerminatedRestarted, Terminating
<1>2. ASSUME SafeInv, OwnSafe, [Next]_vars, ~upset', ~crossed' PROVE OwnInv'
  <2>1. CASE ~upset /\ ~crossed
    BY <1>2, <2>1, OwnInvStep DEF SafeInv
  <2>2. CASE upset \/ crossed
    <3>1. \A m \in Nexus : stage'[m] = "idle"
      BY <1>2, <2>2, SettlesIdle DEF SafeInv
    <3> QED
      BY <3>1 DEF OwnInv, OnlyTerminatedRestarted, Terminating
  <2> QED
    BY <2>1, <2>2
<1>3. SafeInv /\ OwnSafe /\ [Next]_vars => OwnSafe'
  BY <1>2
<1>4. OwnSafe => RestartOnlyTerminated
  BY DEF OwnInv, RestartOnlyTerminated
<1> HIDE DEF OwnSafe
<1> QED
  BY <1>1, <1>3, <1>4, SafeInvariant, PTL DEF Spec
-----------------------------------------------------------------------------
\* The refinement.  CalmInv relates the driver to TargetPromise; what is left to show is
\* that each step of the driver is a step of the promise or changes nothing of it.

\* The nexus that Owner chooses.
Keeper(n) ==
    \/ InCommand(n)
    \/ Unlocked = {} /\ Terminating(n)

Kept == [Promise!Serve]_(Promise!servedVars)

LEMMA OwnerIsKeeper ==
    ASSUME CalmInv, busy, NEW n \in Nexus, Keeper(n)
    PROVE  Owner = n
<1>1. ASSUME NEW m \in Nexus, Keeper(m) PROVE m = n
  BY <1>1, NexusAssumption
     DEF CalmInv, DriverInv, OneInCommand, LockInv, Attached, Keeper, InCommand, Terminating,
         Unlocked, Directions
<1>2. Owner = CHOOSE m \in Nexus : Keeper(m)
  BY DEF Owner, Keeper, Terminating
<1>3. Keeper(CHOOSE m \in Nexus : Keeper(m)) /\ (CHOOSE m \in Nexus : Keeper(m)) \in Nexus
  OBVIOUS
<1> QED
  BY <1>1, <1>2, <1>3

LEMMA NextOwnerIsKeeper ==
    ASSUME CalmInv', busy', NEW n \in Nexus, Keeper(n)'
    PROVE  Owner' = n
<1>1. ASSUME NEW m \in Nexus, Keeper(m)' PROVE m = n
  BY <1>1, NexusAssumption
     DEF CalmInv, DriverInv, OneInCommand, LockInv, Attached, Keeper, InCommand, Terminating,
         Unlocked, Directions
<1>2. Owner' = CHOOSE m \in Nexus : Keeper(m)'
  BY DEF Owner, Keeper, Terminating
<1>3. /\ \E m \in Nexus : Keeper(m)'
      /\ (CHOOSE m \in Nexus : Keeper(m)') \in Nexus
  OBVIOUS
<1>4. \E m \in Nexus : Keeper(m)' /\ m = CHOOSE k \in Nexus : Keeper(k)'
  BY <1>3
<1> QED
  BY <1>1, <1>2, <1>4

LEMMA BusyHasKeeper ==
    ASSUME CalmInv, busy
    PROVE  \E n \in Nexus : Keeper(n)
  BY DEF CalmInv, DriverInv, NoBusyLeak, Keeper, Terminating, Unlocked, InCommand

\* Nothing that the promise is about changes.
LEMMA Stutters ==
    ASSUME CalmInv, CalmInv', NEW n \in Nexus,
           \A k \in Nexus \ {n} : stage'[k] = stage[k] /\ target'[k] = target[k],
           UNCHANGED busy,
           busy => residue' = residue,
           stage[n] = "unlocked" <=> stage'[n] = "unlocked",
           Keeper(n) => Keeper(n)'
    PROVE  Kept
<1>1. Unlocked' = Unlocked
  BY DEF Unlocked
<1>2. CASE ~busy
  BY <1>2 DEF Kept, Promise!servedVars
<1>3. CASE busy
  <2>1. PICK m \in Nexus : Keeper(m)
    BY <1>3, BusyHasKeeper
  <2>2. Keeper(m)'
    BY <1>1, <2>1 DEF Keeper, InCommand, Terminating
  <2>3. Owner = m /\ Owner' = m
    BY <1>3, <2>1, <2>2, OwnerIsKeeper, NextOwnerIsKeeper
  <2> QED
    BY <1>1, <1>3, <2>3 DEF Kept, Promise!servedVars
<1> QED
  BY <1>2, <1>3

\* The driver becomes free.
LEMMA Freed ==
    ASSUME CalmInv, busy, ~busy'
    PROVE  Kept
<1>1. PICK n \in Nexus : Keeper(n)
  BY BusyHasKeeper
<1>2. Owner # NoNexus
  BY <1>1, OwnerIsKeeper, NexusAssumption
<1> QED
  BY <1>2 DEF Kept, Promise!Serve, Promise!Terminate, Promise!Free

\* The command of n goes on, before and after the step.
LEMMA GoesOn ==
    ASSUME CalmInv, CalmInv', NEW n \in Nexus, InCommand(n), InCommand(n)'
    PROVE  /\ busy /\ busy'
           /\ Owner = n /\ Owner' = n /\ n # NoNexus
           /\ Unlocked = IF stage[n] = "unlocked" THEN {n} ELSE {}
           /\ Unlocked' = IF stage'[n] = "unlocked" THEN {n} ELSE {}
<1>1. busy /\ busy'
  BY DEF CalmInv, InCommandBusy
<1>2. Owner = n /\ Owner' = n
  BY <1>1, OwnerIsKeeper, NextOwnerIsKeeper DEF Keeper
<1>3. \A m \in Nexus \ {n} : ~InCommand(m) /\ ~InCommand(m)'
  BY DEF CalmInv, OneInCommand
<1> QED
  BY <1>1, <1>2, <1>3, NexusAssumption DEF InCommand, Unlocked

-----------------------------------------------------------------------------
LEMMA LibraryKept ==
    ASSUME CalmInv, CalmInv', NEW n \in Nexus,
           Select(n) \/ Transfer(n) \/ Disconnect(n) \/ Reselect(n) \/ Finish(n)
    PROVE  Kept
<1>0. /\ stage \in [Nexus -> Stages] /\ target \in [Nexus -> Targets]
      /\ UNCHANGED <<busy, residue>>
      /\ target[n] \in Targets
  BY DEF CalmInv, DriverInv, TypeOK, driverVars, Select, Transfer, Disconnect, Reselect, Finish
<1>1. CASE Select(n)
  <2>1. /\ stage[n] = "idle" /\ stage'[n] = "callback"
        /\ \A k \in Nexus \ {n} : stage'[k] = stage[k] /\ target'[k] = target[k]
    BY <1>0, <1>1 DEF Select
  <2> QED
    BY <1>0, <2>1, Stutters DEF Keeper, InCommand, Terminating, Directions
<1>2. CASE Transfer(n) \/ Disconnect(n) \/ Reselect(n)
  <2>1. PICK reason \in Directions \cup {"STARG_DISCONNECT", "STARG_RESELECT"} : Call(n, reason)
    BY <1>2 DEF Transfer, Disconnect, Reselect
  <2>2. /\ target'[n].reason = reason /\ stage'[n] = "callback"
        /\ \A k \in Nexus \ {n} : stage'[k] = stage[k] /\ target'[k] = target[k]
    BY <1>0, <2>1 DEF Call, Targets
  <2>3. stage[n] # "unlocked"
    BY <1>2 DEF Transfer, Disconnect, Reselect, Directions
  <2>4. Keeper(n)'
    BY <2>2 DEF Keeper, InCommand
  <2> QED
    BY <1>0, <2>2, <2>3, <2>4, Stutters
<1>3. CASE Finish(n)
  <2>1. /\ stage[n] \in Final /\ stage'[n] = "idle"
        /\ \A k \in Nexus \ {n} : stage'[k] = stage[k] /\ target'[k] = target[k]
    BY <1>0, <1>3 DEF Finish
  <2> QED
    BY <1>0, <2>1, Stutters DEF Keeper, InCommand, Terminating, Directions, Final
<1> QED
  BY <1>1, <1>2, <1>3

LEMMA InterruptKept ==
    ASSUME CalmInv, CalmInv', NEW n \in Nexus, Interrupt(n)
    PROVE  Kept
<1>0. /\ stage \in [Nexus -> Stages] /\ target \in [Nexus -> Targets]
      /\ UNCHANGED <<busy, residue>>
      /\ target[n] \in Targets
      /\ stage[n] \in (Replies \ Final) \cup {"STARG_COMPLETE"}
  BY DEF CalmInv, DriverInv, TypeOK, driverVars, Interrupt
<1>1. PICK reason \in Terminations : Call(n, reason)
  BY ReportedAssumption DEF Interrupt
<1>2. /\ target'[n].reason = reason /\ stage'[n] = "callback"
      /\ \A k \in Nexus \ {n} : stage'[k] = stage[k] /\ target'[k] = target[k]
  BY <1>0, <1>1 DEF Call, Targets
<1>3. stage[n] # "unlocked" /\ stage[n] # "callback"
  BY <1>0 DEF Replies, Directions, Final
<1>4. ASSUME Keeper(n) PROVE Keeper(n)'
  <2>1. InCommand(n)
    BY <1>3, <1>4 DEF Keeper, Terminating
  <2>2. Unlocked' = {}
    BY <1>2, <1>3, <2>1 DEF CalmInv, OneInCommand, InCommand, Unlocked
  <2> QED
    BY <1>2, <2>2 DEF Keeper, Terminating
<1> QED
  BY <1>0, <1>2, <1>3, <1>4, Stutters

LEMMA SignalKept ==
    ASSUME CalmInv, CalmInv', NEW n \in Nexus, Signal(n)
    PROVE  Kept
<1>0. /\ stage \in [Nexus -> Stages] /\ target \in [Nexus -> Targets]
      /\ UNCHANGED <<stage, residue>>
      /\ stage[n] \in {"idle", "unlocked"}
      /\ busy' = (busy /\ working)
  BY DEF CalmInv, DriverInv, TypeOK, Signal, ClearFlags, Attached
<1>1. \A k \in Nexus \ {n} : target'[k] = target[k]
  BY <1>0 DEF Signal
<1>2. Keeper(n) => Keeper(n)'
  BY <1>0 DEF Keeper, InCommand, Terminating, Directions
<1>3. CASE busy /\ ~busy'
  BY <1>3, Freed
<1>4. CASE busy' = busy
  BY <1>0, <1>1, <1>2, <1>4, Stutters
<1> QED
  BY <1>0, <1>3, <1>4 DEF CalmInv, DriverInv, TypeOK

\* The command that wakes up is taken up again, or has been ended.
LEMMA ResumeKept ==
    ASSUME CalmInv, CalmInv', NEW n \in Nexus, Resume(n)
    PROVE  Kept
<1>0. /\ stage \in [Nexus -> Stages] /\ stage[n] = "unlocked"
      /\ InCommand(n) /\ busy
      /\ UNCHANGED residue
  BY DEF CalmInv, DriverInv, TypeOK, Resume, Relock, InCommand, InCommandBusy
<1>1. CASE Restart(n)
  BY <1>0, <1>1, Freed DEF Restart
<1>2. CASE ~Restart(n)
  <2>1. stage'[n] = "STARG_RESELECT"
    BY <1>0, <1>2 DEF Resume, Relock, Return
  <2>2. InCommand(n)'
    BY <2>1 DEF InCommand
  <2>3. /\ busy /\ busy' /\ Owner = n /\ Owner' = n
        /\ Unlocked # {} /\ Unlocked' = {}
    BY <1>0, <2>1, <2>2, GoesOn
  <2> QED
    BY <1>0, <2>3 DEF Kept, Promise!Serve, Promise!TakeUp
<1> QED
  BY <1>1, <1>2

LEMMA BeginKept ==
    ASSUME CalmInv, CalmInv', NEW n \in Nexus, stage[n] = "callback",
           target[n].reason = "STARG_COMMAND", ~busy,
           NEW length \in Nat, NEW data_len, NEW dir \in Directions,
           Begin(n, length, data_len, dir)
    PROVE  Kept
<1>0. stage \in [Nexus -> Stages] /\ target \in [Nexus -> Targets]
  BY DEF CalmInv, DriverInv, TypeOK
<1>1. CASE length = 0
  <2>1. busy' = busy
    BY <1>1 DEF Begin
  <2> QED
    BY <2>1 DEF Kept, Promise!servedVars
<1>2. CASE length # 0
  <2>1. /\ residue' = length /\ busy' = TRUE /\ stage'[n] = dir
        /\ \A k \in Nexus \ {n} : stage'[k] = stage[k]
    BY <1>0, <1>2 DEF Begin, Return
  <2>2. Unlocked' = {}
    BY <2>1 DEF CalmInv, InCommandBusy, InCommand, Unlocked, Directions
  <2>3. Keeper(n)'
    BY <2>1 DEF Keeper, InCommand
  <2>4. Owner' = n
    BY <2>1, <2>3, NextOwnerIsKeeper
  <2>5. Promise!Accept(n)
    BY <1>2, <2>1, <2>2, <2>4 DEF Promise!Accept, Promise!Free
  <2> QED
    BY <2>5 DEF Kept, Promise!Serve
<1> QED
  BY <1>1, <1>2

LEMMA TargetCommandKept ==
    ASSUME CalmInv, CalmInv', NEW n \in Nexus, stage[n] = "callback", TargetCommand(n)
    PROVE  Kept
<1>0. /\ stage \in [Nexus -> Stages] /\ target \in [Nexus -> Targets]
      /\ target[n].reason = "STARG_COMMAND"
      /\ target[n].cdb.len \in Nat
  BY CdbsAssumption DEF CalmInv, DriverInv, TypeOK, Targets, NoCdb, TargetCommand
<1>1. CASE RejectBusy(n)
  <2>1. /\ UNCHANGED <<busy, residue>>
        /\ stage'[n] = "STARG_COMPLETE"
        /\ \A k \in Nexus \ {n} : stage'[k] = stage[k] /\ target'[k] = target[k]
    BY <1>0, <1>1 DEF RejectBusy, Complete, Return
  <2>2. ~Keeper(n)
    BY <1>0 DEF Keeper, InCommand, Terminating, Terminations, Directions
  <2> QED
    BY <2>1, <2>2, Stutters
<1>2. CASE ~busy /\ (TestUnitReady(n) \/ Unrecognised(n))
  <2>1. busy' = busy
    BY <1>2 DEF TestUnitReady, Unrecognised
  <2> QED
    BY <1>2, <2>1 DEF Kept, Promise!servedVars
<1>3. CASE ~busy /\ (Inquiry(n) \/ Send(n) \/ Receive(n))
  <2>1. PICK length \in Nat, data_len \in Int, dir \in Directions : Begin(n, length, data_len, dir)
    BY <1>0, <1>3, InquiryBounds, SizeAssumption
       DEF Inquiry, Send, Receive, ChunkLength, Directions
  <2> QED
    BY <1>0, <1>3, <2>1, BeginKept
<1> QED
  BY <1>1, <1>2, <1>3 DEF TargetCommand

LEMMA DataTransferredKept ==
    ASSUME CalmInv, CalmInv', NEW n \in Nexus, stage[n] = "callback", DataTransferred(n)
    PROVE  Kept
<1> DEFINE len == target[n].data_len
<1>0. /\ stage \in [Nexus -> Stages] /\ target \in [Nexus -> Targets]
      /\ target[n].reason \in Directions
      /\ residue' = residue - len
  BY DEF CalmInv, DriverInv, TypeOK, DataTransferred
<1>1. /\ InCommand(n) /\ busy
      /\ residue \in Int /\ len \in Int
      /\ 0 < len /\ len <= residue /\ len <= DATA_SIZE
  BY <1>0 DEF CalmInv, DriverInv, TypeOK, Targets, MovingInv, Moving, InCommand
<1>2. CASE ~busy'
  BY <1>1, <1>2, Freed
<1>3. CASE busy'
  <2>1. /\ residue' # 0
        /\ stage'[n] \in Directions \cup {"STARG_SAVE_AND_DISCONNECT"}
    BY <1>0, <1>1, <1>3 DEF DataTransferred, NothingLeft, Continue, SaveAndDisconnect, Return
  <2>2. InCommand(n)'
    BY <2>1 DEF InCommand
  <2>3. /\ busy' /\ Owner = n /\ Owner' = n /\ n # NoNexus
        /\ Unlocked = {} /\ Unlocked' = {}
    BY <1>1, <2>1, <2>2, GoesOn DEF Directions
  <2>4. Promise!MovePiece
    BY <1>0, <1>1, <2>1, <2>3, SizeAssumption DEF Promise!MovePiece
  <2> QED
    BY <2>4 DEF Kept, Promise!Serve
<1> QED
  BY <1>2, <1>3

LEMMA DisconnectedKept ==
    ASSUME CalmInv, CalmInv', NEW n \in Nexus, stage[n] = "callback", Disconnected(n)
    PROVE  Kept
<1>1. /\ stage'[n] = "unlocked" /\ UNCHANGED residue
      /\ InCommand(n) /\ InCommand(n)'
  BY DEF CalmInv, DriverInv, TypeOK, Disconnected, Return, InCommand
<1>2. /\ busy /\ busy' /\ Owner = n /\ Owner' = n /\ n # NoNexus
      /\ Unlocked = {} /\ Unlocked' # {}
  BY <1>1, GoesOn
<1> QED
  BY <1>1, <1>2 DEF Kept, Promise!Serve, Promise!PutAside

LEMMA ReselectedKept ==
    ASSUME CalmInv, CalmInv', NEW n \in Nexus, stage[n] = "callback", Reselected(n)
    PROVE  Kept
<1>1. /\ stage'[n] \in Directions /\ UNCHANGED residue
      /\ InCommand(n) /\ InCommand(n)'
  BY DEF CalmInv, DriverInv, TypeOK, TurningInv, Turning, Reselected, ResumeWith, Return, InCommand
<1>2. /\ busy /\ busy' /\ Owner = n /\ Owner' = n
      /\ Unlocked = {} /\ Unlocked' = {}
  BY <1>1, GoesOn DEF Directions
<1> QED
  BY <1>1, <1>2 DEF Kept, Promise!servedVars

\* A termination frees the driver, or finds a disconnected command that keeps it.
LEMMA TerminatedKept ==
    ASSUME CalmInv, CalmInv', NEW n \in Nexus, stage[n] = "callback", Terminated(n)
    PROVE  Kept
<1>0. /\ stage \in [Nexus -> Stages]
      /\ UNCHANGED <<residue, target>>
      /\ busy' = (busy /\ working)
      /\ target[n].reason \in Terminations
      /\ stage'[n] \in {"SCSI_RESET", "STARG_ABORT", "SCSI_NOT_OK"}
      /\ \A k \in Nexus \ {n} : stage'[k] = stage[k]
  BY DEF CalmInv, DriverInv, TypeOK, Terminated, ClearFlags, Return, Terminations
<1>1. CASE busy /\ ~busy'
  BY <1>1, Freed
<1>2. CASE ~busy
  BY <1>0, <1>2 DEF Kept, Promise!servedVars
<1>3. CASE busy /\ busy'
  <2>1. Unlocked # {}
    BY <1>0, <1>3 DEF CalmInv, DriverInv, WorkingInv
  <2>2. ~Keeper(n)
    BY <1>0, <2>1 DEF Keeper, InCommand, Terminations, Directions
  <2> QED
    BY <1>0, <1>3, <2>2, Stutters
<1> QED
  BY <1>1, <1>2, <1>3

LEMMA CallbackKept ==
    ASSUME CalmInv, CalmInv', NEW n \in Nexus, Callback(n)
    PROVE  Kept
  BY TargetCommandKept, DataTransferredKept, DisconnectedKept, ReselectedKept, TerminatedKept
     DEF Callback, TargetCallback

-----------------------------------------------------------------------------
\* A driver that settles is free.
LEMMA SettlesFree ==
    ASSUME SafeInv, SafeInv', [Next]_vars, upset, ~upset'
    PROVE  Promise!Settle
<1>1. \A m \in Nexus : stage'[m] = "idle"
  BY SettlesIdle DEF SafeInv
<1>2. ~busy'
  BY <1>1 DEF SafeInv, DriverInv, NoBusyLeak, InCommand, Directions
<1>3. upset' = FALSE
  BY DEF SafeInv, DriverInv, TypeOK
<1> QED
  BY <1>2, <1>3 DEF Promise!Settle, Promise!Free

-----------------------------------------------------------------------------
\* The driver, with its flags and its lock, is an implementation of TargetPromise: it
\* keeps its promise in every environment, and again after each upset (TARGET.C:52-289).
THEOREM KeepsItsPromise == Spec => ServesAsPromised
<1>1. Init => Promise!PromiseInit
  BY DEF Init, DriverInit, Promise!PromiseInit, Promise!Free
<1>2. ASSUME CalmInv, CalmInv', [Next]_vars PROVE Kept
  <2>1. CASE UNCHANGED vars
    BY <2>1 DEF vars, Kept, Promise!servedVars, Owner, InCommand, Unlocked
  <2> QED
    BY <1>2, <2>1, LibraryKept, InterruptKept, SignalKept, ResumeKept, CallbackKept
       DEF Next, Progress
<1>3. ASSUME SafeInv, SafeInv', [Next]_vars
      PROVE  [Promise!PromiseNext]_(Promise!promiseVars)
  <2>0. upset \in BOOLEAN /\ upset' \in BOOLEAN
    BY <1>3 DEF SafeInv, DriverInv, TypeOK
  <2>1. CASE upset'
    BY <2>0, <2>1 DEF Promise!PromiseNext, Promise!BeUpset
  <2>2. CASE upset /\ ~upset'
    BY <1>3, <2>2, SettlesFree DEF Promise!PromiseNext
  <2>3. CASE ~upset /\ ~upset'
    <3>1. Kept
      BY <1>2, <1>3, <2>3 DEF SafeInv
    <3>2. UNCHANGED upset
      BY <2>0, <2>3
    <3> QED
      BY <2>3, <3>1, <3>2
         DEF Kept, Promise!PromiseNext, Promise!servedVars, Promise!promiseVars
  <2> QED
    BY <2>1, <2>2, <2>3
<1>4. SafeInv /\ SafeInv' /\ [Next]_vars => [Promise!PromiseNext]_(Promise!promiseVars)
  BY <1>3
<1> QED
  BY <1>1, <1>4, SafeInvariant, PTL DEF Spec, ServesAsPromised, Promise!PromiseSpec
=============================================================================
