----------------------------- MODULE TargetProofs -----------------------------
(***************************************************************************)
(* Proofs about the target driver, for every number of nexuses, every set  *)
(* of commands, every buffer size and every history of resets and aborts.  *)
(***************************************************************************)
EXTENDS TargetInvariants, TLAPS

\* A chunk of a positive residue is positive, part of it, and fits the buffer.
LEMMA ChunkBounds ==
    ASSUME NEW left \in Int, left > 0
    PROVE  /\ ChunkLength(left) \in Nat
           /\ ChunkLength(left) > 0
           /\ ChunkLength(left) <= left
           /\ ChunkLength(left) <= DATA_SIZE
  BY SizeAssumption DEF ChunkLength

LEMMA InquiryBounds ==
    ASSUME NEW len \in Nat
    PROVE  /\ InquiryLength(len) \in Nat
           /\ InquiryLength(len) <= DATA_SIZE
  BY SizeAssumption DEF InquiryLength

\* An update of one field leaves the target structures well typed.
LEMMA StatusUpdate ==
    ASSUME target \in [Nexus -> Targets], NEW n \in Nexus, NEW status \in Statuses
    PROVE  [target EXCEPT ![n].status = status] \in [Nexus -> Targets]
  BY DEF Targets

LEMMA LengthUpdate ==
    ASSUME target \in [Nexus -> Targets], NEW n \in Nexus, NEW data_len \in Nat
    PROVE  [target EXCEPT ![n].data_len = data_len] \in [Nexus -> Targets]
  BY DEF Targets

LEMMA ReasonUpdate ==
    ASSUME target \in [Nexus -> Targets], NEW n \in Nexus, NEW reason \in Reasons
    PROVE  [target EXCEPT ![n].reason = reason] \in [Nexus -> Targets]
  BY DEF Targets

LEMMA StageUpdate ==
    ASSUME stage \in [Nexus -> Stages], NEW n \in Nexus, NEW s \in Stages
    PROVE  [stage EXCEPT ![n] = s] \in [Nexus -> Stages]
  OBVIOUS

LEMMA DriverInvInit == Init => DriverInv
<1> SUFFICES ASSUME Init PROVE DriverInv
  OBVIOUS
<1>1. TypeOK
  <2>1. ClearTarget \in Targets
    BY DEF ClearTarget, Targets, Reasons, Statuses, NoCdb
  <2> QED
    BY <2>1, GarbageAssumption DEF Init, DriverInit, TypeOK, Stages
<1>2. LockInv /\ WorkingInv /\ MovingInv /\ TurningInv /\ NoBusyLeak
  BY NexusAssumption
     DEF Init, DriverInit, LockInv, WorkingInv, MovingInv, TurningInv, NoBusyLeak,
         Attached, Moving, Turning, Directions
<1> QED
  BY <1>1, <1>2 DEF DriverInv

LEMMA BeginInv ==
    ASSUME DriverInv, NEW n \in Nexus, stage[n] = "callback",
           target[n].reason = "STARG_COMMAND", ~busy,
           NEW length \in Nat, NEW data_len \in Nat, NEW dir \in Directions,
           length # 0 => 0 < data_len /\ data_len <= length /\ data_len <= DATA_SIZE,
           Begin(n, length, data_len, dir),
           UNCHANGED <<direction, working, lock, moved, condemned,
                       signalled, upset, crossed>>
    PROVE  DriverInv'
<1>1. TypeOK'
  <2>1. target' \in [Nexus -> Targets]
    <3>1. CASE length = 0
      BY <3>1, StatusUpdate DEF DriverInv, TypeOK, Begin, Complete, Statuses
    <3>2. CASE length # 0
      BY <3>2, LengthUpdate DEF DriverInv, TypeOK, Begin
    <3> QED
      BY <3>1, <3>2
  <2>2. stage' \in [Nexus -> Stages]
    BY StageUpdate DEF DriverInv, TypeOK, Begin, Complete, Return, Stages, Replies,
                       Final
  <2>3. busy' \in BOOLEAN
    BY DEF DriverInv, TypeOK, Begin
  <2> QED
    BY <2>1, <2>2, <2>3 DEF DriverInv, TypeOK, Begin
<1>2. LockInv'
  BY DEF DriverInv, TypeOK, LockInv, Attached, Begin, Complete, Return, Directions
<1>3. WorkingInv'
  BY DEF DriverInv, TypeOK, WorkingInv, Begin
<1>4. MovingInv'
  BY DEF DriverInv, TypeOK, MovingInv, LockInv, Attached, WorkingInv, Moving, Begin,
         Complete, Return, Targets, Directions
<1>5. TurningInv'
  BY DEF DriverInv, TypeOK, TurningInv, LockInv, Attached, WorkingInv, Turning, Begin,
         Complete, Return, Targets, Directions
<1>6. NoBusyLeak'
  BY DEF DriverInv, TypeOK, NoBusyLeak, InCommand, Begin, Complete, Return, Directions
<1> QED
  BY <1>1, <1>2, <1>3, <1>4, <1>5, <1>6 DEF DriverInv

LEMMA ImmediateInv ==
    ASSUME DriverInv, NEW n \in Nexus, stage[n] = "callback",
           target[n].reason = "STARG_COMMAND", NEW status \in Statuses,
           Complete(n, status),
           UNCHANGED <<driverVars, lock, busVars>>
    PROVE  DriverInv'
<1>1. TypeOK'
  <2>1. target' \in [Nexus -> Targets]
    BY StatusUpdate DEF DriverInv, TypeOK, Complete
  <2>2. stage' \in [Nexus -> Stages]
    BY StageUpdate DEF DriverInv, TypeOK, Complete, Return, Stages, Replies, Final
  <2> QED
    BY <2>1, <2>2 DEF DriverInv, TypeOK, driverVars, busVars
<1>2. LockInv'
  BY NexusAssumption DEF DriverInv, TypeOK, LockInv, Attached, Complete, Return,
       driverVars, busVars, Directions, Terminations
<1>3. WorkingInv'
  BY NexusAssumption DEF DriverInv, TypeOK, WorkingInv, LockInv, MovingInv, Moving,
                         TurningInv, Turning, Attached, Unlocked, Complete, Return,
                         driverVars, busVars, Directions, Terminations
<1>4. MovingInv'
  BY NexusAssumption, ChunkBounds DEF DriverInv, TypeOK, MovingInv, LockInv, Attached,
     WorkingInv, Moving, TurningInv, Turning, Targets, Complete, Return, driverVars,
     busVars, Directions, Terminations
<1>5. TurningInv'
  BY NexusAssumption DEF DriverInv, TypeOK, MovingInv, LockInv, Attached, WorkingInv,
     Moving, TurningInv, Turning, Targets, Complete, Return, driverVars, busVars,
     Directions, Terminations
<1>6. NoBusyLeak'
  BY NexusAssumption DEF DriverInv, TypeOK, NoBusyLeak, InCommand, LockInv, Attached,
     WorkingInv, Unlocked, Targets, Complete, Return, driverVars, busVars, Directions,
     Terminations
<1> QED
  BY <1>1, <1>2, <1>3, <1>4, <1>5, <1>6 DEF DriverInv

LEMMA DisconnectedInv ==
    ASSUME DriverInv, NEW n \in Nexus, stage[n] = "callback", Disconnected(n),
           signalled' = FALSE, UNCHANGED <<moved, condemned, upset, crossed>>
    PROVE  DriverInv'
<1>1. TypeOK'
  <2>1. target' \in [Nexus -> Targets]
    BY DEF DriverInv, TypeOK, Disconnected
  <2>2. stage' \in [Nexus -> Stages]
    BY StageUpdate DEF DriverInv, TypeOK, Disconnected, Return, Stages
  <2> QED
    BY <2>1, <2>2 DEF DriverInv, TypeOK, Disconnected
<1>2. LockInv'
  BY NexusAssumption DEF DriverInv, TypeOK, LockInv, Attached, Disconnected, Return,
       Directions
<1>3. WorkingInv'
  BY NexusAssumption DEF DriverInv, TypeOK, WorkingInv, LockInv, MovingInv, Moving,
                         TurningInv, Turning, Attached, Unlocked, Disconnected, Return,
                         Directions
<1>4. MovingInv'
  BY NexusAssumption, ChunkBounds DEF DriverInv, TypeOK, MovingInv, LockInv, Attached,
     WorkingInv, Moving, TurningInv, Turning, Targets, Disconnected, Return, Directions
<1>5. TurningInv'
  BY NexusAssumption DEF DriverInv, TypeOK, MovingInv, LockInv, Attached, WorkingInv,
     Moving, TurningInv, Turning, Targets, Disconnected, Return, Directions
<1>6. NoBusyLeak'
  BY NexusAssumption DEF DriverInv, TypeOK, NoBusyLeak, InCommand, LockInv, Attached,
     WorkingInv, Unlocked, Targets, Disconnected, Return, Directions
<1> QED
  BY <1>1, <1>2, <1>3, <1>4, <1>5, <1>6 DEF DriverInv

LEMMA ReselectedInv ==
    ASSUME DriverInv, NEW n \in Nexus, stage[n] = "callback", Reselected(n),
       UNCHANGED busVars
    PROVE  DriverInv'
<1>0. residue \in Int /\ residue > 0 /\ direction \in Directions /\ busy /\ ~working
  BY DEF DriverInv, TypeOK, TurningInv, Turning, Reselected
<1>1. TypeOK'
  <2>1. target' \in [Nexus -> Targets]
    BY <1>0, LengthUpdate, ChunkBounds DEF DriverInv, TypeOK, Reselected
  <2>2. stage' \in [Nexus -> Stages]
    BY <1>0, StageUpdate DEF DriverInv, TypeOK, Reselected, ResumeWith, Return, Stages,
       Replies
  <2> QED
    BY <2>1, <2>2 DEF DriverInv, TypeOK, Reselected, busVars
<1>2. LockInv'
  BY <1>0, NexusAssumption DEF DriverInv, TypeOK, LockInv, Attached, Reselected,
       ResumeWith, Return,
       Directions, busVars
<1>3. WorkingInv'
  BY <1>0, NexusAssumption DEF DriverInv, TypeOK, WorkingInv, LockInv, MovingInv, Moving,
                         TurningInv, Turning, Attached, Unlocked, Reselected, ResumeWith,
                         Return,
                         Directions, busVars
<1>4. MovingInv'
  BY <1>0, NexusAssumption, ChunkBounds DEF DriverInv, TypeOK, MovingInv, LockInv,
       Attached,
     WorkingInv, Moving, TurningInv, Turning, Targets, Reselected, ResumeWith, Return,
     Directions,
     busVars
<1>5. TurningInv'
  BY <1>0, NexusAssumption DEF DriverInv, TypeOK, MovingInv, LockInv, Attached,
       WorkingInv,
     Moving, TurningInv, Turning, Targets, Reselected, ResumeWith, Return, Directions,
     busVars
<1>6. NoBusyLeak'
  BY <1>0, NexusAssumption DEF DriverInv, TypeOK, NoBusyLeak, InCommand, LockInv,
       Attached,
     WorkingInv, Unlocked, Targets, Reselected, ResumeWith, Return, Directions, busVars
<1> QED
  BY <1>1, <1>2, <1>3, <1>4, <1>5, <1>6 DEF DriverInv

LEMMA TerminatedInv ==
    ASSUME DriverInv, NEW n \in Nexus, stage[n] = "callback", Terminated(n),
       UNCHANGED busVars
    PROVE  DriverInv'
<1>1. TypeOK'
  <2>1. target' \in [Nexus -> Targets]
    BY DEF DriverInv, TypeOK, Terminated
  <2>2. stage' \in [Nexus -> Stages]
    BY StageUpdate DEF DriverInv, TypeOK, Terminated, Return, Stages, Replies, Final
  <2> QED
    BY <2>1, <2>2
       DEF DriverInv, TypeOK, Terminated, ClearFlags, busVars
<1>2. LockInv'
  BY NexusAssumption DEF DriverInv, TypeOK, LockInv, Attached, Terminated, ClearFlags,
       Return, busVars, Directions, Terminations
<1>3. WorkingInv'
  BY NexusAssumption DEF DriverInv, TypeOK, WorkingInv, LockInv, MovingInv, Moving,
                         TurningInv, Turning, Attached, Unlocked, Terminated, ClearFlags,
                         Return, busVars, Directions, Terminations
<1>4. MovingInv'
  BY NexusAssumption, ChunkBounds DEF DriverInv, TypeOK, MovingInv, LockInv, Attached,
     WorkingInv, Moving, TurningInv, Turning, Targets, Terminated, ClearFlags, Return,
     busVars, Directions, Terminations
<1>5. TurningInv'
  BY NexusAssumption DEF DriverInv, TypeOK, MovingInv, LockInv, Attached, WorkingInv,
     Moving, TurningInv, Turning, Targets, Terminated, ClearFlags, Return, busVars,
     Directions, Terminations
<1>6. NoBusyLeak'
  BY NexusAssumption DEF DriverInv, TypeOK, NoBusyLeak, InCommand, LockInv, Attached,
     WorkingInv, Unlocked, Targets, Terminated, ClearFlags, Return, busVars, Directions,
     Terminations
<1> QED
  BY <1>1, <1>2, <1>3, <1>4, <1>5, <1>6 DEF DriverInv

LEMMA SelectInv ==
    ASSUME DriverInv, NEW n \in Nexus, Select(n)
    PROVE  DriverInv'
<1>0. PICK cdb \in Cdbs, no_disconnects \in BOOLEAN :
          target' = [target EXCEPT ![n].reason = "STARG_COMMAND",
                                   ![n].cdb = cdb,
                                   ![n].no_disconnects = no_disconnects]
  BY DEF Select
<1>1. TypeOK'
  <2>1. target' \in [Nexus -> Targets]
    BY <1>0 DEF DriverInv, TypeOK, Targets, Reasons
  <2>2. stage' \in [Nexus -> Stages]
    BY StageUpdate DEF DriverInv, TypeOK, Select, Stages
  <2> QED
    BY <2>1, <2>2 DEF DriverInv, TypeOK, Select, driverVars, busVars
<1>2. LockInv'
  BY <1>0, NexusAssumption DEF DriverInv, TypeOK, LockInv, Attached, Select, driverVars,
       busVars, Directions, Terminations
<1>3. WorkingInv'
  BY <1>0, NexusAssumption DEF DriverInv, TypeOK, WorkingInv, LockInv, MovingInv, Moving,
                         TurningInv, Turning, Attached, Unlocked, Select, driverVars,
                         busVars, Directions, Terminations
<1>4. MovingInv'
  BY <1>0, NexusAssumption, ChunkBounds DEF DriverInv, TypeOK, MovingInv, LockInv,
       Attached,
     WorkingInv, Moving, TurningInv, Turning, Targets, Select, driverVars, busVars,
     Directions, Terminations
<1>5. TurningInv'
  BY <1>0, NexusAssumption DEF DriverInv, TypeOK, MovingInv, LockInv, Attached,
       WorkingInv,
     Moving, TurningInv, Turning, Targets, Select, driverVars, busVars, Directions,
     Terminations
<1>6. NoBusyLeak'
  BY <1>0, NexusAssumption DEF DriverInv, TypeOK, NoBusyLeak, InCommand, LockInv,
       Attached,
     WorkingInv, Unlocked, Targets, Select, driverVars, busVars, Directions, Terminations
<1> QED
  BY <1>1, <1>2, <1>3, <1>4, <1>5, <1>6 DEF DriverInv

LEMMA TransferInv ==
    ASSUME DriverInv, NEW n \in Nexus, Transfer(n)
    PROVE  DriverInv'
<1>1. TypeOK'
  <2>1. target' \in [Nexus -> Targets]
    BY ReasonUpdate DEF DriverInv, TypeOK, Transfer, Call, Reasons
  <2>2. stage' \in [Nexus -> Stages]
    BY StageUpdate DEF DriverInv, TypeOK, Transfer, Call, Stages
  <2>3. moved' \in [Nexus -> Nat]
    <3>1. target[n].data_len \in Nat
      BY DEF DriverInv, TypeOK, Targets
    <3> QED
      BY <3>1 DEF DriverInv, TypeOK, Transfer
  <2> QED
    BY <2>1, <2>2, <2>3 DEF DriverInv, TypeOK, Transfer, driverVars
<1>2. LockInv'
  BY NexusAssumption DEF DriverInv, TypeOK, LockInv, Attached, Transfer, Call, driverVars,
       Directions, Terminations
<1>3. WorkingInv'
  BY NexusAssumption DEF DriverInv, TypeOK, WorkingInv, LockInv, MovingInv, Moving,
                         TurningInv, Turning, Attached, Unlocked, Transfer, Call,
                         driverVars, Directions, Terminations
<1>4. MovingInv'
  BY NexusAssumption, ChunkBounds DEF DriverInv, TypeOK, MovingInv, LockInv, Attached,
     WorkingInv, Moving, TurningInv, Turning, Targets, Transfer, Call, driverVars,
     Directions, Terminations
<1>5. TurningInv'
  BY NexusAssumption DEF DriverInv, TypeOK, MovingInv, LockInv, Attached, WorkingInv,
     Moving, TurningInv, Turning, Targets, Transfer, Call, driverVars, Directions,
     Terminations
<1>6. NoBusyLeak'
  BY NexusAssumption DEF DriverInv, TypeOK, NoBusyLeak, InCommand, LockInv, Attached,
     WorkingInv, Unlocked, Targets, Transfer, Call, driverVars, Directions, Terminations
<1> QED
  BY <1>1, <1>2, <1>3, <1>4, <1>5, <1>6 DEF DriverInv

LEMMA DisconnectInv ==
    ASSUME DriverInv, NEW n \in Nexus, Disconnect(n)
    PROVE  DriverInv'
<1>1. TypeOK'
  <2>1. target' \in [Nexus -> Targets]
    BY ReasonUpdate DEF DriverInv, TypeOK, Disconnect, Call, Reasons
  <2>2. stage' \in [Nexus -> Stages]
    BY StageUpdate DEF DriverInv, TypeOK, Disconnect, Call, Stages
  <2> QED
    BY <2>1, <2>2
      DEF DriverInv, TypeOK, Disconnect, driverVars, busVars
<1>2. LockInv'
  BY NexusAssumption DEF DriverInv, TypeOK, LockInv, Attached, Disconnect, Call,
       driverVars, busVars, Directions, Terminations
<1>3. WorkingInv'
  BY NexusAssumption DEF DriverInv, TypeOK, WorkingInv, LockInv, MovingInv, Moving,
                         TurningInv, Turning, Attached, Unlocked, Disconnect, Call,
                         driverVars, busVars, Directions, Terminations
<1>4. MovingInv'
  BY NexusAssumption, ChunkBounds DEF DriverInv, TypeOK, MovingInv, LockInv, Attached,
     WorkingInv, Moving, TurningInv, Turning, Targets, Disconnect, Call, driverVars,
     busVars, Directions, Terminations
<1>5. TurningInv'
  BY NexusAssumption DEF DriverInv, TypeOK, MovingInv, LockInv, Attached, WorkingInv,
     Moving, TurningInv, Turning, Targets, Disconnect, Call, driverVars, busVars,
     Directions, Terminations
<1>6. NoBusyLeak'
  BY NexusAssumption DEF DriverInv, TypeOK, NoBusyLeak, InCommand, LockInv, Attached,
     WorkingInv, Unlocked, Targets, Disconnect, Call, driverVars, busVars, Directions,
     Terminations
<1> QED
  BY <1>1, <1>2, <1>3, <1>4, <1>5, <1>6 DEF DriverInv

LEMMA ReselectInv ==
    ASSUME DriverInv, NEW n \in Nexus, Reselect(n)
    PROVE  DriverInv'
<1>1. TypeOK'
  <2>1. target' \in [Nexus -> Targets]
    BY ReasonUpdate DEF DriverInv, TypeOK, Reselect, Call, Reasons
  <2>2. stage' \in [Nexus -> Stages]
    BY StageUpdate DEF DriverInv, TypeOK, Reselect, Call, Stages
  <2> QED
    BY <2>1, <2>2
      DEF DriverInv, TypeOK, Reselect, driverVars, busVars
<1>2. LockInv'
  BY NexusAssumption DEF DriverInv, TypeOK, LockInv, Attached, Reselect, Call, driverVars,
       busVars, Directions, Terminations
<1>3. WorkingInv'
  BY NexusAssumption DEF DriverInv, TypeOK, WorkingInv, LockInv, MovingInv, Moving,
                         TurningInv, Turning, Attached, Unlocked, Reselect, Call,
                         driverVars, busVars, Directions, Terminations
<1>4. MovingInv'
  BY NexusAssumption, ChunkBounds DEF DriverInv, TypeOK, MovingInv, LockInv, Attached,
     WorkingInv, Moving, TurningInv, Turning, Targets, Reselect, Call, driverVars,
     busVars, Directions, Terminations
<1>5. TurningInv'
  BY NexusAssumption DEF DriverInv, TypeOK, MovingInv, LockInv, Attached, WorkingInv,
     Moving, TurningInv, Turning, Targets, Reselect, Call, driverVars, busVars,
     Directions, Terminations
<1>6. NoBusyLeak'
  BY NexusAssumption DEF DriverInv, TypeOK, NoBusyLeak, InCommand, LockInv, Attached,
     WorkingInv, Unlocked, Targets, Reselect, Call, driverVars, busVars, Directions,
     Terminations
<1> QED
  BY <1>1, <1>2, <1>3, <1>4, <1>5, <1>6 DEF DriverInv

LEMMA FinishInv ==
    ASSUME DriverInv, NEW n \in Nexus, Finish(n)
    PROVE  DriverInv'
<1>1. TypeOK'
  <2>1. target' \in [Nexus -> Targets]
    BY DEF DriverInv, TypeOK, Finish, ClearTarget, Targets, Reasons, Statuses, NoCdb
  <2>2. stage' \in [Nexus -> Stages]
    BY StageUpdate DEF DriverInv, TypeOK, Finish, Stages
  <2> QED
    BY <2>1, <2>2
      DEF DriverInv, TypeOK, Finish, driverVars
<1>2. LockInv'
  BY NexusAssumption DEF DriverInv, TypeOK, LockInv, Attached, Finish, Final, driverVars,
       Directions, Terminations
<1>3. WorkingInv'
  BY NexusAssumption DEF DriverInv, TypeOK, WorkingInv, LockInv, MovingInv, Moving,
                         TurningInv, Turning, Attached, Unlocked, Finish, Final,
                         driverVars, Directions, Terminations
<1>4. MovingInv'
  BY NexusAssumption, ChunkBounds DEF DriverInv, TypeOK, MovingInv, LockInv, Attached,
     WorkingInv, Moving, TurningInv, Turning, Targets, Finish, Final, driverVars,
     Directions, Terminations
<1>5. TurningInv'
  BY NexusAssumption DEF DriverInv, TypeOK, MovingInv, LockInv, Attached, WorkingInv,
     Moving, TurningInv, Turning, Targets, Finish, Final, driverVars, Directions,
     Terminations
<1>6. NoBusyLeak'
  BY NexusAssumption DEF DriverInv, TypeOK, NoBusyLeak, InCommand, LockInv, Attached,
     WorkingInv, Unlocked, Targets, Finish, Final, driverVars, Directions, Terminations
<1> QED
  BY <1>1, <1>2, <1>3, <1>4, <1>5, <1>6 DEF DriverInv

LEMMA InterruptInv ==
    ASSUME DriverInv, NEW n \in Nexus, Interrupt(n)
    PROVE  DriverInv'
<1>0. PICK reason \in Reported : Report(n, reason) /\ Call(n, reason)
  BY DEF Interrupt
<1>a. reason \in Terminations
  BY ReportedAssumption
<1>1. TypeOK'
  <2>1. target' \in [Nexus -> Targets]
    BY <1>0, <1>a, ReasonUpdate DEF DriverInv, TypeOK, Call, Reasons
  <2>2. stage' \in [Nexus -> Stages]
    BY <1>0, StageUpdate DEF DriverInv, TypeOK, Call, Stages
  <2> QED
    BY <2>1, <2>2, <1>0
      DEF DriverInv, TypeOK, Interrupt, Report, Condemn, Unlocked, driverVars
<1>2. LockInv'
  BY <1>0, <1>a, NexusAssumption DEF DriverInv, TypeOK, LockInv, Attached, Interrupt,
       Call, driverVars, Directions, Terminations
<1>3. WorkingInv'
  BY <1>0, <1>a, NexusAssumption DEF DriverInv, TypeOK, WorkingInv, LockInv, MovingInv,
       Moving,
                         TurningInv, Turning, Attached, Unlocked, Interrupt, Call,
                         driverVars, Directions, Terminations
<1>4. MovingInv'
  BY <1>0, <1>a, NexusAssumption, ChunkBounds DEF DriverInv, TypeOK, MovingInv, LockInv,
       Attached,
     WorkingInv, Moving, TurningInv, Turning, Targets, Interrupt, Call, driverVars,
     Directions, Terminations
<1>5. TurningInv'
  BY <1>0, <1>a, NexusAssumption DEF DriverInv, TypeOK, MovingInv, LockInv, Attached,
       WorkingInv,
     Moving, TurningInv, Turning, Targets, Interrupt, Call, driverVars, Directions,
     Terminations
<1>6. NoBusyLeak'
  BY <1>0, <1>a, NexusAssumption DEF DriverInv, TypeOK, NoBusyLeak, InCommand, LockInv,
       Attached,
     WorkingInv, Unlocked, Targets, Interrupt, Call, driverVars, Directions, Terminations
<1> QED
  BY <1>1, <1>2, <1>3, <1>4, <1>5, <1>6 DEF DriverInv

LEMMA SignalInv ==
    ASSUME DriverInv, NEW n \in Nexus, Signal(n)
    PROVE  DriverInv'
<1>0. PICK reason \in Reported \ {"INVALID"} :
          /\ Report(n, reason)
          /\ target' = [target EXCEPT ![n].reason = reason]
  BY DEF Signal
<1>a. reason \in Terminations
  BY ReportedAssumption
<1>1. TypeOK'
  <2>1. target' \in [Nexus -> Targets]
    BY <1>0, <1>a, ReasonUpdate DEF DriverInv, TypeOK, Reasons
  <2>2. stage' \in [Nexus -> Stages]
    BY DEF DriverInv, TypeOK, Signal
  <2>3. busy' \in BOOLEAN /\ working' \in BOOLEAN
    BY DEF DriverInv, TypeOK, Signal, ClearFlags
  <2>4. /\ condemned' \subseteq Nexus
        /\ signalled' \in BOOLEAN /\ upset' \in BOOLEAN /\ crossed' \in BOOLEAN
    BY <1>0 DEF DriverInv, TypeOK, Report, Condemn, Unlocked
  <2> QED
    BY <2>1, <2>2, <2>3, <2>4 DEF DriverInv, TypeOK, Signal, ClearFlags
<1>2. LockInv'
  BY <1>0, <1>a, NexusAssumption DEF DriverInv, TypeOK, LockInv, Attached, Signal,
       ClearFlags, Directions, Terminations
<1>3. WorkingInv'
  BY <1>0, <1>a, NexusAssumption DEF DriverInv, TypeOK, WorkingInv, LockInv, MovingInv,
       Moving,
                         TurningInv, Turning, Attached, Unlocked, Signal, ClearFlags,
                         Directions, Terminations
<1>4. MovingInv'
  BY <1>0, <1>a, NexusAssumption, ChunkBounds DEF DriverInv, TypeOK, MovingInv, LockInv,
       Attached,
     WorkingInv, Moving, TurningInv, Turning, Targets, Signal, ClearFlags, Directions,
     Terminations
<1>5. TurningInv'
  BY <1>0, <1>a, NexusAssumption DEF DriverInv, TypeOK, MovingInv, LockInv, Attached,
       WorkingInv,
     Moving, TurningInv, Turning, Targets, Signal, ClearFlags, Directions, Terminations
<1>6. NoBusyLeak'
  BY <1>0, <1>a, NexusAssumption DEF DriverInv, TypeOK, NoBusyLeak, InCommand, LockInv,
       Attached,
     WorkingInv, Unlocked, Targets, Signal, ClearFlags, Directions, Terminations
<1> QED
  BY <1>1, <1>2, <1>3, <1>4, <1>5, <1>6 DEF DriverInv

LEMMA ResumeInv ==
    ASSUME DriverInv, NEW n \in Nexus, Resume(n)
    PROVE  DriverInv'
<1>1. TypeOK'
  <2>1. target' \in [Nexus -> Targets]
    BY DEF DriverInv, TypeOK, Resume, Relock, Restart
  <2>2. stage' \in [Nexus -> Stages]
    BY StageUpdate DEF DriverInv, TypeOK, Resume, Relock, Restart, Return, Stages,
       Replies, Final
  <2>3. busy' \in BOOLEAN /\ working' \in BOOLEAN
    BY DEF DriverInv, TypeOK, Resume, Relock, Restart
  <2> QED
    BY <2>1, <2>2, <2>3 DEF DriverInv, TypeOK, Resume, Relock, Restart
<1>2. LockInv'
  BY NexusAssumption DEF DriverInv, TypeOK, LockInv, Attached, Resume, Relock, Restart,
       Return,
       Directions, Terminations
<1>3. WorkingInv'
  BY NexusAssumption DEF DriverInv, TypeOK, WorkingInv, LockInv, MovingInv, Moving,
                         TurningInv, Turning, Attached, Unlocked, Resume, Relock, Restart,
                         Return,
                         Directions, Terminations
<1>4. MovingInv'
  BY NexusAssumption, ChunkBounds DEF DriverInv, TypeOK, MovingInv, LockInv, Attached,
     WorkingInv, Moving, TurningInv, Turning, Targets, Resume, Relock, Restart, Return,
     Directions,
     Terminations
<1>5. TurningInv'
  BY NexusAssumption DEF DriverInv, TypeOK, MovingInv, LockInv, Attached, WorkingInv,
     Moving, TurningInv, Turning, Targets, Resume, Relock, Restart, Return, Directions,
     Terminations
<1>6. NoBusyLeak'
  BY NexusAssumption DEF DriverInv, TypeOK, NoBusyLeak, InCommand, LockInv, Attached,
     WorkingInv, Unlocked, Targets, Resume, Relock, Restart, Return, Directions,
     Terminations
<1> QED
  BY <1>1, <1>2, <1>3, <1>4, <1>5, <1>6 DEF DriverInv

LEMMA DataTransferredInv ==
    ASSUME DriverInv, NEW n \in Nexus, stage[n] = "callback", DataTransferred(n),
       UNCHANGED busVars
    PROVE  DriverInv'
<1> DEFINE left == residue - target[n].data_len
<1>0. left \in Int /\ 0 <= left /\ busy /\ ~working /\ target[n].reason \in Directions
  BY DEF DriverInv, TypeOK, Targets, MovingInv, Moving, DataTransferred
<1>a. \/ left = 0 /\ Complete(n, "GOOD") /\ UNCHANGED direction
      \/ /\ left > 0
         /\ target' = [target EXCEPT ![n].data_len = ChunkLength(left)]
         /\ Return(n, target[n].reason)
         /\ UNCHANGED direction
      \/ /\ left > 0
         /\ direction' = target[n].reason
         /\ Return(n, "STARG_SAVE_AND_DISCONNECT")
         /\ UNCHANGED target
  <2>1. CASE left = 0
    <3>1. Complete(n, "GOOD") /\ UNCHANGED direction
      BY <2>1 DEF DataTransferred, NothingLeft
    <3> QED
      BY <2>1, <3>1
  <2>2. CASE left > 0
    <3>0. ~(left < 0) /\ left # 0
      BY <2>2, <1>0
    <3>1. Continue(n, left) \/ SaveAndDisconnect(n)
      BY <3>0 DEF DataTransferred, NothingLeft
    <3> QED
      BY <2>2, <3>1 DEF Continue, SaveAndDisconnect
  <2> QED
    BY <2>1, <2>2, <1>0
<1>b. /\ residue' = left
      /\ left = 0 => ~busy'
      /\ left > 0 => busy'
      /\ UNCHANGED <<working, lock>>
  <2>1. CASE left = 0
    BY <2>1 DEF DataTransferred, NothingLeft
  <2>2. CASE left > 0
    <3>1. ~(left < 0) /\ left # 0
      BY <2>2, <1>0
    <3> QED
      BY <3>1, <2>2, <1>0 DEF DataTransferred, NothingLeft
  <2> QED
    BY <2>1, <2>2, <1>0
<1>c. busy' \in BOOLEAN
  BY <1>0 DEF DataTransferred
<1> HIDE DEF left
<1>1. TypeOK'
  <2>1. target' \in [Nexus -> Targets]
    <3>1. CASE left = 0
      <4>1. Complete(n, "GOOD")
        BY <3>1, <1>a
      <4> QED
        BY <4>1, StatusUpdate DEF DriverInv, TypeOK, Complete, Statuses
    <3>2. CASE left > 0
      <4>1. ChunkLength(left) \in Nat
        BY <3>2, <1>0, ChunkBounds
      <4> QED
        BY <4>1, <3>2, <1>a, LengthUpdate DEF DriverInv, TypeOK
    <3> QED
      BY <3>1, <3>2, <1>0
  <2>2. stage' \in [Nexus -> Stages]
    BY <1>0, <1>a, StageUpdate DEF DriverInv, TypeOK, Complete, Return, Stages, Replies,
       Final
  <2> QED
    BY <2>1, <2>2, <1>0, <1>a, <1>b, <1>c DEF DriverInv, TypeOK, busVars
<1>2. LockInv'
  BY <1>0, <1>a, <1>b, NexusAssumption DEF DriverInv, TypeOK, LockInv, Attached, Complete,
       Return, Directions, Terminations
<1>3. WorkingInv'
  BY <1>0, <1>a, <1>b, NexusAssumption DEF DriverInv, TypeOK, WorkingInv, LockInv,
       MovingInv, Moving,
                         TurningInv, Turning, Attached, Unlocked, Complete, Return,
                         Directions, Terminations
<1>4. MovingInv'
  <2> SUFFICES ASSUME NEW m \in Nexus, Moving(m)'
               PROVE  /\ busy' /\ ~working'
                      /\ target'[m].data_len > 0
                      /\ target'[m].data_len <= residue'
                      /\ target'[m].data_len <= DATA_SIZE
    BY DEF MovingInv
  <2>1. m = n
    BY <1>a, NexusAssumption DEF DriverInv, TypeOK, LockInv, Attached, Moving, Complete,
       Return, Directions
  <2>2. left > 0 /\ target' = [target EXCEPT ![n].data_len = ChunkLength(left)]
    BY <2>1, <1>a DEF DriverInv, TypeOK, Moving, Complete, Return, Directions
  <2>3. target'[n].data_len = ChunkLength(left)
    BY <2>2 DEF DriverInv, TypeOK, Targets
  <2> QED
    BY <2>1, <2>2, <2>3, <1>0, <1>b, ChunkBounds
<1>5. TurningInv'
  BY <1>0, <1>a, <1>b, NexusAssumption DEF DriverInv, TypeOK, MovingInv, LockInv,
       Attached, WorkingInv,
     Moving, TurningInv, Turning, Targets, Complete, Return, Directions, Terminations
<1>6. NoBusyLeak'
  BY <1>0, <1>a, <1>b, NexusAssumption DEF DriverInv, TypeOK, NoBusyLeak, InCommand,
       LockInv, Attached,
     WorkingInv, Unlocked, Targets, Complete, Return, Directions, Terminations
<1> QED
  BY <1>1, <1>2, <1>3, <1>4, <1>5, <1>6 DEF DriverInv

LEMMA TargetCommandInv ==
    ASSUME DriverInv, NEW n \in Nexus, stage[n] = "callback", TargetCommand(n),
           UNCHANGED busVars
    PROVE  DriverInv'
<1> DEFINE len == target[n].cdb.len
<1>1. len \in Nat
  BY CdbsAssumption DEF DriverInv, TypeOK, Targets, NoCdb
<1>2. CASE RejectBusy(n)
  BY <1>2, ImmediateInv DEF TargetCommand, RejectBusy, driverVars, Statuses
<1>3. CASE ~busy /\ TestUnitReady(n)
  BY <1>3, ImmediateInv DEF TargetCommand, TestUnitReady, driverVars, Statuses
<1>4. CASE ~busy /\ Unrecognised(n)
  BY <1>4, ImmediateInv DEF TargetCommand, Unrecognised, driverVars, Statuses
<1>5. CASE ~busy /\ Inquiry(n)
  <2>1. Begin(n, InquiryLength(len), InquiryLength(len), "STARG_DATA_IN")
    BY <1>5 DEF Inquiry
  <2> QED
    BY <2>1, <1>1, <1>5, InquiryBounds, BeginInv DEF TargetCommand, Directions, busVars
<1>6. CASE ~busy /\ Send(n)
  <2>1. Begin(n, len, ChunkLength(len), "STARG_DATA_OUT")
    BY <1>6 DEF Send
  <2>2. ChunkLength(len) \in Nat
    BY <1>1, SizeAssumption DEF ChunkLength
  <2> QED
    BY <2>1, <2>2, <1>1, <1>6, ChunkBounds, BeginInv DEF TargetCommand, Directions,
       busVars
<1>7. CASE ~busy /\ Receive(n)
  <2>1. Begin(n, len, ChunkLength(len), "STARG_DATA_IN")
    BY <1>7 DEF Receive
  <2>2. ChunkLength(len) \in Nat
    BY <1>1, SizeAssumption DEF ChunkLength
  <2> QED
    BY <2>1, <2>2, <1>1, <1>7, ChunkBounds, BeginInv DEF TargetCommand, Directions,
       busVars
<1> QED
  BY <1>2, <1>3, <1>4, <1>5, <1>6, <1>7 DEF TargetCommand

LEMMA DriverInvStep == DriverInv /\ [Next]_vars => DriverInv'
<1> SUFFICES ASSUME DriverInv, [Next]_vars PROVE DriverInv'
  OBVIOUS
<1>1. CASE UNCHANGED vars
  BY <1>1 DEF vars, DriverInv, TypeOK, LockInv, WorkingInv, MovingInv, TurningInv,
              NoBusyLeak, Attached, Unlocked, Moving, Turning, InCommand
<1>2. ASSUME NEW n \in Nexus, Callback(n) PROVE DriverInv'
  <2> USE <1>2 DEF Callback
  <2>1. CASE TargetCommand(n)
    BY <2>1, TargetCommandInv DEF TargetCallback, TargetCommand, busVars
  <2>2. CASE DataTransferred(n)
    BY <2>2, DataTransferredInv DEF TargetCallback, DataTransferred, Directions, busVars
  <2>3. CASE Disconnected(n)
    BY <2>3, DisconnectedInv DEF TargetCallback, Disconnected
  <2>4. CASE Reselected(n)
    BY <2>4, ReselectedInv DEF TargetCallback, Reselected, busVars
  <2>5. CASE Terminated(n)
    BY <2>5, TerminatedInv DEF TargetCallback, Terminated, busVars
  <2> QED
    BY <2>1, <2>2, <2>3, <2>4, <2>5 DEF TargetCallback
<1> QED
  BY <1>1, <1>2, SelectInv, InterruptInv, SignalInv, ResumeInv, TransferInv,
     DisconnectInv, ReselectInv, FinishInv DEF Next, Progress

\* The inductive invariant of every environment, whatever the library reports.
THEOREM DriverInvariant == Spec => []DriverInv
  BY DriverInvInit, DriverInvStep, PTL DEF Spec

\* Every variable of the driver and of the library keeps to its range: in
\* particular the direction a reselected command returns is a data direction.
THEOREM TypeCorrect == Spec => []TypeOK
<1>1. DriverInv => TypeOK
  BY DEF DriverInv
<1> QED
  BY <1>1, DriverInvariant, PTL

\* Every transfer the driver asks for moves at least a byte and fits its buffer,
\* for any buffer size and after any number of resets and aborts.
THEOREM TransfersFit == Spec => []ChunkFits
<1>1. DriverInv => ChunkFits
  BY DEF DriverInv, MovingInv, Moving, ChunkFits
<1> QED
  BY <1>1, DriverInvariant, PTL

\* The busy flag never outlives the commands: the driver cannot lock itself up
\* and answer BUSY for ever, not even when one command is reset repeatedly.
THEOREM BusyReleased == Spec => []NoBusyLeak
<1>1. DriverInv => NoBusyLeak
  BY DEF DriverInv
<1> QED
  BY <1>1, DriverInvariant, PTL
=============================================================================
