---------------------------- MODULE TargetDriver ----------------------------
(***************************************************************************)
(* The example SCSI target driver, TTM50/EXAMPLES/TARGET.C: a callback the *)
(* SCSI library runs for one nexus (initiator, target, lun) at a time, over *)
(* a driver state that all nexuses share.  The callback answers each call  *)
(* with the next thing it wants from the library.                          *)
(*                                                                         *)
(* A callback runs under the library's lock, so it is one atomic action,   *)
(* except on a disconnect, where the driver itself gives the lock up and   *)
(* takes it back: the two halves are Disconnected and Relock.              *)
(***************************************************************************)
EXTENDS Integers

CONSTANTS
    Nexus,          \* the possible initiator/target/lun triples
    NoNexus,        \* the owner of the lock when nobody holds it
    Cdbs,           \* the commands initiators send
    DATA_SIZE,      \* size of the data buffer, in bytes
    INQUIRY_SIZE,   \* SCSI_STD_INQUIRY_SIZE
    Garbage         \* what an uninitialised int may hold

Opcodes == {"TEST_UNIT_READY", "INQUIRY", "SEND", "RECEIVE", "UNRECOGNISED"}
Directions == {"STARG_DATA_IN", "STARG_DATA_OUT"}

ASSUME NexusAssumption == NoNexus \notin Nexus
ASSUME CdbsAssumption == Cdbs \subseteq [op : Opcodes, len : Nat]
ASSUME SizeAssumption ==
    /\ DATA_SIZE \in Nat
    /\ INQUIRY_SIZE \in Nat
    /\ 0 < INQUIRY_SIZE
    /\ INQUIRY_SIZE <= DATA_SIZE
ASSUME GarbageAssumption == Garbage \subseteq Int

VARIABLES
    residue,    \* state->residue: bytes left to transfer
    direction,  \* state->direction: saved over a disconnect
    busy,       \* state->busy
    working,    \* state->working: a command is disconnected and not terminated
    target,     \* struct scsi_target of each nexus
    stage,      \* what the process of each nexus is at: see Stages
    lock        \* owner of the SCSI system (scsi_lock)

driverVars == <<residue, direction, busy, working>>
targetVars == <<target, stage, lock>>

Terminations == {"SCSI_RESET", "STARG_ABORT", "INVALID"}
Reasons == {"STARG_COMPLETE", "STARG_COMMAND", "STARG_DISCONNECT",
            "STARG_RESELECT"} \cup Directions \cup Terminations
Final == {"STARG_COMPLETE", "STARG_RESTART", "SCSI_RESET", "STARG_ABORT",
          "SCSI_NOT_OK"}
Replies == {"STARG_SAVE_AND_DISCONNECT", "STARG_RESELECT"}
               \cup Directions \cup Final

\* "callback": the callback has been called for target[n].reason; a reply: it
\* returned that and the library has to act on it; "unlocked": it is inside
\* the callback, between scsi_unlock and scsi_lock.
Stages == {"idle", "callback", "unlocked"} \cup Replies
Statuses == {"GOOD", "BUSY", "CHECK_CONDITION"}
NoCdb == [op |-> "TEST_UNIT_READY", len |-> 0]   \* all bytes zero
Targets == [reason : Reasons, cdb : Cdbs \cup {NoCdb}, data_len : Nat,
            status : Statuses, no_disconnects : BOOLEAN]

\* scsi_initialise and main: the flags are cleared, the other fields of the
\* allocated state are not, and the library's target structures are zeroed.
DriverInit ==
    /\ residue \in Garbage
    /\ direction = "garbage"
    /\ busy = FALSE
    /\ working = FALSE

-----------------------------------------------------------------------------
Return(n, reply) == stage' = [stage EXCEPT ![n] = reply]

Complete(n, status) ==
    /\ target' = [target EXCEPT ![n].status = status]
    /\ Return(n, "STARG_COMPLETE")

\* Mutant: the residue is not cut to the buffer size.
ChunkLengthUncut(left) == left

\* The next transfer never exceeds the data buffer.
ChunkLength(left) == IF left > DATA_SIZE THEN DATA_SIZE ELSE left

InquiryLength(len) == IF len > INQUIRY_SIZE THEN INQUIRY_SIZE ELSE len

\* The length the command asks for is stored even when it is nothing to move.
Begin(n, length, data_len, dir) ==
    /\ residue' = length
    /\ \/ /\ length = 0
          /\ Complete(n, "GOOD")
          /\ UNCHANGED busy
       \/ /\ length # 0
          /\ target' = [target EXCEPT ![n].data_len = data_len]
          /\ busy' = TRUE
          /\ Return(n, dir)

\* Mutant: the length is stored before the busy flag is looked at.
RejectBusyTooLate(n) ==
    /\ busy
    /\ residue' = target[n].cdb.len
    /\ Complete(n, "BUSY")
    /\ UNCHANGED busy

RejectBusy(n) ==
    /\ busy
    /\ Complete(n, "BUSY")
    /\ UNCHANGED <<residue, busy>>

TestUnitReady(n) ==
    /\ target[n].cdb.op = "TEST_UNIT_READY"
    /\ Complete(n, "GOOD")
    /\ UNCHANGED <<residue, busy>>

Inquiry(n) ==
    LET length == InquiryLength(target[n].cdb.len)
    IN  /\ target[n].cdb.op = "INQUIRY"
        /\ Begin(n, length, length, "STARG_DATA_IN")

Send(n) ==
    LET length == target[n].cdb.len
    IN  /\ target[n].cdb.op = "SEND"
        /\ Begin(n, length, ChunkLength(length), "STARG_DATA_OUT")

Receive(n) ==
    LET length == target[n].cdb.len
    IN  /\ target[n].cdb.op = "RECEIVE"
        /\ Begin(n, length, ChunkLength(length), "STARG_DATA_IN")

Unrecognised(n) ==
    /\ target[n].cdb.op = "UNRECOGNISED"
    /\ Complete(n, "CHECK_CONDITION")
    /\ UNCHANGED <<residue, busy>>

TargetCommand(n) ==
    /\ target[n].reason = "STARG_COMMAND"
    /\ \/ RejectBusy(n)
       \/ /\ ~busy
          /\ \/ TestUnitReady(n)
             \/ Inquiry(n)
             \/ Send(n)
             \/ Receive(n)
             \/ Unrecognised(n)
    /\ UNCHANGED <<direction, working, lock>>

\* Mutant: the last partial chunk is forgotten.
NothingLeftButAChunk(left) == left < DATA_SIZE
NothingLeft(left) == left = 0

\* Mutant: the direction is not saved.
SaveAndDisconnectUnsaved(n) ==
    /\ Return(n, "STARG_SAVE_AND_DISCONNECT")
    /\ UNCHANGED <<target, direction>>

SaveAndDisconnect(n) ==
    /\ direction' = target[n].reason
    /\ Return(n, "STARG_SAVE_AND_DISCONNECT")
    /\ UNCHANGED target

Continue(n, left) ==
    /\ target' = [target EXCEPT ![n].data_len = ChunkLength(left)]
    /\ Return(n, target[n].reason)
    /\ UNCHANGED direction

\* The library reports data_len bytes moved.  A residue below zero is the
\* driver's own sanity check.
DataTransferred(n) ==
    LET left == residue - target[n].data_len
    IN  /\ target[n].reason \in Directions
        /\ residue' = left
        /\ IF left < 0
           THEN Return(n, "SCSI_NOT_OK") /\ busy' = FALSE /\ UNCHANGED <<target, direction>>
           ELSE \/ /\ NothingLeft(left)
                   /\ Complete(n, "GOOD")
                   /\ busy' = FALSE
                   /\ UNCHANGED direction
                \/ /\ ~NothingLeft(left)
                   /\ \/ target[n].no_disconnects /\ Continue(n, left)
                      \/ ~target[n].no_disconnects /\ SaveAndDisconnect(n)
                   /\ UNCHANGED busy
        /\ UNCHANGED <<working, lock>>

\* Mutant: the working flag is not set.
DisconnectedUnmarked(n) ==
    /\ target[n].reason = "STARG_DISCONNECT"
    /\ lock' = NoNexus
    /\ Return(n, "unlocked")
    /\ UNCHANGED <<residue, direction, busy, working, target>>

Disconnected(n) ==
    /\ target[n].reason = "STARG_DISCONNECT"
    /\ working' = TRUE
    /\ lock' = NoNexus
    /\ Return(n, "unlocked")
    /\ UNCHANGED <<residue, direction, busy, target>>

\* Mutant: the busy flag is left set.
RestartStillBusy(n) ==
    /\ ~working
    /\ Return(n, "STARG_RESTART")
    /\ UNCHANGED <<busy, working>>

\* Mutant: a terminated command is resumed like any other.
RestartForgotten(n) ==
    /\ ~working
    /\ Return(n, "STARG_RESELECT")
    /\ UNCHANGED <<busy, working>>

Restart(n) ==
    /\ ~working
    /\ busy' = FALSE
    /\ Return(n, "STARG_RESTART")
    /\ UNCHANGED working

\* scsi_lock returns.  A cleared working flag says that the command was
\* terminated while the lock was given up.
Relock(n) ==
    /\ stage[n] = "unlocked"
    /\ lock = NoNexus
    /\ lock' = n
    /\ \/ Restart(n)
       \/ /\ working
          /\ working' = FALSE
          /\ Return(n, "STARG_RESELECT")
          /\ UNCHANGED busy
    /\ UNCHANGED <<residue, direction, target>>

\* Mutants: a resumed transfer always goes to the initiator; a reselected
\* command disconnects again instead of moving data.
ResumeInwards == "STARG_DATA_IN"
ResumeAway == "STARG_SAVE_AND_DISCONNECT"
ResumeWith == direction

Reselected(n) ==
    /\ target[n].reason = "STARG_RESELECT"
    /\ target' = [target EXCEPT ![n].data_len = ChunkLength(residue)]
    /\ Return(n, ResumeWith)
    /\ UNCHANGED <<residue, direction, busy, working, lock>>

\* Mutant: a termination frees the driver although a command is disconnected.
ClearFlagsAll ==
    /\ busy' = FALSE
    /\ working' = FALSE
    /\ UNCHANGED <<residue, direction>>

\* A disconnected command keeps the driver busy until it wakes up and finds
\* its working flag cleared.
ClearFlags ==
    /\ busy' = (busy /\ working)
    /\ working' = FALSE
    /\ UNCHANGED <<residue, direction>>

Terminated(n) ==
    /\ ClearFlags
    /\ \/ /\ target[n].reason = "SCSI_RESET"
          /\ Return(n, "SCSI_RESET")
       \/ /\ target[n].reason = "STARG_ABORT"
          /\ Return(n, "STARG_ABORT")
       \/ /\ target[n].reason = "INVALID"
          /\ Return(n, "SCSI_NOT_OK")
    /\ UNCHANGED <<target, lock>>

TargetCallback(n) ==
    /\ stage[n] = "callback"
    /\ \/ TargetCommand(n)
       \/ DataTransferred(n)
       \/ Disconnected(n)
       \/ Reselected(n)
       \/ Terminated(n)
=============================================================================
