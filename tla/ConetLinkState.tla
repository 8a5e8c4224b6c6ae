--------------------------- MODULE ConetLinkState ---------------------------
(***************************************************************************)
(* Source/_IOC_ConetEvent.c: the sub-state that getLinkState shows of a    *)
(* link between a service and a client.  IOC_Command.c and IOC_Data.c      *)
(* keep flags in the link object; getLinkState turns them into a sub-state *)
(* by priority.  For a receiver that was used for sending it also changes  *)
(* them on the way, which nothing here reads.                              *)
(***************************************************************************)
EXTENDS Naturals

DatFlags == [IsSending : BOOLEAN, IsReceiving : BOOLEAN,
             CurrentSubState : {"Default", "DatSenderReady", "DatSenderBusySendDat"},
             Operated : BOOLEAN]          \* LastOperationTime > 0
CmdFlags == [IsExecuting : BOOLEAN, IsWaiting : BOOLEAN, IsProcessing : BOOLEAN]
DatQuiet == [IsSending |-> FALSE, IsReceiving |-> FALSE, CurrentSubState |-> "Default", Operated |-> FALSE]
CmdQuiet == [IsExecuting |-> FALSE, IsWaiting |-> FALSE, IsProcessing |-> FALSE]

-----------------------------------------------------------------------------
(* A receiver that nobody sent on. *)
NormalReceiver(usage, dat) ==
    "DatReceiver" \in usage /\ ~dat.IsSending /\ dat.CurrentSubState = "Default" /\ dat.Operated

(* A receiver that was used for sending: what it shows depends on how long ago that was *)
(* and on how many of its busy states were shown before, on any link.                   *)
RoleReversed(usage, dat) == "DatReceiver" \in usage /\ (dat.CurrentSubState # "Default" \/ dat.IsSending)

SimulatesBusy(dat, recent) == recent /\ dat.CurrentSubState = "DatSenderReady" /\ ~dat.IsSending
RoleReversedShows(dat, recent, shown) ==
    IF SimulatesBusy(dat, recent) THEN "DatSenderBusySendDat"
    ELSE IF recent /\ dat.IsSending /\ shown = 0 THEN "DatReceiverReady"
    ELSE "DatSenderReady"

(* What an operation in progress shows, data before commands. *)
BusySubState(usage, dat, cmd) ==
    IF dat.IsSending THEN "DatSenderBusySendDat"
    ELSE IF dat.IsReceiving THEN "DatReceiverBusyCbRecvDat"
    ELSE IF "CmdInitiator" \in usage /\ cmd.IsExecuting THEN "CmdInitiatorBusyExecCmd"
    ELSE IF "CmdExecutor" \in usage /\ cmd.IsWaiting THEN "CmdExecutorBusyWaitCmd"
    ELSE IF "CmdExecutor" \in usage /\ cmd.IsProcessing THEN "CmdExecutorBusyExecCmd"
    ELSE "none"

(* What the usage shows when nothing is in progress. *)
ReadySubState(usage, dat) ==
    IF "CmdInitiator" \in usage THEN "CmdInitiatorReady"
    ELSE IF "CmdExecutor" \in usage THEN "CmdExecutorReady"
    ELSE IF "DatReceiver" \in usage THEN "DatReceiverReady"
    ELSE IF dat.CurrentSubState # "Default" THEN dat.CurrentSubState
    ELSE IF "DatSender" \in usage THEN "DatSenderReady"
    ELSE "Default"

(* _IOC_getLinkState_inConetMode; recent: the last operation was at most a second ago. *)
LinkSubState(usage, dat, cmd, recent, shown) ==
    IF NormalReceiver(usage, dat) THEN "DatReceiverReady"
    ELSE IF RoleReversed(usage, dat) THEN RoleReversedShows(dat, recent, shown)
    ELSE IF BusySubState(usage, dat, cmd) # "none" THEN BusySubState(usage, dat, cmd)
    ELSE ReadySubState(usage, dat)
=============================================================================
