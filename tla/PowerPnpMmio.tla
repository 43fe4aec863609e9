---------------------------- MODULE PowerPnpMmio ----------------------------
(***************************************************************************)
(* power_pnp_mmio_test_driver: a function driver that passes every PnP and *)
(* power IRP to the device below it and waits for the answer, so that its  *)
(* own state and the lower device's change in a chosen order; a client can *)
(* wait for an interrupt.                                                  *)
(*                                                                         *)
(* Actors: one thread per request in the dispatch routine, the manager     *)
(* thread that delivers PnP and power IRPs one at a time, the lower device *)
(* (which may answer at once or later), the ISR and the DPC.  The slot is  *)
(* accessed under PendingIrpLock, the flags with no lock.                  *)
(*                                                                         *)
(* Abstracted: InterruptCount, the registers other than STATUS and ACK and *)
(* what the clients write to them, buffer lengths, the symbolic link,      *)
(* SystemPowerState, DevicePowerState (set together with Powered) and      *)
(* PoStartNextPowerIrp, which the end of every power handler calls.        *)
(***************************************************************************)
EXTENDS Naturals

CONSTANTS
    Irps,       \* the IOCTL packets sent to the device
    NoIrp       \* a null PIRP

ASSUME NoIrpAssumption == NoIrp \notin Irps

VARIABLES
    dev,                        \* the device object: "none", "live" or "deleted"
    Removed, Started, Powered,  \* of the device extension
    held,                       \* which of Resources the driver holds
    PendingInterruptIrp,        \* ext->PendingInterruptIrp
    mpc, op,                    \* where the manager thread is, and in which of Operations
    lower,                      \* the power state of the lower device
    lowerBusy, lowerOk,         \* it still has the IRP; its last answer was a success
    event,                      \* the event on the stack of the forwarding routine
    pc, irp,                    \* where each request is; what became of its packet
    asserted,                   \* STATUS register: interrupt pending
    dpcQueued, dpcIrp,          \* the DPC is in the queue; the packet it took from the slot
    bugcheck                    \* unmapped registers or freed memory were accessed

flags == <<Removed, Started, Powered>>
hardware == <<dev, flags, held>>
manager == <<mpc, op>>
below == <<lower, lowerBusy, lowerOk, event>>
req == <<pc, irp>>
dpc == <<dpcQueued, dpcIrp>>
vars == <<hardware, PendingInterruptIrp, manager, below, req, asserted, dpc, bugcheck>>

Resources == {"mmio", "interrupt"}
Kinds == {"local", "register", "wait", "cancel"}
MaybeIrp == Irps \cup {NoIrp}

(* What a manager asks for.  A system power state is mapped to "d0" or to   *)
(* "d3", which also stands for D1 and D2; "query" is QUERY_POWER.           *)
Operations == {"start", "stop", "remove", "d0", "d3", "query"}

Init ==
    /\ dev = "none"
    /\ Removed = FALSE /\ Started = FALSE /\ Powered = FALSE
    /\ held = {}
    /\ PendingInterruptIrp = NoIrp
    /\ mpc = "absent" /\ op = "query"
    /\ lower = "D3"
    /\ lowerBusy = FALSE /\ lowerOk = FALSE /\ event = FALSE
    /\ pc = [i \in Irps |-> "idle"]
    /\ irp = [i \in Irps |-> "new"]
    /\ asserted = FALSE
    /\ dpcQueued = FALSE /\ dpcIrp = NoIrp
    /\ bugcheck = FALSE

Ready == ~Removed /\ Started /\ Powered

-----------------------------------------------------------------------------
(* Completion of a set of packets, and the pending slot. *)

Complete(packets) ==
    irp' = [i \in Irps |-> IF i \notin packets THEN irp[i]
                           ELSE IF irp[i] = "completed" THEN "completed_twice"
                           ELSE "completed"]

Goto(i, loc) == pc' = [pc EXCEPT ![i] = loc]
Answer(i) == Complete({i}) /\ Goto(i, "done")

(* Mutant: the slot is not emptied. *)
CancelPendingWaitKeeps ==
    Complete({PendingInterruptIrp} \cap Irps) /\ UNCHANGED PendingInterruptIrp

CancelPendingWait == Complete({PendingInterruptIrp} \cap Irps) /\ PendingInterruptIrp' = NoIrp

-----------------------------------------------------------------------------
(* PowerPnpDispatchDeviceControl.  "local" stands for what uses neither the *)
(* registers nor the slot (CREATE, CLOSE, GET_POWER_STATE, the count) and   *)
(* for everything that is refused.                                          *)

FirstLocations(k) ==
    CASE k = "register" -> {"register", "ack"}
      [] k = "wait"     -> {"check"}
      [] k = "cancel"   -> {"cancel"}

Dispatch(i) ==
    /\ dev = "live"
    /\ pc[i] = "idle"
    /\ \E k \in Kinds :
        IF k # "local" /\ Ready /\ "mmio" \in held
        THEN /\ irp' = [irp EXCEPT ![i] = "dispatched"]
             /\ \E loc \in FirstLocations(k) : Goto(i, loc)
        ELSE Answer(i)
    /\ UNCHANGED <<hardware, PendingInterruptIrp, manager, below, asserted, dpc, bugcheck>>

(* GET_ID, READ_REG32, WRITE_CONTROL, and WRITE_REG32 but for one register. *)
AccessRegister(i) ==
    /\ pc[i] = "register"
    /\ "mmio" \in held
    /\ Answer(i)
    /\ UNCHANGED <<hardware, PendingInterruptIrp, manager, below, asserted, dpc, bugcheck>>

(* WRITE_REG32 of 1 to ACK clears the status bit, seen by the ISR or not. *)
AcknowledgeInterrupt(i) ==
    /\ pc[i] = "ack"
    /\ "mmio" \in held
    /\ asserted' = FALSE
    /\ Answer(i)
    /\ UNCHANGED <<hardware, PendingInterruptIrp, manager, below, dpc, bugcheck>>

(* PowerPnpWaitForInterrupt: the flags, and then, under the lock, the slot. *)
CheckReady(i) ==
    /\ pc[i] = "check"
    /\ dev = "live"
    /\ IF Ready THEN Goto(i, "store") /\ UNCHANGED irp ELSE Answer(i)
    /\ UNCHANGED <<hardware, PendingInterruptIrp, manager, below, asserted, dpc, bugcheck>>

(* Mutant: an occupied slot is overwritten. *)
StorePendingOverwrites(i) ==
    /\ pc[i] = "store"
    /\ dev = "live"
    /\ PendingInterruptIrp' = i
    /\ irp' = [irp EXCEPT ![i] = "pending"]
    /\ Goto(i, "done")
    /\ UNCHANGED <<hardware, manager, below, asserted, dpc, bugcheck>>

StorePending(i) ==
    /\ pc[i] = "store"
    /\ dev = "live"
    /\ IF PendingInterruptIrp # NoIrp
       THEN Answer(i) /\ UNCHANGED PendingInterruptIrp         \* STATUS_DEVICE_BUSY
       ELSE /\ PendingInterruptIrp' = i
            /\ irp' = [irp EXCEPT ![i] = "pending"]
            /\ Goto(i, "done")
    /\ UNCHANGED <<hardware, manager, below, asserted, dpc, bugcheck>>

(* CANCEL_WAIT completes the pending wait, and then itself. *)
CancelWaitIoctl(i) ==
    /\ pc[i] = "cancel"
    /\ dev = "live"
    /\ CancelPendingWait
    /\ Goto(i, "answer")
    /\ UNCHANGED <<hardware, manager, below, asserted, dpc, bugcheck>>

AnswerCancel(i) ==
    /\ pc[i] = "answer"
    /\ Answer(i)
    /\ UNCHANGED <<hardware, PendingInterruptIrp, manager, below, asserted, dpc, bugcheck>>

Request(i) ==
    \/ AccessRegister(i) \/ AcknowledgeInterrupt(i) \/ CheckReady(i) \/ StorePending(i)
    \/ CancelWaitIoctl(i) \/ AnswerCancel(i)

-----------------------------------------------------------------------------
(* The host's interrupt, whether or not it gates it in D3; ISR and DPC.     *)

InjectInterrupt ==
    /\ asserted' = TRUE
    /\ UNCHANGED <<hardware, PendingInterruptIrp, manager, below, req, dpc, bugcheck>>

(* Mutant: an interrupt is acknowledged whose DPC nobody queues. *)
InterruptServiceForgets ==
    /\ "interrupt" \in held
    /\ Ready /\ "mmio" \in held
    /\ asserted
    /\ asserted' = FALSE
    /\ UNCHANGED <<hardware, PendingInterruptIrp, manager, below, req, dpc, bugcheck>>

(* An interrupt that the flags refuse stays asserted. *)
InterruptService ==
    /\ "interrupt" \in held
    /\ Ready /\ "mmio" \in held
    /\ asserted
    /\ asserted' = FALSE
    /\ dpcQueued' = TRUE
    /\ UNCHANGED <<hardware, PendingInterruptIrp, manager, below, req, dpcIrp, bugcheck>>

(* PowerPnpDpcRoutine: take the packet under the lock, then complete it.    *)
DpcTake ==
    /\ dpcQueued /\ dpcIrp = NoIrp
    /\ dev = "live"
    /\ dpcQueued' = FALSE
    /\ dpcIrp' = PendingInterruptIrp
    /\ PendingInterruptIrp' = NoIrp
    /\ UNCHANGED <<hardware, manager, below, req, asserted, bugcheck>>

DpcFinish ==
    /\ dpcIrp # NoIrp
    /\ dev = "live"
    /\ Complete({dpcIrp})
    /\ dpcIrp' = NoIrp
    /\ UNCHANGED <<hardware, PendingInterruptIrp, manager, below, pc, asserted, dpcQueued, bugcheck>>

-----------------------------------------------------------------------------
(* The lower device, in the host, and the forwarding routines.              *)

(* What the lower device does with the operation, and its answer. *)
LowerAnswers(ok) ==
    /\ lowerOk' = ok
    /\ lower' = IF ~ok \/ op = "query" THEN lower
                ELSE IF op \in {"start", "d0"} THEN "D0" ELSE "D3"

(* Where the handler continues once it has the answer: the rest of          *)
(* START_DEVICE or of a power-up only after a success, the end of           *)
(* REMOVE_DEVICE in any case.                                               *)
AfterForward(ok) ==
    IF op = "remove" THEN "delete"
    ELSE IF ok /\ op = "start" THEN IF Started THEN "up" ELSE "map"
    ELSE IF ok /\ op = "d0" THEN "up"
    ELSE "idle"

(* IoCallDriver or PoCallDriver: the answer comes at once, or it is         *)
(* STATUS_PENDING and the thread waits for the event.                       *)
Forward ==
    /\ mpc = "forward"
    /\ \/ \E ok \in BOOLEAN :
            /\ LowerAnswers(ok)
            /\ mpc' = AfterForward(ok)
            /\ event' = TRUE
            /\ UNCHANGED lowerBusy
       \/ /\ lowerBusy' = TRUE
          /\ event' = FALSE
          /\ mpc' = "wait"
          /\ UNCHANGED <<lower, lowerOk>>
    /\ UNCHANGED <<hardware, PendingInterruptIrp, op, req, asserted, dpc, bugcheck>>

(* Mutant: the completion routine does not set the event. *)
CompletionRoutineForgets ==
    /\ lowerBusy
    /\ lowerBusy' = FALSE
    /\ \E ok \in BOOLEAN : LowerAnswers(ok)
    /\ UNCHANGED <<event, hardware, PendingInterruptIrp, manager, req, asserted, dpc, bugcheck>>

(* A late answer: PowerPnpCompletionRoutine sets the event and keeps the IRP. *)
CompletionRoutine ==
    /\ lowerBusy
    /\ lowerBusy' = FALSE
    /\ \E ok \in BOOLEAN : LowerAnswers(ok)
    /\ event' = TRUE
    /\ UNCHANGED <<hardware, PendingInterruptIrp, manager, req, asserted, dpc, bugcheck>>

EventSet ==
    /\ mpc = "wait"
    /\ event
    /\ mpc' = AfterForward(lowerOk)
    /\ UNCHANGED <<hardware, PendingInterruptIrp, op, below, req, asserted, dpc, bugcheck>>

-----------------------------------------------------------------------------
(* The manager thread. *)

AddDevice ==
    /\ mpc = "absent"
    /\ dev' = "live"
    /\ mpc' = "idle"
    /\ UNCHANGED <<flags, held, PendingInterruptIrp, op, below, req, asserted, dpc, bugcheck>>

(* Mutant: a power-up makes the device usable before the lower device is up. *)
ManagerRequestEarly ==
    /\ mpc = "idle"
    /\ op' \in Operations
    /\ mpc' = IF op' \in {"stop", "remove", "d3"} THEN "cancel" ELSE "forward"
    /\ Removed' = (op' = "remove")
    /\ Powered' = (Powered \/ op' = "d0")
    /\ UNCHANGED <<dev, Started, held, PendingInterruptIrp, below, req, asserted, dpc, bugcheck>>

(* A PnP or power IRP arrives.  START_DEVICE, a power-up and QUERY_POWER go *)
(* to the lower device first; STOP, REMOVE and a power-down quiesce first.  *)
ManagerRequest ==
    /\ mpc = "idle"
    /\ op' \in Operations
    /\ mpc' = IF op' \in {"stop", "remove", "d3"} THEN "cancel" ELSE "forward"
    /\ Removed' = (op' = "remove")
    /\ UNCHANGED <<dev, Started, Powered, held, PendingInterruptIrp, below, req, asserted, dpc,
                   bugcheck>>

(* PowerPnpStartHardware: each failure undoes the earlier acquisitions.     *)
MapHardware ==
    /\ mpc = "map"
    /\ \/ held' = held \cup {"mmio"} /\ mpc' = "connect"
       \/ mpc' = "idle" /\ UNCHANGED held                      \* or a wrong ID: unmapped again
    /\ UNCHANGED <<dev, flags, PendingInterruptIrp, op, below, req, asserted, dpc, bugcheck>>

(* Mutant: a failed IoConnectInterrupt leaves the registers mapped. *)
ConnectInterruptLeaks ==
    /\ mpc = "connect"
    /\ \/ held' = held \cup {"interrupt"} /\ mpc' = "started"
       \/ mpc' = "idle" /\ UNCHANGED held
    /\ UNCHANGED <<dev, flags, PendingInterruptIrp, op, below, req, asserted, dpc, bugcheck>>

ConnectInterrupt ==
    /\ mpc = "connect"
    /\ \/ held' = held \cup {"interrupt"} /\ mpc' = "started"
       \/ held' = held \ {"mmio"} /\ mpc' = "idle"
    /\ UNCHANGED <<dev, flags, PendingInterruptIrp, op, below, req, asserted, dpc, bugcheck>>

HardwareStarted ==
    /\ mpc = "started"
    /\ Started' = TRUE /\ Powered' = TRUE
    /\ mpc' = "idle"
    /\ UNCHANGED <<dev, Removed, held, PendingInterruptIrp, op, below, req, asserted, dpc, bugcheck>>

(* PowerPnpSetDevicePower(D0), or START_DEVICE on a device that is started. *)
PowerUp ==
    /\ mpc = "up"
    /\ Powered' = TRUE
    /\ mpc' = "idle"
    /\ UNCHANGED <<dev, Removed, Started, held, PendingInterruptIrp, op, below, req, asserted, dpc,
                   bugcheck>>

(* PowerPnpSetDevicePower(D1..D3) and PowerPnpStopHardware: cancel, then    *)
(* the flag, and of the latter the resources.                               *)
QuiesceCancel ==
    /\ mpc = "cancel"
    /\ CancelPendingWait
    /\ mpc' = "off"
    /\ UNCHANGED <<hardware, op, below, pc, asserted, dpc, bugcheck>>

PowerOff ==
    /\ mpc = "off"
    /\ Powered' = FALSE
    /\ mpc' = IF op = "d3" THEN "forward" ELSE "disconnect"
    /\ UNCHANGED <<dev, Removed, Started, held, PendingInterruptIrp, op, below, req, asserted, dpc,
                   bugcheck>>

DisconnectInterrupt ==
    /\ mpc = "disconnect"
    /\ held' = held \ {"interrupt"}
    /\ mpc' = "unmap"
    /\ UNCHANGED <<dev, flags, PendingInterruptIrp, op, below, req, asserted, dpc, bugcheck>>

UnmapHardware ==
    /\ mpc = "unmap"
    /\ held' = held \ {"mmio"}
    /\ mpc' = "stopped"
    /\ UNCHANGED <<dev, flags, PendingInterruptIrp, op, below, req, asserted, dpc, bugcheck>>

HardwareStopped ==
    /\ mpc = "stopped"
    /\ Started' = FALSE
    /\ mpc' = "forward"
    /\ UNCHANGED <<dev, Removed, Powered, held, PendingInterruptIrp, op, below, req, asserted, dpc,
                   bugcheck>>

(* The end of PowerPnpHandleRemoveDevice: no DPC is flushed. *)
DeleteDevice ==
    /\ mpc = "delete"
    /\ dev' = "deleted"
    /\ mpc' = "gone"
    /\ UNCHANGED <<flags, held, PendingInterruptIrp, op, below, req, asserted, dpc, bugcheck>>

ManagerStep ==
    \/ Forward \/ EventSet \/ MapHardware \/ ConnectInterrupt \/ HardwareStarted \/ PowerUp
    \/ QuiesceCancel \/ PowerOff \/ DisconnectInterrupt \/ UnmapHardware \/ HardwareStopped
    \/ DeleteDevice

-----------------------------------------------------------------------------
(* An access to unmapped registers or to the extension of a deleted device. *)
WildAccess ==
    /\ \/ \E i \in Irps :
            \/ pc[i] \in {"register", "ack"} /\ "mmio" \notin held
            \/ pc[i] \in {"check", "store", "cancel"} /\ dev = "deleted"
       \/ (dpcQueued \/ dpcIrp # NoIrp) /\ dev = "deleted"
    /\ bugcheck' = TRUE
    /\ UNCHANGED <<hardware, PendingInterruptIrp, manager, below, req, asserted, dpc>>

(* The system may stop only here. *)
Finished ==
    /\ \/ bugcheck
       \/ /\ mpc = "gone"
          /\ \A i \in Irps : pc[i] \in {"idle", "done"}
          /\ ~dpcQueued /\ dpcIrp = NoIrp
    /\ UNCHANGED vars

Next ==
    \/ /\ ~bugcheck
       /\ \/ \E i \in Irps : Dispatch(i) \/ Request(i)
          \/ InjectInterrupt \/ InterruptService \/ DpcTake \/ DpcFinish
          \/ CompletionRoutine \/ AddDevice \/ ManagerRequest \/ ManagerStep \/ WildAccess
    \/ Finished

Spec == Init /\ [][Next]_vars

(* Dispatch routines, ISR and DPC run to their end, the lower device        *)
(* answers and a started PnP or power handler is not abandoned.             *)
FairSpec ==
    /\ Spec
    /\ \A i \in Irps : WF_vars(~bugcheck /\ Request(i))
    /\ WF_vars(~bugcheck /\ InterruptService)
    /\ WF_vars(~bugcheck /\ (DpcTake \/ DpcFinish))
    /\ WF_vars(~bugcheck /\ CompletionRoutine)
    /\ WF_vars(~bugcheck /\ ManagerStep)

-----------------------------------------------------------------------------
FlagsOK ==
    /\ Removed \in BOOLEAN /\ Started \in BOOLEAN /\ Powered \in BOOLEAN
    /\ lowerBusy \in BOOLEAN /\ lowerOk \in BOOLEAN /\ event \in BOOLEAN
    /\ asserted \in BOOLEAN /\ dpcQueued \in BOOLEAN
    /\ bugcheck \in BOOLEAN

(* Every variable keeps to its values; none of them has one for a packet    *)
(* completed twice, by any two of the DPC, CANCEL_WAIT, a power-down and    *)
(* STOP or REMOVE.                                                          *)
TypeOK ==
    /\ FlagsOK
    /\ dev \in {"none", "live", "deleted"}
    /\ held \subseteq Resources
    /\ mpc \in {"absent", "idle", "forward", "wait", "map", "connect", "started", "up", "cancel",
                "off", "disconnect", "unmap", "stopped", "delete", "gone"}
    /\ op \in Operations
    /\ lower \in {"D0", "D3"}
    /\ pc \in [Irps -> {"idle", "register", "ack", "check", "store", "cancel", "answer", "done"}]
    /\ irp \in [Irps -> {"new", "dispatched", "pending", "completed"}]
    /\ {PendingInterruptIrp, dpcIrp} \subseteq MaybeIrp

(* The slot is used by the discipline of WaitSlot: a wait is stored only    *)
(* while the slot is empty, and completed only by its dispatch routine      *)
(* before it is pending, by the one who took it out of the slot after, and  *)
(* never twice, whatever DPC, CANCEL_WAIT, a power-down, STOP and REMOVE do *)
(* at the same time.                                                        *)
Slot == INSTANCE WaitSlot WITH stage <- irp, slot <- PendingInterruptIrp, hand <- dpcIrp
WaitSlotSpec == Slot!Spec

(* The comments of PowerPnpHandleSetPower: on power-up the lower device     *)
(* sees the transition first, on power-down this driver quiesces first.  So *)
(* the device is usable only over a lower device in D0, whatever the lower  *)
(* device answers, and when.                                                *)
PoweredOverLower == Powered => lower = "D0"

(* Between PnP requests the device is started with all of its resources or  *)
(* stopped with none; at no time, half-way through START, STOP or REMOVE,   *)
(* are the flags of the readiness gate set with a resource missing, or is   *)
(* the interrupt connected over unmapped registers.                         *)
ResourcesFollowStarted ==
    /\ mpc \in {"idle", "gone"} => held = IF Started THEN Resources ELSE {}
    /\ Ready => held = Resources
    /\ "interrupt" \in held => "mmio" \in held

(* Every PnP and power IRP gets through the lower device and is completed:  *)
(* the thread that waits for the event is always woken.                     *)
ManagerAnswered == (mpc = "forward") ~> (mpc \in {"idle", "gone"} \/ bugcheck)

(* A client is about to acknowledge an interrupt that the ISR has not.      *)
AckStealsInterrupt == asserted /\ \E j \in Irps : pc[j] = "ack"

(* An interrupt while a wait is pending and the device stays in D0 answers  *)
(* the wait, unless a client's own ACK overtakes the ISR.                   *)
WaitAnswered ==
    \A i \in Irps :
        (irp[i] = "pending" /\ asserted /\ Ready) ~>
            (irp[i] = "completed" \/ ~Ready \/ AckStealsInterrupt \/ bugcheck)
=============================================================================
