-------------------------- MODULE PnpMmioInterrupt --------------------------
(***************************************************************************)
(* pnp_mmio_interrupt_test_driver: a function driver that takes registers  *)
(* and interrupt from the resources of START_DEVICE, gives them back in    *)
(* STOP_DEVICE and REMOVE_DEVICE, lets a client access a register at an    *)
(* offset of its choice and lets it wait for an interrupt.                 *)
(*                                                                         *)
(* Actors: one thread per request in the dispatch routine, the manager     *)
(* thread that delivers PnP IRPs one at a time, the lower device (which    *)
(* may answer at once or later), the ISR and the DPC.  The slot is         *)
(* accessed under PendingIrpLock, the flags and MmioLength with no lock.   *)
(*                                                                         *)
(* Abstracted: InterruptCount, the contents of the registers other than    *)
(* STATUS, buffer lengths, the symbolic link, and the minor functions that *)
(* change nothing (QUERY_STOP, QUERY_REMOVE, and those passed down and     *)
(* forgotten).                                                             *)
(***************************************************************************)
EXTENDS Naturals, Sequences

CONSTANTS
    Irps,       \* the IOCTL packets sent to the device
    NoIrp,      \* a null PIRP
    Word,       \* a ULONG is a number below Word
    Windows,    \* the lengths that the device's register window may have
    Offsets     \* the offsets that clients ask for

ASSUME NoIrpAssumption == NoIrp \notin Irps
ASSUME WordAssumption ==
    /\ Word \in Nat /\ Word > 4
    /\ Windows \subseteq 1 .. Word - 1
    /\ Offsets \subseteq 0 .. Word - 1

VARIABLES
    dev,                        \* the device object: "none", "live" or "deleted"
    window,                     \* the length of the device's register window
    Removed, Started,           \* of the device extension
    held,                       \* which of Resources the driver holds
    MmioLength,                 \* of the device extension; 0 when nothing is mapped
    PendingInterruptIrp,        \* ext->PendingInterruptIrp
    mpc, op,                    \* where the manager thread is, and in which of Operations
    lowerBusy, lowerOk,         \* the lower device still has the IRP; its last answer
    event,                      \* the event on the stack of the forwarding routine
    pc, irp,                    \* where each request is; what became of its packet
    offset,                     \* the Offset in the buffer of READ_REG32 or WRITE_REG32
    asserted,                   \* STATUS register: interrupt pending
    dpcQueued, dpcIrp,          \* the DPC is in the queue; the packet it took from the slot
    bugcheck                    \* unmapped registers or freed memory were accessed

flags == <<Removed, Started>>
hardware == <<dev, window, flags, held, MmioLength>>
manager == <<mpc, op>>
below == <<lowerBusy, lowerOk, event>>
req == <<pc, irp, offset>>
dpc == <<dpcQueued, dpcIrp>>
vars == <<hardware, PendingInterruptIrp, manager, below, req, asserted, dpc, bugcheck>>

Resources == {"mmio", "interrupt"}
Kinds == {"local", "fixed", "register", "wait", "cancel"}
Operations == {"start", "stop", "remove"}
MaybeIrp == Irps \cup {NoIrp}

Init ==
    /\ dev = "none"
    /\ window \in Windows
    /\ Removed = FALSE /\ Started = FALSE
    /\ held = {} /\ MmioLength = 0
    /\ PendingInterruptIrp = NoIrp
    /\ mpc = "absent" /\ op = "stop"
    /\ lowerBusy = FALSE /\ lowerOk = FALSE /\ event = FALSE
    /\ pc = [i \in Irps |-> "idle"]
    /\ irp = [i \in Irps |-> "new"]
    /\ offset = [i \in Irps |-> 0]
    /\ asserted = FALSE
    /\ dpcQueued = FALSE /\ dpcIrp = NoIrp
    /\ bugcheck = FALSE

-----------------------------------------------------------------------------
(* Completion of a set of packets, and the pending slot. *)

Complete(packets) ==
    irp' = [i \in Irps |-> IF i \notin packets THEN irp[i]
                           ELSE IF irp[i] = "completed" THEN "completed_twice"
                           ELSE "completed"]

Goto(i, loc) == pc' = [pc EXCEPT ![i] = loc]
Answer(i) == Complete({i}) /\ Goto(i, "done") /\ offset' = [offset EXCEPT ![i] = 0]

(* Mutant: the slot is not emptied. *)
CancelPendingWaitKeeps ==
    Complete({PendingInterruptIrp} \cap Irps) /\ UNCHANGED PendingInterruptIrp

CancelPendingWait == Complete({PendingInterruptIrp} \cap Irps) /\ PendingInterruptIrp' = NoIrp

-----------------------------------------------------------------------------
(* The check of an offset, in the unsigned arithmetic of a ULONG. *)

Minus(a, b) == IF a >= b THEN a - b ELSE a - b + Word

(* Mutant: a length below four wraps around. *)
ValidReg32OffsetWraps(len, off) == off % 4 = 0 /\ off <= Minus(len, 4)

ValidReg32Offset(len, off) == off % 4 = 0 /\ len >= 4 /\ off <= Minus(len, 4)

-----------------------------------------------------------------------------
(* PnpitDispatchDeviceControl.  "local" stands for what uses neither the    *)
(* registers nor the slot (CREATE, CLOSE, the count) and for everything     *)
(* that is refused, "fixed" for GET_ID and WRITE_CONTROL.                   *)

FirstLocation(k) ==
    CASE k = "fixed"    -> "fixed"
      [] k = "register" -> "offset"
      [] k = "wait"     -> "check"
      [] k = "cancel"   -> "cancel"

Dispatch(i) ==
    /\ dev = "live"
    /\ pc[i] = "idle"
    /\ \E k \in Kinds :
        IF k # "local" /\ ~Removed /\ Started /\ "mmio" \in held
        THEN /\ irp' = [irp EXCEPT ![i] = "dispatched"]
             /\ Goto(i, FirstLocation(k))
             /\ IF k = "register" THEN \E off \in Offsets : offset' = [offset EXCEPT ![i] = off]
                                  ELSE UNCHANGED offset
        ELSE Answer(i)
    /\ UNCHANGED <<hardware, PendingInterruptIrp, manager, below, asserted, dpc, bugcheck>>

(* What a checked request does: READ_REG32 or WRITE_REG32 of a register, or *)
(* the WRITE_REG32 of 1 to ACK.                                             *)
PNPIT_REG_ACK == 12
Accesses(off) == IF off = PNPIT_REG_ACK THEN {"access", "ack"} ELSE {"access"}

(* The length that the check reads may be that of a stopped device. *)
CheckOffset(i) ==
    /\ pc[i] = "offset"
    /\ dev = "live"
    /\ IF ValidReg32Offset(MmioLength, offset[i])
       THEN /\ \E loc \in Accesses(offset[i]) : Goto(i, loc)
            /\ UNCHANGED <<irp, offset>>
       ELSE Answer(i)                                           \* STATUS_INVALID_PARAMETER
    /\ UNCHANGED <<hardware, PendingInterruptIrp, manager, below, asserted, dpc, bugcheck>>

AccessRegister(i) ==
    /\ pc[i] \in {"fixed", "access"}
    /\ "mmio" \in held
    /\ Answer(i)
    /\ UNCHANGED <<hardware, PendingInterruptIrp, manager, below, asserted, dpc, bugcheck>>

(* The status bit is cleared, seen by the ISR or not. *)
AcknowledgeInterrupt(i) ==
    /\ pc[i] = "ack"
    /\ "mmio" \in held
    /\ asserted' = FALSE
    /\ Answer(i)
    /\ UNCHANGED <<hardware, PendingInterruptIrp, manager, below, dpc, bugcheck>>

(* PnpitWaitForInterrupt: the flags, and then, under the lock, the slot.    *)
CheckStarted(i) ==
    /\ pc[i] = "check"
    /\ dev = "live"
    /\ IF ~Removed /\ Started THEN Goto(i, "store") /\ UNCHANGED <<irp, offset>> ELSE Answer(i)
    /\ UNCHANGED <<hardware, PendingInterruptIrp, manager, below, asserted, dpc, bugcheck>>

StorePending(i) ==
    /\ pc[i] = "store"
    /\ dev = "live"
    /\ IF PendingInterruptIrp # NoIrp
       THEN Answer(i) /\ UNCHANGED PendingInterruptIrp         \* STATUS_DEVICE_BUSY
       ELSE /\ PendingInterruptIrp' = i
            /\ irp' = [irp EXCEPT ![i] = "pending"]
            /\ Goto(i, "done")
            /\ UNCHANGED offset
    /\ UNCHANGED <<hardware, manager, below, asserted, dpc, bugcheck>>

(* CANCEL_WAIT completes the pending wait, and then itself. *)
CancelWaitIoctl(i) ==
    /\ pc[i] = "cancel"
    /\ dev = "live"
    /\ CancelPendingWait
    /\ Goto(i, "answer")
    /\ UNCHANGED <<offset, hardware, manager, below, asserted, dpc, bugcheck>>

AnswerCancel(i) ==
    /\ pc[i] = "answer"
    /\ Answer(i)
    /\ UNCHANGED <<hardware, PendingInterruptIrp, manager, below, asserted, dpc, bugcheck>>

Request(i) ==
    \/ CheckOffset(i) \/ AccessRegister(i) \/ AcknowledgeInterrupt(i) \/ CheckStarted(i)
    \/ StorePending(i) \/ CancelWaitIoctl(i) \/ AnswerCancel(i)

-----------------------------------------------------------------------------
(* The host's interrupt, the ISR and the DPC. *)

InjectInterrupt ==
    /\ asserted' = TRUE
    /\ UNCHANGED <<hardware, PendingInterruptIrp, manager, below, req, dpc, bugcheck>>

(* An interrupt that the flags refuse, as between IoConnectInterrupt and    *)
(* Started = 1, stays asserted.                                             *)
InterruptService ==
    /\ "interrupt" \in held
    /\ ~Removed /\ Started /\ "mmio" \in held
    /\ asserted
    /\ asserted' = FALSE
    /\ dpcQueued' = TRUE
    /\ UNCHANGED <<hardware, PendingInterruptIrp, manager, below, req, dpcIrp, bugcheck>>

(* PnpitDpcRoutine: take the packet under the lock, then complete it.       *)
DpcTake ==
    /\ dpcQueued /\ dpcIrp = NoIrp
    /\ dev = "live"
    /\ dpcQueued' = FALSE
    /\ dpcIrp' = PendingInterruptIrp
    /\ PendingInterruptIrp' = NoIrp
    /\ UNCHANGED <<hardware, manager, below, req, asserted, bugcheck>>

DpcFinish ==
    /\ dpcIrp # NoIrp
    /\ dev = "live"
    /\ Complete({dpcIrp})
    /\ dpcIrp' = NoIrp
    /\ UNCHANGED <<hardware, PendingInterruptIrp, manager, below, pc, offset, asserted, dpcQueued,
                   bugcheck>>

-----------------------------------------------------------------------------
(* PnpitForwardIrpSynchronously and the lower device, in the host. *)

(* The rest of START_DEVICE runs only after a success, the end of           *)
(* REMOVE_DEVICE in any case.  START_DEVICE on a started device is done.    *)
AfterForward(ok) ==
    IF op = "remove" THEN "delete"
    ELSE IF op = "start" /\ ok /\ ~Started THEN "map"
    ELSE "idle"

(* IoCallDriver: the answer comes at once, or it is STATUS_PENDING and the  *)
(* thread waits for the event.                                              *)
Forward ==
    /\ mpc = "forward"
    /\ \/ /\ event' = TRUE
          /\ lowerOk' \in BOOLEAN
          /\ mpc' = AfterForward(lowerOk')
          /\ UNCHANGED lowerBusy
       \/ /\ event' = FALSE
          /\ lowerBusy' = TRUE
          /\ mpc' = "wait"
          /\ UNCHANGED lowerOk
    /\ UNCHANGED <<hardware, PendingInterruptIrp, op, req, asserted, dpc, bugcheck>>

(* A late answer: PnpitPnpCompletionRoutine sets the event, keeps the IRP.  *)
CompletionRoutine ==
    /\ lowerBusy
    /\ lowerBusy' = FALSE
    /\ lowerOk' \in BOOLEAN
    /\ event' = TRUE
    /\ UNCHANGED <<hardware, PendingInterruptIrp, manager, req, asserted, dpc, bugcheck>>

EventSet ==
    /\ mpc = "wait"
    /\ event
    /\ mpc' = AfterForward(lowerOk)
    /\ UNCHANGED <<hardware, PendingInterruptIrp, op, below, req, asserted, dpc, bugcheck>>

-----------------------------------------------------------------------------
(* The manager thread. *)

AddDevice ==
    /\ mpc = "absent"
    /\ dev' = "live"
    /\ mpc' = "idle"
    /\ UNCHANGED <<window, flags, held, MmioLength, PendingInterruptIrp, op, below, req, asserted,
                   dpc, bugcheck>>

(* A PnP IRP arrives.  STOP and REMOVE first give up the hardware, START    *)
(* first goes to the lower device.                                          *)
ManagerRequest ==
    /\ mpc = "idle"
    /\ op' \in Operations
    /\ mpc' = IF op' = "start" THEN "forward" ELSE "cancel"
    /\ Removed' = (op' = "remove")
    /\ UNCHANGED <<dev, window, Started, held, MmioLength, PendingInterruptIrp, below, req,
                   asserted, dpc, bugcheck>>

(* A translated resource list, its full descriptors concatenated: what the  *)
(* manager of this device can send, with a window that some list repeats in *)
(* another size.                                                            *)
Memory(len) == [type |-> "memory", length |-> len]
Interrupt == [type |-> "interrupt", length |-> 0]
Other == [type |-> "other", length |-> 0]
ResourceLists ==
    {<<>>, <<Interrupt>>, <<Other, Memory(window)>>, <<Memory(window), Interrupt>>,
     <<Interrupt, Interrupt, Other, Memory(window), Memory(Word - 1)>>}

(* The first descriptor of a type is the n-th of the list. *)
FoundAt(list, type, n) ==
    /\ n \in DOMAIN list
    /\ list[n].type = type
    /\ \A k \in 1 .. n - 1 : list[k].type # type

(* PnpitStartHardware: a list that lacks one of the two is refused, and     *)
(* each later failure undoes the earlier acquisitions.                      *)
MapHardware ==
    /\ mpc = "map"
    /\ \/ \E list \in ResourceLists : \E m, n \in DOMAIN list :
            /\ FoundAt(list, "memory", m) /\ FoundAt(list, "interrupt", n)
            /\ held' = held \cup {"mmio"}
            /\ MmioLength' = list[m].length
            /\ mpc' = "connect"
       \/ mpc' = "idle" /\ UNCHANGED <<held, MmioLength>>  \* or the map fails, or the ID
    /\ UNCHANGED <<dev, window, flags, PendingInterruptIrp, op, below, req, asserted, dpc, bugcheck>>

(* Mutant: a failed IoConnectInterrupt leaves the registers mapped. *)
ConnectInterruptLeaks ==
    /\ mpc = "connect"
    /\ \/ held' = held \cup {"interrupt"} /\ mpc' = "started"
       \/ mpc' = "idle" /\ UNCHANGED held
    /\ UNCHANGED <<dev, window, flags, MmioLength, PendingInterruptIrp, op, below, req, asserted,
                   dpc, bugcheck>>

ConnectInterrupt ==
    /\ mpc = "connect"
    /\ \/ held' = held \cup {"interrupt"} /\ mpc' = "started" /\ UNCHANGED MmioLength
       \/ held' = held \ {"mmio"} /\ mpc' = "idle" /\ MmioLength' = 0
    /\ UNCHANGED <<dev, window, flags, PendingInterruptIrp, op, below, req, asserted, dpc, bugcheck>>

HardwareStarted ==
    /\ mpc = "started"
    /\ Started' = TRUE
    /\ mpc' = "idle"
    /\ UNCHANGED <<dev, window, Removed, held, MmioLength, PendingInterruptIrp, op, below, req,
                   asserted, dpc, bugcheck>>

(* Mutant: the pending wait is left in the slot. *)
StopCancelsNothing ==
    /\ mpc = "cancel"
    /\ mpc' = "disconnect"
    /\ UNCHANGED <<hardware, PendingInterruptIrp, op, below, req, asserted, dpc, bugcheck>>

(* PnpitStopHardware: the pending wait, the interrupt, the registers, and   *)
(* only then the flag.                                                      *)
StopCancels ==
    /\ mpc = "cancel"
    /\ CancelPendingWait
    /\ mpc' = "disconnect"
    /\ UNCHANGED <<hardware, op, below, pc, offset, asserted, dpc, bugcheck>>

DisconnectInterrupt ==
    /\ mpc = "disconnect"
    /\ held' = held \ {"interrupt"}
    /\ mpc' = "unmap"
    /\ UNCHANGED <<dev, window, flags, MmioLength, PendingInterruptIrp, op, below, req, asserted,
                   dpc, bugcheck>>

UnmapHardware ==
    /\ mpc = "unmap"
    /\ held' = held \ {"mmio"}
    /\ MmioLength' = 0
    /\ mpc' = "stopped"
    /\ UNCHANGED <<dev, window, flags, PendingInterruptIrp, op, below, req, asserted, dpc, bugcheck>>

HardwareStopped ==
    /\ mpc = "stopped"
    /\ Started' = FALSE
    /\ mpc' = "forward"
    /\ UNCHANGED <<dev, window, Removed, held, MmioLength, PendingInterruptIrp, op, below, req,
                   asserted, dpc, bugcheck>>

(* The end of PnpitHandleRemoveDevice: no DPC is flushed. *)
DeleteDevice ==
    /\ mpc = "delete"
    /\ dev' = "deleted"
    /\ mpc' = "gone"
    /\ UNCHANGED <<window, flags, held, MmioLength, PendingInterruptIrp, op, below, req, asserted,
                   dpc, bugcheck>>

ManagerStep ==
    \/ Forward \/ EventSet \/ MapHardware \/ ConnectInterrupt \/ HardwareStarted \/ StopCancels
    \/ DisconnectInterrupt \/ UnmapHardware \/ HardwareStopped \/ DeleteDevice

-----------------------------------------------------------------------------
(* An access to unmapped registers or to the extension of a deleted device. *)

Crash ==
    /\ bugcheck' = TRUE
    /\ UNCHANGED <<hardware, PendingInterruptIrp, manager, below, req, asserted, dpc>>

WildRequest(i) ==
    /\ \/ pc[i] \in {"fixed", "access", "ack"} /\ "mmio" \notin held
       \/ pc[i] \in {"offset", "check", "store", "cancel"} /\ dev = "deleted"
    /\ Crash

WildDpc == (dpcQueued \/ dpcIrp # NoIrp) /\ dev = "deleted" /\ Crash

(* The system may stop only here. *)
Finished ==
    /\ \/ bugcheck
       \/ /\ mpc = "gone"
          /\ \A i \in Irps : pc[i] \in {"idle", "done"}
          /\ ~dpcQueued /\ dpcIrp = NoIrp
    /\ UNCHANGED vars

Next ==
    \/ /\ ~bugcheck
       /\ \/ \E i \in Irps : Dispatch(i) \/ Request(i) \/ WildRequest(i)
          \/ InjectInterrupt \/ InterruptService \/ DpcTake \/ DpcFinish \/ WildDpc
          \/ CompletionRoutine \/ AddDevice \/ ManagerRequest \/ ManagerStep
    \/ Finished

Spec == Init /\ [][Next]_vars

(* Dispatch routines, ISR and DPC run to their end, the lower device        *)
(* answers and a started PnP handler is not abandoned.                      *)
FairSpec ==
    /\ Spec
    /\ \A i \in Irps : WF_vars(~bugcheck /\ (Request(i) \/ WildRequest(i)))
    /\ WF_vars(~bugcheck /\ InterruptService)
    /\ WF_vars(~bugcheck /\ (DpcTake \/ DpcFinish \/ WildDpc))
    /\ WF_vars(~bugcheck /\ CompletionRoutine)
    /\ WF_vars(~bugcheck /\ ManagerStep)

-----------------------------------------------------------------------------
FlagsOK ==
    /\ Removed \in BOOLEAN /\ Started \in BOOLEAN
    /\ lowerBusy \in BOOLEAN /\ lowerOk \in BOOLEAN /\ event \in BOOLEAN
    /\ asserted \in BOOLEAN /\ dpcQueued \in BOOLEAN
    /\ bugcheck \in BOOLEAN

(* Every variable keeps to its values; none of them has one for a packet    *)
(* completed twice, by any two of the DPC, CANCEL_WAIT, STOP and REMOVE.    *)
TypeOK ==
    /\ FlagsOK
    /\ dev \in {"none", "live", "deleted"}
    /\ window \in Windows
    /\ held \subseteq Resources
    /\ MmioLength \in 0 .. Word - 1
    /\ mpc \in {"absent", "idle", "forward", "wait", "map", "connect", "started", "cancel",
                "disconnect", "unmap", "stopped", "delete", "gone"}
    /\ op \in Operations
    /\ pc \in [Irps -> {"idle", "fixed", "offset", "access", "ack", "check", "store", "cancel",
                        "answer", "done"}]
    /\ irp \in [Irps -> {"new", "dispatched", "pending", "completed"}]
    /\ offset \in [Irps -> 0 .. Word - 1]
    /\ {PendingInterruptIrp, dpcIrp} \subseteq MaybeIrp

(* The slot is used by the discipline of WaitSlot: a wait is stored only    *)
(* while the slot is empty, and completed only by its dispatch routine      *)
(* before it is pending, by the one who took it out of the slot after, and  *)
(* never twice, whatever DPC, CANCEL_WAIT, STOP and REMOVE do at once.      *)
Slot == INSTANCE WaitSlot WITH stage <- irp, slot <- PendingInterruptIrp, hand <- dpcIrp
WaitSlotSpec == Slot!Spec

(* READ_REG32 and WRITE_REG32 access an aligned register inside the window  *)
(* of the device, for every length that START_DEVICE may have found in its  *)
(* list and every Offset of the client, also after a STOP and a START       *)
(* between the check and the access.                                        *)
AccessInsideWindow ==
    \A i \in Irps :
        pc[i] \in {"access", "ack"} /\ "mmio" \in held =>
            offset[i] % 4 = 0 /\ offset[i] + 4 <= window

(* Between PnP requests the device is started with all of its resources or  *)
(* stopped with none, whichever step of START_DEVICE failed, and at no time *)
(* is the interrupt connected over unmapped registers.                      *)
ResourcesFollowStarted ==
    /\ mpc \in {"idle", "gone"} => held = IF Started THEN Resources ELSE {}
    /\ "interrupt" \in held => "mmio" \in held

(* A client is about to acknowledge an interrupt that the ISR has not.      *)
AckStealsInterrupt == asserted /\ \E j \in Irps : pc[j] = "ack"

(* A pending wait does not stay behind.  An interrupt that the started      *)
(* device raises answers it, also when an earlier STOP missed it and a new  *)
(* START found it in the slot, unless a client's own ACK overtakes the ISR; *)
(* and when STOP or REMOVE begins to give up the hardware, the handler      *)
(* completes it, or a DPC that was faster.                                  *)
WaitAnswered ==
    \A i \in Irps :
        /\ (irp[i] = "pending" /\ asserted /\ Started) ~>
               (irp[i] = "completed" \/ ~Started \/ Removed \/ AckStealsInterrupt \/ bugcheck)
        /\ (irp[i] = "pending" /\ mpc = "cancel") ~> (irp[i] = "completed" \/ bugcheck)
=============================================================================
