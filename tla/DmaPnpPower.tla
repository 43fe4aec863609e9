---------------------------- MODULE DmaPnpPower ----------------------------
(***************************************************************************)
(* dma_pnp_power_test_driver: a PnP function driver with one pending-IRP   *)
(* slot, a common DMA buffer, an interrupt with its DPC, and device power. *)
(*                                                                         *)
(* Actors: one thread per request in the dispatch routine, the manager     *)
(* thread that delivers PnP and power IRPs one at a time, the ISR, the DPC *)
(* and the simulated DMA device.  PendingIrpLock makes an access to the    *)
(* slot one step; the flags Removed, Started and Powered are read with no  *)
(* lock, so a request can act on values that no longer hold.  The ISR is   *)
(* one step: IoDisconnectInterrupt waits for it through the interrupt lock.*)
(*                                                                         *)
(* Abstracted: InterruptCount, the registers other than ACK, COMMAND,      *)
(* STATUS and RESULT and what the clients write to them, buffer lengths,   *)
(* SystemPowerState and what PoSetPowerState records.  PendingKind is the  *)
(* IOCTL of the pending packet and needs no variable of its own.           *)
(***************************************************************************)
EXTENDS Naturals, FiniteSets

CONSTANTS
    Irps,       \* the IOCTL packets sent to the device
    NoIrp,      \* a null PIRP
    Injection   \* TRUE: the host injects interrupts that no DMA command caused

ASSUME NoIrpAssumption == NoIrp \notin Irps
ASSUME InjectionAssumption == Injection \in BOOLEAN

VARIABLES
    dev,                \* the device object: "none", "live" or "deleted"
    Removed, Started, Powered, DevicePowerState,    \* of the device extension
    held,               \* which of Resources the driver holds
    PendingIrp,         \* ext->PendingIrp
    mpc,                \* where the manager thread is
    pc, kind,           \* where each request is, and which IOCTL it is
    irp,                \* what became of each packet
    result,             \* whose transfer a successful roundtrip reports
    dpcQueued, dpcIrp,  \* the DPC is in the queue; the packet it took from the slot
    buffer,             \* the request whose pattern the common buffer holds
    command,            \* the request whose DMA command the device executes
    done, error,        \* STATUS register
    regResult,          \* RESULT register: whose transfer it is the checksum of
    bugcheck            \* unmapped registers or freed memory were accessed

ext == <<dev, Removed, Started, Powered, DevicePowerState, held>>
req == <<pc, kind, irp, result>>
dpc == <<dpcQueued, dpcIrp>>
device == <<command, done, error, regResult>>
vars == <<ext, PendingIrp, mpc, req, dpc, buffer, device, bugcheck>>

Resources == {"mmio", "interrupt", "adapter", "buffer"}
Kinds == {"local", "register", "cancel", "wait", "roundtrip"}
MaybeIrp == Irps \cup {NoIrp}

Init ==
    /\ dev = "none"
    /\ Removed = FALSE /\ Started = FALSE /\ Powered = FALSE
    /\ DevicePowerState = "D3"
    /\ held = {}
    /\ PendingIrp = NoIrp
    /\ mpc = "absent"
    /\ pc = [i \in Irps |-> "idle"]
    /\ kind = [i \in Irps |-> "local"]
    /\ irp = [i \in Irps |-> "new"]
    /\ result = [i \in Irps |-> "none"]
    /\ dpcQueued = FALSE
    /\ dpcIrp = NoIrp
    /\ buffer = NoIrp
    /\ command = NoIrp
    /\ done = FALSE /\ error = FALSE
    /\ regResult = NoIrp
    /\ bugcheck = FALSE

Ready == ~Removed /\ Started /\ Powered

-----------------------------------------------------------------------------
(* The pending slot.  Complete is IoCompleteRequest on a set of packets.    *)

Complete(packets) ==
    irp' = [i \in Irps |-> IF i \notin packets THEN irp[i]
                           ELSE IF irp[i] = "completed" THEN "completed_twice"
                           ELSE "completed"]

Goto(i, loc) == pc' = [pc EXCEPT ![i] = loc]
Answer(i) == Complete({i}) /\ Goto(i, "done")

(* Mutant: the slot is not emptied. *)
CancelPendingKeeps == Complete({PendingIrp} \cap Irps) /\ UNCHANGED PendingIrp

(* DmaPnpCancelPending: empty the slot and complete what was in it. *)
CancelPending == Complete({PendingIrp} \cap Irps) /\ PendingIrp' = NoIrp

-----------------------------------------------------------------------------
(* DmaPnpDispatchDeviceControl.  Requests that use neither the registers    *)
(* nor the slot are answered where they are dispatched, like CREATE and     *)
(* CLOSE; the others pass the readiness gate and continue.                  *)

FirstLocations(k) ==
    CASE k = "register"  -> {"register", "ack", "transfer"}
      [] k = "cancel"    -> {"cancel"}
      [] k = "wait"      -> {"check"}
      [] k = "roundtrip" -> {"prepare"}

Dispatch(i) ==
    /\ dev = "live"
    /\ pc[i] = "idle"
    /\ \E k \in Kinds :
        /\ kind' = [kind EXCEPT ![i] = k]
        /\ IF k # "local" /\ Ready /\ "mmio" \in held
           THEN /\ irp' = [irp EXCEPT ![i] = "dispatched"]
                /\ \E loc \in FirstLocations(k) : Goto(i, loc)
           ELSE Answer(i)
    /\ UNCHANGED <<ext, PendingIrp, mpc, result, dpc, buffer, device, bugcheck>>

(* GET_ID, READ_REG32, WRITE_CONTROL, and WRITE_REG32 but for two registers. *)
AccessRegister(i) ==
    /\ pc[i] = "register"
    /\ "mmio" \in held
    /\ Answer(i)
    /\ UNCHANGED <<ext, PendingIrp, mpc, kind, result, dpc, buffer, device, bugcheck>>

(* WRITE_REG32 of 1 to ACK clears DONE, which the ISR may not have seen. *)
AcknowledgeInterrupt(i) ==
    /\ pc[i] = "ack"
    /\ "mmio" \in held
    /\ done' = FALSE
    /\ Answer(i)
    /\ UNCHANGED <<ext, PendingIrp, mpc, kind, result, dpc, buffer, command, error, regResult,
                   bugcheck>>

(* WRITE_REG32 of a command to COMMAND starts a transfer that nobody waits  *)
(* for, in the place of the one under way.                                  *)
StartTransfer(i) ==
    /\ pc[i] = "transfer"
    /\ "mmio" \in held
    /\ command' = i
    /\ Answer(i)
    /\ UNCHANGED <<ext, PendingIrp, mpc, kind, result, dpc, buffer, done, error, regResult, bugcheck>>

(* CANCEL_PENDING completes the pending packet ... *)
CancelIoctl(i) ==
    /\ pc[i] = "cancel"
    /\ dev = "live"
    /\ CancelPending
    /\ Goto(i, "cancelled")
    /\ UNCHANGED <<ext, mpc, kind, result, dpc, buffer, device, bugcheck>>

(* ... and then itself. *)
AnswerCancel(i) ==
    /\ pc[i] = "cancelled"
    /\ Answer(i)
    /\ UNCHANGED <<ext, PendingIrp, mpc, kind, result, dpc, buffer, device, bugcheck>>

(* DmaPnpStartCommonRoundtrip up to the fill: is there a common buffer? *)
PrepareRoundtrip(i) ==
    /\ pc[i] = "prepare"
    /\ dev = "live"
    /\ IF "buffer" \in held THEN Goto(i, "fill") /\ UNCHANGED irp ELSE Answer(i)
    /\ UNCHANGED <<ext, PendingIrp, mpc, kind, result, dpc, buffer, device, bugcheck>>

(* The pattern is written before the slot is claimed. *)
FillCommonBuffer(i) ==
    /\ pc[i] = "fill"
    /\ "buffer" \in held
    /\ buffer' = i
    /\ Goto(i, "check")
    /\ UNCHANGED <<ext, PendingIrp, mpc, kind, irp, result, dpc, device, bugcheck>>

(* DmaPnpQueuePendingIrp: the flags, and then, under the lock, the slot. *)
CheckReady(i) ==
    /\ pc[i] = "check"
    /\ dev = "live"
    /\ IF Ready THEN Goto(i, "store") /\ UNCHANGED irp ELSE Answer(i)
    /\ UNCHANGED <<ext, PendingIrp, mpc, kind, result, dpc, buffer, device, bugcheck>>

(* Mutant: an occupied slot is overwritten. *)
StorePendingOverwrites(i) ==
    /\ pc[i] = "store"
    /\ dev = "live"
    /\ PendingIrp' = i
    /\ irp' = [irp EXCEPT ![i] = "pending"]
    /\ Goto(i, IF kind[i] = "roundtrip" THEN "command" ELSE "done")
    /\ UNCHANGED <<ext, mpc, kind, result, dpc, buffer, device, bugcheck>>

StorePending(i) ==
    /\ pc[i] = "store"
    /\ dev = "live"
    /\ IF PendingIrp # NoIrp
       THEN Answer(i) /\ UNCHANGED PendingIrp          \* STATUS_DEVICE_BUSY
       ELSE /\ PendingIrp' = i
            /\ irp' = [irp EXCEPT ![i] = "pending"]
            /\ Goto(i, IF kind[i] = "roundtrip" THEN "command" ELSE "done")
    /\ UNCHANGED <<ext, mpc, kind, result, dpc, buffer, device, bugcheck>>

(* The address, the length and COMMON_INVERT go to the registers. *)
WriteCommand(i) ==
    /\ pc[i] = "command"
    /\ "mmio" \in held
    /\ command' = i
    /\ Goto(i, "done")
    /\ UNCHANGED <<ext, PendingIrp, mpc, kind, irp, result, dpc, buffer, done, error, regResult,
                   bugcheck>>

Request(i) ==
    \/ AccessRegister(i) \/ AcknowledgeInterrupt(i) \/ StartTransfer(i) \/ CancelIoctl(i)
    \/ AnswerCancel(i) \/ PrepareRoundtrip(i) \/ FillCommonBuffer(i) \/ CheckReady(i)
    \/ StorePending(i) \/ WriteCommand(i)

-----------------------------------------------------------------------------
(* The simulated device, in the host: README.md, "IOCTLs", Flow.            *)

(* The transfer inverts the buffer and leaves its checksum.  The result     *)
(* belongs to the request that issued the command if that request was the   *)
(* last to fill the buffer, and to nobody otherwise.  A client's own command*)
(* may also be CHECKSUM, which leaves the buffer as it is.                  *)
DeviceFinishes ==
    /\ command # NoIrp
    /\ regResult' = IF buffer = command THEN command ELSE NoIrp
    /\ done' = TRUE
    /\ error' \in BOOLEAN
    /\ command' = NoIrp
    /\ \/ buffer' = NoIrp
       \/ kind[command] = "register" /\ UNCHANGED buffer
    /\ UNCHANGED <<ext, PendingIrp, mpc, req, dpc, bugcheck>>

InjectInterrupt ==
    /\ Injection
    /\ done' = TRUE
    /\ UNCHANGED <<ext, PendingIrp, mpc, req, dpc, buffer, command, error, regResult, bugcheck>>

-----------------------------------------------------------------------------
(* DmaPnpInterruptService: acknowledge and queue the DPC.  KeInsertQueueDpc *)
(* does nothing when the DPC is queued already.  An interrupt the flags     *)
(* refuse stays asserted and changes nothing.                               *)

(* Mutant: an interrupt is acknowledged whose DPC nobody queues. *)
InterruptServiceForgets ==
    /\ "interrupt" \in held
    /\ Ready
    /\ "mmio" \in held
    /\ done
    /\ done' = FALSE
    /\ UNCHANGED <<ext, PendingIrp, mpc, req, dpc, buffer, command, error, regResult, bugcheck>>

InterruptService ==
    /\ "interrupt" \in held
    /\ Ready
    /\ "mmio" \in held
    /\ done
    /\ done' = FALSE
    /\ dpcQueued' = TRUE
    /\ UNCHANGED <<ext, PendingIrp, mpc, req, dpcIrp, buffer, command, error, regResult, bugcheck>>

(* DmaPnpDpcRoutine, first half: take the pending packet under the lock. *)
DpcTake ==
    /\ dpcQueued
    /\ dpcIrp = NoIrp
    /\ dev = "live"
    /\ dpcQueued' = FALSE
    /\ dpcIrp' = PendingIrp
    /\ PendingIrp' = NoIrp
    /\ UNCHANGED <<ext, mpc, req, buffer, device, bugcheck>>

(* Second half: read the registers and complete the packet. *)
DpcFinish ==
    /\ dpcIrp # NoIrp
    /\ "mmio" \in held
    /\ Complete({dpcIrp})
    /\ result' = IF kind[dpcIrp] = "roundtrip" /\ ~error
                 THEN [result EXCEPT ![dpcIrp] = IF regResult = dpcIrp THEN "own" ELSE "foreign"]
                 ELSE result
    /\ dpcIrp' = NoIrp
    /\ UNCHANGED <<ext, PendingIrp, mpc, pc, kind, dpcQueued, buffer, device, bugcheck>>

-----------------------------------------------------------------------------
(* The manager thread: AddDevice, then PnP and power IRPs one at a time.    *)
(* Forwarding to the lower device changes nothing here; where the driver    *)
(* acts only on its success, not acting is the stuttering step.             *)

AddDevice ==
    /\ mpc = "absent"
    /\ dev' = "live"
    /\ mpc' = "idle"
    /\ UNCHANGED <<Removed, Started, Powered, DevicePowerState, held, PendingIrp, req, dpc, buffer,
                   device, bugcheck>>

(* DmaPnpStartHardware on a device that is started already ... *)
RestartDevice ==
    /\ mpc = "idle"
    /\ Started
    /\ Powered' = TRUE
    /\ DevicePowerState' = "D0"
    /\ UNCHANGED <<dev, Removed, Started, held, PendingIrp, mpc, req, dpc, buffer, device, bugcheck>>

StartDevice ==
    /\ mpc = "idle"
    /\ ~Started
    /\ mpc' = "map"
    /\ UNCHANGED <<ext, PendingIrp, req, dpc, buffer, device, bugcheck>>

(* ... or its resources in order.  A failure goes to the first of the calls *)
(* that give back what was acquired before it.                              *)
Acquire(loc, gets, next, undo) ==
    /\ mpc = loc
    /\ \/ held' = held \cup gets /\ mpc' = next
       \/ UNCHANGED held /\ mpc' = undo
    /\ UNCHANGED <<dev, Removed, Started, Powered, DevicePowerState, PendingIrp, req, dpc, buffer,
                   device, bugcheck>>

MapHardware == Acquire("map", {"mmio"}, "identify", "idle")
ReadId == Acquire("identify", {}, "connect", "undo_unmap")
ConnectInterrupt == Acquire("connect", {"interrupt"}, "adapter", "undo_unmap")
AcquireDmaAdapter == Acquire("adapter", {"adapter"}, "allocate", "undo_disconnect")

(* Mutant: a failed AllocateCommonBuffer only unmaps the registers. *)
AllocateCommonBufferLeaks == Acquire("allocate", {"buffer"}, "started", "undo_unmap")

AllocateCommonBuffer == Acquire("allocate", {"buffer"}, "started", "undo_free")

HardwareStarted ==
    /\ mpc = "started"
    /\ Started' = TRUE
    /\ Powered' = TRUE
    /\ DevicePowerState' = "D0"
    /\ mpc' = "idle"
    /\ UNCHANGED <<dev, Removed, held, PendingIrp, req, dpc, buffer, device, bugcheck>>

StopDevice ==
    /\ mpc = "idle"
    /\ mpc' = "stop_cancel"
    /\ UNCHANGED <<ext, PendingIrp, req, dpc, buffer, device, bugcheck>>

RemoveDevice ==
    /\ mpc = "idle"
    /\ Removed' = TRUE
    /\ mpc' = "stop_cancel"
    /\ UNCHANGED <<dev, Started, Powered, DevicePowerState, held, PendingIrp, req, dpc, buffer,
                   device, bugcheck>>

(* SET_POWER.  D1, D2 and D3 take the same branch; a system state is mapped *)
(* to D0 or D3.  The device need not be started.                            *)
SetPowerD0 ==
    /\ mpc = "idle"
    /\ Powered' = TRUE
    /\ DevicePowerState' = "D0"
    /\ UNCHANGED <<dev, Removed, Started, held, PendingIrp, mpc, req, dpc, buffer, device, bugcheck>>

SetPowerDown ==
    /\ mpc = "idle"
    /\ mpc' = "power_cancel"
    /\ UNCHANGED <<ext, PendingIrp, req, dpc, buffer, device, bugcheck>>

(* DmaPnpSetDevicePower and DmaPnpStopHardware: first cancel, then the flag. *)
QuiesceCancel ==
    /\ mpc \in {"power_cancel", "stop_cancel"}
    /\ CancelPending
    /\ mpc' = IF mpc = "power_cancel" THEN "power_off" ELSE "stop_off"
    /\ UNCHANGED <<ext, pc, kind, result, dpc, buffer, device, bugcheck>>

PowerOff ==
    /\ mpc \in {"power_off", "stop_off"}
    /\ Powered' = FALSE
    /\ DevicePowerState' = "D3"
    /\ mpc' = IF mpc = "power_off" THEN "idle" ELSE "disconnect"
    /\ UNCHANGED <<dev, Removed, Started, held, PendingIrp, req, dpc, buffer, device, bugcheck>>

(* The rest of DmaPnpStopHardware gives the resources back, and so do the   *)
(* same routines where START_DEVICE failed.  Between any two of them the    *)
(* ISR, the DPC and the requests run.                                       *)
Release(loc, gives, next) ==
    /\ mpc = loc
    /\ held' = held \ gives
    /\ mpc' = next
    /\ UNCHANGED <<dev, Removed, Started, Powered, DevicePowerState, PendingIrp, req, dpc, buffer,
                   device, bugcheck>>

DisconnectInterrupt ==
    \/ Release("disconnect", {"interrupt"}, "free")
    \/ Release("undo_disconnect", {"interrupt"}, "undo_unmap")

(* Mutant: puts the adapter back with the common buffer still allocated. *)
FreeCommonBufferLate ==
    \/ Release("free", {"adapter"}, "put")
    \/ Release("undo_free", {"adapter"}, "undo_put")

(* DmaPnpFreeDmaResources: first the buffer, if there is one, ... *)
FreeCommonBuffer ==
    \/ Release("free", {"buffer"}, "put")
    \/ Release("undo_free", {"buffer"}, "undo_put")

(* ... and then the adapter. *)
PutDmaAdapter ==
    \/ Release("put", {"adapter"}, "unmap")
    \/ Release("undo_put", {"adapter"}, "undo_disconnect")

UnmapHardware ==
    \/ Release("unmap", {"mmio"}, "stopped")
    \/ Release("undo_unmap", {"mmio"}, "idle")

HardwareStopped ==
    /\ mpc = "stopped"
    /\ Started' = FALSE
    /\ mpc' = IF Removed THEN "delete" ELSE "idle"
    /\ UNCHANGED <<dev, Removed, Powered, DevicePowerState, held, PendingIrp, req, dpc, buffer,
                   device, bugcheck>>

(* The end of DmaPnpHandleRemoveDevice: no DPC is flushed, nobody waits. *)
DeleteDevice ==
    /\ mpc = "delete"
    /\ dev' = "deleted"
    /\ mpc' = "gone"
    /\ UNCHANGED <<Removed, Started, Powered, DevicePowerState, held, PendingIrp, req, dpc, buffer,
                   device, bugcheck>>

(* What the managers send, and what the driver then does of itself. *)
ManagerRequest ==
    AddDevice \/ RestartDevice \/ StartDevice \/ StopDevice \/ RemoveDevice \/ SetPowerD0
    \/ SetPowerDown

ManagerStep ==
    \/ MapHardware \/ ReadId \/ ConnectInterrupt \/ AcquireDmaAdapter \/ AllocateCommonBuffer
    \/ HardwareStarted \/ QuiesceCancel \/ PowerOff \/ DisconnectInterrupt \/ FreeCommonBuffer
    \/ PutDmaAdapter \/ UnmapHardware \/ HardwareStopped \/ DeleteDevice

-----------------------------------------------------------------------------
(* An access to unmapped registers, to a freed common buffer or to the      *)
(* extension of a deleted device: nothing runs after it.                    *)
WildAccess ==
    /\ \/ \E i \in Irps :
            \/ pc[i] \in {"register", "ack", "transfer", "command"} /\ "mmio" \notin held
            \/ pc[i] = "fill" /\ "buffer" \notin held
            \/ pc[i] \in {"cancel", "prepare", "check", "store"} /\ dev = "deleted"
       \/ dpcIrp # NoIrp /\ "mmio" \notin held
       \/ dpcQueued /\ dev = "deleted"
    /\ bugcheck' = TRUE
    /\ UNCHANGED <<ext, PendingIrp, mpc, req, dpc, buffer, device>>

(* The system may stop only here. *)
Finished ==
    /\ \/ bugcheck
       \/ /\ mpc = "gone"
          /\ \A i \in Irps : pc[i] \in {"idle", "done"}
          /\ ~dpcQueued /\ dpcIrp = NoIrp /\ command = NoIrp
    /\ UNCHANGED vars

Next ==
    \/ /\ ~bugcheck
       /\ \/ \E i \in Irps : Dispatch(i) \/ Request(i)
          \/ DeviceFinishes \/ InjectInterrupt \/ InterruptService \/ DpcTake \/ DpcFinish
          \/ ManagerRequest \/ ManagerStep \/ WildAccess
    \/ Finished

Spec == Init /\ [][Next]_vars

(* Dispatch routines, the ISR and the DPC run to their end, a transfer      *)
(* finishes and a started PnP or power handler is not abandoned.  Nobody    *)
(* has to send a request, an interrupt or a PnP or power IRP.               *)
FairSpec ==
    /\ Spec
    /\ \A i \in Irps : WF_vars(~bugcheck /\ Request(i))
    /\ WF_vars(~bugcheck /\ DeviceFinishes)
    /\ WF_vars(~bugcheck /\ InterruptService)
    /\ WF_vars(~bugcheck /\ (DpcTake \/ DpcFinish))
    /\ WF_vars(~bugcheck /\ ManagerStep)

-----------------------------------------------------------------------------
FlagsOK ==
    /\ Removed \in BOOLEAN /\ Started \in BOOLEAN /\ Powered \in BOOLEAN
    /\ dpcQueued \in BOOLEAN
    /\ done \in BOOLEAN /\ error \in BOOLEAN
    /\ bugcheck \in BOOLEAN

(* Every variable keeps to its values; none of them has one for a packet    *)
(* that was completed twice, by any two of the DPC, CANCEL_PENDING, a       *)
(* power-down and STOP or REMOVE.                                           *)
TypeOK ==
    /\ FlagsOK
    /\ dev \in {"none", "live", "deleted"}
    /\ DevicePowerState \in {"D0", "D3"}
    /\ held \subseteq Resources
    /\ mpc \in {"absent", "idle", "map", "identify", "connect", "adapter", "allocate", "started",
                "undo_free", "undo_put", "undo_disconnect", "undo_unmap", "stop_cancel",
                "stop_off", "power_cancel", "power_off", "disconnect", "free", "put", "unmap",
                "stopped", "delete", "gone"}
    /\ pc \in [Irps -> {"idle", "register", "ack", "transfer", "cancel", "cancelled", "prepare",
                        "fill", "check", "store", "command", "done"}]
    /\ kind \in [Irps -> Kinds]
    /\ irp \in [Irps -> {"new", "dispatched", "pending", "completed"}]
    /\ result \in [Irps -> {"none", "own", "foreign"}]
    /\ {PendingIrp, dpcIrp, buffer, command, regResult} \subseteq MaybeIrp

(* The slot is used by the discipline of WaitSlot: a packet is stored only  *)
(* while the slot is empty, and completed only by its dispatch routine      *)
(* before it is pending, by the one who took it out of the slot after, and  *)
(* never twice, whatever the DPC, CANCEL_PENDING, a power-down, STOP and    *)
(* REMOVE do at the same time.                                              *)
Slot == INSTANCE WaitSlot WITH stage <- irp, slot <- PendingIrp, hand <- dpcIrp
WaitSlotSpec == Slot!Spec

(* Between PnP requests the device is started with all of its resources or  *)
(* stopped with none: every failure of START_DEVICE undoes what it did.     *)
(* And the readiness gate tells the truth at every moment, also half-way    *)
(* through START, STOP and REMOVE: while it is open, nothing is missing.    *)
ResourcesAllOrNothing ==
    /\ mpc \in {"idle", "gone"} => held = IF Started THEN Resources ELSE {}
    /\ Ready => held = Resources

(* An interrupt is connected only over mapped registers and a common buffer *)
(* exists only with the adapter that frees it, also half-way through STOP,  *)
(* REMOVE and the undoing of a START_DEVICE that failed at any point.       *)
ResourcesNested ==
    /\ "interrupt" \in held => "mmio" \in held
    /\ "buffer" \in held => "adapter" \in held

(* A client is about to acknowledge an interrupt that the ISR has not.      *)
AckStealsInterrupt == done /\ \E j \in Irps : pc[j] = "ack"

(* What will make the DPC answer a pending roundtrip: its command, one that *)
(* the device executes, the interrupt of one, or the DPC in the queue.      *)
AnswerUnderWay(i) == pc[i] = "command" \/ command # NoIrp \/ done \/ dpcQueued \/ dpcIrp = i

(* A stored roundtrip, whose answer is under way until somebody takes it, is*)
(* answered as long as the device stays ready, whatever cancelled requests, *)
(* late commands, commands of the clients' own and coalesced interrupts do  *)
(* around it.  The one exception is a client's ACK that overtakes the ISR.  *)
PendingAnswered ==
    \A i \in Irps :
        (irp[i] = "pending" /\ kind[i] = "roundtrip" /\ AnswerUnderWay(i))
            ~> (irp[i] = "completed" \/ ~Ready \/ AckStealsInterrupt)

(* README.md of the driver, "D3 behaviour": a power-down cancels the        *)
(* pending command, so a device at rest in D3 has nothing pending.          *)
NothingPendingInD3 ==
    mpc = "idle" /\ Started /\ ~Powered => PendingIrp = NoIrp

(* README.md of the driver, "IOCTLs", Flow: the DPC reports the result of   *)
(* the transfer of the pattern the request itself filled the buffer with,   *)
(* as long as no client uses the registers itself.                          *)
RoundtripReportsOwnTransfer ==
    (\A i \in Irps : kind[i] # "register") => \A i \in Irps : result[i] # "foreign"
=============================================================================
