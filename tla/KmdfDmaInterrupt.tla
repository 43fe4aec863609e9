-------------------------- MODULE KmdfDmaInterrupt --------------------------
(***************************************************************************)
(* kmdf_dma_interrupt_test_driver: a KMDF driver that keeps one request    *)
(* pending until a DMA interrupt, a timer or a work item completes it.     *)
(*                                                                         *)
(* The slot is two plain words of the device context, PendingRequest and   *)
(* PendingKind, that the queue's dispatch thread, the DPC, the timer, the  *)
(* work item and the PnP/power thread test, take and clear with no lock:   *)
(* each of these is a step of its own (on both words, which are accessed   *)
(* one right after the other).  What keeps these threads apart is the      *)
(* framework: the queue is sequential (a request is presented only once    *)
(* the one before it is completed) and power-managed (requests are         *)
(* presented in D0 only, and D0Exit is called once none is in the driver). *)
(* The framework's part is modelled from its documented contract.          *)
(*                                                                         *)
(* Abstracted: the counters, register offsets and values, buffer lengths,  *)
(* the contents of the common buffer, the device's ERROR bit (the DPC then *)
(* completes with another status).                                         *)
(***************************************************************************)
EXTENDS Naturals

CONSTANTS
    Requests,   \* the requests sent to the device
    NoRequest,  \* a null WDFREQUEST
    RawAccess   \* TRUE: clients write COMMAND and ACK themselves, through WRITE_REG32

Callbacks == {"dpc", "timer", "workitem"}
Threads == Requests \cup Callbacks \cup {"manager"}
MaybeRequest == Requests \cup {NoRequest}
Kinds == {"local", "register", "cancel", "roundtrip", "timer", "workitem"}
Resources == {"mmio", "enabler", "buffer"}

ASSUME RequestsAssumption ==
    /\ NoRequest \notin Requests
    /\ Requests \cap (Callbacks \cup {"manager"}) = {}
ASSUME RawAccessAssumption == RawAccess \in BOOLEAN

VARIABLES
    held,                           \* which of Resources the driver holds
    Prepared, Powered,              \* of the device context
    PendingRequest, PendingKind,    \* of the device context
    pc,                             \* where each thread is
    taken,                          \* its local variable "request"
    kind,                           \* which IOCTL each request is
    irp,                            \* what became of each request
    by,                             \* the thread that completed it
    enabled,                        \* the interrupt is enabled
    queued,                         \* which of Callbacks the framework is to call
    command, done                   \* the device executes a command; its STATUS register

slot == <<PendingRequest, PendingKind>>
hardware == <<held, Prepared, Powered, enabled>>
device == <<command, done>>
req == <<taken, kind, irp, by>>
vars == <<hardware, slot, pc, req, queued, device>>

Init ==
    /\ held = {}
    /\ Prepared = FALSE /\ Powered = FALSE
    /\ PendingRequest = NoRequest /\ PendingKind = "none"
    /\ pc = [t \in Threads |-> IF t = "manager" THEN "absent" ELSE "idle"]
    /\ taken = [t \in Threads |-> NoRequest]
    /\ kind = [r \in Requests |-> "local"]
    /\ irp = [r \in Requests |-> "new"]
    /\ by = [r \in Requests |-> "none"]
    /\ enabled = FALSE
    /\ queued = {}
    /\ command = FALSE /\ done = FALSE

-----------------------------------------------------------------------------
At(t, loc) == pc[t] = loc
Goto(t, loc) == pc' = [pc EXCEPT ![t] = loc]

(* WdfRequestComplete by thread t; a second completion is recorded. *)
Complete(r, t) ==
    /\ irp' = [irp EXCEPT ![r] = IF @ = "completed" THEN "completed_twice" ELSE "completed"]
    /\ by' = [by EXCEPT ![r] = t]

Answer(r) == Complete(r, r) /\ Goto(r, "done") /\ UNCHANGED <<taken, kind>>

Mapped == "mmio" \in held

-----------------------------------------------------------------------------
(* KmdfDmaCompletePendingRequest and the test of its five callers.  After   *)
(* it, a callback returns, CANCEL_PENDING is answered, and the PnP/power    *)
(* thread goes on with D0Exit or, when it is not powered, ReleaseHardware.  *)

Return(t) ==
    CASE t \in Callbacks  -> "idle"
      [] t \in Requests   -> "answer"
      [] t = "manager"    -> IF Powered THEN "exit" ELSE "release"

(* The timer and the work item look at PendingKind as well; the DPC reads   *)
(* the STATUS and RESULT registers first.                                   *)
TestPending(t) ==
    /\ At(t, "test")
    /\ Goto(t, IF PendingRequest # NoRequest /\ (t \in {"timer", "workitem"} => PendingKind = t)
               THEN IF t = "dpc" THEN "registers" ELSE "take"
               ELSE Return(t))
    /\ UNCHANGED <<hardware, slot, req, queued, device>>

ReadRegisters(t) ==
    /\ At(t, "registers")
    /\ Goto(t, "take")
    /\ UNCHANGED <<hardware, slot, req, queued, device>>

TakePending(t) ==
    /\ At(t, "take")
    /\ taken' = [taken EXCEPT ![t] = PendingRequest]
    /\ Goto(t, "clear")
    /\ UNCHANGED <<hardware, slot, kind, irp, by, queued, device>>

(* Mutant: the slot keeps the request that is about to be completed. *)
ClearPendingForgets(t) ==
    /\ At(t, "clear")
    /\ Goto(t, IF taken[t] = NoRequest THEN Return(t) ELSE "complete")
    /\ UNCHANGED <<hardware, slot, req, queued, device>>

ClearPending(t) ==
    /\ At(t, "clear")
    /\ PendingRequest' = NoRequest /\ PendingKind' = "none"
    /\ Goto(t, IF taken[t] = NoRequest THEN Return(t) ELSE "complete")
    /\ UNCHANGED <<hardware, req, queued, device>>

CompletePending(t) ==
    /\ At(t, "complete")
    /\ Complete(taken[t], t)
    /\ taken' = [taken EXCEPT ![t] = NoRequest]
    /\ Goto(t, Return(t))
    /\ UNCHANGED <<hardware, slot, kind, queued, device>>

CompletePendingRequest(t) ==
    TestPending(t) \/ ReadRegisters(t) \/ TakePending(t) \/ ClearPending(t) \/ CompletePending(t)

-----------------------------------------------------------------------------
(* The queue presents a request: KmdfDmaEvtIoDeviceControl.  "local" stands *)
(* for PING, GET_INFO, everything unsupported and everything refused for    *)
(* its parameters.                                                          *)

InDriver(r) == irp[r] \in {"dispatched", "pending"}

Ready == Prepared /\ Powered /\ Resources \subseteq held

FirstLocation(k) ==
    CASE k = "register"                          -> "register"
      [] k = "cancel"                            -> "test"
      [] k \in {"roundtrip", "timer", "workitem"} -> "set"

Refused(k) == k = "local" \/ (k = "register" /\ ~Mapped) \/ (k = "roundtrip" /\ ~Ready)

Present(r) ==
    /\ At(r, "idle")
    /\ \E k \in Kinds :
        IF Refused(k)
        THEN Answer(r)
        ELSE /\ kind' = [kind EXCEPT ![r] = k]
             /\ irp' = [irp EXCEPT ![r] = "dispatched"]
             /\ Goto(r, FirstLocation(k))
             /\ UNCHANGED <<taken, by>>
    /\ UNCHANGED <<hardware, slot, queued, device>>

(* Mutant: the queue is created with PowerManaged = WdfFalse. *)
EvtIoDeviceControlAnyPower(r) ==
    /\ pc["manager"] # "absent"
    /\ \A s \in Requests : ~InDriver(s)
    /\ Present(r)

EvtIoDeviceControl(r) ==
    /\ pc["manager"] = "working"
    /\ \A s \in Requests : ~InDriver(s)
    /\ Present(r)

(* READ_REG32 and WRITE_REG32; the latter reaches COMMAND and ACK too. *)
AccessRegister(r) ==
    /\ At(r, "register")
    /\ \/ UNCHANGED device
       \/ RawAccess /\ command' = TRUE /\ UNCHANGED done
       \/ RawAccess /\ done' = FALSE /\ UNCHANGED command
    /\ Answer(r)
    /\ UNCHANGED <<hardware, slot, queued>>

(* KmdfDmaSetPendingRequest *)
TestSlot(r) ==
    /\ At(r, "set")
    /\ IF PendingRequest # NoRequest
       THEN Answer(r)                              \* STATUS_DEVICE_BUSY
       ELSE Goto(r, "store") /\ UNCHANGED req
    /\ UNCHANGED <<hardware, slot, queued, device>>

(* Mutant: the callback is started, but the request is not in the slot. *)
StorePendingForgets(r) ==
    /\ At(r, "store")
    /\ irp' = [irp EXCEPT ![r] = "pending"]
    /\ Goto(r, "start")
    /\ UNCHANGED <<hardware, slot, taken, kind, by, queued, device>>

StorePending(r) ==
    /\ At(r, "store")
    /\ PendingRequest' = r /\ PendingKind' = kind[r]
    /\ irp' = [irp EXCEPT ![r] = "pending"]
    /\ Goto(r, "start")
    /\ UNCHANGED <<hardware, taken, kind, by, queued, device>>

(* The COMMAND register, WdfTimerStart or WdfWorkItemEnqueue. *)
StartRoundtrip(r) ==
    /\ At(r, "start")
    /\ kind[r] = "roundtrip"
    /\ command' = TRUE
    /\ Goto(r, "done")
    /\ UNCHANGED <<hardware, slot, req, queued, done>>

StartCallback(r) ==
    /\ At(r, "start")
    /\ kind[r] \in Callbacks
    /\ queued' = queued \cup {kind[r]}
    /\ Goto(r, "done")
    /\ UNCHANGED <<hardware, slot, req, device>>

(* CANCEL_PENDING itself is answered. *)
AnswerCancel(r) ==
    /\ At(r, "answer")
    /\ Answer(r)
    /\ UNCHANGED <<hardware, slot, queued, device>>

Request(r) ==
    \/ AccessRegister(r) \/ TestSlot(r) \/ StorePending(r) \/ StartRoundtrip(r)
    \/ StartCallback(r) \/ AnswerCancel(r) \/ CompletePendingRequest(r)

-----------------------------------------------------------------------------
(* The DMA device, the ISR and the start of a callback. *)

DeviceFinishes ==
    /\ command
    /\ command' = FALSE
    /\ done' = TRUE
    /\ UNCHANGED <<hardware, slot, pc, req, queued>>

(* Mutant: WdfInterruptQueueDpcForIsr is forgotten. *)
EvtInterruptIsrForgets ==
    /\ enabled /\ done
    /\ Prepared /\ Powered /\ Mapped
    /\ done' = FALSE
    /\ UNCHANGED <<hardware, slot, pc, req, queued, command>>

EvtInterruptIsr ==
    /\ enabled /\ done
    /\ Prepared /\ Powered /\ Mapped
    /\ done' = FALSE                                \* the ACK register
    /\ queued' = queued \cup {"dpc"}
    /\ UNCHANGED <<hardware, slot, pc, req, command>>

EvtCallback(c) ==
    /\ c \in queued
    /\ At(c, "idle")
    /\ queued' = queued \ {c}
    /\ Goto(c, "test")
    /\ UNCHANGED <<hardware, slot, req, device>>

Callback(c) == EvtCallback(c) \/ CompletePendingRequest(c)

-----------------------------------------------------------------------------
(* The PnP and power callbacks.  Nothing else of the driver runs in         *)
(* PrepareHardware: it is one step with the resources it got before it      *)
(* failed, or all of them.                                                  *)

DeviceAdd ==
    /\ At("manager", "absent")
    /\ Goto("manager", "off")
    /\ UNCHANGED <<hardware, slot, req, queued, device>>

(* "off" is a device with no hardware, "stopped" one with hardware in D3,   *)
(* "working" one in D0.  The framework calls ReleaseHardware when           *)
(* PrepareHardware fails.                                                   *)
PrepareHardware ==
    /\ At("manager", "off")
    /\ \/ /\ held' = Resources
          /\ Prepared' = TRUE
          /\ Goto("manager", "stopped")
       \/ /\ held' \in {{}, {"mmio"}, {"mmio", "enabler"}, Resources}
          /\ Goto("manager", "test")
          /\ UNCHANGED Prepared
    /\ UNCHANGED <<Powered, enabled, slot, req, queued, device>>

D0Entry ==
    /\ At("manager", "stopped")
    /\ Powered' = TRUE
    /\ enabled' = TRUE
    /\ Goto("manager", "working")
    /\ UNCHANGED <<held, Prepared, slot, req, queued, device>>

(* The queue stops presenting requests, and waits for the one it presented. *)
StopQueue ==
    /\ At("manager", "working")
    /\ Goto("manager", "draining")
    /\ UNCHANGED <<hardware, slot, req, queued, device>>

QueueStopped ==
    /\ At("manager", "draining")
    /\ \A r \in Requests : ~InDriver(r)
    /\ Goto("manager", "test")
    /\ UNCHANGED <<hardware, slot, req, queued, device>>

(* KmdfDmaEvtDeviceD0Exit after the test of the slot. *)
D0Exit ==
    /\ At("manager", "exit")
    /\ enabled' = FALSE
    /\ Powered' = FALSE
    /\ Goto("manager", "stopped")
    /\ UNCHANGED <<held, Prepared, slot, req, queued, device>>

ReleaseHardware ==
    /\ At("manager", "stopped")
    /\ Goto("manager", "test")
    /\ UNCHANGED <<hardware, slot, req, queued, device>>

(* Mutant: nothing is released by a device that is not prepared. *)
ReleaseResourcesIfPrepared ==
    /\ At("manager", "release")
    /\ \A c \in {"timer", "workitem"} : At(c, "idle")
    /\ "workitem" \notin queued
    /\ queued' = queued \ {"timer"}
    /\ held' = IF Prepared THEN {} ELSE held
    /\ Prepared' = FALSE
    /\ Goto("manager", "off")
    /\ UNCHANGED <<Powered, enabled, slot, req, device>>

(* After the test of the slot: stop the timer and wait for it, flush the    *)
(* work item, release whatever is held.                                     *)
ReleaseResources ==
    /\ At("manager", "release")
    /\ \A c \in {"timer", "workitem"} : At(c, "idle")
    /\ "workitem" \notin queued
    /\ queued' = queued \ {"timer"}
    /\ held' = {}
    /\ Prepared' = FALSE
    /\ Goto("manager", "off")
    /\ UNCHANGED <<Powered, enabled, slot, req, device>>

(* What the framework starts on its own, and what it then sees through.     *)
ManagerRequest == DeviceAdd \/ PrepareHardware \/ D0Entry \/ StopQueue \/ ReleaseHardware
ManagerStep == QueueStopped \/ CompletePendingRequest("manager") \/ D0Exit \/ ReleaseResources

-----------------------------------------------------------------------------
(* The system may rest when nobody is inside the driver. *)
AtRest ==
    /\ pc["manager"] \in {"absent", "off", "stopped", "working"}
    /\ \A t \in Threads \ {"manager"} : pc[t] \in {"idle", "done"}
    /\ queued = {} /\ ~command /\ ~(done /\ enabled)

Finished == AtRest /\ UNCHANGED vars

Next ==
    \/ \E r \in Requests : EvtIoDeviceControl(r) \/ Request(r)
    \/ \E c \in Callbacks : Callback(c)
    \/ DeviceFinishes \/ EvtInterruptIsr
    \/ ManagerRequest \/ ManagerStep
    \/ Finished

Spec == Init /\ [][Next]_vars

(* Callbacks that were started run to their end, the device finishes its    *)
(* commands.  Nobody has to send a request or to change the power state.    *)
FairSpec ==
    /\ Spec
    /\ \A r \in Requests : WF_vars(Request(r))
    /\ \A c \in Callbacks : WF_vars(Callback(c))
    /\ WF_vars(DeviceFinishes)
    /\ WF_vars(EvtInterruptIsr)
    /\ WF_vars(ManagerStep)

-----------------------------------------------------------------------------
SlotLocations == {"test", "registers", "take", "clear", "complete"}
CallbackLocations == {"idle"} \cup SlotLocations
RequestLocations ==
    {"idle", "register", "set", "store", "start", "answer", "done"} \cup SlotLocations
ManagerLocations ==
    {"absent", "off", "stopped", "working", "draining", "exit", "release"} \cup SlotLocations

FlagsOK ==
    /\ Prepared \in BOOLEAN /\ Powered \in BOOLEAN /\ enabled \in BOOLEAN
    /\ command \in BOOLEAN /\ done \in BOOLEAN

(* Every variable keeps to its values; none of them has one for a request   *)
(* completed twice, by any two of the five users of the slot.               *)
TypeOK ==
    /\ FlagsOK
    /\ held \subseteq Resources
    /\ PendingRequest \in MaybeRequest
    /\ PendingKind \in {"none", "roundtrip", "timer", "workitem"}
    /\ pc["manager"] \in ManagerLocations
    /\ \A c \in Callbacks : pc[c] \in CallbackLocations
    /\ \A r \in Requests : pc[r] \in RequestLocations
    /\ taken \in [Threads -> MaybeRequest]
    /\ kind \in [Requests -> Kinds]
    /\ irp \in [Requests -> {"new", "dispatched", "pending", "completed"}]
    /\ by \in [Requests -> Threads \cup {"none"}]
    /\ queued \subseteq Callbacks

(* The order "clear the slot, then complete" and the sequential queue make  *)
(* the slot free whenever a request is presented: STATUS_DEVICE_BUSY is     *)
(* never answered, and CANCEL_PENDING never finds anything to cancel.       *)
SlotFreeWhenPresented ==
    \A r \in Requests :
        pc[r] \in {"set", "store"} \cup SlotLocations => PendingRequest = NoRequest

(* Outside D0 the driver is quiet: nothing pending, no callback on its way, *)
(* the device idle.  D0Exit and ReleaseHardware wait for none of these      *)
(* except the timer and the work item.                                      *)
QuietOutsideD0 ==
    ~Powered =>
        /\ PendingRequest = NoRequest
        /\ queued = {} /\ \A c \in Callbacks : At(c, "idle")
        /\ ~command /\ ~done

(* The DPC and the dispatch routine never access registers that             *)
(* ReleaseHardware has unmapped, although nobody flushes the DPC.           *)
MappedWhenAccessed ==
    /\ At("dpc", "registers") => Mapped
    /\ \A r \in Requests :
        At(r, "register") \/ (At(r, "start") /\ kind[r] = "roundtrip") => Mapped

(* ReleaseHardware leaves nothing behind, also after a PrepareHardware that *)
(* failed at any of its acquisitions.                                       *)
ReleasedIsClean == pc["manager"] = "off" => held = {} /\ ~Prepared

(* A request that was presented is answered, by its own interrupt, timer or *)
(* work item.                                                               *)
RequestsAnswered == \A r \in Requests : (irp[r] = "dispatched") ~> (irp[r] = "completed")

(* A power-down gets past the pending request.                              *)
PowerDownCompletes == (pc["manager"] = "draining") ~> ~Powered

(* README.md of the driver, "Expected flow": EvtInterruptDpc answers        *)
(* COMMON_ROUNDTRIP; TIMER_TEST and WORKITEM_TEST have callbacks of their   *)
(* own.                                                                     *)
AnsweredByOwnCallback ==
    \A r \in Requests :
        /\ by[r] = "dpc" => kind[r] = "roundtrip"
        /\ by[r] \in {"timer", "workitem"} => kind[r] = by[r]
=============================================================================
