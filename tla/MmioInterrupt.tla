--------------------------- MODULE MmioInterrupt ---------------------------
(***************************************************************************)
(* mmio_interrupt_test_driver: a legacy driver that maps fixed registers   *)
(* and connects a fixed interrupt in DriverEntry, keeps one wait request   *)
(* until an interrupt comes, and lets its client disconnect and reconnect  *)
(* the interrupt.                                                          *)
(*                                                                         *)
(* Threads: one per request in the dispatch routine, and DriverThread,     *)
(* which runs DriverEntry and later MmioitUnload; MmioitConnectInterrupt   *)
(* and MmioitDisconnectInterrupt are called by both.  PendingIrpLock makes *)
(* an access to the slot one step; everything else is read and written     *)
(* with no lock.  The ISR is one step under the interrupt lock.  ISR and   *)
(* DPC run on the one processor of MMIOIT_AFFINITY.                        *)
(*                                                                         *)
(* Abstracted: InterruptCount, the registers other than STATUS and ACK and *)
(* what the clients write to them, buffer lengths, the symbolic link.      *)
(***************************************************************************)
EXTENDS Naturals

CONSTANTS
    Irps,           \* the requests sent to the device
    NoIrp,          \* a null PIRP
    DriverThread,   \* the thread of DriverEntry and MmioitUnload
    Hosts,          \* the kinds of host considered, as in AsyncTest
    SerialControl   \* TRUE: nobody overlaps DISCONNECT, RECONNECT and unloading

AllHosts == {"io_manager", "driver_host"}
Threads == Irps \cup {DriverThread}
MaybeIrp == Irps \cup {NoIrp}
Kinds == {"local", "register", "wait", "cancel", "disconnect", "reconnect"}

ASSUME ThreadsAssumption == NoIrp \notin Irps /\ DriverThread \notin Irps
ASSUME HostsAssumption == Hosts \subseteq AllHosts
ASSUME SerialControlAssumption == SerialControl \in BOOLEAN

VARIABLES
    host,                   \* the host of this behaviour, never changes
    dev,                    \* the device object: "none", "live" or "deleted"
    Unloading, Mapped,      \* of the device extension
    InterruptConnected, InterruptObject,    \* the flag; whether the pointer is not null
    vector,                 \* the HAL delivers the interrupt to this driver
    PendingInterruptIrp,    \* ext->PendingInterruptIrp
    pc,                     \* where each thread is
    irp,                    \* what became of each packet
    asserted,               \* STATUS register: interrupt pending
    dpcQueued, dpcIrp,      \* the DPC is in the queue; the packet it took from the slot
    bugcheck                \* freed memory, unmapped registers or a dead interrupt was used

int == <<InterruptConnected, InterruptObject, vector>>
ext == <<dev, Unloading, Mapped, int>>
dpc == <<dpcQueued, dpcIrp>>
vars == <<host, ext, PendingInterruptIrp, pc, irp, asserted, dpc, bugcheck>>

(* The locations inside MmioitConnectInterrupt or MmioitDisconnectInterrupt. *)
Controlling == {"test_on", "connect", "flag_on", "test_off", "disconnect", "flag_off"}
RequestLocations ==
    {"idle", "register", "ack", "check", "store", "cancel", "answer", "done"} \cup Controlling
DriverLocations ==
    {"entry", "map", "test_on", "connect", "flag_on", "link", "loaded", "mark", "sweep", "test_off",
     "disconnect", "flag_off", "unmap", "delete", "unloaded"}

Init ==
    /\ host \in Hosts
    /\ dev = "none"
    /\ Unloading = FALSE /\ Mapped = FALSE
    /\ InterruptConnected = FALSE /\ InterruptObject = FALSE /\ vector = FALSE
    /\ PendingInterruptIrp = NoIrp
    /\ pc = [t \in Threads |-> IF t = DriverThread THEN "entry" ELSE "idle"]
    /\ irp = [i \in Irps |-> "new"]
    /\ asserted = FALSE
    /\ dpcQueued = FALSE /\ dpcIrp = NoIrp
    /\ bugcheck = FALSE

-----------------------------------------------------------------------------
At(t, loc) == pc[t] = loc /\ dev = "live"
Goto(t, loc) == pc' = [pc EXCEPT ![t] = loc]

Complete(packets) ==
    irp' = [i \in Irps |-> IF i \notin packets THEN irp[i]
                           ELSE IF irp[i] = "completed" THEN "completed_twice"
                           ELSE "completed"]

Answer(i) == Complete({i}) /\ Goto(i, "done")

(* Mutant: the slot is not emptied. *)
CancelPendingKeeps == Complete({PendingInterruptIrp} \cap Irps) /\ UNCHANGED PendingInterruptIrp

(* Empty the slot under the lock and complete what was in it: the same code *)
(* in MmioitCancelPendingWait and in MmioitUnload.                          *)
CancelPending == Complete({PendingInterruptIrp} \cap Irps) /\ PendingInterruptIrp' = NoIrp

-----------------------------------------------------------------------------
(* MmioitConnectInterrupt and MmioitDisconnectInterrupt, where a thread     *)
(* goes after them, and after the former failed.                            *)

AfterConnect(t) == IF t = DriverThread THEN "link" ELSE "answer"
AfterFailure(t) == IF t = DriverThread THEN "unmap" ELSE "answer"
AfterDisconnect(t) == IF t = DriverThread THEN "unmap" ELSE "answer"

TestNotConnected(t) ==
    /\ At(t, "test_on")
    /\ Goto(t, IF InterruptConnected THEN AfterConnect(t) ELSE "connect")
    /\ UNCHANGED <<host, ext, PendingInterruptIrp, irp, asserted, dpc, bugcheck>>

(* IoConnectInterrupt: the vector is not shared, so a second one fails.     *)
ConnectInterrupt(t) ==
    /\ At(t, "connect")
    /\ \/ /\ ~vector
          /\ vector' = TRUE
          /\ InterruptObject' = TRUE
          /\ Goto(t, "flag_on")
       \/ Goto(t, AfterFailure(t)) /\ UNCHANGED <<vector, InterruptObject>>
    /\ UNCHANGED <<host, dev, Unloading, Mapped, InterruptConnected, PendingInterruptIrp, irp,
                   asserted, dpc, bugcheck>>

SetConnected(t) ==
    /\ At(t, "flag_on")
    /\ InterruptConnected' = TRUE
    /\ Goto(t, AfterConnect(t))
    /\ UNCHANGED <<host, dev, Unloading, Mapped, InterruptObject, vector, PendingInterruptIrp, irp,
                   asserted, dpc, bugcheck>>

(* Mutant: tests the pointer alone and with the sense reversed. *)
TestConnectedSkips(t) ==
    /\ At(t, "test_off")
    /\ Goto(t, IF ~InterruptObject THEN "disconnect" ELSE AfterDisconnect(t))
    /\ UNCHANGED <<host, ext, PendingInterruptIrp, irp, asserted, dpc, bugcheck>>

TestConnected(t) ==
    /\ At(t, "test_off")
    /\ Goto(t, IF InterruptConnected /\ InterruptObject THEN "disconnect" ELSE AfterDisconnect(t))
    /\ UNCHANGED <<host, ext, PendingInterruptIrp, irp, asserted, dpc, bugcheck>>

(* IoDisconnectInterrupt waits for a running ISR. *)
DisconnectInterrupt(t) ==
    /\ At(t, "disconnect")
    /\ vector /\ InterruptObject
    /\ vector' = FALSE
    /\ Goto(t, "flag_off")
    /\ UNCHANGED <<host, dev, Unloading, Mapped, InterruptConnected, InterruptObject,
                   PendingInterruptIrp, irp, asserted, dpc, bugcheck>>

(* Mutant: the flag is left set, so a reconnect does nothing. *)
ClearConnectedForgets(t) ==
    /\ At(t, "flag_off")
    /\ InterruptObject' = FALSE
    /\ Goto(t, AfterDisconnect(t))
    /\ UNCHANGED <<host, dev, Unloading, Mapped, InterruptConnected, vector, PendingInterruptIrp,
                   irp, asserted, dpc, bugcheck>>

ClearConnected(t) ==
    /\ At(t, "flag_off")
    /\ InterruptObject' = FALSE
    /\ InterruptConnected' = FALSE
    /\ Goto(t, AfterDisconnect(t))
    /\ UNCHANGED <<host, dev, Unloading, Mapped, vector, PendingInterruptIrp, irp, asserted, dpc,
                   bugcheck>>

Control(t) ==
    \/ TestNotConnected(t) \/ ConnectInterrupt(t) \/ SetConnected(t)
    \/ TestConnected(t) \/ DisconnectInterrupt(t) \/ ClearConnected(t)

-----------------------------------------------------------------------------
(* MmioitDeviceControl and what it calls.  "local" stands for CREATE, CLOSE,*)
(* GET_INTERRUPT_COUNT and everything that is refused for its parameters.   *)

FirstLocations(k) ==
    CASE k = "register"   -> {"register", "ack"}
      [] k = "wait"       -> {"check"}
      [] k = "cancel"     -> {"cancel"}
      [] k = "disconnect" -> {"test_off"}
      [] k = "reconnect"  -> {"test_on"}

(* A request can be sent; under SerialControl no two of them, nor one and   *)
(* MmioitUnload, are in Control at a time.                                  *)
Reachable ==
    /\ dev = "live"
    /\ pc[DriverThread] \notin {"map", "connect", "flag_on", "link"}
    /\ host = "io_manager" => pc[DriverThread] = "loaded"

ControlIsFree == pc[DriverThread] = "loaded" /\ \A i \in Irps : pc[i] \notin Controlling

Dispatch(i) ==
    /\ Reachable
    /\ pc[i] = "idle"
    /\ \E k \in Kinds :
        /\ SerialControl /\ k \in {"disconnect", "reconnect"} => ControlIsFree
        /\ IF k # "local" /\ Mapped
           THEN /\ irp' = [irp EXCEPT ![i] = "dispatched"]
                /\ \E loc \in FirstLocations(k) : Goto(i, loc)
           ELSE Answer(i)
    /\ UNCHANGED <<host, ext, PendingInterruptIrp, asserted, dpc, bugcheck>>

(* GET_ID, READ_REG32, WRITE_CONTROL, and WRITE_REG32 but for one register. *)
AccessRegister(i) ==
    /\ At(i, "register")
    /\ Mapped
    /\ Answer(i)
    /\ UNCHANGED <<host, ext, PendingInterruptIrp, asserted, dpc, bugcheck>>

(* WRITE_REG32 of 1 to ACK clears the status bit, seen by the ISR or not. *)
AcknowledgeInterrupt(i) ==
    /\ At(i, "ack")
    /\ Mapped
    /\ asserted' = FALSE
    /\ Answer(i)
    /\ UNCHANGED <<host, ext, PendingInterruptIrp, dpc, bugcheck>>

(* MmioitWaitForInterrupt: the flag, and then, under the lock, the slot. *)
CheckUnloading(i) ==
    /\ At(i, "check")
    /\ IF Unloading THEN Answer(i) ELSE Goto(i, "store") /\ UNCHANGED irp
    /\ UNCHANGED <<host, ext, PendingInterruptIrp, asserted, dpc, bugcheck>>

(* Mutant: an occupied slot is overwritten. *)
StorePendingOverwrites(i) ==
    /\ At(i, "store")
    /\ PendingInterruptIrp' = i
    /\ irp' = [irp EXCEPT ![i] = "pending"]
    /\ Goto(i, "done")
    /\ UNCHANGED <<host, ext, asserted, dpc, bugcheck>>

StorePending(i) ==
    /\ At(i, "store")
    /\ IF PendingInterruptIrp # NoIrp
       THEN Answer(i) /\ UNCHANGED PendingInterruptIrp          \* STATUS_DEVICE_BUSY
       ELSE /\ PendingInterruptIrp' = i
            /\ irp' = [irp EXCEPT ![i] = "pending"]
            /\ Goto(i, "done")
    /\ UNCHANGED <<host, ext, asserted, dpc, bugcheck>>

CancelWait(i) ==
    /\ At(i, "cancel")
    /\ CancelPending
    /\ Goto(i, "answer")
    /\ UNCHANGED <<host, ext, asserted, dpc, bugcheck>>

(* The request itself is completed, with nothing of the extension in use.   *)
AnswerRequest(i) ==
    /\ pc[i] = "answer"
    /\ Answer(i)
    /\ UNCHANGED <<host, ext, PendingInterruptIrp, asserted, dpc, bugcheck>>

Request(i) ==
    \/ AccessRegister(i) \/ AcknowledgeInterrupt(i) \/ CheckUnloading(i) \/ StorePending(i)
    \/ CancelWait(i) \/ AnswerRequest(i) \/ Control(i)

-----------------------------------------------------------------------------
(* The test harness, the ISR and the DPC. *)

InjectInterrupt ==
    /\ asserted' = TRUE
    /\ UNCHANGED <<host, ext, PendingInterruptIrp, pc, irp, dpc, bugcheck>>

(* Mutant: an interrupt is acknowledged whose DPC nobody queues. *)
InterruptServiceForgets ==
    /\ vector /\ dev = "live"
    /\ ~Unloading /\ Mapped
    /\ asserted
    /\ asserted' = FALSE
    /\ UNCHANGED <<host, ext, PendingInterruptIrp, pc, irp, dpc, bugcheck>>

(* MmioitInterruptService; an interrupt that it refuses stays asserted.     *)
InterruptService ==
    /\ vector /\ dev = "live"
    /\ ~Unloading /\ Mapped
    /\ asserted
    /\ asserted' = FALSE
    /\ dpcQueued' = TRUE
    /\ UNCHANGED <<host, ext, PendingInterruptIrp, pc, irp, dpcIrp, bugcheck>>

(* MmioitDpcRoutine: take the packet under the lock, then read the count    *)
(* and complete the packet.                                                 *)
DpcTake ==
    /\ dpcQueued
    /\ dpcIrp = NoIrp
    /\ dev = "live"
    /\ dpcQueued' = FALSE
    /\ dpcIrp' = PendingInterruptIrp
    /\ PendingInterruptIrp' = NoIrp
    /\ UNCHANGED <<host, ext, pc, irp, asserted, bugcheck>>

DpcFinish ==
    /\ dpcIrp # NoIrp
    /\ dev = "live"
    /\ Complete({dpcIrp})
    /\ dpcIrp' = NoIrp
    /\ UNCHANGED <<host, ext, PendingInterruptIrp, pc, asserted, dpcQueued, bugcheck>>

-----------------------------------------------------------------------------
(* DriverEntry.  A failure undoes the earlier steps in reverse, which is    *)
(* the end of MmioitUnload.                                                 *)

CreateDevice ==
    /\ pc[DriverThread] = "entry"
    /\ \/ dev' = "live" /\ Goto(DriverThread, "map")
       \/ Goto(DriverThread, "unloaded") /\ UNCHANGED dev
    /\ UNCHANGED <<host, Unloading, Mapped, int, PendingInterruptIrp, irp, asserted, dpc, bugcheck>>

MapHardware ==
    /\ pc[DriverThread] = "map"
    /\ \/ Mapped' = TRUE /\ Goto(DriverThread, "test_on")
       \/ Goto(DriverThread, "delete") /\ UNCHANGED Mapped      \* or a wrong ID: unmapped again
    /\ UNCHANGED <<host, dev, Unloading, int, PendingInterruptIrp, irp, asserted, dpc, bugcheck>>

CreateLink ==
    /\ pc[DriverThread] = "link"
    /\ \/ Goto(DriverThread, "loaded")
       \/ Goto(DriverThread, "test_off")
    /\ UNCHANGED <<host, ext, PendingInterruptIrp, irp, asserted, dpc, bugcheck>>

(* MmioitUnload: the driver owns one device object, so its loop runs once.  *)
(* The I/O manager unloads only once every request has been completed.      *)
UnloadBegin ==
    /\ pc[DriverThread] = "loaded"
    /\ host = "io_manager" => \A i \in Irps : irp[i] \in {"new", "completed"}
    /\ SerialControl => ControlIsFree
    /\ Goto(DriverThread, "mark")
    /\ UNCHANGED <<host, ext, PendingInterruptIrp, irp, asserted, dpc, bugcheck>>

UnloadMark ==
    /\ pc[DriverThread] = "mark"
    /\ Unloading' = TRUE
    /\ Goto(DriverThread, "sweep")
    /\ UNCHANGED <<host, dev, Mapped, int, PendingInterruptIrp, irp, asserted, dpc, bugcheck>>

UnloadSweep ==
    /\ pc[DriverThread] = "sweep"
    /\ CancelPending
    /\ Goto(DriverThread, "test_off")
    /\ UNCHANGED <<host, ext, asserted, dpc, bugcheck>>

UnmapHardware ==
    /\ pc[DriverThread] = "unmap"
    /\ Mapped' = FALSE
    /\ Goto(DriverThread, "delete")
    /\ UNCHANGED <<host, dev, Unloading, int, PendingInterruptIrp, irp, asserted, dpc, bugcheck>>

(* IoDeleteDevice: a queued DPC is not flushed. *)
DeleteDevice ==
    /\ pc[DriverThread] = "delete"
    /\ dev' = "deleted"
    /\ Goto(DriverThread, "unloaded")
    /\ UNCHANGED <<host, Unloading, Mapped, int, PendingInterruptIrp, irp, asserted, dpc, bugcheck>>

DriverSteps ==
    \/ CreateDevice \/ MapHardware \/ CreateLink \/ UnloadMark \/ UnloadSweep
    \/ UnmapHardware \/ DeleteDevice \/ Control(DriverThread)

-----------------------------------------------------------------------------
(* Use of a deleted device, of unmapped registers or (by two DISCONNECTs    *)
(* that overlap) of an interrupt object that was disconnected already:      *)
(* nothing runs after it.                                                   *)
WildAccess ==
    /\ \/ \E i \in Irps :
            \/ pc[i] \in Controlling \cup {"check", "store", "cancel"} /\ dev = "deleted"
            \/ pc[i] \in {"register", "ack"} /\ ~Mapped
       \/ \E t \in Threads : At(t, "disconnect") /\ ~(vector /\ InterruptObject)
       \/ (dpcQueued \/ dpcIrp # NoIrp) /\ dev = "deleted"
    /\ bugcheck' = TRUE
    /\ UNCHANGED <<host, ext, PendingInterruptIrp, pc, irp, asserted, dpc>>

(* The system may rest when nobody is inside the driver. *)
AtRest ==
    /\ pc[DriverThread] \in {"loaded", "unloaded"}
    /\ \A i \in Irps : pc[i] \in {"idle", "done"}
    /\ ~dpcQueued /\ dpcIrp = NoIrp

Finished == (bugcheck \/ AtRest) /\ UNCHANGED vars

Next ==
    \/ /\ ~bugcheck
       /\ \/ \E i \in Irps : Dispatch(i) \/ Request(i)
          \/ InjectInterrupt \/ InterruptService \/ DpcTake \/ DpcFinish
          \/ UnloadBegin \/ DriverSteps \/ WildAccess
    \/ Finished

Spec == Init /\ [][Next]_vars

(* Dispatch routines, ISR and DPC run to their end, and so do DriverEntry   *)
(* and, once it was called, MmioitUnload.  Nobody has to send a request, an *)
(* interrupt or the unload.                                                 *)
FairSpec ==
    /\ Spec
    /\ \A i \in Irps : WF_vars(~bugcheck /\ Request(i))
    /\ WF_vars(~bugcheck /\ InterruptService)
    /\ WF_vars(~bugcheck /\ (DpcTake \/ DpcFinish))
    /\ WF_vars(~bugcheck /\ DriverSteps)

-----------------------------------------------------------------------------
FlagsOK ==
    /\ Unloading \in BOOLEAN /\ Mapped \in BOOLEAN
    /\ InterruptConnected \in BOOLEAN /\ InterruptObject \in BOOLEAN /\ vector \in BOOLEAN
    /\ asserted \in BOOLEAN /\ dpcQueued \in BOOLEAN
    /\ bugcheck \in BOOLEAN

(* Every variable keeps to its values; none of them has one for a packet    *)
(* completed twice, by any two of the DPC, CANCEL_WAIT and MmioitUnload.    *)
TypeOK ==
    /\ FlagsOK
    /\ host \in Hosts
    /\ dev \in {"none", "live", "deleted"}
    /\ pc[DriverThread] \in DriverLocations
    /\ pc \in [Threads -> RequestLocations \cup DriverLocations]
    /\ \A i \in Irps : pc[i] \in RequestLocations
    /\ irp \in [Irps -> {"new", "dispatched", "pending", "completed"}]
    /\ {PendingInterruptIrp, dpcIrp} \subseteq MaybeIrp

(* The slot is used by the discipline of WaitSlot: a wait is stored only    *)
(* while the slot is empty, and completed only by its dispatch routine      *)
(* before it is pending, by the one who took it out of the slot after, and  *)
(* never twice, whatever DPC, CANCEL_WAIT and MmioitUnload do at once.      *)
Slot == INSTANCE WaitSlot WITH stage <- irp, slot <- PendingInterruptIrp, hand <- dpcIrp
WaitSlotSpec == Slot!Spec

(* With nobody inside MmioitConnectInterrupt or MmioitDisconnectInterrupt   *)
(* the flag and the pointer tell the truth about the interrupt, through any *)
(* sequence of DISCONNECT and RECONNECT, failed ones included: a RECONNECT  *)
(* that answers success has left the interrupt connected.                   *)
ConnectionFlagsAgree ==
    (\A t \in Threads : pc[t] \notin Controlling) /\ ~bugcheck =>
        InterruptConnected = vector /\ InterruptObject = vector

(* No path, MmioitUnload or a failing DriverEntry, deletes the device while *)
(* its interrupt is connected or its registers are mapped nor, when it is   *)
(* the I/O manager that unloads the driver, while a request is in the       *)
(* dispatch routine, in the slot or in the hands of the DPC.                *)
DeletedIsClean ==
    dev = "deleted" =>
        /\ ~vector /\ ~Mapped
        /\ host = "io_manager" =>
             /\ \A i \in Irps : pc[i] \in {"idle", "done"}
             /\ PendingInterruptIrp = NoIrp /\ dpcIrp = NoIrp

(* A client is about to acknowledge an interrupt that the ISR has not.      *)
AckStealsInterrupt == asserted /\ \E j \in Irps : pc[j] = "ack"

(* An interrupt while a wait is pending completes the wait, unless it is    *)
(* disconnected, the driver unloaded or the system brought down first, or a *)
(* client's own ACK overtakes the ISR.                                      *)
WaitAnswered ==
    \A i \in Irps :
        (irp[i] = "pending" /\ asserted) ~>
            (irp[i] = "completed" \/ ~vector \/ Unloading \/ AckStealsInterrupt \/ bugcheck)
=============================================================================
