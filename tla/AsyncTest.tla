----------------------------- MODULE AsyncTest -----------------------------
(***************************************************************************)
(* async_test_driver: IRPs completed later by a DPC, a timer DPC or a work *)
(* item, and the rundown protocol that lets AsyncUnload wait for them.     *)
(*                                                                         *)
(* The device extension holds a counter (Outstanding), a flag (Unloading)  *)
(* and a notification event (ZeroOutstandingEvent); they are read and      *)
(* written with no lock, so every access to one of them is a step of its   *)
(* own.  Work on the private context and on the IRP is not shared and is   *)
(* one step up to the next such access.  A request is followed from its    *)
(* dispatch to the end of AsyncFinishContext by one program counter: the   *)
(* dispatch routine touches nothing after it queued the callback.          *)
(***************************************************************************)
EXTENDS Integers, FiniteSets

CONSTANTS
    Irps,       \* the I/O request packets sent to the device
    KindOf,     \* which of the three IOCTLs each of them is: its ASYNC_KIND
    Hosts       \* the kinds of host considered: who calls DriverUnload, and when

(* "io_manager" calls DriverUnload only once every handle is closed, hence  *)
(* every IRP completed; "driver_host" may call it while requests still run. *)
AllHosts == {"io_manager", "driver_host"}
Kinds == {"dpc", "timer", "workitem"}

ASSUME IrpsAssumption == IsFiniteSet(Irps)
ASSUME KindsAssumption == KindOf \in [Irps -> Kinds]
ASSUME HostsAssumption == Hosts \subseteq AllHosts

VARIABLES
    host,                   \* the host of this behaviour, never changes
    dev,                    \* the device object: "none", "live" or "deleted"
    link,                   \* the symbolic link exists
    upc,                    \* where DriverEntry / AsyncUnload is
    Outstanding,            \* ext->Outstanding
    Unloading,              \* ext->Unloading # 0
    ZeroOutstandingEvent,   \* ext->ZeroOutstandingEvent is signalled
    pc,                     \* where each request is
    irp,                    \* what became of each packet
    ctx,                    \* the ASYNC_CONTEXT of each request
    workItem,               \* its Ctx->WorkItem is allocated
    bugcheck                \* a deleted device extension was accessed

drv == <<host, dev, link, upc>>
ext == <<Outstanding, Unloading, ZeroOutstandingEvent>>
pool == <<ctx, workItem>>
req == <<pc, irp, ctx, workItem>>
vars == <<drv, ext, req, bugcheck>>

(* The locations whose next instruction accesses the device extension ... *)
Touching == {"check", "inc", "clear", "recheck", "dec", "set"}
(* ... those AsyncTryAcquireOutstanding has answered TRUE for ... *)
Admitted == {"queue", "queued"}
(* ... and those between an increment and the matching decrement. *)
Holding == {"clear", "recheck", "dec"} \cup Admitted
Locations == {"idle", "reply", "done"} \cup Touching \cup Holding

Init ==
    /\ host \in Hosts
    /\ dev = "none"
    /\ link = FALSE
    /\ upc = "entry"
    /\ Outstanding = 0
    /\ Unloading = FALSE
    /\ ZeroOutstandingEvent = FALSE
    /\ pc = [i \in Irps |-> "idle"]
    /\ irp = [i \in Irps |-> "new"]
    /\ ctx = [i \in Irps |-> "none"]
    /\ workItem = [i \in Irps |-> FALSE]
    /\ bugcheck = FALSE

-----------------------------------------------------------------------------
(* DriverEntry: create the device, initialise the extension with the event *)
(* signalled, create the link; undo the device when the link fails.        *)

DriverEntry ==
    /\ upc = "entry"
    /\ dev' = "live"
    /\ ZeroOutstandingEvent' = TRUE
    /\ link' = TRUE
    /\ upc' = "loaded"
    /\ UNCHANGED <<host, Outstanding, Unloading, req, bugcheck>>

DriverEntryFails ==
    /\ upc = "entry"
    /\ \/ UNCHANGED <<dev, ZeroOutstandingEvent>>                   \* IoCreateDevice failed
       \/ dev' = "deleted" /\ ZeroOutstandingEvent' = TRUE         \* IoCreateSymbolicLink did
    /\ upc' = "failed"
    /\ UNCHANGED <<host, link, Outstanding, Unloading, req, bugcheck>>

-----------------------------------------------------------------------------
(* The dispatch routines.  A second completion of a packet is recorded. *)

Completed(i) == IF irp[i] = "completed" THEN "completed_twice" ELSE "completed"

(* A request can still be sent to the device. *)
Reachable == dev = "live" /\ (host = "io_manager" => upc = "loaded")

(* CREATE, CLOSE, PING, GET_VERSION and everything unsupported are answered *)
(* by the dispatch routine itself and never look at the extension.          *)
SyncRequest(i) ==
    /\ Reachable
    /\ pc[i] = "idle"
    /\ irp' = [irp EXCEPT ![i] = Completed(i)]
    /\ pc' = [pc EXCEPT ![i] = "done"]
    /\ UNCHANGED <<drv, ext, pool, bugcheck>>

AsyncDeviceControl(i) ==
    /\ Reachable
    /\ pc[i] = "idle"
    /\ irp' = [irp EXCEPT ![i] = "dispatched"]
    /\ pc' = [pc EXCEPT ![i] = "check"]
    /\ UNCHANGED <<drv, ext, pool, bugcheck>>

-----------------------------------------------------------------------------
(* AsyncTryAcquireOutstanding *)

At(i, loc) == pc[i] = loc /\ (loc \in Touching => dev = "live")
Goto(i, loc) == pc' = [pc EXCEPT ![i] = loc]

(* Mutant: a refused request gives back a reference it never took. *)
CheckUnloadingReleases(i) ==
    /\ At(i, "check")
    /\ Goto(i, IF Unloading THEN "dec" ELSE "inc")
    /\ UNCHANGED <<drv, ext, irp, pool, bugcheck>>

(* Mutant: a refused request is never completed. *)
CheckUnloadingDrops(i) ==
    /\ At(i, "check")
    /\ Goto(i, IF Unloading THEN "done" ELSE "inc")
    /\ UNCHANGED <<drv, ext, irp, pool, bugcheck>>

CheckUnloading(i) ==
    /\ At(i, "check")
    /\ Goto(i, IF Unloading THEN "reply" ELSE "inc")     \* STATUS_DELETE_PENDING
    /\ UNCHANGED <<drv, ext, irp, pool, bugcheck>>

IncrementOutstanding(i) ==
    /\ At(i, "inc")
    /\ Outstanding' = Outstanding + 1
    /\ Goto(i, IF Outstanding' = 1 THEN "clear" ELSE "recheck")
    /\ UNCHANGED <<drv, Unloading, ZeroOutstandingEvent, irp, pool, bugcheck>>

ClearEvent(i) ==
    /\ At(i, "clear")
    /\ ZeroOutstandingEvent' = FALSE
    /\ Goto(i, "recheck")
    /\ UNCHANGED <<drv, Outstanding, Unloading, irp, pool, bugcheck>>

(* Mutant: the second look at Unloading is left out. *)
RecheckUnloadingSkipped(i) ==
    /\ At(i, "recheck")
    /\ Goto(i, "queue")
    /\ UNCHANGED <<drv, ext, irp, pool, bugcheck>>

RecheckUnloading(i) ==
    /\ At(i, "recheck")
    /\ Goto(i, IF Unloading THEN "dec" ELSE "queue")     \* STATUS_DELETE_PENDING
    /\ UNCHANGED <<drv, ext, irp, pool, bugcheck>>

-----------------------------------------------------------------------------
(* AsyncReleaseOutstanding, on a failure path before the packet is answered *)
(* or at the end of AsyncFinishContext after it was.                        *)

(* Mutant: the end of AsyncFinishContext completes the packet again. *)
AfterReleaseReplies(i) == "reply"

AfterRelease(i) == IF irp[i] = "completed" THEN "done" ELSE "reply"

(* Mutant: tests the value before the decrement, as a plain read would. *)
DecrementOutstandingStale(i) ==
    /\ At(i, "dec")
    /\ Outstanding' = Outstanding - 1
    /\ Goto(i, IF Outstanding = 0 THEN "set" ELSE AfterRelease(i))
    /\ UNCHANGED <<drv, Unloading, ZeroOutstandingEvent, irp, pool, bugcheck>>

DecrementOutstanding(i) ==
    /\ At(i, "dec")
    /\ Outstanding' = Outstanding - 1
    /\ Goto(i, IF Outstanding' = 0 THEN "set" ELSE AfterRelease(i))
    /\ UNCHANGED <<drv, Unloading, ZeroOutstandingEvent, irp, pool, bugcheck>>

SetEvent(i) ==
    /\ At(i, "set")
    /\ ZeroOutstandingEvent' = TRUE
    /\ Goto(i, AfterRelease(i))
    /\ UNCHANGED <<drv, Outstanding, Unloading, irp, pool, bugcheck>>

(* AsyncCompleteIrp of a request that failed after its dispatch. *)
CompleteFailed(i) ==
    /\ At(i, "reply")
    /\ irp' = [irp EXCEPT ![i] = Completed(i)]
    /\ Goto(i, "done")
    /\ UNCHANGED <<drv, ext, pool, bugcheck>>

-----------------------------------------------------------------------------
(* AsyncQueueDpc, AsyncQueueTimer, AsyncQueueWorkItem after the acquisition. *)

(* The context is allocated, the packet marked pending and the callback handed to the kernel. *)
HandOver(i) ==
    /\ ctx' = [ctx EXCEPT ![i] = "live"]
    /\ irp' = [irp EXCEPT ![i] = "pending"]
    /\ Goto(i, "queued")

(* Mutant: a failed allocation keeps the reference. *)
NoContextLeaks(i) == Goto(i, "reply") /\ UNCHANGED <<irp, pool>>

(* ExAllocatePoolWithTag returned NULL. *)
NoContext(i) == Goto(i, "dec") /\ UNCHANGED <<irp, pool>>

AsyncQueueDpc(i) ==
    /\ At(i, "queue")
    /\ KindOf[i] = "dpc"
    /\ \/ HandOver(i) /\ UNCHANGED workItem
       \/ NoContext(i)
       \/ /\ ctx' = [ctx EXCEPT ![i] = "freed"]        \* KeInsertQueueDpc returned FALSE
          /\ irp' = [irp EXCEPT ![i] = "pending"]
          /\ Goto(i, "dec")
          /\ UNCHANGED workItem
    /\ UNCHANGED <<drv, ext, bugcheck>>

AsyncQueueTimer(i) ==
    /\ At(i, "queue")
    /\ KindOf[i] = "timer"
    /\ \/ HandOver(i) /\ UNCHANGED workItem
       \/ NoContext(i)
    /\ UNCHANGED <<drv, ext, bugcheck>>

(* Mutant: a failed IoAllocateWorkItem leaves the context allocated. *)
AsyncQueueWorkItemLeaks(i) ==
    /\ At(i, "queue")
    /\ KindOf[i] = "workitem"
    /\ \/ HandOver(i) /\ workItem' = [workItem EXCEPT ![i] = TRUE]
       \/ NoContext(i)
       \/ ctx' = [ctx EXCEPT ![i] = "live"] /\ Goto(i, "dec") /\ UNCHANGED <<irp, workItem>>
    /\ UNCHANGED <<drv, ext, bugcheck>>

AsyncQueueWorkItem(i) ==
    /\ At(i, "queue")
    /\ KindOf[i] = "workitem"
    /\ \/ HandOver(i) /\ workItem' = [workItem EXCEPT ![i] = TRUE]
       \/ NoContext(i)
       \/ /\ ctx' = [ctx EXCEPT ![i] = "freed"]        \* IoAllocateWorkItem returned NULL
          /\ Goto(i, "dec")
          /\ UNCHANGED <<irp, workItem>>
    /\ UNCHANGED <<drv, ext, bugcheck>>

(* AsyncFinishContext, called by the DPC, the expired timer's DPC or the    *)
(* system worker: free the work item and the context, complete the packet,  *)
(* and only then give up the reference.                                     *)
AsyncFinishContext(i) ==
    /\ At(i, "queued")
    /\ workItem' = [workItem EXCEPT ![i] = FALSE]
    /\ ctx' = [ctx EXCEPT ![i] = "freed"]
    /\ irp' = [irp EXCEPT ![i] = Completed(i)]
    /\ Goto(i, "dec")
    /\ UNCHANGED <<drv, ext, bugcheck>>

-----------------------------------------------------------------------------
(* AsyncUnload: the driver owns one device object, so its loop runs once. *)

UnloadBegin ==
    /\ upc = "loaded"
    /\ host = "io_manager" => \A i \in Irps : irp[i] \in {"new", "completed"}
    /\ link' = FALSE
    /\ upc' = "mark"
    /\ UNCHANGED <<host, dev, ext, req, bugcheck>>

UnloadMark ==
    /\ upc = "mark"
    /\ Unloading' = TRUE
    /\ upc' = "test"
    /\ UNCHANGED <<host, dev, link, Outstanding, ZeroOutstandingEvent, req, bugcheck>>

UnloadTest ==
    /\ upc = "test"
    /\ upc' = IF Outstanding # 0 THEN "wait" ELSE "delete"
    /\ UNCHANGED <<host, dev, link, ext, req, bugcheck>>

UnloadWait ==
    /\ upc = "wait"
    /\ ZeroOutstandingEvent
    /\ upc' = "delete"
    /\ UNCHANGED <<host, dev, link, ext, req, bugcheck>>

UnloadDelete ==
    /\ upc = "delete"
    /\ dev' = "deleted"
    /\ upc' = "unloaded"
    /\ UNCHANGED <<host, link, ext, req, bugcheck>>

-----------------------------------------------------------------------------
(* An access to the extension of a deleted device: nothing runs after it. *)
AccessAfterDelete(i) ==
    /\ dev = "deleted"
    /\ pc[i] \in Touching
    /\ bugcheck' = TRUE
    /\ UNCHANGED <<drv, ext, req>>

(* The dispatch routine and the callback that carry request i. *)
Request(i) ==
    /\ ~bugcheck
    /\ \/ CheckUnloading(i) \/ IncrementOutstanding(i) \/ ClearEvent(i)
       \/ RecheckUnloading(i) \/ DecrementOutstanding(i) \/ SetEvent(i)
       \/ CompleteFailed(i) \/ AsyncQueueDpc(i) \/ AsyncQueueTimer(i)
       \/ AsyncQueueWorkItem(i) \/ AsyncFinishContext(i) \/ AccessAfterDelete(i)

Arrival(i) == ~bugcheck /\ (SyncRequest(i) \/ AsyncDeviceControl(i))

Unload == ~bugcheck /\ (UnloadMark \/ UnloadTest \/ UnloadWait \/ UnloadDelete)

(* The system may stop only here: after a crash, or with the driver gone    *)
(* and every request that was sent answered.                                *)
Finished ==
    /\ \/ bugcheck
       \/ upc \in {"failed", "unloaded"} /\ \A i \in Irps : pc[i] \in {"idle", "done"}
    /\ UNCHANGED vars

Next ==
    \/ DriverEntry
    \/ DriverEntryFails
    \/ \E i \in Irps : Arrival(i) \/ Request(i)
    \/ UnloadBegin /\ ~bugcheck
    \/ Unload
    \/ Finished

Spec == Init /\ [][Next]_vars

(* A dispatch routine runs to its end, a queued DPC, timer or work item is  *)
(* eventually run, and AsyncUnload is not abandoned once it has started.    *)
(* Nobody has to send a request or to unload the driver.                    *)
FairSpec == Spec /\ (\A i \in Irps : WF_vars(Request(i))) /\ WF_vars(Unload)

-----------------------------------------------------------------------------
(* Every variable keeps to its values.  There is none for a count below     *)
(* zero, nor for a packet that AsyncFinishContext and its dispatch routine  *)
(* both completed.                                                          *)
TypeOK ==
    /\ host \in Hosts
    /\ dev \in {"none", "live", "deleted"}
    /\ link \in BOOLEAN
    /\ upc \in {"entry", "loaded", "failed", "mark", "test", "wait", "delete", "unloaded"}
    /\ Outstanding \in Nat
    /\ Unloading \in BOOLEAN
    /\ ZeroOutstandingEvent \in BOOLEAN
    /\ pc \in [Irps -> Locations]
    /\ irp \in [Irps -> {"new", "dispatched", "pending", "completed"}]
    /\ ctx \in [Irps -> {"none", "live", "freed"}]
    /\ workItem \in [Irps -> BOOLEAN]
    /\ bugcheck \in BOOLEAN

Holders == {i \in Irps : pc[i] \in Holding}

(* The counter is exactly the number of requests between a successful       *)
(* InterlockedIncrement and the matching InterlockedDecrement, on every     *)
(* success, refusal and allocation-failure path of the three Queue routines. *)
OutstandingCountsHolders == Outstanding = Cardinality(Holders)

(* AsyncUnload can rely on the event: while it is not signalled, a request  *)
(* still holds a reference or a releaser is about to signal it.             *)
NoLostWakeup ==
    dev # "none" /\ ~ZeroOutstandingEvent =>
        Outstanding > 0 \/ \E i \in Irps : pc[i] = "set"

(* A context is allocated whenever the kernel or the dispatch routine may   *)
(* still use it, and a completed packet leaves neither a context nor a work *)
(* item behind, whichever of the paths completed it.                        *)
ContextMatchesRequest ==
    \A i \in Irps :
        /\ pc[i] = "queued" => ctx[i] = "live"
        /\ pc[i] = "queued" /\ KindOf[i] = "workitem" => workItem[i]
        /\ irp[i] = "completed" => ctx[i] # "live" /\ ~workItem[i]

(* Once Unloading is set, AsyncTryAcquireOutstanding admits nobody: a       *)
(* request that passed the first look is caught by the second.              *)
NoAdmissionAfterUnloading ==
    [][Unloading => \A i \in Irps : pc'[i] \in Admitted => pc[i] \in Admitted]_vars

(* Packets go through the abstract protocol: each is completed once, by the *)
(* dispatch routine or by the callback, and never touched afterwards.       *)
Protocol == INSTANCE IrpProtocol WITH stage <- irp
IrpProtocolSpec == Protocol!Spec

(* AsyncUnload always gets past its wait, although requests keep arriving.  *)
UnloadCompletes == (upc = "mark") ~> (upc = "unloaded")

(* A request that was sent is answered; only a host that unloads the driver *)
(* under running requests can lose one, to an access of a deleted device.   *)
RequestsAnswered ==
    \A i \in Irps :
        (irp[i] = "dispatched") ~>
            (irp[i] = "completed" \/ (bugcheck /\ host = "driver_host"))

(* README.md of the driver, "Driver Host milestone expectation": unloading  *)
(* waits for outstanding async operations before it deletes the device.     *)
UnloadWaitsForOutstanding == dev = "deleted" => Outstanding = 0
=============================================================================
