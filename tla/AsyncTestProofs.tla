-------------------------- MODULE AsyncTestProofs --------------------------
(***************************************************************************)
(* For any number of requests, of any kinds, under either host: the        *)
(* reference count of async_test_driver is exact, its event never loses a  *)
(* wake-up, a context is released before its packet is completed, and the  *)
(* driver implements the request protocol of IrpProtocol.                  *)
(***************************************************************************)
EXTENDS AsyncTest, FiniteSetTheorems, TLAPS

(* What the location of a request says of its packet and of its context.    *)
RequestInv(i) ==
    /\ pc[i] = "idle" => irp[i] = "new"
    /\ pc[i] \in {"check", "inc", "clear", "recheck", "queue"} => irp[i] = "dispatched"
    /\ pc[i] = "queued" => /\ irp[i] = "pending"
                           /\ ctx[i] = "live"
                           /\ KindOf[i] = "workitem" => workItem[i]
    /\ pc[i] \in {"dec", "set"} => irp[i] \in {"dispatched", "pending", "completed"}
    /\ pc[i] = "reply" => irp[i] \in {"dispatched", "pending"}
    /\ pc[i] = "done" => irp[i] = "completed"
    /\ pc[i] # "queued" => ctx[i] # "live" /\ ~workItem[i]

(* The device exists from DriverEntry to the last step of AsyncUnload.      *)
DriverInv == upc \in {"loaded", "mark", "test", "wait", "delete"} => dev = "live"

(* The inductive invariant: NoLostWakeup and TypeOK need the exact count,   *)
(* and the count needs to know which locations hold a reference.            *)
IInv ==
    /\ TypeOK
    /\ OutstandingCountsHolders
    /\ NoLostWakeup
    /\ DriverInv
    /\ \A i \in Irps : RequestInv(i)

-----------------------------------------------------------------------------
(* The requests that hold a reference are finitely many. *)
LEMMA HoldersFinite == IsFiniteSet(Holders) /\ Cardinality(Holders) \in Nat
<1>1. Holders \subseteq Irps
  BY DEF Holders
<1>2. IsFiniteSet(Holders)
  BY <1>1, IrpsAssumption, FS_Subset
<1>. QED
  BY <1>2, FS_CardinalityType

(* A request that holds a reference makes the count positive. *)
LEMMA HolderCounts ==
    ASSUME NEW i \in Irps, pc[i] \in Holding
    PROVE  Cardinality(Holders) > 0
<1>1. i \in Holders
  BY DEF Holders
<1>2. Cardinality(Holders) # 0
  BY <1>1, HoldersFinite, FS_EmptySet
<1>. QED
  BY <1>2, HoldersFinite

(* One request moves: the count of holders follows where it comes from and  *)
(* where it goes.                                                           *)
LEMMA HoldersMove ==
    ASSUME pc \in [Irps -> Locations], NEW i \in Irps, NEW loc \in Locations, Goto(i, loc)
    PROVE  /\ pc' \in [Irps -> Locations]
           /\ (pc[i] \in Holding <=> loc \in Holding) => Holders' = Holders
           /\ pc[i] \notin Holding /\ loc \in Holding =>
                Cardinality(Holders') = Cardinality(Holders) + 1
           /\ pc[i] \in Holding /\ loc \notin Holding =>
                Cardinality(Holders') = Cardinality(Holders) - 1
<1>1. pc' \in [Irps -> Locations] /\ \A j \in Irps : pc'[j] = IF j = i THEN loc ELSE pc[j]
  BY DEF Goto
<1>2. ASSUME pc[i] \in Holding <=> loc \in Holding
      PROVE  Holders' = Holders
  BY <1>1, <1>2 DEF Holders
<1>3. ASSUME pc[i] \notin Holding, loc \in Holding
      PROVE  Cardinality(Holders') = Cardinality(Holders) + 1
  <2>1. Holders' = Holders \cup {i} /\ i \notin Holders
    BY <1>1, <1>3 DEF Holders
  <2>. QED
    BY <2>1, HoldersFinite, FS_AddElement
<1>4. ASSUME pc[i] \in Holding, loc \notin Holding
      PROVE  Cardinality(Holders') = Cardinality(Holders) - 1
  <2>1. Holders' = Holders \ {i} /\ i \in Holders
    BY <1>1, <1>4 DEF Holders
  <2>. QED
    BY <2>1, HoldersFinite, FS_RemoveElement
<1>. QED
  BY <1>1, <1>2, <1>3, <1>4

-----------------------------------------------------------------------------
(* The invariant holds before DriverEntry. *)
LEMMA InitIInv == Init => IInv
<1>. SUFFICES ASSUME Init PROVE IInv
  OBVIOUS
<1>1. TypeOK
  BY KindsAssumption DEF Init, TypeOK, Locations
<1>2. OutstandingCountsHolders
  <2>1. Holders = {}
    BY DEF Init, Holders, Holding, Admitted
  <2>. QED
    BY <2>1, FS_EmptySet DEF Init, OutstandingCountsHolders
<1>3. NoLostWakeup /\ DriverInv /\ \A i \in Irps : RequestInv(i)
  BY DEF Init, NoLostWakeup, DriverInv, RequestInv
<1>. QED
  BY <1>1, <1>2, <1>3 DEF IInv
-----------------------------------------------------------------------------
(* Every step of a request but the increment and the decrement leaves the   *)
(* set of holders, and with it the count, alone.                            *)
LEMMA QuietStep ==
    ASSUME IInv, NEW i \in Irps, NEW loc \in Locations, Goto(i, loc),
           pc[i] \in Holding <=> loc \in Holding, Outstanding' = Outstanding
    PROVE  OutstandingCountsHolders' /\ pc' \in [Irps -> Locations] /\ Outstanding' \in Nat
<1>1. Holders' = Holders /\ pc' \in [Irps -> Locations]
  BY HoldersMove DEF IInv, TypeOK
<1>. QED
  BY <1>1 DEF IInv, TypeOK, OutstandingCountsHolders

(* The steps of AsyncTryAcquireOutstanding. *)
LEMMA AcquireStep ==
    ASSUME IInv, NEW i \in Irps,
           CheckUnloading(i) \/ IncrementOutstanding(i) \/ ClearEvent(i) \/ RecheckUnloading(i)
    PROVE  IInv'
<1>. USE DEF IInv, DriverInv, At, drv, ext, pool
<1>1. CASE CheckUnloading(i)
  <2>. PICK loc \in {"reply", "inc"} : Goto(i, loc)
    BY <1>1 DEF CheckUnloading
  <2>1. OutstandingCountsHolders' /\ TypeOK'
    BY <1>1, QuietStep DEF CheckUnloading, TypeOK, Locations, Touching, Holding, Admitted
  <2>2. NoLostWakeup' /\ DriverInv' /\ (\A j \in Irps : RequestInv(j))'
    BY <1>1 DEF CheckUnloading, TypeOK, Goto, NoLostWakeup, RequestInv
  <2>. QED
    BY <2>1, <2>2
<1>2. CASE IncrementOutstanding(i)
  <2>. PICK loc \in {"clear", "recheck"} : Goto(i, loc)
    BY <1>2 DEF IncrementOutstanding
  <2>1. OutstandingCountsHolders' /\ pc' \in [Irps -> Locations]
    BY <1>2, HoldersMove
       DEF IncrementOutstanding, TypeOK, OutstandingCountsHolders, Locations, Touching, Holding,
           Admitted
  <2>2. TypeOK'
    BY <1>2, <2>1 DEF IncrementOutstanding, TypeOK
  <2>3. NoLostWakeup' /\ DriverInv' /\ (\A j \in Irps : RequestInv(j))'
    BY <1>2 DEF IncrementOutstanding, TypeOK, Goto, NoLostWakeup, RequestInv
  <2>. QED
    BY <2>1, <2>2, <2>3
<1>3. CASE ClearEvent(i)
  <2>1. OutstandingCountsHolders' /\ TypeOK'
    BY <1>3, QuietStep DEF ClearEvent, TypeOK, Locations, Touching, Holding, Admitted
  <2>2. Outstanding > 0
    BY <1>3, HolderCounts DEF ClearEvent, Holding, OutstandingCountsHolders
  <2>3. NoLostWakeup' /\ DriverInv' /\ (\A j \in Irps : RequestInv(j))'
    BY <1>3, <2>2 DEF ClearEvent, TypeOK, Goto, NoLostWakeup, RequestInv
  <2>. QED
    BY <2>1, <2>3
<1>4. CASE RecheckUnloading(i)
  <2>. PICK loc \in {"dec", "queue"} : Goto(i, loc)
    BY <1>4 DEF RecheckUnloading
  <2>1. OutstandingCountsHolders' /\ TypeOK'
    BY <1>4, QuietStep DEF RecheckUnloading, TypeOK, Locations, Touching, Holding, Admitted
  <2>2. NoLostWakeup' /\ DriverInv' /\ (\A j \in Irps : RequestInv(j))'
    BY <1>4 DEF RecheckUnloading, TypeOK, Goto, NoLostWakeup, RequestInv
  <2>. QED
    BY <2>1, <2>2
<1>. QED
  BY <1>1, <1>2, <1>3, <1>4

(* The steps of AsyncReleaseOutstanding, and the answer of a failed request. *)
LEMMA ReleaseStep ==
    ASSUME IInv, NEW i \in Irps,
           DecrementOutstanding(i) \/ SetEvent(i) \/ CompleteFailed(i)
    PROVE  IInv'
<1>. USE DEF IInv, DriverInv, At, drv, ext, pool
<1>1. CASE DecrementOutstanding(i)
  <2>. PICK loc \in {"set", "done", "reply"} :
            Goto(i, loc) /\ loc = IF Outstanding' = 0 THEN "set" ELSE AfterRelease(i)
    BY <1>1 DEF DecrementOutstanding, AfterRelease
  <2>1. OutstandingCountsHolders' /\ pc' \in [Irps -> Locations]
    BY <1>1, HoldersMove
       DEF DecrementOutstanding, TypeOK, OutstandingCountsHolders, Locations, Touching, Holding,
           Admitted
  <2>2. Outstanding > 0
    BY <1>1, HolderCounts DEF DecrementOutstanding, Holding, OutstandingCountsHolders
  <2>3. TypeOK'
    BY <1>1, <2>1, <2>2 DEF DecrementOutstanding, TypeOK
  <2>4. NoLostWakeup' /\ DriverInv'
    BY <1>1, <2>2 DEF DecrementOutstanding, TypeOK, Goto, NoLostWakeup
  <2>5. (\A j \in Irps : RequestInv(j))'
    BY <1>1 DEF DecrementOutstanding, TypeOK, Goto, RequestInv, AfterRelease
  <2>. QED
    BY <2>1, <2>3, <2>4, <2>5
<1>2. CASE SetEvent(i)
  <2>. PICK loc \in {"done", "reply"} : Goto(i, loc) /\ loc = AfterRelease(i)
    BY <1>2 DEF SetEvent, AfterRelease
  <2>1. OutstandingCountsHolders' /\ TypeOK'
    BY <1>2, QuietStep DEF SetEvent, TypeOK, Locations, Touching, Holding, Admitted
  <2>2. NoLostWakeup' /\ DriverInv' /\ (\A j \in Irps : RequestInv(j))'
    BY <1>2 DEF SetEvent, TypeOK, Goto, NoLostWakeup, RequestInv, AfterRelease
  <2>. QED
    BY <2>1, <2>2
<1>3. CASE CompleteFailed(i)
  <2>1. irp[i] \in {"dispatched", "pending"}
    BY <1>3 DEF CompleteFailed, RequestInv
  <2>2. OutstandingCountsHolders' /\ TypeOK'
    BY <1>3, <2>1, QuietStep
       DEF CompleteFailed, Completed, TypeOK, Locations, Touching, Holding, Admitted
  <2>3. NoLostWakeup' /\ DriverInv' /\ (\A j \in Irps : RequestInv(j))'
    BY <1>3, <2>1 DEF CompleteFailed, Completed, TypeOK, Goto, NoLostWakeup, RequestInv
  <2>. QED
    BY <2>2, <2>3
<1>. QED
  BY <1>1, <1>2, <1>3

(* The three Queue routines and the callbacks they arm. *)
LEMMA CallbackStep ==
    ASSUME IInv, NEW i \in Irps,
           AsyncQueueDpc(i) \/ AsyncQueueTimer(i) \/ AsyncQueueWorkItem(i)
             \/ AsyncFinishContext(i)
    PROVE  IInv'
<1>. USE DEF IInv, DriverInv, At, drv, ext, pool
<1>1. CASE AsyncQueueDpc(i) \/ AsyncQueueTimer(i) \/ AsyncQueueWorkItem(i)
  <2>. USE DEF AsyncQueueDpc, AsyncQueueTimer, AsyncQueueWorkItem, HandOver, NoContext
  <2>. PICK loc \in {"queued", "dec"} : Goto(i, loc)
    BY <1>1
  <2>1. OutstandingCountsHolders' /\ pc' \in [Irps -> Locations] /\ Outstanding' \in Nat
    BY <1>1, QuietStep DEF TypeOK, Locations, Touching, Holding, Admitted
  <2>2. TypeOK'
    BY <1>1, <2>1 DEF TypeOK
  <2>3. NoLostWakeup' /\ DriverInv'
    BY <1>1 DEF TypeOK, Goto, NoLostWakeup
  <2>4. (\A j \in Irps : RequestInv(j))'
    BY <1>1, KindsAssumption DEF TypeOK, Goto, RequestInv, Kinds
  <2>. QED
    BY <2>1, <2>2, <2>3, <2>4
<1>2. CASE AsyncFinishContext(i)
  <2>1. OutstandingCountsHolders' /\ TypeOK'
    BY <1>2, QuietStep
       DEF AsyncFinishContext, Completed, TypeOK, Locations, Touching, Holding, Admitted,
           RequestInv
  <2>2. NoLostWakeup' /\ DriverInv' /\ (\A j \in Irps : RequestInv(j))'
    BY <1>2 DEF AsyncFinishContext, Completed, TypeOK, Goto, NoLostWakeup, RequestInv
  <2>. QED
    BY <2>1, <2>2
<1>. QED
  BY <1>1, <1>2

(* The arrival of a request at the dispatch routines. *)
LEMMA ArrivalStep ==
    ASSUME IInv, NEW i \in Irps, Arrival(i)
    PROVE  IInv'
<1>. USE DEF IInv, DriverInv, drv, ext, pool
<1>1. CASE SyncRequest(i)
  <2>1. OutstandingCountsHolders' /\ TypeOK'
    BY <1>1, QuietStep
       DEF SyncRequest, Goto, Completed, TypeOK, Locations, Touching, Holding, Admitted,
           RequestInv
  <2>2. NoLostWakeup' /\ DriverInv' /\ (\A j \in Irps : RequestInv(j))'
    BY <1>1 DEF SyncRequest, Completed, TypeOK, NoLostWakeup, RequestInv
  <2>. QED
    BY <2>1, <2>2
<1>2. CASE AsyncDeviceControl(i)
  <2>1. OutstandingCountsHolders' /\ TypeOK'
    BY <1>2, QuietStep
       DEF AsyncDeviceControl, Goto, TypeOK, Locations, Touching, Holding, Admitted
  <2>2. NoLostWakeup' /\ DriverInv' /\ (\A j \in Irps : RequestInv(j))'
    BY <1>2 DEF AsyncDeviceControl, TypeOK, NoLostWakeup, RequestInv
  <2>. QED
    BY <2>1, <2>2
<1>. QED
  BY <1>1, <1>2 DEF Arrival

(* Loading and unloading the driver, crashing and stopping leave every      *)
(* request where it is.                                                     *)
LEMMA DriverStep ==
    ASSUME IInv, UNCHANGED req, Outstanding' = Outstanding,
           \/ DriverEntry \/ DriverEntryFails \/ UnloadBegin \/ Unload
           \/ \E i \in Irps : AccessAfterDelete(i)
           \/ UNCHANGED vars
    PROVE  IInv'
<1>. USE DEF IInv, DriverInv, req, drv, ext
<1>1. Holders' = Holders
  BY DEF Holders
<1>2. OutstandingCountsHolders' /\ (\A j \in Irps : RequestInv(j))'
  BY <1>1 DEF OutstandingCountsHolders, RequestInv
<1>3. TypeOK'
  BY DEF TypeOK, DriverEntry, DriverEntryFails, UnloadBegin, Unload, UnloadMark, UnloadTest,
         UnloadWait, UnloadDelete, AccessAfterDelete, vars
<1>4. DriverInv'
  BY DEF DriverEntry, DriverEntryFails, UnloadBegin, Unload, UnloadMark, UnloadTest,
         UnloadWait, UnloadDelete, AccessAfterDelete, vars
<1>5. NoLostWakeup'
  <2>1. pc' = pc
    OBVIOUS
  <2>2. CASE DriverEntry \/ DriverEntryFails
    BY <2>1, <2>2 DEF NoLostWakeup, TypeOK, DriverEntry, DriverEntryFails
  <2>3. CASE UnloadBegin \/ Unload \/ (\E i \in Irps : AccessAfterDelete(i)) \/ UNCHANGED vars
    <3>1. ZeroOutstandingEvent' = ZeroOutstandingEvent /\ (dev' # "none" => dev # "none")
      BY <2>3 DEF UnloadBegin, Unload, UnloadMark, UnloadTest, UnloadWait, UnloadDelete,
                  AccessAfterDelete, vars, TypeOK
    <3>. QED
      BY <2>1, <3>1 DEF NoLostWakeup
  <2>. QED
    BY <2>2, <2>3
<1>. QED
  BY <1>2, <1>3, <1>4, <1>5

-----------------------------------------------------------------------------
(* Every step keeps it. *)
LEMMA NextIInv == IInv /\ [Next]_vars => IInv'
<1>. SUFFICES ASSUME IInv, [Next]_vars PROVE IInv'
  OBVIOUS
<1>1. ASSUME NEW i \in Irps, Arrival(i) PROVE IInv'
  BY <1>1, ArrivalStep
<1>2. ASSUME NEW i \in Irps, Request(i) PROVE IInv'
  <2>1. CASE AccessAfterDelete(i)
    BY <2>1, DriverStep DEF AccessAfterDelete, ext
  <2>. QED
    BY <1>2, <2>1, AcquireStep, ReleaseStep, CallbackStep DEF Request
<1>3. CASE DriverEntry \/ DriverEntryFails \/ UnloadBegin \/ Unload
  <2>1. UNCHANGED req /\ Outstanding' = Outstanding
    BY <1>3 DEF DriverEntry, DriverEntryFails, UnloadBegin, Unload, UnloadMark, UnloadTest,
                UnloadWait, UnloadDelete, ext
  <2>. QED
    BY <1>3, <2>1, DriverStep
<1>4. CASE UNCHANGED vars
  BY <1>4, DriverStep DEF vars, req, ext
<1>. QED
  BY <1>1, <1>2, <1>3, <1>4 DEF Next, Finished

(* The state of async_test_driver always satisfies the inductive invariant. *)
THEOREM Invariance == Spec => []IInv
  BY InitIInv, NextIInv, PTL DEF Spec

(* Every variable keeps its type; in particular the reference count never   *)
(* goes below zero, and no packet is completed a second time.               *)
THEOREM TypeCorrect == Spec => []TypeOK
<1>1. IInv => TypeOK
  BY DEF IInv
<1>. QED
  BY <1>1, Invariance, PTL

(* Outstanding counts exactly the requests between their increment and      *)
(* their decrement, for any number of them.                                 *)
THEOREM CountExact == Spec => []OutstandingCountsHolders
<1>1. IInv => OutstandingCountsHolders
  BY DEF IInv
<1>. QED
  BY <1>1, Invariance, PTL

(* While the event AsyncUnload waits for is not signalled, someone still    *)
(* has to signal it.                                                        *)
THEOREM WakeupNotLost == Spec => []NoLostWakeup
<1>1. IInv => NoLostWakeup
  BY DEF IInv
<1>. QED
  BY <1>1, Invariance, PTL

(* A context lives exactly while its callback is armed: it is released      *)
(* before the packet is completed, on every path.                           *)
THEOREM ContextReleased == Spec => []ContextMatchesRequest
<1>1. IInv => ContextMatchesRequest
  BY DEF IInv, RequestInv, ContextMatchesRequest
<1>. QED
  BY <1>1, Invariance, PTL

(* Once Unloading is set, no request is admitted any more.                  *)
THEOREM NoLateAdmission == Spec => NoAdmissionAfterUnloading
<1>1. IInv /\ [Next]_vars =>
        [Unloading => \A i \in Irps : pc'[i] \in Admitted => pc[i] \in Admitted]_vars
  <2>. SUFFICES ASSUME IInv, Next, Unloading, NEW i \in Irps, pc'[i] \in Admitted
                PROVE  pc[i] \in Admitted
    OBVIOUS
  <2>. USE DEF IInv, TypeOK, Admitted
  <2>1. CASE \E j \in Irps : Arrival(j)
    BY <2>1 DEF Arrival, SyncRequest, AsyncDeviceControl
  <2>2. ASSUME NEW j \in Irps, Request(j) PROVE pc[i] \in Admitted
    <3>1. CASE CheckUnloading(j) \/ IncrementOutstanding(j) \/ ClearEvent(j) \/ RecheckUnloading(j)
      BY <3>1 DEF CheckUnloading, IncrementOutstanding, ClearEvent, RecheckUnloading, Goto, At
    <3>2. CASE DecrementOutstanding(j) \/ SetEvent(j) \/ CompleteFailed(j) \/ AccessAfterDelete(j)
      BY <3>2 DEF DecrementOutstanding, SetEvent, CompleteFailed, AccessAfterDelete, Goto, At,
                  AfterRelease, req
    <3>3. CASE AsyncQueueDpc(j) \/ AsyncQueueTimer(j) \/ AsyncQueueWorkItem(j) \/ AsyncFinishContext(j)
      BY <3>3 DEF AsyncQueueDpc, AsyncQueueTimer, AsyncQueueWorkItem, AsyncFinishContext,
                  HandOver, NoContext, Goto, At
    <3>. QED
      BY <2>2, <3>1, <3>2, <3>3 DEF Request
  <2>3. CASE DriverEntry \/ DriverEntryFails \/ UnloadBegin \/ Unload \/ Finished
    BY <2>3 DEF DriverEntry, DriverEntryFails, UnloadBegin, Unload, UnloadMark, UnloadTest,
                UnloadWait, UnloadDelete, Finished, vars, req
  <2>. QED
    BY <2>1, <2>2, <2>3 DEF Next
<1>. QED
  BY <1>1, Invariance, PTL DEF Spec, NoAdmissionAfterUnloading

(* async_test_driver implements IrpProtocol: no packet is completed twice   *)
(* or touched after its completion, however callbacks, dispatch routines    *)
(* and AsyncUnload interleave.                                              *)
THEOREM ImplementsIrpProtocol == Spec => IrpProtocolSpec
<1>1. Init => Protocol!Init
  BY DEF Init, Protocol!Init
<1>2. IInv /\ [Next]_vars => [Protocol!Next]_irp
  <2>. SUFFICES ASSUME IInv, Next, irp' # irp PROVE Protocol!Next
    BY DEF vars, req
  <2>. USE DEF IInv, TypeOK, RequestInv, Protocol!Next, Protocol!Dispatch, Protocol!MarkPending,
               Protocol!Complete, Completed
  <2>1. ASSUME NEW i \in Irps, Arrival(i) PROVE Protocol!Next
    BY <2>1 DEF Arrival, SyncRequest, AsyncDeviceControl
  <2>2. ASSUME NEW i \in Irps, Request(i) PROVE Protocol!Next
    <3>1. CASE AsyncQueueDpc(i) \/ AsyncQueueTimer(i) \/ AsyncQueueWorkItem(i)
      BY <3>1 DEF AsyncQueueDpc, AsyncQueueTimer, AsyncQueueWorkItem, HandOver, NoContext, At
    <3>2. CASE AsyncFinishContext(i) \/ CompleteFailed(i)
      BY <3>2 DEF AsyncFinishContext, CompleteFailed, At
    <3>3. QED
      BY <2>2, <3>1, <3>2 DEF Request, CheckUnloading, IncrementOutstanding, ClearEvent,
              RecheckUnloading, DecrementOutstanding, SetEvent, AccessAfterDelete, req
  <2>3. QED
    BY <2>1, <2>2 DEF Next, DriverEntry, DriverEntryFails, UnloadBegin, Unload, UnloadMark,
            UnloadTest, UnloadWait, UnloadDelete, Finished, vars, req
<1>3. QED
  BY <1>1, <1>2, Invariance, PTL DEF Spec, IrpProtocolSpec, Protocol!Spec

-----------------------------------------------------------------------------
(* UnloadWaitsForOutstanding fails for two reasons.  A host may unload the  *)
(* driver over requests that are still in a dispatch routine; and a         *)
(* releaser may signal the event after the count has left 0 again.  Without *)
(* either ...                                                               *)
SignalInTime ==
    /\ host = "io_manager"
    /\ \A i \in Irps : pc[i] = "set" => Outstanding = 0

(* ... the event, but for the moment before a first holder clears it, says  *)
(* the truth; a host that unloads the driver has no request left but those  *)
(* that are completed and give up their reference; and AsyncUnload is past  *)
(* its wait only once they have.                                            *)
EventIsTrue == ZeroOutstandingEvent /\ (\A i \in Irps : pc[i] # "clear") => Outstanding = 0

UnloadInv ==
    /\ upc \notin {"entry", "failed", "loaded"} => \A i \in Irps : irp[i] \in {"new", "completed"}
    /\ upc \in {"entry", "failed", "delete", "unloaded"} => Outstanding = 0
    /\ dev = "none" => upc \in {"entry", "failed"}
    /\ upc \in {"entry", "failed"} => dev # "live"
    /\ upc \in {"entry", "failed"} => \A i \in Irps : pc[i] = "idle"
    /\ dev = "deleted" => upc \in {"failed", "unloaded"}

(* A request at the decrement holds a reference. *)
LEMMA HolderOutstanding ==
    ASSUME IInv, NEW i \in Irps, pc[i] \in Holding
    PROVE  Outstanding > 0
BY HolderCounts DEF IInv, OutstandingCountsHolders

(* A request in its dispatch routine: the driver is loaded and stays so. *)
LEMMA DispatchedMeansLoaded ==
    ASSUME UnloadInv, NEW i \in Irps, pc[i] # "idle", irp[i] \notin {"new", "completed"}
    PROVE  upc = "loaded"
BY DEF UnloadInv

(* A step of a request that increments nothing, signals nothing and is not  *)
(* about to clear the event.                                                *)
LEMMA SignalQuietStep ==
    ASSUME IInv, EventIsTrue, UnloadInv, NEW i \in Irps, NEW loc, Goto(i, loc),
           pc[i] \notin {"idle", "clear"}, loc # "clear", UNCHANGED <<drv, ext>>,
           \/ UNCHANGED irp
           \/ irp[i] # "completed" /\ irp' = [irp EXCEPT ![i] = "completed"]
           \/ upc = "loaded"
    PROVE  EventIsTrue' /\ UnloadInv'
<1>. USE DEF IInv, TypeOK, drv, ext
<1>1. pc'[i] = loc /\ \A j \in Irps : j # i => pc'[j] = pc[j]
  BY DEF Goto
<1>2. EventIsTrue'
  BY <1>1 DEF EventIsTrue
<1>3. UnloadInv'
  BY <1>1 DEF UnloadInv
<1>. QED
  BY <1>2, <1>3

(* The requests keep both. *)
LEMMA SignalRequestStep ==
    ASSUME IInv, EventIsTrue, UnloadInv, SignalInTime, NEW i \in Irps, Arrival(i) \/ Request(i)
    PROVE  EventIsTrue' /\ UnloadInv'
<1>. USE DEF IInv, TypeOK
<1>1. ASSUME NEW loc, Goto(i, loc)
      PROVE  pc'[i] = loc /\ \A j \in Irps : j # i => pc'[j] = pc[j]
  BY <1>1 DEF Goto
<1>2. CASE Arrival(i)
  <2>1. upc = "loaded" /\ pc[i] = "idle" /\ UNCHANGED <<drv, ext>>
    BY <1>2 DEF Arrival, SyncRequest, AsyncDeviceControl, Reachable, SignalInTime
  <2>2. pc'[i] # "clear" /\ \A j \in Irps : j # i => pc'[j] = pc[j]
    BY <1>2 DEF Arrival, SyncRequest, AsyncDeviceControl
  <2>3. EventIsTrue'
    BY <2>1, <2>2 DEF EventIsTrue, ext
  <2>. QED
    BY <2>1, <2>3 DEF UnloadInv, drv, ext
<1>3. CASE CheckUnloading(i) \/ RecheckUnloading(i)
  <2>1. PICK loc \in {"reply", "inc", "dec", "queue"} : Goto(i, loc)
    BY <1>3 DEF CheckUnloading, RecheckUnloading
  <2>2. pc[i] \in {"check", "recheck"} /\ UNCHANGED <<drv, ext, irp>>
    BY <1>3 DEF CheckUnloading, RecheckUnloading, At
  <2>. QED
    BY <2>1, <2>2, SignalQuietStep
<1>4. CASE IncrementOutstanding(i)
  <2>1. /\ pc[i] = "inc" /\ Outstanding' = Outstanding + 1
        /\ Goto(i, IF Outstanding' = 1 THEN "clear" ELSE "recheck")
        /\ UNCHANGED <<drv, ZeroOutstandingEvent, irp>>
    BY <1>4 DEF IncrementOutstanding, At
  <2>2. irp[i] = "dispatched"
    BY <2>1 DEF RequestInv
  <2>3. upc = "loaded"
    BY <2>1, <2>2, DispatchedMeansLoaded
  <2>4. EventIsTrue'
    <3>1. CASE Outstanding = 0
      <4>1. pc'[i] = "clear"
        BY <2>1, <3>1, <1>1
      <4>. QED
        BY <4>1 DEF EventIsTrue
    <3>2. CASE Outstanding # 0
      <4>1. ZeroOutstandingEvent => \E j \in Irps : pc[j] = "clear" /\ pc'[j] = "clear"
        BY <1>1, <2>1, <3>2 DEF EventIsTrue
      <4>. QED
        BY <2>1, <4>1 DEF EventIsTrue
    <3>. QED
      BY <3>1, <3>2
  <2>. QED
    BY <2>1, <2>3, <2>4 DEF UnloadInv, drv
<1>5. CASE ClearEvent(i)
  <2>1. /\ pc[i] = "clear" /\ ~ZeroOutstandingEvent'
        /\ UNCHANGED <<drv, Outstanding, irp>>
    BY <1>5 DEF ClearEvent, At
  <2>2. upc = "loaded"
    BY <2>1, DispatchedMeansLoaded DEF RequestInv
  <2>. QED
    BY <2>1, <2>2 DEF EventIsTrue, UnloadInv, drv
<1>6. CASE DecrementOutstanding(i)
  <2>1. /\ pc[i] = "dec"
        /\ UNCHANGED <<drv, ZeroOutstandingEvent, irp>>
        /\ \E loc \in {"set", "done", "reply"} : Goto(i, loc)
    BY <1>6 DEF DecrementOutstanding, At, AfterRelease
  <2>2. Outstanding # 0
    BY <2>1, HolderOutstanding DEF Holding
  <2>3. EventIsTrue'
    <3>1. ZeroOutstandingEvent => \E j \in Irps : pc[j] = "clear" /\ pc'[j] = "clear"
      BY <1>1, <2>1, <2>2 DEF EventIsTrue
    <3>. QED
      BY <2>1, <3>1 DEF EventIsTrue
  <2>4. upc \notin {"entry", "failed", "delete", "unloaded"}
    BY <2>2 DEF UnloadInv
  <2>. QED
    BY <2>1, <2>3, <2>4 DEF UnloadInv, drv
<1>7. CASE SetEvent(i)
  <2>1. /\ pc[i] = "set" /\ UNCHANGED <<drv, Outstanding, irp>>
        /\ \E loc \in {"done", "reply"} : Goto(i, loc)
    BY <1>7 DEF SetEvent, At, AfterRelease
  <2>2. Outstanding = 0
    BY <2>1 DEF SignalInTime
  <2>3. upc \notin {"entry", "failed"}
    BY <2>1 DEF UnloadInv
  <2>. QED
    BY <2>1, <2>2, <2>3 DEF EventIsTrue, UnloadInv, drv
<1>8. CASE CompleteFailed(i) \/ AsyncFinishContext(i)
  <2>1. pc[i] \in {"reply", "queued"} /\ irp[i] # "completed"
    BY <1>8 DEF CompleteFailed, AsyncFinishContext, At, RequestInv
  <2>2. /\ irp' = [irp EXCEPT ![i] = "completed"] /\ UNCHANGED <<drv, ext>>
        /\ \E loc \in {"done", "dec"} : Goto(i, loc)
    BY <1>8, <2>1 DEF CompleteFailed, AsyncFinishContext, Completed
  <2>. QED
    BY <2>1, <2>2, SignalQuietStep
<1>9. CASE AsyncQueueDpc(i) \/ AsyncQueueTimer(i) \/ AsyncQueueWorkItem(i)
  <2>1. /\ pc[i] = "queue" /\ UNCHANGED <<drv, ext>>
        /\ \E loc \in {"queued", "dec"} : Goto(i, loc)
    BY <1>9 DEF AsyncQueueDpc, AsyncQueueTimer, AsyncQueueWorkItem, HandOver, NoContext, At
  <2>2. upc = "loaded"
    BY <2>1, DispatchedMeansLoaded DEF RequestInv
  <2>. QED
    BY <2>1, <2>2, SignalQuietStep
<1>10. CASE AccessAfterDelete(i)
  BY <1>10 DEF AccessAfterDelete, EventIsTrue, UnloadInv, drv, ext, req
<1>. QED
  BY <1>2, <1>3, <1>4, <1>5, <1>6, <1>7, <1>8, <1>9, <1>10 DEF Request

(* So do DriverEntry and AsyncUnload. *)
LEMMA SignalDriverStep ==
    ASSUME IInv, EventIsTrue, UnloadInv, SignalInTime,
           DriverEntry \/ DriverEntryFails \/ UnloadBegin \/ Unload
    PROVE  EventIsTrue' /\ UnloadInv'
<1>. USE DEF IInv, req, ext
<1>1. CASE DriverEntry \/ DriverEntryFails
  BY <1>1 DEF DriverEntry, DriverEntryFails, EventIsTrue, UnloadInv
<1>2. CASE UnloadBegin \/ UnloadMark
  BY <1>2 DEF UnloadBegin, Unload, UnloadMark, EventIsTrue, UnloadInv, SignalInTime, DriverInv
<1>3. CASE UnloadTest
  BY <1>3 DEF UnloadTest, EventIsTrue, UnloadInv, DriverInv
<1>4. CASE UnloadWait
  <2>1. upc = "wait" /\ \A i \in Irps : pc[i] # "clear"
    BY <1>4 DEF UnloadWait, UnloadInv, RequestInv
  <2>2. Outstanding = 0
    BY <1>4, <2>1 DEF UnloadWait, EventIsTrue
  <2>. QED
    BY <1>4, <2>2 DEF UnloadWait, EventIsTrue, UnloadInv, DriverInv
<1>5. CASE UnloadDelete
  BY <1>5 DEF UnloadDelete, EventIsTrue, UnloadInv
<1>. QED
  BY <1>1, <1>2, <1>3, <1>4, <1>5 DEF Unload

(* A host that unloads at rest, and a KeSetEvent that is not late: then     *)
(* AsyncUnload does wait for every outstanding operation.  The violation    *)
(* that UnloadWaitsForOutstanding suffers has no other cause.               *)
THEOREM OnlyTheLateSignal == Spec /\ []SignalInTime => []UnloadWaitsForOutstanding
<1>1. Init => EventIsTrue /\ UnloadInv
  BY DEF Init, EventIsTrue, UnloadInv
<1>2. IInv /\ SignalInTime /\ EventIsTrue /\ UnloadInv /\ [Next]_vars => EventIsTrue' /\ UnloadInv'
  <2>. SUFFICES ASSUME IInv, SignalInTime, EventIsTrue, UnloadInv, [Next]_vars
                PROVE  EventIsTrue' /\ UnloadInv'
    OBVIOUS
  <2>1. CASE UNCHANGED vars
    BY <2>1 DEF vars, drv, ext, req, EventIsTrue, UnloadInv
  <2>. QED
    BY <2>1, SignalRequestStep, SignalDriverStep DEF Next, Finished
<1>3. UnloadInv => UnloadWaitsForOutstanding
  BY DEF UnloadInv, UnloadWaitsForOutstanding
<1>. QED
  BY <1>1, <1>2, <1>3, Invariance, PTL DEF Spec
=============================================================================
