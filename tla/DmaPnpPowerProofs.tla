------------------------- MODULE DmaPnpPowerProofs -------------------------
(***************************************************************************)
(* For any number of requests, and whatever the host injects: a pending    *)
(* packet of dma_pnp_power_test_driver has one owner and is completed      *)
(* once, and the resources of START_DEVICE come and go in an order in      *)
(* which none outlives the one it needs.                                   *)
(***************************************************************************)
EXTENDS DmaPnpPower, TLAPS

(* A packet that was marked pending is in exactly one place, the slot or    *)
(* the hands of the DPC, until it is completed: it is never lost by an      *)
(* overwritten slot and never completed by two of the ISR's DPC, a cancel   *)
(* request, a power-down and a STOP or REMOVE.                              *)
PendingHasOneOwner ==
    /\ {i \in Irps : irp[i] = "pending"} = {PendingIrp, dpcIrp} \ {NoIrp}
    /\ PendingIrp = dpcIrp => PendingIrp = NoIrp

(* Where the dispatch routine still answers for the packet. *)
Running ==
    {"register", "ack", "transfer", "cancel", "cancelled", "prepare", "fill", "check", "store"}

(* What the location of a request says of its packet. *)
PacketInv(i) ==
    /\ pc[i] = "idle" => irp[i] = "new"
    /\ pc[i] \in Running => irp[i] = "dispatched"

(* What the location of the manager thread says of the resources. *)
StartedWith(set) == held = IF Started THEN set ELSE {}
AcquiredSoFar(set) == held = set /\ ~Started

HardwareInv ==
    /\ mpc \in {"idle", "stop_cancel", "stop_off", "power_cancel", "power_off", "disconnect"}
          => StartedWith(Resources)
    /\ mpc = "free" => StartedWith(Resources \ {"interrupt"})
    /\ mpc = "put" => StartedWith({"mmio", "adapter"})
    /\ mpc = "unmap" => StartedWith({"mmio"})
    /\ mpc = "stopped" => held = {}
    /\ mpc \in {"absent", "map", "delete", "gone"} => AcquiredSoFar({})
    /\ mpc \in {"identify", "connect", "undo_unmap"} => AcquiredSoFar({"mmio"})
    /\ mpc \in {"adapter", "undo_disconnect"} => AcquiredSoFar({"mmio", "interrupt"})
    /\ mpc \in {"allocate", "undo_free", "undo_put"}
          => AcquiredSoFar({"mmio", "interrupt", "adapter"})
    /\ mpc = "started" => AcquiredSoFar(Resources)
    /\ mpc \in {"disconnect", "free", "put", "unmap", "stopped"} => ~Powered

(* The inductive invariant.  TypeOK excludes a second completion, which     *)
(* only the ownership of the slot rules out; what a manager step does to    *)
(* the resources depends on where in START, STOP or REMOVE it is.           *)
IInv ==
    /\ TypeOK
    /\ PendingHasOneOwner
    /\ \A i \in Irps : PacketInv(i)
    /\ HardwareInv

(* A step of the abstract slot, or none; and what is proved of the slot. *)
SlotStep == [Slot!Next]_Slot!slotVars
Theory == INSTANCE WaitSlotProofs WITH stage <- irp, slot <- PendingIrp, hand <- dpcIrp

-----------------------------------------------------------------------------
(* Completing nothing leaves the packets as they are. *)
LEMMA CompleteNone ==
    ASSUME TypeOK, Complete({})
    PROVE  irp' = irp
<1>1. irp' = [i \in Irps |-> irp[i]]
  BY DEF Complete
<1>. QED
  BY <1>1 DEF TypeOK

(* Completing one packet that was not completed. *)
LEMMA CompleteOne ==
    ASSUME TypeOK, NEW i \in Irps, irp[i] # "completed", Complete({i})
    PROVE  irp' = [irp EXCEPT ![i] = "completed"]
BY DEF Complete, TypeOK

(* DmaPnpCancelPending empties the slot and completes the packet in it. *)
LEMMA CancelPendingEffect ==
    ASSUME TypeOK, PendingHasOneOwner, CancelPending
    PROVE  /\ PendingIrp' = NoIrp
           /\ \/ PendingIrp = NoIrp /\ irp' = irp
              \/ /\ PendingIrp \in Irps
                 /\ irp[PendingIrp] = "pending"
                 /\ irp' = [irp EXCEPT ![PendingIrp] = "completed"]
<1>1. CASE PendingIrp = NoIrp
  <2>1. {PendingIrp} \cap Irps = {}
    BY <1>1, NoIrpAssumption
  <2>. QED
    BY <1>1, <2>1, CompleteNone DEF CancelPending
<1>2. CASE PendingIrp \in Irps
  <2>1. {PendingIrp} \cap Irps = {PendingIrp}
    BY <1>2
  <2>2. irp[PendingIrp] = "pending"
    BY <1>2, NoIrpAssumption DEF PendingHasOneOwner
  <2>. QED
    BY <1>2, <2>1, <2>2, CompleteOne DEF CancelPending
<1>. QED
  BY <1>1, <1>2 DEF TypeOK, MaybeIrp

-----------------------------------------------------------------------------
(* The invariant holds before the device is added. *)
LEMMA InitIInv == Init => IInv
<1>. SUFFICES ASSUME Init PROVE IInv
  OBVIOUS
<1>1. FlagsOK
  BY DEF Init, FlagsOK
<1>2. TypeOK
  BY <1>1 DEF Init, TypeOK, Resources, Kinds, MaybeIrp
<1>3. PendingHasOneOwner /\ \A i \in Irps : PacketInv(i)
  BY DEF Init, PendingHasOneOwner, PacketInv, Running
<1>4. HardwareInv
  BY DEF Init, HardwareInv, AcquiredSoFar
<1>. QED
  BY <1>2, <1>3, <1>4 DEF IInv

(* The flags are Booleans after every step. *)
LEMMA FlagsStep == FlagsOK /\ [Next]_vars => FlagsOK'
<1>. SUFFICES ASSUME FlagsOK, [Next]_vars PROVE FlagsOK'
  OBVIOUS
<1>. USE DEF FlagsOK, ext, req, dpc, device
<1>1. ASSUME NEW i \in Irps, Dispatch(i) \/ Request(i) PROVE FlagsOK'
  BY <1>1, Zenon DEF Dispatch, Request, AccessRegister, AcknowledgeInterrupt, StartTransfer,
     CancelIoctl, AnswerCancel, PrepareRoundtrip, FillCommonBuffer, CheckReady, StorePending,
     WriteCommand
<1>2. CASE DeviceFinishes \/ InjectInterrupt \/ InterruptService \/ DpcTake \/ DpcFinish
  BY <1>2, Zenon DEF DeviceFinishes, InjectInterrupt, InterruptService, DpcTake, DpcFinish
<1>3. CASE ManagerRequest
  BY <1>3, Zenon DEF ManagerRequest, AddDevice, RestartDevice, StartDevice, StopDevice,
          RemoveDevice, SetPowerD0, SetPowerDown
<1>4. CASE ManagerStep
  BY <1>4, Zenon DEF ManagerStep, MapHardware, ReadId, ConnectInterrupt, AcquireDmaAdapter,
     AllocateCommonBuffer, Acquire, HardwareStarted, QuiesceCancel, PowerOff, DisconnectInterrupt,
     FreeCommonBuffer, PutDmaAdapter, UnmapHardware, Release, HardwareStopped, DeleteDevice
<1>5. CASE WildAccess \/ UNCHANGED vars
  BY <1>5, Zenon DEF WildAccess, vars
<1>. QED
  BY <1>1, <1>2, <1>3, <1>4, <1>5 DEF Next, Finished

(* A step that leaves packets, slot and DPC alone keeps what is said of them. *)
LEMMA PacketsUnchanged ==
    ASSUME IInv, UNCHANGED <<irp, pc, PendingIrp, dpcIrp>>
    PROVE  PendingHasOneOwner' /\ (\A i \in Irps : PacketInv(i)') /\ SlotStep
BY DEF IInv, PendingHasOneOwner, PacketInv, SlotStep, Slot!slotVars

(* A step that is not the manager's keeps what is said of the resources. *)
LEMMA HardwareUnchanged ==
    ASSUME IInv, UNCHANGED <<mpc, held, Started, Powered>>
    PROVE  HardwareInv'
BY DEF IInv, HardwareInv, StartedWith, AcquiredSoFar

(* The dispatch routines. *)
LEMMA RequestStep ==
    ASSUME IInv, FlagsOK', NEW i \in Irps, Dispatch(i) \/ Request(i)
    PROVE  IInv' /\ SlotStep
<1>. USE DEF IInv, TypeOK, PendingHasOneOwner, PacketInv, Running, Kinds, Goto, SlotStep, Slot!Next,
             Slot!slotVars, Slot!Dispatch, Slot!Answer, Slot!Pend, Slot!Cancel, Slot!Advance
<1>0. TypeOK
  OBVIOUS
<1>h. UNCHANGED <<mpc, held, Started, Powered>> => HardwareInv'
  BY HardwareUnchanged
<1>a. ASSUME Answer(i), irp[i] \in {"new", "dispatched"}, UNCHANGED <<PendingIrp, dpcIrp>>
      PROVE  /\ irp' \in [Irps -> {"new", "dispatched", "pending", "completed"}]
             /\ PendingHasOneOwner'
             /\ \A j \in Irps : PacketInv(j)'
             /\ SlotStep
  <2>1. irp' = [irp EXCEPT ![i] = "completed"]
    BY <1>0, <1>a, CompleteOne DEF Answer
  <2>. QED
    BY <2>1, <1>a DEF Answer
<1>1. CASE Dispatch(i)
  <2>. PICK k \in Kinds :
          /\ kind' = [kind EXCEPT ![i] = k]
          /\ IF k # "local" /\ Ready /\ "mmio" \in held
             THEN /\ irp' = [irp EXCEPT ![i] = "dispatched"]
                  /\ \E loc \in FirstLocations(k) : Goto(i, loc)
             ELSE Answer(i)
    BY <1>1 DEF Dispatch
  <2>1. irp[i] = "new"
    BY <1>1 DEF Dispatch
  <2>2. CASE k # "local" /\ Ready /\ "mmio" \in held
    <3>1. FirstLocations(k) \subseteq Running
      BY <2>2 DEF FirstLocations
    <3>. QED
      BY <1>1, <1>h, <2>1, <2>2, <3>1 DEF Dispatch, ext, dpc, device
  <2>3. CASE ~(k # "local" /\ Ready /\ "mmio" \in held)
    BY <1>1, <1>a, <1>h, <2>1, <2>3 DEF Dispatch, ext, dpc, device, Answer
  <2>. QED
    BY <2>2, <2>3
<1>2. CASE AccessRegister(i)
  BY <1>2, <1>a, <1>h DEF AccessRegister, ext, dpc, device, Answer
<1>10. CASE AcknowledgeInterrupt(i)
  BY <1>10, <1>a, <1>h DEF AcknowledgeInterrupt, ext, dpc, Answer
<1>11. CASE StartTransfer(i)
  BY <1>11, <1>a, <1>h DEF StartTransfer, ext, dpc, Answer, MaybeIrp
<1>3. CASE CancelIoctl(i)
  <2>1. /\ PendingIrp' = NoIrp
        /\ \/ PendingIrp = NoIrp /\ irp' = irp
           \/ /\ PendingIrp \in Irps
              /\ irp[PendingIrp] = "pending"
              /\ irp' = [irp EXCEPT ![PendingIrp] = "completed"]
    BY <1>3, CancelPendingEffect DEF CancelIoctl
  <2>. QED
    BY <1>3, <1>h, <2>1, NoIrpAssumption DEF CancelIoctl, ext, dpc, device, MaybeIrp
<1>4. CASE AnswerCancel(i)
  BY <1>4, <1>a, <1>h DEF AnswerCancel, ext, dpc, device, Answer
<1>5. CASE PrepareRoundtrip(i)
  <2>1. CASE "buffer" \in held
    BY <1>5, <1>h, <2>1 DEF PrepareRoundtrip, ext, dpc, device
  <2>2. CASE "buffer" \notin held
    BY <1>5, <1>a, <1>h, <2>2 DEF PrepareRoundtrip, ext, dpc, device, Answer
  <2>. QED
    BY <2>1, <2>2
<1>6. CASE FillCommonBuffer(i)
  BY <1>6, <1>h DEF FillCommonBuffer, ext, dpc, device, MaybeIrp
<1>7. CASE CheckReady(i)
  <2>1. CASE Ready
    BY <1>7, <1>h, <2>1 DEF CheckReady, ext, dpc, device
  <2>2. CASE ~Ready
    BY <1>7, <1>a, <1>h, <2>2 DEF CheckReady, ext, dpc, device, Answer
  <2>. QED
    BY <2>1, <2>2
<1>8. CASE StorePending(i)
  <2>1. CASE PendingIrp # NoIrp
    BY <1>8, <1>a, <1>h, <2>1 DEF StorePending, ext, dpc, device, Answer
  <2>2. CASE PendingIrp = NoIrp
    BY <1>8, <1>h, <2>2, NoIrpAssumption DEF StorePending, ext, dpc, device, MaybeIrp
  <2>. QED
    BY <2>1, <2>2
<1>9. CASE WriteCommand(i)
  BY <1>9, <1>h DEF WriteCommand, ext, dpc, device, MaybeIrp
<1>. QED
  BY <1>1, <1>2, <1>3, <1>4, <1>5, <1>6, <1>7, <1>8, <1>9, <1>10, <1>11 DEF Request

(* The device, the ISR and the DPC. *)
LEMMA InterruptStep ==
    ASSUME IInv, FlagsOK', DeviceFinishes \/ InjectInterrupt \/ InterruptService \/ DpcTake
               \/ DpcFinish
    PROVE  IInv' /\ SlotStep
<1>. USE DEF IInv
<1>1. CASE DeviceFinishes
  BY <1>1, PacketsUnchanged, HardwareUnchanged DEF DeviceFinishes, TypeOK, ext, req, dpc, MaybeIrp
<1>2. CASE InjectInterrupt
  BY <1>2, PacketsUnchanged, HardwareUnchanged DEF InjectInterrupt, TypeOK, ext, req, dpc
<1>3. CASE InterruptService
  BY <1>3, PacketsUnchanged, HardwareUnchanged DEF InterruptService, TypeOK, ext, req
<1>4. CASE DpcTake
  BY <1>4, HardwareUnchanged, NoIrpAssumption
     DEF DpcTake, TypeOK, ext, req, device, MaybeIrp, PendingHasOneOwner, PacketInv, SlotStep,
         Slot!Next, Slot!slotVars, Slot!Take
<1>5. CASE DpcFinish
  <2>1. dpcIrp \in Irps /\ irp[dpcIrp] = "pending"
    BY <1>5 DEF DpcFinish, TypeOK, MaybeIrp, PendingHasOneOwner
  <2>2. irp' = [irp EXCEPT ![dpcIrp] = "completed"]
    BY <1>5, <2>1, CompleteOne DEF DpcFinish
  <2>3. TypeOK'
    BY <1>5, <2>1, <2>2 DEF DpcFinish, TypeOK, ext, device, MaybeIrp
  <2>4. PendingHasOneOwner' /\ \A i \in Irps : PacketInv(i)'
    BY <1>5, <2>1, <2>2, NoIrpAssumption
       DEF DpcFinish, TypeOK, MaybeIrp, PendingHasOneOwner, PacketInv, Running
  <2>5. HardwareInv'
    BY <1>5, HardwareUnchanged DEF DpcFinish, ext
  <2>6. Slot!Finish
    BY <1>5, <2>1, <2>2, NoIrpAssumption DEF DpcFinish, Slot!Finish, Slot!Advance
  <2>. QED
    BY <2>3, <2>4, <2>5, <2>6 DEF SlotStep, Slot!Next
<1>. QED
  BY <1>1, <1>2, <1>3, <1>4, <1>5

(* The manager thread. *)
LEMMA ManagerKeeps ==
    ASSUME IInv, FlagsOK', ManagerRequest \/ ManagerStep
    PROVE  IInv' /\ SlotStep
<1>. USE DEF IInv
<1>1. CASE ManagerRequest
  <2>1. UNCHANGED <<irp, pc, PendingIrp, dpcIrp>>
    BY <1>1 DEF ManagerRequest, AddDevice, RestartDevice, StartDevice, StopDevice, RemoveDevice,
         SetPowerD0, SetPowerDown, ext, req, dpc
  <2>2. TypeOK'
    BY <1>1 DEF ManagerRequest, AddDevice, RestartDevice, StartDevice, StopDevice, RemoveDevice,
         SetPowerD0, SetPowerDown, ext, req, dpc, device, TypeOK
  <2>3. HardwareInv'
    BY <1>1 DEF ManagerRequest, AddDevice, RestartDevice, StartDevice, StopDevice, RemoveDevice,
         SetPowerD0, SetPowerDown, ext, HardwareInv, StartedWith, AcquiredSoFar
  <2>. QED
    BY <2>1, <2>2, <2>3, PacketsUnchanged
<1>2. CASE QuiesceCancel
  <2>1. /\ PendingIrp' = NoIrp
        /\ \/ PendingIrp = NoIrp /\ irp' = irp
           \/ /\ PendingIrp \in Irps
              /\ irp[PendingIrp] = "pending"
              /\ irp' = [irp EXCEPT ![PendingIrp] = "completed"]
    BY <1>2, CancelPendingEffect DEF QuiesceCancel
  <2>2. TypeOK'
    BY <1>2, <2>1 DEF QuiesceCancel, TypeOK, ext, dpc, device, MaybeIrp
  <2>3. PendingHasOneOwner' /\ \A i \in Irps : PacketInv(i)'
    BY <1>2, <2>1, NoIrpAssumption
       DEF QuiesceCancel, TypeOK, dpc, MaybeIrp, PendingHasOneOwner, PacketInv, Running
  <2>4. HardwareInv'
    BY <1>2 DEF QuiesceCancel, ext, HardwareInv, StartedWith, AcquiredSoFar
  <2>5. SlotStep
    BY <1>2, <2>1, NoIrpAssumption
       DEF QuiesceCancel, dpc, SlotStep, Slot!Next, Slot!slotVars, Slot!Cancel, Slot!Advance
  <2>. QED
    BY <2>2, <2>3, <2>4, <2>5
<1>3. CASE MapHardware \/ ReadId \/ ConnectInterrupt \/ AcquireDmaAdapter \/ AllocateCommonBuffer
  <2>. USE <1>3 DEF MapHardware, ReadId, ConnectInterrupt, AcquireDmaAdapter,
     AllocateCommonBuffer, Acquire
  <2>1. UNCHANGED <<irp, pc, PendingIrp, dpcIrp>>
    BY DEF req, dpc
  <2>2. TypeOK'
    BY DEF req, dpc, device, TypeOK, Resources
  <2>3. HardwareInv'
    BY DEF HardwareInv, StartedWith, AcquiredSoFar, Resources
  <2>. QED
    BY <2>1, <2>2, <2>3, PacketsUnchanged
<1>4. CASE DisconnectInterrupt \/ FreeCommonBuffer \/ PutDmaAdapter \/ UnmapHardware
  <2>. USE <1>4 DEF DisconnectInterrupt, FreeCommonBuffer, PutDmaAdapter, UnmapHardware, Release
  <2>1. UNCHANGED <<irp, pc, PendingIrp, dpcIrp>>
    BY DEF req, dpc
  <2>2. TypeOK'
    BY DEF req, dpc, device, TypeOK
  <2>3. HardwareInv'
    BY DEF HardwareInv, StartedWith, AcquiredSoFar, Resources
  <2>. QED
    BY <2>1, <2>2, <2>3, PacketsUnchanged
<1>5. CASE HardwareStarted \/ PowerOff \/ HardwareStopped \/ DeleteDevice
  <2>. USE <1>5 DEF HardwareStarted, PowerOff, HardwareStopped, DeleteDevice
  <2>1. UNCHANGED <<irp, pc, PendingIrp, dpcIrp>>
    BY DEF req, dpc
  <2>2. TypeOK'
    BY DEF req, dpc, device, TypeOK
  <2>3. HardwareInv'
    BY DEF HardwareInv, StartedWith, AcquiredSoFar, Resources
  <2>. QED
    BY <2>1, <2>2, <2>3, PacketsUnchanged
<1>. QED
  BY <1>1, <1>2, <1>3, <1>4, <1>5 DEF ManagerStep

(* Every step keeps the invariant and is a step of the slot, or none. *)
LEMMA NextIInv == IInv /\ [Next]_vars => IInv' /\ SlotStep
<1>. SUFFICES ASSUME IInv, [Next]_vars PROVE IInv' /\ SlotStep
  OBVIOUS
<1>0. FlagsOK'
  BY FlagsStep DEF IInv, TypeOK
<1>1. ASSUME WildAccess \/ UNCHANGED vars PROVE IInv' /\ SlotStep
  <2>1. UNCHANGED <<irp, pc, PendingIrp, dpcIrp>> /\ UNCHANGED <<mpc, held, Started, Powered>>
    BY <1>1 DEF WildAccess, vars, ext, req, dpc
  <2>2. TypeOK'
    BY <1>0, <1>1 DEF IInv, TypeOK, WildAccess, vars, ext, req, dpc, device
  <2>. QED
    BY <2>1, <2>2, PacketsUnchanged, HardwareUnchanged DEF IInv
<1>. QED
  BY <1>0, <1>1, RequestStep, InterruptStep, ManagerKeeps DEF Next, Finished

-----------------------------------------------------------------------------
(* The inductive invariant holds of every behaviour of the driver. *)
THEOREM Invariance == Spec => []IInv
BY InitIInv, NextIInv, PTL DEF Spec

(* Every variable keeps to its values.  No packet is ever completed twice:  *)
(* DPC, CANCEL_PENDING, a power-down and STOP or REMOVE share the slot.     *)
THEOREM TypeCorrect == Spec => []TypeOK
<1>1. IInv => TypeOK
  BY DEF IInv
<1>. QED
  BY <1>1, Invariance, PTL

(* The packets marked pending are exactly the one in the slot and the one   *)
(* the DPC took from it.                                                    *)
THEOREM OneOwner == Spec => []PendingHasOneOwner
<1>1. IInv => PendingHasOneOwner
  BY DEF IInv
<1>. QED
  BY <1>1, Invariance, PTL

(* At every step of START, STOP and REMOVE the registers outlive the        *)
(* interrupt and the adapter outlives the common buffer.                    *)
THEOREM NoDanglingResource == Spec => []ResourcesNested
<1>1. IInv => ResourcesNested
  BY DEF IInv, TypeOK, HardwareInv, StartedWith, AcquiredSoFar, Resources, ResourcesNested
<1>. QED
  BY <1>1, Invariance, PTL

(* Between PnP requests the driver holds all of its resources or none, and  *)
(* a request that finds the readiness gate open finds all of them.          *)
THEOREM StartIsAtomic == Spec => []ResourcesAllOrNothing
<1>1. IInv => ResourcesAllOrNothing
  BY DEF IInv, TypeOK, HardwareInv, StartedWith, AcquiredSoFar, ResourcesAllOrNothing, Ready
<1>. QED
  BY <1>1, Invariance, PTL

(* The driver implements the discipline of the slot: every step that        *)
(* touches packets, slot or the packet in the DPC's hand is one of WaitSlot.*)
THEOREM ImplementsWaitSlot == Spec => WaitSlotSpec
<1>1. Init => Slot!Init
  BY DEF Init, Slot!Init
<1>. QED
  BY <1>1, NextIInv, Invariance, PTL DEF Spec, WaitSlotSpec, Slot!Spec, SlotStep

(* So each packet goes through the request protocol of the I/O manager, and *)
(* is completed once.                                                       *)
THEOREM ImplementsIrpProtocol == Spec => Slot!IrpProtocolSpec
<1>1. Slot!Init => Theory!Init
  BY DEF Slot!Init, Theory!Init
<1>2. [Slot!Next]_Slot!slotVars => [Theory!Next]_Theory!slotVars
  BY DEF Slot!Next, Slot!slotVars, Slot!Dispatch, Slot!Answer, Slot!Pend, Slot!Take, Slot!Finish,
         Slot!Cancel, Slot!Advance, Theory!Next, Theory!slotVars, Theory!Dispatch, Theory!Answer,
         Theory!Pend, Theory!Take, Theory!Finish, Theory!Cancel, Theory!Advance
<1>3. Theory!Spec => Theory!IrpProtocolSpec
  BY NoIrpAssumption, Theory!SlotImplementsIrpProtocol
<1>4. Theory!Protocol!Init => Slot!Protocol!Init
  BY DEF Theory!Protocol!Init, Slot!Protocol!Init
<1>5. [Theory!Protocol!Next]_irp => [Slot!Protocol!Next]_irp
  BY DEF Theory!Protocol!Next, Theory!Protocol!Dispatch, Theory!Protocol!MarkPending,
         Theory!Protocol!Complete, Slot!Protocol!Next, Slot!Protocol!Dispatch,
         Slot!Protocol!MarkPending, Slot!Protocol!Complete
<1>. QED
  BY <1>1, <1>2, <1>3, <1>4, <1>5, ImplementsWaitSlot, PTL
     DEF WaitSlotSpec, Slot!Spec, Slot!IrpProtocolSpec, Slot!Protocol!Spec, Theory!Spec,
         Theory!IrpProtocolSpec, Theory!Protocol!Spec

-----------------------------------------------------------------------------
(* The race of DmaPnpQueuePendingIrp with the power-down has one cause: a   *)
(* request that has read the flags and not yet the slot while the           *)
(* power-down, which has emptied the slot, clears Powered or has done so.   *)
(* No request is there at a moment at which ...                             *)
ToldInTime ==
    \A i \in Irps : pc[i] = "store" => Powered /\ mpc \notin {"power_off", "stop_off"}

(* ... and as long as none is, the slot stays as the power-down left it.    *)
EmptySince == ~Powered \/ mpc \in {"power_off", "stop_off"} => PendingIrp = NoIrp

(* One step of any actor. *)
LEMMA EmptyStep == ToldInTime /\ EmptySince /\ [Next]_vars => EmptySince'
<1>. SUFFICES ASSUME ToldInTime, EmptySince, [Next]_vars PROVE EmptySince'
  OBVIOUS
<1>. USE DEF EmptySince, ext, req, dpc, device
<1>1. ASSUME NEW i \in Irps, Dispatch(i) \/ Request(i) PROVE EmptySince'
  <2>1. CASE StorePending(i)
    BY <2>1 DEF StorePending, ToldInTime
  <2>2. CASE CancelIoctl(i)
    BY <2>2 DEF CancelIoctl, CancelPending
  <2>. QED
    BY <1>1, <2>1, <2>2 DEF Dispatch, Request, AccessRegister, AcknowledgeInterrupt,
       StartTransfer, AnswerCancel, PrepareRoundtrip, FillCommonBuffer, CheckReady, WriteCommand
<1>2. CASE DeviceFinishes \/ InjectInterrupt \/ InterruptService \/ DpcTake \/ DpcFinish
  BY <1>2 DEF DeviceFinishes, InjectInterrupt, InterruptService, DpcTake, DpcFinish
<1>3. CASE ManagerRequest
  BY <1>3 DEF ManagerRequest, AddDevice, RestartDevice, StartDevice, StopDevice, RemoveDevice,
     SetPowerD0, SetPowerDown
<1>4. CASE ManagerStep
  <2>1. CASE QuiesceCancel
    BY <2>1 DEF QuiesceCancel, CancelPending
  <2>2. CASE PowerOff
    BY <2>2 DEF PowerOff
  <2>3. CASE MapHardware \/ ReadId \/ ConnectInterrupt \/ AcquireDmaAdapter \/ AllocateCommonBuffer
    BY <2>3 DEF MapHardware, ReadId, ConnectInterrupt, AcquireDmaAdapter, AllocateCommonBuffer,
       Acquire
  <2>. QED
    BY <1>4, <2>1, <2>2, <2>3 DEF ManagerStep, HardwareStarted, DisconnectInterrupt,
       FreeCommonBuffer, PutDmaAdapter, UnmapHardware, Release, HardwareStopped, DeleteDevice
<1>. QED
  BY <1>1, <1>2, <1>3, <1>4 DEF Next, Finished, WildAccess, vars

(* Where no request is overtaken so, nothing is ever pending in D3: the     *)
(* violation that NothingPendingInD3 suffers has no other cause.            *)
THEOREM OnlyTheLateStore == Spec /\ []ToldInTime => []NothingPendingInD3
<1>1. Init => EmptySince
  BY DEF Init, EmptySince
<1>2. EmptySince => NothingPendingInD3
  BY DEF EmptySince, NothingPendingInD3
<1>. QED
  BY <1>1, <1>2, EmptyStep, PTL DEF Spec

-----------------------------------------------------------------------------
(* A roundtrip is pending only while its answer is under way. *)
RoundtripOwed ==
    \A i \in Irps : irp[i] = "pending" /\ kind[i] = "roundtrip" => AnswerUnderWay(i)

(* A request that takes a step of its own. *)
LEMMA OwedAfterRequest ==
    ASSUME IInv, RoundtripOwed, ~AckStealsInterrupt, NEW i \in Irps, Dispatch(i) \/ Request(i)
    PROVE  RoundtripOwed'
<1>. USE DEF IInv, TypeOK, AnswerUnderWay
<1>. SUFFICES ASSUME NEW r \in Irps, irp'[r] = "pending", kind'[r] = "roundtrip"
              PROVE  AnswerUnderWay(r)'
  BY DEF RoundtripOwed
<1>1. CASE WriteCommand(i) \/ StartTransfer(i)
  BY <1>1, NoIrpAssumption DEF WriteCommand, StartTransfer
<1>2. CASE StorePending(i)
  <2>1. UNCHANGED <<kind, dpc, device>>
    BY <1>2 DEF StorePending
  <2>2. CASE r = i
    <3>1. PendingIrp = NoIrp => pc'[i] = "command"
      BY <1>2, <2>1, <2>2 DEF StorePending, Goto
    <3>2. PendingIrp # NoIrp => irp'[i] # "pending"
      BY <1>2 DEF StorePending, Answer, Complete
    <3>. QED
      BY <2>2, <3>1, <3>2
  <2>3. CASE r # i
    <3>1. pc'[r] = pc[r] /\ irp[r] = "pending"
      BY <1>2, <2>3 DEF StorePending, Answer, Complete, Goto
    <3>. QED
      BY <2>1, <3>1 DEF RoundtripOwed, dpc, device
  <2>. QED
    BY <2>2, <2>3
<1>3. CASE ~WriteCommand(i) /\ ~StartTransfer(i) /\ ~StorePending(i)
  <2>1. UNCHANGED <<dpc, command>> /\ (done => done')
    <3>1. CASE AcknowledgeInterrupt(i)
      BY <3>1 DEF AcknowledgeInterrupt, AckStealsInterrupt
    <3>2. CASE ~AcknowledgeInterrupt(i)
      BY <1>3, <3>2 DEF Dispatch, Request, AccessRegister, CancelIoctl, AnswerCancel,
         PrepareRoundtrip, FillCommonBuffer, CheckReady, device
    <3>. QED
      BY <3>1, <3>2
  <2>2. pc[i] # "command" /\ pc[i] \in Running \cup {"idle"} /\ irp[i] # "pending"
    BY <1>3 DEF Dispatch, Request, AccessRegister, AcknowledgeInterrupt, StartTransfer,
       CancelIoctl, AnswerCancel, PrepareRoundtrip, FillCommonBuffer, CheckReady, Running,
       PacketInv
  <2>3. r # i /\ irp[r] = "pending"
    BY <1>3, <2>2 DEF Dispatch, Request, AccessRegister, AcknowledgeInterrupt, StartTransfer,
       CancelIoctl, AnswerCancel, PrepareRoundtrip, FillCommonBuffer, CheckReady, CancelPending,
       Answer, Complete
  <2>4. pc'[r] = pc[r] /\ kind'[r] = kind[r]
    BY <1>3, <2>3 DEF Dispatch, Request, AccessRegister, AcknowledgeInterrupt, StartTransfer,
       CancelIoctl, AnswerCancel, PrepareRoundtrip, FillCommonBuffer, CheckReady, Answer, Goto
  <2>. QED
    BY <2>1, <2>3, <2>4 DEF RoundtripOwed, dpc, device
<1>. QED
  BY <1>1, <1>2, <1>3

(* The device, the ISR and the DPC. *)
LEMMA OwedAfterInterrupt ==
    ASSUME IInv, RoundtripOwed,
           DeviceFinishes \/ InjectInterrupt \/ InterruptService \/ DpcTake \/ DpcFinish
    PROVE  RoundtripOwed'
<1>. USE DEF IInv, TypeOK, AnswerUnderWay
<1>1. CASE DeviceFinishes \/ InjectInterrupt \/ InterruptService
  BY <1>1 DEF DeviceFinishes, InjectInterrupt, InterruptService, RoundtripOwed
<1>2. CASE DpcTake
  <2>1. dpcIrp = NoIrp /\ dpcIrp' = PendingIrp /\ UNCHANGED <<irp, pc, kind>>
    BY <1>2 DEF DpcTake, req
  <2>2. \A r \in Irps : irp[r] = "pending" => r = PendingIrp
    BY <2>1 DEF PendingHasOneOwner
  <2>. QED
    BY <2>1, <2>2 DEF RoundtripOwed
<1>3. CASE DpcFinish
  <2>1. dpcIrp \in Irps /\ irp'[dpcIrp] # "pending"
        /\ (\A r \in Irps : r # dpcIrp => irp'[r] = irp[r])
        /\ UNCHANGED <<pc, kind, dpcQueued, device>>
    BY <1>3 DEF DpcFinish, Complete, MaybeIrp
  <2>. QED
    BY <2>1 DEF RoundtripOwed, device
<1>. QED
  BY <1>1, <1>2, <1>3

(* No roundtrip is forgotten, however commands, the clients' own among them,*)
(* cancelled packets and coalesced interrupts overlap, unless a client's    *)
(* ACK overtakes the ISR: nothing else takes the answer of a pending        *)
(* roundtrip away.  This is what PendingAnswered owes to safety; the rest is*)
(* fairness, and that the device stays ready.                               *)
THEOREM OnlyTheClientsAck == Spec /\ []~AckStealsInterrupt => []RoundtripOwed
<1>1. Init => RoundtripOwed
  BY DEF Init, RoundtripOwed
<1>2. IInv /\ ~AckStealsInterrupt /\ RoundtripOwed /\ [Next]_vars => RoundtripOwed'
  <2>. SUFFICES ASSUME IInv, ~AckStealsInterrupt, RoundtripOwed, [Next]_vars
                PROVE  RoundtripOwed'
    OBVIOUS
  <2>1. CASE ManagerRequest \/ ManagerStep \/ WildAccess \/ UNCHANGED vars
    <3>1. UNCHANGED <<pc, kind, dpc, device>>
      BY <2>1 DEF ManagerRequest, AddDevice, RestartDevice, StartDevice, StopDevice, RemoveDevice,
         SetPowerD0, SetPowerDown, ManagerStep, MapHardware, ReadId, ConnectInterrupt,
         AcquireDmaAdapter, AllocateCommonBuffer, Acquire, HardwareStarted, QuiesceCancel,
         PowerOff, DisconnectInterrupt, FreeCommonBuffer, PutDmaAdapter, UnmapHardware, Release,
         HardwareStopped, DeleteDevice, WildAccess, vars, req
    <3>2. \A r \in Irps : irp'[r] = "pending" => irp[r] = "pending"
      <4>1. CASE QuiesceCancel
        <5>1. CancelPending
          BY <4>1 DEF QuiesceCancel
        <5>. QED
          BY <5>1, CancelPendingEffect DEF IInv, TypeOK
      <4>2. CASE ~QuiesceCancel
        <5>1. irp' = irp
          BY <2>1, <4>2 DEF ManagerRequest, AddDevice, RestartDevice, StartDevice, StopDevice,
             RemoveDevice, SetPowerD0, SetPowerDown, ManagerStep, MapHardware, ReadId,
             ConnectInterrupt, AcquireDmaAdapter, AllocateCommonBuffer, Acquire, HardwareStarted,
             PowerOff, DisconnectInterrupt, FreeCommonBuffer, PutDmaAdapter, UnmapHardware,
             Release, HardwareStopped, DeleteDevice, WildAccess, vars, req
        <5>. QED
          BY <5>1
      <4>. QED
        BY <4>1, <4>2
    <3>. QED
      BY <3>1, <3>2 DEF RoundtripOwed, AnswerUnderWay, dpc, device
  <2>. QED
    BY <2>1, OwedAfterRequest, OwedAfterInterrupt DEF Next, Finished
<1>. QED
  BY <1>1, <1>2, Invariance, PTL DEF Spec
=============================================================================
