------------------------- MODULE PowerPnpMmioProofs -------------------------
(***************************************************************************)
(* For any number of requests: power_pnp_mmio_test_driver completes no     *)
(* packet twice, is never usable over a lower device that is not in D0,    *)
(* and holds all of its resources or none between PnP requests.            *)
(***************************************************************************)
EXTENDS PowerPnpMmio, TLAPS

(* A wait that was marked pending is in exactly one place, the slot or the  *)
(* hands of the DPC, until it is completed.                                 *)
PendingHasOneOwner ==
    /\ PendingInterruptIrp = dpcIrp => dpcIrp = NoIrp
    /\ \A i \in Irps : irp[i] = "pending" <=> i \in {PendingInterruptIrp, dpcIrp}

(* Where the dispatch routine still answers for the packet. *)
Running == {"register", "ack", "check", "store", "cancel", "answer"}

(* What the location of a request says of its packet. *)
RequestInv(i) ==
    /\ pc[i] = "idle" => irp[i] = "new"
    /\ pc[i] \in Running => irp[i] = "dispatched"

(* What the location of the manager thread says of the resources. *)
HardwareInv ==
    /\ mpc \in {"absent", "idle", "forward", "wait", "up", "cancel", "off", "disconnect", "delete",
               "gone"} => held = IF Started THEN Resources ELSE {}
    /\ mpc \in {"map", "connect", "started"} => ~Started
    /\ mpc \in {"map", "stopped"} => held = {}
    /\ mpc = "connect" => held = {"mmio"}
    /\ mpc = "started" => held = Resources
    /\ mpc = "unmap" => held = IF Started THEN {"mmio"} ELSE {}

(* Who has the IRP, and what that says of the two power states: the lower   *)
(* device is asked to leave D0 only when this one is not powered, and this  *)
(* one is on its way up only when the lower device has arrived in D0.       *)
Up == {"start", "d0"}
Down == {"stop", "remove", "d3"}

PowerInv ==
    /\ Powered => lower = "D0"
    /\ lowerBusy => mpc = "wait" /\ ~event
    /\ mpc \in {"forward", "wait"} /\ op \in Down => ~Powered
    /\ mpc \in {"cancel", "off"} => op \in Down
    /\ mpc \in {"disconnect", "unmap", "stopped"} => op \in Down /\ ~Powered
    /\ mpc \in {"map", "connect", "started", "up"} => lower = "D0"
    /\ mpc = "wait" /\ event /\ lowerOk /\ op \in Up => lower = "D0"

(* The inductive invariant. *)
IInv ==
    /\ TypeOK
    /\ PendingHasOneOwner
    /\ \A i \in Irps : RequestInv(i)
    /\ HardwareInv
    /\ PowerInv

-----------------------------------------------------------------------------
(* Completing nothing leaves the packets as they are. *)
LEMMA CompleteNone ==
    ASSUME TypeOK, Complete({})
    PROVE  irp' = irp
<1>1. irp' = [i \in Irps |-> irp[i]]
  BY DEF Complete
<1>. QED
  BY <1>1 DEF TypeOK

(* Completing a packet that is not completed completes that one only. *)
LEMMA CompleteOne ==
    ASSUME TypeOK, NEW i \in Irps, irp[i] # "completed", Complete({i})
    PROVE  irp' = [irp EXCEPT ![i] = "completed"]
BY DEF Complete, TypeOK

(* PowerPnpCancelPendingWait empties the slot and completes what was in it. *)
LEMMA CancelPendingEffect ==
    ASSUME TypeOK, PendingHasOneOwner, CancelPendingWait
    PROVE  /\ PendingInterruptIrp' = NoIrp
           /\ \/ PendingInterruptIrp = NoIrp /\ irp' = irp
              \/ /\ PendingInterruptIrp \in Irps
                 /\ irp[PendingInterruptIrp] = "pending"
                 /\ irp' = [irp EXCEPT ![PendingInterruptIrp] = "completed"]
<1>1. CASE PendingInterruptIrp = NoIrp
  <2>1. {PendingInterruptIrp} \cap Irps = {}
    BY <1>1, NoIrpAssumption
  <2>. QED
    BY <1>1, <2>1, CompleteNone DEF CancelPendingWait
<1>2. CASE PendingInterruptIrp \in Irps
  <2>1. {PendingInterruptIrp} \cap Irps = {PendingInterruptIrp}
    BY <1>2
  <2>2. irp[PendingInterruptIrp] = "pending"
    BY <1>2 DEF PendingHasOneOwner
  <2>. QED
    BY <1>2, <2>1, <2>2, CompleteOne DEF CancelPendingWait
<1>. QED
  BY <1>1, <1>2 DEF TypeOK, MaybeIrp

-----------------------------------------------------------------------------
(* The invariant holds before the device exists. *)
LEMMA InitIInv == Init => IInv
<1>. SUFFICES ASSUME Init PROVE IInv
  OBVIOUS
<1>1. FlagsOK
  BY DEF Init, FlagsOK
<1>2. TypeOK
  BY <1>1 DEF Init, TypeOK, Resources, Operations, MaybeIrp
<1>3. PendingHasOneOwner /\ \A i \in Irps : RequestInv(i)
  BY NoIrpAssumption DEF Init, PendingHasOneOwner, RequestInv, Running
<1>4. HardwareInv /\ PowerInv
  BY DEF Init, HardwareInv, PowerInv
<1>. QED
  BY <1>2, <1>3, <1>4 DEF IInv

(* The flags are Booleans after every step. *)
LEMMA FlagsStep == FlagsOK /\ [Next]_vars => FlagsOK'
<1>. SUFFICES ASSUME FlagsOK, [Next]_vars PROVE FlagsOK'
  OBVIOUS
<1>. USE DEF FlagsOK, hardware, flags, below, dpc, LowerAnswers
<1>1. ASSUME NEW i \in Irps, Dispatch(i) \/ Request(i) PROVE FlagsOK'
  BY <1>1, Zenon DEF Dispatch, Request, AccessRegister, AcknowledgeInterrupt, CheckReady,
     StorePending, CancelWaitIoctl, AnswerCancel
<1>2. CASE InjectInterrupt \/ InterruptService \/ DpcTake \/ DpcFinish \/ CompletionRoutine
  BY <1>2, Zenon DEF InjectInterrupt, InterruptService, DpcTake, DpcFinish, CompletionRoutine
<1>3. CASE AddDevice
  BY <1>3, Zenon DEF AddDevice
<1>4. CASE ManagerRequest
  <2>1. Removed' \in BOOLEAN
    BY <1>4 DEF ManagerRequest
  <2>. QED
    BY <1>4, <2>1, Zenon DEF ManagerRequest
<1>5. CASE ManagerStep
  <2>1. CASE Forward
    <3>1. lowerOk' \in BOOLEAN /\ event' \in BOOLEAN /\ lowerBusy' \in BOOLEAN
      BY <2>1 DEF Forward
    <3>2. UNCHANGED <<flags, asserted, dpc, bugcheck>>
      BY <2>1 DEF Forward
    <3>. QED
      BY <3>1, <3>2, Zenon
  <2>2. CASE EventSet \/ MapHardware \/ ConnectInterrupt \/ HardwareStarted \/ PowerUp
    BY <2>2, Zenon DEF EventSet, MapHardware, ConnectInterrupt, HardwareStarted, PowerUp
  <2>3. CASE \/ QuiesceCancel \/ PowerOff \/ DisconnectInterrupt \/ UnmapHardware
             \/ HardwareStopped \/ DeleteDevice
    BY <2>3, Zenon DEF QuiesceCancel, PowerOff, DisconnectInterrupt, UnmapHardware,
            HardwareStopped, DeleteDevice
  <2>. QED
    BY <1>5, <2>1, <2>2, <2>3 DEF ManagerStep
<1>6. CASE WildAccess \/ UNCHANGED vars
  BY <1>6, Zenon DEF WildAccess, vars
<1>. QED
  BY <1>1, <1>2, <1>3, <1>4, <1>5, <1>6 DEF Next, Finished

(* A step that leaves packets, slot and DPC alone keeps what is said of them. *)
LEMMA PacketsUnchanged ==
    ASSUME IInv, UNCHANGED <<irp, pc, PendingInterruptIrp, dpcIrp>>
    PROVE  PendingHasOneOwner' /\ \A i \in Irps : RequestInv(i)'
BY DEF IInv, PendingHasOneOwner, RequestInv

(* A step of neither the manager nor the lower device keeps what is said of *)
(* the resources and of the power states.                                   *)
LEMMA HardwareUnchanged ==
    ASSUME IInv, UNCHANGED <<manager, hardware, below>>
    PROVE  HardwareInv' /\ PowerInv'
BY DEF IInv, HardwareInv, PowerInv, manager, hardware, flags, below

(* A request that was dispatched, or arrives, may be answered. *)
LEMMA AnswerEffect ==
    ASSUME IInv, FlagsOK', NEW i \in Irps, irp[i] \in {"new", "dispatched"}, Answer(i),
           UNCHANGED <<hardware, PendingInterruptIrp, manager, below, dpc>>
    PROVE  IInv'
<1>. USE DEF IInv
<1>1. /\ irp' = [irp EXCEPT ![i] = "completed"]
      /\ pc' = [pc EXCEPT ![i] = "done"]
  BY CompleteOne DEF Answer, Goto, TypeOK
<1>2. TypeOK'
  BY <1>1 DEF TypeOK, hardware, manager, below, dpc
<1>3. PendingHasOneOwner' /\ \A j \in Irps : RequestInv(j)'
  BY <1>1 DEF TypeOK, PendingHasOneOwner, RequestInv, Running, dpc, hardware
<1>. QED
  BY <1>2, <1>3, HardwareUnchanged

(* A request that goes on keeps its packet. *)
LEMMA GotoEffect ==
    ASSUME IInv, FlagsOK', NEW i \in Irps, NEW loc \in Running, pc[i] \in Running, Goto(i, loc),
           UNCHANGED <<irp, hardware, PendingInterruptIrp, manager, below, asserted, dpc>>
    PROVE  IInv'
<1>. USE DEF IInv
<1>1. TypeOK'
  BY DEF TypeOK, Goto, Running, hardware, manager, below, dpc
<1>2. PendingHasOneOwner' /\ \A j \in Irps : RequestInv(j)'
  BY DEF TypeOK, PendingHasOneOwner, RequestInv, Running, Goto, dpc, hardware
<1>. QED
  BY <1>1, <1>2, HardwareUnchanged

(* The dispatch routine hands the packet to a service or answers it. *)
LEMMA DispatchStep ==
    ASSUME IInv, FlagsOK', NEW i \in Irps, Dispatch(i)
    PROVE  IInv'
<1>. USE DEF IInv
<1>1. pc[i] = "idle" /\ irp[i] = "new"
  BY DEF Dispatch, RequestInv
<1>2. UNCHANGED <<hardware, PendingInterruptIrp, manager, below, asserted, dpc>>
  BY DEF Dispatch
<1>3. PICK k \in Kinds :
        IF k # "local" /\ Ready /\ "mmio" \in held
        THEN /\ irp' = [irp EXCEPT ![i] = "dispatched"]
             /\ \E loc \in FirstLocations(k) : Goto(i, loc)
        ELSE Answer(i)
  BY DEF Dispatch
<1>4. CASE k # "local" /\ Ready /\ "mmio" \in held
  <2>. PICK loc \in FirstLocations(k) : Goto(i, loc)
    BY <1>3, <1>4
  <2>1. loc \in Running
    BY <1>4 DEF FirstLocations, Kinds, Running
  <2>2. /\ irp' = [irp EXCEPT ![i] = "dispatched"]
        /\ pc' = [pc EXCEPT ![i] = loc]
    BY <1>3, <1>4 DEF Goto
  <2>3. TypeOK'
    BY <1>2, <2>1, <2>2 DEF TypeOK, Running, hardware, manager, below, dpc
  <2>4. PendingHasOneOwner' /\ \A j \in Irps : RequestInv(j)'
    BY <1>1, <1>2, <2>1, <2>2 DEF TypeOK, PendingHasOneOwner, RequestInv, Running, dpc
  <2>. QED
    BY <1>2, <2>3, <2>4, HardwareUnchanged
<1>5. CASE ~(k # "local" /\ Ready /\ "mmio" \in held)
  BY <1>1, <1>2, <1>3, <1>5, AnswerEffect
<1>. QED
  BY <1>4, <1>5

(* The services of the dispatch routine. *)
LEMMA RequestStep ==
    ASSUME IInv, FlagsOK', NEW i \in Irps, Request(i)
    PROVE  IInv'
<1>. USE DEF IInv
<1>0. pc[i] \in Running => irp[i] = "dispatched"
  BY DEF RequestInv
<1>2. CASE AccessRegister(i) \/ AcknowledgeInterrupt(i)
  BY <1>0, <1>2, AnswerEffect DEF AccessRegister, AcknowledgeInterrupt, Running
<1>3. CASE CheckReady(i)
  <2>1. CASE Ready
    BY <1>3, <2>1, GotoEffect DEF CheckReady, Running
  <2>2. CASE ~Ready
    BY <1>0, <1>3, <2>2, AnswerEffect DEF CheckReady, Running
  <2>. QED
    BY <2>1, <2>2
<1>4. CASE StorePending(i)
  <2>1. CASE PendingInterruptIrp # NoIrp
    BY <1>0, <1>4, <2>1, AnswerEffect DEF StorePending, Running
  <2>2. CASE PendingInterruptIrp = NoIrp
    <3>1. /\ PendingInterruptIrp' = i
          /\ irp' = [irp EXCEPT ![i] = "pending"]
          /\ pc' = [pc EXCEPT ![i] = "done"]
          /\ UNCHANGED <<hardware, manager, below, asserted, dpc>>
      BY <1>4, <2>2 DEF StorePending, Goto
    <3>2. pc[i] = "store" /\ irp[i] = "dispatched"
      BY <1>0, <1>4 DEF StorePending, Running
    <3>3. TypeOK'
      BY <3>1 DEF TypeOK, MaybeIrp, hardware, manager, below, dpc
    <3>4. PendingHasOneOwner' /\ \A j \in Irps : RequestInv(j)'
      BY <2>2, <3>1, <3>2, NoIrpAssumption
         DEF TypeOK, PendingHasOneOwner, RequestInv, Running, dpc, hardware
    <3>. QED
      BY <3>1, <3>3, <3>4, HardwareUnchanged
  <2>. QED
    BY <2>1, <2>2
<1>5. CASE CancelWaitIoctl(i)
  <2>1. /\ PendingInterruptIrp' = NoIrp
        /\ \/ PendingInterruptIrp = NoIrp /\ irp' = irp
           \/ /\ PendingInterruptIrp \in Irps
              /\ irp[PendingInterruptIrp] = "pending"
              /\ irp' = [irp EXCEPT ![PendingInterruptIrp] = "completed"]
    BY <1>5, CancelPendingEffect DEF CancelWaitIoctl
  <2>2. /\ pc[i] = "cancel" /\ irp[i] = "dispatched"
        /\ pc' = [pc EXCEPT ![i] = "answer"]
        /\ UNCHANGED <<hardware, manager, below, asserted, dpc>>
    BY <1>0, <1>5 DEF CancelWaitIoctl, Goto, Running
  <2>3. TypeOK'
    BY <2>1, <2>2 DEF TypeOK, MaybeIrp, hardware, manager, below, dpc
  <2>4. PendingHasOneOwner' /\ \A j \in Irps : RequestInv(j)'
    BY <2>1, <2>2, NoIrpAssumption
       DEF TypeOK, MaybeIrp, PendingHasOneOwner, RequestInv, Running, dpc, hardware
  <2>. QED
    BY <2>2, <2>3, <2>4, HardwareUnchanged
<1>6. CASE AnswerCancel(i)
  BY <1>0, <1>6, AnswerEffect DEF AnswerCancel, Running
<1>. QED
  BY <1>2, <1>3, <1>4, <1>5, <1>6 DEF Request

(* The host's interrupt, the ISR and the DPC. *)
LEMMA InterruptStep ==
    ASSUME IInv, FlagsOK',
           InjectInterrupt \/ InterruptService \/ DpcTake \/ DpcFinish
    PROVE  IInv'
<1>. USE DEF IInv
<1>1. CASE InjectInterrupt \/ InterruptService
  <2>1. /\ UNCHANGED <<irp, pc, PendingInterruptIrp, dpcIrp>>
        /\ UNCHANGED <<hardware, manager, below>>
    BY <1>1 DEF InjectInterrupt, InterruptService, req, dpc
  <2>2. TypeOK'
    BY <2>1 DEF TypeOK, hardware, manager, below
  <2>. QED
    BY <2>1, <2>2, PacketsUnchanged, HardwareUnchanged
<1>2. CASE DpcTake
  <2>1. /\ dpcIrp = NoIrp
        /\ dpcIrp' = PendingInterruptIrp
        /\ PendingInterruptIrp' = NoIrp
        /\ UNCHANGED <<hardware, manager, below, req>>
    BY <1>2 DEF DpcTake
  <2>2. TypeOK'
    BY <2>1 DEF TypeOK, MaybeIrp, hardware, manager, below, req
  <2>3. PendingHasOneOwner' /\ \A i \in Irps : RequestInv(i)'
    BY <2>1, NoIrpAssumption DEF PendingHasOneOwner, RequestInv, req, hardware
  <2>. QED
    BY <2>1, <2>2, <2>3, HardwareUnchanged
<1>3. CASE DpcFinish
  <2>1. dpcIrp \in Irps /\ irp[dpcIrp] = "pending"
    BY <1>3 DEF DpcFinish, TypeOK, MaybeIrp, PendingHasOneOwner
  <2>2. /\ irp' = [irp EXCEPT ![dpcIrp] = "completed"]
        /\ dpcIrp' = NoIrp
        /\ UNCHANGED <<hardware, manager, below, PendingInterruptIrp, pc>>
    BY <1>3, <2>1, CompleteOne DEF DpcFinish
  <2>3. TypeOK'
    BY <2>1, <2>2 DEF TypeOK, MaybeIrp, hardware, manager, below
  <2>4. PendingHasOneOwner' /\ \A i \in Irps : RequestInv(i)'
    BY <2>1, <2>2, NoIrpAssumption
       DEF TypeOK, MaybeIrp, PendingHasOneOwner, RequestInv, Running, hardware
  <2>. QED
    BY <2>2, <2>3, <2>4, HardwareUnchanged
<1>. QED
  BY <1>1, <1>2, <1>3

(* The device below, which answers at once or later. *)
LEMMA LowerStep ==
    ASSUME IInv, FlagsOK', Forward \/ CompletionRoutine \/ EventSet
    PROVE  IInv'
<1>. USE DEF IInv
<1>1. UNCHANGED <<irp, pc, PendingInterruptIrp, dpcIrp, hardware, op, asserted, dpc>>
  BY DEF Forward, CompletionRoutine, EventSet, req, dpc, manager
<1>2. lower' \in {"D0", "D3"}
  BY DEF Forward, CompletionRoutine, EventSet, LowerAnswers, TypeOK, below
<1>3. \/ mpc' = mpc \/ mpc' \in {"wait", "delete", "idle", "up"}
      \/ mpc' = "map" /\ ~Started
  BY DEF Forward, CompletionRoutine, EventSet, AfterForward, manager
<1>4. TypeOK'
  BY <1>1, <1>2, <1>3 DEF TypeOK, hardware, flags
<1>5. HardwareInv'
  BY <1>1, <1>3 DEF Forward, CompletionRoutine, EventSet, PowerInv, HardwareInv, hardware, flags,
         manager
<1>6. PowerInv'
  <2>1. CASE Forward
    <3>1. CASE mpc' = "wait" /\ UNCHANGED <<lower, lowerOk>> /\ ~event'
      BY <1>1, <2>1, <3>1 DEF Forward, PowerInv, hardware, flags
    <3>2. ASSUME NEW ok \in BOOLEAN, LowerAnswers(ok), mpc' = AfterForward(ok), UNCHANGED lowerBusy
          PROVE  PowerInv'
      BY <1>1, <2>1, <3>2
         DEF Forward, PowerInv, LowerAnswers, AfterForward, TypeOK, Operations, Up, Down, hardware,
             flags
    <3>. QED
      BY <2>1, <3>1, <3>2 DEF Forward
  <2>2. CASE CompletionRoutine
    <3>1. PICK ok \in BOOLEAN : LowerAnswers(ok)
      BY <2>2 DEF CompletionRoutine
    <3>. QED
      BY <1>1, <2>2, <3>1
         DEF CompletionRoutine, PowerInv, LowerAnswers, TypeOK, Operations, Up, Down, hardware,
             flags, manager
  <2>3. CASE EventSet
    BY <1>1, <2>3
       DEF EventSet, PowerInv, AfterForward, TypeOK, Operations, Up, Down, hardware, flags, below
  <2>. QED
    BY <2>1, <2>2, <2>3
<1>. QED
  BY <1>1, <1>4, <1>5, <1>6, PacketsUnchanged

(* The manager thread. *)
LEMMA ManagerKeeps ==
    ASSUME IInv, FlagsOK', AddDevice \/ ManagerRequest \/ ManagerStep
    PROVE  IInv'
<1>. USE DEF IInv, Up, Down
<1>1. CASE AddDevice \/ ManagerRequest
  <2>. USE <1>1 DEF AddDevice, ManagerRequest
  <2>1. UNCHANGED <<irp, pc, PendingInterruptIrp, dpcIrp>>
    BY DEF req, dpc
  <2>2. TypeOK'
    BY DEF TypeOK, req, dpc, flags, below
  <2>3. HardwareInv'
    BY DEF HardwareInv, flags
  <2>4. PowerInv'
    BY DEF PowerInv, Operations, flags, below
  <2>. QED
    BY <2>1, <2>2, <2>3, <2>4, PacketsUnchanged
<1>2. CASE Forward \/ EventSet
  BY <1>2, LowerStep
<1>3. CASE MapHardware \/ ConnectInterrupt
  <2>. USE <1>3 DEF MapHardware, ConnectInterrupt
  <2>1. UNCHANGED <<irp, pc, PendingInterruptIrp, dpcIrp>>
    BY DEF req, dpc
  <2>2. TypeOK'
    BY DEF TypeOK, Resources, req, dpc, below
  <2>3. HardwareInv'
    BY DEF HardwareInv, Resources, flags
  <2>4. PowerInv'
    BY DEF PowerInv, flags, below
  <2>. QED
    BY <2>1, <2>2, <2>3, <2>4, PacketsUnchanged
<1>4. CASE HardwareStarted \/ PowerUp \/ PowerOff
  <2>. USE <1>4 DEF HardwareStarted, PowerUp, PowerOff
  <2>1. UNCHANGED <<irp, pc, PendingInterruptIrp, dpcIrp>>
    BY DEF req, dpc
  <2>2. TypeOK'
    BY DEF TypeOK, req, dpc, below
  <2>3. HardwareInv'
    BY DEF HardwareInv, Resources
  <2>4. PowerInv'
    BY DEF PowerInv, below
  <2>. QED
    BY <2>1, <2>2, <2>3, <2>4, PacketsUnchanged
<1>5. CASE QuiesceCancel
  <2>1. /\ PendingInterruptIrp' = NoIrp
        /\ \/ PendingInterruptIrp = NoIrp /\ irp' = irp
           \/ /\ PendingInterruptIrp \in Irps
              /\ irp[PendingInterruptIrp] = "pending"
              /\ irp' = [irp EXCEPT ![PendingInterruptIrp] = "completed"]
    BY <1>5, CancelPendingEffect DEF QuiesceCancel
  <2>2. TypeOK'
    BY <1>5, <2>1 DEF QuiesceCancel, TypeOK, MaybeIrp, hardware, flags, dpc, below
  <2>3. PendingHasOneOwner' /\ \A i \in Irps : RequestInv(i)'
    BY <1>5, <2>1, NoIrpAssumption
       DEF QuiesceCancel, TypeOK, MaybeIrp, PendingHasOneOwner, RequestInv, Running, dpc
  <2>4. HardwareInv' /\ PowerInv'
    BY <1>5 DEF QuiesceCancel, HardwareInv, PowerInv, hardware, flags, below
  <2>. QED
    BY <2>2, <2>3, <2>4
<1>6. CASE DisconnectInterrupt \/ UnmapHardware \/ HardwareStopped \/ DeleteDevice
  <2>. USE <1>6 DEF DisconnectInterrupt, UnmapHardware, HardwareStopped, DeleteDevice
  <2>1. UNCHANGED <<irp, pc, PendingInterruptIrp, dpcIrp>>
    BY DEF req, dpc
  <2>2. TypeOK'
    BY DEF TypeOK, req, dpc, below, flags
  <2>3. HardwareInv'
    BY DEF HardwareInv, Resources, flags
  <2>4. PowerInv'
    BY DEF PowerInv, flags, below
  <2>. QED
    BY <2>1, <2>2, <2>3, <2>4, PacketsUnchanged
<1>. QED
  BY <1>1, <1>2, <1>3, <1>4, <1>5, <1>6 DEF ManagerStep

(* Every step keeps the invariant. *)
LEMMA NextIInv == IInv /\ [Next]_vars => IInv'
<1>. SUFFICES ASSUME IInv, [Next]_vars PROVE IInv'
  OBVIOUS
<1>0. FlagsOK'
  BY FlagsStep DEF IInv, TypeOK
<1>1. ASSUME WildAccess \/ UNCHANGED vars PROVE IInv'
  <2>1. UNCHANGED <<hardware, PendingInterruptIrp, manager, req, dpc, below, asserted>>
    BY <1>1 DEF WildAccess, vars
  <2>2. TypeOK'
    BY <1>0, <2>1 DEF IInv, TypeOK, hardware, manager, req, dpc, below
  <2>. QED
    BY <2>1, <2>2, PacketsUnchanged, HardwareUnchanged DEF IInv, req, dpc
<1>. QED
  BY <1>0, <1>1, DispatchStep, RequestStep, InterruptStep, LowerStep, ManagerKeeps
     DEF Next, Finished

-----------------------------------------------------------------------------
(* The inductive invariant holds of every behaviour of the driver. *)
THEOREM Invariance == Spec => []IInv
BY InitIInv, NextIInv, PTL DEF Spec

(* Every variable keeps to its values.  No packet is ever completed twice:  *)
(* the DPC, CANCEL_WAIT, a power-down and STOP or REMOVE share the slot.    *)
THEOREM TypeCorrect == Spec => []TypeOK
<1>1. IInv => TypeOK
  BY DEF IInv
<1>. QED
  BY <1>1, Invariance, PTL

(* The packets marked pending are exactly the one in the slot and the one   *)
(* the DPC took from it.                                                    *)
THEOREM OneOwner == Spec => []PendingHasOneOwner
<1>1. IInv => PendingHasOneOwner
  BY DEF IInv
<1>. QED
  BY <1>1, Invariance, PTL

-----------------------------------------------------------------------------
(* A step of the abstract slot, or none; and what is proved of the slot. *)
SlotStep == [Slot!Next]_Slot!slotVars
Theory == INSTANCE WaitSlotProofs WITH stage <- irp, slot <- PendingInterruptIrp, hand <- dpcIrp

(* An answer to a packet that is not pending is a step of the slot.         *)
LEMMA AnswerIsSlotStep ==
    ASSUME IInv, NEW i \in Irps, pc[i] \in Running \cup {"idle"}, Answer(i),
           UNCHANGED <<PendingInterruptIrp, dpcIrp>>
    PROVE  SlotStep
<1>1. irp[i] \in {"new", "dispatched"}
  BY DEF IInv, RequestInv
<1>2. irp' = [irp EXCEPT ![i] = "completed"]
  BY <1>1, CompleteOne DEF IInv, Answer
<1>. QED
  BY <1>1, <1>2 DEF SlotStep, Slot!Next, Slot!Answer, Slot!Advance

(* So is the sweep of the slot, by whatever cancels.                        *)
LEMMA CancelIsSlotStep ==
    ASSUME IInv, CancelPendingWait, UNCHANGED dpcIrp
    PROVE  SlotStep
BY CancelPendingEffect, NoIrpAssumption
   DEF IInv, SlotStep, Slot!Next, Slot!slotVars, Slot!Cancel, Slot!Advance

(* Each step of the driver is one of the slot, or leaves it alone.          *)
LEMMA SlotRefined == IInv /\ [Next]_vars => SlotStep
<1>. SUFFICES ASSUME IInv, [Next]_vars PROVE SlotStep
  OBVIOUS
<1>1. UNCHANGED <<irp, PendingInterruptIrp, dpcIrp>> => SlotStep
  BY DEF SlotStep, Slot!slotVars
<1>2. ASSUME NEW i \in Irps, Dispatch(i) PROVE SlotStep
  <2>1. CASE Answer(i)
    BY <1>2, <2>1, AnswerIsSlotStep DEF Dispatch, dpc
  <2>2. CASE ~Answer(i)
    BY <1>2, <2>2
       DEF Dispatch, IInv, RequestInv, dpc, SlotStep, Slot!Next, Slot!Dispatch, Slot!Advance
  <2>. QED
    BY <2>1, <2>2
<1>3. ASSUME NEW i \in Irps, Request(i) PROVE SlotStep
  <2>1. CASE AccessRegister(i) \/ AcknowledgeInterrupt(i) \/ AnswerCancel(i)
    BY <2>1, AnswerIsSlotStep DEF AccessRegister, AcknowledgeInterrupt, AnswerCancel, Running, dpc
  <2>2. CASE CheckReady(i)
    BY <1>1, <2>2, AnswerIsSlotStep DEF CheckReady, Running, req, dpc
  <2>3. CASE StorePending(i)
    <3>1. CASE PendingInterruptIrp # NoIrp
      BY <2>3, <3>1, AnswerIsSlotStep DEF StorePending, Running, dpc
    <3>2. CASE PendingInterruptIrp = NoIrp
      BY <2>3, <3>2 DEF StorePending, Running, IInv, RequestInv, dpc, SlotStep, Slot!Next,
                        Slot!Pend, Slot!Advance
    <3>. QED
      BY <3>1, <3>2
  <2>4. CASE CancelWaitIoctl(i)
    BY <2>4, CancelIsSlotStep DEF CancelWaitIoctl, dpc
  <2>. QED
    BY <1>3, <2>1, <2>2, <2>3, <2>4 DEF Request
<1>4. CASE DpcTake
  BY <1>1, <1>4 DEF DpcTake, req, SlotStep, Slot!Next, Slot!Take
<1>5. CASE DpcFinish
  <2>1. dpcIrp \in Irps /\ irp[dpcIrp] = "pending"
    BY <1>5 DEF DpcFinish, IInv, TypeOK, MaybeIrp, PendingHasOneOwner
  <2>2. irp' = [irp EXCEPT ![dpcIrp] = "completed"]
    BY <1>5, <2>1, CompleteOne DEF DpcFinish, IInv
  <2>. QED
    BY <1>5, <2>2 DEF DpcFinish, SlotStep, Slot!Next, Slot!Finish, Slot!Advance
<1>6. CASE QuiesceCancel
  BY <1>6, CancelIsSlotStep DEF QuiesceCancel, dpc
<1>7. CASE InjectInterrupt \/ InterruptService \/ CompletionRoutine \/ AddDevice \/ ManagerRequest
  BY <1>1, <1>7 DEF InjectInterrupt, InterruptService, CompletionRoutine, AddDevice,
     ManagerRequest, req, dpc
<1>8. CASE ManagerStep
  BY <1>1, <1>6, <1>8
     DEF ManagerStep, Forward, EventSet, MapHardware, ConnectInterrupt, HardwareStarted, PowerUp,
        PowerOff, DisconnectInterrupt, UnmapHardware, HardwareStopped, DeleteDevice, req, dpc
<1>9. CASE WildAccess \/ UNCHANGED vars
  BY <1>1, <1>9 DEF WildAccess, vars, req, dpc
<1>. QED
  BY <1>2, <1>3, <1>4, <1>5, <1>6, <1>7, <1>8, <1>9 DEF Next, Finished

(* The driver implements the discipline of the slot.                        *)
THEOREM ImplementsWaitSlot == Spec => WaitSlotSpec
<1>1. Init => Slot!Init
  BY DEF Init, Slot!Init
<1>. QED
  BY <1>1, SlotRefined, Invariance, PTL DEF Spec, WaitSlotSpec, Slot!Spec, SlotStep

(* So each packet goes through the request protocol of the I/O manager, and *)
(* is completed once.                                                       *)
THEOREM ImplementsIrpProtocol == Spec => Slot!IrpProtocolSpec
<1>1. Slot!Init => Theory!Init
  BY DEF Slot!Init, Theory!Init
<1>2. [Slot!Next]_Slot!slotVars => [Theory!Next]_Theory!slotVars
  BY DEF Slot!Next, Slot!slotVars, Slot!Dispatch, Slot!Answer, Slot!Pend, Slot!Take, Slot!Finish,
         Slot!Cancel, Slot!Advance, Theory!Next, Theory!slotVars, Theory!Dispatch, Theory!Answer,
         Theory!Pend, Theory!Take, Theory!Finish, Theory!Cancel, Theory!Advance
<1>3. Theory!Spec => Theory!IrpProtocolSpec
  BY NoIrpAssumption, Theory!SlotImplementsIrpProtocol
<1>4. Theory!Protocol!Init => Slot!Protocol!Init
  BY DEF Theory!Protocol!Init, Slot!Protocol!Init
<1>5. [Theory!Protocol!Next]_irp => [Slot!Protocol!Next]_irp
  BY DEF Theory!Protocol!Next, Theory!Protocol!Dispatch, Theory!Protocol!MarkPending,
         Theory!Protocol!Complete, Slot!Protocol!Next, Slot!Protocol!Dispatch,
         Slot!Protocol!MarkPending, Slot!Protocol!Complete
<1>. QED
  BY <1>1, <1>2, <1>3, <1>4, <1>5, ImplementsWaitSlot, PTL
     DEF WaitSlotSpec, Slot!Spec, Slot!IrpProtocolSpec, Slot!Protocol!Spec, Theory!Spec,
         Theory!IrpProtocolSpec, Theory!Protocol!Spec

-----------------------------------------------------------------------------
(* This device is powered only over a lower device in D0, whatever that one *)
(* answers, at once or late.                                                *)
THEOREM PowerOrder == Spec => []PoweredOverLower
<1>1. IInv => PoweredOverLower
  BY DEF IInv, PowerInv, PoweredOverLower
<1>. QED
  BY <1>1, Invariance, PTL

(* Between requests of the managers the driver holds both resources or      *)
(* none, whichever step of START_DEVICE failed, and a request that finds    *)
(* the readiness gate open finds both.                                      *)
THEOREM StartIsAtomic == Spec => []ResourcesFollowStarted
<1>1. IInv => ResourcesFollowStarted
  BY DEF IInv, TypeOK, HardwareInv, PowerInv, Resources, ResourcesFollowStarted, Ready
<1>. QED
  BY <1>1, Invariance, PTL

(* PowerPnpForwardIrpSynchronously waits with no timeout for an event on    *)
(* its own stack.  The lower device has the IRP exactly while the thread    *)
(* waits for an event that is not set: the wake-up is never lost, and no    *)
(* completion routine sets an event whose stack frame is gone.              *)
EventMatchesIrp == lowerBusy <=> mpc = "wait" /\ ~event

(* The safety core of ManagerAnswered: a waiting thread has a waker.        *)
THEOREM WaiterHasWaker == Spec => []EventMatchesIrp
<1>1. Init => EventMatchesIrp
  BY DEF Init, EventMatchesIrp
<1>2. EventMatchesIrp /\ [Next]_vars => EventMatchesIrp'
  <2>. SUFFICES ASSUME EventMatchesIrp, [Next]_vars PROVE EventMatchesIrp'
    OBVIOUS
  <2>. USE DEF EventMatchesIrp, manager, below
  <2>1. ASSUME NEW i \in Irps, Dispatch(i) \/ Request(i) PROVE EventMatchesIrp'
    BY <2>1 DEF Dispatch, Request, AccessRegister, AcknowledgeInterrupt, CheckReady, StorePending,
               CancelWaitIoctl, AnswerCancel
  <2>2. CASE \/ InjectInterrupt \/ InterruptService \/ DpcTake \/ DpcFinish \/ WildAccess
           \/ UNCHANGED vars
    BY <2>2 DEF InjectInterrupt, InterruptService, DpcTake, DpcFinish, WildAccess, vars
  <2>3. CASE Forward \/ EventSet \/ CompletionRoutine
    BY <2>3 DEF Forward, EventSet, CompletionRoutine, AfterForward
  <2>4. CASE AddDevice \/ ManagerRequest
    BY <2>4 DEF AddDevice, ManagerRequest
  <2>5. CASE ManagerStep
    BY <2>3, <2>5
       DEF ManagerStep, MapHardware, ConnectInterrupt, HardwareStarted, PowerUp, QuiesceCancel,
           PowerOff, DisconnectInterrupt, UnmapHardware, HardwareStopped, DeleteDevice
  <2>. QED
    BY <2>1, <2>2, <2>3, <2>4, <2>5 DEF Next, Finished
<1>. QED
  BY <1>1, <1>2, PTL DEF Spec
=============================================================================
