----------------------- MODULE PnpMmioInterruptProofs -----------------------
(***************************************************************************)
(* For any number of requests, any width of a ULONG, any register window   *)
(* and any offsets: pnp_mmio_interrupt_test_driver completes no packet     *)
(* twice, undoes a failed START_DEVICE, and lets no client reach beyond    *)
(* the registers of its device.                                            *)
(***************************************************************************)
EXTENDS PnpMmioInterrupt, TLAPS

(* The packets marked pending are the one in the slot and the one that the  *)
(* DPC took from it.                                                        *)
PendingHasOneOwner ==
    /\ PendingInterruptIrp = dpcIrp => dpcIrp = NoIrp
    /\ \A i \in Irps : irp[i] = "pending" <=> i \in {PendingInterruptIrp, dpcIrp}

(* Where the dispatch routine still answers for the packet. *)
Running == {"fixed", "offset", "access", "ack", "check", "store", "cancel", "answer"}

(* What the location of a request says of its packet and of its offset. *)
RequestInv(i) ==
    /\ pc[i] = "idle" => irp[i] = "new"
    /\ pc[i] \in Running => irp[i] = "dispatched"
    /\ pc[i] \in {"access", "ack"} => offset[i] % 4 = 0 /\ offset[i] + 4 <= window

(* What the location of the manager thread says of the resources. *)
HardwareInv ==
    /\ mpc \in {"absent", "idle", "forward", "wait", "cancel", "disconnect", "delete", "gone"}
          => held = IF Started THEN Resources ELSE {}
    /\ mpc \in {"map", "connect", "started"} => ~Started
    /\ mpc \in {"map", "stopped"} => held = {}
    /\ mpc = "connect" => held = {"mmio"}
    /\ mpc = "started" => held = Resources
    /\ mpc = "unmap" => held = IF Started THEN {"mmio"} ELSE {}
    /\ MmioLength = IF "mmio" \in held THEN window ELSE 0

(* The inductive invariant.  An offset was checked against a length that is *)
(* the window's or, when nothing was mapped, zero, and zero lets none pass: *)
(* this is why a restart between check and access is harmless.              *)
IInv ==
    /\ TypeOK
    /\ PendingHasOneOwner
    /\ \A i \in Irps : RequestInv(i)
    /\ HardwareInv

-----------------------------------------------------------------------------
(* The check of an offset, with ULONG arithmetic, is the one intended. *)
LEMMA CheckedOffset ==
    ASSUME NEW len \in 0 .. Word - 1, NEW off \in 0 .. Word - 1, ValidReg32Offset(len, off)
    PROVE  off % 4 = 0 /\ off + 4 <= len
BY WordAssumption DEF ValidReg32Offset, Minus

(* And it refuses nothing else: an offset passes exactly if it is that of   *)
(* an aligned register which lies inside the window as a whole.  The        *)
(* difference never wraps, since a window too short for a register is       *)
(* refused first.                                                           *)
THEOREM OffsetCheckExact ==
    ASSUME NEW len \in 0 .. Word - 1, NEW off \in 0 .. Word - 1
    PROVE  ValidReg32Offset(len, off) <=> off % 4 = 0 /\ off + 4 <= len
BY CheckedOffset, WordAssumption DEF ValidReg32Offset, Minus

(* The first memory descriptor of every resource list is the window. *)
LEMMA FirstMemoryIsWindow ==
    ASSUME NEW list \in ResourceLists, NEW m \in DOMAIN list, FoundAt(list, "memory", m)
    PROVE  list[m].length = window
<1>. USE DEF FoundAt, Memory, Interrupt, Other
<1>1. CASE list = <<>>
  BY <1>1
<1>2. CASE list = <<Interrupt>>
  BY <1>2
<1>3. CASE list = <<Other, Memory(window)>>
  BY <1>3
<1>4. CASE list = <<Memory(window), Interrupt>>
  BY <1>4
<1>5. CASE list = <<Interrupt, Interrupt, Other, Memory(window), Memory(Word - 1)>>
  <2>1. DOMAIN list = 1 .. 5 /\ list[4].type = "memory"
    BY <1>5
  <2>2. m # 5
    BY <2>1
  <2>. QED
    BY <1>5, <2>1, <2>2
<1>. QED
  BY <1>1, <1>2, <1>3, <1>4, <1>5 DEF ResourceLists

(* Completing nothing leaves the packets as they are. *)
LEMMA CompleteNone ==
    ASSUME TypeOK, Complete({})
    PROVE  irp' = irp
<1>1. irp' = [i \in Irps |-> irp[i]]
  BY DEF Complete
<1>. QED
  BY <1>1 DEF TypeOK

(* Completing a packet that is not completed completes that one only. *)
LEMMA CompleteOne ==
    ASSUME TypeOK, NEW i \in Irps, irp[i] # "completed", Complete({i})
    PROVE  irp' = [irp EXCEPT ![i] = "completed"]
BY DEF Complete, TypeOK

(* PnpitCancelPendingWait empties the slot and completes what was in it. *)
LEMMA CancelPendingEffect ==
    ASSUME TypeOK, PendingHasOneOwner, CancelPendingWait
    PROVE  /\ PendingInterruptIrp' = NoIrp
           /\ \/ PendingInterruptIrp = NoIrp /\ irp' = irp
              \/ /\ PendingInterruptIrp \in Irps
                 /\ irp[PendingInterruptIrp] = "pending"
                 /\ irp' = [irp EXCEPT ![PendingInterruptIrp] = "completed"]
<1>1. CASE PendingInterruptIrp = NoIrp
  <2>1. {PendingInterruptIrp} \cap Irps = {}
    BY <1>1, NoIrpAssumption
  <2>. QED
    BY <1>1, <2>1, CompleteNone DEF CancelPendingWait
<1>2. CASE PendingInterruptIrp \in Irps
  <2>1. {PendingInterruptIrp} \cap Irps = {PendingInterruptIrp}
    BY <1>2
  <2>2. irp[PendingInterruptIrp] = "pending"
    BY <1>2 DEF PendingHasOneOwner
  <2>. QED
    BY <1>2, <2>1, <2>2, CompleteOne DEF CancelPendingWait
<1>. QED
  BY <1>1, <1>2 DEF TypeOK, MaybeIrp

-----------------------------------------------------------------------------
(* The invariant holds before the device exists. *)
LEMMA InitIInv == Init => IInv
<1>. SUFFICES ASSUME Init PROVE IInv
  OBVIOUS
<1>1. FlagsOK
  BY DEF Init, FlagsOK
<1>2. TypeOK
  BY <1>1, WordAssumption DEF Init, TypeOK, Resources, Operations, MaybeIrp
<1>3. PendingHasOneOwner /\ \A i \in Irps : RequestInv(i)
  BY NoIrpAssumption DEF Init, PendingHasOneOwner, RequestInv, Running
<1>4. HardwareInv
  BY DEF Init, HardwareInv
<1>. QED
  BY <1>2, <1>3, <1>4 DEF IInv

(* The flags are Booleans after every step. *)
LEMMA FlagsStep == FlagsOK /\ [Next]_vars => FlagsOK'
<1>. SUFFICES ASSUME FlagsOK, [Next]_vars PROVE FlagsOK'
  OBVIOUS
<1>. USE DEF FlagsOK, hardware, flags, below, dpc
<1>1. ASSUME NEW i \in Irps, Dispatch(i) \/ Request(i) PROVE FlagsOK'
  BY <1>1, Zenon DEF Dispatch, Request, CheckOffset, AccessRegister, AcknowledgeInterrupt,
     CheckStarted, StorePending, CancelWaitIoctl, AnswerCancel
<1>2. CASE InjectInterrupt \/ InterruptService \/ DpcTake \/ DpcFinish \/ CompletionRoutine
  BY <1>2, Zenon DEF InjectInterrupt, InterruptService, DpcTake, DpcFinish, CompletionRoutine
<1>3. CASE AddDevice
  BY <1>3, Zenon DEF AddDevice
<1>4. CASE ManagerRequest
  <2>1. Removed' \in BOOLEAN
    BY <1>4 DEF ManagerRequest
  <2>. QED
    BY <1>4, <2>1, Zenon DEF ManagerRequest
<1>5. CASE ManagerStep
  BY <1>5, Zenon DEF ManagerStep, Forward, EventSet, MapHardware, ConnectInterrupt,
          HardwareStarted, StopCancels, DisconnectInterrupt, UnmapHardware, HardwareStopped,
          DeleteDevice
<1>6. ASSUME NEW i \in Irps, WildRequest(i) PROVE FlagsOK'
  BY <1>6, Zenon DEF WildRequest, Crash
<1>7. CASE WildDpc \/ UNCHANGED vars
  BY <1>7, Zenon DEF WildDpc, Crash, vars
<1>. QED
  BY <1>1, <1>2, <1>3, <1>4, <1>5, <1>6, <1>7 DEF Next, Finished

(* A step that leaves packets, slot and DPC alone keeps what is said of them. *)
LEMMA PacketsUnchanged ==
    ASSUME IInv, UNCHANGED <<irp, pc, offset, window, PendingInterruptIrp, dpcIrp>>
    PROVE  PendingHasOneOwner' /\ \A i \in Irps : RequestInv(i)'
BY DEF IInv, PendingHasOneOwner, RequestInv

(* A step that is not the manager's keeps what is said of the resources. *)
LEMMA HardwareUnchanged ==
    ASSUME IInv, UNCHANGED <<mpc, hardware>>
    PROVE  HardwareInv'
BY DEF IInv, HardwareInv, hardware, flags

(* A request that was dispatched, or arrives, may be answered. *)
LEMMA AnswerEffect ==
    ASSUME IInv, FlagsOK', NEW i \in Irps, irp[i] \in {"new", "dispatched"}, Answer(i),
           UNCHANGED <<hardware, PendingInterruptIrp, manager, below, dpc>>
    PROVE  IInv'
<1>. USE DEF IInv
<1>1. /\ irp' = [irp EXCEPT ![i] = "completed"]
      /\ pc' = [pc EXCEPT ![i] = "done"]
      /\ offset' = [offset EXCEPT ![i] = 0]
  BY CompleteOne DEF Answer, Goto, TypeOK
<1>2. TypeOK'
  BY <1>1, WordAssumption DEF TypeOK, hardware, manager, below, dpc
<1>3. PendingHasOneOwner' /\ \A j \in Irps : RequestInv(j)'
  BY <1>1 DEF TypeOK, PendingHasOneOwner, RequestInv, Running, dpc, hardware
<1>. QED
  BY <1>2, <1>3, HardwareUnchanged DEF manager

(* A request that goes on keeps its packet. *)
LEMMA GotoEffect ==
    ASSUME IInv, FlagsOK', NEW i \in Irps, NEW loc \in Running, pc[i] \in Running, Goto(i, loc),
           loc \in {"access", "ack"} => offset[i] % 4 = 0 /\ offset[i] + 4 <= window,
           UNCHANGED <<irp, offset, hardware, PendingInterruptIrp, manager, below, asserted, dpc>>
    PROVE  IInv'
<1>. USE DEF IInv
<1>1. TypeOK'
  BY DEF TypeOK, Goto, Running, hardware, manager, below, dpc
<1>2. PendingHasOneOwner' /\ \A j \in Irps : RequestInv(j)'
  BY DEF TypeOK, PendingHasOneOwner, RequestInv, Running, Goto, dpc, hardware
<1>. QED
  BY <1>1, <1>2, HardwareUnchanged DEF manager

(* The dispatch routine hands the packet to a service or answers it. *)
LEMMA DispatchStep ==
    ASSUME IInv, FlagsOK', NEW i \in Irps, Dispatch(i)
    PROVE  IInv'
<1>. USE DEF IInv
<1>1. pc[i] = "idle" /\ irp[i] = "new"
  BY DEF Dispatch, RequestInv
<1>2. UNCHANGED <<hardware, PendingInterruptIrp, manager, below, asserted, dpc>>
  BY DEF Dispatch
<1>3. PICK k \in Kinds :
        IF k # "local" /\ ~Removed /\ Started /\ "mmio" \in held
        THEN /\ irp' = [irp EXCEPT ![i] = "dispatched"]
             /\ Goto(i, FirstLocation(k))
             /\ IF k = "register" THEN \E off \in Offsets : offset' = [offset EXCEPT ![i] = off]
                                  ELSE UNCHANGED offset
        ELSE Answer(i)
  BY DEF Dispatch
<1>4. CASE k # "local" /\ ~Removed /\ Started /\ "mmio" \in held
  <2>1. FirstLocation(k) \in Running \ {"access", "ack"}
    BY <1>4 DEF FirstLocation, Kinds, Running
  <2>2. /\ irp' = [irp EXCEPT ![i] = "dispatched"]
        /\ pc' = [pc EXCEPT ![i] = FirstLocation(k)]
    BY <1>3, <1>4 DEF Goto
  <2>3. \E off \in 0 .. Word - 1 : offset' = [offset EXCEPT ![i] = off]
    <3>1. CASE k = "register"
      BY <1>3, <1>4, <3>1, WordAssumption
    <3>2. CASE k # "register"
      <4>1. offset' = [offset EXCEPT ![i] = offset[i]] /\ offset[i] \in 0 .. Word - 1
        BY <1>3, <1>4, <3>2 DEF TypeOK
      <4>. QED
        BY <4>1
    <3>. QED
      BY <3>1, <3>2
  <2>4. TypeOK'
    BY <1>2, <2>1, <2>2, <2>3 DEF TypeOK, Running, hardware, manager, below, dpc
  <2>5. PendingHasOneOwner'
    BY <1>1, <1>2, <2>2 DEF TypeOK, PendingHasOneOwner, dpc
  <2>6. \A j \in Irps : RequestInv(j)'
    BY <1>1, <1>2, <2>1, <2>2, <2>3 DEF TypeOK, RequestInv, Running, hardware
  <2>. QED
    BY <1>2, <2>4, <2>5, <2>6, HardwareUnchanged DEF manager
<1>5. CASE ~(k # "local" /\ ~Removed /\ Started /\ "mmio" \in held)
  BY <1>1, <1>2, <1>3, <1>5, AnswerEffect
<1>. QED
  BY <1>4, <1>5

(* The services of the dispatch routine. *)
LEMMA RequestStep ==
    ASSUME IInv, FlagsOK', NEW i \in Irps, Request(i)
    PROVE  IInv'
<1>. USE DEF IInv
<1>0. pc[i] \in Running => irp[i] = "dispatched"
  BY DEF RequestInv
<1>1. CASE CheckOffset(i)
  <2>1. pc[i] \in Running
    BY <1>1 DEF CheckOffset, Running
  <2>2. CASE ValidReg32Offset(MmioLength, offset[i])
    <3>1. offset[i] % 4 = 0 /\ offset[i] + 4 <= MmioLength
      BY <2>2, CheckedOffset DEF TypeOK
    <3>2. MmioLength = window
      BY <3>1 DEF HardwareInv, TypeOK
    <3>3. PICK loc \in {"access", "ack"} : Goto(i, loc) /\ UNCHANGED <<irp, offset>>
      BY <1>1, <2>2 DEF CheckOffset, Accesses
    <3>. QED
      BY <1>1, <2>1, <3>1, <3>2, <3>3, GotoEffect DEF CheckOffset, Running
  <2>3. CASE ~ValidReg32Offset(MmioLength, offset[i])
    BY <1>0, <1>1, <2>1, <2>3, AnswerEffect DEF CheckOffset
  <2>. QED
    BY <2>2, <2>3
<1>2. CASE AccessRegister(i) \/ AcknowledgeInterrupt(i)
  BY <1>0, <1>2, AnswerEffect DEF AccessRegister, AcknowledgeInterrupt, Running
<1>3. CASE CheckStarted(i)
  <2>1. CASE ~Removed /\ Started
    BY <1>3, <2>1, GotoEffect DEF CheckStarted, Running
  <2>2. CASE ~(~Removed /\ Started)
    BY <1>0, <1>3, <2>2, AnswerEffect DEF CheckStarted, Running
  <2>. QED
    BY <2>1, <2>2
<1>4. CASE StorePending(i)
  <2>1. CASE PendingInterruptIrp # NoIrp
    BY <1>0, <1>4, <2>1, AnswerEffect DEF StorePending, Running
  <2>2. CASE PendingInterruptIrp = NoIrp
    <3>1. /\ PendingInterruptIrp' = i
          /\ irp' = [irp EXCEPT ![i] = "pending"]
          /\ pc' = [pc EXCEPT ![i] = "done"]
          /\ UNCHANGED <<offset, hardware, manager, below, asserted, dpc>>
      BY <1>4, <2>2 DEF StorePending, Goto
    <3>2. pc[i] = "store" /\ irp[i] = "dispatched"
      BY <1>0, <1>4 DEF StorePending, Running
    <3>3. TypeOK'
      BY <3>1 DEF TypeOK, MaybeIrp, hardware, manager, below, dpc
    <3>4. PendingHasOneOwner' /\ \A j \in Irps : RequestInv(j)'
      BY <2>2, <3>1, <3>2, NoIrpAssumption
         DEF TypeOK, PendingHasOneOwner, RequestInv, Running, dpc, hardware
    <3>. QED
      BY <3>1, <3>3, <3>4, HardwareUnchanged DEF manager
  <2>. QED
    BY <2>1, <2>2
<1>5. CASE CancelWaitIoctl(i)
  <2>1. /\ PendingInterruptIrp' = NoIrp
        /\ \/ PendingInterruptIrp = NoIrp /\ irp' = irp
           \/ /\ PendingInterruptIrp \in Irps
              /\ irp[PendingInterruptIrp] = "pending"
              /\ irp' = [irp EXCEPT ![PendingInterruptIrp] = "completed"]
    BY <1>5, CancelPendingEffect DEF CancelWaitIoctl
  <2>2. /\ pc[i] = "cancel" /\ irp[i] = "dispatched"
        /\ pc' = [pc EXCEPT ![i] = "answer"]
        /\ UNCHANGED <<offset, hardware, manager, below, asserted, dpc>>
    BY <1>0, <1>5 DEF CancelWaitIoctl, Goto, Running
  <2>3. TypeOK'
    BY <2>1, <2>2 DEF TypeOK, MaybeIrp, hardware, manager, below, dpc
  <2>4. PendingHasOneOwner' /\ \A j \in Irps : RequestInv(j)'
    BY <2>1, <2>2, NoIrpAssumption
       DEF TypeOK, MaybeIrp, PendingHasOneOwner, RequestInv, Running, dpc, hardware
  <2>. QED
    BY <2>2, <2>3, <2>4, HardwareUnchanged DEF manager
<1>6. CASE AnswerCancel(i)
  BY <1>0, <1>6, AnswerEffect DEF AnswerCancel, Running
<1>. QED
  BY <1>1, <1>2, <1>3, <1>4, <1>5, <1>6 DEF Request

(* The host's interrupt, the ISR, the DPC and the lower device. *)
LEMMA InterruptStep ==
    ASSUME IInv, FlagsOK',
           InjectInterrupt \/ InterruptService \/ DpcTake \/ DpcFinish \/ CompletionRoutine
    PROVE  IInv'
<1>. USE DEF IInv
<1>1. CASE InjectInterrupt \/ InterruptService \/ CompletionRoutine
  <2>1. /\ UNCHANGED <<irp, pc, offset, window, PendingInterruptIrp, dpcIrp>>
        /\ UNCHANGED <<hardware, manager>>
    BY <1>1 DEF InjectInterrupt, InterruptService, CompletionRoutine, req, dpc, hardware
  <2>2. TypeOK'
    BY <2>1 DEF TypeOK, hardware, manager
  <2>. QED
    BY <2>1, <2>2, PacketsUnchanged, HardwareUnchanged DEF manager
<1>2. CASE DpcTake
  <2>1. /\ dpcIrp = NoIrp
        /\ dpcIrp' = PendingInterruptIrp
        /\ PendingInterruptIrp' = NoIrp
        /\ UNCHANGED <<hardware, manager, req>>
    BY <1>2 DEF DpcTake
  <2>2. TypeOK'
    BY <2>1 DEF TypeOK, MaybeIrp, hardware, manager, req
  <2>3. PendingHasOneOwner' /\ \A i \in Irps : RequestInv(i)'
    BY <2>1, NoIrpAssumption DEF PendingHasOneOwner, RequestInv, req, hardware
  <2>. QED
    BY <2>1, <2>2, <2>3, HardwareUnchanged DEF manager
<1>3. CASE DpcFinish
  <2>1. dpcIrp \in Irps /\ irp[dpcIrp] = "pending"
    BY <1>3 DEF DpcFinish, TypeOK, MaybeIrp, PendingHasOneOwner
  <2>2. /\ irp' = [irp EXCEPT ![dpcIrp] = "completed"]
        /\ dpcIrp' = NoIrp
        /\ UNCHANGED <<hardware, manager, PendingInterruptIrp, pc, offset>>
    BY <1>3, <2>1, CompleteOne DEF DpcFinish
  <2>3. TypeOK'
    BY <2>1, <2>2 DEF TypeOK, MaybeIrp, hardware, manager
  <2>4. PendingHasOneOwner' /\ \A i \in Irps : RequestInv(i)'
    BY <2>1, <2>2, NoIrpAssumption
       DEF TypeOK, MaybeIrp, PendingHasOneOwner, RequestInv, Running, hardware
  <2>. QED
    BY <2>2, <2>3, <2>4, HardwareUnchanged DEF manager
<1>. QED
  BY <1>1, <1>2, <1>3

(* The manager thread. *)
LEMMA ManagerKeeps ==
    ASSUME IInv, FlagsOK', AddDevice \/ ManagerRequest \/ ManagerStep
    PROVE  IInv'
<1>. USE DEF IInv
<1>1. CASE AddDevice \/ ManagerRequest
  <2>. USE <1>1 DEF AddDevice, ManagerRequest
  <2>1. UNCHANGED <<irp, pc, offset, window, PendingInterruptIrp, dpcIrp>>
    BY DEF req, dpc, hardware
  <2>2. TypeOK'
    BY DEF TypeOK, req, dpc, hardware, flags, below
  <2>3. HardwareInv'
    BY DEF HardwareInv, flags
  <2>. QED
    BY <2>1, <2>2, <2>3, PacketsUnchanged
<1>2. CASE Forward \/ EventSet
  <2>. USE <1>2 DEF Forward, EventSet
  <2>1. UNCHANGED <<irp, pc, offset, window, PendingInterruptIrp, dpcIrp, hardware>>
    BY DEF req, dpc, hardware
  <2>2. \/ mpc' = "wait" \/ mpc' = "delete" \/ mpc' = "idle"
        \/ mpc' = "map" /\ ~Started
    BY DEF AfterForward
  <2>3. TypeOK'
    BY <2>1, <2>2 DEF TypeOK, req, dpc, hardware, flags
  <2>4. HardwareInv'
    BY <2>1, <2>2 DEF HardwareInv, hardware, flags
  <2>. QED
    BY <2>1, <2>3, <2>4, PacketsUnchanged
<1>3. CASE MapHardware
  <2>1. UNCHANGED <<irp, pc, offset, window, PendingInterruptIrp, dpcIrp, Started>>
    BY <1>3 DEF MapHardware, req, dpc, flags
  <2>2. \/ held' = held \cup {"mmio"} /\ MmioLength' = window /\ mpc' = "connect"
        \/ mpc' = "idle" /\ UNCHANGED <<held, MmioLength>>
    BY <1>3, FirstMemoryIsWindow DEF MapHardware
  <2>3. TypeOK'
    <3>1. held' \subseteq Resources
      BY <2>2 DEF TypeOK, Resources
    <3>2. MmioLength' \in 0 .. Word - 1
      BY <2>2, WordAssumption DEF TypeOK
    <3>3. mpc' \in {"idle", "connect"} /\ UNCHANGED <<dev, window, op, pc, irp, offset>>
      BY <1>3, <2>1, <2>2 DEF MapHardware
    <3>. QED
      BY <2>1, <3>1, <3>2, <3>3 DEF TypeOK
  <2>4. HardwareInv'
    BY <1>3, <2>1, <2>2 DEF MapHardware, HardwareInv, Resources
  <2>. QED
    BY <2>1, <2>3, <2>4, PacketsUnchanged
<1>4. CASE ConnectInterrupt
  <2>1. UNCHANGED <<irp, pc, offset, window, PendingInterruptIrp, dpcIrp, dev, op, Started>>
    BY <1>4 DEF ConnectInterrupt, req, dpc, flags
  <2>2. \/ held' = Resources /\ mpc' = "started" /\ MmioLength' = MmioLength
        \/ held' = {} /\ mpc' = "idle" /\ MmioLength' = 0
    BY <1>4 DEF ConnectInterrupt, HardwareInv, Resources
  <2>3. TypeOK'
    <3>1. held' \subseteq Resources
      BY <2>2
    <3>2. MmioLength' \in 0 .. Word - 1
      BY <2>2, WordAssumption DEF TypeOK
    <3>3. mpc' \in {"idle", "started"}
      BY <2>2
    <3>. QED
      BY <2>1, <3>1, <3>2, <3>3 DEF TypeOK
  <2>4. HardwareInv'
    BY <1>4, <2>1, <2>2 DEF ConnectInterrupt, HardwareInv, Resources
  <2>. QED
    BY <2>1, <2>3, <2>4, PacketsUnchanged
<1>5. CASE StopCancels
  <2>1. /\ PendingInterruptIrp' = NoIrp
        /\ \/ PendingInterruptIrp = NoIrp /\ irp' = irp
           \/ /\ PendingInterruptIrp \in Irps
              /\ irp[PendingInterruptIrp] = "pending"
              /\ irp' = [irp EXCEPT ![PendingInterruptIrp] = "completed"]
    BY <1>5, CancelPendingEffect DEF StopCancels
  <2>2. TypeOK'
    BY <1>5, <2>1 DEF StopCancels, TypeOK, MaybeIrp, hardware, flags, dpc, below
  <2>3. PendingHasOneOwner' /\ \A i \in Irps : RequestInv(i)'
    BY <1>5, <2>1, NoIrpAssumption
       DEF StopCancels, TypeOK, MaybeIrp, PendingHasOneOwner, RequestInv, Running, dpc, hardware
  <2>4. HardwareInv'
    BY <1>5 DEF StopCancels, HardwareInv, hardware, flags
  <2>. QED
    BY <2>2, <2>3, <2>4
<1>6. CASE \/ HardwareStarted \/ DisconnectInterrupt \/ UnmapHardware \/ HardwareStopped
           \/ DeleteDevice
  <2>. USE <1>6, WordAssumption
       DEF HardwareStarted, DisconnectInterrupt, UnmapHardware, HardwareStopped, DeleteDevice
  <2>1. UNCHANGED <<irp, pc, offset, window, PendingInterruptIrp, dpcIrp>>
    BY DEF req, dpc
  <2>2. TypeOK'
    BY DEF TypeOK, req, dpc, below, flags
  <2>3. HardwareInv'
    BY DEF HardwareInv, Resources, flags
  <2>. QED
    BY <2>1, <2>2, <2>3, PacketsUnchanged
<1>. QED
  BY <1>1, <1>2, <1>3, <1>4, <1>5, <1>6 DEF ManagerStep

(* Every step keeps the invariant. *)
LEMMA NextIInv == IInv /\ [Next]_vars => IInv'
<1>. SUFFICES ASSUME IInv, [Next]_vars PROVE IInv'
  OBVIOUS
<1>0. FlagsOK'
  BY FlagsStep DEF IInv, TypeOK
<1>1. ASSUME UNCHANGED <<hardware, PendingInterruptIrp, manager, req, dpc, below, asserted>>
      PROVE  IInv'
  <2>1. TypeOK'
    BY <1>0, <1>1 DEF IInv, TypeOK, hardware, manager, req, dpc
  <2>. QED
    BY <1>1, <2>1, PacketsUnchanged, HardwareUnchanged
       DEF IInv, hardware, manager, req, dpc
<1>2. ASSUME NEW i \in Irps, WildRequest(i) PROVE IInv'
  BY <1>1, <1>2 DEF WildRequest, Crash
<1>3. ASSUME WildDpc \/ UNCHANGED vars PROVE IInv'
  BY <1>1, <1>3 DEF WildDpc, Crash, vars
<1>. QED
  BY <1>0, <1>2, <1>3, DispatchStep, RequestStep, InterruptStep, ManagerKeeps
     DEF Next, Finished

-----------------------------------------------------------------------------
(* The inductive invariant holds of every behaviour of the driver. *)
THEOREM Invariance == Spec => []IInv
BY InitIInv, NextIInv, PTL DEF Spec

(* Every variable keeps to its values.  No packet is ever completed twice:  *)
(* the DPC, CANCEL_WAIT, STOP and REMOVE share the slot.                    *)
THEOREM TypeCorrect == Spec => []TypeOK
<1>1. IInv => TypeOK
  BY DEF IInv
<1>. QED
  BY <1>1, Invariance, PTL

(* The packets marked pending are exactly the one in the slot and the one   *)
(* the DPC took from it.                                                    *)
THEOREM OneOwner == Spec => []PendingHasOneOwner
<1>1. IInv => PendingHasOneOwner
  BY DEF IInv
<1>. QED
  BY <1>1, Invariance, PTL

-----------------------------------------------------------------------------
(* A step of the abstract slot, or none; and what is proved of the slot. *)
SlotStep == [Slot!Next]_Slot!slotVars
Theory == INSTANCE WaitSlotProofs WITH stage <- irp, slot <- PendingInterruptIrp, hand <- dpcIrp

(* An answer to a packet that is not pending is a step of the slot.         *)
LEMMA AnswerIsSlotStep ==
    ASSUME IInv, NEW i \in Irps, pc[i] \in Running \cup {"idle"}, Answer(i),
           UNCHANGED <<PendingInterruptIrp, dpcIrp>>
    PROVE  SlotStep
<1>1. irp[i] \in {"new", "dispatched"}
  BY DEF IInv, RequestInv
<1>2. irp' = [irp EXCEPT ![i] = "completed"]
  BY <1>1, CompleteOne DEF IInv, Answer
<1>. QED
  BY <1>1, <1>2 DEF SlotStep, Slot!Next, Slot!Answer, Slot!Advance

(* So is the sweep of the slot, by whatever cancels.                        *)
LEMMA CancelIsSlotStep ==
    ASSUME IInv, CancelPendingWait, UNCHANGED dpcIrp
    PROVE  SlotStep
BY CancelPendingEffect, NoIrpAssumption
   DEF IInv, SlotStep, Slot!Next, Slot!slotVars, Slot!Cancel, Slot!Advance

(* Each step of the driver is one of the slot, or leaves it alone.          *)
LEMMA SlotRefined == IInv /\ [Next]_vars => SlotStep
<1>. SUFFICES ASSUME IInv, [Next]_vars PROVE SlotStep
  OBVIOUS
<1>1. UNCHANGED <<irp, PendingInterruptIrp, dpcIrp>> => SlotStep
  BY DEF SlotStep, Slot!slotVars
<1>2. ASSUME NEW i \in Irps, Dispatch(i) PROVE SlotStep
  <2>1. CASE Answer(i)
    BY <1>2, <2>1, AnswerIsSlotStep DEF Dispatch, dpc
  <2>2. CASE ~Answer(i)
    BY <1>2, <2>2
       DEF Dispatch, IInv, RequestInv, dpc, SlotStep, Slot!Next, Slot!Dispatch, Slot!Advance
  <2>. QED
    BY <2>1, <2>2
<1>3. ASSUME NEW i \in Irps, Request(i) PROVE SlotStep
  <2>1. CASE AccessRegister(i) \/ AcknowledgeInterrupt(i) \/ AnswerCancel(i)
    BY <2>1, AnswerIsSlotStep DEF AccessRegister, AcknowledgeInterrupt, AnswerCancel, Running, dpc
  <2>2. CASE CheckOffset(i) \/ CheckStarted(i)
    BY <1>1, <2>2, AnswerIsSlotStep DEF CheckOffset, CheckStarted, Running, req, dpc
  <2>3. CASE StorePending(i)
    <3>1. CASE PendingInterruptIrp # NoIrp
      BY <2>3, <3>1, AnswerIsSlotStep DEF StorePending, Running, dpc
    <3>2. CASE PendingInterruptIrp = NoIrp
      BY <2>3, <3>2 DEF StorePending, Running, IInv, RequestInv, dpc, SlotStep, Slot!Next,
                        Slot!Pend, Slot!Advance
    <3>. QED
      BY <3>1, <3>2
  <2>4. CASE CancelWaitIoctl(i)
    BY <2>4, CancelIsSlotStep DEF CancelWaitIoctl, dpc
  <2>. QED
    BY <1>3, <2>1, <2>2, <2>3, <2>4 DEF Request
<1>4. CASE DpcTake
  BY <1>1, <1>4 DEF DpcTake, req, SlotStep, Slot!Next, Slot!Take
<1>5. CASE DpcFinish
  <2>1. dpcIrp \in Irps /\ irp[dpcIrp] = "pending"
    BY <1>5 DEF DpcFinish, IInv, TypeOK, MaybeIrp, PendingHasOneOwner
  <2>2. irp' = [irp EXCEPT ![dpcIrp] = "completed"]
    BY <1>5, <2>1, CompleteOne DEF DpcFinish, IInv
  <2>. QED
    BY <1>5, <2>2 DEF DpcFinish, SlotStep, Slot!Next, Slot!Finish, Slot!Advance
<1>6. CASE StopCancels
  BY <1>6, CancelIsSlotStep DEF StopCancels, dpc
<1>7. CASE InjectInterrupt \/ InterruptService \/ CompletionRoutine \/ AddDevice \/ ManagerRequest
  BY <1>1, <1>7 DEF InjectInterrupt, InterruptService, CompletionRoutine, AddDevice,
     ManagerRequest, req, dpc
<1>8. CASE ManagerStep
  BY <1>1, <1>6, <1>8
     DEF ManagerStep, Forward, EventSet, MapHardware, ConnectInterrupt, HardwareStarted,
         DisconnectInterrupt, UnmapHardware, HardwareStopped, DeleteDevice, req, dpc
<1>9. (\E i \in Irps : WildRequest(i)) \/ WildDpc \/ UNCHANGED vars => SlotStep
  BY <1>1 DEF WildRequest, WildDpc, Crash, vars, req, dpc
<1>. QED
  BY <1>2, <1>3, <1>4, <1>5, <1>6, <1>7, <1>8, <1>9 DEF Next, Finished

(* The driver implements the discipline of the slot.                        *)
THEOREM ImplementsWaitSlot == Spec => WaitSlotSpec
<1>1. Init => Slot!Init
  BY DEF Init, Slot!Init
<1>. QED
  BY <1>1, SlotRefined, Invariance, PTL DEF Spec, WaitSlotSpec, Slot!Spec, SlotStep

(* So each packet goes through the request protocol of the I/O manager, and *)
(* is completed once.                                                       *)
THEOREM ImplementsIrpProtocol == Spec => Slot!IrpProtocolSpec
<1>1. Slot!Init => Theory!Init
  BY DEF Slot!Init, Theory!Init
<1>2. [Slot!Next]_Slot!slotVars => [Theory!Next]_Theory!slotVars
  BY DEF Slot!Next, Slot!slotVars, Slot!Dispatch, Slot!Answer, Slot!Pend, Slot!Take, Slot!Finish,
         Slot!Cancel, Slot!Advance, Theory!Next, Theory!slotVars, Theory!Dispatch, Theory!Answer,
         Theory!Pend, Theory!Take, Theory!Finish, Theory!Cancel, Theory!Advance
<1>3. Theory!Spec => Theory!IrpProtocolSpec
  BY NoIrpAssumption, Theory!SlotImplementsIrpProtocol
<1>4. Theory!Protocol!Init => Slot!Protocol!Init
  BY DEF Theory!Protocol!Init, Slot!Protocol!Init
<1>5. [Theory!Protocol!Next]_irp => [Slot!Protocol!Next]_irp
  BY DEF Theory!Protocol!Next, Theory!Protocol!Dispatch, Theory!Protocol!MarkPending,
         Theory!Protocol!Complete, Slot!Protocol!Next, Slot!Protocol!Dispatch,
         Slot!Protocol!MarkPending, Slot!Protocol!Complete
<1>. QED
  BY <1>1, <1>2, <1>3, <1>4, <1>5, ImplementsWaitSlot, PTL
     DEF WaitSlotSpec, Slot!Spec, Slot!IrpProtocolSpec, Slot!Protocol!Spec, Theory!Spec,
         Theory!IrpProtocolSpec, Theory!Protocol!Spec

-----------------------------------------------------------------------------
(* A client accesses only aligned registers inside the window, whatever     *)
(* length and offsets there are and however STOP and START interleave.      *)
THEOREM OffsetsInside == Spec => []AccessInsideWindow
<1>1. IInv => AccessInsideWindow
  BY DEF IInv, RequestInv, AccessInsideWindow
<1>. QED
  BY <1>1, Invariance, PTL

(* Between PnP requests the driver holds both resources or none, whichever  *)
(* step of START_DEVICE failed, and the interrupt never outlives the        *)
(* registers.                                                               *)
THEOREM StartIsAtomic == Spec => []ResourcesFollowStarted
<1>1. IInv => ResourcesFollowStarted
  BY DEF IInv, TypeOK, HardwareInv, Resources, ResourcesFollowStarted
<1>. QED
  BY <1>1, Invariance, PTL

(* PnpitForwardIrpSynchronously waits with no timeout for an event on its   *)
(* own stack.  The lower device has the IRP exactly while the thread        *)
(* waits for an event that is not set: the wake-up is never lost, and no    *)
(* completion routine sets an event whose stack frame is gone.              *)
EventMatchesIrp == lowerBusy <=> mpc = "wait" /\ ~event

(* A PnP handler that waits has a waker.                                    *)
THEOREM WaiterHasWaker == Spec => []EventMatchesIrp
<1>1. Init => EventMatchesIrp
  BY DEF Init, EventMatchesIrp
<1>2. EventMatchesIrp /\ [Next]_vars => EventMatchesIrp'
  <2>. SUFFICES ASSUME EventMatchesIrp, [Next]_vars PROVE EventMatchesIrp'
    OBVIOUS
  <2>. USE DEF EventMatchesIrp, manager, below
  <2>1. ASSUME NEW i \in Irps, Dispatch(i) \/ Request(i) PROVE EventMatchesIrp'
    BY <2>1 DEF Dispatch, Request, CheckOffset, AccessRegister, AcknowledgeInterrupt, CheckStarted,
               StorePending, CancelWaitIoctl, AnswerCancel
  <2>2. InjectInterrupt \/ InterruptService \/ DpcTake \/ DpcFinish \/ WildDpc \/ UNCHANGED vars
           \/ (\E i \in Irps : WildRequest(i)) => EventMatchesIrp'
    BY DEF InjectInterrupt, InterruptService, DpcTake, DpcFinish, WildDpc, WildRequest, Crash,
           vars
  <2>3. CASE Forward \/ EventSet \/ CompletionRoutine
    BY <2>3 DEF Forward, EventSet, CompletionRoutine, AfterForward
  <2>4. CASE AddDevice \/ ManagerRequest
    BY <2>4 DEF AddDevice, ManagerRequest
  <2>5. CASE ManagerStep
    BY <2>3, <2>5
       DEF ManagerStep, MapHardware, ConnectInterrupt, HardwareStarted, StopCancels,
           DisconnectInterrupt, UnmapHardware, HardwareStopped, DeleteDevice
  <2>. QED
    BY <2>1, <2>2, <2>3, <2>4, <2>5 DEF Next, Finished
<1>. QED
  BY <1>1, <1>2, PTL DEF Spec
=============================================================================
