------------------------ MODULE MmioInterruptProofs ------------------------
(***************************************************************************)
(* For any number of requests and under both hosts:                        *)
(* mmio_interrupt_test_driver completes no packet twice and, when nobody   *)
(* overlaps DISCONNECT, RECONNECT and unloading, knows whether its         *)
(* interrupt is connected and never deletes the device under it.           *)
(***************************************************************************)
EXTENDS MmioInterrupt, TLAPS

(* A wait that was marked pending is in exactly one place, the slot or the  *)
(* hands of the DPC, until it is completed.                                 *)
PendingHasOneOwner ==
    /\ PendingInterruptIrp = dpcIrp => dpcIrp = NoIrp
    /\ \A i \in Irps : irp[i] = "pending" <=> i \in {PendingInterruptIrp, dpcIrp}

(* Where the dispatch routine still answers for the packet. *)
Running == {"register", "ack", "check", "store", "cancel", "answer"} \cup Controlling

(* What the location of a request says of its packet. *)
RequestInv(i) ==
    /\ pc[i] = "idle" => irp[i] = "new"
    /\ pc[i] \in Running => irp[i] = "dispatched"

(* What the location of the driver's thread says of the device object and   *)
(* the registers.                                                           *)
DriverInv ==
    /\ dev = "deleted" => pc[DriverThread] = "unloaded"
    /\ pc[DriverThread] \in {"entry", "map", "delete", "unloaded"} <=> ~Mapped

(* The flag, the pointer and the truth. *)
Agree == (InterruptConnected <=> vector) /\ (InterruptObject <=> vector)

(* At most one thread is between the test of the flag and its update, and   *)
(* its location tells how far the three are apart.                          *)
OneController ==
    /\ \A t, u \in Threads : pc[t] \in Controlling /\ pc[u] \in Controlling => t = u
    /\ \A i \in Irps : pc[i] \in Controlling => pc[DriverThread] = "loaded"

ControlInv ==
    /\ OneController
    /\ (\A t \in Threads : pc[t] \notin Controlling) => Agree
    /\ \A t \in Threads :
        /\ pc[t] \in {"test_on", "test_off"} => Agree
        /\ pc[t] = "connect" => ~InterruptConnected /\ ~InterruptObject /\ ~vector
        /\ pc[t] = "flag_on" => ~InterruptConnected /\ InterruptObject /\ vector
        /\ pc[t] = "disconnect" => InterruptConnected /\ InterruptObject /\ vector
        /\ pc[t] = "flag_off" => InterruptConnected /\ InterruptObject /\ ~vector
    /\ pc[DriverThread] \in {"entry", "map", "unmap", "delete", "unloaded"} => ~vector

(* The inductive invariant; its last part is the one that two threads in    *)
(* MmioitConnectInterrupt or MmioitDisconnectInterrupt would break.         *)
IInv ==
    /\ TypeOK
    /\ PendingHasOneOwner
    /\ \A i \in Irps : RequestInv(i)
    /\ DriverInv
    /\ SerialControl => ControlInv

-----------------------------------------------------------------------------
(* Completing nothing leaves the packets as they are. *)
LEMMA CompleteNone ==
    ASSUME TypeOK, Complete({})
    PROVE  irp' = irp
<1>1. irp' = [i \in Irps |-> irp[i]]
  BY DEF Complete
<1>. QED
  BY <1>1 DEF TypeOK

(* Completing a packet that is not completed completes that one only. *)
LEMMA CompleteOne ==
    ASSUME TypeOK, NEW i \in Irps, irp[i] # "completed", Complete({i})
    PROVE  irp' = [irp EXCEPT ![i] = "completed"]
BY DEF Complete, TypeOK

(* MmioitCancelPendingWait empties the slot and completes what was in it. *)
LEMMA CancelPendingEffect ==
    ASSUME TypeOK, PendingHasOneOwner, CancelPending
    PROVE  /\ PendingInterruptIrp' = NoIrp
           /\ \/ PendingInterruptIrp = NoIrp /\ irp' = irp
              \/ /\ PendingInterruptIrp \in Irps
                 /\ irp[PendingInterruptIrp] = "pending"
                 /\ irp' = [irp EXCEPT ![PendingInterruptIrp] = "completed"]
<1>1. CASE PendingInterruptIrp = NoIrp
  <2>1. {PendingInterruptIrp} \cap Irps = {}
    BY <1>1, ThreadsAssumption
  <2>. QED
    BY <1>1, <2>1, CompleteNone DEF CancelPending
<1>2. CASE PendingInterruptIrp \in Irps
  <2>1. {PendingInterruptIrp} \cap Irps = {PendingInterruptIrp}
    BY <1>2
  <2>2. irp[PendingInterruptIrp] = "pending"
    BY <1>2 DEF PendingHasOneOwner
  <2>. QED
    BY <1>2, <2>1, <2>2, CompleteOne DEF CancelPending
<1>. QED
  BY <1>1, <1>2 DEF TypeOK, MaybeIrp

-----------------------------------------------------------------------------
(* The invariant holds before DriverEntry. *)
LEMMA InitIInv == Init => IInv
<1>. SUFFICES ASSUME Init PROVE IInv
  OBVIOUS
<1>1. FlagsOK
  BY DEF Init, FlagsOK
<1>2. pc[DriverThread] = "entry" /\ \A i \in Irps : pc[i] = "idle"
  BY ThreadsAssumption DEF Init, Threads
<1>3. TypeOK
  BY <1>1, <1>2 DEF Init, TypeOK, Threads, MaybeIrp, RequestLocations, DriverLocations
<1>4. PendingHasOneOwner /\ \A i \in Irps : RequestInv(i)
  BY <1>2, ThreadsAssumption
     DEF Init, PendingHasOneOwner, RequestInv, Running, Controlling
<1>5. DriverInv
  BY <1>2 DEF Init, DriverInv
<1>6. ControlInv
  BY <1>2 DEF Init, ControlInv, OneController, Controlling, Agree, Threads
<1>. QED
  BY <1>3, <1>4, <1>5, <1>6 DEF IInv

(* The flags are Booleans after every step. *)
LEMMA FlagsStep == FlagsOK /\ [Next]_vars => FlagsOK'
<1>. SUFFICES ASSUME FlagsOK, [Next]_vars PROVE FlagsOK'
  OBVIOUS
<1>. USE DEF FlagsOK, ext, int, dpc
<1>1. ASSUME NEW t, Control(t) PROVE FlagsOK'
  BY <1>1, Zenon DEF Control, TestNotConnected, ConnectInterrupt, SetConnected, TestConnected,
          DisconnectInterrupt, ClearConnected
<1>2. ASSUME NEW i \in Irps, Dispatch(i) \/ Request(i) PROVE FlagsOK'
  BY <1>1, <1>2, Zenon DEF Dispatch, Request, AccessRegister, AcknowledgeInterrupt,
     CheckUnloading, StorePending, CancelWait, AnswerRequest
<1>3. CASE InjectInterrupt \/ InterruptService \/ DpcTake \/ DpcFinish
  BY <1>3, Zenon DEF InjectInterrupt, InterruptService, DpcTake, DpcFinish
<1>4. CASE UnloadBegin \/ DriverSteps
  BY <1>1, <1>4, Zenon DEF UnloadBegin, DriverSteps, CreateDevice, MapHardware, CreateLink,
          UnloadMark, UnloadSweep, UnmapHardware, DeleteDevice
<1>5. CASE WildAccess \/ UNCHANGED vars
  BY <1>5, Zenon DEF WildAccess, vars
<1>. QED
  BY <1>2, <1>3, <1>4, <1>5 DEF Next, Finished

(* A step that leaves packets, slot and DPC alone and moves no request keeps *)
(* what is said of them.                                                     *)
LEMMA PacketsUnchanged ==
    ASSUME IInv, UNCHANGED <<irp, PendingInterruptIrp, dpcIrp>>, \A i \in Irps : pc'[i] = pc[i]
    PROVE  PendingHasOneOwner' /\ \A i \in Irps : RequestInv(i)'
BY DEF IInv, PendingHasOneOwner, RequestInv

(* A step that moves nobody into, out of or inside of Controlling, and not  *)
(* the driver's thread, keeps what is said of device and interrupt.         *)
LEMMA ControlUnchanged ==
    ASSUME IInv, UNCHANGED ext,
           \A t \in Threads : \/ pc'[t] = pc[t]
                              \/ /\ t \in Irps
                                 /\ pc[t] \notin Controlling
                                 /\ pc'[t] \notin Controlling
    PROVE  DriverInv' /\ (SerialControl => ControlInv')
<1>1. DriverThread \in Threads /\ DriverThread \notin Irps /\ Irps \subseteq Threads
  BY ThreadsAssumption DEF Threads
<1>2. pc'[DriverThread] = pc[DriverThread]
  BY <1>1
<1>3. DriverInv'
  BY <1>2 DEF IInv, DriverInv, ext
<1>4. \A t \in Threads : pc'[t] \in Controlling \/ pc[t] \in Controlling => pc'[t] = pc[t]
  OBVIOUS
<1>5. ASSUME SerialControl PROVE ControlInv'
  <2>1. OneController'
    BY <1>1, <1>2, <1>4, <1>5 DEF IInv, ControlInv, OneController
  <2>2. Agree' <=> Agree
    BY DEF Agree, ext, int
  <2>3. (\A t \in Threads : pc'[t] \notin Controlling) => Agree'
    BY <1>4, <1>5, <2>2 DEF IInv, ControlInv
  <2>4. \A t \in Threads : pc'[t] \in Controlling => pc'[t] = pc[t]
    BY <1>4
  <2>. QED
    BY <1>2, <1>5, <2>1, <2>2, <2>3, <2>4 DEF IInv, ControlInv, Controlling, ext, int
<1>. QED
  BY <1>3, <1>5

(* A request that was dispatched, or arrives, may be answered. *)
LEMMA AnswerEffect ==
    ASSUME IInv, FlagsOK', NEW i \in Irps, irp[i] \in {"new", "dispatched"}, Answer(i),
           pc[i] \notin Controlling, UNCHANGED <<host, ext, PendingInterruptIrp, dpc>>
    PROVE  IInv'
<1>. USE DEF IInv
<1>1. irp' = [irp EXCEPT ![i] = "completed"] /\ pc' = [pc EXCEPT ![i] = "done"]
  BY CompleteOne DEF Answer, Goto
<1>2. i # DriverThread /\ i \in Threads
  BY ThreadsAssumption DEF Threads
<1>3. TypeOK'
  BY <1>1, <1>2 DEF TypeOK, RequestLocations, ext, dpc
<1>4. PendingHasOneOwner' /\ \A j \in Irps : RequestInv(j)'
  BY <1>1, <1>2 DEF TypeOK, PendingHasOneOwner, RequestInv, Running, Controlling, dpc
<1>5. DriverInv' /\ (SerialControl => ControlInv')
  BY <1>1, <1>2, ControlUnchanged DEF TypeOK, Controlling
<1>. QED
  BY <1>3, <1>4, <1>5

(* The dispatch routine hands the packet to a service or answers it. *)
LEMMA DispatchStep ==
    ASSUME IInv, FlagsOK', NEW i \in Irps, Dispatch(i)
    PROVE  IInv'
<1>. USE DEF IInv
<1>1. pc[i] = "idle" /\ irp[i] = "new" /\ i # DriverThread /\ i \in Threads
  BY ThreadsAssumption DEF Dispatch, RequestInv, Threads
<1>2. UNCHANGED <<host, ext, PendingInterruptIrp, asserted, dpc>>
  BY DEF Dispatch
<1>3. PICK k \in Kinds :
        /\ SerialControl /\ k \in {"disconnect", "reconnect"} => ControlIsFree
        /\ IF k # "local" /\ Mapped
           THEN /\ irp' = [irp EXCEPT ![i] = "dispatched"]
                /\ \E loc \in FirstLocations(k) : Goto(i, loc)
           ELSE Answer(i)
  BY DEF Dispatch
<1>4. CASE k # "local" /\ Mapped
  <2>. PICK loc \in FirstLocations(k) : Goto(i, loc)
    BY <1>3, <1>4
  <2>1. loc \in {"register", "ack", "check", "cancel", "test_on", "test_off"}
    BY <1>4 DEF FirstLocations, Kinds
  <2>2. /\ irp' = [irp EXCEPT ![i] = "dispatched"]
        /\ pc' = [pc EXCEPT ![i] = loc]
    BY <1>3, <1>4 DEF Goto
  <2>3. TypeOK'
    BY <1>1, <1>2, <2>1, <2>2 DEF TypeOK, RequestLocations, Controlling, ext, dpc
  <2>4. PendingHasOneOwner' /\ \A j \in Irps : RequestInv(j)'
    BY <1>1, <1>2, <2>1, <2>2
       DEF TypeOK, PendingHasOneOwner, RequestInv, Running, Controlling, dpc
  <2>5. CASE loc \notin Controlling
    <3>1. DriverInv' /\ (SerialControl => ControlInv')
      BY <1>1, <1>2, <2>2, <2>5, ControlUnchanged DEF TypeOK, Controlling
    <3>. QED
      BY <2>3, <2>4, <3>1
  <2>6. CASE loc \in Controlling
    <3>1. k \in {"disconnect", "reconnect"}
      BY <1>4, <2>6 DEF FirstLocations, Controlling, Kinds
    <3>2. pc'[DriverThread] = pc[DriverThread]
      BY <1>1, <2>2 DEF TypeOK
    <3>3. DriverInv'
      BY <1>2, <3>2 DEF DriverInv, ext
    <3>4. ASSUME SerialControl PROVE ControlInv'
      <4>1. pc[DriverThread] = "loaded" /\ \A j \in Irps : pc[j] \notin Controlling
        BY <1>3, <3>1, <3>4 DEF ControlIsFree
      <4>2. \A t \in Threads : pc[t] \notin Controlling
        BY <4>1 DEF Threads, Controlling
      <4>3. Agree'
        BY <1>2, <3>4, <4>2 DEF ControlInv, Agree, ext, int
      <4>4. \A t \in Threads : pc'[t] \in Controlling => t = i
        BY <1>1, <2>2, <4>2 DEF TypeOK
      <4>5. OneController'
        BY <3>2, <4>1, <4>4 DEF OneController
      <4>6. pc'[i] \in {"test_on", "test_off"}
        BY <1>1, <2>1, <2>2, <2>6 DEF TypeOK, Controlling
      <4>. QED
        BY <3>2, <4>1, <4>3, <4>4, <4>5, <4>6 DEF ControlInv, Controlling
    <3>. QED
      BY <2>3, <2>4, <3>3, <3>4
  <2>. QED
    BY <2>5, <2>6
<1>5. CASE ~(k # "local" /\ Mapped)
  BY <1>1, <1>2, <1>3, <1>5, AnswerEffect DEF Controlling
<1>. QED
  BY <1>4, <1>5

(* MmioitConnectInterrupt and MmioitDisconnectInterrupt, in any thread.     *)
LEMMA ControlStep ==
    ASSUME IInv, FlagsOK', NEW t \in Threads, Control(t)
    PROVE  IInv'
<1>. USE DEF IInv, At, Goto, Control, TestNotConnected, ConnectInterrupt, SetConnected,
             TestConnected, DisconnectInterrupt, ClearConnected
<1>1. PICK loc \in Controlling \cup {"link", "unmap", "answer"} : pc' = [pc EXCEPT ![t] = loc]
  BY DEF AfterConnect, AfterFailure, AfterDisconnect, Controlling
<1>2. /\ pc[t] \in Controlling
      /\ UNCHANGED <<host, dev, Unloading, Mapped, PendingInterruptIrp, irp, asserted, dpc>>
  BY DEF Controlling, ext, int
<1>3. /\ t = DriverThread => loc # "answer"
      /\ t \in Irps => loc \notin {"link", "unmap"}
  BY <1>1, <1>2, ThreadsAssumption
     DEF AfterConnect, AfterFailure, AfterDisconnect, Controlling, Threads, TypeOK
<1>4. TypeOK'
  <2>1. pc' \in [Threads -> RequestLocations \cup DriverLocations]
    BY <1>1 DEF TypeOK, RequestLocations, DriverLocations, Controlling
  <2>2. CASE t = DriverThread
    <3>1. loc \in DriverLocations
      BY <1>1, <1>2, <1>3, <2>2 DEF DriverLocations, Controlling
    <3>2. pc'[DriverThread] = loc /\ \A i \in Irps : pc'[i] = pc[i]
      BY <1>1, <2>2, ThreadsAssumption DEF TypeOK, Threads
    <3>. QED
      BY <1>2, <2>1, <3>1, <3>2 DEF TypeOK, dpc
  <2>3. CASE t \in Irps
    <3>1. loc \in RequestLocations
      BY <1>3, <2>3 DEF RequestLocations
    <3>2. pc'[DriverThread] = pc[DriverThread]
      BY <1>1, <2>3, ThreadsAssumption DEF TypeOK, Threads
    <3>. QED
      BY <1>1, <1>2, <2>1, <3>1, <3>2 DEF TypeOK, dpc
  <2>. QED
    BY <2>2, <2>3 DEF Threads
<1>5. PendingHasOneOwner' /\ \A i \in Irps : RequestInv(i)'
  BY <1>1, <1>2, <1>3 DEF TypeOK, PendingHasOneOwner, RequestInv, Running, Controlling, dpc
<1>6. DriverInv'
  BY <1>1, <1>2 DEF DriverInv, TypeOK, Controlling
<1>7. ASSUME SerialControl PROVE ControlInv'
  <2>1. OneController /\ ControlInv /\ FlagsOK
    BY <1>7 DEF ControlInv, TypeOK
  <2>2. \A u \in Threads : u # t => pc'[u] = pc[u] /\ pc[u] \notin Controlling
    BY <1>1, <1>2, <2>1 DEF OneController, TypeOK
  <2>3. pc'[t] = loc
    BY <1>1 DEF TypeOK
  <2>4. OneController'
    <3>1. \A u, v \in Threads : pc'[u] \in Controlling /\ pc'[v] \in Controlling => u = v
      BY <2>2
    <3>2. \A i \in Irps : pc'[i] \in Controlling => pc'[DriverThread] = "loaded"
      BY <1>2, <2>1, <2>2, ThreadsAssumption DEF OneController, Threads
    <3>. QED
      BY <3>1, <3>2 DEF OneController
  <2>5. /\ loc \notin Controlling => Agree'
        /\ loc \in {"test_on", "test_off"} => Agree'
        /\ loc = "connect" => ~InterruptConnected' /\ ~InterruptObject' /\ ~vector'
        /\ loc = "flag_on" => ~InterruptConnected' /\ InterruptObject' /\ vector'
        /\ loc = "disconnect" => InterruptConnected' /\ InterruptObject' /\ vector'
        /\ loc = "flag_off" => InterruptConnected' /\ InterruptObject' /\ ~vector'
        /\ loc = "unmap" => ~vector'
    <3>0. \A l : Goto(t, l) => l = loc
      BY <1>1 DEF TypeOK
    <3>. USE <2>1, <2>3, <1>2, <3>0 DEF ControlInv, Agree, Controlling, AfterConnect, AfterFailure,
                   AfterDisconnect, FlagsOK, ext, int
    <3>1. CASE TestNotConnected(t)
      BY <3>1
    <3>2. CASE ConnectInterrupt(t)
      BY <3>2
    <3>3. CASE SetConnected(t)
      BY <3>3
    <3>4. CASE TestConnected(t)
      BY <3>4
    <3>5. CASE DisconnectInterrupt(t)
      BY <3>5
    <3>6. CASE ClearConnected(t)
      BY <3>6
    <3>. QED
      BY <3>1, <3>2, <3>3, <3>4, <3>5, <3>6
  <2>6. pc'[DriverThread] \in {"entry", "map", "unmap", "delete", "unloaded"} => ~vector'
    <3>1. CASE t = DriverThread
      BY <2>3, <2>5, <3>1, <1>1, <1>3 DEF Controlling
    <3>2. CASE t \in Irps
      BY <1>2, <2>1, <2>2, <3>2, ThreadsAssumption DEF OneController, Threads
    <3>. QED
      BY <3>1, <3>2 DEF Threads
  <2>7. (\A u \in Threads : pc'[u] \notin Controlling) => Agree'
    BY <2>3, <2>5
  <2>. QED
    BY <2>2, <2>3, <2>4, <2>5, <2>6, <2>7 DEF ControlInv, Controlling
<1>. QED
  BY <1>4, <1>5, <1>6, <1>7

(* The services of the dispatch routine. *)
LEMMA RequestStep ==
    ASSUME IInv, FlagsOK', NEW i \in Irps, Request(i)
    PROVE  IInv'
<1>. USE DEF IInv, At
<1>0. /\ pc[i] \in Running => irp[i] = "dispatched"
      /\ i # DriverThread /\ i \in Threads
  BY ThreadsAssumption DEF RequestInv, Threads
<1>1. CASE AccessRegister(i) \/ AcknowledgeInterrupt(i)
  BY <1>0, <1>1, AnswerEffect DEF AccessRegister, AcknowledgeInterrupt, Running, Controlling
<1>2. CASE CheckUnloading(i)
  <2>1. CASE Unloading
    BY <1>0, <1>2, <2>1, AnswerEffect DEF CheckUnloading, Running, Controlling
  <2>2. CASE ~Unloading
    <3>1. /\ pc[i] = "check"
          /\ pc' = [pc EXCEPT ![i] = "store"]
          /\ UNCHANGED <<host, ext, PendingInterruptIrp, irp, asserted, dpc>>
      BY <1>2, <2>2 DEF CheckUnloading, Goto
    <3>2. TypeOK'
      BY <1>0, <3>1 DEF TypeOK, RequestLocations, ext, dpc
    <3>3. PendingHasOneOwner' /\ \A j \in Irps : RequestInv(j)'
      BY <3>1 DEF TypeOK, PendingHasOneOwner, RequestInv, Running, dpc
    <3>4. DriverInv' /\ (SerialControl => ControlInv')
      BY <1>0, <3>1, ControlUnchanged DEF TypeOK, Controlling
    <3>. QED
      BY <3>2, <3>3, <3>4
  <2>. QED
    BY <2>1, <2>2
<1>3. CASE StorePending(i)
  <2>1. CASE PendingInterruptIrp # NoIrp
    BY <1>0, <1>3, <2>1, AnswerEffect DEF StorePending, Running, Controlling
  <2>2. CASE PendingInterruptIrp = NoIrp
    <3>1. /\ PendingInterruptIrp' = i
          /\ irp' = [irp EXCEPT ![i] = "pending"]
          /\ pc' = [pc EXCEPT ![i] = "done"]
          /\ UNCHANGED <<host, ext, asserted, dpc>>
      BY <1>3, <2>2 DEF StorePending, Goto
    <3>2. pc[i] = "store" /\ irp[i] = "dispatched"
      BY <1>0, <1>3 DEF StorePending, Running
    <3>3. TypeOK'
      BY <1>0, <3>1 DEF TypeOK, RequestLocations, MaybeIrp, ext, dpc
    <3>4. PendingHasOneOwner' /\ \A j \in Irps : RequestInv(j)'
      <4>1. PendingHasOneOwner'
        BY <2>2, <3>1, <3>2, ThreadsAssumption DEF TypeOK, PendingHasOneOwner, dpc
      <4>2. \A j \in Irps : RequestInv(j)'
        BY <1>0, <3>1 DEF TypeOK, RequestInv, Running, Controlling
      <4>. QED
        BY <4>1, <4>2
    <3>5. DriverInv' /\ (SerialControl => ControlInv')
      BY <1>0, <3>1, <3>2, ControlUnchanged DEF TypeOK, Controlling
    <3>. QED
      BY <3>3, <3>4, <3>5
  <2>. QED
    BY <2>1, <2>2
<1>4. CASE CancelWait(i)
  <2>1. /\ PendingInterruptIrp' = NoIrp
        /\ \/ PendingInterruptIrp = NoIrp /\ irp' = irp
           \/ /\ PendingInterruptIrp \in Irps
              /\ irp[PendingInterruptIrp] = "pending"
              /\ irp' = [irp EXCEPT ![PendingInterruptIrp] = "completed"]
    BY <1>4, CancelPendingEffect DEF CancelWait
  <2>2. /\ pc[i] = "cancel" /\ irp[i] = "dispatched"
        /\ pc' = [pc EXCEPT ![i] = "answer"]
        /\ UNCHANGED <<host, ext, asserted, dpc>>
    BY <1>0, <1>4 DEF CancelWait, Goto, Running
  <2>3. TypeOK'
    BY <1>0, <2>1, <2>2 DEF TypeOK, RequestLocations, MaybeIrp, ext, dpc
  <2>4. PendingHasOneOwner' /\ \A j \in Irps : RequestInv(j)'
    BY <2>1, <2>2, ThreadsAssumption
       DEF TypeOK, MaybeIrp, PendingHasOneOwner, RequestInv, Running, Controlling, dpc
  <2>5. DriverInv' /\ (SerialControl => ControlInv')
    BY <1>0, <2>2, ControlUnchanged DEF TypeOK, Controlling
  <2>. QED
    BY <2>3, <2>4, <2>5
<1>5. CASE AnswerRequest(i)
  BY <1>0, <1>5, AnswerEffect DEF AnswerRequest, Running, Controlling
<1>. QED
  BY <1>0, <1>1, <1>2, <1>3, <1>4, <1>5, ControlStep DEF Request

(* The interrupt, the ISR and the DPC. *)
LEMMA InterruptStep ==
    ASSUME IInv, FlagsOK', InjectInterrupt \/ InterruptService \/ DpcTake \/ DpcFinish
    PROVE  IInv'
<1>. USE DEF IInv
<1>0. UNCHANGED <<pc, ext, host>> /\ DriverInv' /\ (SerialControl => ControlInv')
  <2>1. UNCHANGED <<pc, ext, host>>
    BY DEF InjectInterrupt, InterruptService, DpcTake, DpcFinish
  <2>. QED
    BY <2>1, ControlUnchanged
<1>1. CASE InjectInterrupt \/ InterruptService
  <2>1. UNCHANGED <<irp, PendingInterruptIrp, dpcIrp>>
    BY <1>1 DEF InjectInterrupt, InterruptService, dpc
  <2>2. TypeOK'
    BY <1>0, <2>1 DEF TypeOK, ext
  <2>. QED
    BY <1>0, <2>1, <2>2, PacketsUnchanged
<1>2. CASE DpcTake
  <2>1. /\ dpcIrp = NoIrp
        /\ dpcIrp' = PendingInterruptIrp
        /\ PendingInterruptIrp' = NoIrp
        /\ UNCHANGED irp
    BY <1>2 DEF DpcTake
  <2>2. TypeOK'
    BY <1>0, <2>1 DEF TypeOK, MaybeIrp, ext
  <2>3. PendingHasOneOwner' /\ \A i \in Irps : RequestInv(i)'
    BY <1>0, <2>1, ThreadsAssumption DEF PendingHasOneOwner, RequestInv
  <2>. QED
    BY <1>0, <2>2, <2>3
<1>3. CASE DpcFinish
  <2>1. dpcIrp \in Irps /\ irp[dpcIrp] = "pending"
    BY <1>3 DEF DpcFinish, TypeOK, MaybeIrp, PendingHasOneOwner
  <2>2. /\ irp' = [irp EXCEPT ![dpcIrp] = "completed"]
        /\ dpcIrp' = NoIrp
        /\ UNCHANGED PendingInterruptIrp
    BY <1>3, <2>1, CompleteOne DEF DpcFinish
  <2>3. TypeOK'
    BY <1>0, <2>1, <2>2 DEF TypeOK, MaybeIrp, ext
  <2>4. PendingHasOneOwner' /\ \A i \in Irps : RequestInv(i)'
    BY <1>0, <2>1, <2>2, ThreadsAssumption
       DEF TypeOK, MaybeIrp, PendingHasOneOwner, RequestInv
  <2>. QED
    BY <1>0, <2>3, <2>4
<1>. QED
  BY <1>1, <1>2, <1>3

(* DriverEntry and MmioitUnload, but for Control. *)
LEMMA DriverStep ==
    ASSUME IInv, FlagsOK',
           \/ CreateDevice \/ MapHardware \/ CreateLink \/ UnloadBegin \/ UnloadMark
           \/ UnloadSweep \/ UnmapHardware \/ DeleteDevice
    PROVE  IInv'
<1>. USE DEF IInv
<1>. DEFINE D == DriverThread
<1>0. D \in Threads /\ D \notin Irps /\ Irps \subseteq Threads
  BY ThreadsAssumption DEF Threads
<1>1. PICK loc \in DriverLocations : pc' = [pc EXCEPT ![D] = loc]
  BY DEF CreateDevice, MapHardware, CreateLink, UnloadBegin, UnloadMark, UnloadSweep,
         UnmapHardware, DeleteDevice, DriverLocations, Goto
<1>2. pc'[D] = loc /\ \A i \in Irps : pc'[i] = pc[i]
  BY <1>0, <1>1 DEF TypeOK
<1>3. /\ UNCHANGED <<host, int, dpc>>
      /\ dev' \in {"none", "live", "deleted"}
  BY DEF CreateDevice, MapHardware, CreateLink, UnloadBegin, UnloadMark, UnloadSweep,
         UnmapHardware, DeleteDevice, ext, TypeOK
<1>4. /\ PendingHasOneOwner' /\ \A i \in Irps : RequestInv(i)'
      /\ irp' \in [Irps -> {"new", "dispatched", "pending", "completed"}]
      /\ PendingInterruptIrp' \in MaybeIrp
  <2>1. CASE UnloadSweep
    <3>1. /\ PendingInterruptIrp' = NoIrp
          /\ \/ PendingInterruptIrp = NoIrp /\ irp' = irp
             \/ /\ PendingInterruptIrp \in Irps
                /\ irp[PendingInterruptIrp] = "pending"
                /\ irp' = [irp EXCEPT ![PendingInterruptIrp] = "completed"]
      BY <2>1, CancelPendingEffect DEF UnloadSweep
    <3>. QED
      BY <1>2, <1>3, <3>1, ThreadsAssumption
         DEF TypeOK, MaybeIrp, PendingHasOneOwner, RequestInv, dpc
  <2>2. CASE ~UnloadSweep
    <3>1. UNCHANGED <<irp, PendingInterruptIrp>>
      BY <2>2 DEF CreateDevice, MapHardware, CreateLink, UnloadBegin, UnloadMark, UnmapHardware,
                  DeleteDevice
    <3>. QED
      BY <1>2, <1>3, <3>1, PacketsUnchanged DEF TypeOK, dpc
  <2>. QED
    BY <2>1, <2>2
<1>5. TypeOK'
  BY <1>1, <1>2, <1>3, <1>4 DEF TypeOK, dpc
<1>6. DriverInv'
  <2>0. \A l : Goto(D, l) => l = loc
    BY <1>0, <1>2 DEF Goto, TypeOK
  <2>1. CASE CreateDevice \/ MapHardware
    BY <1>2, <2>0, <2>1 DEF CreateDevice, MapHardware, DriverInv
  <2>2. CASE CreateLink \/ UnloadBegin \/ UnloadMark \/ UnloadSweep
    BY <1>2, <2>0, <2>2 DEF CreateLink, UnloadBegin, UnloadMark, UnloadSweep, DriverInv, ext
  <2>3. CASE UnmapHardware \/ DeleteDevice
    BY <1>2, <2>0, <2>3 DEF UnmapHardware, DeleteDevice, DriverInv
  <2>. QED
    BY <2>1, <2>2, <2>3
<1>7. ASSUME SerialControl PROVE ControlInv'
  <2>1. ControlInv /\ OneController
    BY <1>7 DEF ControlInv
  <2>2. pc[D] \notin Controlling /\ \A i \in Irps : pc'[i] \in Controlling => pc[D] = "loaded"
    BY <1>2, <2>1 DEF CreateDevice, MapHardware, CreateLink, UnloadBegin, UnloadMark, UnloadSweep,
         UnmapHardware, DeleteDevice, OneController, Controlling
  <2>3. \A i \in Irps : pc'[i] \notin Controlling
    <3>1. pc[D] = "loaded" => UnloadBegin
      BY DEF CreateDevice, MapHardware, CreateLink, UnloadMark, UnloadSweep, UnmapHardware,
             DeleteDevice
    <3>2. UnloadBegin => \A i \in Irps : pc[i] \notin Controlling
      BY <1>7 DEF UnloadBegin, ControlIsFree
    <3>. QED
      BY <1>2, <2>2, <3>1, <3>2
  <2>4. \A t \in Threads : pc[t] \notin Controlling
    BY <1>2, <2>2, <2>3 DEF Threads
  <2>5. Agree'
    BY <1>3, <2>1, <2>4 DEF ControlInv, Agree, int
  <2>6. \A t \in Threads : pc'[t] \in Controlling => t = D
    BY <2>3 DEF Threads
  <2>7. /\ loc \in Controlling => loc \in {"test_on", "test_off"}
        /\ loc \in {"entry", "map", "unmap", "delete", "unloaded"}
              => pc[D] \in {"entry", "map", "unmap", "delete", "unloaded"}
    BY <1>2 DEF CreateDevice, MapHardware, CreateLink, UnloadBegin, UnloadMark, UnloadSweep,
         UnmapHardware, DeleteDevice, Controlling, Goto, TypeOK
  <2>8. OneController'
    BY <2>3, <2>6 DEF OneController
  <2>9. loc \in {"entry", "map", "unmap", "delete", "unloaded"} => ~vector'
    BY <1>3, <2>1, <2>7 DEF ControlInv, int
  <2>. QED
    BY <1>2, <2>5, <2>6, <2>7, <2>8, <2>9 DEF ControlInv, Controlling
<1>. QED
  BY <1>4, <1>5, <1>6, <1>7

(* Every step keeps the invariant. *)
LEMMA NextIInv == IInv /\ [Next]_vars => IInv'
<1>. SUFFICES ASSUME IInv, [Next]_vars PROVE IInv'
  OBVIOUS
<1>0. FlagsOK'
  BY FlagsStep DEF IInv, TypeOK
<1>1. ASSUME WildAccess \/ UNCHANGED vars PROVE IInv'
  <2>1. UNCHANGED <<host, ext, PendingInterruptIrp, pc, irp, asserted, dpc>>
    BY <1>1 DEF WildAccess, vars
  <2>2. TypeOK'
    BY <1>0, <2>1 DEF IInv, TypeOK, ext, dpc
  <2>. QED
    BY <2>1, <2>2, PacketsUnchanged, ControlUnchanged DEF IInv, dpc
<1>2. ASSUME DriverSteps PROVE IInv'
  BY <1>0, <1>2, DriverStep, ControlStep DEF DriverSteps, Threads
<1>. QED
  BY <1>0, <1>1, <1>2, DispatchStep, RequestStep, InterruptStep, DriverStep DEF Next, Finished

-----------------------------------------------------------------------------
(* The inductive invariant holds of every behaviour of the driver. *)
THEOREM Invariance == Spec => []IInv
BY InitIInv, NextIInv, PTL DEF Spec

(* Every variable keeps to its values.  No packet is ever completed twice:  *)
(* the DPC, CANCEL_WAIT and MmioitUnload share the slot.                    *)
THEOREM TypeCorrect == Spec => []TypeOK
<1>1. IInv => TypeOK
  BY DEF IInv
<1>. QED
  BY <1>1, Invariance, PTL

(* The packets marked pending are exactly the one in the slot and the one   *)
(* the DPC took from it.                                                    *)
THEOREM OneOwner == Spec => []PendingHasOneOwner
<1>1. IInv => PendingHasOneOwner
  BY DEF IInv
<1>. QED
  BY <1>1, Invariance, PTL

-----------------------------------------------------------------------------
(* A step of the abstract slot, or none; and what is proved of the slot. *)
SlotStep == [Slot!Next]_Slot!slotVars
Theory == INSTANCE WaitSlotProofs WITH stage <- irp, slot <- PendingInterruptIrp, hand <- dpcIrp

(* An answer to a packet that is not pending, and the sweep of the slot.    *)
LEMMA AnswerIsSlotStep ==
    ASSUME IInv, NEW i \in Irps, pc[i] \in Running \cup {"idle"}, Answer(i),
           UNCHANGED <<PendingInterruptIrp, dpcIrp>>
    PROVE  SlotStep
<1>1. irp[i] \in {"new", "dispatched"}
  BY DEF IInv, RequestInv
<1>2. irp' = [irp EXCEPT ![i] = "completed"]
  BY <1>1, CompleteOne DEF IInv, Answer
<1>. QED
  BY <1>1, <1>2 DEF SlotStep, Slot!Next, Slot!Answer, Slot!Advance

LEMMA CancelIsSlotStep ==
    ASSUME IInv, CancelPending, UNCHANGED dpcIrp
    PROVE  SlotStep
BY CancelPendingEffect, ThreadsAssumption
   DEF IInv, SlotStep, Slot!Next, Slot!slotVars, Slot!Cancel, Slot!Advance

(* Each step of the driver is one of the slot, or leaves it alone.          *)
LEMMA SlotRefined == IInv /\ [Next]_vars => SlotStep
<1>. SUFFICES ASSUME IInv, [Next]_vars PROVE SlotStep
  OBVIOUS
<1>1. UNCHANGED <<irp, PendingInterruptIrp, dpcIrp>> => SlotStep
  BY DEF SlotStep, Slot!slotVars
<1>2. ASSUME NEW t, Control(t) PROVE SlotStep
  BY <1>1, <1>2 DEF Control, TestNotConnected, ConnectInterrupt, SetConnected, TestConnected,
                    DisconnectInterrupt, ClearConnected, dpc
<1>3. ASSUME NEW i \in Irps, Dispatch(i) PROVE SlotStep
  <2>1. CASE Answer(i)
    BY <1>3, <2>1, AnswerIsSlotStep DEF Dispatch, dpc
  <2>2. CASE ~Answer(i)
    BY <1>3, <2>2
       DEF Dispatch, IInv, RequestInv, dpc, SlotStep, Slot!Next, Slot!Dispatch, Slot!Advance
  <2>. QED
    BY <2>1, <2>2
<1>4. ASSUME NEW i \in Irps, Request(i) PROVE SlotStep
  <2>1. CASE AccessRegister(i) \/ AcknowledgeInterrupt(i) \/ AnswerRequest(i)
    BY <2>1, AnswerIsSlotStep DEF AccessRegister, AcknowledgeInterrupt, AnswerRequest, At,
       Running, dpc
  <2>2. CASE CheckUnloading(i)
    BY <1>1, <2>2, AnswerIsSlotStep DEF CheckUnloading, At, Running, dpc
  <2>3. CASE StorePending(i)
    <3>1. CASE PendingInterruptIrp # NoIrp
      BY <2>3, <3>1, AnswerIsSlotStep DEF StorePending, At, Running, dpc
    <3>2. CASE PendingInterruptIrp = NoIrp
      BY <2>3, <3>2 DEF StorePending, At, Running, IInv, RequestInv, dpc, SlotStep, Slot!Next,
                        Slot!Pend, Slot!Advance
    <3>. QED
      BY <3>1, <3>2
  <2>4. CASE CancelWait(i)
    BY <2>4, CancelIsSlotStep DEF CancelWait, dpc
  <2>. QED
    BY <1>2, <1>4, <2>1, <2>2, <2>3, <2>4 DEF Request
<1>5. CASE DpcTake
  BY <1>1, <1>5 DEF DpcTake, SlotStep, Slot!Next, Slot!Take
<1>6. CASE DpcFinish
  <2>1. dpcIrp \in Irps /\ irp[dpcIrp] = "pending"
    BY <1>6 DEF DpcFinish, IInv, TypeOK, MaybeIrp, PendingHasOneOwner
  <2>2. irp' = [irp EXCEPT ![dpcIrp] = "completed"]
    BY <1>6, <2>1, CompleteOne DEF DpcFinish, IInv
  <2>. QED
    BY <1>6, <2>2 DEF DpcFinish, SlotStep, Slot!Next, Slot!Finish, Slot!Advance
<1>7. CASE UnloadSweep
  BY <1>7, CancelIsSlotStep DEF UnloadSweep, dpc
<1>8. CASE InjectInterrupt \/ InterruptService \/ UnloadBegin \/ WildAccess \/ UNCHANGED vars
  BY <1>1, <1>8 DEF InjectInterrupt, InterruptService, UnloadBegin, WildAccess, vars, dpc
<1>9. CASE DriverSteps
  BY <1>1, <1>2, <1>7, <1>9 DEF DriverSteps, CreateDevice, MapHardware, CreateLink, UnloadMark,
                                UnmapHardware, DeleteDevice, dpc
<1>. QED
  BY <1>3, <1>4, <1>5, <1>6, <1>7, <1>8, <1>9 DEF Next, Finished

(* The driver implements the discipline of the slot.                        *)
THEOREM ImplementsWaitSlot == Spec => WaitSlotSpec
<1>1. Init => Slot!Init
  BY DEF Init, Slot!Init
<1>. QED
  BY <1>1, SlotRefined, Invariance, PTL DEF Spec, WaitSlotSpec, Slot!Spec, SlotStep

(* So each packet goes through the request protocol of the I/O manager, and *)
(* is completed once.                                                       *)
THEOREM ImplementsIrpProtocol == Spec => Slot!IrpProtocolSpec
<1>1. Slot!Init => Theory!Init
  BY DEF Slot!Init, Theory!Init
<1>2. [Slot!Next]_Slot!slotVars => [Theory!Next]_Theory!slotVars
  BY DEF Slot!Next, Slot!slotVars, Slot!Dispatch, Slot!Answer, Slot!Pend, Slot!Take, Slot!Finish,
         Slot!Cancel, Slot!Advance, Theory!Next, Theory!slotVars, Theory!Dispatch, Theory!Answer,
         Theory!Pend, Theory!Take, Theory!Finish, Theory!Cancel, Theory!Advance
<1>3. Theory!Spec => Theory!IrpProtocolSpec
  BY ThreadsAssumption, Theory!SlotImplementsIrpProtocol
<1>4. Theory!Protocol!Init => Slot!Protocol!Init
  BY DEF Theory!Protocol!Init, Slot!Protocol!Init
<1>5. [Theory!Protocol!Next]_irp => [Slot!Protocol!Next]_irp
  BY DEF Theory!Protocol!Next, Theory!Protocol!Dispatch, Theory!Protocol!MarkPending,
         Theory!Protocol!Complete, Slot!Protocol!Next, Slot!Protocol!Dispatch,
         Slot!Protocol!MarkPending, Slot!Protocol!Complete
<1>. QED
  BY <1>1, <1>2, <1>3, <1>4, <1>5, ImplementsWaitSlot, PTL
     DEF WaitSlotSpec, Slot!Spec, Slot!IrpProtocolSpec, Slot!Protocol!Spec, Theory!Spec,
         Theory!IrpProtocolSpec, Theory!Protocol!Spec

-----------------------------------------------------------------------------
(* When nobody overlaps DISCONNECT, RECONNECT and unloading, the flag and   *)
(* the pointer tell the truth about the interrupt.                          *)
THEOREM FlagsTrue == SerialControl /\ Spec => []ConnectionFlagsAgree
<1>1. SerialControl /\ IInv => ConnectionFlagsAgree
  <2>. SUFFICES ASSUME SerialControl, IInv, \A t \in Threads : pc[t] \notin Controlling
                PROVE  InterruptConnected = vector /\ InterruptObject = vector
    BY DEF ConnectionFlagsAgree
  <2>1. Agree /\ FlagsOK
    BY DEF IInv, ControlInv, TypeOK
  <2>. QED
    BY <2>1, Zenon DEF Agree, FlagsOK
<1>2. CASE SerialControl
  <2>1. IInv => ConnectionFlagsAgree
    BY <1>1, <1>2
  <2>. QED
    BY <2>1, Invariance, PTL
<1>3. CASE ~SerialControl
  BY <1>3
<1>. QED
  BY <1>2, <1>3

-----------------------------------------------------------------------------
(* The I/O manager unloads the driver, and the rest of MmioitUnload runs,   *)
(* with no request that was dispatched and not completed; before DriverEntry*)
(* has returned there was none either.                                      *)
NobodyInside ==
    host = "io_manager" /\ pc[DriverThread] # "loaded" =>
        \A i \in Irps : irp[i] \in {"new", "completed"}

(* Then the dispatch routines, the slot and the DPC's hands are empty.      *)
LEMMA InsideMeansDispatched ==
    ASSUME IInv, NobodyInside, host = "io_manager", pc[DriverThread] # "loaded"
    PROVE  /\ \A i \in Irps : pc[i] \in {"idle", "done"}
           /\ PendingInterruptIrp = NoIrp /\ dpcIrp = NoIrp
BY DEF IInv, NobodyInside, TypeOK, RequestInv, Running, RequestLocations, PendingHasOneOwner,
       MaybeIrp

(* Every step keeps NobodyInside: outside of "loaded" no request arrives.   *)
LEMMA NobodyInsideStep == IInv /\ NobodyInside /\ [Next]_vars => NobodyInside'
<1>. SUFFICES ASSUME IInv, NobodyInside, [Next]_vars, host' = "io_manager",
                     pc'[DriverThread] # "loaded"
              PROVE  \A i \in Irps : irp'[i] \in {"new", "completed"}
  BY DEF NobodyInside
<1>. USE DEF At, Goto
<1>1. DriverThread \in Threads /\ DriverThread \notin Irps /\ Irps \subseteq Threads
  BY ThreadsAssumption DEF Threads
<1>2. TypeOK
  BY DEF IInv
<1>3. CASE UnloadBegin
  BY <1>3 DEF UnloadBegin, ext
<1>4. CASE ~UnloadBegin /\ pc[DriverThread] = "loaded"
  <2>1. ASSUME NEW i \in Irps, Dispatch(i) \/ Request(i) PROVE pc'[DriverThread] = "loaded"
    BY <1>1, <1>2, <1>4, <2>1
       DEF TypeOK, Dispatch, Answer, Request, AccessRegister, AcknowledgeInterrupt,
          CheckUnloading, StorePending, CancelWait, AnswerRequest, Control, TestNotConnected,
          ConnectInterrupt, SetConnected, TestConnected, DisconnectInterrupt, ClearConnected
  <2>2. ~DriverSteps
    BY <1>4 DEF DriverSteps, CreateDevice, MapHardware, CreateLink, UnloadMark, UnloadSweep,
         UnmapHardware, DeleteDevice, Control, TestNotConnected, ConnectInterrupt, SetConnected,
         TestConnected, DisconnectInterrupt, ClearConnected
  <2>3. InjectInterrupt \/ InterruptService \/ DpcTake \/ DpcFinish \/ WildAccess
          \/ UNCHANGED vars => pc' = pc
    BY DEF InjectInterrupt, InterruptService, DpcTake, DpcFinish, WildAccess, vars
  <2>. QED
    BY <1>4, <2>1, <2>2, <2>3 DEF Next, Finished
<1>5. CASE pc[DriverThread] # "loaded"
  <2>1. host = "io_manager"
    <3>1. UNCHANGED host
      BY DEF Next, Finished, vars, Dispatch, Request, AccessRegister, AcknowledgeInterrupt,
         CheckUnloading, StorePending, CancelWait, AnswerRequest, Control, TestNotConnected,
         ConnectInterrupt, SetConnected, TestConnected, DisconnectInterrupt, ClearConnected,
         InjectInterrupt, InterruptService, DpcTake, DpcFinish, UnloadBegin, DriverSteps,
         CreateDevice, MapHardware, CreateLink, UnloadMark, UnloadSweep, UnmapHardware,
         DeleteDevice, WildAccess
    <3>. QED
      BY <3>1
  <2>2. /\ \A i \in Irps : pc[i] \in {"idle", "done"} /\ irp[i] \in {"new", "completed"}
        /\ PendingInterruptIrp = NoIrp /\ dpcIrp = NoIrp
    BY <1>5, <2>1, InsideMeansDispatched DEF NobodyInside
  <2>3. ASSUME NEW i \in Irps, Dispatch(i) \/ Request(i) PROVE FALSE
    BY <1>5, <2>1, <2>2, <2>3
       DEF Dispatch, Reachable, Request, AccessRegister, AcknowledgeInterrupt, CheckUnloading,
          StorePending, CancelWait, AnswerRequest, Control, TestNotConnected, ConnectInterrupt,
          SetConnected, TestConnected, DisconnectInterrupt, ClearConnected
  <2>4. UnloadSweep => irp' = irp
    BY <1>2, <2>2, CancelPendingEffect, ThreadsAssumption DEF UnloadSweep, IInv
  <2>5. DriverSteps \/ UnloadBegin => irp' = irp
    BY <2>4 DEF DriverSteps, UnloadBegin, CreateDevice, MapHardware, CreateLink, UnloadMark,
         UnmapHardware, DeleteDevice, Control, TestNotConnected, ConnectInterrupt, SetConnected,
         TestConnected, DisconnectInterrupt, ClearConnected
  <2>6. ~DpcFinish
    BY <2>2 DEF DpcFinish
  <2>7. InjectInterrupt \/ InterruptService \/ DpcTake \/ WildAccess \/ UNCHANGED vars
          => irp' = irp
    BY DEF InjectInterrupt, InterruptService, DpcTake, WildAccess, vars
  <2>. QED
    BY <2>2, <2>3, <2>5, <2>6, <2>7 DEF Next, Finished
<1>. QED
  BY <1>3, <1>4, <1>5

(* The I/O manager's promise carries over to every point of MmioitUnload.   *)
LEMMA UnloadsQuietly == Spec => []NobodyInside
<1>1. Init => NobodyInside
  BY DEF Init, NobodyInside
<1>. QED
  BY <1>1, NobodyInsideStep, Invariance, PTL DEF Spec

(* When nobody overlaps DISCONNECT, RECONNECT and unloading, no path        *)
(* deletes the device while its interrupt is connected, its registers are   *)
(* mapped or, unloaded by the I/O manager, a request is in its hands.       *)
THEOREM CleanDelete == SerialControl /\ Spec => []DeletedIsClean
<1>1. SerialControl /\ IInv /\ NobodyInside => DeletedIsClean
  <2>. SUFFICES ASSUME SerialControl, IInv, NobodyInside PROVE DeletedIsClean
    OBVIOUS
  <2>1. dev = "deleted" => pc[DriverThread] = "unloaded" /\ ~vector /\ ~Mapped
    BY DEF IInv, DriverInv, ControlInv
  <2>. QED
    BY <2>1, InsideMeansDispatched DEF DeletedIsClean
<1>2. CASE SerialControl
  <2>1. IInv /\ NobodyInside => DeletedIsClean
    BY <1>1, <1>2
  <2>. QED
    BY <2>1, Invariance, UnloadsQuietly, PTL
<1>3. CASE ~SerialControl
  BY <1>3
<1>. QED
  BY <1>2, <1>3

(* What can bring the system down under the I/O manager, when no two        *)
(* control requests overlap: nothing but a DPC that was queued when         *)
(* MmioitUnload deleted the device, for it is never flushed.                *)
OnlyTheDpc ==
    bugcheck /\ host = "io_manager" => dev = "deleted" /\ dpcQueued

(* The one action that brings the system down finds nothing else to do it   *)
(* with.                                                                    *)
THEOREM OnlyTheUnflushedDpc == SerialControl /\ Spec => []OnlyTheDpc
<1>1. Init => OnlyTheDpc
  BY DEF Init, OnlyTheDpc
<1>2. ASSUME SerialControl, IInv, NobodyInside, OnlyTheDpc, [Next]_vars
      PROVE  OnlyTheDpc'
  <2>1. CASE UNCHANGED vars
    BY <1>2, <2>1 DEF OnlyTheDpc, vars, ext, dpc
  <2>2. CASE WildAccess
    <3>1. UNCHANGED <<host, dev, dpcQueued>>
      BY <2>2 DEF WildAccess, ext, dpc
    <3>. SUFFICES ASSUME host = "io_manager" PROVE dev = "deleted" /\ dpcQueued
      BY <3>1 DEF OnlyTheDpc
    <3>2. ~ \E t \in Threads : At(t, "disconnect") /\ ~(vector /\ InterruptObject)
      BY <1>2 DEF IInv, ControlInv, At
    <3>3. (dev = "deleted" \/ ~Mapped \/ pc[DriverThread] # "loaded") =>
             /\ \A i \in Irps : pc[i] \in {"idle", "done"}
             /\ dpcIrp = NoIrp
      <4>1. dev = "deleted" \/ ~Mapped => pc[DriverThread] # "loaded"
        BY <1>2 DEF IInv, DriverInv
      <4>. QED
        BY <1>2, <4>1, InsideMeansDispatched
    <3>. QED
      BY <2>2, <3>2, <3>3 DEF WildAccess, Controlling
  <2>3. CASE ~WildAccess /\ ~UNCHANGED vars
    <3>1. ~bugcheck' 
      BY <1>2, <2>3 DEF Next, Finished, Dispatch, Request, AccessRegister, AcknowledgeInterrupt,
         CheckUnloading, StorePending, CancelWait, AnswerRequest, Control, TestNotConnected,
         ConnectInterrupt, SetConnected, TestConnected, DisconnectInterrupt, ClearConnected,
         InjectInterrupt, InterruptService, DpcTake, DpcFinish, UnloadBegin, DriverSteps,
         CreateDevice, MapHardware, CreateLink, UnloadMark, UnloadSweep, UnmapHardware,
         DeleteDevice
    <3>. QED
      BY <3>1 DEF OnlyTheDpc
  <2>. QED
    BY <2>1, <2>2, <2>3
<1>3. CASE SerialControl
  <2>1. IInv /\ NobodyInside /\ OnlyTheDpc /\ [Next]_vars => OnlyTheDpc'
    BY <1>2, <1>3
  <2>. QED
    BY <1>1, <2>1, Invariance, UnloadsQuietly, PTL DEF Spec
<1>4. CASE ~SerialControl
  BY <1>4
<1>. QED
  BY <1>3, <1>4
=============================================================================
