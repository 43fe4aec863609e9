----------------------- MODULE KmdfDmaInterruptProofs -----------------------
(***************************************************************************)
(* For any number of requests: when clients start the DMA device only      *)
(* through COMMON_ROUNDTRIP, the slot of kmdf_dma_interrupt_test_driver,   *)
(* which no lock protects, is used by one thread at a time.  So each       *)
(* request is completed once, the driver is quiet outside D0 and accesses  *)
(* no register that is not mapped.                                         *)
(***************************************************************************)
EXTENDS KmdfDmaInterrupt, TLAPS

Located == pc \in [Threads -> RequestLocations \cup ManagerLocations]

(* The callback that answers a pending request. *)
Own(r) == IF kind[r] = "roundtrip" THEN "dpc" ELSE kind[r]

(* Nothing will start a callback. *)
Silent == queued = {} /\ ~command /\ ~done

SlotIsEmpty == PendingRequest = NoRequest /\ PendingKind = "none"

(* With no request pending the slot is empty and no callback is under way.  *)
Quiet == Silent /\ SlotIsEmpty /\ \A c \in Callbacks : pc[c] = "idle"

(* With request r pending its own callback alone is under way, or the one   *)
(* event that will start it: a command, the device's interrupt or its place *)
(* in a queue.  The slot holds r until that callback has cleared it.        *)
Answering(r) ==
    /\ kind[r] \in {"roundtrip", "timer", "workitem"}
    /\ \A d \in Callbacks : d # Own(r) => pc[d] = "idle" /\ d \notin queued
    /\ kind[r] # "roundtrip" => ~command /\ ~done
    /\ ~(command /\ done)
    /\ command \/ done => queued = {}
    /\ pc[r] = "start" => Silent /\ pc[Own(r)] = "idle"
    /\ pc[Own(r)] # "idle" => Silent
    /\ IF pc[Own(r)] = "complete" THEN SlotIsEmpty
                                  ELSE PendingRequest = r /\ PendingKind = kind[r]
    /\ pc[Own(r)] \in {"clear", "complete"} => taken[Own(r)] = r

(* The queue is sequential. *)
OneInDriver == \A r, s \in Requests : InDriver(r) /\ InDriver(s) => r = s

(* What the location of a request says of it. *)
RequestInv(r) ==
    /\ pc[r] \in {"idle", "register", "set", "store", "test", "start", "answer", "done"}
    /\ pc[r] = "idle" => irp[r] = "new"
    /\ pc[r] \in {"register", "set", "store", "test", "answer"} => irp[r] = "dispatched"
    /\ pc[r] \in {"set", "store"} => kind[r] \in {"roundtrip", "timer", "workitem"}
    /\ pc[r] = "start" => irp[r] = "pending"
    /\ irp[r] = "pending" => pc[r] \in {"start", "done"}

(* What the location of the PnP/power thread says of requests and hardware. *)
ManagerInv ==
    /\ pc["manager"] \in {"absent", "off", "stopped", "working", "draining", "test", "exit",
                          "release"}
    /\ pc["manager"] \notin {"working", "draining"} => \A r \in Requests : ~InDriver(r)
    /\ pc["manager"] \in {"working", "draining", "exit"} => Powered
    /\ pc["manager"] \in {"absent", "off", "stopped", "release"} => ~Powered
    /\ pc["manager"] \in {"absent", "off"} => held = {} /\ ~Prepared
    /\ Powered \/ pc["manager"] = "stopped" => held = Resources /\ Prepared

(* The inductive invariant.  TypeOK excludes a second completion; that no   *)
(* two threads hold the same request follows from who is under way.         *)
IInv ==
    /\ TypeOK
    /\ Located
    /\ OneInDriver
    /\ \A r \in Requests : RequestInv(r)
    /\ (\A r \in Requests : irp[r] # "pending") => Quiet
    /\ \A r \in Requests : irp[r] = "pending" => Answering(r)
    /\ ManagerInv

-----------------------------------------------------------------------------
(* Requests, callbacks and the PnP/power thread are different threads.      *)
LEMMA ThreadFacts ==
    /\ Requests \subseteq Threads /\ Callbacks \subseteq Threads /\ "manager" \in Threads
    /\ "manager" \notin Requests /\ "manager" \notin Callbacks
    /\ \A r \in Requests : r \notin Callbacks
    /\ Threads = Requests \cup Callbacks \cup {"manager"}
BY RequestsAssumption DEF Threads, Callbacks

(* Where each thread is when one of them moves. *)
LEMMA GotoEffect ==
    ASSUME Located, NEW t \in Threads, NEW loc, Goto(t, loc)
    PROVE  pc'[t] = loc /\ \A u \in Threads : u # t => pc'[u] = pc[u]
BY DEF Located, Goto

(* The invariant holds before the device is added. *)
LEMMA InitIInv == Init => IInv
<1>. SUFFICES ASSUME Init PROVE IInv
  OBVIOUS
<1>1. /\ pc["manager"] = "absent"
      /\ \A r \in Requests : pc[r] = "idle"
      /\ \A c \in Callbacks : pc[c] = "idle"
  BY ThreadFacts DEF Init
<1>2. FlagsOK
  BY DEF Init, FlagsOK
<1>3. TypeOK
  BY <1>1, <1>2 DEF Init, TypeOK, MaybeRequest, Kinds, RequestLocations, CallbackLocations,
       ManagerLocations
<1>4. Located
  BY DEF Init, Located, RequestLocations, ManagerLocations
<1>5. Quiet
  BY <1>1 DEF Init, Quiet, Silent, SlotIsEmpty
<1>6. OneInDriver /\ \A r \in Requests : RequestInv(r)
  BY <1>1 DEF Init, OneInDriver, InDriver, RequestInv
<1>7. ManagerInv
  BY <1>1 DEF Init, ManagerInv, InDriver
<1>. QED
  BY <1>3, <1>4, <1>5, <1>6, <1>7 DEF IInv, Init

(* The flags are Booleans after every step. *)
LEMMA FlagsStep == FlagsOK /\ [Next]_vars => FlagsOK'
<1>. SUFFICES ASSUME FlagsOK, [Next]_vars PROVE FlagsOK'
  OBVIOUS
<1>. USE DEF FlagsOK, hardware, device
<1>1. ASSUME NEW t, CompletePendingRequest(t) PROVE FlagsOK'
  BY <1>1, Zenon DEF CompletePendingRequest, TestPending, ReadRegisters, TakePending, ClearPending,
          CompletePending
<1>2. ASSUME NEW r \in Requests, EvtIoDeviceControl(r) \/ Request(r) PROVE FlagsOK'
  <2>1. CASE AccessRegister(r)
    <3>1. command' \in BOOLEAN /\ done' \in BOOLEAN /\ UNCHANGED hardware
      BY <2>1 DEF AccessRegister
    <3>. QED
      BY <3>1, Zenon
  <2>2. CASE ~AccessRegister(r)
    BY <1>1, <1>2, <2>2, Zenon DEF EvtIoDeviceControl, Present, Request, TestSlot, StorePending,
            StartRoundtrip, StartCallback, AnswerCancel
  <2>. QED
    BY <2>1, <2>2
<1>3. ASSUME NEW c \in Callbacks, Callback(c) PROVE FlagsOK'
  BY <1>1, <1>3, Zenon DEF Callback, EvtCallback
<1>4. CASE DeviceFinishes \/ EvtInterruptIsr
  BY <1>4, Zenon DEF DeviceFinishes, EvtInterruptIsr
<1>5. CASE ManagerRequest \/ ManagerStep
  BY <1>1, <1>5, Zenon DEF ManagerRequest, ManagerStep, DeviceAdd, PrepareHardware, D0Entry,
          StopQueue, ReleaseHardware, QueueStopped, D0Exit, ReleaseResources
<1>6. CASE UNCHANGED vars
  BY <1>6, Zenon DEF vars
<1>. QED
  BY <1>2, <1>3, <1>4, <1>5, <1>6 DEF Next, Finished

-----------------------------------------------------------------------------
(* The location of a thread after a step is one it may have.                *)
LEMMA LocatedStep ==
    ASSUME TypeOK, Located, NEW t \in Threads, NEW loc, Goto(t, loc),
           t \in Requests => loc \in RequestLocations,
           t \in Callbacks => loc \in CallbackLocations,
           t = "manager" => loc \in ManagerLocations
    PROVE  /\ Located'
           /\ pc'["manager"] \in ManagerLocations
           /\ \A c \in Callbacks : pc'[c] \in CallbackLocations
           /\ \A r \in Requests : pc'[r] \in RequestLocations
<1>1. Located'
  <2>1. loc \in RequestLocations \cup ManagerLocations
    BY ThreadFacts DEF CallbackLocations, RequestLocations
  <2>. QED
    BY <2>1 DEF Located, Goto
<1>. QED
  BY <1>1, GotoEffect, ThreadFacts DEF TypeOK

(* A step in the dispatch routine of r while no request is pending.         *)
LEMMA DispatchedStep ==
    ASSUME IInv, TypeOK', NEW r \in Requests, NEW loc, Goto(r, loc), RequestInv(r)',
           irp[r] # "pending", irp'[r] # "pending",
           \A s \in Requests : s # r => ~InDriver(s),
           InDriver(r)' => pc["manager"] \in {"working", "draining"},
           \A s \in Requests : s # r => irp'[s] = irp[s] /\ kind'[s] = kind[s],
           command' = command, UNCHANGED <<hardware, slot, queued, done>>
    PROVE  IInv'
<1>. USE DEF IInv
<1>1. /\ pc'[r] = loc
      /\ \A t \in Threads : t # r => pc'[t] = pc[t]
      /\ pc'["manager"] = pc["manager"]
      /\ \A c \in Callbacks : pc'[c] = pc[c]
      /\ \A s \in Requests : s # r => pc'[s] = pc[s]
  BY GotoEffect, ThreadFacts
<1>2. \A s \in Requests : irp[s] # "pending" /\ irp'[s] # "pending"
  BY DEF InDriver
<1>3. Quiet'
  BY <1>1, <1>2 DEF Quiet, Silent, SlotIsEmpty, slot
<1>4. Located'
  <2>1. loc \in RequestLocations
    BY <1>1 DEF TypeOK
  <2>. QED
    BY <2>1 DEF Located, Goto
<1>5. OneInDriver' /\ \A s \in Requests : RequestInv(s)'
  BY <1>1 DEF OneInDriver, InDriver, RequestInv
<1>6. ManagerInv'
  BY <1>1 DEF ManagerInv, InDriver, hardware
<1>. QED
  BY <1>2, <1>3, <1>4, <1>5, <1>6

(* A step while r is and stays pending, of a thread that answers it or      *)
(* starts its callback.                                                     *)
LEMMA PendingStep ==
    ASSUME IInv, TypeOK', Located', NEW r \in Requests, irp[r] = "pending", UNCHANGED <<irp, kind>>,
           \A s \in Requests : s # r => pc'[s] = pc[s],
           pc'[r] \in {"start", "done"}, pc'["manager"] = pc["manager"],
           Answering(r)', UNCHANGED hardware
    PROVE  IInv'
<1>. USE DEF IInv
<1>1. \A s \in Requests : irp[s] = "pending" => s = r
  BY DEF OneInDriver, InDriver
<1>2. OneInDriver' /\ \A s \in Requests : RequestInv(s)'
  BY DEF OneInDriver, InDriver, RequestInv
<1>3. ManagerInv'
  BY DEF ManagerInv, InDriver, hardware
<1>. QED
  BY <1>1, <1>2, <1>3

-----------------------------------------------------------------------------
(* The queue presents a request. *)
LEMMA PresentStep ==
    ASSUME IInv, FlagsOK', NEW r \in Requests, EvtIoDeviceControl(r)
    PROVE  IInv'
<1>. USE DEF IInv
<1>1. /\ pc["manager"] = "working" /\ pc[r] = "idle" /\ irp[r] = "new"
      /\ \A s \in Requests : ~InDriver(s)
      /\ UNCHANGED <<hardware, slot, queued, device>>
      /\ r \in Threads /\ r # "manager" /\ r \notin Callbacks
  BY ThreadFacts DEF EvtIoDeviceControl, Present, At, RequestInv
<1>2. PICK k \in Kinds :
        IF Refused(k)
        THEN Answer(r)
        ELSE /\ kind' = [kind EXCEPT ![r] = k]
             /\ irp' = [irp EXCEPT ![r] = "dispatched"]
             /\ Goto(r, FirstLocation(k))
             /\ UNCHANGED <<taken, by>>
  BY DEF EvtIoDeviceControl, Present
<1>3. CASE Refused(k)
  <2>1. /\ irp' = [irp EXCEPT ![r] = "completed"] /\ by' = [by EXCEPT ![r] = r]
        /\ Goto(r, "done") /\ UNCHANGED <<taken, kind>>
    BY <1>1, <1>2, <1>3 DEF Answer, Complete, TypeOK
  <2>2. TypeOK'
    BY <1>1, <2>1, LocatedStep DEF TypeOK, hardware, slot, device, RequestLocations
  <2>3. RequestInv(r)' /\ irp'[r] = "completed"
    BY <1>1, <2>1, GotoEffect DEF RequestInv, TypeOK
  <2>. QED
    BY <1>1, <2>1, <2>2, <2>3, DispatchedStep DEF TypeOK, InDriver, device
<1>4. CASE ~Refused(k)
  <2>1. /\ FirstLocation(k) \in {"register", "test", "set"}
        /\ FirstLocation(k) = "set" => k \in {"roundtrip", "timer", "workitem"}
    BY <1>4 DEF FirstLocation, Refused, Kinds
  <2>2. /\ kind' = [kind EXCEPT ![r] = k] /\ irp' = [irp EXCEPT ![r] = "dispatched"]
        /\ Goto(r, FirstLocation(k)) /\ UNCHANGED <<taken, by>>
    BY <1>2, <1>4
  <2>3. TypeOK'
    BY <1>1, <2>1, <2>2, LocatedStep
       DEF TypeOK, hardware, slot, device, RequestLocations, SlotLocations
  <2>4. RequestInv(r)' /\ irp'[r] = "dispatched"
    BY <1>1, <2>1, <2>2, GotoEffect DEF RequestInv, TypeOK
  <2>. QED
    BY <1>1, <2>2, <2>3, <2>4, DispatchedStep DEF TypeOK, InDriver, device
<1>. QED
  BY <1>3, <1>4

(* The dispatch routine. *)
LEMMA RequestStep ==
    ASSUME ~RawAccess, IInv, FlagsOK', NEW r \in Requests, Request(r)
    PROVE  IInv'
<1>. USE DEF IInv, At
<1>1. /\ r \in Threads /\ r # "manager" /\ r \notin Callbacks
      /\ RequestInv(r)
  BY ThreadFacts
<1>2. pc[r] \in {"register", "set", "store", "test", "start", "answer"}
  BY <1>1 DEF RequestInv, Request, AccessRegister, TestSlot, StorePending, StartRoundtrip,
       StartCallback, AnswerCancel, CompletePendingRequest, TestPending, ReadRegisters, TakePending,
       ClearPending, CompletePending
<1>3. InDriver(r) /\ \A s \in Requests : s # r => ~InDriver(s)
  BY <1>1, <1>2 DEF RequestInv, InDriver, OneInDriver
<1>4. pc["manager"] \in {"working", "draining"}
  BY <1>3 DEF ManagerInv
<1>5. ASSUME irp[r] = "dispatched", Answer(r), UNCHANGED <<hardware, slot, queued, device>>
      PROVE  IInv'
  <2>1. /\ irp' = [irp EXCEPT ![r] = "completed"] /\ by' = [by EXCEPT ![r] = r]
        /\ Goto(r, "done") /\ UNCHANGED <<taken, kind>>
    BY <1>5 DEF Answer, Complete, TypeOK
  <2>2. TypeOK'
    BY <1>1, <1>5, <2>1, LocatedStep DEF TypeOK, hardware, slot, device, RequestLocations
  <2>3. RequestInv(r)' /\ irp'[r] = "completed"
    BY <1>1, <2>1, GotoEffect DEF RequestInv, TypeOK
  <2>. QED
    BY <1>3, <1>4, <1>5, <2>1, <2>2, <2>3, DispatchedStep DEF TypeOK, device
<1>6. ASSUME irp[r] = "dispatched", NEW loc \in {"store", "answer"}, Goto(r, loc),
             loc = "store" => kind[r] \in {"roundtrip", "timer", "workitem"},
             UNCHANGED <<hardware, slot, req, queued, device>>
      PROVE  IInv'
  <2>1. TypeOK'
    BY <1>1, <1>6, LocatedStep DEF TypeOK, hardware, slot, req, device, RequestLocations
  <2>2. RequestInv(r)'
    BY <1>1, <1>6, GotoEffect DEF RequestInv, req
  <2>. QED
    BY <1>3, <1>4, <1>6, <2>1, <2>2, DispatchedStep DEF req, device
<1>7. CASE AccessRegister(r)
  <2>1. irp[r] = "dispatched" /\ Answer(r) /\ UNCHANGED <<hardware, slot, queued>>
    BY <1>1, <1>7 DEF AccessRegister, RequestInv
  <2>2. UNCHANGED device
    BY <1>7 DEF AccessRegister
  <2>. QED
    BY <1>5, <2>1, <2>2 DEF device
<1>8. CASE TestSlot(r)
  <2>1. irp[r] = "dispatched" /\ kind[r] \in {"roundtrip", "timer", "workitem"}
    BY <1>1, <1>8 DEF TestSlot, RequestInv
  <2>. QED
    BY <1>5, <1>6, <1>8, <2>1 DEF TestSlot, req
<1>9. CASE StorePending(r)
  <2>1. /\ irp[r] = "dispatched" /\ kind[r] \in {"roundtrip", "timer", "workitem"}
        /\ irp' = [irp EXCEPT ![r] = "pending"]
        /\ PendingRequest' = r /\ PendingKind' = kind[r]
        /\ Goto(r, "start")
        /\ UNCHANGED <<hardware, taken, kind, by, queued, device>>
    BY <1>1, <1>9 DEF StorePending, RequestInv
  <2>2. \A s \in Requests : irp[s] # "pending"
    BY <1>3, <2>1 DEF InDriver
  <2>3. Quiet
    BY <2>2
  <2>4. /\ pc'[r] = "start" /\ pc'["manager"] = pc["manager"]
        /\ \A c \in Callbacks : pc'[c] = "idle"
        /\ \A s \in Requests : s # r => pc'[s] = pc[s]
    BY <1>1, <2>1, <2>3, GotoEffect, ThreadFacts DEF Quiet
  <2>5. Own(r)' \in Callbacks /\ Own(r)' = Own(r)
    BY <2>1 DEF Own, Callbacks
  <2>6. Answering(r)'
    BY <2>1, <2>3, <2>4, <2>5 DEF Answering, Quiet, Silent, device
  <2>7. /\ irp'[r] = "pending" /\ \A s \in Requests : s # r => irp'[s] = irp[s]
    BY <2>1 DEF TypeOK
  <2>8. TypeOK' /\ Located'
    BY <1>1, <2>1, LocatedStep
       DEF TypeOK, hardware, device, RequestLocations, MaybeRequest
  <2>9. OneInDriver' /\ \A s \in Requests : RequestInv(s)'
    BY <1>3, <2>1, <2>4, <2>7 DEF OneInDriver, InDriver, RequestInv
  <2>10. ManagerInv'
    BY <1>4, <2>1, <2>4 DEF ManagerInv, hardware
  <2>11. \A s \in Requests : irp'[s] = "pending" => s = r
    BY <2>2, <2>7
  <2>. QED
    BY <2>6, <2>7, <2>8, <2>9, <2>10, <2>11
<1>10. CASE StartRoundtrip(r) \/ StartCallback(r)
  <2>1. /\ irp[r] = "pending" /\ pc[r] = "start"
        /\ Goto(r, "done")
        /\ UNCHANGED <<hardware, slot, req, done>>
    BY <1>1, <1>10 DEF StartRoundtrip, StartCallback, RequestInv, device
  <2>2. Answering(r) /\ Own(r) \in Callbacks
    BY <2>1 DEF Answering, Own, Callbacks
  <2>3. /\ pc'[r] = "done" /\ pc'["manager"] = pc["manager"]
        /\ \A c \in Callbacks : pc'[c] = pc[c]
        /\ \A s \in Requests : s # r => pc'[s] = pc[s]
    BY <1>1, <2>1, GotoEffect, ThreadFacts
  <2>4. Own(r)' = Own(r) /\ kind'[r] = kind[r] /\ taken' = taken
    BY <2>1 DEF Own, req
  <2>5. Answering(r)'
    <3>1. CASE StartRoundtrip(r)
      <4>1. kind[r] = "roundtrip" /\ command' /\ queued' = queued
        BY <3>1 DEF StartRoundtrip
      <4>. QED
        BY <2>1, <2>2, <2>3, <2>4, <4>1 DEF Answering, Silent, SlotIsEmpty, slot
    <3>2. CASE StartCallback(r)
      <4>1. kind[r] # "roundtrip" /\ queued' = queued \cup {Own(r)} /\ UNCHANGED device
        BY <3>2 DEF StartCallback, Callbacks, Own
      <4>. QED
        BY <2>1, <2>2, <2>3, <2>4, <4>1 DEF Answering, Silent, SlotIsEmpty, slot, device
    <3>. QED
      BY <1>10, <3>1, <3>2
  <2>6. queued' \subseteq Callbacks
    BY <1>10 DEF StartRoundtrip, StartCallback, TypeOK
  <2>7. TypeOK' /\ Located'
    BY <1>1, <2>1, <2>6, LocatedStep DEF TypeOK, hardware, slot, req, RequestLocations
  <2>. QED
    BY <2>1, <2>3, <2>5, <2>7, PendingStep DEF req
<1>11. CASE AnswerCancel(r)
  BY <1>1, <1>5, <1>11 DEF AnswerCancel, RequestInv
<1>12. CASE CompletePendingRequest(r)
  <2>1. pc[r] = "test" /\ TestPending(r) /\ irp[r] = "dispatched"
    BY <1>1, <1>2, <1>12 DEF CompletePendingRequest, TestPending, ReadRegisters, TakePending,
         ClearPending, CompletePending, RequestInv
  <2>2. PendingRequest = NoRequest
    BY <1>3, <2>1 DEF InDriver, Quiet, SlotIsEmpty
  <2>3. Goto(r, "answer")
    BY <1>1, <2>1, <2>2 DEF TestPending, Return
  <2>. QED
    BY <1>6, <2>1, <2>3 DEF TestPending
<1>. QED
  BY <1>7, <1>8, <1>9, <1>10, <1>11, <1>12 DEF Request

(* The DMA device and the ISR. *)
LEMMA DeviceStep ==
    ASSUME IInv, FlagsOK', DeviceFinishes \/ EvtInterruptIsr
    PROVE  IInv'
<1>. USE DEF IInv
<1>1. UNCHANGED <<hardware, slot, pc, req>>
  BY DEF DeviceFinishes, EvtInterruptIsr
<1>2. command \/ done
  BY DEF DeviceFinishes, EvtInterruptIsr
<1>3. PICK r \in Requests : irp[r] = "pending"
  BY <1>2 DEF Quiet, Silent
<1>4. Answering(r) /\ kind[r] = "roundtrip" /\ Own(r) = "dpc" /\ Own(r)' = "dpc"
  BY <1>1, <1>2, <1>3 DEF Answering, Own, req
<1>5. Answering(r)'
  <2>1. CASE DeviceFinishes
    BY <1>1, <1>4, <2>1 DEF DeviceFinishes, Answering, Silent, SlotIsEmpty, slot, req
  <2>2. CASE EvtInterruptIsr
    <3>1. done /\ ~done' /\ UNCHANGED command /\ queued' = queued \cup {"dpc"}
      BY <2>2 DEF EvtInterruptIsr
    <3>. QED
      BY <1>1, <1>4, <3>1 DEF Answering, Silent, SlotIsEmpty, slot, req
  <2>. QED
    BY <2>1, <2>2
<1>6. queued' \subseteq Callbacks
  BY DEF DeviceFinishes, EvtInterruptIsr, TypeOK, Callbacks
<1>7. TypeOK' /\ Located'
  BY <1>1, <1>6 DEF TypeOK, Located, hardware, slot, req
<1>8. pc[r] \in {"start", "done"}
  BY <1>3 DEF RequestInv
<1>. QED
  BY <1>1, <1>3, <1>5, <1>7, <1>8, PendingStep DEF req

(* The DPC, the timer and the work item. *)
LEMMA CallbackStep ==
    ASSUME IInv, FlagsOK', NEW c \in Callbacks, Callback(c)
    PROVE  IInv'
<1>. USE DEF IInv, At
<1>1. c \in Threads /\ c # "manager" /\ c \notin Requests
  BY ThreadFacts
<1>2. c \in queued \/ pc[c] # "idle"
  BY DEF Callback, EvtCallback, CompletePendingRequest, TestPending, ReadRegisters, TakePending,
         ClearPending, CompletePending
<1>3. PICK r \in Requests : irp[r] = "pending"
  BY <1>2 DEF Quiet, Silent
<1>4. Answering(r) /\ c = Own(r)
  BY <1>2, <1>3 DEF Answering
<1>5. pc[r] \in {"start", "done"} /\ r \in Threads /\ r # c
  BY <1>1, <1>3, ThreadFacts DEF RequestInv
<1>6. UNCHANGED <<hardware, device>>
  BY DEF Callback, EvtCallback, CompletePendingRequest, TestPending, ReadRegisters, TakePending,
         ClearPending, CompletePending
<1>7. ASSUME NEW loc \in CallbackLocations, Goto(c, loc), UNCHANGED <<kind, irp, by>>,
             Answering(r)', TypeOK' PROVE IInv'
  <2>1. /\ pc'["manager"] = pc["manager"]
        /\ \A s \in Requests : pc'[s] = pc[s]
    BY <1>1, <1>7, GotoEffect, ThreadFacts
  <2>2. Located'
    BY <1>1, <1>7, LocatedStep
  <2>. QED
    BY <1>3, <1>5, <1>6, <1>7, <2>1, <2>2, PendingStep
<1>8. CASE EvtCallback(c)
  <2>1. /\ queued' = queued \ {c} /\ Goto(c, "test") /\ c \in queued
        /\ UNCHANGED <<slot, req>>
    BY <1>8 DEF EvtCallback
  <2>2. pc[c] = "idle" /\ pc'[c] = "test" /\ \A t \in Threads : t # c => pc'[t] = pc[t]
    BY <1>1, <1>8, <2>1, GotoEffect DEF EvtCallback
  <2>3. Silent'
    <3>1. queued' = {}
      BY <1>4, <2>1 DEF Answering, TypeOK
    <3>. QED
      BY <1>4, <1>6, <2>1, <3>1 DEF Answering, Silent, device
  <2>4. Answering(r)'
    <3>1. PendingRequest' = r /\ PendingKind' = kind'[r] /\ kind'[r] = kind[r] /\ Own(r)' = c
      BY <1>4, <2>1, <2>2 DEF Answering, Own, slot, req
    <3>2. \A d \in Callbacks : d # c => pc'[d] = "idle" /\ d \notin queued'
      BY <1>4, <2>1, <2>2, ThreadFacts DEF Answering
    <3>3. pc'[r] = "done"
      BY <1>4, <1>5, <2>1, <2>2 DEF Answering, Silent
    <3>. QED
      BY <1>4, <2>2, <2>3, <3>1, <3>2, <3>3 DEF Answering, Silent
  <2>5. TypeOK'
    BY <1>1, <1>6, <2>1, LocatedStep
       DEF TypeOK, hardware, slot, req, device, CallbackLocations, SlotLocations
  <2>. QED
    BY <1>7, <2>1, <2>4, <2>5 DEF req, CallbackLocations, SlotLocations
<1>9. CASE TestPending(c) \/ ReadRegisters(c) \/ TakePending(c)
  <2>1. PICK loc \in {"registers", "take", "clear"} : Goto(c, loc)
    <3>1. pc[c] # "complete" => PendingRequest = r /\ PendingKind = kind[r] /\ r # NoRequest
      BY <1>4, RequestsAssumption DEF Answering
    <3>2. c \in {"timer", "workitem"} => kind[r] = c
      BY <1>4 DEF Own, Answering
    <3>. QED
      BY <1>9, <3>1, <3>2 DEF TestPending, ReadRegisters, TakePending
  <2>2. pc[c] \notin {"idle", "complete"} /\ UNCHANGED <<slot, queued, kind, irp, by>>
    BY <1>9 DEF TestPending, ReadRegisters, TakePending, req
  <2>3. pc'[c] = loc /\ \A t \in Threads : t # c => pc'[t] = pc[t]
    BY <1>1, <2>1, GotoEffect
  <2>4. taken' \in [Threads -> MaybeRequest] /\ (loc = "clear" => taken'[c] = r)
    <3>1. CASE TakePending(c)
      BY <1>1, <1>4, <2>2, <3>1 DEF TakePending, Answering, TypeOK, MaybeRequest
    <3>2. CASE TestPending(c) \/ ReadRegisters(c)
      <4>1. pc[c] \in {"test", "registers"} /\ UNCHANGED taken
        BY <3>2 DEF TestPending, ReadRegisters, req
      <4>2. pc'[c] # "clear"
        BY <1>1, <1>4, <3>2, ThreadFacts, RequestsAssumption, GotoEffect
           DEF TestPending, ReadRegisters, Return, Answering, Own
      <4>. QED
        BY <2>3, <4>1, <4>2 DEF TypeOK
    <3>. QED
      BY <1>9, <3>1, <3>2
  <2>5. Answering(r)'
    <3>1. Silent' /\ PendingRequest' = r /\ PendingKind' = kind'[r] /\ Own(r)' = c
      BY <1>4, <1>6, <2>2 DEF Answering, Own, Silent, slot, device
    <3>2. \A d \in Callbacks : d # c => pc'[d] = "idle" /\ d \notin queued'
      BY <1>4, <2>2, <2>3, ThreadFacts DEF Answering
    <3>3. pc'[r] = "done"
      BY <1>4, <1>5, <2>2, <2>3 DEF Answering
    <3>4. pc'[c] # "idle" /\ pc'[c] # "complete" /\ (pc'[c] = "clear" => taken'[c] = r)
      BY <2>3, <2>4
    <3>. QED
      BY <1>4, <2>2, <3>1, <3>2, <3>3, <3>4 DEF Answering, Silent
  <2>6. TypeOK'
    BY <1>1, <1>6, <2>1, <2>2, <2>4, LocatedStep
       DEF TypeOK, hardware, slot, device, CallbackLocations, SlotLocations
  <2>. QED
    BY <1>7, <2>1, <2>2, <2>5, <2>6 DEF CallbackLocations, SlotLocations
<1>10. CASE ClearPending(c)
  <2>1. taken[c] = r /\ r # NoRequest /\ pc[c] = "clear"
    BY <1>4, <1>10, RequestsAssumption DEF ClearPending, Answering
  <2>2. /\ SlotIsEmpty' /\ Goto(c, "complete")
        /\ UNCHANGED <<req, queued>>
    BY <1>10, <2>1 DEF ClearPending, SlotIsEmpty
  <2>3. pc'[c] = "complete" /\ \A t \in Threads : t # c => pc'[t] = pc[t]
    BY <1>1, <2>2, GotoEffect
  <2>4. Answering(r)'
    <3>1. Silent' /\ taken'[c] = r /\ kind'[r] = kind[r] /\ Own(r)' = c
      BY <1>4, <1>6, <2>1, <2>2 DEF Answering, Own, Silent, req, device
    <3>2. \A d \in Callbacks : d # c => pc'[d] = "idle" /\ d \notin queued'
      BY <1>4, <2>2, <2>3, ThreadFacts DEF Answering
    <3>3. pc'[r] = "done"
      BY <1>4, <1>5, <2>1, <2>3 DEF Answering
    <3>. QED
      BY <1>4, <2>2, <2>3, <3>1, <3>2, <3>3 DEF Answering, Silent
  <2>5. TypeOK'
    BY <1>1, <1>6, <2>2, LocatedStep
       DEF TypeOK, hardware, req, device, SlotIsEmpty, MaybeRequest, CallbackLocations,
           SlotLocations
  <2>. QED
    BY <1>7, <2>2, <2>4, <2>5 DEF req, CallbackLocations, SlotLocations
<1>11. CASE CompletePending(c)
  <2>1. taken[c] = r /\ pc[c] = "complete" /\ Silent /\ SlotIsEmpty
    BY <1>4, <1>11 DEF CompletePending, Answering
  <2>2. /\ irp' = [irp EXCEPT ![r] = "completed"] /\ by' = [by EXCEPT ![r] = c]
        /\ taken' = [taken EXCEPT ![c] = NoRequest] /\ Goto(c, "idle")
        /\ UNCHANGED <<slot, kind, queued>>
    <3>1. Goto(c, "idle")
      <4>1. Return(c) = "idle"
        BY <1>1 DEF Return
      <4>. QED
        BY <1>11, <4>1 DEF CompletePending
    <3>2. irp' = [irp EXCEPT ![r] = "completed"] /\ by' = [by EXCEPT ![r] = c]
      BY <1>3, <1>11, <2>1 DEF CompletePending, Complete, TypeOK
    <3>. QED
      BY <1>11, <3>1, <3>2 DEF CompletePending
  <2>3. pc'[c] = "idle" /\ \A t \in Threads : t # c => pc'[t] = pc[t]
    BY <1>1, <2>2, GotoEffect
  <2>4. TypeOK' /\ Located'
    BY <1>1, <1>6, <2>2, LocatedStep
       DEF TypeOK, hardware, slot, device, MaybeRequest, CallbackLocations
  <2>5. \A s \in Requests : irp[s] = "pending" => s = r
    BY <1>3 DEF OneInDriver, InDriver
  <2>6. irp'[r] = "completed" /\ \A s \in Requests : s # r => irp'[s] = irp[s]
    BY <2>2 DEF TypeOK
  <2>7. \A s \in Requests : irp'[s] # "pending"
    BY <2>5, <2>6
  <2>8. Quiet'
    BY <1>4, <1>6, <2>1, <2>2, <2>3, ThreadFacts
       DEF Quiet, Answering, Silent, SlotIsEmpty, slot, device
  <2>9. OneInDriver' /\ \A s \in Requests : RequestInv(s)'
    <3>1. OneInDriver'
      BY <2>6 DEF OneInDriver, InDriver
    <3>2. \A s \in Requests : pc'[s] = pc[s] /\ kind'[s] = kind[s]
      BY <1>1, <2>2, <2>3, ThreadFacts
    <3>3. pc[r] = "done"
      BY <1>4, <1>5, <2>1 DEF Answering
    <3>. QED
      BY <2>6, <3>1, <3>2, <3>3 DEF RequestInv
  <2>10. ManagerInv'
    BY <1>1, <1>6, <2>3, <2>6, ThreadFacts DEF ManagerInv, InDriver, hardware
  <2>. QED
    BY <2>4, <2>7, <2>8, <2>9, <2>10
<1>. QED
  BY <1>8, <1>9, <1>10, <1>11 DEF Callback, CompletePendingRequest

(* The PnP and power callbacks. *)
LEMMA ManagerKeeps ==
    ASSUME IInv, FlagsOK', ManagerRequest \/ ManagerStep
    PROVE  IInv'
<1>. USE DEF IInv, At
<1>1. "manager" \in Threads
  BY ThreadFacts
<1>2. CompletePendingRequest("manager") => TestPending("manager")
  BY DEF ManagerInv, CompletePendingRequest, ReadRegisters, TakePending, ClearPending,
         CompletePending
<1>3. TestPending("manager") => Goto("manager", IF Powered THEN "exit" ELSE "release")
  <2>. SUFFICES ASSUME TestPending("manager")
                PROVE  Goto("manager", IF Powered THEN "exit" ELSE "release")
    OBVIOUS
  <2>1. \A r \in Requests : ~InDriver(r)
    BY DEF TestPending, ManagerInv
  <2>2. PendingRequest = NoRequest
    BY <2>1 DEF InDriver, Quiet, SlotIsEmpty
  <2>. QED
    BY <2>2, ThreadFacts DEF TestPending, Return
<1>4. UNCHANGED <<slot, req, device>>
  BY <1>2 DEF ManagerRequest, ManagerStep, DeviceAdd, PrepareHardware, D0Entry, StopQueue,
         ReleaseHardware, QueueStopped, D0Exit, ReleaseResources, TestPending
<1>5. PICK loc \in {"off", "stopped", "working", "draining", "test", "exit", "release"} :
        Goto("manager", loc)
  BY <1>2, <1>3 DEF ManagerRequest, ManagerStep, DeviceAdd, PrepareHardware, D0Entry, StopQueue,
         ReleaseHardware, QueueStopped, D0Exit, ReleaseResources
<1>6. /\ pc'["manager"] = loc
      /\ \A r \in Requests : pc'[r] = pc[r]
      /\ \A c \in Callbacks : pc'[c] = pc[c]
  BY <1>1, <1>5, GotoEffect, ThreadFacts
<1>7. queued' \subseteq queued
  BY <1>2 DEF ManagerRequest, ManagerStep, DeviceAdd, PrepareHardware, D0Entry, StopQueue,
         ReleaseHardware, QueueStopped, D0Exit, ReleaseResources, TestPending
<1>8. held' \subseteq Resources
  BY <1>2 DEF ManagerRequest, ManagerStep, DeviceAdd, PrepareHardware, D0Entry, StopQueue,
         ReleaseHardware, QueueStopped, D0Exit, ReleaseResources, TestPending, hardware, TypeOK,
         Resources
<1>9. TypeOK' /\ Located'
  <2>1. /\ Located'
        /\ pc'["manager"] \in ManagerLocations
        /\ \A c \in Callbacks : pc'[c] \in CallbackLocations
        /\ \A r \in Requests : pc'[r] \in RequestLocations
    BY <1>1, <1>5, LocatedStep, ThreadFacts DEF ManagerLocations, SlotLocations
  <2>. QED
    BY <1>4, <1>7, <1>8, <2>1 DEF TypeOK, slot, req, device
<1>10. OneInDriver' /\ \A r \in Requests : RequestInv(r)'
  BY <1>4, <1>6 DEF OneInDriver, InDriver, RequestInv, req
<1>11. (\A r \in Requests : irp[r] # "pending") => Quiet'
  BY <1>4, <1>6, <1>7 DEF Quiet, Silent, SlotIsEmpty, slot, device
<1>12. ASSUME NEW r \in Requests, irp[r] = "pending" PROVE Answering(r)'
  <2>1. queued' = queued
    <3>1. ~ReleaseResources
      BY <1>12 DEF ReleaseResources, ManagerInv, InDriver
    <3>. QED
      BY <1>2, <3>1 DEF ManagerRequest, ManagerStep, DeviceAdd, PrepareHardware, D0Entry, StopQueue,
         ReleaseHardware, QueueStopped, D0Exit, TestPending
  <2>2. Answering(r) /\ Own(r) \in Callbacks /\ Own(r)' = Own(r)
    BY <1>4, <1>12 DEF Answering, Own, Callbacks, req
  <2>. QED
    BY <1>4, <1>6, <1>12, <2>1, <2>2 DEF Answering, Silent, SlotIsEmpty, slot, req, device
<1>13. ManagerInv'
  <2>0. \A l : Goto("manager", l) => l = loc
    BY <1>1, <1>6, GotoEffect
  <2>. USE <1>4, <1>6, <2>0 DEF ManagerInv, InDriver, req
  <2>1. CASE DeviceAdd \/ StopQueue \/ QueueStopped \/ ReleaseHardware
    BY <2>1 DEF DeviceAdd, StopQueue, QueueStopped, ReleaseHardware, hardware
  <2>2. CASE PrepareHardware
    BY <2>2 DEF PrepareHardware
  <2>3. CASE D0Entry \/ D0Exit
    BY <2>3 DEF D0Entry, D0Exit
  <2>4. CASE TestPending("manager")
    BY <1>3, <2>4 DEF TestPending, hardware
  <2>5. CASE ReleaseResources
    BY <2>5 DEF ReleaseResources
  <2>. QED
    BY <1>2, <2>1, <2>2, <2>3, <2>4, <2>5 DEF ManagerRequest, ManagerStep
<1>. QED
  BY <1>4, <1>9, <1>10, <1>11, <1>12, <1>13 DEF req

(* Every step keeps the invariant. *)
LEMMA NextIInv == ~RawAccess /\ IInv /\ [Next]_vars => IInv'
<1>. SUFFICES ASSUME ~RawAccess, IInv, [Next]_vars PROVE IInv'
  OBVIOUS
<1>0. FlagsOK'
  BY FlagsStep DEF IInv, TypeOK
<1>1. ASSUME UNCHANGED vars PROVE IInv'
  <2>. USE <1>1 DEF vars, hardware, slot, req, device
  <2>1. TypeOK' /\ Located'
    BY <1>0 DEF IInv, TypeOK, Located
  <2>2. OneInDriver' /\ ManagerInv' /\ \A r \in Requests : RequestInv(r)'
    BY DEF IInv, OneInDriver, ManagerInv, RequestInv, InDriver
  <2>3. Quiet' <=> Quiet
    BY DEF Quiet, Silent, SlotIsEmpty
  <2>4. \A r \in Requests : Answering(r)' <=> Answering(r)
    BY DEF Answering, Own, Silent, SlotIsEmpty
  <2>. QED
    BY <2>1, <2>2, <2>3, <2>4 DEF IInv
<1>. QED
  BY <1>0, <1>1, PresentStep, RequestStep, DeviceStep, CallbackStep, ManagerKeeps
     DEF Next, Finished

-----------------------------------------------------------------------------
(* While clients leave the COMMAND and ACK registers alone, the inductive   *)
(* invariant holds of every behaviour of the driver.                        *)
THEOREM Invariance == ~RawAccess /\ Spec => []IInv
<1>1. CASE ~RawAccess
  <2>1. IInv /\ [Next]_vars => IInv'
    BY <1>1, NextIInv
  <2>. QED
    BY <2>1, InitIInv, PTL DEF Spec
<1>2. CASE RawAccess
  BY <1>2
<1>. QED
  BY <1>1, <1>2

(* Every variable keeps to its values.  No request is completed twice, by   *)
(* any two of the DPC, the timer, the work item, CANCEL_PENDING and the     *)
(* power callbacks, although the slot has no lock.                          *)
THEOREM TypeCorrect == ~RawAccess /\ Spec => []TypeOK
<1>1. IInv => TypeOK
  BY DEF IInv
<1>. QED
  BY <1>1, Invariance, PTL

(* STATUS_DEVICE_BUSY is never answered, CANCEL_PENDING finds nothing.      *)
THEOREM SlotFree == ~RawAccess /\ Spec => []SlotFreeWhenPresented
<1>1. IInv => SlotFreeWhenPresented
  <2>. SUFFICES ASSUME IInv, NEW r \in Requests, pc[r] \in {"set", "store"} \cup SlotLocations
                PROVE  PendingRequest = NoRequest
    BY DEF SlotFreeWhenPresented
  <2>1. irp[r] = "dispatched"
    BY DEF IInv, RequestInv, SlotLocations
  <2>2. \A s \in Requests : irp[s] # "pending"
    BY <2>1 DEF IInv, OneInDriver, InDriver
  <2>. QED
    BY <2>2 DEF IInv, Quiet, SlotIsEmpty
<1>. QED
  BY <1>1, Invariance, PTL

(* Outside D0 nothing is pending and nothing is on its way, so that D0Exit  *)
(* and ReleaseHardware need not wait for the DPC.                           *)
THEOREM QuietWhenDown == ~RawAccess /\ Spec => []QuietOutsideD0
<1>1. IInv => QuietOutsideD0
  <2>. SUFFICES ASSUME IInv, ~Powered
                PROVE  /\ PendingRequest = NoRequest
                       /\ queued = {} /\ \A c \in Callbacks : At(c, "idle")
                       /\ ~command /\ ~done
    BY DEF QuietOutsideD0
  <2>1. \A r \in Requests : ~InDriver(r)
    BY DEF IInv, ManagerInv
  <2>2. Quiet
    BY <2>1 DEF IInv, InDriver
  <2>. QED
    BY <2>2 DEF Quiet, Silent, SlotIsEmpty, At
<1>. QED
  BY <1>1, Invariance, PTL

(* Registers are mapped whenever the DPC or a request is about to access    *)
(* them.                                                                    *)
THEOREM AccessesMapped == ~RawAccess /\ Spec => []MappedWhenAccessed
<1>1. IInv => MappedWhenAccessed
  <2>. SUFFICES ASSUME IInv PROVE MappedWhenAccessed
    OBVIOUS
  <2>1. (\E r \in Requests : InDriver(r)) => Mapped
    BY DEF IInv, ManagerInv, Mapped, Resources
  <2>2. At("dpc", "registers") => \E r \in Requests : InDriver(r)
    BY DEF IInv, Quiet, At, InDriver, Callbacks
  <2>3. \A r \in Requests : At(r, "register") \/ At(r, "start") => InDriver(r)
    BY DEF IInv, RequestInv, At, InDriver
  <2>. QED
    BY <2>1, <2>2, <2>3 DEF MappedWhenAccessed
<1>. QED
  BY <1>1, Invariance, PTL

(* ReleaseHardware leaves nothing behind. *)
THEOREM CleanRelease == ~RawAccess /\ Spec => []ReleasedIsClean
<1>1. IInv => ReleasedIsClean
  BY DEF IInv, ManagerInv, ReleasedIsClean
<1>. QED
  BY <1>1, Invariance, PTL

-----------------------------------------------------------------------------
(* What a step may do to a request: present it, mark it pending, answer it  *)
(* in its dispatch routine before it is pending, and after that answer it   *)
(* in the callback it waits for, and in no other.                           *)
PacketStep(r) ==
    \/ irp[r] = "new" /\ irp'[r] = "dispatched" /\ by'[r] = by[r]
    \/ irp[r] = "dispatched" /\ irp'[r] = "pending" /\ by'[r] = by[r] /\ kind'[r] = kind[r]
    \/ irp[r] \in {"new", "dispatched"} /\ irp'[r] = "completed" /\ by'[r] = r /\ kind'[r] = kind[r]
    \/ irp[r] = "pending" /\ irp'[r] = "completed" /\ by'[r] = Own(r) /\ kind'[r] = kind[r]

OnePacketMoves ==
    \E r \in Requests :
        /\ PacketStep(r)
        /\ irp' = [irp EXCEPT ![r] = irp'[r]]
        /\ by' = [by EXCEPT ![r] = by'[r]]
        /\ kind' = [kind EXCEPT ![r] = kind'[r]]

(* Every step leaves all requests alone or moves one of them so. *)
LEMMA PacketsMove ==
    ASSUME ~RawAccess, IInv, [Next]_vars
    PROVE  UNCHANGED <<kind, irp, by>> \/ OnePacketMoves
<1>. USE DEF IInv
<1>1. ASSUME NEW r \in Requests, irp[r] \in {"new", "dispatched"}, Answer(r) PROVE OnePacketMoves
  <2>1. /\ irp' = [irp EXCEPT ![r] = "completed"] /\ by' = [by EXCEPT ![r] = r]
        /\ UNCHANGED kind
    BY <1>1 DEF Answer, Complete, TypeOK
  <2>2. irp'[r] = "completed" /\ by'[r] = r /\ kind' = [kind EXCEPT ![r] = kind'[r]]
    BY <2>1 DEF TypeOK
  <2>. QED
    BY <1>1, <2>1, <2>2 DEF OnePacketMoves, PacketStep
<1>2. ASSUME NEW r \in Requests, EvtIoDeviceControl(r) PROVE OnePacketMoves
  <2>1. irp[r] = "new"
    BY <1>2 DEF EvtIoDeviceControl, Present, At, RequestInv
  <2>2. PICK k \in Kinds :
          IF Refused(k)
          THEN Answer(r)
          ELSE /\ kind' = [kind EXCEPT ![r] = k]
               /\ irp' = [irp EXCEPT ![r] = "dispatched"]
               /\ Goto(r, FirstLocation(k))
               /\ UNCHANGED <<taken, by>>
    BY <1>2 DEF EvtIoDeviceControl, Present
  <2>3. CASE Refused(k)
    BY <1>1, <2>1, <2>2, <2>3
  <2>4. CASE ~Refused(k)
    <3>1. irp'[r] = "dispatched" /\ kind'[r] = k /\ by'[r] = by[r]
          /\ by' = [by EXCEPT ![r] = by'[r]]
      BY <2>2, <2>4 DEF TypeOK
    <3>. QED
      BY <2>1, <2>2, <2>4, <3>1 DEF OnePacketMoves, PacketStep
  <2>. QED
    BY <2>3, <2>4
<1>3. ASSUME NEW r \in Requests, Request(r)
      PROVE  UNCHANGED <<kind, irp, by>> \/ OnePacketMoves
  <2>0. pc[r] \in {"idle", "register", "set", "store", "test", "start", "answer", "done"}
    BY DEF RequestInv
  <2>1. CASE AccessRegister(r) \/ AnswerCancel(r)
    <3>1. irp[r] = "dispatched" /\ Answer(r)
      BY <2>1 DEF AccessRegister, AnswerCancel, At, RequestInv
    <3>. QED
      BY <1>1, <3>1
  <2>2. CASE TestSlot(r)
    <3>1. irp[r] = "dispatched"
      BY <2>2 DEF TestSlot, At, RequestInv
    <3>. QED
      BY <1>1, <2>2, <3>1 DEF TestSlot, req
  <2>3. CASE StorePending(r)
    <3>1. irp[r] = "dispatched" /\ irp' = [irp EXCEPT ![r] = "pending"] /\ UNCHANGED <<kind, by>>
      BY <2>3 DEF StorePending, At, RequestInv
    <3>2. irp'[r] = "pending" /\ by' = [by EXCEPT ![r] = by'[r]]
          /\ kind' = [kind EXCEPT ![r] = kind'[r]]
      BY <3>1 DEF TypeOK
    <3>. QED
      BY <3>1, <3>2 DEF OnePacketMoves, PacketStep
  <2>4. CASE StartRoundtrip(r) \/ StartCallback(r) \/ CompletePendingRequest(r)
    <3>1. ~CompletePending(r)
      BY <2>0 DEF CompletePending, At
    <3>. QED
      BY <2>4, <3>1 DEF StartRoundtrip, StartCallback, CompletePendingRequest, TestPending,
         ReadRegisters, TakePending, ClearPending, req
  <2>. QED
    BY <1>3, <2>1, <2>2, <2>3, <2>4 DEF Request
<1>4. ASSUME NEW c \in Callbacks, Callback(c)
      PROVE  UNCHANGED <<kind, irp, by>> \/ OnePacketMoves
  <2>1. CASE CompletePending(c)
    <3>1. pc[c] = "complete"
      BY <2>1 DEF CompletePending, At
    <3>2. PICK r \in Requests : irp[r] = "pending"
      BY <3>1 DEF Quiet
    <3>3. Answering(r) /\ c = Own(r) /\ taken[c] = r
      BY <3>1, <3>2 DEF Answering
    <3>4. /\ irp' = [irp EXCEPT ![r] = "completed"] /\ by' = [by EXCEPT ![r] = c]
          /\ UNCHANGED kind
      BY <2>1, <3>2, <3>3 DEF CompletePending, Complete, TypeOK
    <3>5. irp'[r] = "completed" /\ by'[r] = Own(r) /\ kind' = [kind EXCEPT ![r] = kind'[r]]
      BY <3>3, <3>4 DEF TypeOK
    <3>. QED
      BY <3>2, <3>3, <3>4, <3>5 DEF OnePacketMoves, PacketStep
  <2>. QED
    BY <1>4, <2>1 DEF Callback, EvtCallback, CompletePendingRequest, TestPending, ReadRegisters,
       TakePending, ClearPending, req
<1>5. CASE ManagerRequest \/ ManagerStep
  <2>1. ~CompletePending("manager")
    BY DEF ManagerInv, CompletePending, At
  <2>. QED
    BY <1>5, <2>1 DEF ManagerRequest, ManagerStep, DeviceAdd, PrepareHardware, D0Entry, StopQueue,
       ReleaseHardware, QueueStopped, D0Exit, ReleaseResources, CompletePendingRequest,
       TestPending, ReadRegisters, TakePending, ClearPending, req
<1>6. CASE DeviceFinishes \/ EvtInterruptIsr \/ UNCHANGED vars
  BY <1>6 DEF DeviceFinishes, EvtInterruptIsr, vars, req
<1>. QED
  BY <1>2, <1>3, <1>4, <1>5, <1>6 DEF Next, Finished

(* Seen from the framework, the driver follows the request protocol. *)
Protocol == INSTANCE IrpProtocol WITH Irps <- Requests, stage <- irp

(* kmdf_dma_interrupt_test_driver completes every request once, although    *)
(* its slot has no lock.                                                    *)
THEOREM ImplementsIrpProtocol == ~RawAccess /\ Spec => Protocol!Spec
<1>1. Init => Protocol!Init
  BY DEF Init, Protocol!Init
<1>2. ~RawAccess /\ IInv /\ [Next]_vars => [Protocol!Next]_irp
  <2>. SUFFICES ASSUME ~RawAccess, IInv, [Next]_vars PROVE [Protocol!Next]_irp
    OBVIOUS
  <2>1. CASE OnePacketMoves
    BY <2>1 DEF OnePacketMoves, PacketStep, Protocol!Next, Protocol!Dispatch, Protocol!MarkPending,
       Protocol!Complete
  <2>. QED
    BY <2>1, PacketsMove
<1>3. ~RawAccess /\ Spec => [](~RawAccess)
  <2>1. CASE RawAccess
    BY <2>1
  <2>2. CASE ~RawAccess
    BY <2>2, PTL
  <2>. QED
    BY <2>1, <2>2
<1>. QED
  BY <1>1, <1>2, <1>3, Invariance, PTL DEF Spec, Protocol!Spec

(* Nobody has answered a request that is not completed, and a callback      *)
(* answered only requests of its own kind.                                  *)
AnswererInv ==
    /\ \A r \in Requests : by[r] # "none" => irp[r] = "completed"
    /\ AnsweredByOwnCallback

(* The DPC answers only COMMON_ROUNDTRIP, the timer only TIMER_TEST, the    *)
(* work item only WORKITEM_TEST: what fails when a client writes to the     *)
(* COMMAND register of its own accord holds when none writes it or ACK.     *)
THEOREM OwnCallback == ~RawAccess /\ Spec => []AnsweredByOwnCallback
<1>1. Init => AnswererInv
  BY DEF Init, AnswererInv, AnsweredByOwnCallback
<1>2. ~RawAccess /\ IInv /\ AnswererInv /\ [Next]_vars => AnswererInv'
  <2>. SUFFICES ASSUME ~RawAccess, IInv, AnswererInv, [Next]_vars PROVE AnswererInv'
    OBVIOUS
  <2>1. CASE UNCHANGED <<kind, irp, by>>
    BY <2>1 DEF AnswererInv, AnsweredByOwnCallback
  <2>2. CASE OnePacketMoves
    <3>1. PICK r \in Requests :
            /\ PacketStep(r)
            /\ irp' = [irp EXCEPT ![r] = irp'[r]]
            /\ by' = [by EXCEPT ![r] = by'[r]]
            /\ kind' = [kind EXCEPT ![r] = kind'[r]]
      BY <2>2 DEF OnePacketMoves
    <3>2. \A s \in Requests : s # r => irp'[s] = irp[s] /\ by'[s] = by[s] /\ kind'[s] = kind[s]
      BY <3>1 DEF IInv, TypeOK
    <3>3. r \notin Callbacks
      BY ThreadFacts
    <3>4. irp[r] = "pending" => kind[r] \in {"roundtrip", "timer", "workitem"}
      BY DEF IInv, Answering
    <3>5. irp[r] # "completed" => by[r] = "none"
      BY DEF AnswererInv
    <3>6. /\ by'[r] # "none" => irp'[r] = "completed"
          /\ by'[r] = "dpc" => kind'[r] = "roundtrip"
          /\ by'[r] \in {"timer", "workitem"} => kind'[r] = by'[r]
      BY <3>1, <3>3, <3>4, <3>5 DEF PacketStep, Own, Callbacks
    <3>. QED
      BY <3>2, <3>6 DEF AnswererInv, AnsweredByOwnCallback
  <2>. QED
    BY <2>1, <2>2, PacketsMove
<1>3. CASE ~RawAccess
  <2>1. IInv /\ AnswererInv /\ [Next]_vars => AnswererInv'
    BY <1>2, <1>3
  <2>2. AnswererInv => AnsweredByOwnCallback
    BY DEF AnswererInv
  <2>. QED
    BY <1>1, <2>1, <2>2, Invariance, <1>3, PTL DEF Spec
<1>4. CASE RawAccess
  BY <1>4
<1>. QED
  BY <1>3, <1>4

-----------------------------------------------------------------------------
(* The step that brings a pending request nearer to its answer is there to  *)
(* be taken: by its dispatch routine, which has yet to start the callback,  *)
(* by the device, by its interrupt, which is enabled and not refused, or by *)
(* the callback.                                                            *)
Owed(r) ==
    \/ pc[r] = "start"
    \/ command
    \/ done /\ enabled /\ Prepared /\ Powered /\ Mapped
    \/ Own(r) \in queued /\ pc[Own(r)] = "idle"
    \/ pc[Own(r)] # "idle"

PendingIsOwed == \A r \in Requests : irp[r] = "pending" => Owed(r)

(* The interrupt is enabled in D0. *)
OwedInv == (enabled <=> Powered) /\ PendingIsOwed

(* The interrupt follows the power state. *)
LEMMA EnabledStep ==
    ASSUME ~RawAccess, IInv, enabled <=> Powered, [Next]_vars
    PROVE  enabled' <=> Powered'
<1>. USE DEF hardware
<1>1. ASSUME NEW t, CompletePendingRequest(t) PROVE UNCHANGED hardware
  BY <1>1 DEF CompletePendingRequest, TestPending, ReadRegisters, TakePending, ClearPending,
          CompletePending
<1>2. CASE (\E r \in Requests : EvtIoDeviceControl(r) \/ Request(r))
           \/ (\E c \in Callbacks : Callback(c))
  BY <1>1, <1>2 DEF EvtIoDeviceControl, Present, Request, AccessRegister, TestSlot, StorePending,
     StartRoundtrip, StartCallback, AnswerCancel, Callback, EvtCallback
<1>3. CASE ManagerRequest \/ ManagerStep
  <2>1. CASE D0Entry \/ D0Exit
    BY <2>1 DEF D0Entry, D0Exit
  <2>. QED
    BY <1>1, <1>3, <2>1 DEF ManagerRequest, ManagerStep, DeviceAdd, PrepareHardware, StopQueue,
       ReleaseHardware, QueueStopped, ReleaseResources
<1>. QED
  BY <1>2, <1>3 DEF Next, Finished, vars, DeviceFinishes, EvtInterruptIsr

(* The dispatch routine of a pending request starts its callback. *)
LEMMA OwedAfterRequest ==
    ASSUME IInv, NEW r \in Requests, irp[r] = "pending", NEW s \in Requests, Request(s)
    PROVE  Owed(r)'
<1>. USE DEF IInv, At
<1>1. Answering(r) /\ pc[r] \in {"start", "done"}
  BY DEF RequestInv
<1>2. pc[s] \in {"register", "set", "store", "test", "start", "answer"}
  BY DEF RequestInv, Request, AccessRegister, TestSlot, StorePending, StartRoundtrip, StartCallback,
     AnswerCancel, CompletePendingRequest, TestPending, ReadRegisters, TakePending, ClearPending,
     CompletePending
<1>3. s = r
  BY <1>2 DEF RequestInv, InDriver, OneInDriver
<1>4. StartRoundtrip(r) \/ StartCallback(r)
  BY <1>1, <1>2, <1>3 DEF Request, AccessRegister, TestSlot, StorePending, AnswerCancel,
     CompletePendingRequest, TestPending, ReadRegisters, TakePending, ClearPending, CompletePending
<1>5. CASE StartRoundtrip(r)
  BY <1>5 DEF StartRoundtrip, Owed
<1>6. CASE StartCallback(r)
  <2>1. Own(r)' = kind[r] /\ kind[r] \in queued'
    BY <1>6 DEF StartCallback, Own, Callbacks, req
  <2>. QED
    BY <2>1 DEF Owed
<1>. QED
  BY <1>4, <1>5, <1>6

(* The callback of a pending request does not return before it has answered *)
(* it.                                                                      *)
LEMMA OwedAfterCallback ==
    ASSUME IInv, NEW r \in Requests, irp[r] = "pending", irp'[r] = "pending", kind'[r] = kind[r],
           NEW c \in Callbacks, Callback(c)
    PROVE  Owed(r)'
<1>. USE DEF IInv, At
<1>1. Answering(r) /\ c = Own(r) /\ Own(r)' = c /\ c \in Threads /\ c \notin Requests
      /\ r # NoRequest
  <2>1. c \in queued \/ pc[c] # "idle"
    BY DEF Callback, EvtCallback, CompletePendingRequest, TestPending, ReadRegisters, TakePending,
       ClearPending, CompletePending
  <2>. QED
    BY <2>1, ThreadFacts, RequestsAssumption DEF Answering, Own
<1>2. c \in {"timer", "workitem"} => kind[r] = c
  BY <1>1 DEF Own, Answering
<1>3. ~CompletePending(c)
  BY <1>1 DEF CompletePending, Complete, Answering, TypeOK
<1>4. PICK loc \in SlotLocations : Goto(c, loc)
  <2>1. CASE EvtCallback(c)
    BY <2>1 DEF EvtCallback, SlotLocations
  <2>2. CASE CompletePendingRequest(c)
    BY <1>1, <1>2, <1>3, <2>2 DEF CompletePendingRequest, TestPending, ReadRegisters, TakePending,
       ClearPending, Answering, SlotLocations
  <2>. QED
    BY <2>1, <2>2 DEF Callback
<1>5. pc'[c] # "idle"
  BY <1>1, <1>4, GotoEffect DEF SlotLocations
<1>. QED
  BY <1>1, <1>5 DEF Owed

(* The PnP and power callbacks leave it alone. *)
LEMMA OwedAfterManager ==
    ASSUME IInv, NEW r \in Requests, irp[r] = "pending", Owed(r), ManagerRequest \/ ManagerStep,
           IInv', irp'[r] = "pending", enabled' <=> Powered'
    PROVE  Owed(r)'
<1>. USE DEF IInv, At
<1>1. InDriver(r) /\ ~CompletePending("manager") /\ ~ReadRegisters("manager")
      /\ ~TakePending("manager") /\ ~ClearPending("manager")
  BY DEF InDriver, ManagerInv, CompletePending, ReadRegisters, TakePending, ClearPending
<1>2. ~ReleaseResources /\ ~TestPending("manager")
  BY <1>1 DEF ReleaseResources, TestPending, ManagerInv
<1>3. UNCHANGED <<slot, req, queued, device>> /\ \E loc : Goto("manager", loc)
  BY <1>1, <1>2 DEF ManagerRequest, ManagerStep, DeviceAdd, PrepareHardware, D0Entry, StopQueue,
     ReleaseHardware, QueueStopped, D0Exit, CompletePendingRequest
<1>4. Own(r)' = Own(r) /\ Own(r) \in Callbacks
  BY <1>3 DEF Own, Answering, Callbacks, req
<1>5. pc'[r] = pc[r] /\ pc'[Own(r)] = pc[Own(r)]
  BY <1>3, <1>4, GotoEffect, ThreadFacts
<1>6. enabled' /\ Prepared' /\ Powered' /\ Mapped'
  BY DEF ManagerInv, InDriver, Mapped, Resources
<1>. QED
  BY <1>3, <1>4, <1>5, <1>6 DEF Owed, device

(* A request is marked pending only where it is stored. *)
LEMMA OnlyStorePends ==
    ASSUME ~RawAccess, IInv, [Next]_vars, NEW r \in Requests, irp[r] # "pending",
           irp'[r] = "pending"
    PROVE  \E s \in Requests : StorePending(s)
<1>. USE DEF IInv
<1>1. ASSUME NEW s, NEW t, Complete(s, t) PROVE FALSE
  BY <1>1 DEF Complete, TypeOK
<1>2. ASSUME NEW t, CompletePendingRequest(t) PROVE FALSE
  BY <1>1, <1>2 DEF CompletePendingRequest, TestPending, ReadRegisters, TakePending, ClearPending,
     CompletePending, req
<1>3. ASSUME NEW s \in Requests, EvtIoDeviceControl(s) PROVE FALSE
  BY <1>1, <1>3 DEF EvtIoDeviceControl, Present, Answer, TypeOK
<1>4. ASSUME NEW s \in Requests, Request(s) PROVE StorePending(s)
  BY <1>1, <1>2, <1>4 DEF Request, AccessRegister, TestSlot, StartRoundtrip, StartCallback,
     AnswerCancel, Answer, req
<1>5. ASSUME NEW c \in Callbacks, Callback(c) PROVE FALSE
  BY <1>2, <1>5 DEF Callback, EvtCallback, req
<1>6. CASE ManagerRequest \/ ManagerStep
  BY <1>2, <1>6 DEF ManagerRequest, ManagerStep, DeviceAdd, PrepareHardware, D0Entry, StopQueue,
     ReleaseHardware, QueueStopped, D0Exit, ReleaseResources, req
<1>. QED
  BY <1>3, <1>4, <1>5, <1>6 DEF Next, Finished, vars, DeviceFinishes, EvtInterruptIsr, req

(* No pending request is forgotten: neither the interrupt nor the timer nor *)
(* the work item of a request can be lost, and the framework, which waits   *)
(* for the request before it lets the device leave D0, does not wait in     *)
(* vain.  This is what RequestsAnswered and PowerDownCompletes owe to       *)
(* safety; the rest is fairness.                                            *)
THEOREM NobodyForgotten == ~RawAccess /\ Spec => []PendingIsOwed
<1>1. Init => OwedInv
  BY DEF Init, OwedInv, PendingIsOwed
<1>2. ~RawAccess /\ IInv /\ OwedInv /\ [Next]_vars => OwedInv'
  <2>. SUFFICES ASSUME ~RawAccess, IInv, OwedInv, [Next]_vars,
                       NEW r \in Requests, irp'[r] = "pending"
                PROVE  Owed(r)'
    BY EnabledStep DEF OwedInv, PendingIsOwed
  <2>1. IInv' /\ (enabled' <=> Powered')
    BY NextIInv, EnabledStep DEF OwedInv
  <2>2. CASE irp[r] # "pending"
    <3>1. PICK s \in Requests : StorePending(s)
      BY <2>2, OnlyStorePends
    <3>2. r = s /\ Goto(r, "start")
      BY <2>2, <3>1 DEF StorePending, IInv, TypeOK
    <3>. QED
      BY <3>2, GotoEffect, ThreadFacts DEF IInv, Owed
  <2>3. CASE irp[r] = "pending"
    <3>1. kind'[r] = kind[r]
      BY <2>3, PacketsMove DEF OnePacketMoves, PacketStep, IInv, TypeOK
    <3>2. Owed(r) /\ Answering(r) /\ InDriver(r)
      BY <2>3 DEF OwedInv, PendingIsOwed, IInv, InDriver
    <3>3. CASE \E s \in Requests : EvtIoDeviceControl(s)
      BY <3>2, <3>3 DEF EvtIoDeviceControl
    <3>4. CASE \E s \in Requests : Request(s)
      BY <2>3, <3>4, OwedAfterRequest
    <3>5. CASE \E c \in Callbacks : Callback(c)
      BY <2>3, <3>1, <3>5, OwedAfterCallback
    <3>6. CASE DeviceFinishes
      <4>1. done'
        BY <3>6 DEF DeviceFinishes
      <4>2. enabled' /\ Prepared' /\ Powered' /\ Mapped'
        BY <2>1 DEF IInv, ManagerInv, InDriver, Mapped, Resources
      <4>. QED
        BY <4>1, <4>2 DEF Owed
    <3>7. CASE EvtInterruptIsr
      <4>1. done /\ "dpc" \in queued' /\ pc' = pc
        BY <3>7 DEF EvtInterruptIsr
      <4>2. Own(r)' = "dpc"
        BY <3>1, <3>2, <4>1 DEF Answering, Own
      <4>. QED
        BY <4>1, <4>2 DEF Owed
    <3>8. CASE ManagerRequest \/ ManagerStep
      BY <2>1, <2>3, <3>2, <3>8, OwedAfterManager
    <3>9. CASE UNCHANGED vars
      BY <3>2, <3>9 DEF vars, hardware, slot, req, device, Owed, Own, Mapped
    <3>. QED
      BY <3>3, <3>4, <3>5, <3>6, <3>7, <3>8, <3>9 DEF Next, Finished
  <2>. QED
    BY <2>2, <2>3
<1>3. CASE ~RawAccess
  <2>1. IInv /\ OwedInv /\ [Next]_vars => OwedInv'
    BY <1>2, <1>3
  <2>2. OwedInv => PendingIsOwed
    BY DEF OwedInv
  <2>. QED
    BY <1>1, <2>1, <2>2, Invariance, <1>3, PTL DEF Spec
<1>4. CASE RawAccess
  BY <1>4
<1>. QED
  BY <1>3, <1>4
=============================================================================
