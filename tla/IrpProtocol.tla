---------------------------- MODULE IrpProtocol ----------------------------
(***************************************************************************)
(* What every driver of this repository promises the I/O manager about an  *)
(* I/O request packet, whatever it does inside: a request it was handed is *)
(* completed, once, either by the dispatch routine itself or, after the    *)
(* dispatch routine marked it pending (IoMarkIrpPending), by whichever     *)
(* context finishes it.  A completed request is never touched again.       *)
(*                                                                         *)
(* The driver modules refine this specification by mapping their own state *)
(* onto "stage".  A packet that a driver completes a second time is mapped *)
(* to a value outside Stages, which no step of this module reaches.        *)
(***************************************************************************)

CONSTANT Irps       \* the I/O request packets

VARIABLE stage      \* how far each packet has come

Stages == {"new", "dispatched", "pending", "completed"}

TypeOK == stage \in [Irps -> Stages]

Init == stage = [i \in Irps |-> "new"]

(* The I/O manager calls the driver's dispatch routine. *)
Dispatch(i) ==
    /\ stage[i] = "new"
    /\ stage' = [stage EXCEPT ![i] = "dispatched"]

(* IoMarkIrpPending: the request outlives the dispatch routine. *)
MarkPending(i) ==
    /\ stage[i] = "dispatched"
    /\ stage' = [stage EXCEPT ![i] = "pending"]

(* IoCompleteRequest.  A synchronous answer takes the packet from "new" to *)
(* "completed" in one step when nothing can be observed in between.        *)
Complete(i) ==
    /\ stage[i] # "completed"
    /\ stage' = [stage EXCEPT ![i] = "completed"]

Next == \E i \in Irps : Dispatch(i) \/ MarkPending(i) \/ Complete(i)

Spec == Init /\ [][Next]_stage
=============================================================================
