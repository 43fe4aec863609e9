------------------------------ MODULE WaitSlot ------------------------------
(***************************************************************************)
(* The one discipline by which four drivers of this repository keep a      *)
(* request that nobody can answer yet (dma_pnp_power, mmio_interrupt,      *)
(* pnp_mmio_interrupt and power_pnp_mmio_test_driver): a single slot,      *)
(* filled only while it is empty, and emptied under its lock either by the *)
(* DPC, which completes the packet later and meanwhile has it in hand, or  *)
(* by whoever cancels, who completes it at once.  A packet that was marked *)
(* pending is completed by no one else.                                    *)
(*                                                                         *)
(* The drivers refine this specification by mapping their own state onto   *)
(* it; it implements IrpProtocol in turn.                                  *)
(***************************************************************************)

CONSTANTS
    Irps,       \* the I/O request packets
    NoIrp       \* no packet; not one of Irps

VARIABLES
    stage,      \* how far each packet has come, as in IrpProtocol
    slot,       \* the packet in the slot
    hand        \* the packet that the DPC took and has not completed yet

slotVars == <<stage, slot, hand>>

Init ==
    /\ stage = [i \in Irps |-> "new"]
    /\ slot = NoIrp
    /\ hand = NoIrp

Advance(i, s) == stage' = [stage EXCEPT ![i] = s]

(* The dispatch routine gets a packet, *)
Dispatch(i) ==
    /\ stage[i] = "new"
    /\ Advance(i, "dispatched")
    /\ UNCHANGED <<slot, hand>>

(* answers it (at once, when nothing can be observed in between), *)
Answer(i) ==
    /\ stage[i] \in {"new", "dispatched"}
    /\ Advance(i, "completed")
    /\ UNCHANGED <<slot, hand>>

(* or marks it pending and puts it into the slot. *)
Pend(i) ==
    /\ stage[i] = "dispatched"
    /\ slot = NoIrp
    /\ Advance(i, "pending")
    /\ slot' = i
    /\ UNCHANGED hand

(* The DPC takes what is in the slot ... *)
Take ==
    /\ slot # NoIrp /\ hand = NoIrp
    /\ hand' = slot
    /\ slot' = NoIrp
    /\ UNCHANGED stage

(* ... and completes it. *)
Finish ==
    /\ hand # NoIrp
    /\ Advance(hand, "completed")
    /\ hand' = NoIrp
    /\ UNCHANGED slot

(* A cancel request, a power-down, a stop, a removal or an unload. *)
Cancel ==
    /\ slot # NoIrp
    /\ Advance(slot, "completed")
    /\ slot' = NoIrp
    /\ UNCHANGED hand

Next ==
    \/ \E i \in Irps : Dispatch(i) \/ Answer(i) \/ Pend(i)
    \/ Take \/ Finish \/ Cancel

Spec == Init /\ [][Next]_slotVars

-----------------------------------------------------------------------------
TypeOK ==
    /\ stage \in [Irps -> {"new", "dispatched", "pending", "completed"}]
    /\ {slot, hand} \subseteq Irps \cup {NoIrp}

(* The pending packets are the one in the slot and the one in hand. *)
OneOwner ==
    /\ {i \in Irps : stage[i] = "pending"} = {slot, hand} \ {NoIrp}
    /\ slot = hand => slot = NoIrp

(* Seen from the I/O manager, it is the request protocol. *)
Protocol == INSTANCE IrpProtocol
IrpProtocolSpec == Protocol!Spec
=============================================================================
