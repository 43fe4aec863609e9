--------------------------- MODULE WaitSlotProofs ---------------------------
(***************************************************************************)
(* The discipline of the single slot is enough: for any set of packets a   *)
(* pending packet has exactly one owner and the request protocol of the    *)
(* I/O manager is kept, each packet completed once.  A driver that refines *)
(* WaitSlot therefore implements IrpProtocol.                              *)
(***************************************************************************)
EXTENDS WaitSlot, TLAPS

IInv == TypeOK /\ OneOwner

(* Every step keeps the ownership, which is what makes a completion the     *)
(* first one of its packet.                                                 *)
LEMMA SlotStep ==
    ASSUME NoIrp \notin Irps, IInv, [Next]_slotVars
    PROVE  IInv' /\ [Protocol!Next]_stage
<1>. USE DEF IInv, TypeOK, OneOwner, Advance, Protocol!Next, Protocol!Dispatch,
             Protocol!MarkPending, Protocol!Complete
<1>1. ASSUME NEW i \in Irps, Dispatch(i) PROVE IInv' /\ [Protocol!Next]_stage
  BY <1>1 DEF Dispatch
<1>2. ASSUME NEW i \in Irps, Answer(i) PROVE IInv' /\ [Protocol!Next]_stage
  BY <1>2 DEF Answer
<1>3. ASSUME NEW i \in Irps, Pend(i) PROVE IInv' /\ [Protocol!Next]_stage
  BY <1>3 DEF Pend
<1>4. CASE Take
  BY <1>4 DEF Take
<1>5. CASE Finish
  BY <1>5 DEF Finish
<1>6. CASE Cancel
  BY <1>6 DEF Cancel
<1>7. CASE UNCHANGED slotVars
  BY <1>7 DEF slotVars
<1>. QED
  BY <1>1, <1>2, <1>3, <1>4, <1>5, <1>6, <1>7 DEF Next

(* A pending packet is in the slot or in the DPC's hand, in one of them and *)
(* nowhere else, until it is completed.                                     *)
THEOREM SlotInvariance ==
    ASSUME NoIrp \notin Irps
    PROVE  Spec => []IInv
<1>1. Init => IInv
  BY DEF Init, IInv, TypeOK, OneOwner
<1>2. IInv /\ [Next]_slotVars => IInv'
  BY SlotStep
<1>. QED
  BY <1>1, <1>2, PTL DEF Spec

(* The slot implements the request protocol: no packet is completed twice.  *)
THEOREM SlotImplementsIrpProtocol ==
    ASSUME NoIrp \notin Irps
    PROVE  Spec => IrpProtocolSpec
<1>1. Init => Protocol!Init
  BY DEF Init, Protocol!Init
<1>2. IInv /\ [Next]_slotVars => [Protocol!Next]_stage
  BY SlotStep
<1>. QED
  BY <1>1, <1>2, SlotInvariance, PTL DEF Spec, IrpProtocolSpec, Protocol!Spec
=============================================================================
