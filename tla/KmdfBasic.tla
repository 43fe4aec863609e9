------------------------------ MODULE KmdfBasic ------------------------------
(***************************************************************************)
(* kmdf_basic_test_driver: registers that are mapped if the device has any *)
(* and that a client reads and writes at an offset of its choice.          *)
(*                                                                         *)
(* Actors: the framework, which calls the PnP and power callbacks and the  *)
(* handler of the sequential, power-managed queue one at a time, and       *)
(* ReleaseHardware also after a PrepareHardware that failed; the end of    *)
(* the driver host at any point, which takes the mappings with it.         *)
(*                                                                         *)
(* Abstracted: IoctlCount, buffers, register contents, and the IOCTLs that *)
(* answer from the context.                                                *)
(***************************************************************************)
EXTENDS Naturals, Sequences

CONSTANTS
    Word,       \* a ULONG is a number below Word
    Windows,    \* the lengths of the memory resources that the device may have
    Offsets,    \* the offsets that clients ask for
    NoOffset    \* no register was just accessed

WordAssumption ==
    /\ Word \in Nat /\ Word > 4
    /\ Windows \subseteq 1 .. Word - 1
    /\ Offsets \subseteq 0 .. Word - 1
    /\ NoOffset \notin Nat

VARIABLES
    phase,                          \* where the framework is, in Phases
    resources,                      \* the lengths of the device's memory resources, in order
    HasMmio, MmioLength,            \* of the device context
    Prepared, Powered,              \* of the device context
    mappings,                       \* how many times the registers are mapped
    accessed                        \* the offset of the register that was just accessed

context == <<HasMmio, MmioLength, Prepared, Powered>>
vars == <<phase, resources, context, mappings, accessed>>

Phases == {"none", "added", "prepared", "failed", "d0"}
ResourceLists == {<<>>} \cup {<<w>> : w \in Windows} \cup {<<w, Word - 1>> : w \in Windows}

Init ==
    /\ phase = "none"
    /\ resources = <<>>
    /\ HasMmio = FALSE /\ MmioLength = 0 /\ Prepared = FALSE /\ Powered = FALSE
    /\ mappings = 0
    /\ accessed = NoOffset

-----------------------------------------------------------------------------
(* The check of an offset, in the unsigned arithmetic of a ULONG. *)

Minus(a, b) == IF a >= b THEN a - b ELSE a - b + Word

ValidReg32Offset(len, off) == off % 4 = 0 /\ len >= 4 /\ off <= Minus(len, 4)

-----------------------------------------------------------------------------
(* EvtDeviceAdd zeroes the context; one that fails leaves no device.        *)
DeviceAdd ==
    /\ phase = "none"
    /\ phase' = "added"
    /\ resources' \in ResourceLists
    /\ HasMmio' = FALSE /\ MmioLength' = 0 /\ Prepared' = FALSE /\ Powered' = FALSE
    /\ UNCHANGED <<mappings, accessed>>

(* Mutant: a failed ID check leaves the registers mapped and HasMmio clear. *)
PrepareHardwareLeaks ==
    /\ phase = "added"
    /\ \/ /\ resources = <<>>
          /\ Prepared' = TRUE /\ phase' = "prepared"
          /\ UNCHANGED <<HasMmio, MmioLength, mappings>>
       \/ /\ resources # <<>>
          /\ mappings' = mappings + 1 /\ HasMmio' = TRUE /\ MmioLength' = resources[1]
          /\ Prepared' = TRUE /\ phase' = "prepared"
       \/ /\ resources # <<>>
          /\ mappings' = mappings + 1 /\ HasMmio' = FALSE /\ MmioLength' = 0
          /\ phase' = "failed"
          /\ UNCHANGED Prepared
    /\ UNCHANGED <<resources, Powered, accessed>>

(* PrepareHardware: no memory resource, or the first one mapped and its ID  *)
(* right, or else a mapping that failed or was undone.                      *)
PrepareHardware ==
    /\ phase = "added"
    /\ \/ /\ resources = <<>>
          /\ Prepared' = TRUE /\ phase' = "prepared"
          /\ UNCHANGED <<HasMmio, MmioLength, mappings>>
       \/ /\ resources # <<>>
          /\ mappings' = mappings + 1 /\ HasMmio' = TRUE /\ MmioLength' = resources[1]
          /\ Prepared' = TRUE /\ phase' = "prepared"
       \/ /\ resources # <<>>
          /\ MmioLength' = 0
          /\ phase' = "failed"
          /\ UNCHANGED <<HasMmio, Prepared, mappings>>
    /\ UNCHANGED <<resources, Powered, accessed>>

ReleaseHardware ==
    /\ phase \in {"prepared", "failed"}
    /\ IF HasMmio
       THEN mappings' = mappings - 1 /\ HasMmio' = FALSE /\ MmioLength' = 0
       ELSE UNCHANGED <<mappings, HasMmio, MmioLength>>
    /\ Prepared' = FALSE
    /\ phase' = "added"
    /\ UNCHANGED <<resources, Powered, accessed>>

D0Entry ==
    /\ phase = "prepared"
    /\ Powered' = TRUE
    /\ phase' = "d0"
    /\ UNCHANGED <<resources, HasMmio, MmioLength, Prepared, mappings, accessed>>

D0Exit ==
    /\ phase = "d0"
    /\ Powered' = FALSE
    /\ accessed' = NoOffset
    /\ phase' = "prepared"
    /\ UNCHANGED <<resources, HasMmio, MmioLength, Prepared, mappings>>

(* READ_REG32 and WRITE_REG32; what the checks refuse accesses nothing.     *)
IoDeviceControl ==
    /\ phase = "d0"
    /\ \E off \in Offsets :
        accessed' = IF HasMmio /\ ValidReg32Offset(MmioLength, off) THEN off ELSE NoOffset
    /\ UNCHANGED <<phase, resources, context, mappings>>

RemoveDevice ==
    /\ phase = "added"
    /\ phase' = "none"
    /\ UNCHANGED <<resources, context, mappings, accessed>>

HostEnds ==
    /\ phase' = "none"
    /\ mappings' = 0
    /\ accessed' = NoOffset
    /\ UNCHANGED <<resources, context>>

DriverStep ==
    \/ DeviceAdd \/ PrepareHardware \/ ReleaseHardware \/ D0Entry \/ D0Exit \/ IoDeviceControl
    \/ RemoveDevice

Next == DriverStep \/ HostEnds

Spec == Init /\ [][Next]_vars

-----------------------------------------------------------------------------
(* Every variable keeps to its values.                                      *)
TypeOK ==
    /\ phase \in Phases
    /\ resources \in ResourceLists
    /\ HasMmio \in BOOLEAN /\ Prepared \in BOOLEAN /\ Powered \in BOOLEAN
    /\ MmioLength \in 0 .. Word - 1
    /\ mappings \in Nat
    /\ accessed \in Offsets \cup {NoOffset}

(* The registers are mapped once while the context says so, and not at all  *)
(* otherwise, through failed starts, stops and restarts: none is lost and   *)
(* none is unmapped twice; and what a client accesses is an aligned         *)
(* register inside the first memory resource.                               *)
RegistersMapped ==
    /\ phase # "none" => mappings = IF HasMmio THEN 1 ELSE 0
    /\ phase = "none" => mappings = 0
    /\ accessed # NoOffset =>
        /\ mappings = 1
        /\ accessed % 4 = 0 /\ accessed + 4 <= resources[1]
=============================================================================
