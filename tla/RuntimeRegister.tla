--------------------------- MODULE RuntimeRegister ---------------------------
(***************************************************************************)
(* What kmdf_interface_registry_test_driver promises of RuntimeValue: one  *)
(* register that its clients write and read while the device serves them,  *)
(* and that outlives the device.  It changes by a write only, except that  *)
(* a device which is being added may reset it: every reading between two   *)
(* writes is the same, wherever it comes from.                             *)
(***************************************************************************)
CONSTANTS
    RuntimeValues,  \* what the register can hold
    Default,        \* its value in a new installation, and after a reset
    NoAnswer        \* no reading was just answered

VARIABLES
    value,      \* the register
    serving,    \* the device takes requests
    answer      \* the reading that was just answered, if any

vars == <<value, serving, answer>>

Init == value \in RuntimeValues /\ serving = FALSE /\ answer = NoAnswer

Write == serving /\ value' \in RuntimeValues /\ answer' = NoAnswer /\ UNCHANGED serving

Read == serving /\ answer' = value /\ UNCHANGED <<value, serving>>

(* The reading is consumed, or a request fails. *)
Forget == answer' = NoAnswer /\ UNCHANGED <<value, serving>>

(* A device appears or goes away. *)
Switch == serving' = ~serving /\ answer' = NoAnswer /\ UNCHANGED value

Reset == ~serving /\ value' = Default /\ UNCHANGED <<serving, answer>>

Next == Write \/ Read \/ Forget \/ Switch \/ Reset

Spec == Init /\ [][Next]_vars
=============================================================================
