--------------------------- MODULE MCDmaPnpPower ---------------------------
(* DmaPnpPower with a small set of requests. *)
EXTENDS DmaPnpPower
=============================================================================
