--------------------------- MODULE MCPowerPnpMmio ---------------------------
(* PowerPnpMmio with a small set of requests. *)
EXTENDS PowerPnpMmio
=============================================================================
