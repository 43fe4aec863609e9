------------------------- MODULE MCPnpMmioInterrupt -------------------------
(* PnpMmioInterrupt with a small set of requests and a ULONG of five bits.  *)
EXTENDS PnpMmioInterrupt
=============================================================================
