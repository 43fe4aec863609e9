-------------------------- MODULE MCMmioInterrupt --------------------------
(* MmioInterrupt with a small set of requests under both kinds of host. *)
EXTENDS MmioInterrupt

BothHosts == AllHosts
IoManager == {"io_manager"}
=============================================================================
