------------------------- MODULE MCKmdfDmaInterrupt -------------------------
(* KmdfDmaInterrupt with a small set of requests. *)
EXTENDS KmdfDmaInterrupt
=============================================================================
