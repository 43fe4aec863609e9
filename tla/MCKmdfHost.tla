----------------------------- MODULE MCKmdfHost -----------------------------
(* KmdfHost with small registry values and a ULONG of four bits. *)
EXTENDS KmdfHost
=============================================================================
