------------------------------ MODULE KmdfHost ------------------------------
(***************************************************************************)
(* Two KMDF drivers in one driver host: the interface and registry driver  *)
(* and, as Basic, the basic driver.  Each goes through its own callbacks;  *)
(* when the host ends, both lose their devices at once and only the        *)
(* registry and the device property are left for the next host.            *)
(***************************************************************************)
EXTENDS KmdfInterfaceRegistry

CONSTANTS
    Word, Windows, Offsets, NoOffset    \* of KmdfBasic

VARIABLES phase, resources, HasMmio, MmioLength, Prepared, Powered, mappings, accessed

Basic == INSTANCE KmdfBasic

ASSUME BasicAssumption == Basic!WordAssumption

basicVars ==
    <<phase, resources, HasMmio, MmioLength, Prepared, Powered, mappings, accessed>>
hostVars == <<vars, basicVars>>

HostInit == Init /\ Basic!Init

HostNext ==
    \/ DriverStep /\ UNCHANGED basicVars
    \/ Basic!DriverStep /\ UNCHANGED vars
    \/ HostEnds /\ Basic!HostEnds

HostSpec == HostInit /\ [][HostNext]_hostVars

(* Every variable of both drivers keeps to its values.                      *)
HostTypeOK == TypeOK /\ Basic!TypeOK

(* The basic driver, through every failed start and every end of the host:  *)
(* its registers are mapped once or not at all, and accessed only inside    *)
(* their memory resource.                                                   *)
RegistersMapped == Basic!RegistersMapped
=============================================================================
