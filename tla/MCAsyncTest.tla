---------------------------- MODULE MCAsyncTest ----------------------------
(***************************************************************************)
(* AsyncTest with three requests: the fewest with which one request can    *)
(* release the last reference, a second take the first one and a third     *)
(* observe both, while AsyncUnload looks at the counter and the event.     *)
(***************************************************************************)
EXTENDS AsyncTest, TLC

CONSTANTS r1, r2, r3

ThreeKinds == r1 :> "dpc" @@ r2 :> "timer" @@ r3 :> "workitem"
TwoKinds == r1 :> "dpc" @@ r2 :> "workitem"

BothHosts == {"io_manager", "driver_host"}
IoManager == {"io_manager"}
=============================================================================
