------------------------ MODULE KmdfInterfaceRegistry ------------------------
(***************************************************************************)
(* kmdf_interface_registry_test_driver: EvtDeviceAdd reads the driver's    *)
(* and the device's registry values into the device context, writing a     *)
(* default where it cannot, and publishes one of them as a device          *)
(* property; the IOCTLs then report the context and change RuntimeValue in *)
(* both places.  The registry and the property outlive the device.         *)
(*                                                                         *)
(* Actors: the framework, which calls EvtDeviceAdd and the power callbacks *)
(* one at a time and the handler of the sequential, power-managed queue    *)
(* between them; a registry that may refuse any operation; the end of the  *)
(* driver host at any point; an administrator, who edits the driver's      *)
(* parameters while there is no device.                                    *)
(*                                                                         *)
(* Abstracted: IoctlCount, buffers and lengths, PING, ECHO and the         *)
(* interface string, and key handles, which are closed on every path.      *)
(***************************************************************************)
EXTENDS Naturals

CONSTANTS
    Answers,        \* values of Parameters\Answer
    Greetings,      \* values of Parameters\Greeting
    RuntimeValues,  \* values of RuntimeValue under the device key
    Missing         \* a value that is not there; also an empty field of the context

ASSUME ValuesAssumption ==
    /\ Answers \subseteq Nat /\ 42 \in Answers
    /\ RuntimeValues \subseteq Nat /\ 0 \in RuntimeValues
    /\ "hello registry" \in Greetings
    /\ Missing \notin Nat /\ Missing \notin Greetings

VARIABLES
    step,       \* where the framework and the callbacks are: in Steps
    ctx,        \* the device context
    registry,   \* the values in the driver's and in the device's key
    property,   \* the device property InterfaceTestAnswer
    setting,    \* the Value of the SET_RUNTIME_VALUE that is in the handler
    answer      \* what the last completed request reported as RuntimeValue

vars == <<step, ctx, registry, property, setting, answer>>

AddSteps == {"create", "answer", "seen", "greeting", "requery", "deviceseen", "runtime",
             "friendly", "custom", "queue"}
Handling == {"set", "cache"}
Serving == {"added", "prepared", "d0"} \cup Handling
Steps == {"none"} \cup AddSteps \cup Serving

Fields == {"Answer", "SeenByDriver", "Greeting", "DeviceSeenByDriver", "RuntimeValue"}

(* RtlZeroMemory, or no device at all. *)
NoContext ==
    [f \in Fields \cup {"CustomPropertyValue", "Prepared", "Powered"} |->
        IF f = "Greeting" THEN Missing ELSE 0]

Init ==
    /\ step = "none"
    /\ ctx = NoContext
    /\ registry \in [Fields -> {Missing}]
    /\ property = Missing
    /\ setting = 0
    /\ answer = Missing

-----------------------------------------------------------------------------
(* KmdfIfEvtDeviceAdd, one step per call that can fail or that leaves       *)
(* something behind.                                                        *)

AddBegin ==
    /\ step = "none"
    /\ step' = "create"
    /\ UNCHANGED <<ctx, registry, property, setting, answer>>

(* Name, device, symbolic link and interface: nothing that is kept. *)
CreateDevice ==
    /\ step = "create"
    /\ ctx' = NoContext
    /\ step' = "answer"
    /\ UNCHANGED <<registry, property, setting, answer>>

(* Every early return of EvtDeviceAdd and of what it calls: the framework   *)
(* deletes the device.                                                      *)
AddFails ==
    /\ step \in AddSteps
    /\ step' = "none"
    /\ ctx' = NoContext
    /\ UNCHANGED <<registry, property, setting, answer>>

(* The query of a value that is there, into the context.                    *)
Query(f, next) ==
    /\ registry[f] # Missing
    /\ ctx' = [ctx EXCEPT ![f] = registry[f]]
    /\ step' = next
    /\ UNCHANGED registry

(* The same value into the context and into the registry: a default, after  *)
(* a query that failed for whatever reason, or a mark.                      *)
Assign(f, v, next) ==
    /\ ctx' = [ctx EXCEPT ![f] = v]
    /\ registry' = [registry EXCEPT ![f] = v]
    /\ step' = next

(* KmdfIfReadDriverRegistry. *)
ReadAnswer ==
    /\ step = "answer"
    /\ Query("Answer", "seen") \/ Assign("Answer", 42, "seen")
    /\ UNCHANGED <<property, setting, answer>>

MarkSeen ==
    /\ step = "seen"
    /\ Assign("SeenByDriver", 1, "greeting")
    /\ UNCHANGED <<property, setting, answer>>

(* Mutant: the string is not queried again after its default was written.   *)
EnsureGreetingOnce ==
    /\ step = "greeting"
    /\ \/ Query("Greeting", "deviceseen")
       \/ /\ registry' = [registry EXCEPT !["Greeting"] = "hello registry"]
          /\ step' = "deviceseen"
          /\ UNCHANGED ctx
    /\ UNCHANGED <<property, setting, answer>>

(* KmdfIfEnsureDriverStringValue: the default goes into the registry, and   *)
(* from there into the string.                                              *)
EnsureGreeting ==
    /\ step = "greeting"
    /\ \/ Query("Greeting", "deviceseen")
       \/ /\ registry' = [registry EXCEPT !["Greeting"] = "hello registry"]
          /\ step' = "requery"
          /\ UNCHANGED ctx
    /\ UNCHANGED <<property, setting, answer>>

RequeryGreeting ==
    /\ step = "requery"
    /\ Query("Greeting", "deviceseen")
    /\ UNCHANGED <<property, setting, answer>>

(* KmdfIfReadWriteDeviceRegistry. *)
MarkDeviceSeen ==
    /\ step = "deviceseen"
    /\ Assign("DeviceSeenByDriver", 1, "runtime")
    /\ UNCHANGED <<property, setting, answer>>

(* Mutant: the default is not written, and the old value stays in the key.  *)
ReadRuntimeValueForgets ==
    /\ step = "runtime"
    /\ \/ Query("RuntimeValue", "friendly")
       \/ ctx' = [ctx EXCEPT !["RuntimeValue"] = 0] /\ step' = "friendly" /\ UNCHANGED registry
    /\ UNCHANGED <<property, setting, answer>>

ReadRuntimeValue ==
    /\ step = "runtime"
    /\ Query("RuntimeValue", "friendly") \/ Assign("RuntimeValue", 0, "friendly")
    /\ UNCHANGED <<property, setting, answer>>

(* KmdfIfAssignProperties: the name first. *)
AssignFriendlyName ==
    /\ step = "friendly"
    /\ ctx' = [ctx EXCEPT !["CustomPropertyValue"] = ctx["Answer"]]
    /\ step' = "custom"
    /\ UNCHANGED <<registry, property, setting, answer>>

AssignCustomProperty ==
    /\ step = "custom"
    /\ property' = ctx["CustomPropertyValue"]
    /\ step' = "queue"
    /\ UNCHANGED <<ctx, registry, setting, answer>>

CreateQueue ==
    /\ step = "queue"
    /\ step' = "added"
    /\ UNCHANGED <<ctx, registry, property, setting, answer>>

-----------------------------------------------------------------------------
(* The power callbacks.  The framework has drained the queue before D0Exit. *)

PowerCallback(from, to, f, v) ==
    /\ step = from
    /\ step' = to
    /\ ctx' = [ctx EXCEPT ![f] = v]
    /\ answer' = Missing
    /\ UNCHANGED <<registry, property, setting>>

PrepareHardware == PowerCallback("added", "prepared", "Prepared", 1)
D0Entry == PowerCallback("prepared", "d0", "Powered", 1)
D0Exit == PowerCallback("d0", "prepared", "Powered", 0)
ReleaseHardware == PowerCallback("prepared", "added", "Prepared", 0)

-----------------------------------------------------------------------------
(* KmdfIfEvtIoDeviceControl.                                                *)

(* GET_CONFIG reports the context. *)
GetConfig ==
    /\ step = "d0"
    /\ answer' = ctx["RuntimeValue"]
    /\ UNCHANGED <<step, ctx, registry, property, setting>>

(* KmdfIfGetRuntimeValue reports the registry and refreshes the context; a  *)
(* key that cannot be opened or a query that fails changes nothing.         *)
GetRuntimeValue ==
    /\ step = "d0"
    /\ \/ /\ registry["RuntimeValue"] # Missing
          /\ answer' = registry["RuntimeValue"]
          /\ ctx' = [ctx EXCEPT !["RuntimeValue"] = registry["RuntimeValue"]]
       \/ answer' = Missing /\ UNCHANGED ctx
    /\ UNCHANGED <<step, registry, property, setting>>

SetBegin ==
    /\ step = "d0"
    /\ setting' \in RuntimeValues
    /\ answer' = Missing
    /\ step' = "set"
    /\ UNCHANGED <<ctx, registry, property>>

(* Mutant: the context is changed also when the write failed. *)
AssignRuntimeValueAnyway ==
    /\ step = "set"
    /\ \/ registry' = [registry EXCEPT !["RuntimeValue"] = setting] \/ UNCHANGED registry
    /\ step' = "cache"
    /\ UNCHANGED <<ctx, property, setting, answer>>

(* KmdfIfSetRuntimeValue: the registry, and only if that succeeded the      *)
(* context.                                                                 *)
AssignRuntimeValue ==
    /\ step = "set"
    /\ \/ registry' = [registry EXCEPT !["RuntimeValue"] = setting] /\ step' = "cache"
       \/ step' = "d0" /\ UNCHANGED registry
    /\ UNCHANGED <<ctx, property, setting, answer>>

CacheRuntimeValue ==
    /\ step = "cache"
    /\ ctx' = [ctx EXCEPT !["RuntimeValue"] = setting]
    /\ step' = "d0"
    /\ UNCHANGED <<registry, property, setting, answer>>

-----------------------------------------------------------------------------
(* The device is removed in order; the driver host ends at any point.       *)

RemoveDevice ==
    /\ step = "added"
    /\ step' = "none"
    /\ ctx' = NoContext
    /\ answer' = Missing
    /\ UNCHANGED <<registry, property, setting>>

HostEnds ==
    /\ step' = "none"
    /\ ctx' = NoContext
    /\ answer' = Missing
    /\ UNCHANGED <<registry, property, setting>>

(* The registry fixture: Answer and Greeting are set, changed or deleted.   *)
Configure ==
    /\ step = "none"
    /\ \E a \in Answers \cup {Missing}, g \in Greetings \cup {Missing} :
        registry' = [registry EXCEPT !["Answer"] = a, !["Greeting"] = g]
    /\ UNCHANGED <<step, ctx, property, setting, answer>>

DriverStep ==
    \/ AddBegin \/ CreateDevice \/ AddFails \/ ReadAnswer \/ MarkSeen \/ EnsureGreeting
    \/ RequeryGreeting \/ MarkDeviceSeen \/ ReadRuntimeValue \/ AssignFriendlyName
    \/ AssignCustomProperty \/ CreateQueue \/ PrepareHardware \/ D0Entry \/ D0Exit
    \/ ReleaseHardware \/ GetConfig \/ GetRuntimeValue \/ SetBegin \/ AssignRuntimeValue
    \/ CacheRuntimeValue \/ RemoveDevice \/ Configure

Next == DriverStep \/ HostEnds

Spec == Init /\ [][Next]_vars

-----------------------------------------------------------------------------
(* Every variable keeps to its values, and a device that serves requests    *)
(* has every field of its context filled.                                   *)
TypeOK ==
    /\ step \in Steps
    /\ DOMAIN ctx = DOMAIN NoContext
    /\ \A f \in {"Answer", "CustomPropertyValue"} : ctx[f] \in Answers \cup {0}
    /\ ctx["Greeting"] \in Greetings \cup (IF step \in Serving THEN {} ELSE {Missing})
    /\ ctx["RuntimeValue"] \in RuntimeValues
    /\ \A f \in {"SeenByDriver", "DeviceSeenByDriver", "Prepared", "Powered"} : ctx[f] \in {0, 1}
    /\ DOMAIN registry = Fields
    /\ registry["Answer"] \in Answers \cup {Missing}
    /\ registry["Greeting"] \in Greetings \cup {Missing}
    /\ registry["RuntimeValue"] \in RuntimeValues \cup {Missing}
    /\ \A f \in {"SeenByDriver", "DeviceSeenByDriver"} : registry[f] \in {1, Missing}
    /\ property \in Answers \cup {Missing}
    /\ setting \in RuntimeValues
    /\ answer \in RuntimeValues \cup {Missing}

(* A device that serves requests reports what the registry holds, whichever *)
(* registry operation failed and wherever an earlier driver host ended: its *)
(* context, the registry and the device property agree, but for the moment  *)
(* between the two writes of SET_RUNTIME_VALUE.                             *)
CacheAgreesWithRegistry ==
    step \in Serving =>
        /\ \A f \in Fields \ {"RuntimeValue"} : ctx[f] = registry[f]
        /\ ctx["CustomPropertyValue"] = ctx["Answer"] /\ property = ctx["Answer"]
        /\ step # "cache" => ctx["RuntimeValue"] = registry["RuntimeValue"]

(* RuntimeValue is one register that outlives the device: GET_CONFIG, which *)
(* reports the context, and GET_RUNTIME_VALUE, which reports the registry,  *)
(* answer the last value that SET_RUNTIME_VALUE wrote.                      *)
Register ==
    INSTANCE RuntimeRegister WITH
        Default <- 0, NoAnswer <- Missing,
        value <- IF registry["RuntimeValue"] = Missing THEN 0 ELSE registry["RuntimeValue"],
        serving <- step \in Serving
RuntimeRegisterSpec == Register!Spec
=============================================================================
