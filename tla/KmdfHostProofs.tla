--------------------------- MODULE KmdfHostProofs ---------------------------
(***************************************************************************)
(* Theorems about the two KMDF drivers in their host, for every set of     *)
(* registry values, every width of a ULONG and every register window.  The *)
(* drivers share no variable, so each has an inductive invariant of its    *)
(* own and a step of the host keeps both.                                  *)
(***************************************************************************)
EXTENDS KmdfHost, TLAPS

(* The steps of EvtDeviceAdd after which a part of the context is filled.   *)
PastAnswer == Steps \ {"none", "create", "answer"}
PastSeen == PastAnswer \ {"seen"}
PastGreeting == PastSeen \ {"greeting", "requery"}
PastDeviceSeen == PastGreeting \ {"deviceseen"}
PastRuntime == PastDeviceSeen \ {"runtime"}
PastFriendly == PastRuntime \ {"friendly"}
PastCustom == PastFriendly \ {"custom"}

Agree(f) == ctx[f] = registry[f]

(* What each location of EvtDeviceAdd and of SET_RUNTIME_VALUE knows of the *)
(* context, the registry and the property; only a handler leaves an answer. *)
FilledInv ==
    /\ step \in PastAnswer => Agree("Answer")
    /\ step \in PastSeen => Agree("SeenByDriver")
    /\ step \in PastGreeting => Agree("Greeting") /\ ctx["Greeting"] \in Greetings
    /\ step \in PastDeviceSeen => Agree("DeviceSeenByDriver")
    /\ step \in PastRuntime \ {"cache"} => Agree("RuntimeValue")
    /\ step \in PastFriendly => ctx["CustomPropertyValue"] = ctx["Answer"]
    /\ step \in PastCustom => property = ctx["Answer"]
    /\ step = "cache" => registry["RuntimeValue"] = setting
    /\ step # "d0" => answer = Missing

RegistryInv == TypeOK /\ FilledInv

(* The registers are mapped while HasMmio says so, and MmioLength is the    *)
(* length of the resource that was mapped.                                  *)
MappingInv ==
    /\ phase = "none" => mappings = 0
    /\ phase # "none" => mappings = IF HasMmio THEN 1 ELSE 0
    /\ phase \in {"added", "failed"} => ~HasMmio
    /\ phase # "none" /\ HasMmio => resources # <<>> /\ MmioLength = resources[1]
    /\ accessed # NoOffset =>
        phase = "d0" /\ HasMmio /\ Basic!ValidReg32Offset(MmioLength, accessed)

BasicInv == Basic!TypeOK /\ MappingInv

IInv == RegistryInv /\ BasicInv

-----------------------------------------------------------------------------
(* The registry driver. *)

ContextFields == Fields \cup {"CustomPropertyValue", "Prepared", "Powered"}

(* A context that was just zeroed, field by field. *)
LEMMA NoContextFields ==
    /\ DOMAIN NoContext = ContextFields
    /\ NoContext["Answer"] = 0 /\ NoContext["CustomPropertyValue"] = 0
    /\ NoContext["RuntimeValue"] = 0
    /\ NoContext["SeenByDriver"] = 0 /\ NoContext["DeviceSeenByDriver"] = 0
    /\ NoContext["Prepared"] = 0 /\ NoContext["Powered"] = 0
    /\ NoContext["Greeting"] = Missing
BY DEF NoContext, ContextFields, Fields

(* A new installation satisfies the invariant. *)
LEMMA RegistryInit == Init => RegistryInv
<1> SUFFICES ASSUME Init PROVE RegistryInv
  OBVIOUS
<1>1. TypeOK
  BY ValuesAssumption, NoContextFields
  DEF Init, TypeOK, Fields, Steps, AddSteps, Serving, Handling, ContextFields
<1>2. FilledInv
  BY DEF Init, FilledInv, Steps, AddSteps, Serving, Handling, PastAnswer, PastSeen,
         PastGreeting, PastDeviceSeen, PastRuntime, PastFriendly, PastCustom
<1> QED
  BY <1>1, <1>2 DEF RegistryInv

(* Every step keeps the types; a device that begins to serve has its        *)
(* greeting and its property filled.                                        *)
LEMMA TypeStep == TypeOK /\ FilledInv /\ Next => TypeOK'
<1> SUFFICES ASSUME TypeOK, FilledInv, Next PROVE TypeOK'
  OBVIOUS
<1> USE ValuesAssumption, NoContextFields
        DEF TypeOK, Query, Assign, Fields, Steps, AddSteps, Serving, Handling, ContextFields,
            PowerCallback
<1>1. CASE AddBegin
  BY <1>1 DEF AddBegin
<1>2. CASE CreateDevice
  BY <1>2 DEF CreateDevice
<1>3. CASE AddFails
  BY <1>3 DEF AddFails
<1>4. CASE ReadAnswer
  BY <1>4 DEF ReadAnswer
<1>5. CASE MarkSeen
  BY <1>5 DEF MarkSeen
<1>6. CASE EnsureGreeting
  BY <1>6 DEF EnsureGreeting
<1>7. CASE RequeryGreeting
  BY <1>7 DEF RequeryGreeting
<1>8. CASE MarkDeviceSeen
  BY <1>8 DEF MarkDeviceSeen
<1>9. CASE ReadRuntimeValue
  BY <1>9 DEF ReadRuntimeValue
<1>10. CASE AssignFriendlyName
  BY <1>10 DEF AssignFriendlyName
<1>11. CASE AssignCustomProperty
  <2>1. ctx["CustomPropertyValue"] = registry["Answer"] /\ ctx["Answer"] = registry["Answer"]
    BY <1>11 DEF AssignCustomProperty, FilledInv, PastFriendly, PastRuntime, PastDeviceSeen,
                  PastGreeting, PastSeen, PastAnswer, Agree
  <2> QED
    BY <1>11, <2>1 DEF AssignCustomProperty
<1>12. CASE CreateQueue
  BY <1>12 DEF CreateQueue, FilledInv, PastGreeting, PastSeen, PastAnswer
<1>13. CASE PrepareHardware
  BY <1>13 DEF PrepareHardware
<1>14. CASE D0Entry
  BY <1>14 DEF D0Entry
<1>15. CASE D0Exit
  BY <1>15 DEF D0Exit
<1>16. CASE ReleaseHardware
  BY <1>16 DEF ReleaseHardware
<1>17. CASE GetConfig
  BY <1>17 DEF GetConfig
<1>18. CASE GetRuntimeValue
  BY <1>18 DEF GetRuntimeValue
<1>19. CASE SetBegin
  BY <1>19 DEF SetBegin
<1>20. CASE AssignRuntimeValue
  BY <1>20 DEF AssignRuntimeValue
<1>21. CASE CacheRuntimeValue
  BY <1>21 DEF CacheRuntimeValue
<1>22. CASE RemoveDevice
  BY <1>22 DEF RemoveDevice
<1>23. CASE Configure
  BY <1>23 DEF Configure
<1>24. CASE HostEnds
  BY <1>24 DEF HostEnds
<1> QED
  BY <1>1, <1>2, <1>3, <1>4, <1>5, <1>6, <1>7, <1>8, <1>9, <1>10, <1>11, <1>12, <1>13, <1>14,
     <1>15, <1>16, <1>17, <1>18, <1>19, <1>20, <1>21, <1>22, <1>23, <1>24 DEF Next, DriverStep

(* Every step keeps what the locations know. *)
LEMMA FilledStep == TypeOK /\ FilledInv /\ Next => FilledInv'
<1> SUFFICES ASSUME TypeOK, FilledInv, Next PROVE FilledInv'
  OBVIOUS
<1> USE ValuesAssumption, NoContextFields
        DEF TypeOK, FilledInv, Fields, Steps, AddSteps, Serving, Handling, ContextFields,
            PowerCallback, PastAnswer, PastSeen, PastGreeting, PastDeviceSeen, PastRuntime,
            PastFriendly, PastCustom, Agree
<1>1. CASE AddBegin
  BY <1>1 DEF AddBegin
<1>2. CASE CreateDevice
  BY <1>2 DEF CreateDevice
<1>3. CASE AddFails
  BY <1>3 DEF AddFails
<1>4. CASE ReadAnswer
  <2>1. CASE Query("Answer", "seen")
    BY <1>4, <2>1 DEF ReadAnswer, Query
  <2>2. CASE Assign("Answer", 42, "seen")
    BY <1>4, <2>2 DEF ReadAnswer, Assign
  <2> QED
    BY <1>4, <2>1, <2>2 DEF ReadAnswer
<1>5. CASE MarkSeen
  BY <1>5 DEF MarkSeen, Assign
<1>6. CASE EnsureGreeting
  BY <1>6 DEF EnsureGreeting, Query
<1>7. CASE RequeryGreeting
  BY <1>7 DEF RequeryGreeting, Query
<1>8. CASE MarkDeviceSeen
  BY <1>8 DEF MarkDeviceSeen, Assign
<1>9. CASE ReadRuntimeValue
  <2>1. CASE Query("RuntimeValue", "friendly")
    BY <1>9, <2>1 DEF ReadRuntimeValue, Query
  <2>2. CASE Assign("RuntimeValue", 0, "friendly")
    BY <1>9, <2>2 DEF ReadRuntimeValue, Assign
  <2> QED
    BY <1>9, <2>1, <2>2 DEF ReadRuntimeValue
<1>10. CASE AssignFriendlyName
  BY <1>10 DEF AssignFriendlyName
<1>11. CASE AssignCustomProperty
  BY <1>11 DEF AssignCustomProperty
<1>12. CASE CreateQueue
  BY <1>12 DEF CreateQueue
<1>13. CASE PrepareHardware
  BY <1>13 DEF PrepareHardware
<1>14. CASE D0Entry
  BY <1>14 DEF D0Entry
<1>15. CASE D0Exit
  BY <1>15 DEF D0Exit
<1>16. CASE ReleaseHardware
  BY <1>16 DEF ReleaseHardware
<1>17. CASE GetConfig
  BY <1>17 DEF GetConfig
<1>18. CASE GetRuntimeValue
  BY <1>18 DEF GetRuntimeValue
<1>19. CASE SetBegin
  BY <1>19 DEF SetBegin
<1>20. CASE AssignRuntimeValue
  BY <1>20 DEF AssignRuntimeValue
<1>21. CASE CacheRuntimeValue
  BY <1>21 DEF CacheRuntimeValue
<1>22. CASE RemoveDevice
  BY <1>22 DEF RemoveDevice
<1>23. CASE Configure
  BY <1>23 DEF Configure
<1>24. CASE HostEnds
  BY <1>24 DEF HostEnds
<1> QED
  BY <1>1, <1>2, <1>3, <1>4, <1>5, <1>6, <1>7, <1>8, <1>9, <1>10, <1>11, <1>12, <1>13, <1>14,
     <1>15, <1>16, <1>17, <1>18, <1>19, <1>20, <1>21, <1>22, <1>23, <1>24 DEF Next, DriverStep

(* Every step of the registry driver keeps its invariant. *)
LEMMA RegistryStep == RegistryInv /\ [Next]_vars => RegistryInv'
<1> SUFFICES ASSUME RegistryInv, [Next]_vars PROVE RegistryInv'
  OBVIOUS
<1>1. CASE Next
  BY <1>1, TypeStep, FilledStep DEF RegistryInv
<1>2. CASE UNCHANGED vars
  BY <1>2 DEF vars, RegistryInv, TypeOK, FilledInv, Agree
<1> QED
  BY <1>1, <1>2

(* The invariant is what the run checks of a device that serves.            *)
LEMMA RegistryCorrect == RegistryInv => CacheAgreesWithRegistry
BY DEF RegistryInv, FilledInv, CacheAgreesWithRegistry, Fields, Steps, AddSteps, Serving, Handling,
       PastAnswer, PastSeen, PastGreeting, PastDeviceSeen, PastRuntime, PastFriendly, PastCustom,
       Agree

-----------------------------------------------------------------------------
(* The registry driver implements RuntimeRegister. *)

RuntimeKept == registry'["RuntimeValue"] = registry["RuntimeValue"]
StillServing == step' \in Serving <=> step \in Serving

(* One lemma for each abstract action, in terms of the driver's variables.  *)
LEMMA RegisterInit == Init => Register!Init
<1> SUFFICES ASSUME Init PROVE Register!Init
  OBVIOUS
<1>1. registry["RuntimeValue"] = Missing
  BY DEF Init, Fields
<1>2. step \notin Serving
  BY DEF Init, Serving, Handling
<1>3. answer = Missing
  BY DEF Init
<1>4. (IF registry["RuntimeValue"] = Missing THEN 0 ELSE registry["RuntimeValue"])
            \in RuntimeValues
  BY <1>1, ValuesAssumption
<1> QED
  BY <1>2, <1>3, <1>4 DEF Register!Init

(* A step that keeps the value, whether the device serves and the answer is *)
(* a stutter of the register.                                               *)
LEMMA RegisterStutter ==
    ASSUME RuntimeKept, StillServing, answer' = answer
    PROVE  UNCHANGED Register!vars
BY DEF RuntimeKept, StillServing, Register!vars

(* A step that keeps the value and serving and clears the answer forgets it. *)
LEMMA RegisterForget ==
    ASSUME RuntimeKept, StillServing, answer' = Missing
    PROVE  Register!Forget
BY DEF RuntimeKept, StillServing, Register!Forget

(* A step that begins or ends serving, with the value kept, is a Switch.     *)
LEMMA RegisterSwitch ==
    ASSUME RuntimeKept, step' \in Serving <=> step \notin Serving, answer' = Missing
    PROVE  Register!Switch
BY DEF RuntimeKept, Register!Switch

(* GET_RUNTIME_VALUE answers what the registry holds: a Read.                *)
LEMMA RegisterRead ==
    ASSUME RuntimeKept, StillServing, step \in Serving, registry["RuntimeValue"] # Missing,
           answer' = registry["RuntimeValue"]
    PROVE  Register!Read
BY DEF RuntimeKept, StillServing, Register!Read

(* A stored SET_RUNTIME_VALUE, before its answer, is a Write.                *)
LEMMA RegisterWrite ==
    ASSUME registry'["RuntimeValue"] \in RuntimeValues, StillServing, step \in Serving,
           answer' = Missing
    PROVE  Register!Write
BY ValuesAssumption DEF StillServing, Register!Write

(* The default written while no device serves is a Reset.                    *)
LEMMA RegisterReset ==
    ASSUME registry'["RuntimeValue"] = 0, StillServing, step \notin Serving, answer' = answer
    PROVE  Register!Reset
<1>1. (IF registry'["RuntimeValue"] = Missing THEN 0 ELSE registry'["RuntimeValue"]) = 0
  OBVIOUS
<1> QED
  BY <1>1 DEF StillServing, Register!Reset

(* Every step of the driver is a step of the register, or leaves it alone.  *)
LEMMA RegisterStep == RegistryInv /\ [Next]_vars => [Register!Next]_(Register!vars)
<1> SUFFICES ASSUME RegistryInv, [Next]_vars
             PROVE  Register!Next \/ UNCHANGED Register!vars
  OBVIOUS
<1> USE DEF RegistryInv, TypeOK, FilledInv, Fields, Steps, AddSteps, Serving, Handling,
            RuntimeKept, StillServing
<1>1. CASE AddBegin
  <2>1. RuntimeKept /\ StillServing /\ answer' = answer
    BY <1>1 DEF AddBegin
  <2> QED
    BY <2>1, RegisterStutter
<1>2. CASE CreateDevice
  <2>1. RuntimeKept /\ StillServing /\ answer' = answer
    BY <1>2 DEF CreateDevice
  <2> QED
    BY <2>1, RegisterStutter
<1>3. CASE AddFails
  <2>1. RuntimeKept /\ StillServing /\ answer' = answer
    BY <1>3 DEF AddFails
  <2> QED
    BY <2>1, RegisterStutter
<1>4. CASE ReadAnswer
  <2>1. RuntimeKept /\ StillServing /\ answer' = answer
    BY <1>4 DEF ReadAnswer, Query, Assign
  <2> QED
    BY <2>1, RegisterStutter
<1>5. CASE MarkSeen
  <2>1. RuntimeKept /\ StillServing /\ answer' = answer
    BY <1>5 DEF MarkSeen, Query, Assign
  <2> QED
    BY <2>1, RegisterStutter
<1>6. CASE EnsureGreeting
  <2>1. RuntimeKept /\ StillServing /\ answer' = answer
    BY <1>6 DEF EnsureGreeting, Query, Assign
  <2> QED
    BY <2>1, RegisterStutter
<1>7. CASE RequeryGreeting
  <2>1. RuntimeKept /\ StillServing /\ answer' = answer
    BY <1>7 DEF RequeryGreeting, Query, Assign
  <2> QED
    BY <2>1, RegisterStutter
<1>8. CASE MarkDeviceSeen
  <2>1. RuntimeKept /\ StillServing /\ answer' = answer
    BY <1>8 DEF MarkDeviceSeen, Query, Assign
  <2> QED
    BY <2>1, RegisterStutter
<1>9. CASE ReadRuntimeValue
  <2>1. StillServing /\ step \notin Serving /\ answer' = answer
    BY <1>9 DEF ReadRuntimeValue, Query, Assign
  <2>2. CASE Query("RuntimeValue", "friendly")
    BY <2>1, <2>2, RegisterStutter DEF Query
  <2>3. CASE Assign("RuntimeValue", 0, "friendly")
    <3>1. registry'["RuntimeValue"] = 0
      BY <2>3 DEF Assign
    <3> QED
      BY <2>1, <3>1, RegisterReset DEF Register!Next
  <2> QED
    BY <1>9, <2>2, <2>3 DEF ReadRuntimeValue
<1>10. CASE AssignFriendlyName
  <2>1. RuntimeKept /\ StillServing /\ answer' = answer
    BY <1>10 DEF AssignFriendlyName
  <2> QED
    BY <2>1, RegisterStutter
<1>11. CASE AssignCustomProperty
  <2>1. RuntimeKept /\ StillServing /\ answer' = answer
    BY <1>11 DEF AssignCustomProperty
  <2> QED
    BY <2>1, RegisterStutter
<1>12. CASE CreateQueue
  <2>1. RuntimeKept /\ (step' \in Serving <=> step \notin Serving) /\ answer' = Missing
    BY <1>12 DEF CreateQueue
  <2> QED
    BY <2>1, RegisterSwitch DEF Register!Next
<1>13. CASE PrepareHardware
  <2>1. RuntimeKept /\ StillServing /\ answer' = Missing
    BY <1>13 DEF PrepareHardware, PowerCallback
  <2> QED
    BY <2>1, RegisterForget DEF Register!Next
<1>14. CASE D0Entry
  <2>1. RuntimeKept /\ StillServing /\ answer' = Missing
    BY <1>14 DEF D0Entry, PowerCallback
  <2> QED
    BY <2>1, RegisterForget DEF Register!Next
<1>15. CASE D0Exit
  <2>1. RuntimeKept /\ StillServing /\ answer' = Missing
    BY <1>15 DEF D0Exit, PowerCallback
  <2> QED
    BY <2>1, RegisterForget DEF Register!Next
<1>16. CASE ReleaseHardware
  <2>1. RuntimeKept /\ StillServing /\ answer' = Missing
    BY <1>16 DEF ReleaseHardware, PowerCallback
  <2> QED
    BY <2>1, RegisterForget DEF Register!Next
<1>17. CASE GetConfig
  <2>1. RuntimeKept /\ StillServing /\ step \in Serving
    BY <1>17 DEF GetConfig
  <2>2. registry["RuntimeValue"] # Missing /\ answer' = registry["RuntimeValue"]
    BY <1>17, ValuesAssumption DEF GetConfig, PastRuntime, PastDeviceSeen, PastGreeting, PastSeen,
                                    PastAnswer, Agree
  <2> QED
    BY <2>1, <2>2, RegisterRead DEF Register!Next
<1>18. CASE GetRuntimeValue
  <2>1. RuntimeKept /\ StillServing /\ step \in Serving
    BY <1>18 DEF GetRuntimeValue
  <2>2. CASE registry["RuntimeValue"] # Missing /\ answer' = registry["RuntimeValue"]
    BY <2>1, <2>2, RegisterRead DEF Register!Next
  <2>3. CASE answer' = Missing
    BY <2>1, <2>3, RegisterForget DEF Register!Next
  <2> QED
    BY <1>18, <2>2, <2>3 DEF GetRuntimeValue
<1>19. CASE SetBegin
  <2>1. RuntimeKept /\ StillServing /\ answer' = Missing
    BY <1>19 DEF SetBegin
  <2> QED
    BY <2>1, RegisterForget DEF Register!Next
<1>20. CASE AssignRuntimeValue
  <2>1. StillServing /\ step \in Serving /\ answer' = answer /\ answer = Missing
    BY <1>20 DEF AssignRuntimeValue
  <2>2. CASE registry' = [registry EXCEPT !["RuntimeValue"] = setting]
    <3>1. registry'["RuntimeValue"] \in RuntimeValues
      BY <2>2
    <3> QED
      BY <2>1, <3>1, RegisterWrite DEF Register!Next
  <2>3. CASE UNCHANGED registry
    BY <2>1, <2>3, RegisterStutter
  <2> QED
    BY <1>20, <2>2, <2>3 DEF AssignRuntimeValue
<1>21. CASE CacheRuntimeValue
  <2>1. RuntimeKept /\ StillServing /\ answer' = answer
    BY <1>21 DEF CacheRuntimeValue
  <2> QED
    BY <2>1, RegisterStutter
<1>22. CASE RemoveDevice
  <2>1. RuntimeKept /\ (step' \in Serving <=> step \notin Serving) /\ answer' = Missing
    BY <1>22 DEF RemoveDevice
  <2> QED
    BY <2>1, RegisterSwitch DEF Register!Next
<1>23. CASE Configure
  <2>1. RuntimeKept /\ StillServing /\ answer' = answer
    BY <1>23 DEF Configure
  <2> QED
    BY <2>1, RegisterStutter
<1>24. CASE HostEnds
  <2>1. RuntimeKept /\ step' \notin Serving /\ answer' = Missing
    BY <1>24 DEF HostEnds
  <2>2. CASE step \in Serving
    BY <2>1, <2>2, RegisterSwitch DEF Register!Next
  <2>3. CASE step \notin Serving
    BY <2>1, <2>3, RegisterForget DEF Register!Next
  <2> QED
    BY <2>2, <2>3
<1>25. CASE UNCHANGED vars
  BY <1>25, RegisterStutter DEF vars
<1> QED
  BY <1>1, <1>2, <1>3, <1>4, <1>5, <1>6, <1>7, <1>8, <1>9, <1>10, <1>11, <1>12, <1>13, <1>14,
     <1>15, <1>16, <1>17, <1>18, <1>19, <1>20, <1>21, <1>22, <1>23, <1>24, <1>25 DEF Next, DriverStep

-----------------------------------------------------------------------------
(* The basic driver. *)

(* No device, no mapping: what the invariant says of the initial states.     *)
LEMMA BasicInit == Basic!Init => BasicInv
<1> SUFFICES ASSUME Basic!Init PROVE BasicInv
  OBVIOUS
<1>1. resources \in Basic!ResourceLists
  BY DEF Basic!Init, Basic!ResourceLists
<1>2. 0 \in 0 .. Word - 1
  BY BasicAssumption DEF Basic!WordAssumption
<1>3. Basic!TypeOK
  BY <1>1, <1>2 DEF Basic!Init, Basic!TypeOK, Basic!Phases
<1>4. MappingInv
  BY DEF Basic!Init, MappingInv
<1> QED
  BY <1>3, <1>4 DEF BasicInv

(* The first memory resource has the length of a window. *)
LEMMA FirstResource ==
    ASSUME resources \in Basic!ResourceLists, resources # <<>>
    PROVE  resources[1] \in Windows
BY DEF Basic!ResourceLists

(* Every step of the basic driver, and the end of the host, keeps it.       *)
LEMMA BasicStep ==
    BasicInv /\ (Basic!DriverStep \/ Basic!HostEnds \/ UNCHANGED basicVars) => BasicInv'
<1> SUFFICES ASSUME BasicInv, Basic!DriverStep \/ Basic!HostEnds \/ UNCHANGED basicVars
             PROVE  BasicInv'
  OBVIOUS
<1> USE BasicAssumption
        DEF BasicInv, Basic!TypeOK, MappingInv, Basic!Phases, Basic!WordAssumption
<1>0. 0 \in 0 .. Word - 1 /\ Windows \subseteq 0 .. Word - 1
  OBVIOUS
<1>1. CASE Basic!DeviceAdd
  <2>1. Basic!TypeOK'
    BY <1>0, <1>1 DEF Basic!DeviceAdd
  <2>2. MappingInv'
    BY <1>1 DEF Basic!DeviceAdd
  <2> QED
    BY <2>1, <2>2
<1>2. CASE Basic!PrepareHardware
  <2>1. CASE resources = <<>> /\ UNCHANGED <<HasMmio, MmioLength, mappings>> /\ phase' = "prepared"
    BY <1>2, <2>1 DEF Basic!PrepareHardware
  <2>2. CASE /\ resources # <<>> /\ mappings' = mappings + 1 /\ HasMmio' = TRUE
             /\ MmioLength' = resources[1] /\ phase' = "prepared"
    <3>1. mappings = 0 /\ accessed = NoOffset /\ accessed' = NoOffset
      BY <1>2, <2>2 DEF Basic!PrepareHardware
    <3>2. MmioLength' \in 0 .. Word - 1
      BY <1>0, <2>2, FirstResource
    <3> QED
      BY <1>2, <2>2, <3>1, <3>2 DEF Basic!PrepareHardware
  <2>3. CASE /\ MmioLength' = 0 /\ phase' = "failed" /\ UNCHANGED <<HasMmio, Prepared, mappings>>
    BY <1>0, <1>2, <2>3 DEF Basic!PrepareHardware
  <2> QED
    BY <1>2, <2>1, <2>2, <2>3 DEF Basic!PrepareHardware
<1>3. CASE Basic!ReleaseHardware
  <2>0. /\ mappings' \in Nat
        /\ HasMmio' \in BOOLEAN
        /\ MmioLength' \in 0 .. Word - 1
    <3>1. CASE HasMmio
      <4>1. mappings = 1 /\ mappings' = 0 /\ HasMmio' = FALSE /\ MmioLength' = 0
        BY <1>3, <3>1 DEF Basic!ReleaseHardware
      <4> QED
        BY <1>0, <4>1
    <3>2. CASE ~HasMmio
      BY <1>3, <3>2 DEF Basic!ReleaseHardware
    <3> QED
      BY <3>1, <3>2
  <2>1. Basic!TypeOK'
    BY <2>0, <1>3 DEF Basic!ReleaseHardware
  <2>2. MappingInv'
    BY <1>3 DEF Basic!ReleaseHardware
  <2> QED
    BY <2>1, <2>2
<1>4. CASE Basic!D0Entry
  BY <1>4 DEF Basic!D0Entry, Basic!context
<1>5. CASE Basic!D0Exit
  BY <1>5 DEF Basic!D0Exit, Basic!context
<1>6. CASE Basic!IoDeviceControl
  BY <1>6 DEF Basic!IoDeviceControl, Basic!context
<1>7. CASE Basic!RemoveDevice
  BY <1>7 DEF Basic!RemoveDevice, Basic!context
<1>8. CASE Basic!HostEnds
  BY <1>8 DEF Basic!HostEnds, Basic!context
<1>9. CASE UNCHANGED basicVars
  BY <1>9 DEF basicVars, Basic!ValidReg32Offset, Basic!Minus
<1> QED
  BY <1>1, <1>2, <1>3, <1>4, <1>5, <1>6, <1>7, <1>8, <1>9 DEF Basic!DriverStep

(* A checked offset leaves room for a register, also in a short window.     *)
LEMMA BasicCorrect == BasicInv => RegistersMapped
BY BasicAssumption, FirstResource
DEF BasicInv, MappingInv, RegistersMapped, Basic!RegistersMapped, Basic!TypeOK, Basic!Phases,
    Basic!ValidReg32Offset, Basic!Minus, Basic!WordAssumption

-----------------------------------------------------------------------------
(* Both drivers in their host. *)

(* The steps of the two drivers keep the conjunction: each step is one       *)
(* driver's, or the end of the host for both.                                *)
LEMMA HostStep == IInv /\ [HostNext]_hostVars => IInv'
BY RegistryStep, BasicStep DEF IInv, HostNext, hostVars, vars, basicVars, Next

(* The invariants of both drivers hold in their host, whenever it ends.     *)
THEOREM Invariance == HostSpec => []IInv
<1>1. HostInit => IInv
  BY RegistryInit, BasicInit DEF HostInit, IInv
<1> QED
  BY <1>1, HostStep, PTL DEF HostSpec

(* No device serves with an empty greeting, and every variable of both      *)
(* drivers keeps to its values.                                             *)
THEOREM TypeCorrect == HostSpec => []HostTypeOK
<1>1. IInv => HostTypeOK
  BY DEF IInv, RegistryInv, BasicInv, HostTypeOK
<1> QED
  BY <1>1, Invariance, PTL

(* What a serving device reports is what the registry holds.                *)
THEOREM CacheCorrect == HostSpec => []CacheAgreesWithRegistry
<1>1. IInv => CacheAgreesWithRegistry
  BY RegistryCorrect DEF IInv
<1> QED
  BY <1>1, Invariance, PTL

(* The registers of the basic driver are mapped once or not at all, and     *)
(* accessed only inside their memory resource.                              *)
THEOREM MappingCorrect == HostSpec => []RegistersMapped
<1>1. IInv => RegistersMapped
  BY BasicCorrect DEF IInv
<1> QED
  BY <1>1, Invariance, PTL

(* RuntimeValue is one register that outlives device and host.              *)
THEOREM ImplementsRuntimeRegister == HostSpec => RuntimeRegisterSpec
<1>1. HostInit => Register!Init
  BY RegisterInit DEF HostInit
<1>2. IInv /\ [HostNext]_hostVars => [Register!Next]_(Register!vars)
  BY RegisterStep DEF IInv, HostNext, hostVars, Next
<1> QED
  BY <1>1, <1>2, Invariance, PTL DEF HostSpec, RuntimeRegisterSpec, Register!Spec
=============================================================================
