# TLA+ verification of the userspace-ntos test drivers

This directory models the repository's Windows test drivers in TLA+, model-checks them with
TLC and proves their main invariants with TLAPS. The drivers are small, but each of them is a
concurrent program: dispatch routines on any number of threads, interrupt service routines,
DPCs, timers, work items, and a PnP/power manager or an unload routine that takes everything
down underneath them. What makes them correct is the order of a few unlocked reads and writes,
and no test of the repository (the `user/UserTest.c` programs are sequential clients) exercises
an order.

## 1. The system

All drivers share one shape. The I/O manager calls a dispatch routine with a packet (IRP or
WDFREQUEST); the driver answers it there, or marks it pending, keeps it in its device extension
and answers it later from a callback. The extension is the only shared state. Only
`kmdf_interface_registry_test_driver` keeps anything longer than that: its registry values and a
device property outlive the device and the driver host, and a new device starts from them.

| component | state it keeps | operations | what is hard | what makes it correct |
|---|---|---|---|---|
| `async_test_driver` | `Outstanding`, `Unloading`, `ZeroOutstandingEvent`; one context (and work item) per request | PING/VERSION, QUEUE_DPC, QUEUE_TIMER, QUEUE_WORKITEM, `AsyncUnload` | lock-free rundown: counter, flag and event are three separate words; every step can fail to allocate | count exact on every path, no lost wake-up, nobody admitted after `Unloading`, context freed once, packet completed once, unload terminates, device not deleted under an operation |
| `dma_pnp_power_test_driver` | resources (registers, interrupt, DMA adapter, common buffer), `Started`, `Removed`, `Powered`, `PendingIrp` under a spin lock, common buffer | register access, MDL self test, common-buffer roundtrip, CANCEL_PENDING; START/STOP/REMOVE; SET_POWER; ISR, DPC | START unwinds four acquisitions; DPC, cancel, power-down, STOP and REMOVE compete for one slot; flags are read outside the lock | one owner of the pending packet, one completion, START all or nothing, teardown in dependency order, nothing pending in D3, a roundtrip reports its own transfer |
| `mmio_interrupt_test_driver` | `Mapped`, `InterruptConnected`, `InterruptObject`, `Unloading`, `PendingInterruptIrp` under a spin lock | register access, WAIT, CANCEL_WAIT, DISCONNECT, RECONNECT; DriverEntry, `MmioitUnload`; ISR, DPC | connect/disconnect from client threads with no lock; unload against a queued DPC | one owner of the wait, truthful connection flags, clean deletion, an interrupt answers the wait |
| `pnp_mmio_interrupt_test_driver` | as above, with resources assigned by PnP | the same IOCTLs, with a register offset from the client; START/STOP/REMOVE | the wait slot against STOP and REMOVE; START fails half-way; the offset check is unsigned and its length may change before the access | one owner of the wait, an interrupt or the teardown answers it, START undone completely, every access inside the window |
| `power_pnp_mmio_test_driver` | as above plus `Powered`, the lower device | the same; SET_POWER forwarded to the lower device | order of the local transition and the lower device's, and its failure | never usable while the lower device is down, the forwarding thread always woken, resources follow `Started`, one owner of the wait |
| `kmdf_dma_interrupt_test_driver` | `PendingRequest`, `PendingKind` (no lock), `Prepared`, `Powered`, DMA objects | roundtrip, TIMER_TEST, WORKITEM_TEST, CANCEL_PENDING; D0Entry/D0Exit, Prepare/ReleaseHardware; ISR, DPC, timer, work item | four callbacks take one slot with plain reads and writes | each request completed once, by the callback of its own kind |
| `kmdf_interface_registry_test_driver` | five values in the registry, copies of them in the context, a device property | EvtDeviceAdd (reads, defaults, marks), D0 and hardware callbacks, GET/SET_RUNTIME_VALUE, GET_CONFIG | every registry call can fail and the host can end between any two | a serving device agrees with the registry and the property; RuntimeValue is one register |
| `kmdf_basic_test_driver` | `HasMmio`, `MmioLength`, `Prepared`, `Powered`, the mapping | Prepare/ReleaseHardware, D0Entry/D0Exit, register access | ReleaseHardware is also called after a PrepareHardware that failed and unmapped | mapped once or not at all, every access inside the resource |
| `kmdf_loader_compat_test_driver` | counters of its callbacks | every request answered at once; a timer and a work item that count | nothing is decided by the counters | - |
| `umdf2_lifecycle_test_driver`, `surt_test_driver` | counters; none | every request answered at once | - | - |
| `ntdll_only_version_test` | none | a stand-alone user program | nothing | - |

`PROJECT.json` lists every component with its status and every hazard with its line.

## 2. Modules

| module | models | properties | proofs |
|---|---|---|---|
| `IrpProtocol` | abstract: a packet is dispatched, may be marked pending, and is completed once | - | - |
| `WaitSlot` | abstract: one slot for a request that nobody can answer yet, filled only while it is empty, emptied by a canceller who completes the packet or by the DPC, which completes it later | in the module | `WaitSlotProofs` |
| `RuntimeRegister` | abstract: a register that clients write and read while it is served, and that outlives the device | - | - |
| `AsyncTest` | `src/async_test_driver/driver/Driver.c` | in the module | `AsyncTestProofs` |
| `DmaPnpPower` | `src/dma_pnp_power_test_driver/driver/Driver.c` | in the module | `DmaPnpPowerProofs` |
| `MmioInterrupt` | `src/mmio_interrupt_test_driver/driver/Driver.c` | in the module | `MmioInterruptProofs` |
| `PnpMmioInterrupt` | `src/pnp_mmio_interrupt_test_driver/driver/Driver.c` | in the module | `PnpMmioInterruptProofs` |
| `PowerPnpMmio` | `src/power_pnp_mmio_test_driver/driver/Driver.c` | in the module | `PowerPnpMmioProofs` |
| `KmdfDmaInterrupt` | `src/kmdf_dma_interrupt_test_driver/driver/Driver.c` | in the module | `KmdfDmaInterruptProofs` |
| `KmdfInterfaceRegistry` | `src/kmdf_interface_registry_test_driver/driver/Driver.c` | in the module | `KmdfHostProofs` |
| `KmdfBasic` | `src/kmdf_basic_test_driver/driver/Driver.c` | in the module | `KmdfHostProofs` |
| `KmdfHost` | the two above in one driver host | in the module | `KmdfHostProofs` |

A packet that is completed a second time takes the value `"completed_twice"` in `irp`, which no
`TypeOK` and no abstract specification allows, so that `TypeOK` is a claim about every pair of
code paths that could answer one packet.

The abstract specifications form two levels. At the top, `IrpProtocol` is what any driver owes the
I/O manager. Below it, `WaitSlot` is the discipline by which `DmaPnpPower`, `MmioInterrupt`,
`PnpMmioInterrupt` and `PowerPnpMmio`, four separate copies of the same code, keep a pending packet:
each instantiates it with `irp` for `stage`, its pending-IRP word for `slot` and `dpcIrp` for `hand`,
and has `WaitSlotSpec` as a property. `WaitSlot` implements `IrpProtocol`, so each driver does; that
step is proved, once. `AsyncTest`, which has no slot, implements `IrpProtocol` directly
(`IrpProtocolSpec`), and so does `KmdfDmaInterrupt`, whose slot has no lock and follows another
discipline (a theorem only). `KmdfInterfaceRegistry`
instantiates `RuntimeRegister` with the registry's value, and has `RuntimeRegisterSpec`. The WDM
drivers share no state with each other, so nothing composes them; each module composes a driver
with its device, its callbacks, its host and its clients. `KmdfHost` composes the two KMDF drivers
that have a host with an end: one step of either driver, or the end of the host for both.
`MC<Module>.tla` is the module of the TLC runs, `<Module>Proofs.tla` holds the theorems.

How a step is chosen: a location of a program counter lies before every access to a word that
another thread reads or writes without a lock; a region under a spin lock is one step; work on
a thread's own data is joined to the next such step. Every action is named for the function of
the source or for the part of it, and `PROJECT.json` gives its lines.

Conventions shared by the driver modules:

- `pc[i]` is where the dispatch routine of request `i` is, `mpc`, `upc` or `pc["manager"]` where
  the thread of DriverEntry/DriverUnload or of the PnP and power IRPs is.
- `"local"` is the kind of every request that is answered where it is dispatched and touches
  nothing shared, refused ones included.
- `held` is the set of resources; `dpcIrp` the packet the DPC took from the slot and has not
  completed yet.
- A location of its own for each register write that matters: WRITE_REG32 takes its offset and
  value from the client, so besides `AccessRegister`, which leaves the device as it is, there is
  `AcknowledgeInterrupt` (1 to ACK: the interrupt status is cleared, whether the ISR has seen it or
  not) in every WDM driver with an interrupt, and `StartTransfer` (a command to COMMAND) in
  `DmaPnpPower`. In `KmdfDmaInterrupt` the same writes are there when `RawAccess` is TRUE.
- `bugcheck` (WDM drivers) is set by an access to unmapped registers or to the extension of a
  deleted device (`AccessAfterDelete`, `WildAccess`). Nothing runs after it: what the program
  does then is undefined. Liveness properties say "or bugcheck" where this can happen.

What each module abstracts is named in its header.

### AsyncTest

`Outstanding`, `Unloading` and `ZeroOutstandingEvent` are the three words of the extension.
`AsyncTryAcquireOutstanding` is `CheckUnloading`, `IncrementOutstanding`, `ClearEvent`,
`RecheckUnloading`; `AsyncReleaseOutstanding` is `DecrementOutstanding`, `SetEvent`; `AsyncUnload`
is `UnloadBegin`, `UnloadMark`, `UnloadTest`, `UnloadWait`, `UnloadDelete`. The three
`AsyncQueue...` actions choose between success and each allocation failure;
`AsyncFinishContext` is the callback that completes the packet. `Hosts` says who calls
DriverUnload: `"io_manager"` when every packet is completed, `"driver_host"` at any time, as the
Driver Host that the driver's README is written for may.

### DmaPnpPower

Requests run `DmaPnpDispatchDeviceControl`; the manager thread runs START, STOP, REMOVE and power
changes one at a time (`mpc`), each acquisition or release of a resource a step. A START that fails
goes to the first call of its failure branch (`undo_free`, `undo_disconnect`, `undo_unmap`) and from
there through the same routines as STOP, one step each, `FreeCommonBuffer` and `PutDmaAdapter` being
the two halves of `DmaPnpFreeDmaResources`; requests and the ISR run in between. `DeviceFinishes` is
the simulated DMA device, external to the driver: it inverts the buffer (or, for a CHECKSUM written by
a client, leaves it), sets DONE or ERROR, and `InjectInterrupt` is the host's injection. A client's
own command (`StartTransfer`) takes the place of the transfer under way. `buffer`, `command` and
`regResult` record whose pattern is where, enough to tell a request's own result from a foreign one.

### MmioInterrupt

`vector` is the truth about the interrupt, `InterruptConnected` and `InterruptObject` what the
driver believes. Connecting and disconnecting are three steps each (test, call, flag) and are run
by requests and by the driver thread. `SerialControl = TRUE` keeps two of them from overlapping;
`FALSE` is the code as it is.

### PowerPnpMmio

The manager thread forwards each PnP and power IRP to the lower device: `Forward` is
`IoCallDriver`/`PoCallDriver` with an answer at once, or STATUS_PENDING, after which
`CompletionRoutine` and `EventSet` are the late answer. `AfterForward` says where each handler
continues. The lower device (`lower`) is external: it takes the power state it was asked for when
it answers with success.

### PnpMmioInterrupt

The same forwarding, without power. START runs `Forward`, `MapHardware` (the resource list of
`PnpitFindResources`, the mapping and the ID check), `ConnectInterrupt` and `HardwareStarted`, each
with its failure and what it gives back; STOP and REMOVE run `StopCancels` to `HardwareStopped` and
then forward. `FoundAt` is the search of the parser: the first descriptor of each type, in lists
that lack one, hold foreign ones, or hold two of a kind. `ValidReg32Offset` computes in the unsigned
arithmetic of a `ULONG`, with `Word` for 2^32; `CheckOffset` and the access are two steps, between
which the device may be stopped and started. An access to offset 12 (`PNPIT_REG_ACK`) may be the
write that acknowledges.

### KmdfDmaInterrupt

The driver holds one request in two plain words. `CompletePendingRequest(t)` is the same code
run by five threads: DPC, timer, work item, CANCEL_PENDING, and the PnP/power thread in D0Exit and
ReleaseHardware. The framework is external and modelled from the contract the driver relies on:
a sequential, power-managed queue, power-down after the presented request is completed, one DPC,
timer and work item at a time, `WdfTimerStop(TRUE)` and `WdfWorkItemFlush` that wait. Under this
contract D0Exit and CANCEL_PENDING never find a request to cancel, which `SlotFreeWhenPresented`
and `QuietOutsideD0` state.

### KmdfInterfaceRegistry, KmdfBasic and KmdfHost

`step` walks through EvtDeviceAdd one registry or property call at a time; `AddFails` is every early
return. `Query` copies a value that is there into the context; `Assign` writes a default or a mark to
both. A query may fail for any reason, so a default may overwrite a value that is there.
`GetRuntimeValue` reports the registry, `GetConfig` the context; `SetBegin`, `AssignRuntimeValue` and
`CacheRuntimeValue` are SET_RUNTIME_VALUE. `HostEnds` may come between any two steps and leaves the
registry and the property. `Configure` is external: the registry fixture of the driver's README.

`KmdfBasic` counts `mappings` instead of naming them: a second mapping or a second unmapping would
show. `PrepareHardware` chooses between no memory resource, success, and a failure that has undone
the mapping, after which the framework calls `ReleaseHardware` all the same.

`KmdfHost` extends the one and instantiates the other; `HostEnds` of both is one step.

## 3. Runs

| run | module, bounds | question |
|---|---|---|
| `async` | 3 requests, one of each kind; both hosts | Is the rundown exact and does it terminate? |
| `async_unload` | 2 requests; `io_manager` | Does AsyncUnload wait for what is outstanding? **No** (finding) |
| `dma` | 2 requests of any kind; injected interrupts | Does the pending packet follow `WaitSlot`; is START all or nothing, and everything there while the readiness gate is open; order of the releases in STOP, REMOVE and a failed START; roundtrips answered, unless a client's ACK overtakes the ISR |
| `dma_power_down` | 2 requests, no injection | Is nothing pending in D3? **No** (finding) |
| `dma_roundtrip` | 2 requests, no injection | Does a roundtrip report its own transfer, if no client uses the registers itself? **No** (finding) |
| `mmio` | 3 requests; both hosts; `SerialControl` | Does the wait follow `WaitSlot`; truthful connection flags; is a deletion clean, and under `io_manager` is no request or wait left; a wait answered by the interrupt, unless a client's ACK overtakes the ISR |
| `mmio_control` | 3 requests; `io_manager`; overlapping control requests | Do the flags tell the truth when control requests overlap? **No** (finding) |
| `power` | 2 requests of any kind, any sequence of PnP and power IRPs, lower device answers anything | Usable only over a powered lower device, the waiting thread always woken, resources follow `Started` and back the readiness gate, the wait follows `WaitSlot` and is answered, as in `mmio` |
| `kmdf` | 3 requests of any kind; `RawAccess = FALSE` | Is the unlocked slot enough under the queue's guarantees? |
| `pnp` | 2 requests of any kind, any sequence of PnP IRPs; `Word` 32, windows of 2 and 16 bytes, offsets 3, 12 and 16 | The wait follows `WaitSlot`, no wait left behind by a teardown, or by an interrupt, unless a client's ACK overtakes the ISR, START undone whichever step fails, accesses inside the window |
| `kmdf_host` | two values of Answer and Greeting, three of RuntimeValue; `Word` 16, windows of 2 and 8 bytes, offsets 3, 4 and 8 | Do context, registry and property agree, is RuntimeValue one register, and is the mapping balanced, whenever the host ends? |
| `kmdf_raw` | 2 requests; clients write COMMAND and ACK | Is a request answered by the callback of its kind? **No** (finding) |

Only the number of requests is bounded; manager, interrupts and device repeat without bound, and
a request is used once. Two requests are the least that meet in one slot, with the ISR, DPC,
device and manager thread as further parties. Three are used where an interleaving needs three
requests: `async` (one releases the last reference, one takes the first again, one sees both),
`mmio` (DISCONNECT, RECONNECT and a WAIT that depends on them), `kmdf` (a request before and one
after the one in the slot). `host` is fixed at the start of a behaviour. `DmaPnpPower` with three
requests is beyond a run of minutes; its safety properties are proved instead.

A `ULONG` of five bits is enough for the offset check, which only compares, subtracts 4 and tests
divisibility by 4: the window of 2 bytes is shorter than a register, so the difference would wrap;
16 is the first offset behind the larger window, 12, the ACK register, the last inside it, 3 is not
aligned; some resource
lists hold a second memory resource of the greatest length, which the parser must not take. The
proofs hold for every word and window. In `kmdf_host` every list of values has the default and one
or two others, so that a lost update differs from a default.

Fairness (`FairSpec`) is weak fairness of each thread that is inside the driver: a dispatch
routine, ISR, DPC or callback that was started runs to its end, a PnP or power handler that was
started is not abandoned, the DMA device finishes its command, the lower device answers, and an
asserted interrupt of a connected vector is delivered. All of these are code without a loop or
are the promise of the kernel that calls it. Nothing obliges a client to send a request, the host
to inject an interrupt, or a manager to start an operation. The lock-protected steps need no
strong fairness: no property waits for a lock. In `PnpMmioInterrupt` fairness includes the accesses
that bring the system down (`WildRequest`, `WildDpc`): a thread that reaches one does not stop
before it. `kmdf_host` asks no liveness question and assumes no fairness.

### Findings

1. **`async_unload`** (`Driver.c:56`): the releaser that brings `Outstanding` to 0 signals the event
   in a second step. A request that increments to 1 and clears the event in between has its clear
   undone, and AsyncUnload deletes the device with an operation outstanding. The README says that
   unloading waits for them.
2. **`dma_power_down`** (`Driver.c:769`): a request that read `Powered = 1` is stored after the
   power-down emptied the slot and stays pending in D3, which the README excludes. The same pattern
   is in `PowerPnpWaitForInterrupt`.
3. **`dma_roundtrip`** (`Driver.c:829`): the common buffer is filled before the slot is claimed; a
   second roundtrip that is refused as busy has already replaced the first one's pattern. The property
   is claimed of clients that leave the registers alone, so that their own commands are not the cause.
4. **`mmio_control`** (`Driver.c:254`): with a DISCONNECT overtaking a RECONNECT, `InterruptConnected`
   stays set over a disconnected interrupt, and every later RECONNECT answers success and connects
   nothing.
5. **`kmdf_raw`** (`Driver.c:492`): the DPC completes whatever is pending. After a WRITE_REG32 to the
   COMMAND register a TIMER_TEST is answered with the RESULT register.

## 4. Proofs

Every safety property of a passing run, and every refinement, is a theorem, for all values of the
constants. The assumptions are those that the modules state on their constants: in `AsyncTest`,
`Irps` finite and `KindOf`, `Hosts` of their types; `NoIrp`, `NoRequest` not packets; `Word > 4` and
windows and offsets below it; the defaults among the registry values. Two more are conditions of
theorems, because without them the property is false (runs `mmio_control`, `kmdf_raw`):
`SerialControl` and `~RawAccess`. Each module has one inductive invariant, `IInv`, whose preservation
is shown action by action in lemmas; the theorems follow from it.

Three kinds of theorem go beyond what a run checks:

- *The only cause.* Five properties are refuted by a run, or are claimed by nobody, because of one
  schedule or one use of the registers. The theorem says that this schedule is the only cause: the
  property holds of every behaviour that avoids it. `OnlyTheLateStore` (`DmaPnpPowerProofs`): nothing
  is pending in D3 unless a request is between its test of the flags and the slot while the
  power-down, which has emptied the slot, clears `Powered` or has done so. `OnlyTheLateSignal`
  (`AsyncTestProofs`): with a host that unloads at rest, AsyncUnload waits for all that is outstanding
  unless a releaser signals the event after the count has left 0 again. `OnlyTheUnflushedDpc`
  (`MmioInterruptProofs`): with `io_manager` and `SerialControl`, the only access to freed memory is
  that of a DPC which was queued when the device was deleted. `OwnCallback`
  (`KmdfDmaInterruptProofs`): with no client that writes COMMAND or ACK, each callback answers only
  requests of its own kind. `OnlyTheClientsAck` (`DmaPnpPowerProofs`): what is to answer a pending
  roundtrip is always on its way, whatever else clients write to the registers, unless a client is
  about to clear a DONE that the ISR has not seen; this is the exception that `PendingAnswered` names.
  The hypotheses are conditions on the schedule (`[]ToldInTime`, `[]SignalInTime`,
  `[]~AckStealsInterrupt`) that the code does not establish; they say what a repair has to establish.
- *The safety part of a liveness property.* "Answered eventually" is fairness plus the fact that the
  next step towards the answer is always there to be taken. That fact is an invariant and is proved:
  `NobodyForgotten` (for `RequestsAnswered` and `PowerDownCompletes` of the KMDF driver),
  `OnlyTheClientsAck` (for `PendingAnswered`), `WaiterHasWaker` (for `ManagerAnswered`, and for the
  synchronous forwarding of the PnP driver) and `WakeupNotLost` (for `UnloadCompletes`).
- *Exactness of a check.* `OffsetCheckExact`: for every word size the unsigned register-offset check
  accepts exactly the aligned registers inside the window.

*WaitSlot.* `OneOwner` is inductive together with `TypeOK` (`SlotInvariance`), and with it each action is a
step of `IrpProtocol` (`SlotImplementsIrpProtocol`): a packet taken from the slot or the hand is
pending, so that it is completed for the first time.

*AsyncTest.* `IInv` adds to `TypeOK`, `OutstandingCountsHolders` and `NoLostWakeup` what each
location says of the packet and the context (`RequestInv`) and that the device is live until the
last step of AsyncUnload. None of the three is inductive alone: `Outstanding \in Nat` needs that
a decrementing request is counted, and `NoLostWakeup` needs that `Outstanding = 1` after a
clearing increment. `HoldersMove` computes how the cardinality of the holders changes when one
request moves; the step lemmas follow the four parts of the code (acquire, release, callback,
arrival) and the driver thread. From `IInv`: `TypeCorrect`, `CountExact`, `WakeupNotLost`,
`ContextReleased`, `NoLateAdmission` (an action property) and `ImplementsIrpProtocol` (the
refinement). `OnlyTheLateSignal` needs two more invariants: `EventIsTrue` (a signalled event means a
count of 0, except while a first holder is about to clear it), which a late signal would break, and
`UnloadInv` (once AsyncUnload runs there are only completed packets, and past its wait the count is 0).

*DmaPnpPower.* `IInv` adds to `TypeOK` and `PendingHasOneOwner` what the location of a request says of
its packet (`PacketInv`), which makes "no packet is completed twice" inductive, and which resources
are held at each location of the manager (`HardwareInv`), from which `ResourcesNested` and
`ResourcesAllOrNothing` follow, the failure branches of START included: a device marked ready has all
its resources because `Powered` is cleared before the first of them goes and set after the last has
come. `NextIInv` shows in one pass that a step keeps `IInv` and is a step of `WaitSlot` or a stutter
(`ImplementsWaitSlot`); `ImplementsIrpProtocol` then follows from the theorem on `WaitSlot`,
instantiated with the driver's variables. `OneOwner` proves `PendingHasOneOwner`, defined with the
proofs, as in the three modules below. `OnlyTheClientsAck` follows the command from the register to
the device, the interrupt and the DPC: its invariant, `RoundtripOwed`, survives a late command or a
client's own that replaces another one's, and one DPC for several interrupts, and is lost only when a
client's ACK clears DONE first.

*MmioInterrupt.* The slot and the packets as above hold without any assumption (`TypeCorrect`,
`OneOwner`). `ControlInv` and `OneController` say that, with `SerialControl`, at most one thread is
between the test and the update of `InterruptConnected`, and that its location determines how
flag, pointer and `vector` differ; with nobody there they agree (`FlagsTrue`). `DriverInv` follows the
driver thread through DriverEntry's unwinding and MmioitUnload (`CleanDelete`). `NobodyInside` says that
under `io_manager` no request is left in the driver once MmioitUnload runs, so that nobody stores a
wait behind its sweep; `CleanDelete` and `OnlyTheUnflushedDpc` rest on it. `SlotRefined` shows the
refinement of `WaitSlot` action by action, here and in the two modules below.

*PowerPnpMmio.* `PowerInv` is the argument for `PowerOrder`: the lower device is asked to leave D0
only when `Powered` is already clear, the locations that set it are reached only after the lower
device's success, and an answer under way has its thread waiting with the event clear.
`HardwareInv` is as in `DmaPnpPower`.

*PnpMmioInterrupt.* `HardwareInv` adds that `MmioLength` is 0 or the window, for every resource list,
and `RequestInv` that an offset which passed the check fits the window, whatever happens to the
device before the access: this needs that the window is the same at every START
(`OffsetsInside`). `ValidReg32Offset` is analysed once, for every word (`OffsetCheckExact`).

*KmdfDmaInterrupt.* The driver has no lock, so `IInv` is built on the queue's contract: at most one
request is in the driver, and while it is pending exactly one token for it is somewhere - the
device's command, its DONE, a queued callback, or a callback under way - and otherwise nothing is
queued. This makes the plain reads and writes of the slot exclusive (`TypeCorrect`, `SlotFree`), and
leaves no token when the framework powers down (`QuietWhenDown`), from which `AccessesMapped` and
`CleanRelease` follow. `PacketsMove` lists what a step may do to a request; `ImplementsIrpProtocol` and
`OwnCallback` read off from it. `IInv` says that there is at most one token; `NobodyForgotten` adds that
there is one, and that the interrupt which carries it is enabled and not refused.

*KmdfHost.* `IInv` joins the invariants of the two drivers. For the registry driver it says which
fields of the context already agree with the registry at each step of EvtDeviceAdd; agreement at
the last step is `CacheCorrect`. `ImplementsRuntimeRegister` maps each action to a write, a read, a
reset, a switch or a stutter of `RuntimeRegister`. For the basic driver it ties `mappings` and
`MmioLength` to the framework's phase (`MappingCorrect`).

Only model-checked: every liveness property (`UnloadCompletes`, `RequestsAnswered`, `PendingAnswered`,
`WaitAnswered`, `ManagerAnswered`, `PowerDownCompletes`), since fairness is out of the provers' reach;
what each of them but `WaitAnswered` owes to safety is proved, as said above.

## 5. Assumptions and limits

- One manager thread: PnP and power IRPs of a device are delivered one at a time, as the I/O and power
  managers do.
- The ISR is one step: it runs under the interrupt lock, and IoDisconnectInterrupt takes it. A DPC
  object is queued once at most and runs on one processor. The interrupt vector is not shared (the
  drivers connect it exclusively).
- The KMDF contract above. Both words of its slot are accessed in one step, since they are read and
  written one right after the other by each of their users.
- The WDM drivers use no remove lock and flush no DPC. Accesses after STOP, REMOVE or unload can
  happen in the models as in the code; they end the behaviour and are not claimed absent. In the KMDF
  driver they are excluded as long as no client writes COMMAND or ACK itself (`~RawAccess`), and
  `MappedWhenAccessed` states it. `DeletedIsClean` says nothing of a DPC that is queued at the
  deletion, nor, under `driver_host`, of a wait that is stored after the sweep of MmioitUnload.
- Register contents are abstracted. Of the values a client can write with WRITE_REG32 and
  WRITE_CONTROL, 1 to ACK and a command to COMMAND have an effect on the device; writes to CONTROL, to
  STATUS, to the address and length registers and of unknown commands are taken to have none that a
  property tells apart. An ACK by a client that overtakes the ISR loses the interrupt, and a wait or
  roundtrip stays pending for want of it: `WaitAnswered` and `PendingAnswered` except it, since no
  document promises the contrary. A client that changes the address or the length between the register
  writes of `WriteCommand` is not modelled.
- In `KmdfDmaInterrupt` the properties of run `kmdf` and all theorems have the condition `~RawAccess`.
  With raw commands the DPC answers what is not its own (finding 5), and with no lock DPC and timer
  could then also take the same request, for which there is no run.
- Memory is sequentially consistent: the shared words are `volatile` or accessed with Interlocked
  operations or under locks, on x86.
- The manager gives a device the same register window at every START, as for a device whose resources
  are not rebalanced to another size. `AccessInsideWindow` is therefore no claim about an offset that
  is checked against one window and used in a shorter one. In `PnpMmioInterrupt` GET_ID and
  WRITE_CONTROL, at fixed offsets, are not compared with `MmioLength`: the driver's README prescribes
  a window of 0x1000 bytes.
- A wait that read its flags before STOP or a power-down and is stored after it stays pending until
  the next START with an interrupt, or a cancel. The finding of run `dma_power_down` shows it; the
  liveness properties of the other drivers are stated so that they do not claim otherwise.
- The registry's administrator edits the driver's parameters only while there is no device. A query of
  RuntimeValue that fails resets it to the default, which `RuntimeRegister` allows (`Reset`) while a
  device is added.
- Drivers of one host end with it, together, and their mappings with them.
- Not modelled: values (counts, checksums, register contents), buffer lengths, symbolic links, and the
  components with status `not_modelled` in `PROJECT.json`, each with its reason.

## 6. Plan

The modules, runs and proofs above were written in this order: the drivers with the hardest
interleavings first (`AsyncTest`, `DmaPnpPower`), then the other interrupt drivers, then the KMDF
drivers and their host. What could still be added:

1. The safety part of `WaitAnswered` in the three drivers with an interrupt from outside: an
   acknowledged interrupt has its DPC queued until the wait that was in the slot is taken.
2. `OnlyTheLateStore` for the same race in `PowerPnpMmio`, and for STOP in `PnpMmioInterrupt`.
3. The DMA device's access to a common buffer that STOP has freed, in `DmaPnpPower`.

Not modelled, and why: `kmdf_loader_compat_test_driver`, `umdf2_lifecycle_test_driver` and
`surt_test_driver` answer every request where it is dispatched, and their counters are statistics
that decide nothing, so no order of their callbacks can be wrong; `ntdll_only_version_test` prints
a version; the user-mode testers are sequential clients, and the modules admit every order of
requests instead.
