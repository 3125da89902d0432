# TLA+ models of the bluetoothtbd service layer

This directory holds the TLA+ specifications of the service-layer control
plane of the Bluetooth stack (`service/` of the repository), the TLC
configurations that check them, and `PROJECT.json`, which ties every
definition to the source lines it models.

## 1. The system

The service turns the callback interface of the Bluetooth HAL into an API
that several clients can call from several threads.

| Part | Source | What it is |
|---|---|---|
| GATT multiplexer | `src/service/hal/bluetooth_gatt_interface.cpp` 1-604 | Singleton `g_interface`, mutex `g_instance_lock`, two `base::ObserverList`s, the HAL GATT handle and 15 static HAL callbacks that fan an event out to the observers of its role |
| Adapter | same file, 605-885 (`service/adapter.cpp`) | Power state machine `state_` (OFF, TURNING_ON, ON, TURNING_OFF), `Enable`/`Disable`/`SetName`, HAL callbacks that move the state, observers notified under `observers_lock_` |
| Adapter, earlier revision | same file, 886-1046 | The same class before observers, properties and factories were added |
| Bluetooth interface | `src/unnamed/part_001` (`service/hal/bluetooth_interface.cpp`) | Singleton `g_bluetooth_interface` with its own `g_instance_lock`, one observer list, the adapter HAL callbacks |
| Low-energy client and factory | `src/service/low_energy_client.h`, `src/unnamed/part_003` (its unit test) | Pending registrations by UUID, per-client advertising state machine; the implementation file is not among the sources |
| Binder server | `src/service/ipc/binder/bluetooth_binder_server.cpp` | `IBluetooth`: forwards each binder call to the Adapter, on a binder thread |
| Command-line client | `src/device/include/controller.h` 75-281 (the client's `main.cpp`) | Reads a line, looks the command up in `kCommandMap`, runs its handler, which calls `IBluetooth` and prints the result |
| Parcel helpers | `src/service/ipc/binder/parcel_helpers.h` | Declarations of marshalling functions |
| GKI | `src/gki/ulinux/gki_ulinux.c` | Module init/clean_up and a recursive lock taken by `GKI_disable` and released by `GKI_enable` |
| Controller interface | `src/device/include/controller.h` 1-74 | Table of function pointers for controller queries |
| Tests and build files | `src/service/test/ipc_unix_unittest.cpp`, `src/unnamed/part_002`, `src/service/Android.mk`, `src/unnamed/part_000` | Unit tests of IPC and UUID, make files |

How the parts interact: a service thread calls `Initialize`, obtains the
singleton with `Get()` and registers observers.  The HAL calls the static
callbacks on threads of its own.  A callback takes the instance lock, drops
the event if the singleton is gone, and calls every observer of the role in
registration order while it still holds the lock.  The low-energy client
factory and every client are client observers of the GATT multiplexer; the
Adapter is an observer of the Bluetooth interface and owns the factory.
The command-line client is a process of its own: each of its commands is one
or more synchronous `IBluetooth` calls, which the binder server runs on a
binder thread of the daemon as a method of the Adapter.

## 2. The modules

### GattInterface.tla

Models lines 1-604 of `bluetooth_gatt_interface.cpp`.

State.  `g_interface` is 0 for `nullptr` and the serial number of the
published instance otherwise, so that a pointer obtained from `Get()` (`held`)
can be told from the instance that replaced it.  `g_instance_lock` is the
thread holding the mutex.  `client_observers` and `server_observers` are the
two lists; a slot holds an observer or `Hole`, the null that
`base::ObserverList::RemoveObserver` leaves in place of an observer removed
while the list is being iterated.  `hal_iface_` says whether the instance
holds a HAL handle; `halOpen` and `callbacksInstalled` are the HAL's side
(`init()` succeeded and `cleanup()` not called; `gatt_callbacks` handed
over, which `cleanup()` does not undo).  `lifecycle` records for each
observer object whether it was never registered, is registered, or was
deregistered and destroyed.  `pc`, `ev`, `cursor`, `target` are the position
of a HAL thread inside a callback; `notified` is a history variable: the
observers this callback has called so far.

Actions.  Every operation that holds `g_instance_lock` from its first to its
last statement is one step, enabled when the lock is free:
`Initialize`, `InitializeForTesting`, `CleanUp`, `IsInitialized`, `Get`,
`AddClientObserver`, `RemoveClientObserver`, `AddServerObserver`,
`RemoveServerObserver`.  A HAL callback is several steps of its thread, since
observers run inside it and other threads act meanwhile:

    XxxCallback (lock)  ->  VerifyInterfaceOrReturn  ->  ForEachObserver  <->  observer returns
                                   |                          |
                                   +---- unlock, return <-----+  (past the end: compact, unlock)

The observer call is one of `DefaultObserver` (the no-op defaults of lines
425-551), `ObserverAdds` and `ObserverRemoves` (an observer that uses the
`*Unsafe` methods from inside its callback).  The 15 callbacks differ only in
the event they carry and in the list they walk.

`CHECK`s.  A `CHECK` on the API path (`CHECK(!g_interface)` in `Initialize`,
`CHECK(g_interface)` in `CleanUp` and `Get`, and `CHECK(bt_iface)` in
`BluetoothGattInterfaceImpl::Initialize`, which asks for a
`BluetoothInterface` that must be there) is the caller's obligation and
is a guard.  The `CHECK(g_interface)` of `GetClientObservers` and
`GetServerObservers` is on the HAL path, where no caller can promise
anything: it sets `aborted`, and `WalkOnLiveInstance` says it never fires.

`Initialize` that fails.  `BluetoothGattInterfaceImpl::Initialize` stops
where the profile interface is missing or `init()` is refused
(`InitOutcomes`); the `unique_ptr` then destroys the impl, and `Initialize`
runs `ImplDestroy` on what the impl holds, as `CleanUp` does on the
published instance.  The handle is stored only after `init()` succeeded, so
the destructor of a failed impl finds none and the test at line 308 skips
`cleanup()`.

The callers' contract.  The code does not check that an observer is added
once, that the singleton is torn down only after every observer has
deregistered, or that a pointer from `Get()` is not used after `CleanUp`.
These are assumptions on the environment and they are conjuncts of `AppStep`,
outside the definitions that model the methods.

Order of lock and check.  The design text lists "check the singleton" before
"acquire the lock"; the code locks first (line 62) and checks second (line
64).  The model follows the code; with the other order `WalkOnLiveInstance`
would not hold.

### BluetoothInterface.tla

Models `src/unnamed/part_001` (`service/hal/bluetooth_interface.cpp`).

State.  `g_bluetooth_interface` (0 or the serial number of the instance),
`g_instance_lock`, `observers_`, and `impl`: whether the published instance
is a `BluetoothInterfaceImpl` or a test double.  `hal_iface_` is the handle
of the instance; `halReady` and `callbacksInstalled` are the HAL's side.
`created` counts successful publications (bounded by `MaxInstances`),
`registered` is what the callers have registered, `pc`, `ev`, `cursor` are
the position of a HAL thread inside a callback, `held[t]` is the pointer
`Get()` has returned to a thread that has not yet called through it, and
`crashed` records a failed `CHECK` or a null dereference.

Actions.  `Initialize` is one step with one disjunct per place at which
`BluetoothInterfaceImpl::Initialize` can stop (`InitOutcomes`: library not
loaded, module not opened, `init()` failed, `set_os_callouts` failed,
success); on every failure the `unique_ptr` destroys the impl
(`ImplDestroy`).  `InitializeForTesting`, `CleanUp`, `Get`, `AddObserver`
and `RemoveObserver` are one step each.  `Get()->AddObserver(o)` takes
`g_instance_lock` twice, so it is two steps: `Get` stores the pointer in
`held[t]`, and the method runs on it (`UsesHeld`) once the lock is free
again; HAL callbacks and other service threads run in between.  The
callers promise (`QuiescentCallers`) that `CleanUp` runs only when no
observer is registered and no pointer is held.  `GetEnabled` is the
lock and the `CHECK` of `Get` alone, the guard of calls of the form
`Get()->GetHALInterface()->f()`, which take no lock after it.  The two
static callbacks
(`AdapterStateChangedCallback`, `AdapterPropertiesCallback`) share the path
lock, `VerifyInstance`, `GetObservers`, `ForEachObserver`, `ObserverReturns`,
`Unlock`.

`Runs(t, point)` and `LockFree(t)`.  Every action of a thread is guarded by
"the process has not crashed and the thread is at this point"; an operation
that holds the mutex from its first to its last statement is enabled when
the mutex is free.  `Terminated` is the stuttering step of a crashed process.

### Adapter.tla and AdapterPower.tla

Models lines 605-1046 of `bluetooth_gatt_interface.cpp` (two revisions of
`service/adapter.cpp`), composed with `BluetoothInterface`
(`BT == INSTANCE BluetoothInterface WITH ...`, the Adapter being the only
observer and the property lists of `AdapterPropertiesCallback` the events'
payload).  `revision` is fixed in the initial state: `"later"` is lines
605-885, `"earlier"` lines 886-1046.

State.  `adapter` is the life of the object (`none`, `building` inside the
constructor, `live`, `leaving` inside the destructor, `gone`);
`state_`, `address_`, `name_`, `max_adv_instance` are its fields;
`observers_` and `observers_lock_` its observer list and the mutex around
it.  `at[t]` is the statement a thread has reached inside `Enable`,
`Disable` or the state callback, and `current_state[t]` the local it carries
(`current_state` of `Disable`, `prev_state` of the callback) and
`new_state[t]` the second argument of the notification it is making
(back at its initial value once the call has returned or was skipped: the
argument does not outlive the call).
`heard` is a history variable: the `new_state` of the last
`OnAdapterStateChanged`, `OFF` for an Adapter that has told nothing yet.
The HAL is the environment: `halPower` is the radio (`off`, `turning_on`, `on`,
`turning_off`) and `halQueue` the events it owes the service, in order.

Steps.  `state_` is a `std::atomic`, so each load and each store is a step
of its own and other threads run in between:

    Adapter:  initialisers, Get() (649-654) -> AddObserver (654) -> factories, get_adapter_properties() (655-658)
    ~Adapter: Get() (662) -> RemoveObserver (662)
    Enable:   load+test (684) -> store TURNING_ON (693) -> notify -> enable() (696) [-> store OFF (700) -> notify]
    Disable:  test (709) -> load (714) -> store TURNING_OFF (718) -> notify -> disable() (721) [-> store back (725) -> notify]
    callback: (BT walk reaches the Adapter) -> load (784) -> store (786-797) -> notify -> return to the walk

`notify` is three steps.  `NotifyOrSkip` evaluates the arguments: the
`new_state` passed is not the value the thread has just stored but `state_`
read again (`NotifyAdapterStateChanged(current_state, state_)`,
`NotifyAdapterStateChanged(prev_state, GetState())`), so a store of another
thread may lie in between; with equal states the call returns at once.
`NotifyAdapterStateChanged` acquires `observers_lock_`, and `NotifyReturns`
calls the observers, releases the mutex and returns.  `GetState`,
`IsEnabled`, `GetName` and `GetAddress` are state functions.

The earlier revision has the same loads, stores and HAL calls with nothing
in between (`EarlierEnableStore`, `EarlierEnableCall`, `EarlierDisableStore`,
`EarlierDisableCall`), a state callback that is the switch alone
(`EarlierStateChangedCallback`), a property callback with no body and no
observer list.  Its constructor (`EarlierAdapterCreate`) initialises `state_`
alone; both constructors share `Constructs`, the first `Get()`.  The rest
of constructor and destructor, the heads of `Enable` and `Disable`,
`SetName` and `SetAdapterProperty` are the statements of the later revision
(lines 911-917, 927-933, 952-958, 977-998, 1026-1044): `EarlierAddsItself`,
`EarlierGetAdapterProperties`, `EarlierAdapterDestroy`,
`EarlierRemovesItself`, `EarlierEnable`, `EarlierDisable`,
`EarlierDisableLoad`, `EarlierSetName` and `EarlierSetAdapterProperty` are
defined by the later revision's actions and taken only while
`revision = "earlier"`.

Constructor and destructor.  `Get()->AddObserver(this)` and
`Get()->RemoveObserver(this)` are the two steps of `BluetoothInterface`
(`BT!Get`, then `BT!AddObserver` or `BT!RemoveObserver`); the thread is at
`ctor_add` or `dtor_remove` in between, and a HAL callback may start on the
object while its destructor waits for `g_instance_lock`.  The three
factories the later constructor builds (655-657) share no state with the
Adapter: the `LowEnergyClientFactory` registers with the GATT multiplexer,
which `LowEnergyDispatch` models, and the code of the two GATT factories is
not among the sources.  They are part of the step that ends the constructor.
The call into the HAL and the store of its failure path are one step, since
nothing of this model can tell them apart: the state callback cannot run in
between on the thread that is inside `enable()`, and on another thread it
needs `g_instance_lock`, which the model lets it take after the step.

The HAL.  `enable()` and `disable()` succeed only from `off` and `on`
respectively and may also fail there; a success makes the HAL owe one
`AdapterStateChanged` event.  The fault model has two failures.  A request
is refused at once (the call returns a status other than
`BT_STATUS_SUCCESS`), or `enable()` is taken and the stack does not come up:
the event the HAL owes is then `BT_STATE_OFF` (`EnableAcks`), which the
switch of the callback stores like any other state.  A `disable()` the HAL
took ends with the radio off (`DisableAcks`).  An event is never lost: the
code has no timeout for a request whose answer does not arrive, and
`PowerRequestCompletes` is stated for a HAL that answers.  Events are
delivered in order, one HAL thread
at a time taking the head of the queue.  The constructor's
`get_adapter_properties` makes the HAL owe one property event: a status and
a list of up to `MaxProperties` properties (`AdapterProperties`), each an
address, a name, LE features of the right or of a wrong length, or a type
the Adapter has no case for.  `AdapterPropertiesCallback` returns at once on
a failed status and otherwise goes through the list; of several properties
of one type the last is the one that stays.  `SetName` is a single step: a
name that is too long is refused, otherwise `SetAdapterProperty` either
fails or makes the HAL owe the property event that confirms the name (its
two `CHECK`s hold for this one caller).  `MaxQueued` bounds what the HAL
may owe.

The callers' contract.  `Enable` and `Disable` are called by the threads in
`PowerThreads`; the Adapter is created after `BluetoothInterface::Initialize`
and the interface is cleaned up only once no Adapter is registered.  With one
power thread the model is the single-client use the code was written for;
`MCAdapterRace.cfg` lifts that.

`AdapterPower` is what `GetState()` promises a caller, in one variable: the
state is `OFF` at first; a request takes `OFF` to `TURNING_ON` and `ON` to
`TURNING_OFF` (`Requested`); a transitional state ends in the state the
request was after (`Settles`) or in the one it came from (`Fails`).
`Adapter` instantiates it with `state <- state_`.  The constructor, a store
that writes the value already there, and every step that does not store are
stuttering steps of `AdapterPower`.

### BluetoothCli.tla

Extends `Adapter` with the command-line client (`controller.h` 75-281) and
the binder server (`bluetooth_binder_server.cpp`).  The clients are the
threads of `PowerThreads`: a client's binder calls run on one binder thread
of the daemon, since the client waits for each call.

| Variable | Code |
|---|---|
| `bt_iface[c]` | the handle of `main`: not asked for yet, held, or refused (`main` has returned `EXIT_FAILURE`) |
| `todo[c]` | the `IBluetooth` calls the running handler has still to make; empty at the prompt |
| `args[c]` | `args` of the handler: the words after the command, a local of one turn of the loop (empty once the handler has returned) |
| `shown[c]` | what the handler has printed: an error, or one value per call |

`GetClientInterface` is the start of `main`: the client gets its handle
when the daemon serves `IBluetooth`, which the model takes to be while the
Adapter is `live`, and exits otherwise.  `ReadLine` is one turn of the loop
of `main` up to the handler's first call:
an empty line is skipped, a command that is not in `kCommandMap` gives
"Unrecognized command", `CHECK_NO_ARGS` and `CHECK_ARGS_COUNT` (`CheckArgs`)
end the handler before it calls anything.  `kCommandMap` gives each command
the calls of its handler; `adapter-info` makes three.  `RemoteRead` is a
getter of the binder server, answered from the Adapter in one step
(`Answer`).  `RemoteCall` and `RemoteStep` are `Enable`, `Disable` and
`SetName`: the steps of the Adapter's method on the binder thread, any
other thread running in between.  The step in which the method returns
gives the client its value (`Forwarded`): true exactly when the HAL took
the request (`HalTook`).  `Shows` is what the handler prints of a value:
`PrintCommandStatus` for a bool result, `PrintFieldAndBoolValue` for
`IsEnabled`, the state name for `GetState`, the string as it is otherwise.

Abstractions.  Colours, labels and the help text are left out.  A line of
`Lines` has at most one word after the command, so the name
`HandleSetLocalName` joins and trims is that word.  A client acts only while
the Adapter exists: who creates the binder server and when is not among the
sources.  The other service thread of the configuration is the daemon's own
and does `Lifecycle` only.  The revision is the later one, the only one that
has the `GetName` and `GetAddress` the server calls.

### LowEnergyClient.tla and AdvertisingSession.tla

Source basis.  `low_energy_client.h` and the unit test of the two classes
(`src/unnamed/part_003`) are among the sources; the method bodies are not.
The state of the module is the data members of the header; each operation
does what the unit test observes of it, and `PROJECT.json` maps it to the
lines of the test that fix its behaviour.  Where the test is silent (an
acknowledgement that arrives for a destroyed client) the definition is marked
`spec_modelled`.  The test was written against a slightly later header
(`GetClientId()` for `client_if()`); nothing modelled depends on the
difference.

| Variable | Code |
|---|---|
| `factory` | the `LowEnergyClientFactory`: not yet constructed, live, destroyed |
| `pending_calls_` | the keys of `pending_calls_` (header line 166) |
| `life[c]` | the `LowEnergyClient` with `client_if_ = c`: not created, live, destroyed |
| `le[c]` | `adv_started_`, `adv_start_callback_`, `adv_stop_callback_` (set or null), `adv_data_needs_update_`, `scan_rsp_needs_update_`, `is_setting_adv_data_` |
| `owed` | the acknowledgements the HAL owes for calls it accepted |
| `accepted`, `fired`, `ret` | history: calls accepted per caller, the statuses given to its completions, the outcome of the last API call |

Every API method and every handler is one step: it runs under the lock of
its object (`pending_calls_lock_`, `adv_fields_lock_`).  An API call ends in
one of three ways: `Rejected` before the HAL is asked (duplicate UUID, wrong
state, invalid payload), `Refused` by the HAL, or `Accepted`, which stores
the callback and makes the HAL owe an acknowledgement.  The start of
advertising is a chain:

    StartAdvertising -> multi_adv_enable ... MultiAdvEnableCallback
      -> SetAdvertiseData(adv)  ... MultiAdvDataCallback
      -> SetAdvertiseData(rsp)  ... MultiAdvDataCallback   (non-empty response only)
      -> adv_started_ = true, start callback(SUCCESS)

A failure status, or a refusal of the next HAL call from inside a handler,
ends the chain through `InvokeAndClearStartCallback(FAILURE)`.
`GetBLEStatus` is the conversion of the HAL's `bt_status_t` to the
`BLEStatus` a completion receives.  The destructor of a client resets it and
issues `multi_adv_disable`, whose acknowledgement nobody awaits.

The HAL (`Deliver`) answers each accepted call once, with either status, in
any order across clients; an acknowledgement whose receiver has been
destroyed finds no observer and is dropped.  Assumptions on the HAL, which
is not among the sources: a successful registration carries a `client_if`
never used before, and the MultiAdv callbacks arrive only as answers to
calls of this process.  A `RegisterClientCallback` may arrive for a UUID
with no registration pending (another user of the HAL, or an answer that
comes twice; lines 219-223 of the test): `UnknownUuidCallback` is that
event, and it changes nothing.  The payloads are
abstracted to what the client distinguishes: valid or invalid, empty or not.

`AdvertisingSession` is what the client promises its owner: a session per
handle that is Idle, Starting, Started or Stopping; `Start` leaves Idle,
`Stop` leaves Started, and each is answered by one completion after which
the session is in the new state on success and the old one on failure; the
owner may destroy the handle in any state.  `LowEnergyClient` instantiates
it with `session[c] = SessionOf(c)`, the state read through
`IsAdvertisingStarted`, `IsStartingAdvertising` and `IsStoppingAdvertising`,
and `completions[c] = fired[c]`; steps of the chain that send a payload,
refused and rejected calls, registrations and dropped acknowledgements are
stuttering steps of the session.

### LowEnergyDispatch.tla

The two classes of `LowEnergyClient` as what they are to the GATT
multiplexer: client observers.  The module instantiates `GattInterface`
(with the factory and the client_ifs as its client observers and no server
observer) and `LowEnergyClient`, and every action is a conjunction of an
action of each.

| Action | Code | `GattInterface` part | `LowEnergyClient` part |
|---|---|---|---|
| `Multiplexer` | `Initialize`, `Get`, `CleanUp` (554-591) | the action itself | unchanged |
| `FactoryCreate` | constructor of the factory (header 145) | `AddClientObserver` | `FactoryCreate` |
| `FactoryDestroy`, `ClientDestroy` | the destructors (header 146, 38-40) | `RemoveClientObserver` | `FactoryDestroy`, `ClientDestroy` |
| `ApiCall` | `RegisterClient`, `StartAdvertising`, `StopAdvertising` | the pointer of `Get()` is used (`AsksHal`) | the call |
| `Notify` | a static callback is entered (61-105) | `Callback` | unchanged; `arg[t]` is the acknowledgement |
| `Passes` | `VERIFY_INTERFACE_OR_RETURN`, `FOR_EACH_CLIENT_OBSERVER` | `VerifyInterfaceOrReturn`, `ForEachObserver` | unchanged, or `Lost` when the callback returns with the event untaken |
| `FactoryHandles` | `RegisterClientCallback` of the factory (header 158-162) | `ObserverAdds` of the new client on success | `RegisterClientCallback` |
| `ClientHandles` | the three `MultiAdv` overrides (header 82-92) | the call returns | the handler |
| `Ignores` | the default implementations (421-455), an override whose test fails | the call returns | unchanged |

`arg[t]` is the acknowledgement the callback on HAL thread `t` carries: set
when the static callback is entered, cleared by the observer that takes it
or when the callback returns.  The HAL calls back once for each call it
accepted (`Notify` takes an acknowledgement of `owed` that no other thread
carries).  `Awaited(o, e)` is the test at the top of each override: the
factory has the UUID pending, the client has the client_if of the event and
a callback stored for it.

An API method is one step, as in `LowEnergyClient`, and uses a pointer that
`Get()` returned in an earlier step.  One thread owns the factory and the
handles (`OneOwner` in `MCLowEnergyDispatch`); it calls `Get()` only when it
has an object to use the pointer for (`HasUse`), and `CleanUp` runs only
when no pointer is held and no observer registered, which `GattInterface`
states as the promise of the callers.

### Gki.tla

`gki_ulinux.c`.  `lock` is `gki_cb.lock` with its type, owner and count;
`init` gives it the recursive type and creates the buffer pools, `clean_up`
frees them and destroys the mutex, which is no mutex again until the next
`init`.  What `pthread_mutex_lock` and `pthread_mutex_unlock` do with a
mutex of each type (`Grants`, `Locked`, `Unlocked`) is the library's
definition, not code of this file.  `GKI_disable` is two steps (the call, and the return of
`pthread_mutex_lock` once the mutex is granted), `GKI_enable` one.
`depth[t]` counts the sections thread `t` has open.  A `GKI_enable` by a
thread with no section open is refused by the mutex and changes nothing
(`StrayEnable`).  The module manager's order is assumed, it is not in this
file: threads call only between `init` and `clean_up`, and both run when no
thread is inside or waiting (`Quiet`); the stack may be brought up again after `clean_up`.

## 3. The runs

| Run | Module, cfg | Result | What it shows |
|---|---|---|---|
| `gatt_safety` | `MCGattInterface`, `MCGattInterface.cfg` | pass | The six invariants below, over two HAL threads, two service threads, two client observers, one server observer and two instances |
| `gatt_liveness` | `MCGattInterface`, `MCGattInterfaceLive.cfg` | pass | `CallbackReturns` under `FairSpec` |
| `gatt_reentrant` | `MCGattInterface`, `MCGattInterfaceReentrant.cfg` | violation | `NoSelfDeadlock` fails: see Findings |
| `bt_safety` | `MCBluetoothInterface`, `MCBluetoothInterface.cfg` | pass | Three invariants over two HAL threads, two service threads, two observers, two instances, with the failure stages of `Initialize` that return |
| `bt_init_failure` | `MCBluetoothInterface`, `MCBluetoothInterfaceInit.cfg` | violation | `FailedInitializeReturns` fails: see Findings |
| `adapter_safety` | `MCAdapter`, `MCAdapter.cfg` | pass | Five invariants and the refinement of `AdapterPower` over both revisions, two HAL threads, two service threads of which one calls `Enable`/`Disable`, one Adapter observer, and a HAL that refuses a request or reports `BT_STATE_OFF` for an `enable()` it took |
| `adapter_liveness` | `MCBluetoothCli`, `MCBluetoothCli.cfg` | pass | `CommandCompletes` and `PowerRequestCompletes` under `CliFairSpec`, with a client typing any line of `Lines` |
| `adapter_race` | `MCAdapter`, `MCAdapterRace.cfg` | violation | `StateTracksHal` fails once two threads may call `Enable`: see Findings |
| `gki_safety` | `MCGki`, `MCGki.cfg` | pass | Three invariants over four threads nesting sections three deep |
| `le_safety` | `MCLowEnergyClient`, `MCLowEnergyClient.cfg` | pass | Three invariants and the refinement of `AdvertisingSession`, over two UUIDs, two clients, three payloads and a HAL that refuses, accepts and acknowledges with either status |
| `le_liveness` | `MCLowEnergyDispatch`, `MCLowEnergyDispatch.cfg` | pass | The factory and a client behind the multiplexer: `ObserversAreAlive`, the refinement `DispatchImplementsDelivery` and `AcceptedCallCompletes` under `FairSpec`, over two HAL threads and one owner |
| `le_stop_ack` | `MCLowEnergyClient`, `MCLowEnergyClientStop.cfg` | violation | `StopAlwaysEndsAdvertising` fails: see Findings |

Properties of `gatt_safety`:

* `TypeOK`: the type invariant; it also says that the walk never calls
  through a nulled slot.
* `NotifiedOnlyWhileRegistered`: at the moment an observer is called it is
  registered and in the list; no removal on another thread slips between the
  fetch of the pointer and the call.
* `WalkOnLiveInstance`: a walk always runs on a live instance with the lock
  held, and no `CHECK` on the HAL path fails; an event that arrives after
  `CleanUp` is dropped.
* `InOrderExactlyOnce`: the observers called so far are, among those still
  registered, exactly the ones in the slots the walk has passed, in list
  order and without repetition, whatever is added or removed during the walk.
* `HandleFollowsInstance`: the HAL handle is open exactly when the instance
  holds it, only while an instance is published, and the lists are empty when
  none is.
* `ListsMatchLifecycle`: each list holds exactly the registered observers of
  its role, each once, and holds no nulled slot once no walk is in progress.

Properties of `bt_safety`:

* `BtTypeOK`: the type invariant; the cursor of a walk stays inside the list.
* `DispatchIsSafe`: a callback past `VerifyInstance` is on a live instance
  and holds the mutex, and the observer it is calling is still registered.
* `HalFollowsInstance`: the HAL is initialised exactly while a published
  `BluetoothInterfaceImpl` holds its handle: `init()` and `cleanup()` stay
  paired over every failure stage of `Initialize`; the list holds exactly
  the registered observers.

Properties of `adapter_safety` and `adapter_liveness`:

* `TypeOK`: the type invariant of the composition.
* `StateTracksHal`: whenever no request, callback or event is in progress,
  `state_` is the state of the radio.  It fails if a store is made in the
  wrong order relative to the HAL call or its callback, or if a failure path
  restores the wrong state.
* `SettledStateIsTrue`: at every moment, also in the middle of a method, a
  `state_` of `ON` means the radio is on and `OFF` that it is off.  This is
  what the comment at lines 691 and 716 is about; an `Enable` that stores
  after it has called `enable()` breaks it.
* `ObserversKnowSettledState`: once the radio has settled and no thread is
  inside the Adapter, the last `new_state` the observers were told is
  `state_`.  It holds although notifications overtake each other (see
  Findings, "Observations"), and fails if a failure path passes a
  `prev_state` that makes `NotifyAdapterStateChanged` return early.
* `HandlerOnLiveAdapter`: a HAL thread inside a handler of the Adapter, or
  holding `observers_lock_`, is on an Adapter that has not been destroyed.
  The destructor may have begun: between its `Get()` and its
  `RemoveObserver` a callback may start on the object, and the destructor
  then waits for `g_instance_lock` until the walk has left it.
* `ImplementsAdapterPower`: every behaviour of the Adapter is a behaviour of
  `AdapterPower` under `state <- state_`: no store takes `state_` from `OFF`
  to `ON` or `TURNING_OFF`, from `ON` to `OFF` or `TURNING_ON`, or from one
  transitional state to the other, although `Enable` and `Disable` test
  the state some steps before they store and the callback stores whatever
  the HAL reports.  It holds with one caller of `Enable` and `Disable`; a
  `Disable` that does not test `IsEnabled()` breaks it.
* `CliTypeOK`: the type invariant of client and service; everything printed
  is one of the texts the handlers can print, and a handler prints at most
  one value per call.
* `PowerRequestCompletes`: a transitional `state_` leads to `ON` or `OFF` (or
  to the destruction of the Adapter).
* `CommandCompletes`: a handler that has calls to make comes back to the
  prompt (or the Adapter is destroyed): every binder call returns, whatever
  the HAL thread holds meanwhile.

Properties of `gki_safety`:

* `GkiTypeOK`: the type invariant.
* `SectionsExclude`: a thread with a section open owns the mutex, and the
  mutex has counted exactly the sections that thread has open; so the
  sections of two threads never overlap, however they nest.
* `NestedDisableReturns`: a `GKI_disable` called inside a section is
  granted.

Properties of `le_safety` and `le_liveness`:

* `TypeOK`: the type invariant; completions receive a `BLEStatus`, never the
  HAL's status.
* `OneCompletionPerAcceptedCall`: for a live caller, the calls accepted are
  the completions invoked plus the callbacks still stored.
* `OwedIsAwaited`: the acknowledgements owed to a live client are exactly the
  one its flags wait for, and the factory stores a callback exactly for the
  registrations the HAL still owes.
* `ImplementsSession`: every behaviour of the client is a behaviour of
  `AdvertisingSession` under the mapping above.
* `AcceptedCallCompletes`: a stored callback is eventually invoked, unless
  its owner is destroyed first.  It is checked on `LowEnergyDispatch`, where
  the acknowledgement has to get `g_instance_lock` and pass the other
  observers first.
* `ObserversAreAlive` (`LowEnergyDispatch`): every entry of
  `client_observers_`, and the observer a walk has fetched and is about to
  call, is a factory or client whose destructor has not run.  It relates the
  list of one class to the lifetime of another, across the steps of a walk
  and a destructor on different threads.
* `DispatchImplementsDelivery` (`LowEnergyDispatch`): every behaviour of the
  composition is a behaviour of `LowEnergyClient`: the steps of a callback
  up to the override that takes the event are stuttering steps, the
  override is the delivery, and a callback that returns with the event
  untaken is a `Dropped` of `LowEnergyClient`, possible only when the object
  is gone.  `le_safety` therefore speaks of the code behind the
  multiplexer too.

The type invariants of the two modules `LowEnergyDispatch` composes are
checked where the modules are (`gatt_safety`, `le_safety`); `le_liveness`
does not repeat them.

Bounds.  Two HAL threads are needed for a callback to wait for another; two
service threads for an API call to race both a callback and another API
call.  Two client observers give a walk a slot before and a slot after the
one being removed; the single server observer keeps the server role covered.
`MaxInstances = 2` lets the singleton be torn down and published again, so
that events and pointers of the first instance meet the second.  The
liveness runs use one service thread and one instance to keep the behaviour
graph small; the paths they argue about are the same.  In the Adapter runs
`MaxQueued` bounds the events the HAL may owe (2: a state change with a
property event before or behind it), `Names` holds one name that fits and one
that is too long, `AdvInstanceCounts = {4, 5}` straddles
`kMinAdvInstancesForMultiAdv`, `MaxProperties = 2` lets one event carry
two properties of one type or of two, and `MaxInstances = 1`, the
singleton's own life being the subject of `bt_safety`.  `adapter_liveness` has one client
with its binder thread, one daemon thread, one HAL thread, `MaxQueued =
1` and `MaxProperties = 1`; the client may type every command of `kCommandMap`, an unknown one and
an empty line, each with or without a name behind it.  In the low-energy client runs
`MaxCalls = 2` bounds the calls accepted per UUID and per client: two let a
start fail and be tried again, or a start be followed by a stop, and let one
UUID register again after its first answer.  Two clients let the
acknowledgements of one interleave with the calls and the destruction of the
other.  `Payloads` holds an empty, a non-empty and an invalid value, which
is every case the client tells apart.  `le_liveness` has one UUID, one
client_if, one owner thread and two HAL threads: a registration, the chain
of a start, a stop and both destructors happen with a second callback
waiting for `g_instance_lock` or walking behind the first (90 thousand
states).  With a second client_if and a single HAL thread the composition
has 446 thousand states and takes four minutes; what it would add, one
client's events passing another client, is what `Ignores` does with the
factory's events at the client and the client's at the factory.
In `gki_safety`, `MaxDepth = 3` gives an inner `GKI_enable` that neither
enters nor leaves the outermost section, and four threads give waiters
beside the owner.

Fairness.  `GattInterface!FairSpec` assumes weak fairness of `WalkStep(t)`
for each HAL thread: a thread that is inside a callback is running
straight-line code that holds the only lock of the file and waits for
nothing, so the scheduler runs it.  Nothing is assumed of the arrival of
events or of the service threads.  `BluetoothCli!CliFairSpec` assumes weak
fairness of `Hal(t)` for each HAL thread (the HAL delivers the events it
owes; a callback that can run does) and of `Served(c)` for each client (a
binder call that was made is run, and a thread inside a method goes on to
its next statement).  Weak fairness is enough in the configuration checked,
where the competitors for a mutex are one binder thread, one HAL thread and
a daemon thread that takes `g_instance_lock` only to bring the service up
or down; each releases what it holds without waiting.  With a second thread
that calls `SetName` in a loop, a waiter for `g_instance_lock` can be
passed over for ever: a `std::mutex` gives no guarantee against starvation,
and the properties are not claimed there.  Nothing is assumed of what the
user types, nor of the daemon thread.
`LowEnergyDispatch!FairSpec` assumes weak fairness of `Notify(t, e)` for
each HAL thread and acknowledgement (the HAL answers what it accepted) and
of `Walk(t)` (a thread inside a callback runs on, as in `GattInterface`).
The client has no timeout, so without the first nothing completes; with
both, no choice of statuses by the HAL and no calls of the owner keep a
callback stored for ever.  Weak fairness is enough here: the owner holds
`g_instance_lock` for the length of one statement, which is one step, so
only a walk of the other HAL thread keeps a callback waiting across steps,
and a walk ends.  Nothing is assumed of the owner.

Symmetry.  The safety runs of `GattInterface` and `BluetoothInterface` treat
threads and observers of one kind as interchangeable (no definition names a
particular one), and those of `LowEnergyClient` treat UUIDs and client_ifs
so.  The Adapter runs and the liveness runs use no symmetry.

Deadlock.  Every run checks for deadlock.  A process that has aborted
stutters (`Terminated`); otherwise some thread can always act.  In
`LowEnergyClient` the service has shut down once the factory and every
client are destroyed and nothing is owed; that state stutters too, and so
does `LowEnergyDispatch` once the multiplexer has been cleaned up for good
(`Done`).  `Gki`
never stops: the stack can always be brought up again.

## 4. Findings

* `gatt_reentrant` (`NoSelfDeadlock`, `bluetooth_gatt_interface.cpp:62`).
  The design says that a completion runs outside the registry lock and may
  call back into the multiplexer.  In the code every observer, and whatever
  it calls, runs with `g_instance_lock` held by its own thread, and the mutex
  is not recursive: an observer that calls `Get()`, `IsInitialized()` or a
  locked Add/Remove method waits for itself.  The `*Unsafe` methods exist for
  this reason, but they need the pointer the callback was given.
* `bt_init_failure` (`FailedInitializeReturns`, `part_001:152`).
  `~BluetoothInterfaceImpl` calls `hal_iface_->cleanup()` without testing the
  pointer.  When `Initialize` fails before the handle is obtained (library
  not loaded, module not opened), the impl is destroyed on the way to
  `return false` and the null pointer is dereferenced.  The GATT impl guards
  the same call (`bluetooth_gatt_interface.cpp:308`).  `bt_safety` leaves
  these two stages to this run and covers the others.
* `adapter_race` (`StateTracksHal`, `bluetooth_gatt_interface.cpp:684`).
  `Enable` tests `state_` and stores `TURNING_ON` in separate atomic
  operations and stores `OFF` when the HAL refuses.  Two callers both read
  `OFF`; the HAL takes one request and refuses the other, whose failure path
  stores `OFF` while the radio is turning on.  The comment at line 691
  orders the store against the HAL callback only.  The binder server forwards
  `Enable` from whichever binder thread receives it.

* `le_stop_ack` (`StopAlwaysEndsAdvertising`, `part_003:434`).  The state
  table of the design sends a Stopping session to Idle on the disable
  acknowledgement "of either status".  The unit test expects
  `IsAdvertisingStarted()` to be true after a failed acknowledgement, and
  calls `StopAdvertising` again with success: a failed stop leaves the
  session Started.  `AdvertisingSession` follows the code.

Observations that no run is spent on.

Notifications overtake each other, with a single caller of `Enable` and
`Disable`.  The state callback stores `ON` and is about to notify; `Disable`
on a binder thread stores `TURNING_OFF` and tells `(ON, TURNING_OFF)`; the
callback then tells `(TURNING_ON, ON)`.  An observer that keeps the last
`new_state` believes the adapter is on while `state_` is `TURNING_OFF` and
the radio is going down, until the next state event.  If the callback
evaluates its arguments after the store of `Disable`, it tells
`(TURNING_ON, TURNING_OFF)`, a transition that nothing made.  Nothing among
the sources promises observers more; `ObserversKnowSettledState` is what
does hold.

A disagreement inside the design: its failure
semantics say that a call the HAL rejects synchronously "still fires the
callback exactly once", its error taxonomy that no completion fires for a
rejected attempt.  The unit test (`part_003:282-287`, `411-415`, `199-200`)
and the model follow the taxonomy: `Refused` invokes nothing.

## 5. Not modelled, and why

* `GetClientHALInterface`, `GetServerHALInterface`, `GetHALInterface`, the
  factory getters of the Adapter: read-only accessors.
* `CHECK(app_uuid)` in the two Register callbacks: a property of the HAL's
  arguments, not of this code's state.
* Logging, and the layout of what the command-line client prints.
* An observer of the Adapter that calls back into the Adapter or into
  `BluetoothInterface` from `OnAdapterStateChanged`: it would wait for
  `observers_lock_` or `g_instance_lock`, which its own thread holds (the
  self-deadlock `gatt_reentrant` shows for the GATT multiplexer).  The only
  observer among the sources is the default one, which calls nothing.
* More than one client of the binder server in the liveness run (see
  Fairness); `adapter_race` has two callers of `Enable`.
* `GetObservers` of `part_001` casts `g_bluetooth_interface` to
  `BluetoothInterfaceImpl` whatever was published; with a test double
  published and a HAL event arriving the cast is wrong.  The model walks
  the one list whichever kind of instance is published, that is, it takes the
  cast to yield the list of the instance.
* In the low-energy client: the bodies of the methods as written (they are
  not among the sources), the fields of `AdvertiseSettings` and the bytes of
  `AdvertiseData`, the update of advertise data while advertising (the
  header has no method for it), and a HAL that reuses a `client_if`.
* The order in which an API method of the low-energy classes takes its own
  lock (`pending_calls_lock_`, `adv_fields_lock_`) and calls `Get()`.  The
  HAL thread takes `g_instance_lock` first and the object's lock inside the
  override; an API method that called `Get()` with its lock held would take
  them in the other order.  The order is in `low_energy_client.cpp`;
  `LowEnergyDispatch` takes an API method as one step and claims nothing
  about it.
* A completion that calls back into the client or the multiplexer from
  inside the walk: `gatt_reentrant` shows what the multiplexer does with
  it; the completions of the composition call nothing.
* Parcel helpers: declarations of marshalling functions whose definitions
  are not among the sources.  The transport between client and binder
  server: a call is made and answered, never lost.
* The table of function pointers in `controller.h` (lines 1-74), the make
  files and the unit tests hold no behaviour of the service; the low-energy
  client test is the source of the client model.
* `bluetooth::UUID` and `ipc::IPCManager` with its UNIX-socket handler:
  `part_002` and `ipc_unix_unittest.cpp` are their unit tests, the classes
  themselves are not among the sources.  The IPC test fixes the order the
  daemon brings the service up and down in (`InitializeForTesting`, the
  Adapter, the IPC manager, and back), which is the callers' contract of
  `Lifecycle`.
* A HAL that takes a request and never answers.  Nothing in `Enable`,
  `Disable` or the low-energy client times out, so such a request stays in
  its transitional state for good; the liveness properties assume the HAL
  delivers what it owes (see Fairness).
* A `disable()` that is taken and answered with `BT_STATE_ON`.  The switch
  of the callback would store `ON`; whether the stack can answer so is a
  matter of the HAL, which is not among the sources.

What is left of the repository's sources beyond this list is modelled: the
remaining lines are includes, licence headers, logging, read-only accessors
and the declarations named above.

## 6. Plan

1. `GattInterface`: done.
2. `BluetoothInterface` and `Adapter`: done.
3. `LowEnergyClient` and `AdvertisingSession`: done.
4. `Gki`: done.
5. Composition of the low-energy client and its factory with
   `GattInterface` (`LowEnergyDispatch`): done.  Open: two client_ifs in
   the composition, within the time a run may take.
6. The earlier revision of the Adapter, the binder server and the
   command-line client: done.
7. The power state machine as an abstract specification (`AdapterPower`)
   and the Adapter's refinement of it: done.
8. A HAL that hands out a `client_if` again after `unregister_client`: the
   handlers' treatment of an acknowledgement they do not expect is in
   `low_energy_client.cpp`, which is not among the sources.
9. An observer of the Adapter that reads `GetState()` inside
   `OnAdapterStateChanged`, to state what it can rely on: open; the only
   observer among the sources is the default one, which reads nothing.
10. A HAL that takes `enable()` and reports `BT_STATE_OFF`, and the earlier
    revision's constructor, destructor, `SetName` and heads of `Enable` and
    `Disable` as actions of their own: done.
