------------------------------- MODULE Adapter -------------------------------
(***************************************************************************)
(* The Adapter of service/adapter.cpp on top of BluetoothInterface.        *)
(* Enable and Disable run on service threads: they test the atomic state_, *)
(* store the transitional state, notify the observers and then ask the     *)
(* HAL.  The HAL answers on its own thread through BluetoothInterface,     *)
(* which calls the Adapter with g_instance_lock held.  Every load and      *)
(* store of state_ and every lock acquisition is a step of its own.        *)
(*                                                                         *)
(* The repository holds two revisions of adapter.cpp.  The earlier one has *)
(* no observers and keeps no properties: it stores and asks the HAL with   *)
(* nothing in between.  Which one is built is fixed when the system starts.*)
(*                                                                         *)
(* The HAL is the environment: it takes enable() only when the radio is    *)
(* off and disable() only when it is on, may refuse either, reports each   *)
(* request it took with one state event and each property it was asked for *)
(* or given with one property event, in the order they arose.              *)
(***************************************************************************)
EXTENDS Naturals, Sequences, FiniteSets, SequencesExt

CONSTANTS
    HalThreads, AppThreads, \* threads of the HAL and of the service
    PowerThreads,           \* the service threads that call Enable and Disable
    TheAdapter,             \* the Adapter, as observer of BluetoothInterface
    AdapterObservers,       \* objects implementing Adapter::Observer
    Names, LongNames,       \* adapter names; those that do not fit bt_bdname_t
    Addresses,              \* adapter addresses the HAL may report
    AdvInstanceCounts,      \* values of max_adv_instance the HAL may report
    MaxInstances,           \* bound on the BluetoothInterface instances
    MaxQueued,              \* bound on the property events the HAL owes
    MaxProperties,          \* bound on num_properties of a property event
    Revisions,              \* the revisions of adapter.cpp that may be built
    NoThread                \* "the mutex is free"

ASSUME AdapterConstantsOK ==
    /\ PowerThreads \subseteq AppThreads /\ LongNames \subseteq Names
    /\ AdvInstanceCounts \subseteq 0..255 /\ MaxQueued \in Nat
    /\ MaxProperties \in Nat \ {0}
    /\ Revisions # {} /\ Revisions \subseteq {"earlier", "later"}

VARIABLES
    g_bluetooth_interface, g_instance_lock, bt_observers, impl, hal_iface_,
    halReady, callbacksInstalled, created, registered, pc, ev, cursor,
    held, crashed,          \* the variables of BluetoothInterface
    revision,               \* the revision of adapter.cpp that is built
    adapter,                \* the life of the object: "none", "building"
                            \* (inside its constructor), "live", "leaving"
                            \* (inside its destructor) or "gone"
    state_,                 \* std::atomic<AdapterState>
    address_, name_, max_adv_instance,  \* what the HAL reported last
    observers_, observers_lock_,        \* the Adapter's observers, their mutex
    at,                     \* per thread: where it is inside an Adapter method
    current_state,          \* per thread: the local current_state (prev_state)
    new_state,              \* per thread: the new_state it passes to observers
    heard,                  \* the new_state of the last OnAdapterStateChanged
    halPower,               \* the radio: "off", "turning_on", "on", "turning_off"
    halQueue                \* events the HAL has still to deliver, oldest first

Threads  == HalThreads \cup AppThreads
Statuses == {"BT_STATUS_SUCCESS", "BT_STATUS_FAIL"}
kDefaultAddress == "00:00:00:00:00:00"
kDefaultName    == "not-initialized"
kMinAdvInstancesForMultiAdv == 5

\* A bt_property_t, as far as AdapterPropertiesCallback looks: len_ok is
\* property->len == sizeof(bt_local_le_features_t), and BT_PROPERTY_UUIDS
\* stands for the types it has no case for.
Property ==
    [type : {"BT_PROPERTY_BDADDR"}, val : Addresses, len_ok : {TRUE}]
    \cup [type : {"BT_PROPERTY_BDNAME"}, val : Names \ LongNames,
          len_ok : {TRUE}]
    \cup [type : {"BT_PROPERTY_LOCAL_LE_FEATURES"}, val : AdvInstanceCounts,
          len_ok : BOOLEAN]
    \cup [type : {"BT_PROPERTY_UUIDS"}, val : {<<>>}, len_ok : {TRUE}]

\* What a property event carries: status and properties[0..num_properties).
AdapterProperties ==
    [status : Statuses, properties : SeqOf(Property, MaxProperties)]

BT == INSTANCE BluetoothInterface
          WITH observers_ <- bt_observers, Observers <- {TheAdapter},
               Properties <- AdapterProperties

btList  == <<bt_observers, registered>>
btCore  == <<g_bluetooth_interface, g_instance_lock, impl, hal_iface_,
             halReady, callbacksInstalled, created, pc, ev, cursor, crashed>>
btRest  == <<btCore, held>>
fields  == <<address_, name_, max_adv_instance>>
object  == <<revision, adapter, fields, observers_>>
halVars == <<halPower, halQueue>>
told    == <<new_state, heard>>
adVars  == <<object, state_, observers_lock_, at, current_state, told>>
vars    == <<btList, btRest, adVars, halVars>>

\* Where each call of NotifyAdapterStateChanged evaluates its arguments, and
\* where it then waits for observers_lock_.
Telling ==
    [enable_args |-> "enable_notify", enable_fail_args |-> "enable_fail_notify",
     disable_args |-> "disable_notify",
     disable_fail_args |-> "disable_fail_notify", cb_args |-> "cb_notify"]

\* The statements after which a method can be interrupted.
Points == {"idle", "ctor_add", "ctor_properties", "dtor_remove", "enable_store", "enable_call", "disable_load",
           "disable_store", "disable_call", "cb_store", "cb_return"}
          \cup DOMAIN Telling \cup Range(Telling)

TypeOK ==
    /\ BT!BtTypeOK
    /\ revision \in Revisions
    /\ adapter \in {"none", "building", "live", "leaving", "gone"}
    /\ state_ \in {"OFF", "TURNING_ON", "ON", "TURNING_OFF"}
    /\ address_ \in Addresses \cup {kDefaultAddress}
    /\ name_ \in Names \cup {kDefaultName}
    /\ max_adv_instance \in AdvInstanceCounts \cup {0}
    /\ observers_ \subseteq AdapterObservers
    /\ observers_lock_ \in Threads \cup {NoThread}
    /\ at \in [Threads -> Points]
    /\ current_state \in [Threads -> {"OFF", "TURNING_ON", "ON", "TURNING_OFF"}]
    /\ new_state \in [Threads -> {"OFF", "TURNING_ON", "ON", "TURNING_OFF"}]
    /\ heard \in {"OFF", "TURNING_ON", "ON", "TURNING_OFF"}
    /\ halPower \in {"off", "turning_on", "on", "turning_off"}
    /\ halQueue \in Seq(BT!Events) /\ Len(halQueue) <= MaxQueued + 1

Init ==
    /\ BT!BtInit
    /\ revision \in Revisions
    /\ adapter = "none" /\ state_ = "OFF"
    /\ address_ = kDefaultAddress /\ name_ = kDefaultName
    /\ max_adv_instance = 0
    /\ observers_ = {} /\ observers_lock_ = NoThread
    /\ at = [t \in Threads |-> "idle"]
    /\ current_state = [t \in Threads |-> "OFF"]
    /\ new_state = [t \in Threads |-> "OFF"] /\ heard = "OFF"
    /\ halPower = "off" /\ halQueue = <<>>

-----------------------------------------------------------------------------
(* Construction, destruction, observers, properties *)

\* A service thread that is in no method, on an Adapter that exists.
Calls(t) == ~crashed /\ adapter = "live" /\ at[t] = "idle"

\* The revision that has observers, properties and notifications.
HasObservers == revision = "later"

GetState   == state_
IsEnabled  == state_ = "ON"
GetName    == name_
GetAddress == address_

\* hal::BluetoothInterface::Get() of a call Get()->GetHALInterface()->f().
BluetoothInterfaceGet(t) == at[t] = "idle" /\ BT!GetEnabled(t)

Owes(e) == halQueue' = Append(halQueue, e)

\* The parts of the object that neither constructor nor destructor touches.
untouched == <<halVars, revision, observers_, observers_lock_, current_state,
               new_state>>

\* Adapter::Adapter, up to the first Get(): it has the pointer to the
\* BluetoothInterface.
Constructs(t) ==
    /\ adapter = "none" /\ at[t] = "idle" /\ BT!Get(t)
    /\ adapter' = "building"
    /\ at' = [at EXCEPT ![t] = "ctor_add"]
    /\ UNCHANGED untouched

\* The members take their defaults.
AdapterCreate(t) ==
    /\ Constructs(t)
    /\ state_' = "OFF" /\ heard' = "OFF"
    /\ address_' = kDefaultAddress /\ name_' = kDefaultName
    /\ max_adv_instance' = 0

\* ...->AddObserver(this), which waits for g_instance_lock again.
AddsItself(t) ==
    /\ at[t] = "ctor_add" /\ BT!AddObserver(t, TheAdapter)
    /\ at' = [at EXCEPT ![t] = "ctor_properties"]
    /\ UNCHANGED <<untouched, adapter, fields, state_, heard>>

\* The three factories are built (the LowEnergyClientFactory registers with
\* the GATT multiplexer, which LowEnergyDispatch models; it shares no state
\* with the Adapter), and then get_adapter_properties(), the last statement
\* of the constructor: the HAL answers with a property event.
GetAdapterProperties(t) ==
    /\ at[t] = "ctor_properties" /\ BT!GetEnabled(t)
    /\ \E event \in AdapterProperties :
           Owes([kind |-> "AdapterProperties", arg |-> event])
    /\ adapter' = "live"
    /\ at' = [at EXCEPT ![t] = "idle"]
    /\ UNCHANGED <<btList, btRest, halPower, revision, fields, observers_,
                   state_, observers_lock_, current_state, told>>

\* Adapter::~Adapter, up to Get().  No service thread is inside a method of
\* the object, and none calls one from here on (callers' contract).
AdapterDestroy(t) ==
    /\ Calls(t) /\ \A u \in AppThreads : at[u] = "idle"
    /\ BT!Get(t)
    /\ adapter' = "leaving"
    /\ at' = [at EXCEPT ![t] = "dtor_remove"]
    /\ UNCHANGED <<untouched, fields, state_, heard>>

\* A RemoveObserver that does not wait for g_instance_lock.
DeregisterUnlocked(t) == BT!RemoveObserverUnlocked(t, TheAdapter)

\* A destructor that leaves the Adapter in the list.
StaysRegistered(t) ==
    /\ held' = [held EXCEPT ![t] = 0]
    /\ UNCHANGED <<btList, btCore>>

\* ...->RemoveObserver(this).
Deregister(t) == BT!RemoveObserver(t, TheAdapter)

\* The destructor returns when the Adapter is off the list.
RemovesItself(t) ==
    /\ at[t] = "dtor_remove" /\ Deregister(t)
    /\ adapter' = "gone"
    /\ at' = [at EXCEPT ![t] = "idle"]
    /\ UNCHANGED <<untouched, fields, state_, heard>>

\* Adapter::AddObserver and Adapter::RemoveObserver, under observers_lock_.
AddObserver(t, o) ==
    /\ Calls(t) /\ observers_lock_ = NoThread
    /\ observers_' = observers_ \cup {o}
    /\ UNCHANGED <<btList, btRest, halVars, revision, adapter, fields, state_,
                   observers_lock_, at, current_state, told>>

RemoveObserver(t, o) ==
    /\ Calls(t) /\ observers_lock_ = NoThread
    /\ observers_' = observers_ \ {o}
    /\ UNCHANGED <<btList, btRest, halVars, revision, adapter, fields, state_,
                   observers_lock_, at, current_state, told>>

\* Adapter::SetAdapterProperty: the HAL takes the property, and reports it
\* in a property event, or refuses it.  CHECK(length > 0) and CHECK(value)
\* hold for its one caller, SetName, which passes a string and its length
\* plus one.
SetAdapterProperty(t, type, value) ==
    /\ BluetoothInterfaceGet(t)
    /\ \/ /\ Len(halQueue) < MaxQueued
          /\ Owes([kind |-> "AdapterProperties",
                   arg |-> [status |-> "BT_STATUS_SUCCESS",
                            properties |-> <<[type |-> type, val |-> value,
                                              len_ok |-> TRUE]>>]])
       \/ UNCHANGED halQueue

\* Adapter::SetName: a name of max_name_len characters or more is rejected
\* before the HAL is asked.
SetName(t, name) ==
    /\ Calls(t)
    /\ IF name \in LongNames
         THEN UNCHANGED halQueue
         ELSE SetAdapterProperty(t, "BT_PROPERTY_BDNAME", name)
    /\ UNCHANGED <<btList, btRest, adVars, halPower>>

\* Adapter::IsMultiAdvertisementSupported.
IsMultiAdvertisementSupported ==
    max_adv_instance >= kMinAdvInstancesForMultiAdv

-----------------------------------------------------------------------------
(* Enable, Disable and the state callback *)

Goto(t, point) == at' = [at EXCEPT ![t] = point]

\* Where each call of NotifyAdapterStateChanged returns to.
After(point) ==
    CASE point = "enable_notify"  -> "enable_call"
      [] point = "disable_notify" -> "disable_call"
      [] point = "cb_notify"      -> "cb_return"
      [] OTHER                    -> "idle"

\* A failure path that passes the state it loaded, not the one it stored.
PrevStateLoaded(t) == current_state[t]

\* The prev_state each call site passes.
PrevState(t) ==
    CASE at[t] = "enable_fail_args"  -> "TURNING_ON"
      [] at[t] = "disable_fail_args" -> "TURNING_OFF"
      [] OTHER                       -> current_state[t]

\* NotifyAdapterStateChanged(prev, state_) is called: new_state is state_ as
\* it is read now, a statement after the store; with equal states the call
\* returns at once.
NotifyOrSkip(t) ==
    /\ at[t] \in DOMAIN Telling
    /\ new_state' = [new_state EXCEPT ![t] =
                         IF PrevState(t) = GetState THEN "OFF" ELSE GetState]
    /\ Goto(t, IF PrevState(t) = GetState THEN After(Telling[at[t]])
                                           ELSE Telling[at[t]])
    /\ UNCHANGED <<btList, btRest, halVars, object, state_, observers_lock_,
                   current_state, heard>>

\* current_state = GetState().
Load(t, next) ==
    /\ current_state' = [current_state EXCEPT ![t] = GetState]
    /\ Goto(t, next)
    /\ UNCHANGED <<btList, btRest, halVars, object, state_,
                   observers_lock_, told>>

\* state_ = value.
Store(t, here, value, next) ==
    /\ at[t] = here
    /\ state_' = value
    /\ Goto(t, next)
    /\ UNCHANGED <<btList, btRest, halVars, object, observers_lock_,
                   current_state, told>>

\* What the HAL reports of a request it took: the stack came up, or it did
\* not and the radio is off again; a disable() it took ends with the radio
\* off.
EnableAcks  == {"BT_STATE_ON", "BT_STATE_OFF"}
DisableAcks == {"BT_STATE_OFF"}

\* GetHALInterface()->enable() and disable(): the HAL takes the request and
\* the method returns true, or refuses it and the state is put back.  A
\* request it took is answered later by one of the states in acks.
HalCall(t, here, from, turning, acks, back, refused) ==
    /\ at[t] = here /\ BT!GetEnabled(t)
    /\ \/ /\ halPower = from
          /\ halPower' = turning
          /\ \E ack \in acks :
                Owes([kind |-> "AdapterStateChanged", arg |-> ack])
          /\ Goto(t, "idle")
          /\ UNCHANGED state_
       \/ /\ state_' = back
          /\ Goto(t, refused)
          /\ UNCHANGED halVars
    /\ UNCHANGED <<btList, btRest, object, observers_lock_, current_state,
                   told>>

Enable(t) ==
    Calls(t) /\ Load(t, IF GetState # "OFF" THEN "idle" ELSE "enable_store")

\* An Enable that asks the HAL before it has stored anything.
EnableStoreSkipped(t) ==
    /\ at[t] = "enable_store"
    /\ Goto(t, "enable_call")
    /\ UNCHANGED <<btList, btRest, halVars, object, state_, observers_lock_,
                   current_state, told>>

EnableStore(t) == Store(t, "enable_store", "TURNING_ON", "enable_args")

EnableCall(t) ==
    HalCall(t, "enable_call", "off", "turning_on", EnableAcks, "OFF",
            "enable_fail_args")

\* A Disable that does not test IsEnabled().
DisableUnchecked(t) ==
    /\ Calls(t)
    /\ Goto(t, "disable_load")
    /\ UNCHANGED <<btList, btRest, halVars, object, state_, observers_lock_,
                   current_state, told>>

\* Disable, up to the test of IsEnabled().
Disable(t) ==
    /\ Calls(t)
    /\ Goto(t, IF ~IsEnabled THEN "idle" ELSE "disable_load")
    /\ UNCHANGED <<btList, btRest, halVars, object, state_, observers_lock_,
                   current_state, told>>

DisableLoad(t) == at[t] = "disable_load" /\ Load(t, "disable_store")

DisableStore(t) == Store(t, "disable_store", "TURNING_OFF", "disable_args")

\* A Disable that puts the state to OFF when the HAL refuses, as Enable does.
DisableCallToOff(t) ==
    HalCall(t, "disable_call", "on", "turning_off", DisableAcks, "OFF",
            "disable_fail_args")

DisableCall(t) ==
    HalCall(t, "disable_call", "on", "turning_off", DisableAcks,
            current_state[t], "disable_fail_args")

\* NotifyAdapterStateChanged: lock observers_lock_ ...
NotifyAdapterStateChanged(t) ==
    /\ at[t] \in Range(Telling)
    /\ observers_lock_ = NoThread
    /\ observers_lock_' = t
    /\ UNCHANGED <<btList, btRest, halVars, object, state_, at,
                   current_state, told>>

\* ... call OnAdapterStateChanged of every observer, unlock, return.
NotifyReturns(t) ==
    /\ observers_lock_ = t
    /\ observers_lock_' = NoThread
    /\ heard' = new_state[t]
    /\ new_state' = [new_state EXCEPT ![t] = "OFF"]
    /\ Goto(t, After(at[t]))
    /\ UNCHANGED <<btList, btRest, halVars, object, state_, current_state>>

\* The walk of t has reached the Adapter with an event of this kind.
Reached(t, kind) ==
    pc[t] = "invoke" /\ BT!Target(t) = TheAdapter /\ ev[t].kind = kind

\* Adapter::AdapterStateChangedCallback: prev_state = GetState() ...
AdapterStateChangedCallback(t) ==
    Reached(t, "AdapterStateChanged") /\ at[t] = "idle" /\ Load(t, "cb_store")

\* A switch that has no case for BT_STATE_ON.
StoresOffOnly(state) == IF state = "BT_STATE_OFF" THEN "OFF" ELSE state_

\* ... the switch on the HAL's state ...
Stored(state) == IF state = "BT_STATE_ON" THEN "ON" ELSE "OFF"

CallbackStore(t) == Store(t, "cb_store", Stored(ev[t].arg), "cb_args")

\* ... and the return into the walk of BluetoothInterface.
CallbackReturn(t) ==
    /\ at[t] = "cb_return"
    /\ Goto(t, "idle")
    /\ BT!ObserverReturns(t)
    /\ UNCHANGED <<halVars, object, state_, observers_lock_, current_state,
                   told>>

\* Adapter::AdapterPropertiesCallback: nothing on a failed status; else each
\* property in turn sets the member of its type, so that the last one of a
\* type stays, and a malformed feature block is passed over.
AdapterPropertiesCallback(t) ==
    LET event == ev[t].arg
        Taken(type) ==
            SelectSeq(event.properties, LAMBDA p : p.type = type /\ p.len_ok)
        Set(type, old) ==
            IF event.status = "BT_STATUS_SUCCESS" /\ Taken(type) # <<>>
              THEN Last(Taken(type)).val ELSE old
    IN /\ Reached(t, "AdapterProperties")
       /\ address_' = Set("BT_PROPERTY_BDADDR", address_)
       /\ name_' = Set("BT_PROPERTY_BDNAME", name_)
       /\ max_adv_instance' = Set("BT_PROPERTY_LOCAL_LE_FEATURES",
                                  max_adv_instance)
       /\ BT!ObserverReturns(t)
       /\ UNCHANGED <<halVars, revision, adapter, observers_, state_,
                      observers_lock_, at, current_state, told>>

-----------------------------------------------------------------------------
(* The earlier revision: the same methods with no one to tell *)

\* Adapter::Adapter has state_ alone to initialise.
EarlierAdapterCreate(t) ==
    /\ Constructs(t)
    /\ state_' = "OFF"
    /\ UNCHANGED <<fields, heard>>

EarlierAddsItself(t) == AddsItself(t)

EarlierGetAdapterProperties(t) == GetAdapterProperties(t)

EarlierRemovesItself(t) == RemovesItself(t)

\* ~Adapter, Enable up to its store, Disable up to its store, SetName and
\* SetAdapterProperty are the statements of the later revision.
EarlierAdapterDestroy(t) == AdapterDestroy(t)

EarlierEnable(t) == Enable(t)

EarlierDisable(t) == Disable(t)

EarlierDisableLoad(t) == DisableLoad(t)

EarlierSetAdapterProperty(t, type, value) == SetAdapterProperty(t, type, value)

EarlierSetName(t, name) ==
    /\ Calls(t)
    /\ IF name \in LongNames
         THEN UNCHANGED halQueue
         ELSE EarlierSetAdapterProperty(t, "BT_PROPERTY_BDNAME", name)
    /\ UNCHANGED <<btList, btRest, adVars, halPower>>

EarlierEnableStore(t) ==
    Store(t, "enable_store", "TURNING_ON", "enable_call")

EarlierDisableStore(t) ==
    Store(t, "disable_store", "TURNING_OFF", "disable_call")

\* A refused enable() or disable() puts the state back and returns false.
EarlierEnableCall(t) ==
    HalCall(t, "enable_call", "off", "turning_on", EnableAcks, "OFF",
            "idle")

EarlierDisableCall(t) ==
    HalCall(t, "disable_call", "on", "turning_off", DisableAcks,
            current_state[t], "idle")

\* AdapterStateChangedCallback is the switch alone.
EarlierStateChangedCallback(t) ==
    /\ Reached(t, "AdapterStateChanged")
    /\ state_' = Stored(ev[t].arg)
    /\ BT!ObserverReturns(t)
    /\ UNCHANGED <<halVars, object, observers_lock_, at, current_state, told>>

\* AdapterPropertiesCallback has no body.
EarlierPropertiesCallback(t) ==
    /\ Reached(t, "AdapterProperties")
    /\ BT!ObserverReturns(t)
    /\ UNCHANGED <<halVars, adVars>>

-----------------------------------------------------------------------------
(* The HAL and the specification *)

\* The HAL delivers its oldest event; the radio has changed when it reports.
Deliver(t) ==
    /\ halQueue # <<>>
    /\ LET e == Head(halQueue) IN
         IF e.kind = "AdapterStateChanged"
           THEN /\ BT!AdapterStateChangedCallback(t, e.arg)
                /\ halPower' = IF e.arg = "BT_STATE_ON" THEN "on" ELSE "off"
           ELSE /\ BT!AdapterPropertiesCallback(t, e.arg)
                /\ UNCHANGED halPower
    /\ halQueue' = Tail(halQueue)
    /\ UNCHANGED adVars

Notify(t) ==
    NotifyOrSkip(t) \/ NotifyAdapterStateChanged(t) \/ NotifyReturns(t)

\* A HAL thread inside a callback goes on.
Dispatch(t) ==
    \/ /\ BT!VerifyInstance(t) \/ BT!ForEachObserver(t)
       /\ UNCHANGED <<adVars, halVars>>
    \/ /\ HasObservers
       /\ \/ AdapterStateChangedCallback(t) \/ CallbackStore(t)
          \/ CallbackReturn(t) \/ AdapterPropertiesCallback(t)
          \/ Notify(t)
    \/ /\ ~HasObservers
       /\ EarlierStateChangedCallback(t) \/ EarlierPropertiesCallback(t)

\* A service thread inside Enable or Disable goes on.
Continue(t) ==
    \/ /\ HasObservers
       /\ \/ EnableStore(t) \/ EnableCall(t)
          \/ DisableLoad(t) \/ DisableStore(t) \/ DisableCall(t)
          \/ Notify(t)
    \/ /\ ~HasObservers
       /\ \/ EarlierEnableStore(t) \/ EarlierEnableCall(t)
          \/ EarlierDisableLoad(t) \/ EarlierDisableStore(t)
          \/ EarlierDisableCall(t)

\* The daemon brings the service up and down, within the callers' contract:
\* the Adapter is destroyed before BluetoothInterface is cleaned up.
Lifecycle(t) ==
    \/ /\ at[t] = "idle"
       /\ BT!Initialize(t) \/ (adapter \in {"none", "gone"} /\ BT!CleanUp(t))
       /\ UNCHANGED <<adVars, halVars>>
    \/ /\ HasObservers
       /\ \/ AdapterCreate(t) \/ AddsItself(t) \/ GetAdapterProperties(t)
          \/ AdapterDestroy(t) \/ RemovesItself(t)
          \/ \E o \in AdapterObservers :
                AddObserver(t, o) \/ RemoveObserver(t, o)
    \/ /\ ~HasObservers
       /\ \/ EarlierAdapterCreate(t) \/ EarlierAddsItself(t)
          \/ EarlierGetAdapterProperties(t)
          \/ EarlierAdapterDestroy(t) \/ EarlierRemovesItself(t)

\* A service thread calls into the API.
Call(t) ==
    \/ Lifecycle(t)
    \/ /\ HasObservers
       /\ \/ \E name \in Names : SetName(t, name)
          \/ t \in PowerThreads /\ (Enable(t) \/ Disable(t))
    \/ /\ ~HasObservers
       /\ \/ \E name \in Names : EarlierSetName(t, name)
          \/ t \in PowerThreads /\ (EarlierEnable(t) \/ EarlierDisable(t))

\* After a crash there is no process left to take a step.
Terminated == crashed /\ UNCHANGED vars

Next ==
    \/ \E t \in HalThreads : Deliver(t) \/ Dispatch(t)
    \/ \E t \in AppThreads : Call(t) \/ Continue(t)
    \/ Terminated

Spec == Init /\ [][Next]_vars

-----------------------------------------------------------------------------
(* Properties *)

\* No thread is inside a callback or a method of the Adapter.
Quiescent == \A t \in Threads : at[t] = "idle" /\ pc[t] = "idle"

\* Whenever nothing is in progress, state_ is the state of the radio: OFF
\* and ON when it is off and on, TURNING_ON and TURNING_OFF exactly while the
\* HAL owes the event of a request it took.  This is what storing the
\* transitional state before enable() and disable() are called, and putting
\* the state back when they are refused, are meant to achieve.
StateTracksHal ==
    adapter = "live" /\ Quiescent =>
        state_ = CASE halPower = "off"        -> "OFF"
                   [] halPower = "turning_on" -> "TURNING_ON"
                   [] halPower = "on"         -> "ON"
                   [] OTHER                   -> "TURNING_OFF"

\* At every moment, also in the middle of Enable, Disable and the callback,
\* a thread that reads ON finds the radio on and one that reads OFF finds it
\* off: IsEnabled() is never true while the radio is being turned off, and a
\* second Enable is never let through while it is being turned on.  This is
\* why Enable and Disable store the transitional state before they call
\* enable() and disable() ("there might be a race between here and the
\* AdapterStateChangedCallback").
SettledStateIsTrue ==
    adapter = "live" =>
        /\ IsEnabled => halPower = "on"
        /\ GetState = "OFF" => halPower = "off"

\* The HAL thread is inside a method of the Adapter, or holds its
\* observers_lock_, only while the object exists: ~Adapter cannot finish
\* RemoveObserver while a walk of BluetoothInterface is calling it.
HandlerOnLiveAdapter ==
    \A t \in HalThreads :
        (at[t] # "idle" \/ observers_lock_ = t) =>
            adapter \in {"live", "leaving"}

\* A request that the Adapter has announced comes to an end: from TURNING_ON
\* and TURNING_OFF the state reaches ON or OFF (or the object is destroyed),
\* if the HAL delivers its events.  Neither g_instance_lock nor
\* observers_lock_ keeps Enable, Disable and the callback waiting for ever.
PowerRequestCompletes ==
    (adapter = "live" /\ state_ \in {"TURNING_ON", "TURNING_OFF"})
        ~> (adapter # "live" \/ state_ \in {"ON", "OFF"})

Power == INSTANCE AdapterPower WITH state <- state_

\* The Adapter implements the power state machine: whichever way Enable,
\* Disable, the HAL's refusals and AdapterStateChangedCallback interleave,
\* every store to state_ is a transition of AdapterPower.  A request is
\* stored only from the settled state it leaves, although IsEnabled() and
\* GetState() are tested some steps before the store, and the callback
\* stores ON and OFF only over the transitional state of the request the HAL
\* took.
ImplementsAdapterPower == Power!PowerSpec

\* Observers that follow the notifications know the state once the radio
\* has settled and no thread is inside the Adapter: the last new_state they
\* were told is state_.  On the way there they may hear the transitions out
\* of order (a callback that stored ON tells it after Disable has told
\* TURNING_OFF), because new_state is read and observers_lock_ taken some
\* steps after the store; the notification of the last store still comes
\* last, and no refused request leaves them with a transitional state.
ObserversKnowSettledState ==
    HasObservers /\ adapter = "live" /\ Quiescent /\ halPower \in {"on", "off"}
        => heard = state_

=============================================================================
