--------------------------- MODULE GattInterface ---------------------------
(***************************************************************************)
(* The HAL callback multiplexer of service/hal/bluetooth_gatt_interface.cpp *)
(*                                                                         *)
(* A process-wide singleton |g_interface| owns two observer lists and the  *)
(* GATT HAL handle.  The HAL calls the static callbacks of the file on its  *)
(* own threads; each callback takes |g_instance_lock|, drops the event if  *)
(* the singleton is gone, and otherwise walks the observer list of its     *)
(* role.  Service threads create and destroy the singleton and add and     *)
(* remove observers under the same lock.  Observers may change the lists   *)
(* from inside a callback through the *Unsafe variants, which take no lock.*)
(*                                                                         *)
(* A callback is several steps of its thread (lock, verify, one fetch and  *)
(* one invoke per observer, unlock); every other operation holds the lock  *)
(* from its first to its last statement and touches nothing outside it, so *)
(* it is one step that needs the lock to be free.                          *)
(***************************************************************************)
EXTENDS Naturals, Sequences, FiniteSets, SequencesExt

CONSTANTS
    HalThreads,        \* threads of the HAL: they run the static callbacks
    AppThreads,        \* threads of the service: they run the public API
    ClientObservers,   \* objects implementing ClientObserver
    ServerObservers,   \* objects implementing ServerObserver
    MaxInstances,      \* bound on the number of instances ever published
    NoThread,          \* "the mutex is free"
    Hole               \* a slot of an observer list nulled during a walk

Threads   == HalThreads \cup AppThreads
Observers == ClientObservers \cup ServerObservers

ASSUME ConstantsOK ==
    /\ HalThreads \cap AppThreads = {}
    /\ ClientObservers \cap ServerObservers = {}
    /\ NoThread \notin Threads
    /\ Hole \notin Observers
    /\ MaxInstances \in Nat \ {0}

\* The slots of gatt_client_callbacks and gatt_server_callbacks that are set.
ClientEvents == {"RegisterClient", "MultiAdvEnable", "MultiAdvUpdate",
                 "MultiAdvData", "MultiAdvDisable"}
ServerEvents == {"RegisterServer", "Connection", "ServiceAdded",
                 "CharacteristicAdded", "DescriptorAdded", "ServiceStarted",
                 "ServiceStopped", "RequestRead", "RequestWrite",
                 "RequestExecWrite"}
Events == ClientEvents \cup ServerEvents
Roles  == {"client", "server"}

RoleOf(e)      == IF e \in ClientEvents THEN "client" ELSE "server"
RoleOfObs(o)   == IF o \in ClientObservers THEN "client" ELSE "server"

VARIABLES
    g_interface,         \* 0 is nullptr, n > 0 the n-th published instance
    g_instance_lock,     \* the thread that holds the mutex, or NoThread
    client_observers,    \* client_observers_ of the live instance
    server_observers,    \* server_observers_ of the live instance
    hal_iface_,          \* the live instance holds a GATT HAL handle
    halOpen,             \* HAL side: init() succeeded and cleanup() not yet called
    callbacksInstalled,  \* HAL side: it has been given gatt_callbacks
    created,             \* number of instances published so far
    lifecycle,           \* per observer: "new", "registered" or "destroyed"
    pc,                  \* per thread: where it is inside a callback
    ev,                  \* per thread: the event its callback delivers
    cursor,              \* per thread: the slot FOR_EACH_OBSERVER is at
    target,              \* per thread: the observer fetched from that slot
    notified,            \* per thread: observers invoked by this callback (history)
    held,                \* per thread: the pointer returned by Get(), 0 if none
    ret,                 \* per thread: what its last bool-returning call returned
                         \* (FALSE before the first one)
    aborted              \* a CHECK failed: the process is gone

singleton == <<g_interface, hal_iface_, halOpen, callbacksInstalled, created>>
lists     == <<client_observers, server_observers>>
walk      == <<pc, ev, cursor, target, notified>>
vars      == <<singleton, lists, g_instance_lock, lifecycle, walk, held, ret, aborted>>

NoValue == "none"

TypeOK ==
    /\ g_interface \in 0..MaxInstances
    /\ created \in 0..MaxInstances
    /\ g_instance_lock \in Threads \cup {NoThread}
    /\ client_observers \in Seq(ClientObservers \cup {Hole})
    /\ server_observers \in Seq(ServerObservers \cup {Hole})
    /\ hal_iface_ \in BOOLEAN /\ halOpen \in BOOLEAN
    /\ callbacksInstalled \in BOOLEAN /\ aborted \in BOOLEAN
    /\ lifecycle \in [Observers -> {"new", "registered", "destroyed"}]
    /\ pc \in [Threads -> {"idle", "verify", "fetch", "invoke", "blocked"}]
    /\ ev \in [Threads -> Events \cup {NoValue}]
    /\ cursor \in [Threads -> Nat]
    /\ target \in [Threads -> Observers \cup {Hole}]
    /\ \A t \in Threads : pc[t] = "invoke" => target[t] \in Observers
    /\ notified \in [Threads -> Seq(Observers)]
    /\ held \in [Threads -> 0..MaxInstances]
    /\ ret \in [Threads -> BOOLEAN]

Init ==
    /\ g_interface = 0 /\ created = 0
    /\ g_instance_lock = NoThread
    /\ client_observers = <<>> /\ server_observers = <<>>
    /\ hal_iface_ = FALSE /\ halOpen = FALSE /\ callbacksInstalled = FALSE
    /\ lifecycle = [o \in Observers |-> "new"]
    /\ pc = [t \in Threads |-> "idle"]
    /\ ev = [t \in Threads |-> NoValue]
    /\ cursor = [t \in Threads |-> 0]
    /\ target = [t \in Threads |-> Hole]
    /\ notified = [t \in Threads |-> <<>>]
    /\ held = [t \in Threads |-> 0]
    /\ ret = [t \in Threads |-> FALSE]
    /\ aborted = FALSE

-----------------------------------------------------------------------------
(* Helpers *)

\* lock_guard<mutex> lock(g_instance_lock) of an operation that is one step.
\* Thread t of a process that has not aborted is at this point.
Runs(t, point) == ~aborted /\ pc[t] = point

LockFree(t) == Runs(t, "idle") /\ g_instance_lock = NoThread

ObserverList(role) ==
    IF role = "client" THEN client_observers ELSE server_observers

SetObserverList(role, list) ==
    /\ client_observers' = IF role = "client" THEN list ELSE client_observers
    /\ server_observers' = IF role = "server" THEN list ELSE server_observers

\* notify_depth_ > 0 of base::ObserverList: somebody walks this list.
Iterating(role) ==
    \E t \in Threads : pc[t] \in {"fetch", "invoke"} /\ RoleOf(ev[t]) = role

Returns(t, b) == ret' = [ret EXCEPT ![t] = b]

-----------------------------------------------------------------------------
(* The singleton's life: Initialize, InitializeForTesting, CleanUp, Get *)

InitOutcomes == {"ok", "no_gatt_iface", "init_failed"}

\* BluetoothGattInterfaceImpl::Initialize, by where it stops: the profile
\* interface may be missing and init() may fail; the handle is stored after
\* init() has succeeded.  That BluetoothInterface is there to be asked
\* (Get() and CHECK(bt_iface)) is the caller's obligation.
ImplInitialize(outcome) ==
    [ok |-> outcome = "ok", hal_iface |-> outcome = "ok",
     open |-> halOpen \/ outcome = "ok"]

\* A destructor that forgets hal_iface_->cleanup().
ImplDestroyNoCleanup(handle, open) ==
    /\ hal_iface_' = FALSE
    /\ halOpen' = open

\* ~BluetoothGattInterfaceImpl, of an impl with this handle on a HAL in this
\* state: the handle, when there is one, is cleaned up.
ImplDestroy(handle, open) ==
    /\ hal_iface_' = FALSE
    /\ halOpen' = (open /\ ~handle)

\* BluetoothGattInterface::Initialize.  CHECK(!g_interface) is the caller's
\* obligation.  An impl whose Initialize failed goes away with the
\* unique_ptr and nothing is published.
Initialize(t) ==
    /\ LockFree(t) /\ g_interface = 0 /\ created < MaxInstances
    /\ \E outcome \in InitOutcomes :
        LET built == ImplInitialize(outcome) IN
        /\ callbacksInstalled' = (callbacksInstalled \/ built.ok)
        /\ IF built.ok
             THEN /\ g_interface' = created + 1 /\ created' = created + 1
                  /\ hal_iface_' = built.hal_iface /\ halOpen' = built.open
             ELSE /\ ImplDestroy(built.hal_iface, built.open)
                  /\ UNCHANGED <<g_interface, created>>
        /\ Returns(t, built.ok)
    /\ UNCHANGED <<lists, g_instance_lock, lifecycle, walk, held, aborted>>

\* BluetoothGattInterface::InitializeForTesting: publishes an instance that
\* was built elsewhere and opened no HAL handle.
InitializeForTesting(t) ==
    /\ LockFree(t) /\ g_interface = 0 /\ created < MaxInstances
    /\ g_interface' = created + 1 /\ created' = created + 1
    /\ UNCHANGED <<hal_iface_, halOpen, callbacksInstalled>>
    /\ UNCHANGED <<lists, g_instance_lock, lifecycle, walk, held, ret, aborted>>

\* CleanUp without its lock_guard.
CleanUpUnlocked(t) ==
    /\ Runs(t, "idle") /\ g_interface # 0
    /\ ImplDestroy(hal_iface_, halOpen)
    /\ g_interface' = 0
    /\ client_observers' = <<>> /\ server_observers' = <<>>
    /\ UNCHANGED <<callbacksInstalled, created>>
    /\ UNCHANGED <<g_instance_lock, lifecycle, walk, held, ret, aborted>>

\* BluetoothGattInterface::CleanUp: delete g_interface; g_interface = nullptr.
CleanUp(t) ==
    /\ g_instance_lock = NoThread
    /\ CleanUpUnlocked(t)

\* BluetoothGattInterface::IsInitialized.
IsInitialized(t) ==
    /\ LockFree(t)
    /\ Returns(t, g_interface # 0)
    /\ UNCHANGED <<singleton, lists, g_instance_lock, lifecycle, walk, held, aborted>>

\* BluetoothGattInterface::Get: the pointer outlives the lock.
Get(t) ==
    /\ LockFree(t) /\ g_interface # 0 /\ held[t] = 0
    /\ held' = [held EXCEPT ![t] = g_interface]
    /\ UNCHANGED <<singleton, lists, g_instance_lock, lifecycle, walk, ret, aborted>>

-----------------------------------------------------------------------------
(* The observer lists *)

\* What the callers promise (the code checks none of it): an observer is
\* added once, removed once on its way to destruction, and the singleton is
\* torn down only when nobody holds a pointer from Get() and every observer
\* has deregistered.
Fresh(o)      == lifecycle[o] = "new"
Registered(o) == lifecycle[o] = "registered"
QuiescentCallers ==
    /\ \A t \in Threads : held[t] = 0
    /\ \A o \in Observers : ~Registered(o)

\* client_observers_.AddObserver / server_observers_.AddObserver: appended
\* once; a walk in progress reaches the new entry.
AddObserverUnsafe(o) ==
    LET list == ObserverList(RoleOfObs(o)) IN
    /\ SetObserverList(RoleOfObs(o),
                       IF Contains(list, o) THEN list ELSE Append(list, o))
    /\ lifecycle' = [lifecycle EXCEPT ![o] = "registered"]

AddClientObserverUnsafe(o) == o \in ClientObservers /\ AddObserverUnsafe(o)
AddServerObserverUnsafe(o) == o \in ServerObservers /\ AddObserverUnsafe(o)

\* A RemoveObserver that erases the slot even under a walk.
RemoveObserverErasing(o) ==
    /\ SetObserverList(RoleOfObs(o), Remove(ObserverList(RoleOfObs(o)), o))
    /\ lifecycle' = [lifecycle EXCEPT ![o] = "destroyed"]

\* RemoveObserver: erased, or nulled in place while the list is being walked.
\* An observer deregisters on its way to destruction.
RemoveObserverUnsafe(o) ==
    LET role == RoleOfObs(o)
        list == ObserverList(role) IN
    /\ SetObserverList(role, IF Iterating(role) THEN ReplaceAll(list, o, Hole)
                                                ELSE Remove(list, o))
    /\ lifecycle' = [lifecycle EXCEPT ![o] = "destroyed"]

RemoveClientObserverUnsafe(o) == o \in ClientObservers /\ RemoveObserverUnsafe(o)
RemoveServerObserverUnsafe(o) == o \in ServerObservers /\ RemoveObserverUnsafe(o)

\* Get()->AddClientObserver(o) and its three siblings, called by a service
\* thread on the pointer it holds.
UsesHeld(t) ==
    /\ held[t] # 0 /\ held[t] = g_interface
    /\ held' = [held EXCEPT ![t] = 0]
    /\ UNCHANGED <<singleton, g_instance_lock, walk, ret, aborted>>

AddClientObserver(t, o) ==
    /\ LockFree(t)
    /\ AddClientObserverUnsafe(o) /\ UsesHeld(t)

AddServerObserver(t, o) ==
    /\ LockFree(t)
    /\ AddServerObserverUnsafe(o) /\ UsesHeld(t)

\* RemoveClientObserver without its lock_guard.
RemoveClientObserverUnlocked(t, o) ==
    /\ Runs(t, "idle")
    /\ RemoveClientObserverUnsafe(o) /\ UsesHeld(t)

RemoveClientObserver(t, o) ==
    /\ g_instance_lock = NoThread
    /\ RemoveClientObserverUnlocked(t, o)

RemoveServerObserver(t, o) ==
    /\ LockFree(t)
    /\ RemoveServerObserverUnsafe(o) /\ UsesHeld(t)

-----------------------------------------------------------------------------
(* A HAL callback: lock, verify, walk, unlock *)

\* The first line of every static callback: lock_guard on g_instance_lock.
Callback(t, e) ==
    /\ callbacksInstalled /\ LockFree(t)
    /\ g_instance_lock' = t
    /\ pc' = [pc EXCEPT ![t] = "verify"]
    /\ ev' = [ev EXCEPT ![t] = e]
    /\ UNCHANGED <<singleton, lists, lifecycle, cursor, target, notified, held, ret, aborted>>

RegisterClientCallback(t)      == Callback(t, "RegisterClient")
MultiAdvEnableCallback(t)      == Callback(t, "MultiAdvEnable")
MultiAdvUpdateCallback(t)      == Callback(t, "MultiAdvUpdate")
MultiAdvDataCallback(t)        == Callback(t, "MultiAdvData")
MultiAdvDisableCallback(t)     == Callback(t, "MultiAdvDisable")
RegisterServerCallback(t)      == Callback(t, "RegisterServer")
ConnectionCallback(t)          == Callback(t, "Connection")
ServiceAddedCallback(t)        == Callback(t, "ServiceAdded")
CharacteristicAddedCallback(t) == Callback(t, "CharacteristicAdded")
DescriptorAddedCallback(t)     == Callback(t, "DescriptorAdded")
ServiceStartedCallback(t)      == Callback(t, "ServiceStarted")
ServiceStoppedCallback(t)      == Callback(t, "ServiceStopped")
RequestReadCallback(t)         == Callback(t, "RequestRead")
RequestWriteCallback(t)        == Callback(t, "RequestWrite")
RequestExecWriteCallback(t)    == Callback(t, "RequestExecWrite")

\* The lock_guard's destructor, on either way out of a callback.
Unlock(t) ==
    /\ g_instance_lock' = NoThread
    /\ pc' = [pc EXCEPT ![t] = "idle"]
    /\ ev' = [ev EXCEPT ![t] = NoValue]
    /\ notified' = [notified EXCEPT ![t] = <<>>]

EnterWalk(t) ==
    /\ pc' = [pc EXCEPT ![t] = "fetch"]
    /\ cursor' = [cursor EXCEPT ![t] = 1]
    /\ UNCHANGED <<g_instance_lock, ev, notified>>

\* A VERIFY_INTERFACE_OR_RETURN with its test inverted.
VerifyInverted(t) ==
    /\ Runs(t, "verify")
    /\ \/ g_interface # 0 /\ Unlock(t) /\ UNCHANGED cursor
       \/ g_interface = 0 /\ EnterWalk(t)
    /\ UNCHANGED <<singleton, lists, lifecycle, target, held, ret, aborted>>

\* VERIFY_INTERFACE_OR_RETURN: an event that arrives after CleanUp is dropped.
VerifyInterfaceOrReturn(t) ==
    /\ Runs(t, "verify")
    /\ \/ g_interface = 0 /\ Unlock(t) /\ UNCHANGED cursor
       \/ g_interface # 0 /\ EnterWalk(t)
    /\ UNCHANGED <<singleton, lists, lifecycle, target, held, ret, aborted>>

\* GetClientObservers / GetServerObservers: CHECK(g_interface).
GetObservers(t) == g_interface # 0

\* The iterator of FOR_EACH_OBSERVER passes over a nulled slot, and when the
\* last iterator of a list goes away the nulled slots are erased.
CallsThroughNull(list, i) == FALSE
LeavesHoles(list)         == list
Skipped(list, i) == list[i] = Hole
Compact(list)    == Remove(list, Hole)

\* FOR_EACH_OBSERVER, one slot: past the end the walk is over, the nulled
\* slots are compacted and the lock is released; a nulled slot is skipped;
\* otherwise the observer in the slot is the next to be called.
ForEachObserver(t) ==
    LET role == RoleOf(ev[t])
        list == ObserverList(role) IN
    /\ Runs(t, "fetch")
    /\ IF ~GetObservers(t)
         THEN /\ aborted' = TRUE
              /\ UNCHANGED <<lists, g_instance_lock, walk>>
       ELSE IF cursor[t] > Len(list)
         THEN /\ SetObserverList(role, Compact(list))
              /\ Unlock(t)
              /\ UNCHANGED <<cursor, target, aborted>>
       ELSE IF Skipped(list, cursor[t])
         THEN /\ cursor' = [cursor EXCEPT ![t] = @ + 1]
              /\ UNCHANGED <<lists, g_instance_lock, pc, ev, target, notified, aborted>>
       ELSE   /\ target' = [target EXCEPT ![t] = list[cursor[t]]]
              /\ pc' = [pc EXCEPT ![t] = "invoke"]
              /\ UNCHANGED <<lists, g_instance_lock, ev, cursor, notified, aborted>>
    /\ UNCHANGED <<singleton, lifecycle, held, ret>>

\* A walk whose iterator is not advanced after the call.
InvokedInPlace(t) ==
    /\ Runs(t, "invoke")
    /\ pc' = [pc EXCEPT ![t] = "fetch"]
    /\ UNCHANGED <<singleton, g_instance_lock, ev, cursor, target, notified,
                   held, ret, aborted>>

\* The call through the fetched pointer returns and the walk moves on.
Invoked(t) ==
    /\ Runs(t, "invoke")
    /\ notified' = [notified EXCEPT ![t] = Append(@, target[t])]
    /\ cursor' = [cursor EXCEPT ![t] = @ + 1]
    /\ pc' = [pc EXCEPT ![t] = "fetch"]
    /\ UNCHANGED <<singleton, g_instance_lock, ev, target, held, ret, aborted>>

\* The default implementations of ClientObserver and ServerObserver.
DefaultObserver(t) ==
    /\ Invoked(t)
    /\ UNCHANGED <<lists, lifecycle>>

\* An observer that registers another one from inside its callback, as the
\* comment on the Unsafe variants prescribes.
ObserverAdds(t, o) ==
    /\ Invoked(t) /\ Fresh(o)
    /\ \/ AddClientObserverUnsafe(o)
       \/ AddServerObserverUnsafe(o)

\* An observer that deregisters itself or another one from inside its callback.
ObserverRemoves(t, o) ==
    /\ Invoked(t) /\ Registered(o)
    /\ \/ RemoveClientObserverUnsafe(o)
       \/ RemoveServerObserverUnsafe(o)

\* An observer that calls a locking entry point (Get, IsInitialized or the
\* locked Add/Remove) from inside its callback: std::mutex is not recursive.
ObserverCallsLocked(t) ==
    /\ Runs(t, "invoke")
    /\ pc' = [pc EXCEPT ![t] = "blocked"]
    /\ UNCHANGED <<singleton, lists, g_instance_lock, lifecycle, ev, cursor,
                   target, notified, held, ret, aborted>>

-----------------------------------------------------------------------------
(* The specification *)

HalStep(t) ==
    \/ RegisterClientCallback(t)  \/ MultiAdvEnableCallback(t)
    \/ MultiAdvUpdateCallback(t)  \/ MultiAdvDataCallback(t)
    \/ MultiAdvDisableCallback(t) \/ RegisterServerCallback(t)
    \/ ConnectionCallback(t)      \/ ServiceAddedCallback(t)
    \/ CharacteristicAddedCallback(t) \/ DescriptorAddedCallback(t)
    \/ ServiceStartedCallback(t)  \/ ServiceStoppedCallback(t)
    \/ RequestReadCallback(t)     \/ RequestWriteCallback(t)
    \/ RequestExecWriteCallback(t)

WalkStep(t) ==
    \/ VerifyInterfaceOrReturn(t)
    \/ ForEachObserver(t)
    \/ DefaultObserver(t)
    \/ \E o \in Observers : ObserverAdds(t, o) \/ ObserverRemoves(t, o)

\* The service threads, calling the API within the callers' contract.
AppStep(t) ==
    \/ Initialize(t) \/ InitializeForTesting(t)
    \/ QuiescentCallers /\ CleanUp(t)
    \/ IsInitialized(t) \/ Get(t)
    \/ \E o \in ClientObservers : \/ Fresh(o) /\ AddClientObserver(t, o)
                                  \/ Registered(o) /\ RemoveClientObserver(t, o)
    \/ \E o \in ServerObservers : \/ Fresh(o) /\ AddServerObserver(t, o)
                                  \/ Registered(o) /\ RemoveServerObserver(t, o)

Next ==
    \/ \E t \in HalThreads : HalStep(t) \/ WalkStep(t)
    \/ \E t \in AppThreads : AppStep(t)

Spec == Init /\ [][Next]_vars

\* A thread inside a callback is running code that waits for nothing.
FairSpec == Spec /\ \A t \in HalThreads : WF_vars(WalkStep(t))

\* The same system with observers that re-enter through a locking call.
ReentrantNext == Next \/ \E t \in HalThreads : ObserverCallsLocked(t)
ReentrantSpec == Init /\ [][ReentrantNext]_vars

-----------------------------------------------------------------------------
(* Properties *)

Walking(t) == pc[t] \in {"fetch", "invoke"}

\* An observer is called only while it is registered: between the fetch of
\* its pointer from the list and the call through it, no RemoveClientObserver
\* or RemoveServerObserver of another thread completes (they wait for
\* g_instance_lock, which the callback holds from its first line).
NotifiedOnlyWhileRegistered ==
    \A t \in Threads : pc[t] = "invoke" =>
        /\ lifecycle[target[t]] = "registered"
        /\ Contains(ObserverList(RoleOf(ev[t])), target[t])

\* A callback that arrives after CleanUp never reaches the observer lists:
\* no CHECK(g_interface) of GetClientObservers/GetServerObservers fails, and
\* the instance cannot be deleted under a walk (VERIFY_INTERFACE_OR_RETURN
\* and the lock taken by CleanUp).
WalkOnLiveInstance ==
    /\ ~aborted
    /\ \A t \in Threads : Walking(t) => g_interface # 0 /\ g_instance_lock = t

\* One event reaches every observer that stays registered exactly once and in
\* registration order, whatever the observers add or remove from inside their
\* callbacks (FOR_EACH_CLIENT_OBSERVER / FOR_EACH_SERVER_OBSERVER over a list
\* that changes under the walk).
InOrderExactlyOnce ==
    \A t \in Threads : Walking(t) =>
        LET list   == ObserverList(RoleOf(ev[t]))
            passed == SubSeq(list, 1, Min({cursor[t] - 1, Len(list)}))
            Live(o) == o # Hole
            StillThere(o) == Contains(list, o)
        IN /\ SelectSeq(notified[t], StillThere) = SelectSeq(passed, Live)
           /\ IsInjective(notified[t])

\* The HAL handle is open exactly while a production instance is published:
\* every init() is matched by the destructor's cleanup(), also across
\* failed Initialize calls and test instances.
HandleFollowsInstance ==
    /\ halOpen = hal_iface_
    /\ hal_iface_ => g_interface # 0
    /\ g_interface = 0 => client_observers = <<>> /\ server_observers = <<>>

\* The lists hold each registered observer once and nothing else once no
\* walk is in progress (the nulled slots are compacted when the walk ends).
ListsMatchLifecycle ==
    \A role \in Roles :
        LET list == ObserverList(role) IN
        /\ IsInjective(SelectSeq(list, LAMBDA o : o # Hole))
        /\ ToSet(list) \ {Hole} =
              {o \in Observers : RoleOfObs(o) = role /\ lifecycle[o] = "registered"}
        /\ ~Iterating(role) => ~Contains(list, Hole)

\* Every callback returns: the thread that took g_instance_lock releases it.
CallbackReturns ==
    \A t \in HalThreads : (g_instance_lock = t) ~> (g_instance_lock # t)

\* What section 4.2 of the design says of completions: they may call back
\* into the multiplexer's locking entry points from inside a callback.  With
\* g_instance_lock held across the walk, such a call waits for its own thread.
NoSelfDeadlock ==
    \A t \in Threads : pc[t] = "blocked" => g_instance_lock # t

=============================================================================
