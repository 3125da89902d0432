------------------------- MODULE BluetoothInterface -------------------------
(***************************************************************************)
(* The adapter HAL wrapper of service/hal/bluetooth_interface.cpp: the     *)
(* singleton g_bluetooth_interface, its observer list, and the two static  *)
(* HAL callbacks, which lock g_instance_lock, drop the event when there is *)
(* no instance, and call every observer in turn with the lock held.        *)
(***************************************************************************)
EXTENDS Naturals, Sequences, FiniteSets, SequencesExt

CONSTANTS
    HalThreads,     \* threads of the HAL: they run the static callbacks
    AppThreads,     \* threads of the service
    Observers,      \* objects implementing BluetoothInterface::Observer
    Properties,     \* payloads of AdapterPropertiesCallback
    MaxInstances,   \* bound on the number of instances ever published
    NoThread        \* "the mutex is free"

Threads == HalThreads \cup AppThreads

ASSUME BluetoothInterfaceConstantsOK ==
    /\ HalThreads \cap AppThreads = {}
    /\ NoThread \notin Threads
    /\ MaxInstances \in Nat \ {0}

BtStates == {"BT_STATE_OFF", "BT_STATE_ON"}

\* The slots of bt_callbacks that reach the observers.
StateEvents    == [kind : {"AdapterStateChanged"}, arg : BtStates]
PropertyEvents == [kind : {"AdapterProperties"}, arg : Properties]
Events         == StateEvents \cup PropertyEvents
NoEvent        == [kind |-> "none"]

\* Where BluetoothInterfaceImpl::Initialize can stop.
InitOutcomes == {"load_failed", "open_failed", "init_failed",
                 "callouts_failed", "ok"}

VARIABLES
    g_bluetooth_interface,  \* 0 is nullptr, n > 0 the n-th published instance
    g_instance_lock,        \* the thread that holds the mutex, or NoThread
    observers_,             \* observers_ of the live instance
    impl,                   \* the live instance is a BluetoothInterfaceImpl
    hal_iface_,             \* hal_iface_ (and hal_adapter_) of the instance is set
    halReady,               \* HAL side: init() succeeded and cleanup() not yet called
    callbacksInstalled,     \* HAL side: it has been given bt_callbacks
    created,                \* number of instances published so far
    registered,             \* observers that have been added and not removed
    pc,                     \* per thread: where it is inside a callback
    ev,                     \* per thread: the event its callback delivers
    cursor,                 \* per thread: the slot FOR_EACH_OBSERVER is at
    held,                   \* per thread: the pointer Get() returned, 0 if none
    crashed                 \* a null pointer was dereferenced or a CHECK failed

instance == <<g_bluetooth_interface, impl, hal_iface_, created>>
hal      == <<halReady, callbacksInstalled>>
dispatch == <<pc, ev, cursor>>
btVars   == <<instance, hal, observers_, registered, g_instance_lock,
              dispatch, held, crashed>>

BtTypeOK ==
    /\ g_bluetooth_interface \in 0..MaxInstances
    /\ created \in 0..MaxInstances
    /\ g_instance_lock \in Threads \cup {NoThread}
    /\ observers_ \in Seq(Observers)
    /\ registered \subseteq Observers
    /\ {impl, hal_iface_, halReady, callbacksInstalled, crashed} \subseteq BOOLEAN
    /\ pc \in [Threads -> {"idle", "verify", "fetch", "invoke"}]
    /\ ev \in [Threads -> Events \cup {NoEvent}]
    /\ cursor \in [Threads -> Nat]
    /\ held \in [Threads -> 0..MaxInstances]
    /\ \A t \in Threads : pc[t] = "invoke" => cursor[t] \in 1..Len(observers_)

BtInit ==
    /\ g_bluetooth_interface = 0 /\ created = 0
    /\ g_instance_lock = NoThread
    /\ observers_ = <<>> /\ registered = {}
    /\ impl = FALSE /\ hal_iface_ = FALSE
    /\ halReady = FALSE /\ callbacksInstalled = FALSE
    /\ pc = [t \in Threads |-> "idle"]
    /\ ev = [t \in Threads |-> NoEvent]
    /\ cursor = [t \in Threads |-> 0]
    /\ held = [t \in Threads |-> 0]
    /\ crashed = FALSE

\* Thread t of a process that has not crashed is at this point.
Runs(t, point) == ~crashed /\ pc[t] = point

\* lock_guard<mutex> lock(g_instance_lock) of an operation that is one step.
LockFree(t) == Runs(t, "idle") /\ g_instance_lock = NoThread

-----------------------------------------------------------------------------
(* The singleton's life *)

\* BluetoothInterfaceImpl::Initialize, by the stage it stops at: the handles
\* are stored once the module is open, before init() is tried.
ImplInitialize(outcome) ==
    [ok        |-> outcome = "ok",
     hal_iface |-> outcome \notin {"load_failed", "open_failed"},
     inited    |-> outcome \in {"callouts_failed", "ok"}]

\* A destructor that never calls cleanup().
ImplDestroyLeaking(handle, ready) ==
    /\ halReady' = ready
    /\ crashed' = (crashed \/ ~handle)

\* ~BluetoothInterfaceImpl: hal_iface_->cleanup(), whatever hal_iface_ is,
\* on a HAL that is ready or not.
ImplDestroy(handle, ready) ==
    /\ halReady' = (ready /\ ~handle)
    /\ crashed' = (crashed \/ ~handle)

\* BluetoothInterface::Initialize.  CHECK(!g_bluetooth_interface) is the
\* caller's obligation.  The impl that failed goes away with the unique_ptr,
\* after whatever its Initialize did to the HAL.
Initialize(t) ==
    /\ LockFree(t) /\ g_bluetooth_interface = 0
    /\ \E outcome \in InitOutcomes :
        LET built == ImplInitialize(outcome) IN
        /\ built.ok => created < MaxInstances
        /\ callbacksInstalled' = (callbacksInstalled \/ built.inited)
        /\ IF built.ok
             THEN /\ g_bluetooth_interface' = created + 1
                  /\ created' = created + 1
                  /\ impl' = TRUE /\ hal_iface_' = TRUE /\ halReady' = TRUE
                  /\ UNCHANGED crashed
             ELSE /\ ImplDestroy(built.hal_iface, built.inited)
                  /\ UNCHANGED instance
    /\ UNCHANGED <<observers_, registered, g_instance_lock, dispatch, held>>

\* BluetoothInterface::InitializeForTesting: publishes an instance built
\* elsewhere, which holds no HAL handle.
InitializeForTesting(t) ==
    /\ LockFree(t) /\ g_bluetooth_interface = 0 /\ created < MaxInstances
    /\ g_bluetooth_interface' = created + 1 /\ created' = created + 1
    /\ impl' = FALSE /\ hal_iface_' = FALSE
    /\ UNCHANGED <<hal, observers_, registered, g_instance_lock, dispatch,
                   held, crashed>>

\* CleanUp without its lock_guard.
CleanUpUnlocked(t) ==
    /\ Runs(t, "idle") /\ g_bluetooth_interface # 0
    /\ IF impl THEN ImplDestroy(hal_iface_, halReady)
               ELSE UNCHANGED <<halReady, crashed>>
    /\ g_bluetooth_interface' = 0 /\ impl' = FALSE /\ hal_iface_' = FALSE
    /\ observers_' = <<>>
    /\ UNCHANGED <<created, callbacksInstalled, registered, g_instance_lock,
                   dispatch, held>>

\* BluetoothInterface::CleanUp: delete the instance, clear the pointer.
CleanUp(t) ==
    /\ g_instance_lock = NoThread
    /\ CleanUpUnlocked(t)

\* The lock_guard and the CHECK of BluetoothInterface::Get.
GetEnabled(t) == LockFree(t) /\ g_bluetooth_interface # 0

\* BluetoothInterface::Get, the first half of Get()->Method(): the pointer
\* outlives the lock.
Get(t) ==
    /\ GetEnabled(t) /\ held[t] = 0
    /\ held' = [held EXCEPT ![t] = g_bluetooth_interface]
    /\ UNCHANGED <<instance, hal, observers_, registered, g_instance_lock,
                   dispatch, crashed>>

-----------------------------------------------------------------------------
(* The observer list *)

\* The second half of Get()->Method(): the method runs on the pointer.
UsesHeld(t) ==
    /\ held[t] # 0 /\ held[t] = g_bluetooth_interface
    /\ held' = [held EXCEPT ![t] = 0]

\* BluetoothInterfaceImpl::AddObserver.
AddObserver(t, o) ==
    /\ LockFree(t) /\ UsesHeld(t)
    /\ observers_' = IF Contains(observers_, o) THEN observers_
                                                ELSE Append(observers_, o)
    /\ registered' = registered \cup {o}
    /\ UNCHANGED <<instance, hal, g_instance_lock, dispatch, crashed>>

\* RemoveObserver without its lock_guard.
RemoveObserverUnlocked(t, o) ==
    /\ Runs(t, "idle") /\ UsesHeld(t)
    /\ observers_' = Remove(observers_, o)
    /\ registered' = registered \ {o}
    /\ UNCHANGED <<instance, hal, g_instance_lock, dispatch, crashed>>

\* BluetoothInterfaceImpl::RemoveObserver.
RemoveObserver(t, o) ==
    /\ g_instance_lock = NoThread
    /\ RemoveObserverUnlocked(t, o)

-----------------------------------------------------------------------------
(* A HAL callback: lock, verify, walk, unlock *)

\* The first line of both callbacks: lock_guard on g_instance_lock.
Callback(t, e) ==
    /\ callbacksInstalled /\ LockFree(t)
    /\ g_instance_lock' = t
    /\ pc' = [pc EXCEPT ![t] = "verify"]
    /\ ev' = [ev EXCEPT ![t] = e]
    /\ UNCHANGED <<instance, hal, observers_, registered, cursor, held,
                   crashed>>

AdapterStateChangedCallback(t, state) ==
    Callback(t, [kind |-> "AdapterStateChanged", arg |-> state])

AdapterPropertiesCallback(t, properties) ==
    Callback(t, [kind |-> "AdapterProperties", arg |-> properties])

\* The lock_guard's destructor, on either way out of a callback.
Unlock(t) ==
    /\ g_instance_lock' = NoThread
    /\ pc' = [pc EXCEPT ![t] = "idle"]
    /\ ev' = [ev EXCEPT ![t] = NoEvent]

\* if (!g_bluetooth_interface) return: an event after CleanUp is dropped.
VerifyInstance(t) ==
    /\ Runs(t, "verify")
    /\ \/ g_bluetooth_interface = 0 /\ Unlock(t) /\ UNCHANGED cursor
       \/ /\ g_bluetooth_interface # 0
          /\ pc' = [pc EXCEPT ![t] = "fetch"]
          /\ cursor' = [cursor EXCEPT ![t] = 1]
          /\ UNCHANGED <<g_instance_lock, ev>>
    /\ UNCHANGED <<instance, hal, observers_, registered, held, crashed>>

\* GetObservers: CHECK(g_bluetooth_interface).
GetObservers == g_bluetooth_interface # 0

\* FOR_EACH_BLUETOOTH_OBSERVER, one slot: past the end the callback returns,
\* otherwise the observer in the slot is called.
ForEachObserver(t) ==
    /\ Runs(t, "fetch")
    /\ IF ~GetObservers
         THEN crashed' = TRUE /\ UNCHANGED <<g_instance_lock, dispatch>>
       ELSE IF cursor[t] > Len(observers_)
         THEN Unlock(t) /\ UNCHANGED <<cursor, crashed>>
       ELSE /\ pc' = [pc EXCEPT ![t] = "invoke"]
            /\ UNCHANGED <<g_instance_lock, ev, cursor, crashed>>
    /\ UNCHANGED <<instance, hal, observers_, registered, held>>

\* The observer the walk of t is calling.
Target(t) == observers_[cursor[t]]

\* The observer's method returns and the walk moves on.
ObserverReturns(t) ==
    /\ Runs(t, "invoke")
    /\ pc' = [pc EXCEPT ![t] = "fetch"]
    /\ cursor' = [cursor EXCEPT ![t] = @ + 1]
    /\ UNCHANGED <<instance, hal, observers_, registered, g_instance_lock,
                   ev, held, crashed>>

-----------------------------------------------------------------------------
(* The specification *)

\* What the callers promise (the code checks none of it): an observer is
\* added once and removed before the singleton is torn down, and nobody
\* holds a pointer from Get() when it is.
QuiescentCallers == registered = {} /\ \A t \in Threads : held[t] = 0

HalStep(t) ==
    \/ \E state \in BtStates : AdapterStateChangedCallback(t, state)
    \/ \E properties \in Properties : AdapterPropertiesCallback(t, properties)
    \/ VerifyInstance(t)
    \/ ForEachObserver(t)
    \/ ObserverReturns(t)

AppStep(t) ==
    \/ Initialize(t) \/ InitializeForTesting(t)
    \/ QuiescentCallers /\ CleanUp(t)
    \/ Get(t)
    \/ \E o \in Observers \ registered : AddObserver(t, o)
    \/ \E o \in registered : RemoveObserver(t, o)

\* After a crash there is no process left to take a step.
Terminated == crashed /\ UNCHANGED btVars

BtNext ==
    \/ \E t \in HalThreads : HalStep(t)
    \/ \E t \in AppThreads : AppStep(t)
    \/ Terminated

BtSpec == BtInit /\ [][BtNext]_btVars

-----------------------------------------------------------------------------
(* Properties *)

\* A walk runs on a live instance, with the lock held by the walking thread,
\* and the observer it is calling is registered: neither CleanUp nor
\* RemoveObserver completes between the test of g_bluetooth_interface and
\* the last call of FOR_EACH_BLUETOOTH_OBSERVER, and an event after CleanUp
\* never reaches GetObservers.
DispatchIsSafe ==
    \A t \in Threads :
        /\ pc[t] \in {"fetch", "invoke"} =>
              g_bluetooth_interface # 0 /\ g_instance_lock = t
        /\ pc[t] = "invoke" => Target(t) \in registered

\* init() and cleanup() of the HAL are paired: the HAL is initialised exactly
\* while a production instance is published, also after an Initialize that
\* failed at set_os_callouts, whose impl is destroyed by the unique_ptr.
HalFollowsInstance ==
    /\ halReady = (g_bluetooth_interface # 0 /\ impl)
    /\ halReady => hal_iface_
    /\ ToSet(observers_) = registered

\* An Initialize that fails returns false to its caller: that is what its
\* "return false" after "Failed to initialize BluetoothInterface" is for.
FailedInitializeReturns == ~crashed

=============================================================================
