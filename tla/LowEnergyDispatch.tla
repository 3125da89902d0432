------------------------- MODULE LowEnergyDispatch -------------------------
(***************************************************************************)
(* The low-energy factory and its clients as client observers of the GATT  *)
(* multiplexer.                                                            *)
(*                                                                         *)
(* LowEnergyClient takes the delivery of an acknowledgement as one step.   *)
(* Here it is what bluetooth_gatt_interface.cpp makes of it: the HAL       *)
(* thread takes g_instance_lock, verifies the singleton and calls every    *)
(* client observer in turn; the factory and each LowEnergyClient are such  *)
(* observers, and each looks for itself whether the event is its own.      *)
(* Constructors and destructors register and deregister through Get(),     *)
(* which takes the same lock; a client born inside RegisterClientCallback  *)
(* is added through the Unsafe variant, under the lock of the walk.        *)
(***************************************************************************)
EXTENDS Naturals, Sequences, FiniteSets, SequencesExt

CONSTANTS
    HalThreads, AppThreads, MaxInstances, NoThread, Hole,   \* of GattInterface
    Uuids, ClientIfs, NoClientIf, Payloads, InvalidPayloads,
    EmptyPayloads, MaxCalls,                                \* of LowEnergyClient
    Factory            \* the LowEnergyClientFactory, as an observer

VARIABLES
    g_interface, g_instance_lock, client_observers, server_observers,
    hal_iface_, halOpen, callbacksInstalled, created, lifecycle, pc, ev,
    cursor, target, notified, held, ret, aborted,           \* of GattInterface
    factory, pending_calls_, life, le, owed, accepted, fired,
    result,            \* ret of LowEnergyClient
    arg                \* per HAL thread: the acknowledgement its callback
                       \* carries, until an observer has taken it

G  == INSTANCE GattInterface
          WITH ClientObservers <- ClientIfs \cup {Factory}, ServerObservers <- {}
LE == INSTANCE LowEnergyClient WITH ret <- result

lists    == <<client_observers, server_observers>>
gattVars == <<g_interface, hal_iface_, halOpen, callbacksInstalled, created,
              lists, g_instance_lock, lifecycle, pc, ev, cursor, target,
              notified, held, ret, aborted>>
leVars   == <<factory, pending_calls_, life, le, owed, accepted, fired, result>>
vars     == <<gattVars, leVars, arg>>

NoAck == [kind |-> "none", of |-> "none"]

TypeOK ==
    /\ G!TypeOK
    /\ LE!TypeOK
    /\ arg \in [HalThreads -> LE!Acks \cup {NoAck}]

Init ==
    /\ G!Init
    /\ LE!Init
    /\ arg = [t \in HalThreads |-> NoAck]

-----------------------------------------------------------------------------
(* The service threads *)

\* Get() is called on the way into a constructor, a destructor or a call
\* of the HAL: by a thread that has an object to use the pointer for.
HasUse == G!Fresh(Factory) \/ \E o \in ClientIfs \cup {Factory} : G!Registered(o)

\* The daemon brings the multiplexer up and takes it down, and whoever is
\* about to use it resolves the singleton.
Multiplexer(t) ==
    /\ \/ G!Initialize(t)
       \/ HasUse /\ G!Get(t)
       \/ G!QuiescentCallers /\ G!CleanUp(t)
    /\ UNCHANGED <<leVars, arg>>

\* LowEnergyClientFactory(): Get()->AddClientObserver(this).
FactoryCreate(t) ==
    /\ G!Fresh(Factory) /\ G!AddClientObserver(t, Factory)
    /\ LE!FactoryCreate
    /\ UNCHANGED arg

\* A destructor that leaves its object in the observer list.
StaysObserver(t, o) ==
    /\ G!Runs(t, "idle") /\ G!UsesHeld(t)
    /\ UNCHANGED <<lists, lifecycle>>

\* Get()->RemoveClientObserver(this), the first statement of a destructor.
Deregister(t, o) == G!Registered(o) /\ G!RemoveClientObserver(t, o)

FactoryDestroy(t) ==
    /\ Deregister(t, Factory)
    /\ LE!FactoryDestroy
    /\ UNCHANGED arg

ClientDestroy(t, c) ==
    /\ Deregister(t, c)
    /\ LE!ClientDestroy(c)
    /\ UNCHANGED arg

\* A call that is turned away before the HAL is asked does not resolve the
\* singleton; one that asks the HAL does so through the pointer of Get().
AsksHal(t) ==
    IF result' = "rejected"
      THEN held[t] = 0 /\ UNCHANGED gattVars
      ELSE /\ G!Runs(t, "idle") /\ G!UsesHeld(t)
           /\ UNCHANGED <<lists, lifecycle>>

\* RegisterClient, StartAdvertising and StopAdvertising, called by the owner
\* of the factory and of the handles.
ApiCall(t) ==
    /\ \/ \E uuid \in Uuids : LE!RegisterClient(uuid)
       \/ \E c \in ClientIfs :
            \/ LE!StopAdvertising(c)
            \/ \E adv, rsp \in Payloads : LE!StartAdvertising(c, adv, rsp)
    /\ AsksHal(t)
    /\ UNCHANGED arg

-----------------------------------------------------------------------------
(* The HAL thread *)

\* The HAL calls the static callback of the acknowledgement e it owes.
Notify(t, e) ==
    /\ e \in owed /\ \A u \in HalThreads : arg[u] # e
    /\ G!Callback(t, e.kind)
    /\ arg' = [arg EXCEPT ![t] = e]
    /\ UNCHANGED leVars

\* No observer took the event: it is gone with the return of the callback.
Lost(e) ==
    /\ owed' = owed \ {e}
    /\ UNCHANGED <<factory, pending_calls_, life, le, accepted, fired, result>>

\* VERIFY_INTERFACE_OR_RETURN and the steps of FOR_EACH_CLIENT_OBSERVER
\* between two calls; the callback may return in either.
Passes(t) ==
    /\ G!VerifyInterfaceOrReturn(t) \/ G!ForEachObserver(t)
    /\ IF g_instance_lock' = NoThread /\ arg[t] # NoAck
         THEN Lost(arg[t]) /\ arg' = [arg EXCEPT ![t] = NoAck]
         ELSE UNCHANGED <<leVars, arg>>

\* The event is for this observer: the factory has the UUID pending, the
\* client has the client_if of the event and a callback stored for it.
Awaited(o, e) ==
    CASE e.kind = "RegisterClient"  -> o = Factory /\ e.of \in pending_calls_
      [] e.kind = "MultiAdvDisable" -> o = e.of /\ LE!IsStoppingAdvertising(o)
      [] e.kind \in {"MultiAdvEnable", "MultiAdvData"}
                                    -> o = e.of /\ LE!IsStartingAdvertising(o)
      [] OTHER                      -> FALSE

\* The walk calls RegisterClientCallback of the factory, which hands a new
\* LowEnergyClient to the completion when the status is a success; the
\* client registers as an observer from inside the walk.
FactoryHandles(t) ==
    /\ G!Runs(t, "invoke") /\ Awaited(target[t], arg[t])
    /\ target[t] = Factory
    /\ \E status \in LE!Statuses, client_if \in ClientIfs \cup {NoClientIf} :
        /\ LE!RegisterClientCallback(status, client_if, arg[t].of)
        /\ IF status = "BT_STATUS_SUCCESS" THEN G!ObserverAdds(t, client_if)
                                           ELSE G!DefaultObserver(t)
    /\ arg' = [arg EXCEPT ![t] = NoAck]

\* The walk calls the override of a LowEnergyClient for its own event.
ClientHandles(t) ==
    LET c == target[t] IN
    /\ G!Runs(t, "invoke") /\ Awaited(c, arg[t])
    /\ c \in ClientIfs
    /\ \E status \in LE!Statuses :
        \/ arg[t].kind = "MultiAdvEnable" /\ LE!MultiAdvEnableCallback(c, status)
        \/ arg[t].kind = "MultiAdvData" /\ LE!MultiAdvDataCallback(c, status)
        \/ arg[t].kind = "MultiAdvDisable" /\ LE!MultiAdvDisableCallback(c, status)
    /\ G!DefaultObserver(t)
    /\ arg' = [arg EXCEPT ![t] = NoAck]

\* Every other observer returns at once: the default of ClientObserver, a
\* client_if or a UUID that is not the observer's.
Ignores(t) ==
    /\ G!Runs(t, "invoke") /\ ~Awaited(target[t], arg[t])
    /\ G!DefaultObserver(t)
    /\ UNCHANGED <<leVars, arg>>

-----------------------------------------------------------------------------
(* The specification *)

App(t) ==
    \/ Multiplexer(t)
    \/ FactoryCreate(t) \/ FactoryDestroy(t)
    \/ \E c \in ClientIfs : ClientDestroy(t, c)
    \/ ApiCall(t)

Walk(t) == Passes(t) \/ FactoryHandles(t) \/ ClientHandles(t) \/ Ignores(t)

\* The daemon has shut down for good.
Done == g_interface = 0 /\ created = MaxInstances /\ UNCHANGED vars

Next ==
    \/ \E t \in AppThreads : App(t)
    \/ \E t \in HalThreads : Walk(t) \/ \E e \in LE!Acks : Notify(t, e)
    \/ Done

Spec == Init /\ [][Next]_vars

\* The HAL acknowledges what it accepted, and a thread inside a callback
\* runs on.  Nothing is assumed of the service threads.
FairSpec ==
    /\ Spec
    /\ \A t \in HalThreads :
          /\ WF_vars(Walk(t))
          /\ \A e \in LE!Acks : WF_vars(Notify(t, e))

-----------------------------------------------------------------------------
(* Properties *)

Alive(o) == IF o = Factory THEN factory = "live" ELSE life[o] = "live"

\* The multiplexer holds and calls live objects only: an observer in the
\* list, and the one a walk has fetched and is about to call, is a factory
\* or a client that has not been destroyed.  The destructors deregister
\* under g_instance_lock, which the walk holds from its first line, so the
\* owner of a handle may destroy it while the HAL is calling back.
ObserversAreAlive ==
    /\ \A o \in ToSet(client_observers) \ {Hole} : Alive(o)
    /\ \A t \in HalThreads : pc[t] = "invoke" => Alive(target[t])

\* The walk of the multiplexer implements the delivery LowEnergyClient
\* takes as one step: an acknowledgement changes the object it is for, once,
\* and is lost only when that object is gone, whatever the calls, the
\* destructors and CleanUp do between the steps of the callback.
DispatchImplementsDelivery == LE!Init /\ [][LE!Next]_leVars

\* Every accepted call has its completion invoked unless its owner destroys
\* the object first, also when the acknowledgement has to wait for
\* g_instance_lock and passes every other observer on its way.
AcceptedCallCompletes == LE!AcceptedCallCompletes

=============================================================================
