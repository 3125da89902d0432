-------------------------- MODULE LowEnergyClient --------------------------
(***************************************************************************)
(* LowEnergyClientFactory and the LowEnergyClient handles it creates       *)
(* (service/low_energy_client.h).  The factory keeps the registrations     *)
(* that await the HAL's answer; a client keeps one advertising session.    *)
(*                                                                         *)
(* The class declarations and the unit test of the two classes are among   *)
(* the sources, the method bodies are not: the state is that of the        *)
(* header, and every operation does what the unit test observes of it.     *)
(* An API method holds the lock of its object from its first to its last   *)
(* statement and so does a handler, each is one step.  The HAL is the      *)
(* environment: it accepts or refuses a call, and owes one                 *)
(* acknowledgement for each call it accepted.                              *)
(***************************************************************************)
EXTENDS Naturals, Sequences, FiniteSets

CONSTANTS
    Uuids,             \* application identifiers
    ClientIfs,         \* the client_if values the HAL can assign
    NoClientIf,        \* the client_if of an event that reports a failure
    Payloads,          \* advertise data values
    InvalidPayloads,   \* those AdvertiseData::IsValid() rejects
    EmptyPayloads,     \* those with no data bytes
    MaxCalls           \* bound on the calls accepted per client and per UUID

VARIABLES
    factory,           \* "none", "live", "gone": the LowEnergyClientFactory
    pending_calls_,    \* UUIDs with a stored ClientCallback
    life,              \* per client_if: "free", "live" (a handle), "gone"
    le,                \* per client_if: the fields of the LowEnergyClient
    owed,              \* acknowledgements the HAL owes
    accepted,          \* history: calls accepted, per client and per UUID
    fired,             \* history: the statuses given to completions
    ret                \* how the last API call ended

vars == <<factory, pending_calls_, life, le, owed, accepted, fired, ret>>

Statuses    == {"BT_STATUS_SUCCESS", "BT_STATUS_FAIL"}
BLEStatuses == {"BLE_STATUS_SUCCESS", "BLE_STATUS_FAILURE"}
Callers  == ClientIfs \cup Uuids

\* A LowEnergyClient as its constructor leaves it.
Constructed ==
    [adv_started_ |-> FALSE, adv_start_callback_ |-> FALSE,
     adv_stop_callback_ |-> FALSE, adv_data_needs_update_ |-> FALSE,
     scan_rsp_needs_update_ |-> FALSE, is_setting_adv_data_ |-> FALSE]

Ack(kind, of) == [kind |-> kind, of |-> of]
Acks ==
    [kind : {"MultiAdvEnable", "MultiAdvData", "MultiAdvDisable"}, of : ClientIfs]
    \cup [kind : {"RegisterClient"}, of : Uuids]

TypeOK ==
    /\ factory \in {"none", "live", "gone"}
    /\ pending_calls_ \subseteq Uuids
    /\ life \in [ClientIfs -> {"free", "live", "gone"}]
    /\ le \in [ClientIfs -> [DOMAIN Constructed -> BOOLEAN]]
    /\ owed \subseteq Acks
    /\ accepted \in [Callers -> 0..MaxCalls]
    /\ fired \in [Callers -> Seq(BLEStatuses)]
    /\ ret \in {"none", "accepted", "rejected", "refused"}

Init ==
    /\ factory = "none" /\ pending_calls_ = {}
    /\ life = [c \in ClientIfs |-> "free"]
    /\ le = [c \in ClientIfs |-> Constructed]
    /\ owed = {}
    /\ accepted = [x \in Callers |-> 0]
    /\ fired = [x \in Callers |-> <<>>]
    /\ ret = "none"

IsAdvertisingStarted(c)  == le[c].adv_started_
IsStartingAdvertising(c) == ~le[c].adv_started_ /\ le[c].adv_start_callback_
IsStoppingAdvertising(c) == le[c].adv_started_ /\ le[c].adv_stop_callback_

\* A call into the mock HAL returns BT_STATUS_FAIL or BT_STATUS_SUCCESS;
\* for an accepted call the HAL owes the acknowledgement.
Refused == ret' = "refused" /\ UNCHANGED <<owed, accepted>>
Accepted(x, kind) ==
    /\ accepted[x] < MaxCalls
    /\ accepted' = [accepted EXCEPT ![x] = @ + 1]
    /\ owed' = owed \cup {Ack(kind, x)}
    /\ ret' = "accepted"
Rejected == ret' = "rejected" /\ UNCHANGED <<owed, accepted>>

PassesHalStatus(status) == status

\* The bt_status_t of the HAL as the BLEStatus a completion is given.
GetBLEStatus(status) ==
    IF status = "BT_STATUS_SUCCESS" THEN "BLE_STATUS_SUCCESS"
                                    ELSE "BLE_STATUS_FAILURE"

Invoke(x, status) ==
    fired' = [fired EXCEPT ![x] = Append(@, GetBLEStatus(status))]

-----------------------------------------------------------------------------
(* LowEnergyClientFactory *)

FactoryCreate ==
    /\ factory = "none" /\ factory' = "live"
    /\ UNCHANGED <<pending_calls_, life, le, owed, accepted, fired, ret>>

\* The stored callbacks go with the factory; their answers find no observer.
FactoryDestroy ==
    /\ factory = "live" /\ factory' = "gone"
    /\ pending_calls_' = {}
    /\ UNCHANGED <<life, le, owed, accepted, fired, ret>>

\* A UUID with a registration pending is turned away before the HAL is
\* asked; the callback is stored only when the HAL took the call.
RegisterClient(uuid) ==
    /\ factory = "live"
    /\ \/ uuid \in pending_calls_ /\ Rejected /\ UNCHANGED pending_calls_
       \/ uuid \notin pending_calls_ /\ Refused /\ UNCHANGED pending_calls_
       \/ /\ uuid \notin pending_calls_ /\ Accepted(uuid, "RegisterClient")
          /\ pending_calls_' = pending_calls_ \cup {uuid}
    /\ UNCHANGED <<factory, life, le, fired>>

\* The handle the callback receives: a new LowEnergyClient for client_if on
\* success, none on failure.
NewClient(status, client_if) ==
    IF status = "BT_STATUS_SUCCESS"
      THEN /\ client_if \in ClientIfs /\ life[client_if] = "free"
           /\ life' = [life EXCEPT ![client_if] = "live"]
      ELSE client_if = NoClientIf /\ UNCHANGED life

RegisterClientCallback(status, client_if, app_uuid) ==
    /\ factory = "live" /\ app_uuid \in pending_calls_
    /\ Ack("RegisterClient", app_uuid) \in owed
    /\ owed' = owed \ {Ack("RegisterClient", app_uuid)}
    /\ NewClient(status, client_if)
    /\ Invoke(app_uuid, status)
    /\ pending_calls_' = pending_calls_ \ {app_uuid}
    /\ UNCHANGED <<factory, le, accepted, ret>>

\* RegisterClientCallback for a UUID with no registration pending (the answer
\* to another user of the HAL, or one that comes a second time): ignored.
UnknownUuidCallback(app_uuid) ==
    /\ factory = "live" /\ app_uuid \notin pending_calls_
    /\ UNCHANGED vars

-----------------------------------------------------------------------------
(* LowEnergyClient *)

Set(c, r) == le' = [le EXCEPT ![c] = r]

\* ~LowEnergyClient: no more callbacks, then multi_adv_disable and
\* unregister_client with their results ignored.
ClientDestroy(c) ==
    /\ life[c] = "live"
    /\ life' = [life EXCEPT ![c] = "gone"]
    /\ Set(c, Constructed)
    /\ owed' \in {owed, owed \cup {Ack("MultiAdvDisable", c)}}
    /\ UNCHANGED <<factory, pending_calls_, accepted, fired, ret>>

StartAdvertising(c, advertise_data, scan_response) ==
    LET takes == /\ ~IsAdvertisingStarted(c) /\ ~IsStartingAdvertising(c)
                 /\ {advertise_data, scan_response} \cap InvalidPayloads = {}
    IN /\ life[c] = "live"
       /\ \/ ~takes /\ Rejected /\ UNCHANGED le
          \/ takes /\ Refused /\ UNCHANGED le
          \/ /\ takes /\ Accepted(c, "MultiAdvEnable")
             /\ Set(c, [le[c] EXCEPT
                    !.adv_data_needs_update_ = TRUE,
                    !.scan_rsp_needs_update_ = scan_response \notin EmptyPayloads,
                    !.adv_start_callback_ = TRUE])
       /\ UNCHANGED <<factory, pending_calls_, life, fired>>

StopAdvertising(c) ==
    LET takes == IsAdvertisingStarted(c) /\ ~IsStoppingAdvertising(c)
    IN /\ life[c] = "live"
       /\ \/ ~takes /\ Rejected /\ UNCHANGED le
          \/ takes /\ Refused /\ UNCHANGED le
          \/ /\ takes /\ Accepted(c, "MultiAdvDisable")
             /\ Set(c, [le[c] EXCEPT !.adv_stop_callback_ = TRUE])
       /\ UNCHANGED <<factory, pending_calls_, life, fired>>

\* The start callback is called and cleared, and what was still to be sent
\* is forgotten.
InvokeAndClearStartCallback(c, r, status) ==
    /\ Set(c, [r EXCEPT !.adv_start_callback_ = FALSE,
                        !.adv_data_needs_update_ = FALSE,
                        !.scan_rsp_needs_update_ = FALSE])
    /\ Invoke(c, status)

InvokesStopCallback(c, r, status) == Set(c, r) /\ Invoke(c, status)

InvokeAndClearStopCallback(c, r, status) ==
    InvokesStopCallback(c, [r EXCEPT !.adv_stop_callback_ = FALSE], status)

\* One payload is handed to the HAL; a refusal ends the start with a failure.
SetAdvertiseData(c, r, rest, set_scan_rsp) ==
    LET flag == IF set_scan_rsp THEN "scan_rsp_needs_update_"
                                ELSE "adv_data_needs_update_"
    IN \/ /\ InvokeAndClearStartCallback(c, r, "BT_STATUS_FAIL")
          /\ owed' = rest
       \/ /\ Set(c, [r EXCEPT ![flag] = FALSE, !.is_setting_adv_data_ = TRUE])
          /\ owed' = rest \cup {Ack("MultiAdvData", c)}
          /\ UNCHANGED fired

DefersForever(c, r, rest) == Set(c, r) /\ owed' = rest /\ UNCHANGED fired

\* What is left of a start once the HAL has acknowledged a step of it: the
\* advertise data, then the scan response, then the report of success.
HandleDeferredAdvertiseData(c, r, rest) ==
    IF r.adv_data_needs_update_ THEN SetAdvertiseData(c, r, rest, FALSE)
    ELSE IF r.scan_rsp_needs_update_ THEN SetAdvertiseData(c, r, rest, TRUE)
    ELSE /\ InvokeAndClearStartCallback(c, [r EXCEPT !.adv_started_ = TRUE],
                                        "BT_STATUS_SUCCESS")
         /\ owed' = rest

\* The HAL's answer to a call of client c reaches the handle, which waits
\* for it.
Reaches(c, kind) == life[c] = "live" /\ Ack(kind, c) \in owed
Rest(c, kind)    == owed \ {Ack(kind, c)}

\* A failure ends the start; a success lets it go on.
StartContinues(c, r, rest, status) ==
    IF status = "BT_STATUS_SUCCESS"
      THEN HandleDeferredAdvertiseData(c, r, rest)
      ELSE InvokeAndClearStartCallback(c, r, status) /\ owed' = rest

MultiAdvEnableCallback(c, status) ==
    /\ Reaches(c, "MultiAdvEnable") /\ IsStartingAdvertising(c)
    /\ StartContinues(c, le[c], Rest(c, "MultiAdvEnable"), status)
    /\ UNCHANGED <<factory, pending_calls_, life, accepted, ret>>

KeepsSetting(r) == r

\* is_setting_adv_data_ is reset before the status is looked at.
DataAcknowledged(r) == [r EXCEPT !.is_setting_adv_data_ = FALSE]

MultiAdvDataCallback(c, status) ==
    /\ Reaches(c, "MultiAdvData") /\ IsStartingAdvertising(c)
    /\ StartContinues(c, DataAcknowledged(le[c]), Rest(c, "MultiAdvData"),
                      status)
    /\ UNCHANGED <<factory, pending_calls_, life, accepted, ret>>

StopsWhateverTheStatus(started, status) == FALSE

\* adv_started_ after the HAL's answer to multi_adv_disable: advertising
\* goes on when the HAL failed to stop it.
StartedAfterDisable(started, status) ==
    started /\ status # "BT_STATUS_SUCCESS"

MultiAdvDisableCallback(c, status) ==
    /\ Reaches(c, "MultiAdvDisable") /\ IsStoppingAdvertising(c)
    /\ owed' = Rest(c, "MultiAdvDisable")
    /\ InvokeAndClearStopCallback(c,
           [le[c] EXCEPT !.adv_started_ = StartedAfterDisable(@, status)],
           status)
    /\ UNCHANGED <<factory, pending_calls_, life, accepted, ret>>

-----------------------------------------------------------------------------
(* The HAL and the specification *)

\* An acknowledgement whose receiver has deregistered meets no observer.
HasObserver(e) ==
    IF e.kind = "RegisterClient" THEN factory = "live" ELSE life[e.of] = "live"

Dropped(e) ==
    /\ e \in owed /\ ~HasObserver(e)
    /\ owed' = owed \ {e}
    /\ UNCHANGED <<factory, pending_calls_, life, le, accepted, fired, ret>>

\* The HAL delivers the acknowledgement e, with a status of its choosing.
Deliver(e) ==
    \/ Dropped(e)
    \/ \E status \in Statuses :
        \/ /\ e.kind = "RegisterClient"
           /\ \E client_if \in ClientIfs \cup {NoClientIf} :
                  RegisterClientCallback(status, client_if, e.of)
        \/ e.kind = "MultiAdvEnable" /\ MultiAdvEnableCallback(e.of, status)
        \/ e.kind = "MultiAdvData" /\ MultiAdvDataCallback(e.of, status)
        \/ e.kind = "MultiAdvDisable" /\ MultiAdvDisableCallback(e.of, status)

\* What the owners of the factory and of the handles do.
Call ==
    \/ FactoryCreate
    \/ FactoryDestroy
    \/ \E uuid \in Uuids : RegisterClient(uuid)
    \/ \E c \in ClientIfs :
        \/ ClientDestroy(c)
        \/ StopAdvertising(c)
        \/ \E adv, rsp \in Payloads : StartAdvertising(c, adv, rsp)

\* The service has shut down: no factory, no handle, nothing owed.
Terminated ==
    /\ factory = "gone" /\ owed = {}
    /\ \A c \in ClientIfs : life[c] # "live"
    /\ UNCHANGED vars

Next ==
    \/ Call
    \/ \E e \in Acks : Deliver(e)
    \/ \E uuid \in Uuids : UnknownUuidCallback(uuid)
    \/ Terminated

Spec == Init /\ [][Next]_vars

-----------------------------------------------------------------------------
(* Properties *)

\* The state of the advertising session of client c, as its owner sees it
\* through IsAdvertisingStarted, IsStartingAdvertising, IsStoppingAdvertising.
SessionOf(c) ==
    CASE life[c] = "free" -> "NoSession"
      [] life[c] = "gone" -> "Destroyed"
      [] IsStoppingAdvertising(c) -> "Stopping"
      [] IsAdvertisingStarted(c) -> "Started"
      [] IsStartingAdvertising(c) -> "Starting"
      [] OTHER -> "Idle"

Session == INSTANCE AdvertisingSession
               WITH Clients <- ClientIfs, MaxCompletions <- MaxCalls,
                    session <- [c \in ClientIfs |-> SessionOf(c)],
                    completions <- [c \in ClientIfs |-> fired[c]]

\* The client implements the advertising session: whatever order the calls
\* of StartAdvertising and StopAdvertising, the acknowledgements of the HAL
\* and the destruction of the handle come in, the session moves only along
\* the transitions of AdvertisingSession, and a completion runs exactly in
\* the steps that end a Starting or a Stopping.
ImplementsSession == Session!SessionSpec

\* The callbacks a caller is still owed.
Stored(x) ==
    IF x \in Uuids THEN {x} \cap pending_calls_
    ELSE {f \in {"adv_start_callback_", "adv_stop_callback_"} : le[x][f]}

Owner(x) == IF x \in Uuids THEN factory ELSE life[x]

\* Every accepted call (RegisterClient, StartAdvertising, StopAdvertising)
\* has had its completion invoked exactly once, except the last one while
\* its callback is stored.  A completion lost or invoked twice by
\* InvokeAndClearStartCallback, InvokeAndClearStopCallback or
\* RegisterClientCallback breaks it.
OneCompletionPerAcceptedCall ==
    \A x \in Callers :
        Owner(x) = "live" =>
            accepted[x] = Len(fired[x]) + Cardinality(Stored(x))

\* The acknowledgement a live client is waiting for.
Awaits(c) ==
    CASE IsStartingAdvertising(c) ->
             {IF le[c].is_setting_adv_data_ THEN "MultiAdvData"
                                            ELSE "MultiAdvEnable"}
      [] IsStoppingAdvertising(c) -> {"MultiAdvDisable"}
      [] OTHER -> {}

\* Client and HAL agree on what is outstanding: the acknowledgements owed to
\* a live client are exactly the one its state waits for (one HAL call per
\* client at a time, the scan response only after the advertise data was
\* acknowledged), and the factory stores a callback exactly for the
\* registrations the HAL still owes.  It fails when a handler returns to a
\* stable state with a call in flight, or keeps waiting for an
\* acknowledgement the HAL does not owe.
OwedIsAwaited ==
    /\ \A c \in ClientIfs :
           life[c] = "live" => {e.kind : e \in {a \in owed : a.of = c}} = Awaits(c)
    /\ factory = "live" =>
           pending_calls_ = {e.of : e \in {a \in owed : a.kind = "RegisterClient"}}

\* Every accepted call is answered: its completion is invoked, unless the
\* owner destroys the client (or the factory) first.  This needs the HAL to
\* acknowledge what it accepted; the code has no timeout.
AcceptedCallCompletes ==
    \A x \in Callers :
        (Owner(x) = "live" /\ Stored(x) # {})
            ~> (Owner(x) # "live" \/ Stored(x) = {})

\* The design's table of the advertising state machine: the HAL's answer to
\* a disable, whatever its status, takes a Stopping session to Idle.
StopAlwaysEndsAdvertising ==
    [][\A c \in ClientIfs :
           SessionOf(c) = "Stopping" /\ SessionOf(c)' # "Stopping"
               => SessionOf(c)' \in {"Idle", "Destroyed"}]_vars

=============================================================================
