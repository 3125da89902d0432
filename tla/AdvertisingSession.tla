------------------------- MODULE AdvertisingSession -------------------------
(***************************************************************************)
(* What a LowEnergyClient promises its owner about advertising, with none  *)
(* of the flags, acknowledgements and HAL calls it is built from: a        *)
(* session is Idle, Starting, Started or Stopping, an accepted             *)
(* StartAdvertising or StopAdvertising is answered by one completion, and  *)
(* the session changes state only when a call is accepted or a completion *)
(* runs.  LowEnergyClient is shown to implement this specification.        *)
(***************************************************************************)
EXTENDS Naturals, Sequences

CONSTANTS
    Clients,           \* the client handles
    MaxCompletions     \* bound on the completions recorded per client

VARIABLES
    session,           \* per client: NoSession, a state, or Destroyed
    completions        \* per client: the statuses its completions were given

sessionVars == <<session, completions>>

BLEStatuses  == {"BLE_STATUS_SUCCESS", "BLE_STATUS_FAILURE"}
Stable       == {"Idle", "Started"}
Transitional == {"Starting", "Stopping"}
Lives        == {"NoSession", "Destroyed"} \cup Stable \cup Transitional

SessionTypeOK ==
    /\ session \in [Clients -> Lives]
    /\ completions \in [Clients -> Seq(BLEStatuses)]
    /\ \A c \in Clients : Len(completions[c]) <= MaxCompletions

SessionInit ==
    /\ session = [c \in Clients |-> "NoSession"]
    /\ completions = [c \in Clients |-> <<>>]

Becomes(c, from, to) ==
    /\ session[c] = from
    /\ session' = [session EXCEPT ![c] = to]

\* The handle is given to its owner, and later destroyed by it in any state;
\* a completion still owed is then never invoked.
Create(c)  == Becomes(c, "NoSession", "Idle") /\ UNCHANGED completions
Destroy(c) ==
    /\ session[c] \in Stable \cup Transitional
    /\ session' = [session EXCEPT ![c] = "Destroyed"]
    /\ UNCHANGED completions

\* A call is accepted only in the stable state it leaves.
Start(c) == Becomes(c, "Idle", "Starting") /\ UNCHANGED completions
Stop(c)  == Becomes(c, "Started", "Stopping") /\ UNCHANGED completions

\* The completion runs once, and the session is then in the state the
\* completion reports: the new one on success, the old one on failure.
Reports(c, status) == completions' = [completions EXCEPT ![c] = Append(@, status)]

Completes(c, from, success, failure) ==
    \/ Becomes(c, from, success) /\ Reports(c, "BLE_STATUS_SUCCESS")
    \/ Becomes(c, from, failure) /\ Reports(c, "BLE_STATUS_FAILURE")

StartCompletes(c) == Completes(c, "Starting", "Started", "Idle")
StopCompletes(c)  == Completes(c, "Stopping", "Idle", "Started")

SessionNext ==
    \E c \in Clients :
        \/ Create(c) \/ Destroy(c)
        \/ Start(c) \/ StartCompletes(c)
        \/ Stop(c) \/ StopCompletes(c)

SessionSpec == SessionInit /\ [][SessionNext]_sessionVars

=============================================================================
