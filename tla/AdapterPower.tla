---------------------------- MODULE AdapterPower ----------------------------
(***************************************************************************)
(* What GetState() of an Adapter promises its callers, with none of the    *)
(* threads, locks and HAL events behind it: the power state is OFF when    *)
(* the object is made, a request leaves a settled state for the            *)
(* transitional state next to it, and a transitional state ends in the     *)
(* settled state the request asked for or, when the request fails, in the  *)
(* one it came from.  No step takes the state from OFF to ON or back, or   *)
(* from one transitional state to the other.  Adapter is shown to          *)
(* implement this specification.                                           *)
(***************************************************************************)
VARIABLE state          \* the AdapterState a caller reads

Settled      == {"OFF", "ON"}
Transitional == {"TURNING_ON", "TURNING_OFF"}

\* The transitional state a request puts a settled state in, and the
\* settled state it is after.
Leaving == [OFF |-> "TURNING_ON", ON |-> "TURNING_OFF"]
Target  == [TURNING_ON |-> "ON", TURNING_OFF |-> "OFF"]

PowerInit == state = "OFF"

Requested == state \in Settled /\ state' = Leaving[state]
Settles   == state \in Transitional /\ state' = Target[state]
Fails     == \E from \in Settled : state = Leaving[from] /\ state' = from

PowerNext == Requested \/ Settles \/ Fails

PowerSpec == PowerInit /\ [][PowerNext]_state

=============================================================================
