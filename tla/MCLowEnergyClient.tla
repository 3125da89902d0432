------------------------- MODULE MCLowEnergyClient -------------------------
(***************************************************************************)
(* LowEnergyClient for TLC.  Neither the factory nor the HAL tells one    *)
(* UUID or one client_if from another, so the safety runs check one       *)
(* state of every orbit.                                                   *)
(***************************************************************************)
EXTENDS LowEnergyClient, TLC

Symmetry == Permutations(Uuids) \cup Permutations(ClientIfs)

=============================================================================
