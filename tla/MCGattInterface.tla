-------------------------- MODULE MCGattInterface --------------------------
(***************************************************************************)
(* GattInterface instantiated for TLC.                                     *)
(***************************************************************************)
EXTENDS GattInterface, TLC

\* Observers of one role are interchangeable, and so are the threads of one
\* kind.  Sound for the invariants only: the liveness run does not use it.
Symmetry ==
    Permutations(ClientObservers) \cup Permutations(ServerObservers)
        \cup Permutations(HalThreads) \cup Permutations(AppThreads)

=============================================================================
