------------------------ MODULE MCBluetoothInterface ------------------------
(***************************************************************************)
(* BluetoothInterface for TLC.  The constants are assigned in the .cfg     *)
(* files; the threads and the observers of one kind are interchangeable.   *)
(***************************************************************************)
EXTENDS BluetoothInterface, TLC

\* For invariants only.
BtSymmetry ==
    Permutations(Observers) \cup Permutations(HalThreads)
        \cup Permutations(AppThreads)

=============================================================================
