------------------------ MODULE MCLowEnergyDispatch ------------------------
(***************************************************************************)
(* LowEnergyDispatch for TLC.  The HAL has two threads, so that one        *)
(* callback waits for g_instance_lock while the other walks the list.      *)
(***************************************************************************)
EXTENDS LowEnergyDispatch, TLC

\* One thread owns the factory and the handles: what it resolved the
\* singleton for is still there when it uses the pointer (HasUse).
ASSUME OneOwner == Cardinality(AppThreads) = 1

=============================================================================
