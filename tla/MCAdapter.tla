------------------------------ MODULE MCAdapter ------------------------------
(***************************************************************************)
(* Adapter for TLC.  The constants are given in the configuration files.   *)
(***************************************************************************)
EXTENDS Adapter

=============================================================================
