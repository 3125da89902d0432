--------------------------- MODULE MCBluetoothCli ---------------------------
(***************************************************************************)
(* BluetoothCli for TLC.  The constants are given in the configuration     *)
(* file.                                                                   *)
(***************************************************************************)
EXTENDS BluetoothCli

=============================================================================
