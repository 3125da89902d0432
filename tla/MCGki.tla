-------------------------------- MODULE MCGki --------------------------------
(***************************************************************************)
(* Gki for TLC.  The constants are given in the configuration file.        *)
(***************************************************************************)
EXTENDS Gki

=============================================================================
