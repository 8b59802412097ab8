------------------------------ MODULE MCSystem ------------------------------
(***************************************************************************)
(* Instances of HomingSystem for TLC.                                      *)
(***************************************************************************)
EXTENDS HomingSystem

CONSTANTS required, other  \* the required flight mode and any other one

MCModes == {required, other}

\* The samples come from the vehicle.
NoReports == {}

=============================================================================
