------------------------------ MODULE MCHoming ------------------------------
(***************************************************************************)
(* Instances of HomingController for TLC.  The .cfg files choose the       *)
(* switches; the vehicle reports a run lets arrive are defined here.       *)
(***************************************************************************)
EXTENDS HomingController

CONSTANTS required, other  \* the required flight mode and any other one

MCModes == {required, other}

\* The vehicle is under live control throughout.
Cooperative == {[connected |-> TRUE, armed |-> TRUE, mode |-> required]}

\* A pilot may take the armed vehicle over in another mode.
TakenOver == Cooperative \cup {[connected |-> TRUE, armed |-> TRUE, mode |-> other]}

\* The vehicle is still disarmed, or a pilot takes it over in another mode.
Piloted == Cooperative \cup
  {[connected |-> TRUE, armed |-> FALSE, mode |-> required],
   [connected |-> TRUE, armed |-> TRUE, mode |-> other]}

=============================================================================
