------------------------------ MODULE MCNoOdom ------------------------------
(***************************************************************************)
(* Instances of NoOdomHoming for TLC.                                      *)
(***************************************************************************)
EXTENDS NoOdomHoming

CONSTANTS required, other  \* the required flight mode and any other one

MCModes == {required, other}

\* The vehicle is under live control throughout.
Cooperative == {[connected |-> TRUE, armed |-> TRUE, mode |-> required]}

\* The vehicle is under live control or a pilot disarms it.
Disarmable == Cooperative \cup {[connected |-> TRUE, armed |-> FALSE, mode |-> required]}

=============================================================================
