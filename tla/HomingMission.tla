--------------------------- MODULE HomingMission ----------------------------
(***************************************************************************)
(* What a homing mission promises, whatever it navigates by: the vehicle   *)
(* is excited until the pinger is located, steered only while it is, and   *)
(* driven only by commands that were permitted when they were sent; a      *)
(* success comes out of steering, an end is final, and only an ended       *)
(* mission leaves the process.                                             *)
(*                                                                         *)
(* Both navigation modes of pinger_homing_controller.cpp implement it:     *)
(* HomingController!ImplementsMission and NoOdomHoming!ImplementsMission.  *)
(***************************************************************************)

VARIABLES
  phase,      (* waiting, locating, steering, braking, succeeded or failed       *)
  located,    (* a localization result is in force: a lock, a confirmed bearing  *)
  permitted,  (* the vehicle is under live control, as far as the node knows     *)
  driving,    (* a surge, sway or yaw command is on the channels                 *)
  halted      (* the process has left                                            *)

vars == <<phase, located, permitted, driving, halted>>

Running == {"waiting", "locating", "steering"}
Ended   == {"succeeded", "failed"}

\* What is sent drives the vehicle only where that is allowed and permitted.
Drive(allowed) == driving' \in (IF permitted /\ allowed THEN BOOLEAN ELSE {FALSE})

\* Steering rests on a result that is in force or is found in this very step.
FoundOrHeld ==
  /\ phase = "locating" \/ (phase = "steering" /\ located)
  /\ located'

-----------------------------------------------------------------------------
\* The vehicle comes under live control or leaves it; the node has yet to react.
Permission ==
  /\ permitted' \in BOOLEAN
  /\ UNCHANGED <<phase, located, driving, halted>>

\* Something the mission needs is missing: neutral, and perhaps from scratch.
Interrupt ==
  /\ phase \in Running /\ phase' = "waiting"
  /\ located' \in {located, FALSE}
  /\ Drive(FALSE)
  /\ UNCHANGED <<permitted, halted>>

\* The vehicle is excited to be located; it comes to rest before that begins.
Locate ==
  /\ phase \in Running /\ phase' = "locating"
  /\ located' \in {located, FALSE}
  /\ Drive(phase = "locating")
  /\ UNCHANGED <<permitted, halted>>

Steer ==
  /\ FoundOrHeld /\ phase' = "steering"
  /\ Drive(TRUE)
  /\ UNCHANGED <<permitted, halted>>

Succeed ==
  /\ FoundOrHeld /\ phase' \in {"braking", "succeeded"}
  /\ Drive(phase' = "braking")
  /\ UNCHANGED <<permitted, halted>>

Brake ==
  /\ phase = "braking" /\ phase' \in {"braking", "succeeded"}
  /\ Drive(phase' = "braking")
  /\ UNCHANGED <<located, permitted, halted>>

Fail ==
  /\ phase \in Running /\ phase' = "failed"
  /\ Drive(FALSE)
  /\ UNCHANGED <<located, permitted, halted>>

Linger ==
  /\ phase \in Ended
  /\ halted' \in BOOLEAN /\ Drive(FALSE)
  /\ UNCHANGED <<phase, located, permitted>>

-----------------------------------------------------------------------------
Init ==
  /\ phase = "waiting" /\ located = FALSE /\ permitted = FALSE
  /\ driving = FALSE /\ halted = FALSE

Next ==
  /\ ~halted
  /\ \/ Permission \/ Interrupt \/ Locate \/ Steer \/ Succeed \/ Brake \/ Fail
     \/ Linger

Spec == Init /\ [][Next]_vars

=============================================================================
