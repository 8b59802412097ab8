---------------------------- MODULE HomingLaunch ----------------------------
(***************************************************************************)
(* What the interactive launch promises, whoever chooses the frequency:    *)
(* one frequency of the band is chosen for good, the controller starts on  *)
(* it and on no other, at most once and not in a launch that is closing;   *)
(* the simulator GUI yields its RC publisher to a controller that starts,  *)
(* gets it back only from a launch that is closing, and keeps it then.     *)
(*                                                                         *)
(* PingerStartup implements it: PingerStartup!ImplementsLaunch.            *)
(***************************************************************************)

CONSTANTS Band, None

VARIABLES
  choice,   (* the frequency that was chosen, None before that                   *)
  started,  (* the frequency the controller was started on, None before that     *)
  closing,  (* the launch is shutting down                                       *)
  owner,    (* who may publish RC commands: the gui or the controller            *)
  settled   (* that does not change any more                                     *)

vars == <<choice, started, closing, owner, settled>>

-----------------------------------------------------------------------------
Choose ==
  /\ choice = None /\ choice' \in Band
  /\ UNCHANGED <<started, closing, owner, settled>>

\* The GUI yields to the controller that starts, or there is none to yield.
Start ==
  /\ ~closing /\ started = None
  /\ choice # None /\ started' = choice
  /\ owner' \in {owner, "controller"}
  /\ UNCHANGED <<choice, closing, settled>>

Close ==
  /\ ~closing /\ closing' = TRUE
  /\ UNCHANGED <<choice, started, owner, settled>>

\* A GUI that was asked too late for a start yields all the same.
YieldLate ==
  /\ closing /\ ~settled /\ owner' = "controller" /\ settled' \in BOOLEAN
  /\ UNCHANGED <<choice, started, closing>>

\* The GUI gets its publisher back, or is not to have it.
Settle ==
  /\ closing /\ ~settled /\ settled' = TRUE
  /\ owner' \in {owner, "gui"}
  /\ UNCHANGED <<choice, started, closing>>

-----------------------------------------------------------------------------
Init ==
  /\ choice = None /\ started = None /\ closing = FALSE
  /\ owner = "gui" /\ settled = FALSE

Next == Choose \/ Start \/ Close \/ YieldLate \/ Settle

Spec == Init /\ [][Next]_vars

=============================================================================
