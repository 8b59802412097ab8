---------------------------- MODULE VehicleLink -----------------------------
(***************************************************************************)
(* What both navigation modes of pinger_homing_controller.cpp share: the   *)
(* inputs with their freshness, the vehicle state MAVROS reports, the      *)
(* permission to control it, the RC output behind publish_command and the  *)
(* arm and mode requests.                                                  *)
(*                                                                         *)
(* The steady clock appears only through what the code compares with it:   *)
(* an input is fresh or stale, a timer is off, running or due.             *)
(***************************************************************************)
EXTENDS Integers, FiniteSets

CONSTANTS
  Modes,               (* flight modes the vehicle may report                    *)
  Reports,             (* the /mavros/state samples that may arrive              *)
  RequiredMode,        (* mode_: STABILIZE or ALT_HOLD                           *)
  DryRun,              (* dry_run_                                               *)
  AutoArm, AutoMode,   (* auto_arm_, auto_mode_                                  *)
  BootstrapOnQuality,  (* bootstrap_probe_on_audio_quality_                      *)
  DepthLimited,        (* max_vehicle_depth_m_ > 0                               *)
  Losable              (* the inputs whose messages may stop: bounds a run       *)

Inputs == {"odometry", "imu", "depth", "speed", "delta", "quality", "vehicle"}

ASSUME ModesAssumption ==
  /\ RequiredMode \in Modes /\ "" \notin Modes
  /\ Reports \subseteq [connected : BOOLEAN, armed : BOOLEAN, mode : Modes]
ASSUME LinkSwitchesAssumption ==
  /\ DryRun \in BOOLEAN /\ AutoArm \in BOOLEAN /\ AutoMode \in BOOLEAN
  /\ BootstrapOnQuality \in BOOLEAN /\ DepthLimited \in BOOLEAN
ASSUME LosableAssumption == Losable \subseteq Inputs

VARIABLES
  fresh,          (* fresh[i]: the last message of input i is within its timeout *)
  connected, armed, mode,      (* the last /mavros/state sample                  *)
  service,        (* last_service_request_ against one second                    *)
  requests,       (* MAVROS service requests sent and not yet served             *)
  lastCommand,    (* last_command_, each axis reduced to its sign                *)
  rc,             (* the last OverrideRCIn: none, released channels or PWM       *)
  halted          (* rclcpp::shutdown() was called and the process left spin     *)

Timer == {"off", "running", "due"}
Lapse(t) == IF t = "running" THEN "due" ELSE t

Command == [forward : {-1, 0, 1}, lateral : {-1, 0, 1}, heave : {-1, 0, 1}, yaw : {0, 1}]
Stop == [forward |-> 0, lateral |-> 0, heave |-> 0, yaw |-> 0]

-----------------------------------------------------------------------------
(* Permission *)

ModeMatches == mode = RequiredMode
\* Mutation: the mode is not looked at.
LiveInAnyMode == fresh["vehicle"] /\ connected /\ armed
LiveControlReady == fresh["vehicle"] /\ connected /\ ModeMatches /\ armed
AudioReadyForProbe == fresh["delta"] \/ (BootstrapOnQuality /\ fresh["quality"])

-----------------------------------------------------------------------------
(* RC output *)

\* limit_heave_by_vehicle_depth on signs: an unknown depth forbids descending,
\* at the limit the vehicle is pushed up whatever was requested.
\* Mutation: the recovery is given in depth, positive downwards.
LimitHeaveDownwards(heave, depth) ==
  IF DepthLimited /\ depth = "atLimit" THEN -1 ELSE heave
LimitHeave(heave, depth) ==
  IF DepthLimited /\ depth = "atLimit" THEN 1
  ELSE IF DepthLimited /\ depth = "unknown" /\ heave < 0 THEN 0
  ELSE heave

\* current_position_z(): odometry, else the depth sensor, else nothing.
DepthReadings ==
  IF fresh["odometry"] \/ fresh["depth"] THEN {"above", "atLimit"} ELSE {"unknown"}

\* publish_command with publish_rc and publish_release (transport rc_override):
\* a vehicle that is armed in another mode gets a neutral PWM frame, any other
\* vehicle that is not under live control a release.
OutputEnabled == ~DryRun /\ LiveControlReady
Realized(requested) ==
  IF OutputEnabled
  THEN {[requested EXCEPT !.heave = LimitHeave(requested.heave, depth)] :
          depth \in DepthReadings}
  ELSE {Stop}
\* Mutation: what was last heard of the vehicle counts, however long ago.
KindOfLastState == IF ~DryRun /\ connected /\ armed THEN "pwm" ELSE "release"
OutputKind ==
  IF ~DryRun /\ fresh["vehicle"] /\ connected /\ armed THEN "pwm" ELSE "release"
\* Mutation: without the permission nothing is sent at all.
PublishWhenEnabled(requested) ==
  IF OutputEnabled THEN lastCommand' \in Realized(requested) /\ rc' = OutputKind
  ELSE UNCHANGED <<lastCommand, rc>>
Publish(requested) == lastCommand' \in Realized(requested) /\ rc' = OutputKind

\* The vehicle is told to surge, sway or turn.
Driving == lastCommand.forward # 0 \/ lastCommand.lateral # 0 \/ lastCommand.yaw # 0

-----------------------------------------------------------------------------
(* MAVROS requests *)

\* maybe_request_arm_mode, which opens every tick of a running mission.
RequestDue == (AutoArm \/ AutoMode) /\ service = "due" /\ fresh["vehicle"] /\ connected
\* Mutation: arming is asked for together with the mode.
WantedTogether ==
  (IF AutoMode /\ ~ModeMatches THEN {"set_mode"} ELSE {})
    \cup (IF AutoArm /\ ~armed THEN {"arm"} ELSE {})
\* Mutation: the mode of an armed vehicle is left alone.
WantedWhileDisarmed ==
  IF ~ModeMatches THEN (IF AutoMode /\ ~armed THEN {"set_mode"} ELSE {})
  ELSE IF AutoArm /\ ~armed THEN {"arm"} ELSE {}
WantedRequest ==
  IF ~ModeMatches THEN (IF AutoMode THEN {"set_mode"} ELSE {})
  ELSE IF AutoArm /\ ~armed THEN {"arm"} ELSE {}
\* Mutation: the tick waits until the last call is answered.
RequestAndWait ==
  /\ requests = {} /\ requests' = IF RequestDue THEN WantedRequest ELSE {}
  /\ service' = IF RequestDue THEN "running" ELSE service
RequestArmMode ==
  IF RequestDue
  THEN /\ service' = "running"
       /\ \E available \in SUBSET WantedRequest : requests' = requests \cup available
  ELSE UNCHANGED <<service, requests>>

=============================================================================
