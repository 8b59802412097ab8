---------------------------- MODULE NoOdomHoming ----------------------------
(***************************************************************************)
(* pinger_homing_controller.cpp in navigation_mode = "no_odom_phase": the  *)
(* vehicle shakes its body axes in an ABBA pattern, takes a bearing from   *)
(* the Phase slopes, turns to it and drives forward until one of three     *)
(* gates (measured speed, Phase innovation, watchdog) asks for the next    *)
(* pattern.  A calibrated range ends the mission with a reverse brake.     *)
(*                                                                         *)
(* Here the pattern is one stretch of time that ends; PhaseProbe details   *)
(* its legs.  One executor thread, one action per callback and per kind of *)
(* control_tick, and time as in VehicleLink.                               *)
(***************************************************************************)
EXTENDS VehicleLink

CONSTANTS
  ConfirmationProbes,  (* no_odom_initial_confirmation_probes_                   *)
  ProbeSamples,        (* observations finish_no_odom_probe asks for             *)
  Adaptive,            (* no_odom_reestimate_policy_ = "adaptive", else "fixed"  *)
  WatchdogEnabled,     (* no_odom_approach_max_s_ > 0                            *)
  InnovationEnabled,   (* no_odom_innovation_enabled_                            *)
  MotionResponse,      (* motion_response_enabled_                               *)
  HorizontalOnly,      (* no_odom_horizontal_only_                               *)
  VerticalControl,     (* no_odom_vertical_control_enabled_                      *)
  BrakeEnabled,        (* no_odom_terminal_brake_enabled_, command and duration  *)
                       (* positive                                               *)
  SuccessEnabled,      (* success_range_m_ > 0 and a calibrated range            *)
  RuntimeLimited,      (* max_runtime_s_ > 0                                     *)
  ExitOnTerminal       (* terminal_exit_delay_s_ > 0                             *)

ASSUME NoOdomCountsAssumption ==
  ConfirmationProbes \in 1..3 /\ ProbeSamples \in Nat \ {0}
ASSUME NoOdomSwitchesAssumption ==
  /\ Adaptive \in BOOLEAN /\ WatchdogEnabled \in BOOLEAN
  /\ InnovationEnabled \in BOOLEAN /\ MotionResponse \in BOOLEAN
  /\ HorizontalOnly \in BOOLEAN /\ VerticalControl \in BOOLEAN
  /\ BrakeEnabled \in BOOLEAN /\ SuccessEnabled \in BOOLEAN
  /\ RuntimeLimited \in BOOLEAN /\ ExitOnTerminal \in BOOLEAN

VARIABLES
  state,          (* state_                                                      *)
  stage,          (* 1, or 2 once state_started_ lies back as far as the state   *)
                  (* waits for: the pattern, the brake or the exit delay is over *)
  runtime,        (* active_started_ against max_runtime_s_                      *)
  samples,        (* no_odom_phase_samples_.size(), up to ProbeSamples           *)
  direction,      (* no_odom_direction_world_ is set                             *)
  candidate,      (* no_odom_initial_candidate_world_ is set                     *)
  consistent,     (* no_odom_initial_consistent_count_                           *)
  confirmed,      (* no_odom_initial_bearing_confirmed_                          *)
  probeCompleted, (* probe_completed_                                            *)
  forward,        (* no_odom_forward_started_: off, young, settled once it is    *)
                  (* approach_min_s old, due at approach_max_s (adaptive) or     *)
                  (* forward_duration_s (fixed)                                  *)
  window,         (* no_odom_approach_samples_: none, few, or enough with a good *)
                  (* or bad innovation of their median                           *)
  mismatch,       (* no_odom_innovation_bad_started_ against innovation_hold_s   *)
  moving,         (* motion_response_horizontal_speed_mps_ >= the minimum        *)
  commandAge,     (* motion_response_command_started_ against the grace          *)
  lowSpeed,       (* motion_response_low_speed_started_ against the hold         *)
  inRange,        (* amplitude_range() <= success_range_m_                       *)
  rangeHold       (* range_success_started_ against success_hold_s_              *)

\* History variables: they record what happened and no action reads them.
VARIABLES
  probed,         (* samples taken since the latest pattern began                *)
  streak,         (* bearings in a row that agreed, since the last outage        *)
  mixed,          (* window holds a sample of an earlier forward segment         *)
  saw             (* the held conditions the latest steering tick saw            *)

linkInputs == <<fresh, connected, armed, mode>>
sensedVars == <<moving, inRange>>
sequence   == <<state, stage>>
bearingVars == <<direction, candidate, consistent, confirmed, streak>>
probeVars  == <<samples, probed, probeCompleted>>
gateVars   == <<forward, window, mixed, mismatch, commandAge, lowSpeed>>
holdVars   == <<rangeHold, saw>>
output     == <<requests, lastCommand, rc, halted>>
vars == <<linkInputs, sensedVars, sequence, runtime, bearingVars, probeVars, gateVars,
          holdVars, service, output>>

-----------------------------------------------------------------------------
(* States and predicates of the code *)

Steered  == {"ALIGN", "APPROACH"}
Succeeded == {"TERMINAL_BRAKE", "COMPLETE"}
Terminal == {"COMPLETE", "FAILED_TIMEOUT"}
States   == {"WAIT_VEHICLE", "NO_ODOM_PHASE_PROBE"} \cup Steered \cup Succeeded \cup Terminal

\* The states whose age control_tick looks at.
Aging == {"NO_ODOM_PHASE_PROBE", "TERMINAL_BRAKE"} \cup Terminal

ForwardAge == {"off", "young", "settled", "due"}
Older(age) == IF age = "young" THEN "settled" ELSE IF age = "settled" THEN "due" ELSE age

\* no_odom_phase_ready: ALT_HOLD alone owns the depth of a horizontal profile.
PassiveVertical == HorizontalOnly /\ ~VerticalControl
Ready ==
  /\ DryRun \/ LiveControlReady
  /\ AudioReadyForProbe /\ fresh["imu"]
  /\ PassiveVertical \/ ~DepthLimited \/ fresh["depth"]

\* Mutation: the budget is not looked at while the inputs are missing.
RuntimeExceededWhenReady == RuntimeLimited /\ runtime = "due" /\ Ready
RuntimeExceeded == RuntimeLimited /\ runtime = "due"

Bearings == {"inside", "between", "outside"}

\* The commands of an ABBA leg and of the gaps between the legs.
ProbeCommands ==
  {Stop} \cup {[Stop EXCEPT !.forward = sign] : sign \in {-1, 1}}
         \cup {[Stop EXCEPT !.lateral = sign] : sign \in {-1, 1}}
         \cup (IF HorizontalOnly THEN {}
               ELSE {[Stop EXCEPT !.heave = sign] : sign \in {-1, 1}})
SteeringCommands(drive) ==
  [forward : {drive}, lateral : {0},
   heave : IF VerticalControl THEN {-1, 0, 1} ELSE {0}, yaw : {0, 1}]
Reverse == [Stop EXCEPT !.forward = -1]

-----------------------------------------------------------------------------
(* Shared effects *)

Transition(next) ==
  /\ state' = next
  /\ stage' = IF next = state THEN stage ELSE 1

\* Mutation: the segment goes on collecting into the window of the one before.
KeepWindow == UNCHANGED <<window, mixed, mismatch>>
\* reset_no_odom_approach_innovation.
ResetInnovation == window' = "none" /\ mixed' = FALSE /\ mismatch' = "off"
ResetMotionResponse == commandAge' = "off" /\ lowSpeed' = "off"

\* start_no_odom_probe: the pattern restarts even from NO_ODOM_PHASE_PROBE.
StartProbe ==
  /\ state' = "NO_ODOM_PHASE_PROBE" /\ stage' = 1
  /\ samples' = 0 /\ probed' = 0 /\ probeCompleted' = FALSE
  /\ forward' = "off" /\ ResetInnovation /\ ResetMotionResponse

\* Mutation: a success that still brakes is taken for a running mission.
RunningUnlessTerminal == ~halted /\ state \notin Terminal /\ RequestArmMode
TickRunning == ~halted /\ state \notin Succeeded \cup Terminal /\ RequestArmMode
TickReady == TickRunning /\ ~RuntimeExceeded /\ Ready

-----------------------------------------------------------------------------
(* Subscription callbacks *)

\* The message leaves nothing but its freshness: IMU attitude, depth, heartbeat.
Refresh(input) ==
  /\ ~halted
  /\ fresh' = [fresh EXCEPT ![input] = TRUE]
  /\ UNCHANGED <<connected, armed, mode, sensedVars, sequence, runtime, bearingVars,
                 probeVars, gateVars, holdVars, service, output>>
Stamped ==
  {"imu"} \cup (IF DepthLimited THEN {"depth"} ELSE {})
          \cup (IF BootstrapOnQuality THEN {"quality"} ELSE {})
OnStamped == \E input \in Stamped : Refresh(input)

\* on_motion_response_velocity: the only thing read from odometry is its speed.
OnSpeed ==
  /\ ~halted /\ MotionResponse
  /\ fresh' = [fresh EXCEPT !["speed"] = TRUE]
  /\ moving' \in BOOLEAN
  /\ UNCHANGED <<connected, armed, mode, inRange, sequence, runtime, bearingVars,
                 probeVars, gateVars, holdVars, service, output>>

\* on_delta_range with record_no_odom_approach_delta.  A delta counts for the
\* pattern while no_odom_probe_sample_enabled_, and for the forward segment in
\* APPROACH, where it also prunes what has left the window.
OnDeltaRange ==
  /\ ~halted
  /\ fresh' = [fresh EXCEPT !["delta"] = TRUE]
  /\ \/ state = "NO_ODOM_PHASE_PROBE" /\ samples < ProbeSamples
        /\ samples' = samples + 1 /\ probed' = probed + 1
     \/ UNCHANGED <<samples, probed>>
  /\ IF state = "APPROACH" /\ forward # "off"
     THEN window' \in {"few", "good", "bad"}
     ELSE UNCHANGED window
  /\ UNCHANGED <<connected, armed, mode, sensedVars, sequence, runtime, bearingVars,
                 probeCompleted, forward, mixed, mismatch, commandAge, lowSpeed,
                 holdVars, service, output>>

OnIqMagnitude ==
  /\ ~halted /\ SuccessEnabled
  /\ inRange' \in BOOLEAN
  /\ UNCHANGED <<linkInputs, moving, sequence, runtime, bearingVars, probeVars,
                 gateVars, holdVars, service, output>>

OnVehicleState(isConnected, isArmed, actualMode) ==
  /\ ~halted
  /\ fresh' = [fresh EXCEPT !["vehicle"] = TRUE]
  /\ connected' = isConnected /\ armed' = isArmed /\ mode' = actualMode
  /\ UNCHANGED <<sensedVars, sequence, runtime, bearingVars, probeVars, gateVars,
                 holdVars, service, output>>

-----------------------------------------------------------------------------
(* The passing of time *)

\* No message of input i arrived within its timeout.
Expire(i) ==
  /\ ~halted /\ i \in Losable /\ fresh[i]
  /\ fresh' = [fresh EXCEPT ![i] = FALSE]
  /\ UNCHANGED <<connected, armed, mode, sensedVars, sequence, runtime, bearingVars,
                 probeVars, gateVars, holdVars, service, output>>

\* The runtime budget is spent, or a second has passed since the last request.
TimerLapses ==
  /\ ~halted
  /\ \E timer \in {"service"} \cup (IF RuntimeLimited THEN {"runtime"} ELSE {}) :
       /\ runtime' = IF timer = "runtime" THEN Lapse(runtime) ELSE runtime
       /\ service' = IF timer = "service" THEN Lapse(service) ELSE service
  /\ <<runtime', service'>> # <<runtime, service>>
  /\ UNCHANGED <<linkInputs, sensedVars, sequence, bearingVars, probeVars, gateVars,
                 holdVars, output>>

\* The pattern with the extensions of its legs, the brake or the exit delay is over.
StageLapses ==
  /\ ~halted /\ state \in Aging /\ stage = 1 /\ stage' = 2
  /\ UNCHANGED <<linkInputs, sensedVars, state, runtime, bearingVars, probeVars,
                 gateVars, holdVars, service, output>>

ForwardLapses ==
  /\ ~halted /\ forward' = Older(forward) /\ forward' # forward
  /\ UNCHANGED <<linkInputs, sensedVars, sequence, runtime, bearingVars, probeVars,
                 window, mixed, mismatch, commandAge, lowSpeed, holdVars, service,
                 output>>

\* One of the holds has run its time.
GateLapses ==
  /\ ~halted
  /\ \/ mismatch = "running" /\ mismatch' = "due"
        /\ UNCHANGED <<commandAge, lowSpeed, rangeHold>>
     \/ commandAge = "running" /\ commandAge' = "due"
        /\ UNCHANGED <<mismatch, lowSpeed, rangeHold>>
     \/ lowSpeed = "running" /\ lowSpeed' = "due"
        /\ UNCHANGED <<mismatch, commandAge, rangeHold>>
     \/ rangeHold = "running" /\ rangeHold' = "due"
        /\ UNCHANGED <<mismatch, commandAge, lowSpeed>>
  /\ UNCHANGED <<linkInputs, sensedVars, sequence, runtime, bearingVars, probeVars,
                 forward, window, mixed, saw, service, output>>

-----------------------------------------------------------------------------
(* control_tick: time budget, permission and the pattern *)

TickTimeout ==
  /\ TickRunning /\ RuntimeExceeded
  /\ Transition("FAILED_TIMEOUT")
  /\ Publish(Stop)
  /\ UNCHANGED <<linkInputs, sensedVars, runtime, bearingVars, probeVars, gateVars,
                 holdVars, halted>>

\* A required input is stale or the vehicle left its mode: the bearing and its
\* confirmation are void, and with the state the completed probe and the hold.
\* Mutation: a confirmed bearing stays confirmed.
ForgetDirectionOnly ==
  /\ direction' = FALSE /\ candidate' = FALSE /\ consistent' = 0
  /\ UNCHANGED confirmed
ForgetBearing ==
  /\ direction' = FALSE /\ candidate' = FALSE /\ consistent' = 0
  /\ confirmed' = FALSE
TickBlocked ==
  /\ TickRunning /\ ~RuntimeExceeded /\ ~Ready
  /\ ForgetBearing /\ streak' = 0
  /\ forward' = "off" /\ mixed' = (window # "none") /\ ResetMotionResponse
  /\ Transition("WAIT_VEHICLE")
  /\ probeCompleted' = FALSE /\ rangeHold' = "off"
  /\ Publish(Stop)
  /\ UNCHANGED <<linkInputs, sensedVars, runtime, samples, probed, window, mismatch,
                 saw, halted>>

Begun == runtime' = IF runtime = "off" THEN "running" ELSE runtime

\* The first ready tick starts the pattern, which opens with a neutral settle.
TickStart ==
  /\ TickReady /\ state = "WAIT_VEHICLE"
  /\ Begun /\ StartProbe
  /\ Publish(Stop)
  /\ UNCHANGED <<linkInputs, sensedVars, bearingVars, holdVars, halted>>

TickProbe ==
  /\ TickReady /\ state = "NO_ODOM_PHASE_PROBE" /\ stage = 1
  /\ \E command \in ProbeCommands : Publish(command)
  /\ UNCHANGED <<linkInputs, sensedVars, sequence, runtime, bearingVars, probeVars,
                 gateVars, holdVars, halted>>

\* The tick that finds the pattern complete: finish_no_odom_probe.
TickAtEnd == TickReady /\ state = "NO_ODOM_PHASE_PROBE" /\ stage = 2

\* Too few observations, no rank, a weak or degenerate fit: the pattern again.
TickReject ==
  /\ TickAtEnd
  /\ StartProbe
  /\ Publish(Stop)
  /\ UNCHANGED <<linkInputs, sensedVars, runtime, bearingVars, holdVars, halted>>

\* A bearing was measured; agrees: it lies close enough to the candidate.
Measured(agrees) ==
  /\ TickAtEnd /\ samples = ProbeSamples
  /\ agrees => candidate
  /\ direction' = TRUE
AgreeingBearings(agrees) == IF agrees THEN consistent + 1 ELSE 1
Enough(bearings) == bearings >= ConfirmationProbes

\* confirm_initial_no_odom_bearing: the vehicle stays neutral and measures again.
TickUnconfirmed ==
  \E agrees \in BOOLEAN :
    /\ Measured(agrees) /\ ~confirmed
    /\ ~Enough(AgreeingBearings(agrees))
    /\ candidate' = TRUE
    /\ consistent' = AgreeingBearings(agrees)
    /\ streak' = IF agrees THEN streak + 1 ELSE 1
    /\ StartProbe
    /\ Publish(Stop)
    /\ UNCHANGED <<linkInputs, sensedVars, runtime, confirmed, holdVars, halted>>

\* The bearing is confirmed by this pattern or was before: ALIGN in the same tick.
MeasuredAndConfirmed ==
  /\ \E agrees \in BOOLEAN :
       /\ Measured(agrees)
       /\ IF confirmed THEN UNCHANGED <<candidate, consistent, streak>>
          ELSE /\ Enough(AgreeingBearings(agrees))
               /\ candidate' = TRUE
               /\ consistent' = AgreeingBearings(agrees)
               /\ streak' = IF agrees THEN streak + 1 ELSE 1
  /\ confirmed' = TRUE

-----------------------------------------------------------------------------
(* control_tick: steering; from is the state in effect, driven the forward   *)
(* command that was last published when the tick gets here                    *)

SteeringFrom(from, driven) ==
  /\ \/ /\ TickReady /\ state \in Steered /\ from = state
        /\ driven = lastCommand.forward
        /\ UNCHANGED bearingVars
     \/ /\ MeasuredAndConfirmed /\ from = "ALIGN"
        /\ driven = 0
  /\ UNCHANGED <<linkInputs, sensedVars, runtime, halted>>

Arrived == SuccessEnabled /\ inRange
Hold == IF ~Arrived THEN "off" ELSE IF rangeHold = "off" THEN "running" ELSE rangeHold
SuccessHeld == Arrived /\ rangeHold = "due"

\* maybe_complete with begin_success_terminal_sequence: a vehicle that drives
\* forward brakes first, in this very tick.
TickSucceed ==
  \E from \in Steered, driven \in {-1, 0, 1} :
    /\ SteeringFrom(from, driven) /\ SuccessHeld
    /\ probeCompleted' = TRUE /\ saw' = {"range"}
    /\ IF BrakeEnabled /\ driven = 1
       THEN Transition("TERMINAL_BRAKE") /\ Publish(Reverse)
       ELSE Transition("COMPLETE") /\ Publish(Stop)
    /\ UNCHANGED <<gateVars, rangeHold, samples, probed>>

\* handle_no_odom_motion_response for a vehicle that drives forward.
ResponseTracked == MotionResponse /\ fresh["speed"]
MeasuredlySlow == ResponseTracked /\ commandAge = "due" /\ ~moving
\* Mutation: separate slow moments add up.
FollowResponseAccumulating ==
  /\ commandAge' = IF ~ResponseTracked THEN "off"
                   ELSE IF commandAge = "off" THEN "running" ELSE commandAge
  /\ lowSpeed' = IF MeasuredlySlow /\ lowSpeed = "off" THEN "running" ELSE lowSpeed
FollowResponse ==
  /\ commandAge' = IF ~ResponseTracked THEN "off"
                   ELSE IF commandAge = "off" THEN "running" ELSE commandAge
  /\ lowSpeed' = IF ~ResponseTracked \/ commandAge = "off" THEN "off"
                 ELSE IF commandAge # "due" THEN lowSpeed
                 ELSE IF moving THEN "off"
                 ELSE IF lowSpeed = "off" THEN "running" ELSE lowSpeed

\* handle_no_odom_phase_innovation: judged once the segment is settled and the
\* window holds enough.
InnovationUsed == Adaptive /\ InnovationEnabled
InnovationBad == InnovationUsed /\ forward \in {"settled", "due"} /\ window = "bad"
FollowInnovation ==
  mismatch' = IF ~InnovationUsed THEN mismatch
              ELSE IF ~InnovationBad THEN "off"
              ELSE IF mismatch = "off" THEN "running" ELSE mismatch

\* The gates that end a forward segment.
StuckForLong == MeasuredlySlow /\ lowSpeed = "due"
MismatchForLong == InnovationBad /\ mismatch = "due"
\* Mutation: a segment without a single delta is not watched.
WatchdogOnDeltas ==
  Adaptive /\ WatchdogEnabled /\ forward = "due" /\ window # "none"
WatchdogDue == Adaptive /\ WatchdogEnabled /\ forward = "due"
CadenceDue == ~Adaptive /\ forward = "due"
SegmentOver == StuckForLong \/ MismatchForLong \/ WatchdogDue \/ CadenceDue

Seen(from) ==
  {condition \in {"range", "slow", "bad"} :
     \/ condition = "range" /\ Arrived
     \/ condition = "slow" /\ from = "APPROACH" /\ MeasuredlySlow
     \/ condition = "bad" /\ from = "APPROACH" /\ InnovationBad}

\* The mission goes on: the bearing decides between turning and driving.
Steering(from, driven) ==
  /\ SteeringFrom(from, driven) /\ ~SuccessHeld
  /\ rangeHold' = Hold /\ saw' = Seen(from)

\* The bearing is outside align_exit in ALIGN or outside align_enter in APPROACH.
TickAlign ==
  \E from \in Steered, driven \in {-1, 0, 1}, bearing \in Bearings :
    /\ Steering(from, driven)
    /\ bearing = "outside" \/ (bearing = "between" /\ from = "ALIGN")
    /\ Transition("ALIGN")
    /\ probeCompleted' = TRUE
    /\ forward' = "off" /\ mixed' = (window # "none") /\ ResetMotionResponse
    /\ \E command \in SteeringCommands(0) : Publish(command)
    /\ UNCHANGED <<window, mismatch, samples, probed>>

\* A new forward segment, whose gates start with it.
TickDepart ==
  \E driven \in {-1, 0, 1} :
    /\ Steering("ALIGN", driven)
    /\ Transition("APPROACH")
    /\ probeCompleted' = TRUE
    /\ forward' = "young" /\ ResetInnovation
    /\ commandAge' = IF MotionResponse /\ fresh["speed"] THEN "running" ELSE "off"
    /\ lowSpeed' = "off"
    /\ \E command \in SteeringCommands(1) : Publish(command)
    /\ UNCHANGED <<samples, probed>>

TickDrive ==
  \E driven \in {-1, 0, 1} :
    /\ Steering("APPROACH", driven) /\ ~SegmentOver
    /\ FollowResponse /\ FollowInnovation
    /\ \E command \in SteeringCommands(1) : Publish(command)
    /\ UNCHANGED <<sequence, probeVars, forward, window, mixed>>

\* Neutral, then the pattern again from where the vehicle is.
TickReestimate ==
  \E driven \in {-1, 0, 1} :
    /\ Steering("APPROACH", driven) /\ SegmentOver
    /\ StartProbe
    /\ Publish(Stop)

-----------------------------------------------------------------------------
(* control_tick: the end *)

\* terminal_brake_tick while the brake has permission and time left.
TickBrake ==
  /\ ~halted /\ state = "TERMINAL_BRAKE"
  /\ DryRun \/ LiveControlReady
  /\ stage = 1
  /\ Publish(Reverse)
  /\ UNCHANGED <<linkInputs, sensedVars, sequence, runtime, bearingVars, probeVars,
                 gateVars, holdVars, service, requests, halted>>

\* The brake has run its time, or control of the vehicle was lost.
\* Mutation: the end of the brake needs the permission the brake needs.
BrakeOverUnderControl == stage = 2 /\ (DryRun \/ LiveControlReady)
BrakeOver == stage = 2 \/ ~(DryRun \/ LiveControlReady)
TickBrakeOver ==
  /\ ~halted /\ state = "TERMINAL_BRAKE" /\ BrakeOver
  /\ Transition("COMPLETE")
  /\ Publish(Stop)
  /\ UNCHANGED <<linkInputs, sensedVars, runtime, bearingVars, probeVars, gateVars,
                 holdVars, service, requests, halted>>

ShutdownDue == ExitOnTerminal /\ stage = 2
TickTerminal ==
  /\ ~halted /\ state \in Terminal /\ ~ShutdownDue
  /\ Publish(Stop)
  /\ UNCHANGED <<linkInputs, sensedVars, sequence, runtime, bearingVars, probeVars,
                 gateVars, holdVars, service, requests, halted>>

TickExit ==
  /\ ~halted /\ state \in Terminal /\ ShutdownDue
  /\ lastCommand' \in Realized(Stop) /\ rc' = "release"
  /\ halted' = TRUE
  /\ UNCHANGED <<linkInputs, sensedVars, sequence, runtime, bearingVars, probeVars,
                 gateVars, holdVars, service, requests>>

Exited == halted /\ UNCHANGED vars

-----------------------------------------------------------------------------
Init ==
  /\ fresh = [i \in Inputs |-> FALSE]
  /\ connected = FALSE /\ armed = FALSE /\ mode = ""
  /\ moving = FALSE /\ inRange = FALSE
  /\ state = "WAIT_VEHICLE" /\ stage = 1 /\ runtime = "off"
  /\ direction = FALSE /\ candidate = FALSE /\ consistent = 0 /\ confirmed = FALSE
  /\ samples = 0 /\ probeCompleted = FALSE
  /\ forward = "off" /\ window = "none" /\ mismatch = "off"
  /\ commandAge = "off" /\ lowSpeed = "off"
  /\ rangeHold = "off" /\ service = "due"
  /\ requests = {} /\ lastCommand = Stop /\ rc = "none" /\ halted = FALSE
  /\ probed = 0 /\ streak = 0 /\ mixed = FALSE /\ saw = {}

OnSensor ==
  OnStamped \/ OnSpeed \/ OnDeltaRange \/ OnIqMagnitude

Callback ==
  \/ OnSensor
  \/ \E report \in Reports :
       OnVehicleState(report.connected, report.armed, report.mode)

Passing ==
  \/ \E i \in Inputs : Expire(i)
  \/ TimerLapses \/ StageLapses \/ ForwardLapses \/ GateLapses

\* control_tick of a mission that is under way.
TickMission ==
  \/ TickTimeout \/ TickBlocked \/ TickStart \/ TickProbe \/ TickReject
  \/ TickUnconfirmed \/ TickAlign \/ TickDepart \/ TickDrive \/ TickReestimate
  \/ TickSucceed

ControlTick ==
  TickMission \/ TickBrake \/ TickBrakeOver \/ TickTerminal \/ TickExit

Next == Callback \/ Passing \/ ControlTick \/ Exited

Spec == Init /\ [][Next]_vars

\* The wall timer keeps firing and the steady clock brings the brake, the pattern and
\* a forward segment to their end; no message, bearing or budget is owed.
Fairness ==
  WF_vars(ControlTick) /\ WF_vars(StageLapses) /\ WF_vars(ForwardLapses)

FairSpec == Spec /\ Fairness

-----------------------------------------------------------------------------
(* Safety *)

InputsOK ==
  /\ fresh \in [Inputs -> BOOLEAN]
  /\ connected \in BOOLEAN /\ armed \in BOOLEAN /\ mode \in Modes \cup {""}
  /\ moving \in BOOLEAN /\ inRange \in BOOLEAN
SequenceOK == state \in States /\ stage \in 1..2 /\ runtime \in Timer
BearingOK ==
  /\ direction \in BOOLEAN /\ candidate \in BOOLEAN /\ confirmed \in BOOLEAN
  /\ consistent \in 0..ConfirmationProbes
  /\ samples \in 0..ProbeSamples /\ probeCompleted \in BOOLEAN
GatesOK ==
  /\ forward \in ForwardAge /\ window \in {"none", "few", "good", "bad"}
  /\ mismatch \in Timer /\ commandAge \in Timer /\ lowSpeed \in Timer
  /\ rangeHold \in Timer
OutputsOK ==
  /\ service \in Timer /\ requests \subseteq {"set_mode", "arm"}
  /\ lastCommand \in Command /\ rc \in {"none", "release", "pwm"}
  /\ halted \in BOOLEAN
HistoryOK ==
  /\ probed \in 0..ProbeSamples /\ streak \in 0..ConfirmationProbes
  /\ mixed \in BOOLEAN /\ saw \subseteq {"range", "slow", "bad"}

\* Every variable is in its domain; above all the confirmation count never runs
\* past no_odom_initial_confirmation_probes_.
TypeOK == InputsOK /\ SequenceOK /\ BearingOK /\ GatesOK /\ OutputsOK /\ HistoryOK

\* The vehicle is steered only by a bearing that the configured number of patterns
\* in a row agreed on since the last outage, and that its latest pattern measured
\* with enough samples of its own.
BearingEarned ==
  state \in Steered \cup {"TERMINAL_BRAKE"} =>
    /\ direction /\ probeCompleted
    /\ streak = ConfirmationProbes
    /\ probed = ProbeSamples

\* The command on the channels is one that the state drives: no thrust is carried
\* into the next pattern, into an outage or past the end, reverse belongs to the
\* pattern and the brake, turning to the steering.
MotionFitsState ==
  /\ lastCommand.forward = 1 => state \in {"NO_ODOM_PHASE_PROBE", "APPROACH"}
  /\ lastCommand.forward = -1 => state \in {"NO_ODOM_PHASE_PROBE", "TERMINAL_BRAKE"}
  /\ lastCommand.lateral # 0 => state = "NO_ODOM_PHASE_PROBE"
  /\ lastCommand.yaw # 0 => state \in Steered

\* Innovation is judged on samples of the current forward segment alone.
WindowOfOneSegment == state = "APPROACH" => forward # "off" /\ ~mixed

\* A hold that is under way or has run its time saw its condition at every steering
\* tick since it started: one tick out of the success range, of measured motion or
\* of a fitting Phase delta starts it over.  A pattern in between looks at none.
HoldsUnbroken ==
  /\ rangeHold # "off" => "range" \in saw
  /\ state = "APPROACH" /\ lowSpeed # "off" => "slow" \in saw
  /\ state = "APPROACH" /\ mismatch # "off" => "bad" \in saw

-----------------------------------------------------------------------------
(* What a step may never do *)

\* Success is declared in range after a tick in range, and then it is final: no
\* budget, outage or message turns it into a failure or a request to MAVROS.
SuccessIsEarnedAndFinal ==
  [][/\ state \notin Succeeded /\ state' \in Succeeded => inRange /\ "range" \in saw
     /\ state \in Succeeded => state' \in Succeeded /\ requests' = requests]_vars

-----------------------------------------------------------------------------
(* Progress, under FairSpec *)

\* A spent runtime budget ends the mission, the rejected patterns and the outages
\* that nothing else limits included.
MissionEnds == runtime = "due" ~> state \in Terminal

\* The brake ends, and ends the mission, whether or not the vehicle stays under
\* live control.
BrakeEnds == state = "TERMINAL_BRAKE" ~> state = "COMPLETE"

\* No forward segment lasts for ever: if nothing else ends it the watchdog does.
SegmentEnds == state = "APPROACH" ~> state # "APPROACH"

-----------------------------------------------------------------------------
(* What the progress rests on *)

\* The states that a tick must bring to an end.
AwaitsTick ==
  \/ RuntimeExceeded /\ state \notin Succeeded \cup Terminal
  \/ Ready /\ state = "WAIT_VEHICLE"
  \/ state = "TERMINAL_BRAKE" /\ stage = 2
  \/ state = "APPROACH" /\ (WatchdogDue \/ CadenceDue)

\* control_tick has an outcome for each of them, whatever else holds: no combination of
\* its conditions falls through.
TickAnswers == ~halted /\ AwaitsTick => ENABLED <<ControlTick>>_vars

\* The clock passes the end of the brake and every age of a forward segment.
StagePasses ==
  ~halted /\ state = "TERMINAL_BRAKE" /\ stage = 1 => ENABLED <<StageLapses>>_vars
ForwardPasses ==
  ~halted /\ forward \in {"young", "settled"} => ENABLED <<ForwardLapses>>_vars

\* The mission can always go on where the progress needs it: neither a tick nor the
\* clock is ever blocked by the messages, the permission or a case nobody handles.
NeverStuck == TickAnswers /\ StagePasses /\ ForwardPasses

-----------------------------------------------------------------------------
(* The mission this implements *)

MissionPhase ==
  IF state = "WAIT_VEHICLE" THEN "waiting"
  ELSE IF state = "NO_ODOM_PHASE_PROBE" THEN "locating"
  ELSE IF state \in Steered THEN "steering"
  ELSE IF state = "TERMINAL_BRAKE" THEN "braking"
  ELSE IF state = "COMPLETE" THEN "succeeded"
  ELSE "failed"

Mission == INSTANCE HomingMission WITH
  phase <- MissionPhase, located <- confirmed, permitted <- OutputEnabled,
  driving <- Driving

\* The no_odom_phase mode is a homing mission, its brake included: through every
\* outage and new pattern it steers only by a confirmed bearing, drives only with the
\* permission of that moment, succeeds only out of steering and stays ended.
ImplementsMission == Mission!Spec

-----------------------------------------------------------------------------
(* What the documentation says of the program *)

\* Comment of the constructor: the watchdog "prevents an indefinitely stale bearing
\* if neither feedback stream is usable", so a vehicle that goes on driving forward
\* goes on measuring.
BearingRefreshed == []<>(state = "APPROACH") => []<>(state = "NO_ODOM_PHASE_PROBE")

=============================================================================
