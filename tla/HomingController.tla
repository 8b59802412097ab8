-------------------------- MODULE HomingController --------------------------
(***************************************************************************)
(* The deployed C++ controller, pinger_homing_controller.cpp, running      *)
(* navigation_mode = "odometry" with the Phase estimator and               *)
(* legacy_python_sequence: neutral-separated probe legs, a source fit at   *)
(* the end of each leg, then ALIGN / APPROACH / CONTACT steering towards   *)
(* the locked source.                                                      *)
(*                                                                         *)
(* One rclcpp executor thread runs every callback to completion, so each   *)
(* subscription callback and each control_tick is one action.  The steady  *)
(* clock appears only through what the code compares with it: an input is  *)
(* fresh or stale, a timer is off, running or due, and a state has a       *)
(* position (stage) on its own timeline.  Every order of expirations,      *)
(* messages and ticks that some choice of timeouts and delays produces is  *)
(* a behaviour.                                                            *)
(***************************************************************************)
EXTENDS VehicleLink

CONSTANTS
  MinimumLegs,         (* minimum_probe_legs_                                    *)
  FitSamples,          (* fewest RangeSamples a source fit accepts (30)          *)
  MaxRange,            (* amplitude ranges are the levels 1..MaxRange, each more *)
                       (* than range_progress_delta_m_ above the one before it;  *)
                       (* 0 when amplitude_range_constant_ is not calibrated     *)
  SuccessRange,        (* the level of success_range_m_, 0 when disabled         *)
  ArrivalEnabled,      (* arrival_radius_m_ > 0                                  *)
  RuntimeLimited,      (* max_runtime_s_ > 0                                     *)
  ExitOnTerminal       (* terminal_exit_delay_s_ > 0                             *)

ASSUME SwitchesAssumption ==
  /\ ArrivalEnabled \in BOOLEAN /\ RuntimeLimited \in BOOLEAN
  /\ ExitOnTerminal \in BOOLEAN
ASSUME CountsAssumption ==
  /\ MinimumLegs \in 1..4
  /\ FitSamples \in Nat \ {0}
  /\ MaxRange \in Nat
  /\ SuccessRange \in 0..MaxRange

VARIABLES
  range,          (* amplitude_range(), 0 for nullopt                            *)
  state,          (* state_                                                      *)
  stage,          (* how far state_started_ lies back, as a point of the         *)
                  (* timeline of the state                                       *)
  probeCompleted, (* probe_completed_                                            *)
  attempt,        (* probe_attempt_                                              *)
  nearReprobes,   (* near_reprobe_count_                                         *)
  samples,        (* samples_.size(), up to FitSamples                           *)
  estimate,       (* source_estimate_ and source_smoothed_ are set               *)
  locked,         (* source_locked_ is set                                       *)
  forceAccepted,  (* last_force_fit_accepted_                                    *)
  best,           (* best_amplitude_distance_, MaxRange + 1 for infinity         *)
  runtime,        (* active_started_ against max_runtime_s_                      *)
  progress,       (* last_range_progress_ against range_progress_timeout_s_      *)
  rangeHold,      (* range_success_started_ against success_hold_s_              *)
  arrivalHold     (* arrival_success_started_ against arrival_hold_s_            *)

\* History variables: they record what happened and no action reads them.
VARIABLES
  legs,           (* probe legs driven to their end since samples_ was cleared,  *)
                  (* counted up to MinimumLegs                                   *)
  resumedLegs,    (* the same since the last WAIT_VEHICLE -> PROBE               *)
  confirming,     (* a near first fit asked for one more leg, not yet driven     *)
  tainted,        (* samples_ holds a sample taken before the mission started    *)
  arrivedNow      (* the latest control tick saw the lock within arrival radius  *)

inputVars   == <<fresh, connected, armed, mode, range>>
sequenceVars == <<state, stage, probeCompleted, attempt, nearReprobes>>
sourceVars  == <<samples, estimate, locked, forceAccepted>>
timerVars   == <<best, runtime, progress, rangeHold, arrivalHold, service>>
outputVars  == <<requests, lastCommand, rc, halted>>
historyVars == <<legs, resumedLegs, confirming, tainted, arrivedNow>>
vars == <<inputVars, sequenceVars, sourceVars, timerVars, outputVars, historyVars>>

-----------------------------------------------------------------------------
(* States, timelines and commands *)

Probing  == {"PROBE", "REPROBE"}
Guided   == {"ALIGN", "APPROACH", "CONTACT"}

\* Mutation: one FAILED_ state is not recognized as the end of the mission.
ForgetfulTerminal == {"COMPLETE", "FAILED_TIMEOUT"}
Terminal == {"COMPLETE", "FAILED_TIMEOUT", "FAILED_ESTIMATE"}

States   == {"WAIT_VEHICLE"} \cup Probing \cup Guided \cup Terminal

\* legacy_python_probe_command: 1, 3, 5 and 7 are the neutral gaps, 2, 4 and 6
\* the body axes, 8 the completed timeline.
ProbeDone == 8
\* approach_command compares the age of APPROACH with six seconds.
ApproachSettled == 2
\* maybe_shutdown_after_terminal compares the age with terminal_exit_delay_s_.
ExitDue == 2

LastStage(s) ==
  IF s \in Probing THEN ProbeDone
  ELSE IF s = "APPROACH" THEN ApproachSettled
  ELSE IF s \in Terminal THEN ExitDue
  ELSE 1

MaxAttempt == 3       \* probe_attempt_ < 3 in probe_command
MaxNearReprobes == 2  \* near_reprobe_count_ < 2 in approach_command

\* The Python excitation timeline; the mirrored leg reverses only the sway.
ProbeLeg(s, point, heave) ==
  [Stop EXCEPT
     !.forward = IF point = 2 THEN 1 ELSE 0,
     !.lateral = IF point # 4 THEN 0 ELSE IF s = "REPROBE" THEN -1 ELSE 1,
     !.heave   = IF point = 6 THEN heave ELSE 0]

-----------------------------------------------------------------------------
(* Predicates of the code *)

Ready == (DryRun \/ LiveControlReady) /\ fresh["odometry"] /\ AudioReadyForProbe

\* Mutations: the cached estimate authorizes a lock; the flags are compared.
CachedFitCanLock(result, accepted, usable) == usable
AgreeingFlagsCanLock(result, accepted, usable) == result = accepted
CompletedProbeFitCanLock(result, accepted, usable) == result /\ accepted /\ usable

\* Mutation: one leg too few.
OneLegFewerRequired == attempt + 2 < MinimumLegs
MoreLegsRequired == attempt + 1 < MinimumLegs

\* Mutation: one retry too many.
OneMoreRetryLeft == attempt <= MaxAttempt
RetryLeft == attempt < MaxAttempt

FirstFitNeedsConfirmation(near) == SuccessRange = 0 /\ attempt = 0 /\ near

\* Mutation: the fallback stays active beside a calibrated threshold.
FallbackAlways == ArrivalEnabled
EstimatedArrivalFallback == SuccessRange = 0 /\ ArrivalEnabled
CalibratedArrival == SuccessRange > 0 /\ range # 0 /\ range <= SuccessRange
RangeImproved == range # 0 /\ range < best
\* Mutation: near reprobes are not limited.
RangeStalledUnlimited ==
  /\ range # 0 /\ ~RangeImproved
  /\ state = "APPROACH" /\ stage = ApproachSettled
  /\ progress = "due"
RangeStalled ==
  /\ range # 0 /\ ~RangeImproved
  /\ state = "APPROACH" /\ stage = ApproachSettled
  /\ progress = "due"
  /\ nearReprobes < MaxNearReprobes

\* The bearing is inside align_exit, between the two thresholds or outside
\* align_enter; ALIGN is left at the inner one and entered at the outer one.
Bearings == {"inside", "between", "outside"}
MustAlign(bearing) == bearing = "outside" \/ (bearing = "between" /\ state = "ALIGN")

-----------------------------------------------------------------------------
(* Shared effects *)

\* transition(): a transition to the current state changes nothing at all.
Transition(next) ==
  /\ state' = next
  /\ stage' = IF next = state THEN stage ELSE 1

\* reset_localization_for_initial_probe and reset_localization_for_near_probe.
\* Mutation: the samples survive the reset.
DropEstimateOnly ==
  /\ estimate' = FALSE /\ locked' = FALSE /\ forceAccepted' = FALSE
  /\ best' = MaxRange + 1 /\ progress' = "running"
  /\ UNCHANGED <<samples, legs, resumedLegs, tainted>>
DropLocalization ==
  /\ samples' = 0 /\ estimate' = FALSE /\ locked' = FALSE /\ forceAccepted' = FALSE
  /\ best' = MaxRange + 1 /\ progress' = "running"
  /\ legs' = 0 /\ resumedLegs' = 0 /\ tainted' = FALSE

\* transition() to WAIT_VEHICLE, PROBE and REPROBE also voids the arrival holds.
RestartHolds ==
  /\ probeCompleted' = FALSE
  /\ rangeHold' = "off" /\ arrivalHold' = "off"

\* maybe_fit_source(now, false): every source_fit_period_s_ a fit may succeed
\* once enough samples are there; a rejected fit keeps the previous estimate.
FitOutcomes == IF samples = FitSamples THEN BOOLEAN ELSE {FALSE}

\* The start of every control tick whose mission is not over.
\* Mutation: the budget is not looked at while the inputs are missing.
RuntimeExceededWhenReady == RuntimeLimited /\ runtime = "due" /\ Ready
RuntimeExceeded == RuntimeLimited /\ runtime = "due"
TickRunning == ~halted /\ state \notin Terminal /\ RequestArmMode
TickReady == TickRunning /\ ~RuntimeExceeded /\ Ready

-----------------------------------------------------------------------------
(* Subscription callbacks and the passing of time *)

OnOdometry ==
  /\ ~halted
  /\ fresh' = [fresh EXCEPT !["odometry"] = TRUE]
  /\ UNCHANGED <<connected, armed, mode, range, sequenceVars, sourceVars,
                 timerVars, outputVars, historyVars>>

\* The heartbeat of the estimator, which only a bootstrapping node looks at.
OnAudioQuality ==
  /\ ~halted /\ BootstrapOnQuality
  /\ fresh' = [fresh EXCEPT !["quality"] = TRUE]
  /\ UNCHANGED <<connected, armed, mode, range, sequenceVars, sourceVars,
                 timerVars, outputVars, historyVars>>

\* The depth sensor, which only a depth-limited node looks at.
OnDepthPose ==
  /\ ~halted /\ DepthLimited
  /\ fresh' = [fresh EXCEPT !["depth"] = TRUE]
  /\ UNCHANGED <<connected, armed, mode, range, sequenceVars, sourceVars,
                 timerVars, outputVars, historyVars>>

\* A delta becomes a RangeSample only when it can be paired with a fresh pose.
OnDeltaRange ==
  /\ ~halted
  /\ fresh' = [fresh EXCEPT !["delta"] = TRUE]
  /\ IF fresh["odometry"]
     THEN /\ samples' = IF samples < FitSamples THEN samples + 1 ELSE samples
          /\ tainted' = (tainted \/ runtime = "off")
     ELSE UNCHANGED <<samples, tainted>>
  /\ UNCHANGED <<connected, armed, mode, range, sequenceVars, estimate, locked,
                 forceAccepted, timerVars, outputVars, legs, resumedLegs,
                 confirming, arrivedNow>>

\* The median of the last nine calibrated magnitudes.
OnIqMagnitude ==
  /\ ~halted
  /\ \E r \in 1..MaxRange : range' = r
  /\ UNCHANGED <<fresh, connected, armed, mode, sequenceVars, sourceVars,
                 timerVars, outputVars, historyVars>>

OnVehicleState(isConnected, isArmed, actualMode) ==
  /\ ~halted
  /\ fresh' = [fresh EXCEPT !["vehicle"] = TRUE]
  /\ connected' = isConnected /\ armed' = isArmed /\ mode' = actualMode
  /\ UNCHANGED <<range, sequenceVars, sourceVars, timerVars, outputVars, historyVars>>

\* No message of input i arrived within its timeout.
Expire(i) ==
  /\ ~halted /\ i \in Losable /\ fresh[i]
  /\ fresh' = [fresh EXCEPT ![i] = FALSE]
  /\ UNCHANGED <<connected, armed, mode, range, sequenceVars, sourceVars,
                 timerVars, outputVars, historyVars>>

RuntimeLapses ==
  /\ ~halted /\ RuntimeLimited /\ runtime = "running" /\ runtime' = "due"
  /\ UNCHANGED <<inputVars, sequenceVars, sourceVars, best, progress, rangeHold,
                 arrivalHold, service, outputVars, historyVars>>

\* Only a mission with a calibrated range ever looks at this timer.
ProgressLapses ==
  /\ ~halted /\ MaxRange > 0 /\ progress = "running" /\ progress' = "due"
  /\ UNCHANGED <<inputVars, sequenceVars, sourceVars, best, runtime, rangeHold,
                 arrivalHold, service, outputVars, historyVars>>

HoldLapses ==
  /\ ~halted
  /\ rangeHold' = Lapse(rangeHold) /\ arrivalHold' = Lapse(arrivalHold)
  /\ <<rangeHold, arrivalHold>>' # <<rangeHold, arrivalHold>>
  /\ UNCHANGED <<inputVars, sequenceVars, sourceVars, best, runtime, progress,
                 service, outputVars, historyVars>>

ServiceLapses ==
  /\ ~halted /\ service = "running" /\ service' = "due"
  /\ UNCHANGED <<inputVars, sequenceVars, sourceVars, best, runtime, progress,
                 rangeHold, arrivalHold, outputVars, historyVars>>

\* Legs are counted up to the number that is asked for.
OneMore(count) == IF count < MinimumLegs THEN count + 1 ELSE count

\* The age of the current state crosses the next point of its timeline.
StageLapses ==
  /\ ~halted /\ stage < LastStage(state)
  /\ stage' = stage + 1
  /\ IF state \in Probing /\ stage' = ProbeDone
     THEN /\ legs' = OneMore(legs) /\ resumedLegs' = OneMore(resumedLegs)
          /\ confirming' = FALSE
     ELSE UNCHANGED <<legs, resumedLegs, confirming>>
  /\ UNCHANGED <<inputVars, state, probeCompleted, attempt, nearReprobes,
                 sourceVars, timerVars, outputVars, tainted, arrivedNow>>

-----------------------------------------------------------------------------
(* control_tick before the mission is localized *)

\* Past max_runtime_s_ the mission fails, whatever state it is in.
TickTimeout ==
  /\ TickRunning /\ RuntimeExceeded
  /\ Transition("FAILED_TIMEOUT")
  /\ Publish(Stop)
  /\ arrivedNow' = FALSE
  /\ UNCHANGED <<inputVars, probeCompleted, attempt, nearReprobes, sourceVars,
                 best, runtime, progress, rangeHold, arrivalHold, halted,
                 legs, resumedLegs, confirming, tainted>>

\* A required input is stale or the vehicle left its mode: back to WAIT_VEHICLE.
\* Samples, estimate, lock, attempt and budgets all survive.
TickBlocked ==
  /\ TickRunning /\ ~RuntimeExceeded /\ ~Ready
  /\ Transition("WAIT_VEHICLE")
  /\ RestartHolds
  /\ Publish(Stop)
  /\ arrivedNow' = FALSE
  /\ UNCHANGED <<inputVars, attempt, nearReprobes, sourceVars, best, runtime,
                 progress, halted, legs, resumedLegs, confirming, tainted>>

\* The first ready tick starts the runtime budget on a cleared localization.
TickBegin ==
  /\ TickReady /\ state = "WAIT_VEHICLE" /\ runtime = "off"
  /\ DropLocalization
  /\ runtime' = "running"
  /\ Transition("PROBE")
  /\ RestartHolds
  /\ Publish(Stop)
  /\ arrivedNow' = FALSE
  /\ UNCHANGED <<inputVars, attempt, nearReprobes, halted, confirming>>

\* After an outage the probe timeline restarts on what was already collected.
TickResume ==
  /\ TickReady /\ state = "WAIT_VEHICLE" /\ runtime # "off"
  /\ \E fitted \in FitOutcomes : estimate' = (estimate \/ fitted)
  /\ progress' = "running"
  /\ Transition("PROBE")
  /\ RestartHolds
  /\ Publish(Stop)
  /\ resumedLegs' = 0 /\ arrivedNow' = FALSE
  /\ UNCHANGED <<inputVars, attempt, nearReprobes, samples, locked, forceAccepted,
                 best, runtime, halted, legs, confirming, tainted>>

-----------------------------------------------------------------------------
(* control_tick in PROBE and REPROBE *)

\* Within the timeline the leg under way is driven.
TickProbe ==
  /\ TickReady /\ state \in Probing /\ stage < ProbeDone
  /\ \E fitted \in FitOutcomes : estimate' = (estimate \/ fitted)
  /\ rangeHold' = "off" /\ arrivalHold' = "off"
  /\ \E heave \in {-1, 0, 1} : Publish(ProbeLeg(state, stage, heave))
  /\ arrivedNow' = FALSE
  /\ UNCHANGED <<inputVars, sequenceVars, samples, locked, forceAccepted, best,
                 runtime, progress, halted, legs, resumedLegs, confirming, tainted>>

\* The tick that finds the timeline complete: a periodic fit may precede the
\* forced one; usable is estimate_usable() after both.
AtBoundary(forced, usable) ==
  /\ TickReady /\ state \in Probing /\ stage = ProbeDone
  /\ \E fitted \in FitOutcomes : usable = (estimate \/ fitted \/ forced)
  /\ forced \in FitOutcomes
  /\ forceAccepted' = forced
  /\ rangeHold' = "off" /\ arrivalHold' = "off"
  /\ Publish(Stop)
  /\ arrivedNow' = FALSE
  /\ UNCHANGED <<inputVars, nearReprobes, samples, best, runtime, progress,
                 halted, legs, resumedLegs, tainted>>

\* The other of PROBE and REPROBE: the next leg mirrors the sway.
Mirrored == IF state = "PROBE" THEN "REPROBE" ELSE "PROBE"

\* Mutation: the leg is not counted.
NextLegUncounted ==
  /\ Transition(Mirrored) /\ probeCompleted' = FALSE
  /\ UNCHANGED attempt
NextLeg ==
  /\ attempt' = attempt + 1
  /\ Transition(Mirrored) /\ probeCompleted' = FALSE

\* An accepted fit before the configured number of legs asks for the next leg.
ProbeNextLeg ==
  \E forced, usable \in BOOLEAN :
    /\ AtBoundary(forced, usable)
    /\ CompletedProbeFitCanLock(forced, forceAccepted', usable)
    /\ MoreLegsRequired
    /\ NextLeg
    /\ estimate' = usable
    /\ UNCHANGED <<locked, confirming>>

\* A near first fit of an uncalibrated mission is dropped and REPROBE asked for.
ProbeConfirm ==
  \E forced, usable \in BOOLEAN :
    /\ AtBoundary(forced, usable)
    /\ CompletedProbeFitCanLock(forced, forceAccepted', usable)
    /\ ~MoreLegsRequired
    /\ FirstFitNeedsConfirmation(TRUE)
    /\ attempt' = attempt + 1
    /\ Transition("REPROBE") /\ probeCompleted' = FALSE
    /\ estimate' = FALSE
    /\ confirming' = TRUE
    /\ UNCHANGED locked

\* The source is locked, unless an earlier lock is still held.
ProbeLock ==
  \E forced, usable, near \in BOOLEAN :
    /\ AtBoundary(forced, usable)
    /\ CompletedProbeFitCanLock(forced, forceAccepted', usable)
    /\ ~MoreLegsRequired
    /\ ~FirstFitNeedsConfirmation(near)
    /\ locked' = TRUE
    /\ Transition("ALIGN") /\ probeCompleted' = TRUE
    /\ estimate' = usable
    /\ UNCHANGED <<attempt, confirming>>

\* A rejected fit drives the mirrored leg next.
ProbeRetry ==
  \E forced, usable \in BOOLEAN :
    /\ AtBoundary(forced, usable)
    /\ ~CompletedProbeFitCanLock(forced, forceAccepted', usable)
    /\ RetryLeft
    /\ NextLeg
    /\ estimate' = usable
    /\ UNCHANGED <<locked, confirming>>

\* The retries are spent.
ProbeFail ==
  \E forced, usable \in BOOLEAN :
    /\ AtBoundary(forced, usable)
    /\ ~CompletedProbeFitCanLock(forced, forceAccepted', usable)
    /\ ~RetryLeft
    /\ Transition("FAILED_ESTIMATE")
    /\ estimate' = usable
    /\ UNCHANGED <<probeCompleted, attempt, locked, confirming>>

-----------------------------------------------------------------------------
(* control_tick in ALIGN, APPROACH and CONTACT *)

\* usable: estimate_usable() after the periodic fit of this tick;
\* inRadius: the pose lies within arrival_radius_m_ of the locked source.
EstimatedArrival(usable, inRadius) ==
  EstimatedArrivalFallback /\ locked /\ usable /\ inRadius

\* Mutation: a hold is not reset when its condition fails.
HoldKept(timer, condition) ==
  IF condition /\ timer = "off" THEN "running" ELSE timer
Hold(timer, condition) ==
  IF ~condition THEN "off" ELSE IF timer = "off" THEN "running" ELSE timer

\* maybe_complete: a hold that has run its time completes the mission.
HoldComplete(usable, inRadius) ==
  \/ CalibratedArrival /\ rangeHold = "due"
  \/ EstimatedArrival(usable, inRadius) /\ arrivalHold = "due"

\* A calibrated success returns before the estimated hold is looked at.
UpdateHolds(usable, inRadius) ==
  /\ rangeHold' = Hold(rangeHold, CalibratedArrival)
  /\ arrivalHold' = IF CalibratedArrival /\ rangeHold = "due" THEN arrivalHold
                    ELSE Hold(arrivalHold, EstimatedArrival(usable, inRadius))

\* What the history calls an arrival: calibrated when a success range is set.
Arrived(inRadius) ==
  (SuccessRange > 0 /\ range \in 1..SuccessRange) \/ (SuccessRange = 0 /\ inRadius)

GuidedTick(usable, inRadius) ==
  /\ TickReady /\ state \in Guided
  /\ \E fitted \in FitOutcomes : usable = (estimate \/ fitted)
  /\ arrivedNow' = Arrived(inRadius)
  /\ UNCHANGED <<inputVars, runtime, halted, confirming>>

TickComplete ==
  \E usable, inRadius \in BOOLEAN :
    /\ GuidedTick(usable, inRadius)
    /\ HoldComplete(usable, inRadius) /\ UpdateHolds(usable, inRadius)
    /\ Transition("COMPLETE")
    /\ Publish(Stop)
    /\ estimate' = usable
    /\ UNCHANGED <<probeCompleted, attempt, nearReprobes, samples, locked,
                   forceAccepted, best, progress, legs, resumedLegs, tainted>>

\* approach_command.  The range that stopped improving throws the lock away and
\* starts over from samples of the new place, at most MaxNearReprobes times.
TickStalled ==
  \E usable, inRadius \in BOOLEAN :
    /\ GuidedTick(usable, inRadius) /\ ~HoldComplete(usable, inRadius)
    /\ RangeStalled
    /\ nearReprobes' = nearReprobes + 1
    /\ DropLocalization
    /\ attempt' = 0
    /\ Transition("REPROBE")
    /\ RestartHolds
    /\ Publish(Stop)

\* The steering part of approach_command: a locked source is the only vector
\* source of this configuration.
Steering(usable, inRadius) ==
  /\ GuidedTick(usable, inRadius) /\ ~HoldComplete(usable, inRadius)
  /\ ~RangeStalled /\ locked
  /\ best' = IF RangeImproved THEN range ELSE best
  /\ progress' = IF RangeImproved THEN "running" ELSE progress
  /\ estimate' = usable
  /\ UNCHANGED <<attempt, nearReprobes, samples, locked, forceAccepted, legs,
                 resumedLegs, tainted>>

\* Nothing to steer by: the lock is more than 80 m away (a calibrated range never
\* is) or exactly where the vehicle is.
TickBeyond ==
  \E usable, inRadius, onTop \in BOOLEAN :
    /\ Steering(usable, inRadius)
    /\ onTop \/ (range = 0 /\ ~inRadius)
    /\ Transition("REPROBE")
    /\ RestartHolds
    /\ Publish(Stop)

TickAlign ==
  \E usable, inRadius \in BOOLEAN, bearing \in Bearings :
    /\ Steering(usable, inRadius) /\ UpdateHolds(usable, inRadius)
    /\ MustAlign(bearing)
    /\ Transition("ALIGN")
    /\ \E yaw \in {0, 1}, heave \in {-1, 0, 1} :
         Publish([Stop EXCEPT !.yaw = yaw, !.heave = heave])
    /\ UNCHANGED probeCompleted

TickForward ==
  \E usable, inRadius \in BOOLEAN, bearing \in Bearings :
    /\ Steering(usable, inRadius) /\ UpdateHolds(usable, inRadius)
    /\ ~MustAlign(bearing)
    /\ Transition("APPROACH") \/ Transition("CONTACT")
    /\ \E yaw \in {0, 1}, heave \in {-1, 0, 1} :
         Publish([Stop EXCEPT !.forward = 1, !.yaw = yaw, !.heave = heave])
    /\ UNCHANGED probeCompleted

-----------------------------------------------------------------------------
(* control_tick after the mission *)

\* Mutation: only a successful mission ends the node.
ShutdownDueOnSuccess == ExitOnTerminal /\ stage = ExitDue /\ state = "COMPLETE"
ShutdownDue == ExitOnTerminal /\ stage = ExitDue

\* A terminal state keeps publishing the neutral command.
TickTerminal ==
  /\ ~halted /\ state \in Terminal /\ ~ShutdownDue
  /\ Publish(Stop)
  /\ UNCHANGED <<inputVars, sequenceVars, sourceVars, timerVars, requests, halted,
                 historyVars>>

\* maybe_shutdown_after_terminal: the channels are released and the node ends.
TickExit ==
  /\ ~halted /\ state \in Terminal /\ ShutdownDue
  /\ lastCommand' \in Realized(Stop) /\ rc' = "release"
  /\ halted' = TRUE
  /\ UNCHANGED <<inputVars, sequenceVars, sourceVars, timerVars, requests, historyVars>>

\* The process is gone.
Exited == halted /\ UNCHANGED vars

-----------------------------------------------------------------------------
Init ==
  /\ fresh = [i \in Inputs |-> FALSE]
  /\ connected = FALSE /\ armed = FALSE /\ mode = "" /\ range = 0
  /\ state = "WAIT_VEHICLE" /\ stage = 1 /\ probeCompleted = FALSE
  /\ attempt = 0 /\ nearReprobes = 0
  /\ samples = 0 /\ estimate = FALSE /\ locked = FALSE /\ forceAccepted = FALSE
  /\ best = MaxRange + 1
  /\ runtime = "off" /\ progress = "running"
  /\ rangeHold = "off" /\ arrivalHold = "off" /\ service = "due"
  /\ requests = {} /\ lastCommand = Stop /\ rc = "none" /\ halted = FALSE
  /\ legs = 0 /\ resumedLegs = 0 /\ confirming = FALSE
  /\ tainted = FALSE /\ arrivedNow = FALSE

Callback ==
  \/ OnOdometry \/ OnDepthPose \/ OnDeltaRange \/ OnAudioQuality \/ OnIqMagnitude
  \/ \E report \in Reports :
       OnVehicleState(report.connected, report.armed, report.mode)

Passing ==
  \/ \E i \in Inputs : Expire(i)
  \/ RuntimeLapses \/ ProgressLapses \/ HoldLapses \/ ServiceLapses \/ StageLapses

\* control_tick of a mission that is under way.
TickMission ==
  \/ TickTimeout \/ TickBlocked \/ TickBegin \/ TickResume \/ TickProbe
  \/ ProbeNextLeg \/ ProbeConfirm \/ ProbeLock \/ ProbeRetry \/ ProbeFail
  \/ TickComplete \/ TickStalled \/ TickBeyond \/ TickAlign \/ TickForward

ControlTick == TickMission \/ TickTerminal \/ TickExit

Next == Callback \/ Passing \/ ControlTick \/ Exited

Spec == Init /\ [][Next]_vars

\* The wall timer keeps firing and the steady clock brings each leg and the exit delay
\* to their end; messages, estimates, the vehicle and the runtime budget owe nothing.
Fairness == WF_vars(ControlTick) /\ WF_vars(StageLapses)

FairSpec == Spec /\ Fairness

-----------------------------------------------------------------------------
(* Safety *)

InputsOK ==
  /\ fresh \in [Inputs -> BOOLEAN]
  /\ connected \in BOOLEAN /\ armed \in BOOLEAN /\ mode \in Modes \cup {""}
  /\ range \in 0..MaxRange
SequenceOK ==
  /\ state \in States /\ stage \in 1..LastStage(state)
  /\ probeCompleted \in BOOLEAN
  /\ attempt \in 0..MaxAttempt /\ nearReprobes \in 0..MaxNearReprobes
SourceOK ==
  /\ samples \in 0..FitSamples
  /\ estimate \in BOOLEAN /\ locked \in BOOLEAN /\ forceAccepted \in BOOLEAN
TimersOK ==
  /\ best \in 1..(MaxRange + 1)
  /\ runtime \in Timer /\ progress \in Timer
  /\ rangeHold \in Timer /\ arrivalHold \in Timer /\ service \in Timer
OutputsOK ==
  /\ requests \subseteq {"set_mode", "arm"}
  /\ lastCommand \in Command /\ rc \in {"none", "release", "pwm"}
  /\ halted \in BOOLEAN
HistoryOK ==
  /\ legs \in 0..MinimumLegs /\ resumedLegs \in 0..MinimumLegs
  /\ confirming \in BOOLEAN /\ tainted \in BOOLEAN /\ arrivedNow \in BOOLEAN

\* Every variable is in its domain; above all the retry and reprobe budgets of the
\* code, probe_attempt_ and near_reprobe_count_, are never overdrawn.
TypeOK == InputsOK /\ SequenceOK /\ SourceOK /\ TimersOK /\ OutputsOK /\ HistoryOK

\* The vehicle is steered only towards a source that a completed probe locked and
\* that still has a usable estimate, through every outage, retry and reprobe.
GuidedHasLock == state \in Guided => locked /\ estimate /\ probeCompleted

\* No sample taken before the mission started takes part in its localization:
\* the reset of control_tick is early enough for every arrival order.
NoPreArmSamples == runtime # "off" => ~tainted

\* A success hold that is under way or has run its time has seen the arrival at
\* every tick since it started; an outage, a reprobe or one tick without the
\* arrival starts it over.
ArrivalHoldUnbroken ==
  state \notin Terminal /\ (rangeHold # "off" \/ arrivalHold # "off") => arrivedNow

\* The legs behind the lock are counted by probe_attempt_: with two legs or more
\* asked for, the attempts never run ahead of the legs driven to their end since
\* samples_ was cleared, through retries, outages and reprobes.
LegsCounted ==
  /\ runtime = "off" => state = "WAIT_VEHICLE" /\ attempt = 0
  /\ state \in Probing /\ stage = ProbeDone => legs >= 1
  /\ MinimumLegs >= 2 /\ legs < MinimumLegs =>
       /\ attempt <= legs
       /\ state \in Probing /\ stage = ProbeDone => attempt + 1 <= legs

\* After the mission nothing but the upward recovery of the depth limit is
\* commanded, however late the vehicle state that enables the output arrives.
TerminalIsStill ==
  state \in Terminal =>
    /\ lastCommand.forward = 0 /\ lastCommand.lateral = 0 /\ lastCommand.yaw = 0
    /\ lastCommand.heave >= 0

-----------------------------------------------------------------------------
(* What a step may never do *)

\* A lock comes out of the tick that ends a probe leg and whose own fit was
\* accepted, never out of an estimate that an earlier periodic fit left behind.
LockFromBoundaryFit ==
  [][~locked /\ locked' => state \in Probing /\ stage = ProbeDone /\ forceAccepted']_vars

\* At least the configured number of legs was driven to its end since the samples
\* behind the lock were last cleared.
LockHonoursLegs == [][~locked /\ locked' => legs >= MinimumLegs]_vars

\* Success is declared while steering to a lock, on a tick that sees the arrival
\* after a tick that saw it, and with a success range only within that range.
SuccessIsEarned ==
  [][state # "COMPLETE" /\ state' = "COMPLETE" =>
       /\ state \in Guided /\ locked
       /\ arrivedNow /\ arrivedNow'
       /\ SuccessRange > 0 => range \in 1..SuccessRange]_vars

\* A finished mission stays finished and asks MAVROS for nothing any more.
TerminalIsFinal ==
  [][(state \notin {"WAIT_VEHICLE"} \cup Probing \cup Guided)
       => state' = state /\ requests' = requests]_vars

-----------------------------------------------------------------------------
(* Progress, under FairSpec *)

\* A spent runtime budget ends the mission, blocked or not.
MissionEnds == runtime = "due" ~> state \in Terminal

\* Localization reaches a decision (a lock, a failure or an interruption) without
\* any runtime budget, whatever the fits say.
LocalizationDecides == state \in Probing ~> state \notin Probing

\* A node that ends with its mission leaves the RC channels released.
ExitReleases == state \in Terminal ~> (halted /\ rc = "release")

\* A motion on the channels does not outlive the permission to send it: it gives
\* way to a release, to the neutral command or to a permission that came back.
\* (PINGER_HOMING.md promises a release; an armed vehicle is held at neutral.)
MotionRevoked ==
  (rc = "pwm" /\ lastCommand # Stop /\ ~LiveControlReady)
     ~> (rc # "pwm" \/ lastCommand = Stop \/ LiveControlReady)

-----------------------------------------------------------------------------
(* What the progress rests on *)

\* The states that a tick must bring to an end.
AwaitsTick ==
  \/ RuntimeExceeded /\ state \notin Terminal
  \/ Ready /\ state = "WAIT_VEHICLE"
  \/ state \in Probing /\ stage = ProbeDone
  \/ state \in Terminal /\ ShutdownDue
  \/ rc = "pwm" /\ lastCommand # Stop /\ ~LiveControlReady

\* control_tick has an outcome for each of them, whatever else holds: no combination of
\* its conditions falls through.
TickAnswers == ~halted /\ AwaitsTick => ENABLED <<ControlTick>>_vars

\* The clock passes every point of a timeline.
StagePasses == ~halted /\ stage < LastStage(state) => ENABLED <<StageLapses>>_vars

\* The mission can always go on where the progress needs it: neither a tick nor the
\* clock is ever blocked by the messages, the services or a case nobody handles.
NeverStuck == TickAnswers /\ StagePasses

-----------------------------------------------------------------------------
(* The mission this implements *)

MissionPhase ==
  IF state = "WAIT_VEHICLE" THEN "waiting"
  ELSE IF state \in Probing THEN "locating"
  ELSE IF state \in Guided THEN "steering"
  ELSE IF state = "COMPLETE" THEN "succeeded"
  ELSE "failed"

Mission == INSTANCE HomingMission WITH
  phase <- MissionPhase, located <- locked, permitted <- OutputEnabled,
  driving <- Driving

\* The odometry mode is a homing mission: through every outage, retry and reprobe it
\* steers only while a lock is held, drives only with the permission of that moment,
\* succeeds only out of steering and stays ended.
ImplementsMission == Mission!Spec

-----------------------------------------------------------------------------
(* What the documentation says of the program *)

\* README.md: the quality heartbeat alone never authorizes an approach.
DriveNeedsPhaseDelta ==
  [][lastCommand.forward = 0 /\ lastCommand'.forward = 1 /\ state' \in Guided
       => fresh["delta"]]_vars

\* Comment of control_tick: after an outage a fresh probe sequence is driven, so
\* that the configured legs all follow it.
ResumedProbeHonoursLegs ==
  [][(state \in Probing /\ state' \in Guided) => resumedLegs >= MinimumLegs]_vars

\* Comment of probe_command: a near first fit is confirmed by a mirrored probe.
NearFitConfirmed == [][~locked /\ locked' => ~confirming]_vars

=============================================================================
