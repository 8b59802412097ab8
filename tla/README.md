# Pinger homing: TLA+ verification project

This directory holds the TLA+ model, the TLC configurations and the TLAPS proofs kept beside
the underwater pinger homing package. Source references are relative to the repository root;
`CTRL` stands for `src/src/pinger_homing/pinger_homing_controller.cpp`, `MATH` for
`src/src/pinger_homing/pinger_homing_math.hpp`, `SEL` for `src/src/pinger_frequency_selector.cpp`,
`EST` for `src/src/pinger_audio_estimator.cpp` and `LAUNCH` for
`src/launch/pinger_homing_real_interactive.launch.py`.

## 1. The system

The package drives an ArduSub vehicle to an acoustic pinger by publishing RC overrides.

| Component | State it keeps | Operations | Talks to |
| --- | --- | --- | --- |
| Homing controller, `odometry` mode (`CTRL`) | mission state, probe attempt, samples, estimate, lock, hold timers, runtime budget, last command | one callback per subscription, `control_tick` at `rate_hz` | MAVROS (state in, RC override and arm/mode services out), estimator (delta range, IQ magnitude, IQ quality), odometry |
| Homing controller, `no_odom_phase` mode (`CTRL`) | probe leg, leg samples, initial candidates, bearing, innovation and motion watchdogs, terminal brake | the same callbacks, `no_odom_phase_tick`, `terminal_brake_tick` | the same, without odometry as a position |
| Homing math (`MATH`) | none | probe timeline, lock gate, depth limiter, regression and multilateration | called by the controller |
| Frequency selector (`SEL`) | audio buffer per channel, scan windows, hits, candidates, the one selection | `on_audio`, `finish_monitor`, `select` by topic, terminal or itself | audio in; candidates (kept for late subscribers) and selected frequency (not kept) out |
| Audio estimator (`EST`) | carrier, PCM buffer, IQ of the last window | `on_audio`, selection callback | audio and selection in; delta range, IQ magnitude and SNR out |
| Launch gate (`LAUNCH`) | what it heard and shows, its deadlines, the RC handoff | `_start_real_homing_after_selection`, `_restore_gui_rc_on_shutdown` | candidates and selection in, the operator's answer and the GUI's services out; starts the controller |
| 2-D prototype (`src/src/pinger_homing_2d_controller.cpp`) | probe legs, scores, world bearing | a tick and callbacks | built, started by no launch file |
| Archived Python controller, old YOLO controller | – | – | not installed or not built |

What is hard about it: every required input (odometry, Phase delta, quality heartbeat, vehicle
state) may stop, come back or arrive in any order relative to the control tick; a pilot may disarm
or change the mode at any time, and what the node believes of the vehicle and what it asks for are
both late; probes, retries, near reprobes and outages share counters and a sample buffer that
survive some transitions and not others; nothing that crosses from the hydrophone to the fit
carries the time it was recorded; success needs a condition *held* over time; the node must release
the vehicle at its end, and goes on living (and publishing) for a while after its mission; the
launch waits for topics that may have been sent before it listened, and for an operator, while a
shutdown may come at any point.

### What makes each component correct

* **Controller, odometry mode.** A source is locked only by the tick that ends a probe leg, from
  that tick's accepted fit, with the configured legs behind it and no sample from before the
  mission. The vehicle is steered only towards a lock. Success needs an arrival that was held.
  Probe retries and near reprobes are bounded. A finished mission stays finished, commands nothing
  but the depth recovery, releases the channels and ends the node. A motion does not outlive the
  permission to send it.
* **Controller, no_odom_phase mode.** The vehicle is steered only by a bearing that the configured
  number of patterns in a row agreed on since the last outage. Each hold (slow speed, Phase
  mismatch, success range) is unbroken; innovation is judged on one forward segment. No thrust
  outlives its state. The pattern files each delta under the axis that is driven, drives every leg
  in full and ends however slow the vehicle is. Forward segments, the brake and a mission with a
  runtime budget end.
* **Both modes.** Left to itself the node arms the vehicle only in the required mode. A vehicle that
  is finally disarmed, or silent, gets its channels back; one that the pilot keeps armed in another
  mode is not driven, but held at neutral. With `auto_mode` and `auto_arm` a mission gets hold of its
  vehicle whatever call was refused before.
* **Audio estimator.** Every delta range compares two windows of one carrier one hop apart, and the
  delta is filed under the axis that was driven while its audio was recorded.
* **Frequency selector.** The scan keeps up with the audio. At most one selection is published,
  inside the band, and an unqualified candidate is never chosen automatically.
* **Launch gate.** The controller starts on the operator's choice from the list shown, or on the
  selector's own; an answer the gate lets pass is not refused later; every wait but the operator's
  ends; a launch that ends gives the GUI its RC publisher back.

## 2. The model

| Module | Role | Code |
| --- | --- | --- |
| `HomingMission` | the abstract mission both navigation modes implement | what `CTRL` promises as a whole |
| `VehicleLink` | what both modes share: freshness of the inputs, the vehicle state MAVROS reports, `live_control_ready`, `publish_command` with the depth limiter, `maybe_request_arm_mode` | `CTRL` 1078-1107, 1735-1755, 2895-3017 |
| `HomingController` | `navigation_mode = odometry` with the Phase estimator, `legacy_python_sequence`, transport `rc_override` | `CTRL` 707-1053, 1729-1911, 2331-2778, 3019-3058 |
| `NoOdomHoming` | `navigation_mode = no_odom_phase`: patterns, confirmation, ALIGN/APPROACH, the three gates, the terminal brake | `CTRL` 1109-1711, 2657-2743 |
| `HomingSystem` | `NoOdomHoming` with the vehicle, its pilot, the `/mavros/state` samples and the service calls in flight | `CTRL` 2985-3017; MAVROS and pilot external |
| `PhaseProbe` | the legs, gaps and extensions of one ABBA pattern, and where each Phase delta is filed | `CTRL` 877-908, 1296-1399 |
| `AudioEstimator` | buffer, windows, remembered IQ, carrier and its gate | `EST` |
| `PhaseChain` | `PhaseProbe` and `AudioEstimator` with the audio on its way between them | `CTRL`, `EST`; transport external |
| `FrequencySelector` | scan, qualification, ranking, the one selection | `SEL` |
| `LaunchGate` | the launch function with its waits, the RC handoff, the restore hook | `LAUNCH` |
| `PingerStartup` | the selector and the gate with the topics between them | `SEL`, `LAUNCH` |
| `HomingLaunch` | the abstract launch: one frequency, one start on it, an RC publisher that comes back | what `LAUNCH` and `SEL` promise together |
| `WindowLoop` | the loop that takes windows out of a buffer, iteration by iteration, with its theorem | `SEL` 259-265, `EST` 96-101 |
| `MCHoming`, `MCNoOdom`, `MCPhaseProbe`, `MCSystem`, `MCPhaseChain`, `MCStartup` | the instances TLC checks | |
| `VehicleLink_proofs`, `HomingController_proofs`, `NoOdomHoming_proofs`, `PhaseProbe_proofs`, `PhaseChain_proofs`, `HomingSystem_proofs`, `PingerStartup_proofs` | the TLAPS proofs | |

`HomingController` and `NoOdomHoming` both extend `VehicleLink` and instantiate `HomingMission` with
a refinement mapping; `HomingSystem` extends `NoOdomHoming`. `PhaseProbe` stands beside
`NoOdomHoming`: there a pattern is a stretch of time that ends (`stage` 1, then 2) and may take
samples, here it is looked at tick by tick; `PhaseChain` adds the audio. `PingerStartup` comes
before both in a mission: it ends where the controller is started; it instantiates `HomingLaunch`
with a refinement mapping. `WindowLoop` belongs to the proofs: the models calculate with the closed
form of the loop.

### State and actions

The executor of each node has one thread (`rclcpp::spin`), so every subscription callback and every
`control_tick` runs to completion and is one action. A tick does different things depending on what
it finds; each outcome is an action of its own with the code's conditions, in the code's order, as
its guard (`TickTimeout`, `TickBlocked`, `TickProbe`, `ProbeLock`, `TickForward`, `TickReestimate`,
`TickBrakeOver`, ...). Within one tick the code may change state and go on, for example from the
last leg of a probe to ALIGN; the action does the same in one step. Every tick that the code ends
with `publish_command` publishes (`Publish`), so no state change is separated from its command.
The launch gate is the one function that waits: between two waits it is an action, and where it
waits is the value of `gate`. launch runs it and the restore hook one at a time.
Variables carry the name of the member they stand for, without its trailing underscore, and each
declaration names that member. History variables (`legs`, `tainted`, `streak`, `mixed`, `saw`,
`held`, `skewed`, `foreign`, `takenOver`, `lost`, ...) record what happened for the properties and
are read by no action of the code.

Time appears only through comparisons:

* an input is fresh or stale (`Expire`); only the inputs in `Losable` may become stale in a run;
* a timer is `off`, `running` or `due` (`TimerLapses`, `HoldLapses`, `GateLapses`, ...), so every
  relative order of timeouts, messages and ticks is a behaviour. A forward segment has two limits
  (`approach_min_s` and `approach_max_s`), hence four ages. A deadline of the launch is a Boolean
  (`Lapse`);
* `stage` is the position on the timeline of a state. For a probe of the odometry mode it is the
  timeline of `legacy_python_probe_command` (neutral gaps 1, 3, 5, 7, axes 2, 4, 6, done 8).
  `StageLapses` may let several ticks pass on one point, and a tick may find any later point;
* in `PhaseProbe` and `PhaseChain` durations are numbers of ticks, because extensions are compared
  with them and the sample delays with the length of the audio. One unit of audio is recorded
  between two ticks.

### Messages and calls in flight

* Into the controller messages may arrive in any order and at any time (`OnSensor`), or stop.
* `HomingSystem`: `/mavros/state` is `KeepLast(1)`, so a newer sample replaces the one on its way
  (`link`); service calls are answered in any order, late, with a refusal or with nothing done.
* `PhaseChain`: audio comes in packets of any length, at most `Latency` units late; a packet may be
  lost, after which the estimator joins what it has to what comes next.
* `PingerStartup`: the candidates are `transient_local` and reach a late subscriber; a selection
  sent before the gate is connected is lost, and so may be an answer; another node may publish on
  `manual_selection` once.

### Abstraction of the data

* A command keeps the sign of each axis. That tells forward from reverse, motion from neutral, and
  a depth recovery from a descent, which is what the properties are about.
* A source fit is an outcome: rejected, or accepted with a usable estimate near or far. The
  regression behind it is real arithmetic. A finished pattern likewise yields a rejection or a
  bearing that agrees with the candidate or does not.
* A bearing is inside `align_exit`, between, or outside `align_enter`.
* A calibrated range is a level; levels lie more than `range_progress_delta_m` apart.
* Samples are counted up to the number a fit asks for (`FitSamples`, `ProbeSamples`).
* `inRange`, `moving` and the quality of the innovation window are set freely by their messages.
* A unit of audio is the axis that was driven when it was recorded (`Unknown` next to a loss); a
  window is strong enough or not.
* A spectrum says which tones peak and which thresholds they reach; tones lie farther apart than
  the clustering and separation distances. `std::sort` may leave equals in any order, so the
  ranking is a set of lists.
* The operator's answers are numbers: what does not pass is asked for again and changes nothing.

### The abstract mission

`HomingMission` has five variables: the phase, whether a localization result is in force, whether
the vehicle is under live control as far as the node knows, whether the channels drive, and whether
the process has left. Its steps say that the vehicle is steered only by a result in force, that
what is sent drives the vehicle only where permitted, that success comes out of steering, that an
end is final and only an ended mission leaves. `located` is the lock in one mode and the confirmed
bearing in the other.

### The abstract launch

`HomingLaunch` has five variables: the frequency that was chosen, the one the controller was started
on, whether the launch is closing, who may publish RC commands, and whether that is settled. Its steps
say that the choice is made once, inside the band; that the controller starts on it, at most once and
not in a launch that is closing; that the GUI yields its RC publisher together with that start, or too
late for it in a launch that is closing; that it gets the publisher back only there, and that nothing
changes after that. The code has no variable for the last: it is settled when the hook has run and no
call is on its way, so the promise rests on the order of the calls, on a hook that waits for the gate,
and on a handoff that fails the launch when it times out.

### Points that are easy to miss in the code

* The unlocked branches of `approach_command` (2422-2445) are not modelled: `GuidedHasLock` shows
  that they cannot run. The branch for a missing attitude or bearing after a finished pattern
  (1658-1663) is left out for the same reason: `ready` asked for the attitude in this tick,
  and `BearingEarned` shows the bearing.
* `source_estimate_` and `source_smoothed_` are set and reset together: one variable.
* `publish_command` reads the clock again. `seconds_since` yields 0 for a later stamp, so this
  second look is taken for the tick's own.
* `maybe_request_arm_mode` runs before everything else in a tick, the runtime check included.
* `transition` to the current state does nothing; it does not restart the timeline.
* A blocked mission of an armed vehicle, in the required mode or another, publishes neutral PWM;
  the channels are released only when the vehicle is disarmed, disconnected or silent, and at the
  end. The documentation promises a release (finding 7).
* In `no_odom_phase` mode nothing subscribes to odometry positions, so there is no estimated
  arrival. A range hold is cleared by an outage but not by a pattern in between: `HoldsUnbroken`
  says what holds nevertheless.
* The innovation window is pruned only when a delta arrives.
* `CMODE(19)`, the name some MAVROS versions give ALT_HOLD, counts as a match (`ModeMatches`).
* The estimator forgets its IQ on a weak window and on a selection, but not on a lost message.
* The selection reaches the estimator on the same topic as the gate; `require_frequency_selection`
  is what keeps the estimator silent before it. The gate itself does not wait for the estimator.
* A handoff that gives up after 3 s leaves its call on the way: the GUI may suspend its publisher
  after the launch has failed.
* The gate starts the controller on the newest selection it heard; the selector makes one only.

Assumed of the parameters, as the constructors clamp or the launch files set them: holds are at
least 0.1 s and so never complete in the tick that starts them; `approach_min_s <= approach_max_s`;
the forward command reaches `motion_response_min_command`; `depth_recovery_heave > 0`; the probe's
settle time is positive (`CTRL` 303); the hop is no longer than the window (`EST`); the launch
file gives the selector its own scan band (`BandAssumption`); there are fewer candidates than the
lowest frequency of the band, so that an answer is a number of the list or a frequency.

## 3. What TLC checks

| Run | Question | Instance and why it is enough | Result |
| --- | --- | --- | --- |
| `localize` | where does a lock come from, does localization decide, what is on the channels, does everything end, is it a homing mission? | one leg, so that a near first fit asks for a confirmation, one sample per fit; odometry may stop, bootstrap heartbeat, runtime and depth limits, a pilot who changes the mode | `TypeOK`, `NoPreArmSamples`, `TerminalIsStill`, `LockFromBoundaryFit`, `LocalizationDecides`, `MissionEnds`, `ExitReleases`, `MotionRevoked`, `ImplementsMission` hold |
| `approach` | legs behind a lock, steering, stalls, near reprobes, arrival; has every tick an outcome? | two legs (so that attempts and legs differ), two range levels with success at the nearer one (so that progress, stall and success all happen), automatic arming, pilot disarms or changes the mode | `GuidedHasLock`, `ArrivalHoldUnbroken`, `NeverStuck`, `LockHonoursLegs`, `SuccessIsEarned` hold |
| `no_odom` | bearing, gates, holds, thrust, success and ends without odometry, is it a homing mission, and has every tick an outcome? | two confirming patterns (one that agrees, one that starts over), one sample, speed may go stale, pilot may disarm, all gates, range, brake and a runtime limit on | `NeverStuck`, `BearingEarned`, `MotionFitsState`, `WindowOfOneSegment`, `HoldsUnbroken`, `SuccessIsEarnedAndFinal`, `MissionEnds`, `BrakeEnds`, `SegmentEnds`, `ImplementsMission` hold |
| `chain` | where was each delta recorded, what does it compare, is the pattern complete and does it end? | legs of 4 ticks and gaps of 5, three of them transient: the shortest that a window of 2, a hop of 1 and a latency of 1 allow; extension step 2 cut to the maximum 1, on any two legs; two carriers; packets lost | `ChainTypeOK`, `RecordedUnderFiled`, `DeltaSpansOneHop`, `PatternBounded`, `TransientsDiscarded`, `LegsDrivenInFull` hold |
| `system` | in which mode does it arm, what is on the channels of a vehicle the pilot keeps, does the mission get hold of its vehicle? | automatic mode and arming, one act of the pilot at any time (a second adds nothing to tell: `takenOver` or the last word of the pilot), the state may stop | `ArmsInRequiredMode`, `ChannelsReturned`, `NeutralElsewhere`, `VehicleTaken` hold |
| `startup` | what is the controller started on, does the gate decide, does the GUI get its publisher back, is it the abstract launch? | two tones in a band of five frequencies; an answer that may be a number, one in the band without a tone, one outside; messages of 1 and 3 frames for windows of 2 that overlap by 1, so that a message fills none, one or two | `StartupTypeOK`, `StartsAsChosen`, `AnswerTaken`, `GateDecides`, `GuiReturned`, `ImplementsLaunch` hold |
| `doc_heartbeat` | does the heartbeat authorize an approach? | delta may stop, heartbeat on | `DriveNeedsPhaseDelta` violated |
| `doc_resume` | do the legs after an outage count anew? | two legs, odometry may stop | `ResumedProbeHonoursLegs` violated |
| `doc_confirm` | is a near first fit confirmed? | one leg, two range levels | `NearFitConfirmed` violated |
| `doc_watchdog` | is the bearing refreshed? | one pattern, watchdog and innovation on, cooperative vehicle | `BearingRefreshed` violated |
| `doc_leg` | is it the slow leg that is extended? | `PhaseProbe` alone, legs of 3 ticks | `LegsAdvance` violated |
| `doc_late_arm` | does an arm request end with its mission? | `system` with a runtime limit | `ArmsDuringMission` violated |

The bounds that are the model's: `PilotMoves` (what the pilot does), `SlowLegs` (legs extended in
one pattern) and `Latency` (units of audio on their way), `MaxWindows` and `MaxBuffered` (the scan
ends; the selector itself buffers without limit afterwards), `Answers`, and one publication of
another node on `manual_selection`. `MaxAttempt` 3 and `MaxNearReprobes` 2 are the code's own.
`FitSamples` and `ProbeSamples` are 1 where the code asks for 30 samples or a minimum per leg: only
"enough" and "not enough" matter. `requests` is a set of kinds, since nothing counts them. A
pattern needs no bound on time: `PatternBounded` shows that it ends. There is no state constraint in
any run.

`NeverStuck` says that a tick, the clock of a timeline and, in `no_odom`, the clock of a forward
segment have an outcome wherever the progress of the mission needs one: no combination of the
conditions in `control_tick` falls through, no message or service is waited for. It is the premise
on which the proofs of progress rest (section 4). `TypeOK` of `PhaseProbe` is checked in
`chain`, as the first conjunct of `ChainTypeOK`. That of `NoOdomHoming` and `SystemTypeOK` are in no
run: they are proved (`SystemTypeCorrect`), and TLC has checked them on the instance of `system`.
`FiledUnderDriven`, the local half of `RecordedUnderFiled`, is proved and in no run.

Each property of a passing run is also checked to be sensitive to the code: for every one there is
a mutation of a mapped definition (an operator marked `Mutation:` in front of the definition) under
which TLC finds it violated.

### Where code and documentation disagree

Each is a place where the code does something other than its documentation says. The first six are
shown by the `doc_` runs, the last by `system`. In short:

1. `ready()` accepts the quality heartbeat in every state, so a localized mission whose Phase delta
   has stopped still starts to drive forward.
2. An outage restarts the leg but not `probe_attempt_`, `samples_` or the estimate: a two-leg
   mission may lock on one leg driven after it.
3. The mirrored confirmation of a near first fit is skipped when that fit comes out of REPROBE,
   because the transition to REPROBE is then a no-op and the timeline stays complete.
4. Each turn back to ALIGN restarts the forward watchdog, so a mission that keeps turning drives on
   its first bearing for ever.
5. A vehicle that is slow in a later leg makes the pattern extend the *first* ended leg with room
   for an extension, and drive it again for a tick.
6. The tick in which the runtime budget ends may itself ask for arming, and a request already sent
   is not withdrawn: the vehicle may be armed after FAILED_TIMEOUT.
7. `PINGER_HOMING.md:55-56` says that a departure from ALT_HOLD, like stale audio, IMU or state,
   releases all RC channels, and `PINGER_HOMING_ARCHITECTURE_KO.md:59` says so of odometry, audio or
   arm state that is not valid. `publish_command` releases only for a vehicle that is disarmed,
   disconnected or silent; while an armed one is heard of, it holds the channels at neutral, in
   another mode as with stale inputs in the required one. A pilot who leaves ALT_HOLD without
   disarming does not get the channels while the node runs and hears of the vehicle. That is no
   matter of one behaviour: it is what every one comes to, so the passing `NeutralElsewhere` states
   it. TLC refutes the documented sentence, `<>[](vehicleArmed /\ vehicleMode # RequiredMode) => <>[](rc =
   "release")`, on the same instance. A motion that loses an input gives way to neutral or to a
   release (`MotionRevoked`), never surely to a release.

### Fairness

* **Controller.** `ControlTick` is weakly fair: a wall timer fires for as long as the node spins.
  `StageLapses` and `ForwardLapses` are weakly fair: a steady clock goes on. Nothing is assumed of
  messages, fits, bearings, the pilot or the vehicle: the liveness properties hold when all of them
  fall silent. Nothing is assumed of the runtime budget either: `MissionEnds` starts from one that is
  spent.
* **`HomingSystem`.** The node's timer is weakly fair, and a sample that is on its way arrives or the
  one the node holds grows stale: `ChannelsReturned` and `NeutralElsewhere` need no more, MAVROS may
  be silent. The latter accepts a node that has released the channels for one that sends neutral: at
  the depth limit even the last neutral command is turned into a recovery heave, and a node that ends
  on it releases in the same tick. `VehicleTaken` cannot hold with a MAVROS that is silent or refuses
  for ever, so it names what it needs as its antecedent: that samples keep coming and a call made
  again and again is accepted once (`MavrosAnswers`), and that the request clock runs and a tick with
  something to ask for is not always missed by a fresh sample and a ready service (`NodeAsks`).
* **`PingerStartup`.** What launch itself does is weakly fair (`GateRuns`), its deadlines included.
  The operator is not: `GateDecides` is stated for launches in which the gate does not stay at its
  question. The GUI is not: `GuiReturned` assumes `WF(ServeGui)`, and leaves out a GUI whose service
  is not found within 0.75 s.

Deadlock is checked in every run; a node that has shut down stutters (`Exited`), and so does a launch
that has nothing left to do (`Ended`).

## 4. What is proved

`tlapm` checks these theorems for every value of the constants under the named assumptions
(`ModesAssumption`, `LinkSwitchesAssumption`, `LosableAssumption`, `SwitchesAssumption`,
`CountsAssumption`, `NoOdomCountsAssumption`, `NoOdomSwitchesAssumption`, `DurationsAssumption`,
`ProbeSwitchesAssumption`, `EstimatorAssumption`, `ChainAssumption`, `DelaysAssumption`,
`PilotAssumption`, `SelectorAssumption`, `GateAssumption`, `BandAssumption`). Most say only that
switches are Booleans, counts are positive where the code clamps them, and reports are well formed.
Two say more: `DelaysAssumption`, that the sample delay of a gap outlasts window, hop and latency,
and `BandAssumption`, that the selector gets the scan band of the gate. The deployed values satisfy
both, and nothing in the code enforces them.
The proofs also cover what no run instantiates: dry run, the fixed re-estimate policy, three
confirming patterns, up to four legs, any number of range levels, any leg durations, audio lengths
and candidate lists.

**HomingController_proofs.** `TypeCorrect` comes first, with one lemma per kind of tick. A tick has
a common shape (`TickShape`: one request, one command, one transition), so that each lemma only has
to look at what is its own. On it rest `GuidedHasLockAlways`, `NoPreArmSamplesAlways`,
`ArrivalHoldAlways` and `LegsCountedAlways`. `LegsCounted` (that `probe_attempt_` never runs ahead of
the legs driven since the samples were cleared) is inductive only with its last conjunct: the leg
just completed is counted before `probe_attempt_` is raised for the next. No run checks it on its
own; it is what `LockLegs` rests on.
The action properties `SuccessEarned`, `LockFromBoundary`, `LockLegs` and `TerminalFinal` and the
invariant `TerminalIsStillAlways` follow from these. `TerminalFinal` is not a property of a run of
its own: `ImplementsMission` contains it.

**NoOdomHoming_proofs.** `TypeOK` is not inductive alone: that the confirmation count stays within
its number needs to know that a bearing is confirmed as soon as it is reached. `BearingCounted` says
so: an unconfirmed bearing has fewer agreeing patterns than configured and `streak` counts the same,
a confirmed one has exactly these, and only a confirmed one is steered by. `TypeOK` and
`BearingCounted` are proved together (`CorrectNext`); `TypeCorrect` and `BearingEarnedAlways` follow.
`GatesSound` strengthens `HoldsUnbroken` by two facts: the low-speed hold runs only after the
command's grace is due (a tick within the grace leaves the hold alone, so it must be off), and the
mismatch hold only where innovation is used. It yields `WindowAlways`, `HoldsAlways` and
`SuccessEarnedFinal`. `MotionFitsAlways` follows from `RealizedOK`: the limiter changes
nothing but the heave.

**The refinements.** `MissionImplemented`, in both of these modules, is the step simulation: the
initial states map to that of `HomingMission`, and each kind of tick or callback to one of its steps
or a stutter, under the invariants above (`GuidedHasLock` or `BearingEarned` gives that steering
rests on a result in force, `MotionFitsState` what the channels carry).

**HomingSystem_proofs.** A step of the system is a step of the node, or leaves the node alone but
for its requests, so the node's `TypeOK` carries over (`SystemTypeCorrect`) and so does the
refinement (`SystemIsMission`). `ArmsInMode` rests on `BeliefsRight`: until the pilot takes the
vehicle out of its mode, a sample on its way and the mode the node believes can only say "required"
if the vehicle has been in that mode ever since, and an arm request is sent on that belief alone.

**PhaseProbe_proofs.** `TypeCorrect` says that no choice of step and maximum overdraws an extension;
`FiledAlways` that the axis under which a delta is filed is the driven one, whatever was extended,
repeated or blocked before. The other three rest on the timeline, whose leg starts are a recursive
function of the legs: its lemmas (each leg begins one leg, its extension and one gap after the one
before; an extension moves the later legs by its length) come by induction over the eight or twelve
legs, written out, since the library's induction needs an operator. They yield
`PatternBoundedAlways`, `TransientsAlways` and `LegsInFull`; that the settle time is positive is
needed so that the first tick drives no leg.

**PhaseChain_proofs.** `ChainProbes`: the composition is the pattern alone with steps of the audio
added, so what `PhaseProbe_proofs` says of the pattern holds of the chain (`ChainBounded`,
`ChainFiled`, `ChainTransients`, `ChainLegs`). `ChainTypeCorrect` and `OneHopAlways` need that
less than a window waits between two messages, which is a fact about `\div`. `RecordedAlways` has
the invariant that each unit of the last hop, of the buffer and on the way was recorded under the
axis that was driven so many ticks ago, as far back as a span with its latency reaches: while a
sample is taken the command has been followed for the sample delay, so by `DelaysAssumption` all of
these units carry the axis of the leg.

**PingerStartup_proofs.** `StartupTypeCorrect` needs the lists `Ranked` can come to, the arithmetic
of the scan, and that the restore hook runs only after the gate has ended (hence two calls at most).
`ChoiceOK` is the inductive invariant of the choice: there is one selection, and what is on its way
and what was heard is it; the operator answers once, to the selector's own list; an answer that has
arrived has selected what it meant. The gate's and the selector's readings of an answer agree because the
numbers of the list are below the band and the bands are one (`AnswerSelects`). It yields
`StartsAsChosenAlways` and `AnswerTakenAlways`.

**OfferSoundAlways**, in the same module, is about the list the operator sees: `Ranked` leaves it in
whichever order `std::sort` may, after dropping what is far below the first and cutting it. Every
such list names a tone once (an order is onto as many tones as it has places, so it is one to one),
has the hits in descending order and mixes no unqualified peak with a qualified one. That it stays
so needs that the audio after the scan counts no hit any more.

**LaunchImplemented** is the step simulation of `HomingLaunch`. `StartupOK` and `ChoiceOK` give that the
controller starts on the one selection, and that it lies in the band the gate checks. What the RC
publisher needs is `Traced` (which calls may be on their way, in which order) and `Pending`: a call is
on its way only for a gate that waits for it, or in a launch that is closing. So a call that is served
late finds a launch that is closing, and the restore call is served last.

**WindowLoop.** `FrequencySelector` and `AudioEstimator` say with a division how many windows a message
completes and what it leaves. `LoopTakes` shows that the loop of the code, a window looked at and a hop
erased until less than a window is left, comes to the same for every window, hop and length:
`OutcomeIterates`, that the closed form does what one iteration does, is arithmetic, and a shortest
buffer on which loop and closed form differ cannot exist (`WFMin`). `ScanTakes` and `EstimatorTakes`
state it of the two models.

### Progress

The liveness properties of the runs are proved too, each under one kind of premise. TLAPS knows
nothing of `ENABLED`: to it `ENABLED <<ControlTick>>_vars` is a word without content. So each theorem
has as a premise that the actions it takes to be fair *have an outcome* in the states where the
argument needs one. The premise is a state predicate named in the module; everything else, the
ranking of the states and the temporal argument from `WF`, is proved. TLC evaluates the premises.

| Theorem | Property | Premises |
| --- | --- | --- |
| `HomingController_proofs!MissionEndsFair`, `MotionRevokedFair`, `ReadyMissionRunsFair` | `MissionEnds`, `MotionRevoked`, a ready mission leaves `WAIT_VEHICLE` for good | `TickAnswers` |
| `HomingController_proofs!LocalizationDecidesFair` | `LocalizationDecides` | `TickAnswers`, `StagePasses` |
| `HomingController_proofs!ExitReleasesFair` | `ExitReleases`, where the node is to exit | the same |
| `NoOdomHoming_proofs!BrakeEndsFair`, `MissionEndsFair` | `BrakeEnds`, `MissionEnds` | `TickAnswers`, `StagePasses` |
| `NoOdomHoming_proofs!SegmentEndsFair` | `SegmentEnds`, for the fixed policy or with the watchdog | `TickAnswers`, `ForwardPasses` |
| `NoOdomHoming_proofs!ReadyMissionRunsFair` | a ready mission leaves `WAIT_VEHICLE` for good | `TickAnswers` |
| `HomingSystem_proofs!ChannelsReturnedFair` | `ChannelsReturned`, where the state may stop | `NodeAnswers`, `NewsComes` |
| `HomingSystem_proofs!NeutralElsewhereFair` | `NeutralElsewhere`, where the state may stop and the output is live | the same |
| `HomingSystem_proofs!VehicleTakenFair` | `VehicleTaken`, with `auto_arm` and `auto_mode` | `NewsComes`, `RequestsPass`, `UnderWay`, `PilotRests` |
| `PingerStartup_proofs!GateDecidesFair` | `GateDecides` | `GateGoesOn` |
| `PingerStartup_proofs!GuiReturnedFair` | `GuiReturned` | `GateGoesOn`, `GuiAnswers` |

`TickAnswers`, `StagePasses` and `ForwardPasses` are `NeverStuck`, an invariant of the runs `approach`
and `no_odom`. The others are invariants of the instances of `system` and `startup`; there TLC was
made to evaluate them once, in place of the properties of the run (`NodeAnswers`, `NewsComes`,
`RequestsPass`, `UnderWay` of 152072 states, `GateGoesOn` and `GuiAnswers` of 1444116). Two premises
of `VehicleTakenFair` are of another kind: `UnderWay`, that the mission has not ended, since an ended
one asks for nothing, and `PilotRests`, that the pilot acts a finite number of times. In the model
the latter follows from the bound `PilotMoves`, by an induction the provers cannot do.

How the arguments go. `LocalizationDecides` needs no budget: an attempt goes through the eight points of
its timeline, there are four attempts, and none is come to twice; a point leads to the next one
(`LegPasses`), the last to the next attempt (`LegEnds`), and of a fourth retry there is none. `ExitReleases`
and `BrakeEnds` are two points of a timeline and the tick after it; `SegmentEnds` follows the ages of
a segment. `ChannelsReturned` and `NeutralElsewhere` are chains of what stops being wrong: once the
pilot keeps the vehicle, the sample on its way may still say otherwise, then only the node's belief,
then only the command and what is on the channels; each is for good (`PilotKeeps`), each goes by a
fair step (`NewsTells`, `TickRests`, `TickSends`), and a MAVROS that falls silent is covered because a
stale sample withdraws the belief as well. For the override the chain runs to the contrary end: when
no sample can call the vehicle disarmed any more, the node knows it armed as long as it hears of it,
and sends PWM in every tick. `VehicleTaken` goes the other
way: samples keep being delivered (`DeliverRecurs`), so a request is due again and again
(`RequestsRecur`): the clock of the service stays at due until the sample is fresh. What is asked for
again and again is accepted; first the mode (`ModeTaken`), which stays once the pilot rests, then the
arming in that mode (`ArmTaken`), for which the wrong beliefs of before have to die out first.
`GateDecides` is a chain over the waits of the launch function. `GuiReturned` rests on the invariant
`Traced`: a GUI is suspended only after the gate has decided, and from then on the hook is still to
run, or its restore call is the last on its way, or it missed the service.

### The mission in its system

What `NoOdomHoming_proofs` says of the node alone holds among pilot, late samples and calls too:
neither touches what the bearing, the gates, the holds and the channels are judged by (`NodeSound`).
`SystemSteersEarned` and `SystemHolds` carry the four invariants over; `SystemSuccess` adds that after
a success the node asks MAVROS for nothing more, the calls in flight only end.

### How far the documentation holds

Each finding is something the documentation says and that is not so. What is so instead is proved:
under which condition the statement does hold, or what little of it remains.

| Finding | Theorem | What holds |
| --- | --- | --- |
| 1, `DriveNeedsPhaseDelta` | `HomingController_proofs!DriveOnDeltas` | it holds where the heartbeat does not stand in for deltas (`BootstrapOnQuality` off): no other path leads to a drive without them |
| 2, `ResumedProbeHonoursLegs` | `HomingController_proofs!ResumedProbeDrivesALeg` | at least one leg is driven anew between an outage and a lock, so with one leg asked for it holds |
| 3, `NearFitConfirmed` | `HomingController_proofs!UncalibratedConfirms` | it holds without a calibrated range (`MaxRange = 0`): a reprobe that skips the confirmation is reached only by a stalled range |
| 4, `BearingRefreshed` | `NoOdomHoming_proofs!RefreshedOrLostFair` | a vehicle that drives forward for ever without measuring turns back to ALIGN for ever (premises `TickAnswers`, `ForwardPasses`) |
| 5, `LegsAdvance` | `PhaseProbe_proofs!LegsReturnToExtend` | the pattern returns to a leg only to extend it, so without extensions it holds |
| 6, `ArmsDuringMission` | `HomingSystem_proofs!SystemAfterTheEnd` | an ended mission asks for nothing; it holds of every mission that ends with no arm request on its way |
| 7, `NeutralElsewhere` | `HomingSystem_proofs!ChannelsReturnedFair`, `NeutralElsewhereFair` | the release holds for a disarmed vehicle and a silent one; for an armed one in another mode the contrary holds |

`ResumedDriven`, behind the second, says that a leg was driven since the latest outage wherever the
timeline of a probe is at its end; `ConfirmationDue`, behind the third, that before a lock REPROBE is
entered only by an attempt for a mirrored leg, whose end ends the confirmation. `Begun`, behind the
fifth, says that the leg driven last has begun: a leg before it is over and so can only be overdue.
The fourth follows from `SegmentEndsFair` and `AsideKept`, that no state but the pattern leads to a bearing.
TLC found each of them to hold on small instances before it was proved.

### What TLC alone checks

* That the premises above hold, since they are about `ENABLED`: `NeverStuck` of both modes, and the
  premises of `HomingSystem` and `PingerStartup`. To `tlapm` `ENABLED` is a word without content.
* That the pilot finally rests (`PilotRests`), an induction over a temporal formula. Inductions over
  data are within reach where they can be put as a set without a least element, as in `LoopTakes`, or
  written out, as for the legs of a pattern.
* The `doc_` runs: a counterexample is a matter for TLC.

## 5. What is not modelled

* The numeric estimators (least squares, gradients, multilateration, FFT, demodulation): real
  arithmetic. They enter as outcomes, as do the clustering and the separation of neighbouring peaks
  in the selector.
* The simulator shortcuts that the legacy profile switches off (`CTRL` 677-705), the direct
  direction mode, and transports other than `rc_override`.
* The 2-D prototype: built, started by no launch file. Archived Python and the old YOLO controller:
  not installed or not built.
* The other launch files, and what the interactive one does besides the gate and the hook, only pass
  parameters; a process that exits enters as `Shutdown`.
* The selector's buffers after the scan grow with every audio message; the model bounds them
  (`MaxBuffered`) and says nothing of the growth.
* Seven hazards have no property (`PROJECT.json`, hazards with a note): where no document says what
  should happen (the age of ranges, of judged samples and of a hold across a pattern, a far lock
  without a runtime budget), where the launch accepts what may happen (a GUI discovered late),
  where the message carries nothing the code could notice by (a lost audio message), and where the
  middleware decides (the release of a node that is killed).

## 6. Plan

| Step | Modules | Content |
| --- | --- | --- |
| done | `VehicleLink`, `HomingController`, `NoOdomHoming`, `PhaseProbe` | both navigation modes and their pattern |
| done | `HomingMission`, `HomingSystem` | the abstract mission and its two refinements; pilot, samples and calls in flight |
| done | `AudioEstimator`, `PhaseChain`, `FrequencySelector`, `LaunchGate`, `PingerStartup` | the way of the audio to the fit; selection and launch |
| done | proofs | every invariant and action property of the passing runs; their liveness properties, under the premise that fair actions have an outcome; the node's invariants in the system; the three refinements; the windows the audio loops take; how far the documentation holds |
| next | `PingerStartup` with `HomingSystem` | the whole launch: the estimator's carrier from the same selection, a controller that exits and takes the launch down |
| then | `HomingController` | the simulator shortcuts, as switches |
| then | `HomingController` in `HomingSystem` | the pilot against the odometry mode, where an outage keeps the lock |
