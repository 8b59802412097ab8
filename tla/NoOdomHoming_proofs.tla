------------------------ MODULE NoOdomHoming_proofs -------------------------
(***************************************************************************)
(* Proofs about NoOdomHoming: its safety properties for every number of    *)
(* confirming patterns and samples, every set of vehicle reports and every *)
(* choice of switches.                                                     *)
(***************************************************************************)
EXTENDS NoOdomHoming, VehicleLink_proofs, TLAPS

-----------------------------------------------------------------------------
(* The inductive invariant behind the bearing *)

\* What confirm_initial_no_odom_bearing counts: a bearing that is not confirmed yet
\* has fewer agreeing patterns than configured, a confirmed one has exactly these,
\* and only a confirmed one, from a pattern with enough samples, is steered by.
BearingCounted ==
  /\ samples = probed
  /\ confirmed => direction /\ streak = ConfirmationProbes
  /\ ~confirmed => streak = consistent /\ consistent < ConfirmationProbes
  /\ state \in Steered \cup {"TERMINAL_BRAKE"} =>
       confirmed /\ probeCompleted /\ probed = ProbeSamples

-----------------------------------------------------------------------------
(* Type correctness *)

LEMMA CommandsOK ==
  /\ Stop \in Command /\ Reverse \in Command /\ ProbeCommands \subseteq Command
  /\ \A drive \in {0, 1} : SteeringCommands(drive) \subseteq Command
<1>1. Stop \in Command /\ Reverse \in Command
  BY DEF Stop, Reverse, Command
<1>2. ProbeCommands \subseteq Command
  BY DEF ProbeCommands, Stop, Command
<1>3. \A drive \in {0, 1} : SteeringCommands(drive) \subseteq Command
  BY DEF SteeringCommands, Command
<1> QED
  BY <1>1, <1>2, <1>3

LEMMA BoundsOK ==
  /\ 0 \in 0..ProbeSamples /\ ProbeSamples \in 0..ProbeSamples
  /\ 0 \in 0..ConfirmationProbes /\ ConfirmationProbes \in 0..ConfirmationProbes
  /\ 0 < ConfirmationProbes
BY NoOdomCountsAssumption

\* A part of the state that a step leaves alone keeps its type.
LEMMA TypeKept ==
  /\ InputsOK /\ UNCHANGED <<linkInputs, sensedVars>> => InputsOK'
  /\ SequenceOK /\ UNCHANGED <<sequence, runtime>> => SequenceOK'
  /\ BearingOK /\ UNCHANGED <<bearingVars, samples, probeCompleted>> => BearingOK'
  /\ GatesOK /\ UNCHANGED <<gateVars, rangeHold>> => GatesOK'
  /\ OutputsOK /\ UNCHANGED <<service, output>> => OutputsOK'
  /\ HistoryOK /\ UNCHANGED <<probed, streak, mixed, saw>> => HistoryOK'
<1>1. InputsOK /\ UNCHANGED <<linkInputs, sensedVars>> => InputsOK'
  BY DEF InputsOK, linkInputs, sensedVars
<1>2. SequenceOK /\ UNCHANGED <<sequence, runtime>> => SequenceOK'
  BY DEF SequenceOK, sequence
<1>3. BearingOK /\ UNCHANGED <<bearingVars, samples, probeCompleted>> => BearingOK'
  BY DEF BearingOK, bearingVars
<1>4. GatesOK /\ UNCHANGED <<gateVars, rangeHold>> => GatesOK'
  BY DEF GatesOK, gateVars
<1>5. OutputsOK /\ UNCHANGED <<service, output>> => OutputsOK'
  BY DEF OutputsOK, output
<1>6. HistoryOK /\ UNCHANGED <<probed, streak, mixed, saw>> => HistoryOK'
  BY DEF HistoryOK
<1> QED
  BY <1>1, <1>2, <1>3, <1>4, <1>5, <1>6

LEMMA TypeCallback ==
  ASSUME TypeOK, BearingCounted, Callback
  PROVE  TypeOK'
<1> USE DEF TypeOK
<1>1. CASE OnStamped \/ OnSpeed \/ OnIqMagnitude
  <2>1. InputsOK'
    <3>1. CASE OnStamped
      BY <1>1, <3>1 DEF OnStamped, Stamped, Refresh, InputsOK, Inputs,
                        sensedVars
    <3>2. CASE OnSpeed
      BY <3>2 DEF OnSpeed, InputsOK, Inputs
    <3>3. CASE OnIqMagnitude
      BY <3>3 DEF OnIqMagnitude, InputsOK, linkInputs
    <3> QED
      BY <1>1, <3>1, <3>2, <3>3
  <2>2. UNCHANGED <<sequence, runtime, bearingVars, probeVars, gateVars, holdVars,
                    service, output>>
    BY <1>1 DEF OnStamped, Stamped, Refresh, OnSpeed, OnIqMagnitude, Refresh
  <2> QED
    BY TypeKept, <2>1, <2>2 DEF probeVars, holdVars, gateVars, bearingVars
<1>2. CASE OnDeltaRange
  <2>1. InputsOK'
    BY <1>2 DEF OnDeltaRange, InputsOK, Inputs, sensedVars
  <2>2. BearingOK' /\ HistoryOK'
    BY <1>2, NoOdomCountsAssumption
       DEF OnDeltaRange, BearingOK, HistoryOK, BearingCounted, bearingVars, holdVars
  <2>3. GatesOK'
    BY <1>2 DEF OnDeltaRange, GatesOK, holdVars
  <2>4. UNCHANGED <<sequence, runtime, service, output>>
    BY <1>2 DEF OnDeltaRange
  <2> QED
    BY TypeKept, <2>1, <2>2, <2>3, <2>4
<1>3. ASSUME NEW report \in Reports,
             OnVehicleState(report.connected, report.armed, report.mode)
      PROVE  TypeOK'
  <2>1. report.connected \in BOOLEAN /\ report.armed \in BOOLEAN /\ report.mode \in Modes
    BY ModesAssumption
  <2>2. InputsOK'
    BY <1>3, <2>1 DEF OnVehicleState, InputsOK, Inputs, sensedVars
  <2>3. UNCHANGED <<sequence, runtime, bearingVars, probeVars, gateVars, holdVars,
                    service, output>>
    BY <1>3 DEF OnVehicleState
  <2> QED
    BY TypeKept, <2>2, <2>3 DEF probeVars, holdVars, gateVars, bearingVars
<1> QED
  BY <1>1, <1>2, <1>3 DEF Callback, OnSensor

LEMMA TypePassing ==
  ASSUME TypeOK, Passing
  PROVE  TypeOK'
<1> USE DEF TypeOK
<1>1. ASSUME NEW i \in Inputs, Expire(i) PROVE TypeOK'
  <2>1. InputsOK'
    BY <1>1 DEF Expire, InputsOK, sensedVars
  <2>2. UNCHANGED <<sequence, runtime, bearingVars, probeVars, gateVars, holdVars,
                    service, output>>
    BY <1>1 DEF Expire
  <2> QED
    BY TypeKept, <2>1, <2>2 DEF probeVars, holdVars, gateVars, bearingVars
<1>2. CASE StageLapses
  <2>1. SequenceOK'
    BY <1>2 DEF StageLapses, SequenceOK, Timer, sequence
  <2>2. UNCHANGED <<linkInputs, sensedVars, bearingVars, probeVars, gateVars, holdVars,
                    service, output>>
    BY <1>2 DEF StageLapses
  <2> QED
    BY TypeKept, <2>1, <2>2 DEF probeVars, holdVars, gateVars, bearingVars
<1>3. CASE TimerLapses
  <2>1. UNCHANGED <<linkInputs, sensedVars, sequence, bearingVars, probeVars, gateVars,
                    holdVars, output>>
    BY <1>3 DEF TimerLapses
  <2>2. runtime' \in {runtime, Lapse(runtime)} /\ service' \in {service, Lapse(service)}
    BY <1>3 DEF TimerLapses
  <2>3. SequenceOK'
    BY <2>1, <2>2 DEF SequenceOK, Timer, Lapse, sequence
  <2>4. OutputsOK'
    BY <2>1, <2>2 DEF OutputsOK, Timer, Lapse, output
  <2> QED
    BY TypeKept, <2>1, <2>3, <2>4 DEF probeVars, holdVars, gateVars, bearingVars
<1>4. CASE ForwardLapses \/ GateLapses
  <2>1. GatesOK'
    BY <1>4 DEF ForwardLapses, GateLapses, GatesOK, Older, ForwardAge, Timer, holdVars
  <2>2. UNCHANGED <<linkInputs, sensedVars, sequence, runtime, bearingVars, probeVars,
                    mixed, saw, service, output>>
    BY <1>4 DEF ForwardLapses, GateLapses, holdVars
  <2> QED
    BY TypeKept, <2>1, <2>2 DEF probeVars, holdVars, gateVars, bearingVars
<1> QED
  BY <1>1, <1>2, <1>3, <1>4 DEF Passing

\* What every tick of a running mission does to the outputs and the state.
TickShape ==
  /\ RequestArmMode
  /\ \E requested \in Command : Publish(requested)
  /\ state' \in States /\ stage' \in 1..2 /\ runtime' \in Timer
  /\ UNCHANGED <<linkInputs, sensedVars, halted>>

\* What is left to check of such a tick.
LEMMA TypeTick ==
  ASSUME TypeOK, TickShape, BearingOK', GatesOK', HistoryOK'
  PROVE  TypeOK'
<1>1. InputsOK'
  BY TypeKept DEF TypeOK, TickShape
<1>2. SequenceOK'
  BY DEF SequenceOK, TickShape
<1>3. OutputsOK'
  BY PublishOK, RequestOK DEF TickShape, OutputsOK, TypeOK
<1> QED
  BY <1>1, <1>2, <1>3 DEF TypeOK

LEMMA StatesOK ==
  /\ {"WAIT_VEHICLE", "NO_ODOM_PHASE_PROBE", "ALIGN", "APPROACH", "TERMINAL_BRAKE",
      "COMPLETE", "FAILED_TIMEOUT"} = States
  /\ Terminal = {"COMPLETE", "FAILED_TIMEOUT"}
BY DEF States, Steered, Succeeded, Terminal

LEMMA TransitionOK ==
  ASSUME NEW next \in States, SequenceOK, Transition(next)
  PROVE  state' = next /\ state' \in States /\ stage' \in 1..2
BY DEF Transition, SequenceOK

\* What start_no_odom_probe leaves behind.
LEMMA StartProbeOK ==
  ASSUME StartProbe
  PROVE  /\ state' = "NO_ODOM_PHASE_PROBE" /\ stage' = 1
         /\ samples' = 0 /\ probed' = 0 /\ probeCompleted' = FALSE
         /\ forward' = "off" /\ window' = "none" /\ mixed' = FALSE /\ mismatch' = "off"
         /\ commandAge' = "off" /\ lowSpeed' = "off"
BY DEF StartProbe, ResetInnovation, ResetMotionResponse

LEMMA TypeUnsteered ==
  ASSUME TypeOK, TickTimeout \/ TickBlocked \/ TickStart \/ TickProbe \/ TickReject
  PROVE  TypeOK'
<1>1. BearingOK /\ GatesOK /\ HistoryOK /\ SequenceOK
  BY DEF TypeOK
<1>2. 0 \in 0..ProbeSamples /\ 0 \in 0..ConfirmationProbes
  BY NoOdomCountsAssumption
<1>3. CASE TickTimeout
  <2>1. TickShape
    BY <1>1, <1>3, CommandsOK, StatesOK, TransitionOK
       DEF TickTimeout, TickRunning, TickShape, SequenceOK
  <2>2. BearingOK' /\ GatesOK' /\ HistoryOK'
    BY <1>1, <1>3, TypeKept DEF TickTimeout, probeVars, holdVars, gateVars, bearingVars
  <2> QED
    BY <2>1, <2>2, TypeTick
<1>4. CASE TickBlocked
  <2>1. TickShape
    BY <1>1, <1>4, CommandsOK, StatesOK, TransitionOK
       DEF TickBlocked, TickRunning, TickShape, SequenceOK
  <2>2. BearingOK'
    BY <1>1, <1>2, <1>4 DEF TickBlocked, ForgetBearing, BearingOK
  <2>3. GatesOK'
    BY <1>1, <1>4 DEF TickBlocked, ResetMotionResponse, GatesOK, ForwardAge, Timer
  <2>4. HistoryOK'
    BY <1>1, <1>2, <1>4 DEF TickBlocked, HistoryOK
  <2> QED
    BY <2>1, <2>2, <2>3, <2>4, TypeTick
<1>5. CASE TickStart \/ TickReject
  <2>1. StartProbe
    BY <1>5 DEF TickStart, TickReject
  <2>2. TickShape
    BY <1>1, <1>5, <2>1, CommandsOK, StatesOK, StartProbeOK
       DEF TickStart, TickReject, TickAtEnd, TickReady, TickRunning, Begun, TickShape,
           SequenceOK, Timer
  <2>3. UNCHANGED <<bearingVars, holdVars>>
    BY <1>5 DEF TickStart, TickReject
  <2>4. BearingOK' /\ HistoryOK'
    BY <1>1, <1>2, <2>1, <2>3, StartProbeOK DEF BearingOK, HistoryOK, bearingVars, holdVars
  <2>5. GatesOK'
    BY <1>1, <2>1, <2>3, StartProbeOK DEF GatesOK, ForwardAge, Timer, holdVars
  <2> QED
    BY <2>2, <2>4, <2>5, TypeTick
<1>6. CASE TickProbe
  <2>1. TickShape
    BY <1>1, <1>6, CommandsOK
       DEF TickProbe, TickReady, TickRunning, TickShape, SequenceOK, sequence
  <2>2. BearingOK' /\ GatesOK' /\ HistoryOK'
    BY <1>1, <1>6, TypeKept DEF TickProbe, probeVars, holdVars, gateVars, bearingVars
  <2> QED
    BY <2>1, <2>2, TypeTick
<1> QED
  BY <1>3, <1>4, <1>5, <1>6

LEMMA TypeTickUnconfirmed ==
  ASSUME TypeOK, BearingCounted, TickUnconfirmed
  PROVE  TypeOK'
<1>1. PICK agrees \in BOOLEAN :
        /\ Measured(agrees) /\ ~confirmed /\ ~Enough(AgreeingBearings(agrees))
        /\ candidate' = TRUE /\ consistent' = AgreeingBearings(agrees)
        /\ streak' = IF agrees THEN streak + 1 ELSE 1
        /\ StartProbe /\ Publish(Stop)
        /\ UNCHANGED <<linkInputs, sensedVars, runtime, confirmed, holdVars, halted>>
  BY DEF TickUnconfirmed
<1>2. BearingOK /\ GatesOK /\ HistoryOK /\ SequenceOK
  BY DEF TypeOK
<1>3. TickShape
  BY <1>1, <1>2, CommandsOK, StatesOK, StartProbeOK
     DEF Measured, TickAtEnd, TickReady, TickRunning, TickShape, SequenceOK
<1>4. streak' = consistent' /\ consistent' \in 0..ConfirmationProbes
  BY <1>1, <1>2, NoOdomCountsAssumption
     DEF Enough, AgreeingBearings, BearingCounted, BearingOK, HistoryOK
<1>5. BearingOK' /\ HistoryOK'
  BY <1>1, <1>2, <1>4, StartProbeOK, NoOdomCountsAssumption
     DEF Measured, BearingOK, HistoryOK, holdVars
<1>6. GatesOK'
  BY <1>1, <1>2, StartProbeOK DEF GatesOK, ForwardAge, Timer, holdVars
<1> QED
  BY <1>3, <1>5, <1>6, TypeTick

\* Whoever steers in this tick does so by a bearing that is confirmed after it.
LEMMA SteeringBearing ==
  ASSUME TypeOK, BearingCounted, NEW from \in Steered, NEW driven, SteeringFrom(from, driven)
  PROVE  /\ RequestArmMode
         /\ UNCHANGED <<linkInputs, sensedVars, runtime, halted>>
         /\ direction' = TRUE /\ confirmed' = TRUE /\ candidate' \in BOOLEAN
         /\ consistent' \in 0..ConfirmationProbes /\ streak' = ConfirmationProbes
         /\ samples = ProbeSamples
         /\ from = "APPROACH" => state = "APPROACH" /\ probeCompleted
<1>1. BearingOK /\ HistoryOK
  BY DEF TypeOK
<1>2. UNCHANGED <<linkInputs, sensedVars, runtime, halted>>
  BY DEF SteeringFrom
<1>3. CASE /\ TickReady /\ state \in Steered /\ from = state
           /\ driven = lastCommand.forward /\ UNCHANGED bearingVars
  <2>1. confirmed /\ direction /\ probeCompleted /\ samples = ProbeSamples
        /\ streak = ConfirmationProbes
    BY <1>3 DEF BearingCounted
  <2> QED
    BY <1>1, <1>2, <1>3, <2>1 DEF TickReady, TickRunning, bearingVars, BearingOK
<1>4. CASE MeasuredAndConfirmed /\ from = "ALIGN" /\ driven = 0
  <2>1. PICK agrees \in BOOLEAN :
          /\ Measured(agrees)
          /\ IF confirmed THEN UNCHANGED <<candidate, consistent, streak>>
             ELSE /\ Enough(AgreeingBearings(agrees))
                  /\ candidate' = TRUE
                  /\ consistent' = AgreeingBearings(agrees)
                  /\ streak' = IF agrees THEN streak + 1 ELSE 1
    BY <1>4 DEF MeasuredAndConfirmed
  <2>2. RequestArmMode /\ direction' = TRUE /\ samples = ProbeSamples
    BY <2>1 DEF Measured, TickAtEnd, TickReady, TickRunning
  <2>3. confirmed' = TRUE
    BY <1>4 DEF MeasuredAndConfirmed
  <2>4. CASE confirmed
    BY <1>1, <1>2, <1>4, <2>1, <2>2, <2>3, <2>4 DEF BearingOK, BearingCounted
  <2>5. CASE ~confirmed
    <3>1. candidate' \in BOOLEAN
      BY <2>1, <2>5
    <3>2. consistent' \in 0..ConfirmationProbes /\ streak' = ConfirmationProbes
      BY <1>1, <2>1, <2>5, NoOdomCountsAssumption
         DEF Enough, AgreeingBearings, BearingCounted, BearingOK
    <3> QED
      BY <1>2, <1>4, <2>2, <2>3, <3>1, <3>2
  <2> QED
    BY <2>4, <2>5
<1> QED
  BY <1>3, <1>4 DEF SteeringFrom

LEMMA HoldsOK ==
  ASSUME TypeOK
  PROVE  Hold \in Timer
BY DEF TypeOK, GatesOK, Hold, Timer

LEMMA TypeTickSucceed ==
  ASSUME TypeOK, BearingCounted, TickSucceed
  PROVE  TypeOK' /\ BearingCounted'
<1>1. PICK from \in Steered, driven \in {-1, 0, 1} :
        /\ SteeringFrom(from, driven)
        /\ probeCompleted' = TRUE /\ saw' = {"range"}
        /\ \/ Transition("TERMINAL_BRAKE") /\ Publish(Reverse)
           \/ Transition("COMPLETE") /\ Publish(Stop)
        /\ UNCHANGED <<gateVars, rangeHold, samples, probed>>
  BY DEF TickSucceed
<1>2. GatesOK /\ BearingOK /\ HistoryOK /\ SequenceOK
  BY DEF TypeOK
<1>3. TickShape
  BY <1>1, <1>2, SteeringBearing, CommandsOK, StatesOK, TransitionOK DEF TickShape, SequenceOK
<1>4. BearingOK' /\ HistoryOK'
  <2>1. /\ direction' = TRUE /\ confirmed' = TRUE /\ candidate' \in BOOLEAN
        /\ consistent' \in 0..ConfirmationProbes /\ streak' = ConfirmationProbes
    BY <1>1, SteeringBearing
  <2>2. BearingOK'
    BY <1>1, <1>2, <2>1 DEF BearingOK
  <2>3. HistoryOK'
    BY <1>1, <1>2, <2>1, BoundsOK DEF HistoryOK, gateVars
  <2> QED
    BY <2>2, <2>3
<1>5. GatesOK'
  BY <1>1, <1>2, TypeKept
<1>6. BearingCounted'
  BY <1>1, SteeringBearing DEF BearingCounted
<1> QED
  BY <1>3, <1>4, <1>5, <1>6, TypeTick

\* The three ways to steer on: they differ in the gates, the state and the command.
LEMMA SteeringOn ==
  ASSUME TypeOK, BearingCounted, NEW from \in Steered, NEW driven \in {-1, 0, 1},
         Steering(from, driven), state' \in Steered, stage' \in 1..2,
         NEW requested \in Command, Publish(requested),
         UNCHANGED <<samples, probed>>, probeCompleted' = TRUE,
         mixed' \in BOOLEAN, GatesOK'
  PROVE  TypeOK' /\ BearingCounted'
<1>1. BearingOK /\ HistoryOK /\ SequenceOK
  BY DEF TypeOK
<1>2. SteeringFrom(from, driven) /\ saw' = Seen(from)
  BY DEF Steering
<1>3. TickShape
  BY <1>1, <1>2, SteeringBearing, StatesOK DEF TickShape, SequenceOK, Steered
<1>4. saw' \subseteq {"range", "slow", "bad"}
  BY <1>2 DEF Seen
<1>5. BearingOK' /\ HistoryOK'
  <2>1. /\ direction' = TRUE /\ confirmed' = TRUE /\ candidate' \in BOOLEAN
        /\ consistent' \in 0..ConfirmationProbes /\ streak' = ConfirmationProbes
    BY <1>2, SteeringBearing
  <2>2. BearingOK'
    BY <1>1, <2>1 DEF BearingOK
  <2>3. HistoryOK'
    BY <1>1, <1>4, <2>1, BoundsOK DEF HistoryOK
  <2> QED
    BY <2>2, <2>3
<1>6. BearingCounted'
  BY <1>2, SteeringBearing DEF BearingCounted
<1> QED
  BY <1>3, <1>5, <1>6, TypeTick

LEMMA TypeTickAlign ==
  ASSUME TypeOK, BearingCounted, TickAlign
  PROVE  TypeOK' /\ BearingCounted'
<1>1. PICK from \in Steered, driven \in {-1, 0, 1}, requested \in SteeringCommands(0) :
        /\ Steering(from, driven)
        /\ Transition("ALIGN")
        /\ probeCompleted' = TRUE
        /\ forward' = "off" /\ mixed' = (window # "none") /\ ResetMotionResponse
        /\ Publish(requested)
        /\ UNCHANGED <<window, mismatch, samples, probed>>
  BY DEF TickAlign
<1>2. GatesOK'
  <2>1. rangeHold' \in Timer
    BY <1>1, HoldsOK DEF Steering
  <2> QED
    BY <1>1, <2>1 DEF TypeOK, GatesOK, ResetMotionResponse, ForwardAge, Timer
<1>3. state' \in Steered /\ stage' \in 1..2
  BY <1>1, StatesOK, TransitionOK DEF TypeOK, Steered
<1>4. requested \in Command
  BY CommandsOK
<1> QED
  BY <1>1, <1>2, <1>3, <1>4, SteeringOn

LEMMA TypeTickDepart ==
  ASSUME TypeOK, BearingCounted, TickDepart
  PROVE  TypeOK' /\ BearingCounted'
<1>1. PICK driven \in {-1, 0, 1}, requested \in SteeringCommands(1) :
        /\ Steering("ALIGN", driven)
        /\ Transition("APPROACH")
        /\ probeCompleted' = TRUE
        /\ forward' = "young" /\ ResetInnovation
        /\ commandAge' = IF MotionResponse /\ fresh["speed"] THEN "running" ELSE "off"
        /\ lowSpeed' = "off"
        /\ Publish(requested)
        /\ UNCHANGED <<samples, probed>>
  BY DEF TickDepart
<1>2. GatesOK' /\ mixed' \in BOOLEAN
  <2>1. rangeHold' \in Timer
    BY <1>1, HoldsOK DEF Steering
  <2> QED
    BY <1>1, <2>1 DEF TypeOK, GatesOK, ResetInnovation, ForwardAge, Timer
<1>3. state' \in Steered /\ stage' \in 1..2
  BY <1>1, StatesOK, TransitionOK DEF TypeOK, Steered
<1>4. requested \in Command /\ "ALIGN" \in Steered
  BY CommandsOK DEF Steered
<1> QED
  BY <1>1, <1>2, <1>3, <1>4, SteeringOn

LEMMA TypeTickDrive ==
  ASSUME TypeOK, BearingCounted, TickDrive
  PROVE  TypeOK' /\ BearingCounted'
<1>1. PICK driven \in {-1, 0, 1}, requested \in SteeringCommands(1) :
        /\ Steering("APPROACH", driven)
        /\ FollowResponse /\ FollowInnovation
        /\ Publish(requested)
        /\ UNCHANGED <<sequence, probeVars, forward, window, mixed>>
  BY DEF TickDrive
<1>2. "APPROACH" \in Steered
  BY DEF Steered
<1>3. state = "APPROACH" /\ probeCompleted
  BY <1>1, <1>2, SteeringBearing DEF Steering
<1>4. GatesOK'
  <2>1. rangeHold' \in Timer
    BY <1>1, HoldsOK DEF Steering
  <2>2. commandAge' \in Timer /\ lowSpeed' \in Timer
    BY <1>1 DEF TypeOK, GatesOK, FollowResponse, Timer
  <2>3. mismatch' \in Timer
    BY <1>1 DEF TypeOK, GatesOK, FollowInnovation, Timer
  <2> QED
    BY <1>1, <2>1, <2>2, <2>3 DEF TypeOK, GatesOK
<1>5. state' \in Steered /\ stage' \in 1..2 /\ mixed' \in BOOLEAN
  BY <1>1, <1>2, <1>3 DEF TypeOK, SequenceOK, HistoryOK, sequence
<1>6. requested \in Command
  BY CommandsOK
<1>7. UNCHANGED <<samples, probed>> /\ probeCompleted' = TRUE
  BY <1>1, <1>3 DEF probeVars, TypeOK, BearingOK
<1> QED
  BY <1>1, <1>2, <1>4, <1>5, <1>6, <1>7, SteeringOn

LEMMA TypeTickReestimate ==
  ASSUME TypeOK, BearingCounted, TickReestimate
  PROVE  TypeOK' /\ BearingCounted'
<1>1. PICK driven \in {-1, 0, 1} :
        Steering("APPROACH", driven) /\ StartProbe /\ Publish(Stop)
  BY DEF TickReestimate
<1>2. "APPROACH" \in Steered
  BY DEF Steered
<1>3. GatesOK /\ BearingOK /\ HistoryOK /\ SequenceOK
  BY DEF TypeOK
<1>4. SteeringFrom("APPROACH", driven) /\ saw' = Seen("APPROACH") /\ rangeHold' = Hold
  BY <1>1 DEF Steering
<1>5. /\ RequestArmMode /\ UNCHANGED <<linkInputs, sensedVars, runtime, halted>>
      /\ direction' = TRUE /\ confirmed' = TRUE /\ candidate' \in BOOLEAN
      /\ consistent' \in 0..ConfirmationProbes /\ streak' = ConfirmationProbes
  BY <1>2, <1>4, SteeringBearing
<1>6. TickShape
  BY <1>1, <1>3, <1>5, CommandsOK, StatesOK, StartProbeOK DEF TickShape, SequenceOK
<1>7. BearingOK' /\ HistoryOK'
  <2>1. saw' \subseteq {"range", "slow", "bad"}
    BY <1>4 DEF Seen
  <2>2. BearingOK'
    BY <1>1, <1>5, BoundsOK, StartProbeOK DEF BearingOK
  <2>3. HistoryOK'
    BY <1>1, <1>5, <2>1, BoundsOK, StartProbeOK DEF HistoryOK
  <2> QED
    BY <2>2, <2>3
<1>8. GatesOK'
  BY <1>1, <1>3, <1>4, StartProbeOK, HoldsOK DEF GatesOK, ForwardAge, Timer
<1>9. BearingCounted'
  BY <1>1, <1>5, StartProbeOK DEF BearingCounted, Steered
<1> QED
  BY <1>6, <1>7, <1>8, <1>9, TypeTick

LEMMA TypeEnd ==
  ASSUME TypeOK, TickBrake \/ TickBrakeOver \/ TickTerminal \/ TickExit
  PROVE  TypeOK'
<1>1. UNCHANGED <<linkInputs, sensedVars, runtime, bearingVars, probeVars, gateVars,
                  holdVars, service, requests>>
  BY DEF TickBrake, TickBrakeOver, TickTerminal, TickExit
<1>2. SequenceOK'
  <2>1. CASE TickBrakeOver
    BY <2>1, <1>1, StatesOK, TransitionOK DEF TickBrakeOver, TypeOK, SequenceOK
  <2>2. CASE TickBrake \/ TickTerminal \/ TickExit
    BY <1>1, <2>2 DEF TickBrake, TickTerminal, TickExit, TypeOK, SequenceOK, sequence
  <2> QED
    BY <2>1, <2>2
<1>3. lastCommand' \in Command /\ rc' \in {"none", "release", "pwm"}
  <2>1. CASE TickBrake \/ TickBrakeOver \/ TickTerminal
    BY <2>1, CommandsOK, PublishOK DEF TickBrake, TickBrakeOver, TickTerminal
  <2>2. CASE TickExit
    BY <2>2, CommandsOK, RealizedOK DEF TickExit
  <2> QED
    BY <2>1, <2>2
<1>4. halted' \in BOOLEAN
  BY DEF TickBrake, TickBrakeOver, TickTerminal, TickExit, TypeOK, OutputsOK
<1>5. OutputsOK'
  BY <1>1, <1>3, <1>4 DEF TypeOK, OutputsOK
<1> QED
  BY <1>1, <1>2, <1>5, TypeKept DEF TypeOK, probeVars, gateVars, holdVars, bearingVars

LEMMA CountedKept ==
  ASSUME TypeOK, BearingCounted,
         \/ Callback \/ Passing \/ TickTimeout \/ TickBlocked \/ TickStart \/ TickProbe
         \/ TickReject \/ TickUnconfirmed
         \/ TickBrake \/ TickBrakeOver \/ TickTerminal \/ TickExit
  PROVE  BearingCounted'
<1> USE DEF BearingCounted
<1>1. CASE Callback
  <2>1. UNCHANGED <<bearingVars, state, probeCompleted>>
    BY <1>1 DEF Callback, OnSensor, OnStamped, Stamped, Refresh, OnSpeed,
                OnDeltaRange, OnIqMagnitude, OnVehicleState, probeVars, sequence
  <2>2. \/ UNCHANGED <<samples, probed>>
        \/ /\ state = "NO_ODOM_PHASE_PROBE"
           /\ samples' = samples + 1 /\ probed' = probed + 1
    BY <1>1 DEF Callback, OnSensor, OnStamped, Stamped, Refresh, OnSpeed,
                OnDeltaRange, OnIqMagnitude, OnVehicleState, probeVars
  <2> QED
    BY <2>1, <2>2 DEF bearingVars, Steered
<1>2. CASE Passing \/ TickProbe \/ TickBrake \/ TickTerminal \/ TickExit
  <2>1. UNCHANGED <<bearingVars, probeVars, state>>
    BY <1>2 DEF Passing, Expire, TimerLapses, Lapse, StageLapses, ForwardLapses,
                GateLapses, TickProbe, TickBrake, TickTerminal, TickExit, sequence
  <2> QED
    BY <2>1 DEF bearingVars, probeVars
<1>3. CASE TickTimeout \/ TickBrakeOver
  <2>1. UNCHANGED <<bearingVars, probeVars>> /\ state' \in {"FAILED_TIMEOUT", "COMPLETE"}
    BY <1>3 DEF TickTimeout, TickBrakeOver, Transition
  <2> QED
    BY <2>1 DEF bearingVars, probeVars, Steered
<1>4. CASE TickBlocked
  <2>1. /\ confirmed' = FALSE /\ streak' = 0 /\ consistent' = 0
        /\ state' = "WAIT_VEHICLE" /\ UNCHANGED <<samples, probed>>
    BY <1>4 DEF TickBlocked, ForgetBearing, Transition
  <2> QED
    BY <2>1, NoOdomCountsAssumption DEF Steered
<1>5. CASE TickStart \/ TickReject
  <2>1. StartProbe /\ UNCHANGED <<direction, confirmed, consistent, streak>>
    BY <1>5 DEF TickStart, TickReject, bearingVars
  <2>2. state' = "NO_ODOM_PHASE_PROBE" /\ samples' = 0 /\ probed' = 0
    BY <2>1, StartProbeOK
  <2> QED
    BY <2>1, <2>2 DEF Steered
<1>6. CASE TickUnconfirmed
  <2>1. PICK agrees \in BOOLEAN :
          /\ ~confirmed /\ ~Enough(AgreeingBearings(agrees))
          /\ consistent' = AgreeingBearings(agrees)
          /\ streak' = IF agrees THEN streak + 1 ELSE 1
          /\ StartProbe /\ UNCHANGED confirmed
    BY <1>6 DEF TickUnconfirmed
  <2>2. streak' = consistent' /\ consistent' < ConfirmationProbes
    BY <2>1, NoOdomCountsAssumption DEF Enough, AgreeingBearings, TypeOK, BearingOK
  <2> QED
    BY <2>1, <2>2, StartProbeOK DEF Steered
<1> QED
  BY <1>1, <1>2, <1>3, <1>4, <1>5, <1>6

LEMMA CorrectInit == Init => TypeOK /\ BearingCounted
<1> SUFFICES ASSUME Init PROVE TypeOK /\ BearingCounted
  OBVIOUS
<1> USE DEF Init
<1>1. InputsOK
  BY DEF InputsOK
<1>2. SequenceOK
  <2>1. state = "WAIT_VEHICLE" /\ stage = 1 /\ runtime = "off"
    OBVIOUS
  <2> HIDE DEF Init
  <2> QED
    BY <2>1 DEF SequenceOK, States, Timer
<1>3. BearingOK
  BY BoundsOK DEF BearingOK
<1>4. HistoryOK
  BY BoundsOK DEF HistoryOK
<1>5. GatesOK
  BY DEF GatesOK, ForwardAge, Timer
<1>6. OutputsOK
  BY CommandsOK DEF OutputsOK, Timer
<1>7. BearingCounted
  <2>1. samples = probed /\ streak = consistent /\ consistent < ConfirmationProbes
    BY BoundsOK
  <2>2. state \notin Steered \cup {"TERMINAL_BRAKE"} /\ ~confirmed
    BY DEF Steered
  <2> QED
    BY <2>1, <2>2 DEF BearingCounted
<1> QED
  BY <1>1, <1>2, <1>3, <1>4, <1>5, <1>6, <1>7 DEF TypeOK

LEMMA CorrectNext ==
  ASSUME TypeOK, BearingCounted, [Next]_vars
  PROVE  TypeOK' /\ BearingCounted'
<1>1. CASE Callback \/ Passing
  BY <1>1, TypeCallback, TypePassing, CountedKept
<1>2. CASE TickTimeout \/ TickBlocked \/ TickStart \/ TickProbe \/ TickReject
  BY <1>2, TypeUnsteered, CountedKept
<1>3. CASE TickUnconfirmed
  BY <1>3, TypeTickUnconfirmed, CountedKept
<1>4. CASE TickAlign \/ TickDepart \/ TickDrive \/ TickReestimate \/ TickSucceed
  BY <1>4, TypeTickAlign, TypeTickDepart, TypeTickDrive, TypeTickReestimate,
     TypeTickSucceed
<1>5. CASE TickBrake \/ TickBrakeOver \/ TickTerminal \/ TickExit
  BY <1>5, TypeEnd, CountedKept
<1>6. CASE UNCHANGED vars
  <2>1. TypeOK'
    BY <1>6, TypeKept DEF TypeOK, vars, probeVars, gateVars, holdVars, bearingVars
  <2>2. BearingCounted'
    BY <1>6 DEF BearingCounted, vars, probeVars, bearingVars, sequence
  <2> QED
    BY <2>1, <2>2
<1> QED
  BY <1>1, <1>2, <1>3, <1>4, <1>5, <1>6 DEF Next, ControlTick, TickMission, Exited

LEMMA Correct == Spec => [](TypeOK /\ BearingCounted)
<1> QED
  BY CorrectInit, CorrectNext, PTL DEF Spec

\* Every reachable state is well typed: however often bearings disagree, patterns are
\* rejected and inputs fail, the confirmation count stays within its configured number.
THEOREM TypeCorrect == Spec => []TypeOK
<1>1. TypeOK /\ BearingCounted => TypeOK
  OBVIOUS
<1> QED
  BY <1>1, Correct, PTL

\* The vehicle is never steered, and never brakes at the goal, but by a bearing that
\* the configured number of patterns in a row agreed on and that was measured anew.
THEOREM BearingEarnedAlways == Spec => []BearingEarned
<1>1. TypeOK /\ BearingCounted => BearingEarned
  BY DEF BearingCounted, BearingEarned
<1> QED
  BY <1>1, Correct, PTL

-----------------------------------------------------------------------------
(* The gates of a forward segment and the success hold *)

\* Besides what it says of the holds: the low-speed hold runs only once the grace of
\* the command is over, the mismatch hold only where innovation is used.
GatesSound ==
  /\ WindowOfOneSegment /\ HoldsUnbroken
  /\ lowSpeed # "off" => commandAge = "due"
  /\ mismatch # "off" => InnovationUsed

LEMMA GatesKept ==
  ASSUME GatesSound, UNCHANGED <<gateVars, holdVars>>, state' = "APPROACH" => state = "APPROACH"
  PROVE  GatesSound'
BY DEF GatesSound, WindowOfOneSegment, HoldsUnbroken, InnovationUsed, gateVars, holdVars

LEMMA GatesNext ==
  ASSUME TypeOK, GatesSound, [Next]_vars
  PROVE  GatesSound'
<1> USE DEF GatesSound, WindowOfOneSegment, HoldsUnbroken, InnovationUsed
<1>1. CASE Callback
  <2>1. UNCHANGED <<state, forward, mixed, mismatch, commandAge, lowSpeed, rangeHold, saw>>
    BY <1>1 DEF Callback, OnSensor, OnStamped, Stamped, Refresh, OnSpeed,
                OnDeltaRange, OnIqMagnitude, OnVehicleState, sequence, gateVars, holdVars
  <2> QED
    BY <2>1
<1>2. CASE Passing
  <2>1. CASE GateLapses
    BY <2>1 DEF GateLapses, sequence
  <2>2. CASE ForwardLapses
    BY <2>2 DEF ForwardLapses, Older, sequence, holdVars
  <2>3. ASSUME NEW i \in Inputs, Expire(i) PROVE GatesSound'
    BY <2>3 DEF Expire, sequence, gateVars, holdVars
  <2>4. CASE TimerLapses \/ StageLapses
    BY <2>4 DEF TimerLapses, Lapse, StageLapses, sequence, gateVars, holdVars
  <2> QED
    BY <1>2, <2>1, <2>2, <2>3, <2>4 DEF Passing
<1>3. CASE TickTimeout \/ TickProbe \/ TickBrake \/ TickBrakeOver \/ TickTerminal \/ TickExit
  <2>1. UNCHANGED <<gateVars, holdVars>> /\ (state' = "APPROACH" => state = "APPROACH")
    BY <1>3 DEF TickTimeout, TickProbe, TickBrake, TickBrakeOver, TickTerminal, TickExit,
                Transition, sequence
  <2> QED
    BY <2>1, GatesKept
<1>4. CASE TickBlocked
  BY <1>4 DEF TickBlocked, Transition, ResetMotionResponse
<1>5. CASE TickStart \/ TickReject \/ TickUnconfirmed
  <2>1. StartProbe /\ UNCHANGED <<rangeHold, saw>>
    BY <1>5 DEF TickStart, TickReject, TickUnconfirmed, holdVars
  <2> QED
    BY <2>1, StartProbeOK
<1>6. CASE TickSucceed
  <2>1. /\ UNCHANGED <<gateVars, rangeHold>> /\ saw' = {"range"}
        /\ state' \in {"TERMINAL_BRAKE", "COMPLETE"}
    BY <1>6 DEF TickSucceed, Transition
  <2> QED
    BY <2>1 DEF gateVars
<1>7. ASSUME NEW from, NEW driven, Steering(from, driven)
      PROVE  rangeHold' # "off" => "range" \in saw'
  BY <1>7 DEF Steering, Hold, Seen
<1>8. CASE TickAlign \/ TickDepart
  <2>1. /\ rangeHold' # "off" => "range" \in saw'
        /\ \/ /\ state' = "ALIGN" /\ forward' = "off" /\ ResetMotionResponse
              /\ UNCHANGED mismatch
           \/ /\ state' = "APPROACH" /\ forward' = "young" /\ ResetInnovation
              /\ lowSpeed' = "off"
    BY <1>7, <1>8 DEF TickAlign, TickDepart, Transition
  <2> QED
    BY <2>1 DEF ResetMotionResponse, ResetInnovation
<1>9. CASE TickDrive
  <2>1. PICK driven \in {-1, 0, 1} :
          /\ Steering("APPROACH", driven) /\ FollowResponse /\ FollowInnovation
          /\ UNCHANGED <<sequence, probeVars, forward, window, mixed>>
    BY <1>9 DEF TickDrive
  <2>2. state = "APPROACH"
    BY <2>1 DEF Steering, SteeringFrom
  <2>3. saw' = Seen("APPROACH")
    BY <2>1 DEF Steering
  <2>4. forward' # "off" /\ ~mixed'
    BY <2>1, <2>2
  <2>5. lowSpeed' # "off" => commandAge' = "due" /\ "slow" \in saw'
    BY <2>1, <2>3 DEF FollowResponse, Seen, MeasuredlySlow
  <2>6. mismatch' # "off" => InnovationUsed /\ "bad" \in saw'
    BY <2>1, <2>3 DEF FollowInnovation, Seen, InnovationBad
  <2> QED
    BY <1>7, <2>1, <2>4, <2>5, <2>6
<1>10. CASE TickReestimate
  <2>1. StartProbe /\ (rangeHold' # "off" => "range" \in saw')
    BY <1>7, <1>10 DEF TickReestimate
  <2> QED
    BY <2>1, StartProbeOK
<1>11. CASE UNCHANGED vars
  BY <1>11, GatesKept DEF vars, sequence
<1> QED
  BY <1>1, <1>2, <1>3, <1>4, <1>5, <1>6, <1>8, <1>9, <1>10, <1>11
     DEF Next, ControlTick, TickMission, Exited

LEMMA GatesInit == Init => GatesSound
BY DEF Init, GatesSound, WindowOfOneSegment, HoldsUnbroken

LEMMA GatesAlways == Spec => []GatesSound
<1>1. TypeOK /\ GatesSound /\ [Next]_vars => GatesSound'
  BY GatesNext
<1> QED
  BY <1>1, GatesInit, TypeCorrect, PTL DEF Spec

\* Innovation is never judged on samples of another forward segment.
THEOREM WindowAlways == Spec => []WindowOfOneSegment
<1>1. GatesSound => WindowOfOneSegment
  BY DEF GatesSound
<1> QED
  BY <1>1, GatesAlways, PTL

\* A hold that runs has seen its condition at every steering tick since it started.
THEOREM HoldsAlways == Spec => []HoldsUnbroken
<1>1. GatesSound => HoldsUnbroken
  BY DEF GatesSound
<1> QED
  BY <1>1, GatesAlways, PTL

-----------------------------------------------------------------------------
(* Success *)

LEMMA SuccessStep ==
  ASSUME GatesSound, [Next]_vars
  PROVE  /\ state \notin Succeeded /\ state' \in Succeeded => inRange /\ "range" \in saw
         /\ state \in Succeeded => state' \in Succeeded /\ requests' = requests
<1> USE DEF Succeeded, Steered, Terminal
<1>1. CASE Callback \/ Passing \/ TickBrake \/ TickTerminal \/ TickExit \/ UNCHANGED vars
  <2>1. UNCHANGED <<state, requests>>
    BY <1>1 DEF Callback, OnSensor, OnStamped, Stamped, Refresh, OnSpeed,
                OnDeltaRange, OnIqMagnitude, OnVehicleState, Passing, Expire, TimerLapses, Lapse, StageLapses, ForwardLapses, GateLapses, TickBrake,
                TickTerminal, TickExit, sequence, output, vars
  <2> QED
    BY <2>1
<1>2. CASE TickBrakeOver
  BY <1>2 DEF TickBrakeOver, Transition
<1>3. CASE TickSucceed
  <2>1. SuccessHeld
    BY <1>3 DEF TickSucceed
  <2>2. inRange /\ "range" \in saw
    BY <2>1 DEF SuccessHeld, Arrived, GatesSound, HoldsUnbroken
  <2>3. state \notin {"TERMINAL_BRAKE", "COMPLETE"}
    BY <1>3 DEF TickSucceed, SteeringFrom, MeasuredAndConfirmed, Measured, TickAtEnd
  <2> QED
    BY <2>2, <2>3
<1>4. CASE \/ TickTimeout \/ TickBlocked \/ TickStart \/ TickProbe \/ TickReject
           \/ TickUnconfirmed
  <2>1. TickRunning
    BY <1>4 DEF TickTimeout, TickBlocked, TickStart, TickProbe, TickReject, TickUnconfirmed,
                Measured, TickAtEnd, TickReady
  <2>2. state' \in {"FAILED_TIMEOUT", "WAIT_VEHICLE", "NO_ODOM_PHASE_PROBE"}
    BY <1>4, StartProbeOK
       DEF TickTimeout, TickBlocked, TickStart, TickProbe, TickReject, TickUnconfirmed,
           Transition, TickReady, sequence
  <2> QED
    BY <2>1, <2>2 DEF TickRunning
<1>5. CASE TickAlign \/ TickDepart \/ TickDrive \/ TickReestimate
  <2>1. PICK from \in Steered, driven \in {-1, 0, 1} : SteeringFrom(from, driven)
    BY <1>5 DEF TickAlign, TickDepart, TickDrive, TickReestimate, Steering
  <2>2. TickRunning
    BY <2>1 DEF SteeringFrom, MeasuredAndConfirmed, Measured, TickAtEnd, TickReady
  <2>3. CASE TickAlign \/ TickDepart \/ TickReestimate
    <3>1. state' \in {"ALIGN", "APPROACH", "NO_ODOM_PHASE_PROBE"}
      BY <2>3, StartProbeOK DEF TickAlign, TickDepart, TickReestimate, Transition
    <3> QED
      BY <2>2, <3>1 DEF TickRunning
  <2>4. CASE TickDrive
    <3>1. state' = state
      BY <2>4 DEF TickDrive, sequence
    <3> QED
      BY <2>2, <3>1 DEF TickRunning
  <2> QED
    BY <1>5, <2>3, <2>4
<1> QED
  BY <1>1, <1>2, <1>3, <1>4, <1>5 DEF Next, ControlTick, TickMission, Exited

\* Success is declared in range after a steering tick in range, and then it is final.
THEOREM SuccessEarnedFinal == Spec => SuccessIsEarnedAndFinal
<1>1. GatesSound /\ [Next]_vars =>
        [/\ state \notin Succeeded /\ state' \in Succeeded => inRange /\ "range" \in saw
         /\ state \in Succeeded => state' \in Succeeded /\ requests' = requests]_vars
  BY SuccessStep
<1> QED
  BY <1>1, GatesAlways, PTL DEF Spec, SuccessIsEarnedAndFinal

-----------------------------------------------------------------------------
(* The command on the channels *)

\* Each axis but the heave is the requested one or nothing.
LEMMA PublishedAxes ==
  ASSUME NEW requested \in Command, Publish(requested)
  PROVE  /\ lastCommand'.forward \in {0, requested.forward}
         /\ lastCommand'.lateral \in {0, requested.lateral}
         /\ lastCommand'.yaw \in {0, requested.yaw}
BY RealizedOK DEF Publish, Stop

LEMMA StopPublished ==
  ASSUME lastCommand' \in Realized(Stop)
  PROVE  lastCommand'.forward = 0 /\ lastCommand'.lateral = 0 /\ lastCommand'.yaw = 0
<1>1. Stop.forward = 0 /\ Stop.lateral = 0 /\ Stop.yaw = 0
  BY DEF Stop
<1> QED
  BY <1>1, RealizedOK, CommandsOK

LEMMA MotionNext ==
  ASSUME TypeOK, MotionFitsState, [Next]_vars
  PROVE  MotionFitsState'
<1> USE DEF MotionFitsState
<1>1. CASE Callback \/ Passing \/ UNCHANGED vars
  <2>1. UNCHANGED <<state, lastCommand>>
    BY <1>1 DEF Callback, OnSensor, OnStamped, Stamped, Refresh, OnSpeed,
                OnDeltaRange, OnIqMagnitude, OnVehicleState, Passing, Expire, TimerLapses, Lapse, StageLapses, ForwardLapses, GateLapses, sequence, output, vars
  <2> QED
    BY <2>1
<1>2. CASE \/ TickTimeout \/ TickBlocked \/ TickStart \/ TickReject \/ TickUnconfirmed
           \/ TickReestimate \/ TickBrakeOver \/ TickTerminal \/ TickExit
  <2>1. lastCommand' \in Realized(Stop)
    BY <1>2 DEF TickTimeout, TickBlocked, TickStart, TickReject, TickUnconfirmed,
                TickReestimate, TickBrakeOver, TickTerminal, TickExit, Publish
  <2> QED
    BY <2>1, StopPublished
<1>3. CASE TickProbe
  <2>1. PICK requested \in ProbeCommands : Publish(requested)
    BY <1>3 DEF TickProbe
  <2>2. requested \in Command /\ requested.yaw = 0
    BY CommandsOK DEF ProbeCommands, Stop
  <2>3. state' = "NO_ODOM_PHASE_PROBE"
    BY <1>3 DEF TickProbe, sequence
  <2>4. lastCommand'.yaw = 0
    BY <2>1, <2>2, PublishedAxes
  <2> QED
    BY <2>3, <2>4
<1>4. CASE TickAlign
  <2>1. PICK requested \in SteeringCommands(0) : Publish(requested)
    BY <1>4 DEF TickAlign
  <2>2. requested \in Command /\ requested.forward = 0 /\ requested.lateral = 0
    BY CommandsOK DEF SteeringCommands
  <2>3. state' = "ALIGN"
    BY <1>4 DEF TickAlign, Transition
  <2>4. lastCommand'.forward = 0 /\ lastCommand'.lateral = 0
    BY <2>1, <2>2, PublishedAxes
  <2> QED
    BY <2>3, <2>4 DEF Steered
<1>5. CASE TickDepart \/ TickDrive
  <2>1. PICK requested \in SteeringCommands(1) : Publish(requested)
    BY <1>5 DEF TickDepart, TickDrive
  <2>2. requested \in Command /\ requested.forward = 1 /\ requested.lateral = 0
    BY CommandsOK DEF SteeringCommands
  <2>3. state' = "APPROACH"
    <3>1. CASE TickDepart
      BY <3>1 DEF TickDepart, Transition
    <3>2. CASE TickDrive
      BY <3>2 DEF TickDrive, Steering, SteeringFrom, sequence
    <3> QED
      BY <1>5, <3>1, <3>2
  <2>4. lastCommand'.forward \in {0, 1} /\ lastCommand'.lateral = 0
    BY <2>1, <2>2, PublishedAxes
  <2> QED
    BY <2>3, <2>4 DEF Steered
<1>6. CASE TickSucceed \/ TickBrake
  <2>1. \/ lastCommand' \in Realized(Stop)
        \/ Publish(Reverse) /\ state' = "TERMINAL_BRAKE"
    BY <1>6 DEF TickSucceed, TickBrake, Transition, Publish, sequence
  <2>2. CASE Publish(Reverse) /\ state' = "TERMINAL_BRAKE"
    <3>1. Reverse.forward = -1 /\ Reverse.lateral = 0 /\ Reverse.yaw = 0
      BY DEF Reverse, Stop
    <3>2. /\ lastCommand'.forward \in {0, -1}
          /\ lastCommand'.lateral = 0 /\ lastCommand'.yaw = 0
      BY <2>2, <3>1, CommandsOK, PublishedAxes
    <3> QED
      BY <2>2, <3>2
  <2> QED
    BY <2>1, <2>2, StopPublished
<1> QED
  BY <1>1, <1>2, <1>3, <1>4, <1>5, <1>6 DEF Next, ControlTick, TickMission, Exited

\* No thrust outlives the state it was given for: not into the next pattern, not into
\* an outage, not past the end.
THEOREM MotionFitsAlways == Spec => []MotionFitsState
<1>1. Init => MotionFitsState
  <2>1. Init => lastCommand = Stop
    BY DEF Init
  <2>2. Stop.forward = 0 /\ Stop.lateral = 0 /\ Stop.yaw = 0
    BY DEF Stop
  <2> QED
    BY <2>1, <2>2 DEF MotionFitsState
<1>2. TypeOK /\ MotionFitsState /\ [Next]_vars => MotionFitsState'
  BY MotionNext
<1> QED
  BY <1>1, <1>2, TypeCorrect, PTL DEF Spec

-----------------------------------------------------------------------------
(* The mission it implements *)

\* A step that leaves the node's command alone at most changes the permission.
LEMMA MissionWatches ==
  ASSUME ~halted, UNCHANGED <<state, confirmed, lastCommand, halted>>
  PROVE  Mission!Next
<1>1. UNCHANGED <<MissionPhase, Driving>>
  BY DEF MissionPhase, Driving
<1>2. OutputEnabled' \in BOOLEAN
  BY DEF OutputEnabled, LiveControlReady
<1> QED
  BY <1>1, <1>2 DEF Mission!Next, Mission!Permission

\* The neutral command drives the vehicle nowhere, any other only with the permission.
LEMMA MissionRests ==
  ASSUME lastCommand' \in Realized(Stop)
  PROVE  Mission!Drive(FALSE) /\ Mission!Drive(TRUE)
<1>1. Driving' \in BOOLEAN
  BY DEF Driving
<1>2. ~Driving'
  BY StopPublished DEF Driving
<1> QED
  BY <1>1, <1>2 DEF Mission!Drive

LEMMA MissionDrives ==
  ASSUME NEW requested, Publish(requested)
  PROVE  Mission!Drive(TRUE)
<1>1. Driving' \in BOOLEAN
  BY DEF Driving
<1>2. lastCommand' \in Realized(requested)
  BY DEF Publish
<1>3. Driving' => OutputEnabled
  BY <1>2 DEF Realized, Driving, Stop
<1> QED
  BY <1>1, <1>3 DEF Mission!Drive

LEMMA MissionNeutral ==
  ASSUME Publish(Stop)
  PROVE  Mission!Drive(FALSE) /\ Mission!Drive(TRUE)
BY MissionRests DEF Publish

LEMMA PermissionKept ==
  ASSUME UNCHANGED linkInputs
  PROVE  UNCHANGED OutputEnabled
BY DEF linkInputs, OutputEnabled, LiveControlReady, ModeMatches

\* A tick that steers has a confirmed bearing, or confirms it itself.
LEMMA MissionFound ==
  ASSUME TypeOK, BearingCounted,
         NEW from, NEW driven, SteeringFrom(from, driven)
  PROVE  /\ ~halted /\ UNCHANGED <<linkInputs, halted>> /\ Mission!FoundOrHeld
         /\ state \in Steered \/ from = "ALIGN"
         /\ state \in Steered => from = state /\ UNCHANGED confirmed
<1>1. ~halted /\ UNCHANGED <<linkInputs, halted>>
  BY DEF SteeringFrom, MeasuredAndConfirmed, Measured, TickAtEnd, TickReady, TickRunning
<1>2. CASE TickReady /\ state \in Steered /\ from = state /\ UNCHANGED bearingVars
  <2>1. confirmed /\ UNCHANGED confirmed
    BY <1>2 DEF BearingCounted, bearingVars
  <2>2. MissionPhase = "steering"
    BY <1>2 DEF MissionPhase, Steered
  <2> QED
    BY <1>1, <1>2, <2>1, <2>2 DEF Mission!FoundOrHeld
<1>3. CASE MeasuredAndConfirmed /\ from = "ALIGN"
  <2>1. state = "NO_ODOM_PHASE_PROBE" /\ confirmed'
    BY <1>3 DEF MeasuredAndConfirmed, Measured, TickAtEnd
  <2>2. MissionPhase = "locating"
    BY <2>1 DEF MissionPhase
  <2> QED
    BY <1>1, <1>3, <2>1, <2>2 DEF Mission!FoundOrHeld, Steered
<1> QED
  BY <1>2, <1>3 DEF SteeringFrom

LEMMA MissionTick ==
  ASSUME TypeOK, BearingCounted, TickMission
  PROVE  Mission!Next
<1> USE DEF MissionPhase, Steered, Terminal
<1>1. CASE TickTimeout
  <2>1. /\ ~halted /\ state \in States /\ state \notin Succeeded \cup Terminal
        /\ Publish(Stop) /\ UNCHANGED <<linkInputs, confirmed, halted>>
    BY <1>1 DEF TickTimeout, TickRunning, bearingVars, TypeOK, SequenceOK
  <2>2. MissionPhase \in Mission!Running /\ MissionPhase' = "failed"
    BY <1>1, <2>1 DEF TickTimeout, Transition, States, Succeeded, Mission!Running
  <2>3. Mission!Fail
    BY <2>1, <2>2, MissionNeutral, PermissionKept DEF Mission!Fail
  <2> QED
    BY <2>1, <2>3 DEF Mission!Next
<1>2. CASE TickBlocked
  <2>1. /\ ~halted /\ state \in States /\ state \notin Succeeded \cup Terminal
        /\ Publish(Stop) /\ confirmed' = FALSE /\ UNCHANGED <<linkInputs, halted>>
    BY <1>2 DEF TickBlocked, TickRunning, ForgetBearing, TypeOK, SequenceOK
  <2>2. MissionPhase \in Mission!Running /\ MissionPhase' = "waiting"
    BY <1>2, <2>1 DEF TickBlocked, Transition, States, Succeeded, Mission!Running
  <2>3. Mission!Interrupt
    BY <2>1, <2>2, MissionNeutral, PermissionKept DEF Mission!Interrupt
  <2> QED
    BY <2>1, <2>3 DEF Mission!Next
<1>3. CASE TickStart \/ TickReject \/ TickUnconfirmed
  <2>1. /\ ~halted /\ state \in {"WAIT_VEHICLE", "NO_ODOM_PHASE_PROBE"}
        /\ Publish(Stop) /\ UNCHANGED <<linkInputs, confirmed, halted>>
    BY <1>3 DEF TickStart, TickReject, TickUnconfirmed, Measured, TickAtEnd, TickReady,
                TickRunning, bearingVars
  <2>2. MissionPhase \in Mission!Running /\ MissionPhase' = "locating"
    BY <1>3, <2>1 DEF TickStart, TickReject, TickUnconfirmed, StartProbe, Mission!Running
  <2>3. Mission!Drive(MissionPhase = "locating")
    BY <2>1, MissionNeutral DEF Mission!Drive
  <2>4. Mission!Locate
    BY <2>1, <2>2, <2>3, PermissionKept DEF Mission!Locate
  <2> QED
    BY <2>1, <2>4 DEF Mission!Next
<1>4. CASE TickProbe
  <2>1. PICK command \in ProbeCommands : Publish(command)
    BY <1>4 DEF TickProbe
  <2>2. /\ ~halted /\ state = "NO_ODOM_PHASE_PROBE"
        /\ UNCHANGED <<state, linkInputs, confirmed, halted>>
    BY <1>4 DEF TickProbe, TickReady, TickRunning, bearingVars, sequence
  <2>3. /\ MissionPhase \in Mission!Running
        /\ MissionPhase = "locating" /\ MissionPhase' = "locating"
    BY <2>2 DEF Mission!Running
  <2>4. Mission!Drive(MissionPhase = "locating")
    BY <2>1, <2>3, MissionDrives DEF Mission!Drive
  <2>5. Mission!Locate
    BY <2>2, <2>3, <2>4, PermissionKept DEF Mission!Locate
  <2> QED
    BY <2>2, <2>5 DEF Mission!Next
<1>5. CASE TickAlign \/ TickDepart \/ TickDrive
  <2>1. PICK from, driven : SteeringFrom(from, driven) /\ (TickDrive => from = "APPROACH")
    BY <1>5 DEF TickAlign, TickDepart, TickDrive, Steering
  <2>2. ~halted /\ UNCHANGED <<OutputEnabled, halted>> /\ Mission!FoundOrHeld
    BY <2>1, MissionFound, PermissionKept
  <2>3. MissionPhase' = "steering"
    <3>1. CASE TickDrive
      BY <2>1, <3>1, MissionFound DEF TickDrive, sequence
    <3>2. CASE TickAlign \/ TickDepart
      BY <3>2 DEF TickAlign, TickDepart, Transition
    <3> QED
      BY <1>5, <3>1, <3>2
  <2>4. \E command : Publish(command)
    BY <1>5 DEF TickAlign, TickDepart, TickDrive
  <2>5. Mission!Steer
    BY <2>2, <2>3, <2>4, MissionDrives DEF Mission!Steer
  <2> QED
    BY <2>2, <2>5 DEF Mission!Next
<1>6. CASE TickSucceed
  <2>1. PICK from, driven : SteeringFrom(from, driven)
    BY <1>6 DEF TickSucceed
  <2>2. ~halted /\ UNCHANGED <<OutputEnabled, halted>> /\ Mission!FoundOrHeld
    BY <2>1, MissionFound, PermissionKept
  <2>3. \/ MissionPhase' = "braking" /\ Publish(Reverse)
        \/ MissionPhase' = "succeeded" /\ Publish(Stop)
    BY <1>6 DEF TickSucceed, Transition
  <2>4. Mission!Drive(MissionPhase' = "braking")
    BY <2>3, MissionDrives, MissionNeutral DEF Mission!Drive
  <2>5. Mission!Succeed
    BY <2>2, <2>3, <2>4 DEF Mission!Succeed
  <2> QED
    BY <2>2, <2>5 DEF Mission!Next
<1>7. CASE TickReestimate
  <2>1. PICK driven : SteeringFrom("APPROACH", driven)
    BY <1>7 DEF TickReestimate, Steering
  <2>2. /\ ~halted /\ state \in Steered
        /\ UNCHANGED <<OutputEnabled, confirmed, halted>>
    BY <2>1, MissionFound, PermissionKept
  <2>3. MissionPhase = "steering" /\ MissionPhase' = "locating" /\ Publish(Stop)
    BY <1>7, <2>2 DEF TickReestimate, StartProbe
  <2>4. Mission!Drive(MissionPhase = "locating")
    BY <2>3, MissionNeutral DEF Mission!Drive
  <2>5. Mission!Locate
    BY <2>2, <2>3, <2>4 DEF Mission!Locate, Mission!Running
  <2> QED
    BY <2>2, <2>5 DEF Mission!Next
<1> QED
  BY <1>1, <1>2, <1>3, <1>4, <1>5, <1>6, <1>7 DEF TickMission

LEMMA MissionStep ==
  ASSUME TypeOK, BearingCounted, [Next]_vars
  PROVE  [Mission!Next]_(Mission!vars)
<1>1. CASE Callback \/ Passing
  <2>1. ~halted /\ UNCHANGED <<state, confirmed, lastCommand, halted>>
    BY <1>1 DEF Callback, OnSensor, OnStamped, Stamped, Refresh, OnSpeed,
                OnDeltaRange, OnIqMagnitude, OnVehicleState, Passing, Expire, TimerLapses, Lapse, StageLapses, ForwardLapses, GateLapses, sequence,
                bearingVars, output
  <2> QED
    BY <2>1, MissionWatches
<1>2. CASE TickMission
  BY <1>2, MissionTick
<1>3. CASE TickBrake \/ TickBrakeOver
  <2>1. /\ ~halted /\ state = "TERMINAL_BRAKE"
        /\ UNCHANGED <<OutputEnabled, confirmed, halted>>
    BY <1>3, PermissionKept DEF TickBrake, TickBrakeOver, bearingVars
  <2>2. \/ state' = "TERMINAL_BRAKE" /\ Publish(Reverse)
        \/ state' = "COMPLETE" /\ Publish(Stop)
    BY <1>3, <2>1 DEF TickBrake, TickBrakeOver, Transition, sequence
  <2>3. /\ MissionPhase = "braking" /\ MissionPhase' \in {"braking", "succeeded"}
        /\ MissionPhase' = "braking" => state' = "TERMINAL_BRAKE"
        /\ state' = "TERMINAL_BRAKE" => MissionPhase' = "braking"
    BY <2>1, <2>2 DEF MissionPhase, Steered
  <2>4. Mission!Drive(MissionPhase' = "braking")
    BY <2>2, <2>3, MissionDrives, MissionNeutral DEF Mission!Drive
  <2>5. Mission!Brake
    BY <2>1, <2>3, <2>4 DEF Mission!Brake
  <2> QED
    BY <2>1, <2>5 DEF Mission!Next
<1>4. CASE TickTerminal \/ TickExit
  <2>1. /\ ~halted /\ state \in Terminal /\ lastCommand' \in Realized(Stop)
        /\ UNCHANGED <<state, confirmed, OutputEnabled>>
    BY <1>4, PermissionKept DEF TickTerminal, TickExit, Publish, sequence, bearingVars
  <2>2. MissionPhase \in Mission!Ended /\ UNCHANGED MissionPhase
    BY <2>1 DEF MissionPhase, Terminal, Steered, Mission!Ended
  <2>3. halted' \in BOOLEAN
    BY <1>4 DEF TickTerminal, TickExit, TypeOK, OutputsOK
  <2>4. Mission!Linger
    BY <2>1, <2>2, <2>3, MissionRests DEF Mission!Linger
  <2> QED
    BY <2>1, <2>4 DEF Mission!Next
<1>5. CASE UNCHANGED vars
  BY <1>5 DEF vars, linkInputs, sequence, bearingVars, output, MissionPhase,
              OutputEnabled, LiveControlReady, ModeMatches, Driving, Mission!vars
<1> QED
  BY <1>1, <1>2, <1>3, <1>4, <1>5 DEF Next, ControlTick, Exited

\* The no_odom_phase mode keeps the promises of a homing mission, its brake included,
\* for every number of confirming patterns and every choice of switches.
THEOREM MissionImplemented == Spec => ImplementsMission
<1>1. ASSUME Init PROVE Mission!Init
  <2>1. MissionPhase = "waiting" /\ confirmed = FALSE /\ halted = FALSE
    BY <1>1 DEF Init, MissionPhase
  <2>2. ~OutputEnabled
    BY <1>1 DEF Init, OutputEnabled, LiveControlReady
  <2>3. ~Driving
    BY <1>1 DEF Init, Driving, Stop
  <2> QED
    BY <2>1, <2>2, <2>3 DEF Mission!Init
<1> QED
  BY <1>1, Correct, MissionStep, PTL DEF Spec, ImplementsMission, Mission!Spec

-----------------------------------------------------------------------------
(* Progress *)

LEMMA CallbackKeeps ==
  ASSUME Callback
  PROVE  ~halted /\ UNCHANGED <<sequence, runtime, forward, service, output>>
BY DEF Callback, OnSensor, OnStamped, Stamped, Refresh, OnSpeed, OnDeltaRange, OnIqMagnitude,
       OnVehicleState, gateVars

\* Time brings a stage to its end, ages the segment and spends the budget, and does nothing
\* else to the mission.
LEMMA PassingKeeps ==
  ASSUME Passing
  PROVE  /\ ~halted /\ UNCHANGED <<state, output>>
         /\ stage' = stage \/ (stage = 1 /\ stage' = 2)
         /\ runtime' = runtime \/ (RuntimeLimited /\ runtime = "running" /\ runtime' = "due")
         /\ forward' = forward \/ forward' = Older(forward)
<1>1. CASE StageLapses \/ ForwardLapses \/ GateLapses
  BY <1>1 DEF StageLapses, ForwardLapses, GateLapses, sequence, gateVars
<1>2. CASE TimerLapses \/ \E i \in Inputs : Expire(i)
  BY <1>2 DEF TimerLapses, Lapse, Expire, sequence, gateVars
<1> QED BY <1>1, <1>2 DEF Passing

\* A tick of the mission begins the budget or leaves it alone, and ends the mission once it
\* is spent; in APPROACH it goes on driving in the same segment or leaves.
LEMMA MissionTickKeeps ==
  ASSUME TickMission
  PROVE  /\ ~halted /\ state \notin Succeeded \cup Terminal /\ halted' = halted
         /\ runtime' = runtime \/ (runtime = "off" /\ runtime' = "running")
         /\ RuntimeExceeded => state' = "FAILED_TIMEOUT"
         /\ state = "APPROACH" =>
              state' # "APPROACH" \/ (~SegmentOver /\ UNCHANGED <<state, forward>>)
<1>1. ASSUME NEW from, NEW driven, SteeringFrom(from, driven)
      PROVE  /\ ~halted /\ ~RuntimeExceeded /\ state \notin Succeeded \cup Terminal
             /\ UNCHANGED <<runtime, halted>>
             /\ state = "APPROACH" => from = "APPROACH"
  BY <1>1 DEF SteeringFrom, MeasuredAndConfirmed, Measured, TickAtEnd, TickReady, TickRunning
<1>2. CASE TickTimeout
  BY <1>2 DEF TickTimeout, TickRunning, Transition
<1>3. CASE TickBlocked
  BY <1>3 DEF TickBlocked, TickRunning, Transition
<1>4. CASE TickStart \/ TickProbe
  BY <1>4 DEF TickStart, Begun, TickProbe, TickReady, TickRunning
<1>5. CASE TickReject \/ TickUnconfirmed
  BY <1>5 DEF TickReject, TickUnconfirmed, Measured, TickAtEnd, TickReady, TickRunning
<1>6. CASE TickSucceed
  BY <1>1, <1>6 DEF TickSucceed, Transition
<1>7. CASE TickAlign
  BY <1>1, <1>7 DEF TickAlign, Steering, Transition
<1>8. CASE TickDepart
  <2>1. state # "APPROACH"
    BY <1>1, <1>8 DEF TickDepart, Steering
  <2> QED BY <1>1, <1>8, <2>1 DEF TickDepart, Steering
<1>9. CASE TickDrive
  BY <1>1, <1>9 DEF TickDrive, Steering, sequence
<1>10. CASE TickReestimate
  BY <1>1, <1>10 DEF TickReestimate, Steering, StartProbe
<1> QED
  BY <1>2, <1>3, <1>4, <1>5, <1>6, <1>7, <1>8, <1>9, <1>10 DEF TickMission

\* A budget is spent only where there is one, and the node leaves only after its mission.
BudgetAndExit ==
  /\ runtime = "due" => RuntimeLimited
  /\ halted => state \in Terminal

LEMMA BudgetAndExitAlways == Spec => []BudgetAndExit
<1>1. Init => BudgetAndExit
  BY DEF Init, BudgetAndExit
<1>2. ASSUME BudgetAndExit, [Next]_vars
      PROVE  BudgetAndExit'
  <2> USE <1>2 DEF BudgetAndExit
  <2>1. CASE Callback
    BY <2>1, CallbackKeeps DEF sequence, output
  <2>2. CASE Passing
    BY <2>2, PassingKeeps DEF output
  <2>3. CASE TickMission
    BY <2>3, MissionTickKeeps
  <2>4. CASE TickBrake \/ TickBrakeOver \/ TickTerminal \/ TickExit \/ UNCHANGED vars
    BY <2>4 DEF TickBrake, TickBrakeOver, TickTerminal, TickExit, Transition, Terminal, vars,
                sequence, output
  <2> QED BY <2>1, <2>2, <2>3, <2>4 DEF Next, ControlTick, Exited
<1> QED BY <1>1, <1>2, PTL DEF Spec

\* The brake has been on as long as this.
Braking(point) == state = "TERMINAL_BRAKE" /\ stage = point

\* The reverse brake comes to its end and the mission with it, under live control or not, if
\* the clock passes the brake's duration and a tick after that has an outcome.
THEOREM BrakeEndsFair == FairSpec /\ []TickAnswers /\ []StagePasses => BrakeEnds
<1> DEFINE Q == state = "COMPLETE"
<1>1. ASSUME TypeOK, Braking(1) \/ Braking(2), [Next]_vars
      PROVE  \/ Q' \/ Braking(2)'
             \/ Braking(1) /\ Braking(1)'
  <2> USE <1>1 DEF Braking
  <2>1. CASE Callback
    BY <2>1, CallbackKeeps DEF sequence
  <2>2. CASE Passing
    BY <2>2, PassingKeeps
  <2>3. CASE TickMission
    BY <2>3, MissionTickKeeps DEF Succeeded
  <2>4. CASE TickBrake \/ TickBrakeOver \/ TickTerminal \/ TickExit \/ UNCHANGED vars
    BY <2>4 DEF TickBrake, TickBrakeOver, TickTerminal, TickExit, Transition, vars, sequence
  <2> QED BY <2>1, <2>2, <2>3, <2>4 DEF Next, ControlTick, Exited
<1>2. ASSUME Braking(1), <<StageLapses>>_vars
      PROVE  Braking(2)'
  BY <1>2 DEF Braking, StageLapses
<1>3. ASSUME Braking(2), <<ControlTick>>_vars
      PROVE  Q'
  <2>1. TickBrakeOver
    BY <1>3, MissionTickKeeps
       DEF ControlTick, Braking, Succeeded, Terminal, TickBrake, TickTerminal, TickExit
  <2> QED BY <2>1 DEF TickBrakeOver, Transition
<1>4. Braking(1) /\ BudgetAndExit /\ StagePasses => ENABLED <<StageLapses>>_vars
  BY DEF Braking, BudgetAndExit, StagePasses, Terminal
<1>5. Braking(2) /\ BudgetAndExit /\ TickAnswers => ENABLED <<ControlTick>>_vars
  BY DEF Braking, BudgetAndExit, TickAnswers, AwaitsTick, Terminal
<1>6. TypeOK /\ state = "TERMINAL_BRAKE" => Braking(1) \/ Braking(2)
  BY DEF TypeOK, SequenceOK, Braking
<1> HIDE DEF Q
<1>7. TypeOK /\ Braking(1) /\ [Next]_vars => (Q \/ Braking(1) \/ Braking(2))'
  BY <1>1
<1>8. TypeOK /\ Braking(2) /\ [Next]_vars => (Q \/ Braking(2))'
  BY <1>1 DEF Braking
<1> QED
  BY <1>2, <1>3, <1>4, <1>5, <1>6, <1>7, <1>8, TypeCorrect, BudgetAndExitAlways, PTL
     DEF FairSpec, Fairness, Spec, BrakeEnds, Q

\* A spent budget ends the mission, rejected patterns and outages included: the next tick
\* fails it unless it has succeeded, and then it still brakes to its end.
THEOREM MissionEndsFair == FairSpec /\ []TickAnswers /\ []StagePasses => MissionEnds
<1> DEFINE P == runtime = "due" /\ state \notin Succeeded \cup Terminal
           Q == state \in Terminal
<1>1. ASSUME P, BudgetAndExit, [Next]_vars
      PROVE  (P \/ Q)'
  <2>1. CASE Callback
    BY <1>1, <2>1, CallbackKeeps DEF sequence
  <2>2. CASE Passing
    BY <1>1, <2>2, PassingKeeps
  <2>3. CASE TickMission
    BY <1>1, <2>3, MissionTickKeeps DEF BudgetAndExit, RuntimeExceeded, Terminal
  <2>4. CASE TickBrake \/ TickBrakeOver \/ TickTerminal \/ TickExit \/ UNCHANGED vars
    BY <1>1, <2>4 DEF TickBrake, TickBrakeOver, TickTerminal, TickExit, Succeeded, vars,
                      sequence
  <2> QED BY <1>1, <2>1, <2>2, <2>3, <2>4 DEF Next, ControlTick, Exited
<1>2. ASSUME P, BudgetAndExit, <<ControlTick>>_vars
      PROVE  Q'
  <2>1. TickMission /\ RuntimeExceeded
    BY <1>2 DEF ControlTick, TickBrake, TickBrakeOver, TickTerminal, TickExit, Succeeded,
                BudgetAndExit, RuntimeExceeded
  <2> QED BY <2>1, MissionTickKeeps DEF Terminal
<1>3. P /\ BudgetAndExit /\ TickAnswers => ENABLED <<ControlTick>>_vars
  BY DEF BudgetAndExit, TickAnswers, AwaitsTick, RuntimeExceeded
<1>4. runtime = "due" => P \/ state = "TERMINAL_BRAKE" \/ Q
  BY DEF Succeeded, Terminal
<1>5. state = "COMPLETE" => Q
  BY DEF Terminal
<1> QED
  BY <1>1, <1>2, <1>3, <1>4, <1>5, BrakeEndsFair, BudgetAndExitAlways, PTL
     DEF FairSpec, Fairness, Spec, MissionEnds, BrakeEnds

\* A segment of this age.
Segment(age) == state = "APPROACH" /\ forward = age

LEMMA SegmentKept ==
  ASSUME NEW age, Segment(age), [Next]_vars
  PROVE  Segment(age)' \/ Segment(Older(age))' \/ state' # "APPROACH"
<1> USE DEF Segment
<1>1. CASE Callback
  BY <1>1, CallbackKeeps DEF sequence
<1>2. CASE Passing
  BY <1>2, PassingKeeps
<1>3. CASE TickMission
  BY <1>3, MissionTickKeeps
<1>4. CASE TickBrake \/ TickBrakeOver \/ TickTerminal \/ TickExit \/ UNCHANGED vars
  BY <1>4 DEF TickBrake, TickBrakeOver, TickTerminal, TickExit, Terminal, vars, sequence,
              gateVars
<1> QED BY <1>1, <1>2, <1>3, <1>4 DEF Next, ControlTick, Exited

\* No forward segment lasts for ever where the fixed cadence or the watchdog is on, if the
\* clock passes its ages and a tick after that has an outcome.
THEOREM SegmentEndsFair ==
  ASSUME ~Adaptive \/ WatchdogEnabled
  PROVE  FairSpec /\ []TickAnswers /\ []ForwardPasses => SegmentEnds
<1> DEFINE Left == ~(state = "APPROACH")
<1>1. Segment("young") /\ [Next]_vars =>
        (Segment("young") \/ Segment("settled") \/ Left)'
  BY SegmentKept DEF Older
<1>2. Segment("settled") /\ [Next]_vars =>
        (Segment("settled") \/ Segment("due") \/ Left)'
  BY SegmentKept DEF Older
<1>3. Segment("due") /\ [Next]_vars => (Segment("due") \/ Left)'
  BY SegmentKept DEF Older
<1>4. ASSUME Segment("young") \/ Segment("settled"), <<ForwardLapses>>_vars
      PROVE  /\ Segment("young") => Segment("settled")'
             /\ Segment("settled") => Segment("due")'
  BY <1>4 DEF Segment, ForwardLapses, Older, sequence
<1>5. ASSUME Segment("due"), <<ControlTick>>_vars
      PROVE  Left'
  <2>1. SegmentOver
    BY <1>5 DEF Segment, SegmentOver, WatchdogDue, CadenceDue
  <2>2. TickMission
    BY <1>5 DEF ControlTick, TickBrake, TickBrakeOver, TickTerminal, TickExit, Segment,
                Terminal
  <2> QED BY <1>5, <2>1, <2>2, MissionTickKeeps DEF Segment
<1>6. ForwardPasses /\ BudgetAndExit /\ (Segment("young") \/ Segment("settled")) =>
        ENABLED <<ForwardLapses>>_vars
  BY DEF ForwardPasses, BudgetAndExit, Segment, Terminal
<1>7. TickAnswers /\ BudgetAndExit /\ Segment("due") => ENABLED <<ControlTick>>_vars
  BY DEF TickAnswers, AwaitsTick, BudgetAndExit, Segment, WatchdogDue, CadenceDue, Terminal
<1>8. TypeOK /\ GatesSound /\ state = "APPROACH" =>
        Segment("young") \/ Segment("settled") \/ Segment("due")
  BY DEF TypeOK, GatesOK, ForwardAge, GatesSound, WindowOfOneSegment, Segment
<1>9. Left <=> state # "APPROACH"
  OBVIOUS
<1> QED
  BY <1>1, <1>2, <1>3, <1>4, <1>5, <1>6, <1>7, <1>8, <1>9, TypeCorrect, GatesAlways,
     BudgetAndExitAlways, PTL
     DEF FairSpec, Fairness, Spec, SegmentEnds

-----------------------------------------------------------------------------
(* The mission starts and resumes *)

\* Once the vehicle and the inputs are there and stay, no mission waits for them any longer.
ReadyMissionRuns == <>[]Ready => <>[](state # "WAIT_VEHICLE")

\* Only a tick that finds the mission not ready sends it to WAIT_VEHICLE.
LEMMA TickLeavesWaiting ==
  ASSUME TickMission, Ready
  PROVE  state' # "WAIT_VEHICLE"
<1>1. CASE TickTimeout \/ TickBlocked \/ TickStart \/ TickProbe
  BY <1>1 DEF TickTimeout, TickBlocked, TickStart, TickProbe, StartProbe, Transition, sequence
<1>2. CASE TickReject \/ TickUnconfirmed \/ TickReestimate
  BY <1>2 DEF TickReject, TickUnconfirmed, TickReestimate, StartProbe
<1>3. CASE TickAlign \/ TickDepart \/ TickSucceed
  BY <1>3 DEF TickAlign, TickDepart, TickSucceed, Transition
<1>4. CASE TickDrive
  BY <1>4 DEF TickDrive, Steering, SteeringFrom, sequence
<1> QED BY <1>1, <1>2, <1>3, <1>4 DEF TickMission

\* A mission that has what it needs leaves WAIT_VEHICLE, at its start and after any number of
\* outages, and does not come back, if a tick has an outcome.
THEOREM ReadyMissionRunsFair == FairSpec /\ []TickAnswers => ReadyMissionRuns
<1> DEFINE Waiting == state = "WAIT_VEHICLE"
<1>1. ASSUME Ready, ~Waiting, [Next]_vars
      PROVE  (~Waiting)'
  <2>1. CASE Callback
    BY <1>1, <2>1, CallbackKeeps DEF sequence
  <2>2. CASE Passing
    BY <1>1, <2>2, PassingKeeps
  <2>3. CASE TickMission
    BY <1>1, <2>3, TickLeavesWaiting
  <2>4. CASE TickBrake \/ TickBrakeOver \/ TickTerminal \/ TickExit \/ UNCHANGED vars
    BY <1>1, <2>4 DEF TickBrake, TickBrakeOver, TickTerminal, TickExit, Transition, vars,
                      sequence
  <2> QED BY <1>1, <2>1, <2>2, <2>3, <2>4 DEF Next, ControlTick, Exited
<1>2. ASSUME Waiting, Ready, <<ControlTick>>_vars
      PROVE  (~Waiting)'
  <2>1. TickMission
    BY <1>2 DEF ControlTick, TickBrake, TickBrakeOver, TickTerminal, TickExit, Terminal
  <2> QED BY <1>2, <2>1, TickLeavesWaiting
<1>3. Waiting /\ Ready /\ BudgetAndExit /\ TickAnswers => ENABLED <<ControlTick>>_vars
  BY DEF BudgetAndExit, TickAnswers, AwaitsTick, Terminal
<1>4. ~Waiting <=> state # "WAIT_VEHICLE"
  OBVIOUS
<1> HIDE DEF Waiting
<1> QED
  BY <1>1, <1>2, <1>3, <1>4, BudgetAndExitAlways, PTL
     DEF FairSpec, Fairness, Spec, ReadyMissionRuns

-----------------------------------------------------------------------------
(* How far the documentation holds *)

TurnsBack == state = "APPROACH" /\ state' = "ALIGN"
Aside == state \notin {"ALIGN", "APPROACH", "NO_ODOM_PHASE_PROBE"}

\* A vehicle that drives forward again and again measures, or loses the bearing, again and
\* again.
RefreshedOrLost ==
  []<>(state = "APPROACH") => []<>(state = "NO_ODOM_PHASE_PROBE") \/ []<><<TurnsBack>>_vars

\* Only a pattern leads to a bearing.
LEMMA AsideKept ==
  ASSUME Aside, [Next]_vars
  PROVE  (Aside \/ state = "NO_ODOM_PHASE_PROBE")'
<1>1. ASSUME NEW from, NEW driven, SteeringFrom(from, driven) PROVE FALSE
  BY <1>1 DEF SteeringFrom, MeasuredAndConfirmed, Measured, TickAtEnd, Steered, Aside
<1>2. CASE Callback
  BY <1>2, CallbackKeeps DEF Aside, sequence
<1>3. CASE Passing
  BY <1>3, PassingKeeps DEF Aside
<1>4. CASE TickTimeout \/ TickBlocked
  BY <1>4 DEF TickTimeout, TickBlocked, Transition, Aside
<1>5. CASE TickStart \/ TickReject \/ TickUnconfirmed
  BY <1>5 DEF TickStart, TickReject, TickUnconfirmed, StartProbe
<1>6. CASE TickProbe
  BY <1>6 DEF TickProbe, Aside
<1>7. CASE TickAlign \/ TickDepart \/ TickDrive \/ TickReestimate \/ TickSucceed
  BY <1>1, <1>7 DEF TickAlign, TickDepart, TickDrive, TickReestimate, TickSucceed, Steering
<1>8. CASE TickBrakeOver
  BY <1>8 DEF TickBrakeOver, Transition, Aside
<1>9. CASE TickBrake \/ TickTerminal \/ TickExit \/ UNCHANGED vars
  BY <1>9 DEF TickBrake, TickTerminal, TickExit, sequence, vars, Aside
<1> QED
  BY <1>2, <1>3, <1>4, <1>5, <1>6, <1>7, <1>8, <1>9 DEF Next, ControlTick, TickMission, Exited

\* What the constructor's comment says of the watchdog holds but for a bearing that keeps
\* being lost: only a vehicle that turns back to ALIGN for ever goes on driving forward
\* without measuring.
THEOREM RefreshedOrLostFair ==
  ASSUME ~Adaptive \/ WatchdogEnabled
  PROVE  FairSpec /\ []TickAnswers /\ []ForwardPasses => RefreshedOrLost
<1> DEFINE Forward == state = "APPROACH"
           Measuring == state = "NO_ODOM_PHASE_PROBE"
<1>1. Forward /\ [Next]_vars => Forward' \/ Measuring' \/ Aside' \/ <<TurnsBack>>_vars
  <2> SUFFICES ASSUME Forward, [Next]_vars, ~(Forward'), ~(Measuring'), ~(Aside')
               PROVE  <<TurnsBack>>_vars
    OBVIOUS
  <2>1. state' = "ALIGN"
    BY DEF Aside
  <2>2. vars' # vars
    BY <2>1 DEF vars, sequence
  <2> QED
    BY <2>1, <2>2 DEF TurnsBack
<1>2. Aside /\ [Next]_vars => Aside' \/ Measuring'
  BY AsideKept
<1>3. Aside => ~Forward
  BY DEF Aside
<1>4. FairSpec /\ []TickAnswers /\ []ForwardPasses => SegmentEnds
  BY SegmentEndsFair
<1>5. (Forward <=> state = "APPROACH") /\ (~Forward <=> state # "APPROACH")
  OBVIOUS
<1>6. Measuring <=> state = "NO_ODOM_PHASE_PROBE"
  OBVIOUS
<1> HIDE DEF Forward, Measuring
<1> QED
  BY <1>1, <1>2, <1>3, <1>4, <1>5, <1>6, PTL
     DEF FairSpec, Spec, SegmentEnds, RefreshedOrLost

=============================================================================
