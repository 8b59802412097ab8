----------------------- MODULE HomingController_proofs ----------------------
(***************************************************************************)
(* Proofs about HomingController: its properties for every value of the    *)
(* constants.  Each lemma carries one invariant over a step and uses the   *)
(* ones before it; the theorems at the end combine them temporally.        *)
(***************************************************************************)
EXTENDS HomingController, VehicleLink_proofs, TLAPS

-----------------------------------------------------------------------------
(* What the shared effects leave behind *)

LEMMA LastStageOK ==
  ASSUME NEW s
  PROVE  LastStage(s) \in {1, 2, 8}
BY DEF LastStage, ProbeDone, ApproachSettled, ExitDue

LEMMA TransitionOK ==
  ASSUME NEW next \in States, SequenceOK, Transition(next)
  PROVE  state' \in States /\ stage' \in 1..LastStage(state')
<1>1. CASE next = state
  BY <1>1 DEF Transition, SequenceOK
<1>2. CASE next # state
  <2>1. stage' = 1 /\ state' = next
    BY <1>2 DEF Transition
  <2> QED
    BY <2>1, LastStageOK
<1> QED
  BY <1>1, <1>2

\* What every control tick of a running mission does to the outputs and the state.
TickShape ==
  /\ RequestArmMode
  /\ \E requested \in Command : Publish(requested)
  /\ \E next \in States : Transition(next)

LEMMA TickShapeOK ==
  ASSUME TypeOK, TickShape
  PROVE  /\ service' \in Timer /\ requests' \subseteq {"set_mode", "arm"}
         /\ lastCommand' \in Command /\ rc' \in {"none", "release", "pwm"}
         /\ state' \in States /\ stage' \in 1..LastStage(state')
BY PublishOK, RequestOK, TransitionOK DEF TickShape, TypeOK, TimersOK, OutputsOK

LEMMA CommandsOK ==
  /\ Stop \in Command
  /\ \A s, point : \A heave \in {-1, 0, 1} : ProbeLeg(s, point, heave) \in Command
  /\ \A forward, yaw \in {0, 1}, heave \in {-1, 0, 1} :
       /\ [Stop EXCEPT !.yaw = yaw, !.heave = heave] \in Command
       /\ [Stop EXCEPT !.forward = forward, !.yaw = yaw, !.heave = heave] \in Command
BY DEF Stop, Command, ProbeLeg

-----------------------------------------------------------------------------
(* Type correctness *)

\* A part of the state that a step leaves alone keeps its type.
LEMMA TypeKept ==
  /\ InputsOK /\ UNCHANGED inputVars => InputsOK'
  /\ SequenceOK /\ UNCHANGED sequenceVars => SequenceOK'
  /\ SourceOK /\ UNCHANGED sourceVars => SourceOK'
  /\ TimersOK /\ UNCHANGED timerVars => TimersOK'
  /\ OutputsOK /\ UNCHANGED outputVars => OutputsOK'
  /\ HistoryOK /\ UNCHANGED historyVars => HistoryOK'
<1>1. InputsOK /\ UNCHANGED inputVars => InputsOK'
  BY DEF InputsOK, inputVars
<1>2. SequenceOK /\ UNCHANGED sequenceVars => SequenceOK'
  BY DEF SequenceOK, sequenceVars
<1>3. SourceOK /\ UNCHANGED sourceVars => SourceOK'
  BY DEF SourceOK, sourceVars
<1>4. TimersOK /\ UNCHANGED timerVars => TimersOK'
  BY DEF TimersOK, timerVars
<1>5. OutputsOK /\ UNCHANGED outputVars => OutputsOK'
  BY DEF OutputsOK, outputVars
<1>6. HistoryOK /\ UNCHANGED historyVars => HistoryOK'
  BY DEF HistoryOK, historyVars
<1> QED
  BY <1>1, <1>2, <1>3, <1>4, <1>5, <1>6

LEMMA TypeCallback ==
  ASSUME TypeOK, Callback
  PROVE  TypeOK'
<1> USE DEF TypeOK
<1>1. CASE OnOdometry
  <2>1. InputsOK'
    BY <1>1 DEF OnOdometry, InputsOK, Inputs
  <2>2. UNCHANGED <<sequenceVars, sourceVars, timerVars, outputVars, historyVars>>
    BY <1>1 DEF OnOdometry
  <2> QED
    BY TypeKept, <2>1, <2>2
<1>2. CASE OnDeltaRange
  <2>1. InputsOK'
    BY <1>2 DEF OnDeltaRange, InputsOK, Inputs
  <2>2. SourceOK'
    BY <1>2, CountsAssumption DEF OnDeltaRange, SourceOK
  <2>3. HistoryOK'
    BY <1>2 DEF OnDeltaRange, HistoryOK
  <2>4. UNCHANGED <<sequenceVars, timerVars, outputVars>>
    BY <1>2 DEF OnDeltaRange
  <2> QED
    BY TypeKept, <2>1, <2>2, <2>3, <2>4
<1>3. CASE OnDepthPose \/ OnAudioQuality
  <2>1. InputsOK'
    BY <1>3 DEF OnDepthPose, OnAudioQuality, InputsOK, Inputs
  <2>2. UNCHANGED <<sequenceVars, sourceVars, timerVars, outputVars, historyVars>>
    BY <1>3 DEF OnDepthPose, OnAudioQuality
  <2> QED
    BY TypeKept, <2>1, <2>2
<1>4. CASE OnIqMagnitude
  <2>1. InputsOK'
    <3>1. range' \in 0..MaxRange
      BY <1>4, CountsAssumption DEF OnIqMagnitude
    <3> QED
      BY <1>4, <3>1 DEF OnIqMagnitude, InputsOK
  <2>2. UNCHANGED <<sequenceVars, sourceVars, timerVars, outputVars, historyVars>>
    BY <1>4 DEF OnIqMagnitude
  <2> QED
    BY TypeKept, <2>1, <2>2
<1>5. ASSUME NEW report \in Reports,
             OnVehicleState(report.connected, report.armed, report.mode)
      PROVE  TypeOK'
  <2>1. report.connected \in BOOLEAN /\ report.armed \in BOOLEAN /\ report.mode \in Modes
    BY ModesAssumption
  <2>2. InputsOK'
    BY <1>5, <2>1 DEF OnVehicleState, InputsOK, Inputs
  <2>3. UNCHANGED <<sequenceVars, sourceVars, timerVars, outputVars, historyVars>>
    BY <1>5 DEF OnVehicleState
  <2> QED
    BY TypeKept, <2>2, <2>3
<1> QED
  BY <1>1, <1>2, <1>3, <1>4, <1>5 DEF Callback

LEMMA TypePassing ==
  ASSUME TypeOK, Passing
  PROVE  TypeOK'
<1> USE DEF TypeOK
<1>1. ASSUME NEW i \in Inputs, Expire(i) PROVE TypeOK'
  <2>1. InputsOK'
    BY <1>1 DEF Expire, InputsOK
  <2>2. UNCHANGED <<sequenceVars, sourceVars, timerVars, outputVars, historyVars>>
    BY <1>1 DEF Expire
  <2> QED
    BY TypeKept, <2>1, <2>2
<1>2. CASE RuntimeLapses
  <2>1. TimersOK'
    BY <1>2 DEF RuntimeLapses, TimersOK, Timer
  <2>2. UNCHANGED <<inputVars, sequenceVars, sourceVars, outputVars, historyVars>>
    BY <1>2 DEF RuntimeLapses
  <2> QED
    BY TypeKept, <2>1, <2>2
<1>3. CASE ProgressLapses
  <2>1. TimersOK'
    BY <1>3 DEF ProgressLapses, TimersOK, Timer
  <2>2. UNCHANGED <<inputVars, sequenceVars, sourceVars, outputVars, historyVars>>
    BY <1>3 DEF ProgressLapses
  <2> QED
    BY TypeKept, <2>1, <2>2
<1>4. CASE HoldLapses
  <2>1. TimersOK'
    BY <1>4 DEF HoldLapses, Lapse, TimersOK, Timer
  <2>2. UNCHANGED <<inputVars, sequenceVars, sourceVars, outputVars, historyVars>>
    BY <1>4 DEF HoldLapses
  <2> QED
    BY TypeKept, <2>1, <2>2
<1>5. CASE ServiceLapses
  <2>1. TimersOK'
    BY <1>5 DEF ServiceLapses, TimersOK, Timer
  <2>2. UNCHANGED <<inputVars, sequenceVars, sourceVars, outputVars, historyVars>>
    BY <1>5 DEF ServiceLapses
  <2> QED
    BY TypeKept, <2>1, <2>2
<1>6. CASE StageLapses
  <2>1. SequenceOK'
    <3>1. stage' \in 1..LastStage(state)
      BY <1>6, LastStageOK DEF StageLapses, SequenceOK
    <3> QED
      BY <1>6, <3>1 DEF StageLapses, SequenceOK
  <2>2. HistoryOK'
    <3>1. OneMore(legs) \in 0..MinimumLegs /\ OneMore(resumedLegs) \in 0..MinimumLegs
      BY CountsAssumption DEF OneMore, HistoryOK
    <3> QED
      BY <1>6, <3>1 DEF StageLapses, HistoryOK
  <2>3. UNCHANGED <<inputVars, sourceVars, timerVars, outputVars>>
    BY <1>6 DEF StageLapses
  <2> QED
    BY TypeKept, <2>1, <2>2, <2>3
<1> QED
  BY <1>1, <1>2, <1>3, <1>4, <1>5, <1>6 DEF Passing

LEMMA BoundsOK ==
  /\ 0 \in 0..MinimumLegs /\ 0 \in 0..FitSamples
  /\ MaxRange + 1 \in 1..(MaxRange + 1)
BY CountsAssumption

LEMMA ImprovedOK ==
  ASSUME InputsOK, TimersOK
  PROVE  (IF RangeImproved THEN range ELSE best) \in 1..(MaxRange + 1)
<1>1. CASE RangeImproved
  <2>1. range \in 0..MaxRange /\ range # 0
    BY <1>1 DEF RangeImproved, InputsOK
  <2>2. range \in 1..(MaxRange + 1)
    BY <2>1, CountsAssumption
  <2> QED
    BY <1>1, <2>2
<1>2. CASE ~RangeImproved
  BY <1>2 DEF TimersOK
<1> QED
  BY <1>1, <1>2

LEMMA ArrivedOK ==
  ASSUME NEW inRadius \in BOOLEAN
  PROVE  Arrived(inRadius) \in BOOLEAN
BY DEF Arrived

\* What is left to check of such a tick once its shape is known.
LEMMA TypeTick ==
  ASSUME TypeOK, TickShape, UNCHANGED <<inputVars, halted>>,
         probeCompleted' \in BOOLEAN, attempt' \in 0..MaxAttempt,
         nearReprobes' \in 0..MaxNearReprobes, SourceOK',
         best' \in 1..(MaxRange + 1), runtime' \in Timer, progress' \in Timer,
         rangeHold' \in Timer, arrivalHold' \in Timer, HistoryOK'
  PROVE  TypeOK'
<1>1. InputsOK'
  BY TypeKept DEF TypeOK
<1>2. SequenceOK'
  BY TickShapeOK DEF SequenceOK
<1>3. TimersOK'
  BY TickShapeOK DEF TimersOK
<1>4. OutputsOK'
  BY TickShapeOK DEF OutputsOK, TypeOK
<1> QED
  BY <1>1, <1>2, <1>3, <1>4 DEF TypeOK

LEMMA TypeTickTimeout == ASSUME TypeOK, TickTimeout PROVE TypeOK'
<1> USE DEF TickTimeout, TickRunning
<1>1. InputsOK /\ SequenceOK /\ SourceOK /\ TimersOK /\ HistoryOK
  BY DEF TypeOK
<1>2. TickShape
  BY <1>1, CommandsOK DEF TickShape, States, Probing, Guided, Terminal, sequenceVars
<1>3. probeCompleted' \in BOOLEAN
  BY <1>1 DEF SequenceOK, sequenceVars
<1>4. attempt' \in 0..MaxAttempt /\ nearReprobes' \in 0..MaxNearReprobes
  BY <1>1, CountsAssumption DEF SequenceOK, sequenceVars, MaxAttempt, MaxNearReprobes
<1>5. SourceOK'
  BY <1>1, BoundsOK DEF SourceOK, sourceVars
<1>6. best' \in 1..(MaxRange + 1)
  BY <1>1, BoundsOK DEF TimersOK, timerVars
<1>7. runtime' \in Timer /\ progress' \in Timer /\ rangeHold' \in Timer /\ arrivalHold' \in Timer
  BY <1>1 DEF TimersOK, timerVars, Timer
<1>8. HistoryOK'
  BY <1>1, BoundsOK DEF HistoryOK, historyVars
<1>9. UNCHANGED <<inputVars, halted>>
  OBVIOUS
<1> QED
  BY <1>2, <1>3, <1>4, <1>5, <1>6, <1>7, <1>8, <1>9, TypeTick

LEMMA TypeTickBlocked == ASSUME TypeOK, TickBlocked PROVE TypeOK'
<1> USE DEF TickBlocked, TickRunning, RestartHolds
<1>1. InputsOK /\ SequenceOK /\ SourceOK /\ TimersOK /\ HistoryOK
  BY DEF TypeOK
<1>2. TickShape
  BY <1>1, CommandsOK DEF TickShape, States, Probing, Guided, Terminal, sequenceVars
<1>3. probeCompleted' \in BOOLEAN
  BY <1>1 DEF SequenceOK, sequenceVars
<1>4. attempt' \in 0..MaxAttempt /\ nearReprobes' \in 0..MaxNearReprobes
  BY <1>1, CountsAssumption DEF SequenceOK, sequenceVars, MaxAttempt, MaxNearReprobes
<1>5. SourceOK'
  BY <1>1, BoundsOK DEF SourceOK, sourceVars
<1>6. best' \in 1..(MaxRange + 1)
  BY <1>1, BoundsOK DEF TimersOK, timerVars
<1>7. runtime' \in Timer /\ progress' \in Timer /\ rangeHold' \in Timer /\ arrivalHold' \in Timer
  BY <1>1 DEF TimersOK, timerVars, Timer
<1>8. HistoryOK'
  BY <1>1, BoundsOK DEF HistoryOK, historyVars
<1>9. UNCHANGED <<inputVars, halted>>
  OBVIOUS
<1> QED
  BY <1>2, <1>3, <1>4, <1>5, <1>6, <1>7, <1>8, <1>9, TypeTick

LEMMA TypeTickBegin == ASSUME TypeOK, TickBegin PROVE TypeOK'
<1> USE DEF TickBegin, TickReady, TickRunning, RestartHolds, DropLocalization
<1>1. InputsOK /\ SequenceOK /\ SourceOK /\ TimersOK /\ HistoryOK
  BY DEF TypeOK
<1>2. TickShape
  BY <1>1, CommandsOK DEF TickShape, States, Probing, Guided, Terminal, sequenceVars
<1>3. probeCompleted' \in BOOLEAN
  BY <1>1 DEF SequenceOK, sequenceVars
<1>4. attempt' \in 0..MaxAttempt /\ nearReprobes' \in 0..MaxNearReprobes
  BY <1>1, CountsAssumption DEF SequenceOK, sequenceVars, MaxAttempt, MaxNearReprobes
<1>5. SourceOK'
  BY <1>1, BoundsOK DEF SourceOK, sourceVars
<1>6. best' \in 1..(MaxRange + 1)
  BY <1>1, BoundsOK DEF TimersOK, timerVars
<1>7. runtime' \in Timer /\ progress' \in Timer /\ rangeHold' \in Timer /\ arrivalHold' \in Timer
  BY <1>1 DEF TimersOK, timerVars, Timer
<1>8. HistoryOK'
  BY <1>1, BoundsOK DEF HistoryOK, historyVars
<1>9. UNCHANGED <<inputVars, halted>>
  OBVIOUS
<1> QED
  BY <1>2, <1>3, <1>4, <1>5, <1>6, <1>7, <1>8, <1>9, TypeTick

LEMMA TypeTickResume == ASSUME TypeOK, TickResume PROVE TypeOK'
<1> USE DEF TickResume, TickReady, TickRunning, RestartHolds, FitOutcomes
<1>1. InputsOK /\ SequenceOK /\ SourceOK /\ TimersOK /\ HistoryOK
  BY DEF TypeOK
<1>2. TickShape
  BY <1>1, CommandsOK DEF TickShape, States, Probing, Guided, Terminal, sequenceVars
<1>3. probeCompleted' \in BOOLEAN
  BY <1>1 DEF SequenceOK, sequenceVars
<1>4. attempt' \in 0..MaxAttempt /\ nearReprobes' \in 0..MaxNearReprobes
  BY <1>1, CountsAssumption DEF SequenceOK, sequenceVars, MaxAttempt, MaxNearReprobes
<1>5. SourceOK'
  BY <1>1, BoundsOK DEF SourceOK, sourceVars
<1>6. best' \in 1..(MaxRange + 1)
  BY <1>1, BoundsOK DEF TimersOK, timerVars
<1>7. runtime' \in Timer /\ progress' \in Timer /\ rangeHold' \in Timer /\ arrivalHold' \in Timer
  BY <1>1 DEF TimersOK, timerVars, Timer
<1>8. HistoryOK'
  BY <1>1, BoundsOK DEF HistoryOK, historyVars
<1>9. UNCHANGED <<inputVars, halted>>
  OBVIOUS
<1> QED
  BY <1>2, <1>3, <1>4, <1>5, <1>6, <1>7, <1>8, <1>9, TypeTick

LEMMA TypeTickProbe == ASSUME TypeOK, TickProbe PROVE TypeOK'
<1> USE DEF TickProbe, TickReady, TickRunning, FitOutcomes
<1>1. InputsOK /\ SequenceOK /\ SourceOK /\ TimersOK /\ HistoryOK
  BY DEF TypeOK
<1>2. TickShape
  BY <1>1, CommandsOK DEF TickShape, States, Probing, Guided, Terminal, sequenceVars,
    SequenceOK, Transition
<1>3. probeCompleted' \in BOOLEAN
  BY <1>1 DEF SequenceOK, sequenceVars
<1>4. attempt' \in 0..MaxAttempt /\ nearReprobes' \in 0..MaxNearReprobes
  BY <1>1, CountsAssumption DEF SequenceOK, sequenceVars, MaxAttempt, MaxNearReprobes
<1>5. SourceOK'
  BY <1>1, BoundsOK DEF SourceOK, sourceVars
<1>6. best' \in 1..(MaxRange + 1)
  BY <1>1, BoundsOK DEF TimersOK, timerVars
<1>7. runtime' \in Timer /\ progress' \in Timer /\ rangeHold' \in Timer /\ arrivalHold' \in Timer
  BY <1>1 DEF TimersOK, timerVars, Timer
<1>8. HistoryOK'
  BY <1>1, BoundsOK DEF HistoryOK, historyVars
<1>9. UNCHANGED <<inputVars, halted>>
  OBVIOUS
<1> QED
  BY <1>2, <1>3, <1>4, <1>5, <1>6, <1>7, <1>8, <1>9, TypeTick

LEMMA TypeProbeNextLeg == ASSUME TypeOK, ProbeNextLeg PROVE TypeOK'
<1> USE DEF ProbeNextLeg, AtBoundary, TickReady, TickRunning, NextLeg, FitOutcomes
<1>1. InputsOK /\ SequenceOK /\ SourceOK /\ TimersOK /\ HistoryOK
  BY DEF TypeOK
<1>2. TickShape
  BY <1>1, CommandsOK DEF TickShape, States, Probing, Guided, Terminal, sequenceVars,
    Mirrored, MoreLegsRequired
<1>3. probeCompleted' \in BOOLEAN
  BY <1>1 DEF SequenceOK, sequenceVars
<1>4. attempt' \in 0..MaxAttempt /\ nearReprobes' \in 0..MaxNearReprobes
  BY <1>1, CountsAssumption DEF SequenceOK, sequenceVars, MaxAttempt, MaxNearReprobes,
    MoreLegsRequired
<1>5. SourceOK'
  BY <1>1, BoundsOK DEF SourceOK, sourceVars
<1>6. best' \in 1..(MaxRange + 1)
  BY <1>1, BoundsOK DEF TimersOK, timerVars
<1>7. runtime' \in Timer /\ progress' \in Timer /\ rangeHold' \in Timer /\ arrivalHold' \in Timer
  BY <1>1 DEF TimersOK, timerVars, Timer
<1>8. HistoryOK'
  BY <1>1, BoundsOK DEF HistoryOK, historyVars
<1>9. UNCHANGED <<inputVars, halted>>
  OBVIOUS
<1> QED
  BY <1>2, <1>3, <1>4, <1>5, <1>6, <1>7, <1>8, <1>9, TypeTick

LEMMA TypeProbeConfirm == ASSUME TypeOK, ProbeConfirm PROVE TypeOK'
<1> USE DEF ProbeConfirm, AtBoundary, TickReady, TickRunning, FitOutcomes
<1>1. InputsOK /\ SequenceOK /\ SourceOK /\ TimersOK /\ HistoryOK
  BY DEF TypeOK
<1>2. TickShape
  BY <1>1, CommandsOK DEF TickShape, States, Probing, Guided, Terminal, sequenceVars,
    FirstFitNeedsConfirmation
<1>3. probeCompleted' \in BOOLEAN
  BY <1>1 DEF SequenceOK, sequenceVars
<1>4. attempt' \in 0..MaxAttempt /\ nearReprobes' \in 0..MaxNearReprobes
  BY <1>1, CountsAssumption DEF SequenceOK, sequenceVars, MaxAttempt, MaxNearReprobes,
    FirstFitNeedsConfirmation
<1>5. SourceOK'
  BY <1>1, BoundsOK DEF SourceOK, sourceVars
<1>6. best' \in 1..(MaxRange + 1)
  BY <1>1, BoundsOK DEF TimersOK, timerVars
<1>7. runtime' \in Timer /\ progress' \in Timer /\ rangeHold' \in Timer /\ arrivalHold' \in Timer
  BY <1>1 DEF TimersOK, timerVars, Timer
<1>8. HistoryOK'
  BY <1>1, BoundsOK DEF HistoryOK, historyVars
<1>9. UNCHANGED <<inputVars, halted>>
  OBVIOUS
<1> QED
  BY <1>2, <1>3, <1>4, <1>5, <1>6, <1>7, <1>8, <1>9, TypeTick

LEMMA TypeProbeLock == ASSUME TypeOK, ProbeLock PROVE TypeOK'
<1> USE DEF ProbeLock, AtBoundary, TickReady, TickRunning, FitOutcomes
<1>1. InputsOK /\ SequenceOK /\ SourceOK /\ TimersOK /\ HistoryOK
  BY DEF TypeOK
<1>2. TickShape
  BY <1>1, CommandsOK DEF TickShape, States, Probing, Guided, Terminal, sequenceVars
<1>3. probeCompleted' \in BOOLEAN
  BY <1>1 DEF SequenceOK, sequenceVars
<1>4. attempt' \in 0..MaxAttempt /\ nearReprobes' \in 0..MaxNearReprobes
  BY <1>1, CountsAssumption DEF SequenceOK, sequenceVars, MaxAttempt, MaxNearReprobes
<1>5. SourceOK'
  BY <1>1, BoundsOK DEF SourceOK, sourceVars
<1>6. best' \in 1..(MaxRange + 1)
  BY <1>1, BoundsOK DEF TimersOK, timerVars
<1>7. runtime' \in Timer /\ progress' \in Timer /\ rangeHold' \in Timer /\ arrivalHold' \in Timer
  BY <1>1 DEF TimersOK, timerVars, Timer
<1>8. HistoryOK'
  BY <1>1, BoundsOK DEF HistoryOK, historyVars
<1>9. UNCHANGED <<inputVars, halted>>
  OBVIOUS
<1> QED
  BY <1>2, <1>3, <1>4, <1>5, <1>6, <1>7, <1>8, <1>9, TypeTick

LEMMA TypeProbeRetry == ASSUME TypeOK, ProbeRetry PROVE TypeOK'
<1> USE DEF ProbeRetry, AtBoundary, TickReady, TickRunning, NextLeg, FitOutcomes
<1>1. InputsOK /\ SequenceOK /\ SourceOK /\ TimersOK /\ HistoryOK
  BY DEF TypeOK
<1>2. TickShape
  BY <1>1, CommandsOK DEF TickShape, States, Probing, Guided, Terminal, sequenceVars,
    Mirrored, RetryLeft
<1>3. probeCompleted' \in BOOLEAN
  BY <1>1 DEF SequenceOK, sequenceVars
<1>4. attempt' \in 0..MaxAttempt /\ nearReprobes' \in 0..MaxNearReprobes
  BY <1>1, CountsAssumption DEF SequenceOK, sequenceVars, MaxAttempt, MaxNearReprobes,
    RetryLeft
<1>5. SourceOK'
  BY <1>1, BoundsOK DEF SourceOK, sourceVars
<1>6. best' \in 1..(MaxRange + 1)
  BY <1>1, BoundsOK DEF TimersOK, timerVars
<1>7. runtime' \in Timer /\ progress' \in Timer /\ rangeHold' \in Timer /\ arrivalHold' \in Timer
  BY <1>1 DEF TimersOK, timerVars, Timer
<1>8. HistoryOK'
  BY <1>1, BoundsOK DEF HistoryOK, historyVars
<1>9. UNCHANGED <<inputVars, halted>>
  OBVIOUS
<1> QED
  BY <1>2, <1>3, <1>4, <1>5, <1>6, <1>7, <1>8, <1>9, TypeTick

LEMMA TypeProbeFail == ASSUME TypeOK, ProbeFail PROVE TypeOK'
<1> USE DEF ProbeFail, AtBoundary, TickReady, TickRunning, FitOutcomes
<1>1. InputsOK /\ SequenceOK /\ SourceOK /\ TimersOK /\ HistoryOK
  BY DEF TypeOK
<1>2. TickShape
  BY <1>1, CommandsOK DEF TickShape, States, Probing, Guided, Terminal, sequenceVars
<1>3. probeCompleted' \in BOOLEAN
  BY <1>1 DEF SequenceOK, sequenceVars
<1>4. attempt' \in 0..MaxAttempt /\ nearReprobes' \in 0..MaxNearReprobes
  BY <1>1, CountsAssumption DEF SequenceOK, sequenceVars, MaxAttempt, MaxNearReprobes
<1>5. SourceOK'
  BY <1>1, BoundsOK DEF SourceOK, sourceVars
<1>6. best' \in 1..(MaxRange + 1)
  BY <1>1, BoundsOK DEF TimersOK, timerVars
<1>7. runtime' \in Timer /\ progress' \in Timer /\ rangeHold' \in Timer /\ arrivalHold' \in Timer
  BY <1>1 DEF TimersOK, timerVars, Timer
<1>8. HistoryOK'
  BY <1>1, BoundsOK DEF HistoryOK, historyVars
<1>9. UNCHANGED <<inputVars, halted>>
  OBVIOUS
<1> QED
  BY <1>2, <1>3, <1>4, <1>5, <1>6, <1>7, <1>8, <1>9, TypeTick

LEMMA TypeTickComplete == ASSUME TypeOK, TickComplete PROVE TypeOK'
<1> USE DEF TickComplete, GuidedTick, TickReady, TickRunning, UpdateHolds, Hold,
  FitOutcomes
<1>1. InputsOK /\ SequenceOK /\ SourceOK /\ TimersOK /\ HistoryOK
  BY DEF TypeOK
<1>2. TickShape
  BY <1>1, CommandsOK DEF TickShape, States, Probing, Guided, Terminal, sequenceVars
<1>3. probeCompleted' \in BOOLEAN
  BY <1>1 DEF SequenceOK, sequenceVars
<1>4. attempt' \in 0..MaxAttempt /\ nearReprobes' \in 0..MaxNearReprobes
  BY <1>1, CountsAssumption DEF SequenceOK, sequenceVars, MaxAttempt, MaxNearReprobes
<1>5. SourceOK'
  BY <1>1, BoundsOK DEF SourceOK, sourceVars
<1>6. best' \in 1..(MaxRange + 1)
  BY <1>1, BoundsOK DEF TimersOK, timerVars
<1>7. runtime' \in Timer /\ progress' \in Timer /\ rangeHold' \in Timer /\ arrivalHold' \in Timer
  BY <1>1 DEF TimersOK, timerVars, Timer
<1>8. HistoryOK'
  BY <1>1, BoundsOK, ArrivedOK DEF HistoryOK, historyVars
<1>9. UNCHANGED <<inputVars, halted>>
  OBVIOUS
<1> QED
  BY <1>2, <1>3, <1>4, <1>5, <1>6, <1>7, <1>8, <1>9, TypeTick

LEMMA TypeTickStalled == ASSUME TypeOK, TickStalled PROVE TypeOK'
<1> USE DEF TickStalled, GuidedTick, TickReady, TickRunning, RestartHolds,
  DropLocalization
<1>1. InputsOK /\ SequenceOK /\ SourceOK /\ TimersOK /\ HistoryOK
  BY DEF TypeOK
<1>2. TickShape
  BY <1>1, CommandsOK DEF TickShape, States, Probing, Guided, Terminal, sequenceVars,
    RangeStalled
<1>3. probeCompleted' \in BOOLEAN
  BY <1>1 DEF SequenceOK, sequenceVars
<1>4. attempt' \in 0..MaxAttempt /\ nearReprobes' \in 0..MaxNearReprobes
  BY <1>1, CountsAssumption DEF SequenceOK, sequenceVars, MaxAttempt, MaxNearReprobes,
    RangeStalled
<1>5. SourceOK'
  BY <1>1, BoundsOK DEF SourceOK, sourceVars
<1>6. best' \in 1..(MaxRange + 1)
  BY <1>1, BoundsOK DEF TimersOK, timerVars
<1>7. runtime' \in Timer /\ progress' \in Timer /\ rangeHold' \in Timer /\ arrivalHold' \in Timer
  BY <1>1 DEF TimersOK, timerVars, Timer
<1>8. HistoryOK'
  BY <1>1, BoundsOK, ArrivedOK DEF HistoryOK, historyVars
<1>9. UNCHANGED <<inputVars, halted>>
  OBVIOUS
<1> QED
  BY <1>2, <1>3, <1>4, <1>5, <1>6, <1>7, <1>8, <1>9, TypeTick

LEMMA TypeTickBeyond == ASSUME TypeOK, TickBeyond PROVE TypeOK'
<1> USE DEF TickBeyond, Steering, GuidedTick, TickReady, TickRunning, RestartHolds,
  FitOutcomes
<1>1. InputsOK /\ SequenceOK /\ SourceOK /\ TimersOK /\ HistoryOK
  BY DEF TypeOK
<1>2. TickShape
  BY <1>1, CommandsOK DEF TickShape, States, Probing, Guided, Terminal, sequenceVars
<1>3. probeCompleted' \in BOOLEAN
  BY <1>1 DEF SequenceOK, sequenceVars
<1>4. attempt' \in 0..MaxAttempt /\ nearReprobes' \in 0..MaxNearReprobes
  BY <1>1, CountsAssumption DEF SequenceOK, sequenceVars, MaxAttempt, MaxNearReprobes
<1>5. SourceOK'
  BY <1>1, BoundsOK DEF SourceOK, sourceVars
<1>6. best' \in 1..(MaxRange + 1)
  BY <1>1, ImprovedOK
<1>7. runtime' \in Timer /\ progress' \in Timer /\ rangeHold' \in Timer /\ arrivalHold' \in Timer
  BY <1>1 DEF TimersOK, timerVars, Timer
<1>8. HistoryOK'
  BY <1>1, BoundsOK, ArrivedOK DEF HistoryOK, historyVars
<1>9. UNCHANGED <<inputVars, halted>>
  OBVIOUS
<1> QED
  BY <1>2, <1>3, <1>4, <1>5, <1>6, <1>7, <1>8, <1>9, TypeTick

LEMMA TypeTickAlign == ASSUME TypeOK, TickAlign PROVE TypeOK'
<1> USE DEF TickAlign, Steering, GuidedTick, TickReady, TickRunning, UpdateHolds, Hold,
  FitOutcomes
<1>1. InputsOK /\ SequenceOK /\ SourceOK /\ TimersOK /\ HistoryOK
  BY DEF TypeOK
<1>2. TickShape
  BY <1>1, CommandsOK DEF TickShape, States, Probing, Guided, Terminal, sequenceVars
<1>3. probeCompleted' \in BOOLEAN
  BY <1>1 DEF SequenceOK, sequenceVars
<1>4. attempt' \in 0..MaxAttempt /\ nearReprobes' \in 0..MaxNearReprobes
  BY <1>1, CountsAssumption DEF SequenceOK, sequenceVars, MaxAttempt, MaxNearReprobes
<1>5. SourceOK'
  BY <1>1, BoundsOK DEF SourceOK, sourceVars
<1>6. best' \in 1..(MaxRange + 1)
  BY <1>1, ImprovedOK
<1>7. runtime' \in Timer /\ progress' \in Timer /\ rangeHold' \in Timer /\ arrivalHold' \in Timer
  BY <1>1 DEF TimersOK, timerVars, Timer
<1>8. HistoryOK'
  BY <1>1, BoundsOK, ArrivedOK DEF HistoryOK, historyVars
<1>9. UNCHANGED <<inputVars, halted>>
  OBVIOUS
<1> QED
  BY <1>2, <1>3, <1>4, <1>5, <1>6, <1>7, <1>8, <1>9, TypeTick

LEMMA TypeTickForward == ASSUME TypeOK, TickForward PROVE TypeOK'
<1> USE DEF TickForward, Steering, GuidedTick, TickReady, TickRunning, UpdateHolds,
  Hold, FitOutcomes
<1>1. InputsOK /\ SequenceOK /\ SourceOK /\ TimersOK /\ HistoryOK
  BY DEF TypeOK
<1>2. TickShape
  BY <1>1, CommandsOK DEF TickShape, States, Probing, Guided, Terminal, sequenceVars
<1>3. probeCompleted' \in BOOLEAN
  BY <1>1 DEF SequenceOK, sequenceVars
<1>4. attempt' \in 0..MaxAttempt /\ nearReprobes' \in 0..MaxNearReprobes
  BY <1>1, CountsAssumption DEF SequenceOK, sequenceVars, MaxAttempt, MaxNearReprobes
<1>5. SourceOK'
  BY <1>1, BoundsOK DEF SourceOK, sourceVars
<1>6. best' \in 1..(MaxRange + 1)
  BY <1>1, ImprovedOK
<1>7. runtime' \in Timer /\ progress' \in Timer /\ rangeHold' \in Timer /\ arrivalHold' \in Timer
  BY <1>1 DEF TimersOK, timerVars, Timer
<1>8. HistoryOK'
  BY <1>1, BoundsOK, ArrivedOK DEF HistoryOK, historyVars
<1>9. UNCHANGED <<inputVars, halted>>
  OBVIOUS
<1> QED
  BY <1>2, <1>3, <1>4, <1>5, <1>6, <1>7, <1>8, <1>9, TypeTick

LEMMA TypeInit == Init => TypeOK
<1>1. Init => InputsOK
  <2>1. 0 \in 0..MaxRange
    BY CountsAssumption
  <2> QED
    BY <2>1 DEF Init, InputsOK
<1>2. Init => SequenceOK
  <2>1. 1 \in 1..LastStage("WAIT_VEHICLE")
    BY LastStageOK
  <2>2. 0 \in 0..MaxAttempt /\ 0 \in 0..MaxNearReprobes
    BY DEF MaxAttempt, MaxNearReprobes
  <2> QED
    BY <2>1, <2>2 DEF Init, SequenceOK, States
<1>3. Init => SourceOK
  BY BoundsOK DEF Init, SourceOK
<1>4. Init => TimersOK
  BY BoundsOK DEF Init, TimersOK, Timer
<1>5. Init => OutputsOK
  BY CommandsOK DEF Init, OutputsOK
<1>6. Init => HistoryOK
  BY BoundsOK DEF Init, HistoryOK
<1> QED
  BY <1>1, <1>2, <1>3, <1>4, <1>5, <1>6 DEF TypeOK

LEMMA TypeNext == ASSUME TypeOK, [Next]_vars PROVE TypeOK'
<1>1. CASE Callback
  BY <1>1, TypeCallback
<1>2. CASE Passing
  BY <1>2, TypePassing
<1>3. CASE TickMission
  BY <1>3, TypeTickTimeout, TypeTickBlocked, TypeTickBegin, TypeTickResume,
     TypeTickProbe, TypeProbeNextLeg, TypeProbeConfirm, TypeProbeLock,
     TypeProbeRetry, TypeProbeFail, TypeTickComplete, TypeTickStalled,
     TypeTickBeyond, TypeTickAlign, TypeTickForward DEF TickMission
<1>4. CASE TickTerminal \/ TickExit
  <2>1. lastCommand' \in Command /\ rc' \in {"none", "release", "pwm"}
    <3>1. CASE TickTerminal
      BY <3>1, PublishOK, CommandsOK DEF TickTerminal
    <3>2. CASE TickExit
      <4>1. \A depth \in DepthReadings : LimitHeave(0, depth) \in {-1, 0, 1}
        BY DEF LimitHeave
      <4>2. Realized(Stop) \subseteq Command
        BY <4>1 DEF Realized, Stop, Command
      <4> QED
        BY <3>2, <4>2 DEF TickExit
    <3> QED
      BY <1>4, <3>1, <3>2
  <2>2. OutputsOK'
    BY <1>4, <2>1 DEF TickTerminal, TickExit, OutputsOK, TypeOK
  <2>3. UNCHANGED <<inputVars, sequenceVars, sourceVars, timerVars, historyVars>>
    BY <1>4 DEF TickTerminal, TickExit
  <2> QED
    BY TypeKept, <2>2, <2>3 DEF TypeOK
<1>5. CASE UNCHANGED vars
  BY TypeKept, <1>5 DEF TypeOK, vars
<1> QED
  BY <1>1, <1>2, <1>3, <1>4, <1>5 DEF Next, ControlTick, Exited

\* Every reachable state is well typed: no execution, however long, spends more
\* than three probe retries or more than two near reprobes.
THEOREM TypeCorrect == Spec => []TypeOK
<1> QED
  BY TypeInit, TypeNext, PTL DEF Spec

-----------------------------------------------------------------------------
(* The lock behind the steering *)

LEMMA GuidedHasLockNext ==
  ASSUME TypeOK, GuidedHasLock, [Next]_vars
  PROVE  GuidedHasLock'
<1> USE DEF GuidedHasLock
<1>1. CASE Callback \/ Passing
  <2>1. UNCHANGED <<state, probeCompleted, estimate, locked>>
    <3>1. CASE Callback
      BY <3>1 DEF Callback, OnOdometry, OnDeltaRange, OnDepthPose, OnAudioQuality, OnIqMagnitude,
        OnVehicleState, sequenceVars, sourceVars
    <3>2. CASE Passing
      BY <3>2 DEF Passing, Expire, RuntimeLapses, ProgressLapses, HoldLapses,
        ServiceLapses, StageLapses,
                  sequenceVars, sourceVars
    <3> QED
      BY <1>1, <3>1, <3>2
  <2> QED
    BY <2>1
<1>2. CASE TickTimeout \/ TickBlocked \/ TickBegin \/ TickResume \/ TickComplete
  <2>1. state' \in {"FAILED_TIMEOUT", "WAIT_VEHICLE", "PROBE", "COMPLETE"}
    BY <1>2 DEF TickTimeout, TickBlocked, TickBegin, TickResume, TickComplete,
      Transition
  <2> QED
    BY <2>1 DEF Guided
<1>3. CASE TickStalled \/ TickBeyond
  <2>1. state' = "REPROBE"
    BY <1>3 DEF TickStalled, TickBeyond, Transition
  <2> QED
    BY <2>1 DEF Guided
<1>4. CASE ProbeNextLeg \/ ProbeConfirm \/ ProbeRetry \/ ProbeFail \/ TickProbe
  <2>1. state' \in {"PROBE", "REPROBE", "FAILED_ESTIMATE"}
    BY <1>4 DEF ProbeNextLeg, ProbeConfirm, ProbeRetry, ProbeFail, TickProbe, NextLeg,
                Transition, Mirrored, Probing, sequenceVars
  <2> QED
    BY <2>1 DEF Guided
<1>5. CASE ProbeLock
  BY <1>5 DEF ProbeLock, CompletedProbeFitCanLock
<1>6. CASE TickAlign \/ TickForward
  <2>1. locked' /\ probeCompleted' /\ (estimate => estimate') /\ state \in Guided
    BY <1>6 DEF TickAlign, TickForward, Steering, GuidedTick, GuidedHasLock
  <2> QED
    BY <2>1
<1>7. CASE TickTerminal \/ TickExit \/ UNCHANGED vars
  <2>1. UNCHANGED <<state, probeCompleted, estimate, locked>>
    BY <1>7 DEF TickTerminal, TickExit, vars, sequenceVars, sourceVars
  <2> QED
    BY <2>1
<1> QED
  BY <1>1, <1>2, <1>3, <1>4, <1>5, <1>6, <1>7 DEF Next, ControlTick, TickMission, Exited

\* Steering always has the lock of a completed probe and a usable estimate.
THEOREM GuidedHasLockAlways == Spec => []GuidedHasLock
<1>1. Init => GuidedHasLock
  BY DEF Init, GuidedHasLock, Guided
<1> QED
  BY <1>1, TypeCorrect, GuidedHasLockNext, PTL DEF Spec

-----------------------------------------------------------------------------
(* Samples from before the mission *)

LEMMA NoPreArmSamplesNext ==
  ASSUME NoPreArmSamples, [Next]_vars
  PROVE  NoPreArmSamples'
<1> USE DEF NoPreArmSamples
<1>1. CASE Callback
  BY <1>1 DEF Callback, OnOdometry, OnDeltaRange, OnDepthPose, OnAudioQuality, OnIqMagnitude,
    OnVehicleState, timerVars, historyVars
<1>2. CASE Passing
  BY <1>2 DEF Passing, Expire, RuntimeLapses, ProgressLapses, HoldLapses,
    ServiceLapses, StageLapses,
              timerVars, historyVars
<1>3. CASE TickTimeout \/ TickBlocked \/ TickResume \/ TickProbe
  BY <1>3 DEF TickTimeout, TickBlocked, TickResume, TickProbe
<1>4. CASE TickBegin \/ TickStalled
  BY <1>4 DEF TickBegin, TickStalled, DropLocalization
<1>5. CASE ProbeNextLeg \/ ProbeConfirm \/ ProbeLock \/ ProbeRetry \/ ProbeFail
  <2>1. UNCHANGED <<runtime, tainted>>
    BY <1>5 DEF ProbeNextLeg, ProbeConfirm, ProbeLock, ProbeRetry, ProbeFail, AtBoundary
  <2> QED
    BY <2>1
<1>6. CASE TickComplete \/ TickBeyond \/ TickAlign \/ TickForward
  <2>1. UNCHANGED <<runtime, tainted>>
    BY <1>6 DEF TickComplete, TickBeyond, TickAlign, TickForward, Steering, GuidedTick
  <2> QED
    BY <2>1
<1>7. CASE TickTerminal \/ TickExit \/ UNCHANGED vars
  BY <1>7 DEF TickTerminal, TickExit, vars, timerVars, historyVars
<1> QED
  BY <1>1, <1>2, <1>3, <1>4, <1>5, <1>6, <1>7 DEF Next, ControlTick, TickMission, Exited

\* Whatever was heard before the first ready tick, no fit of the mission uses it.
THEOREM NoPreArmSamplesAlways == Spec => []NoPreArmSamples
<1>1. Init => NoPreArmSamples
  BY DEF Init, NoPreArmSamples
<1> QED
  BY <1>1, NoPreArmSamplesNext, PTL DEF Spec

-----------------------------------------------------------------------------
(* The success hold *)

LEMMA ArrivalHoldNext ==
  ASSUME TypeOK, ArrivalHoldUnbroken, [Next]_vars
  PROVE  ArrivalHoldUnbroken'
<1> USE DEF ArrivalHoldUnbroken
<1>1. CASE Callback
  BY <1>1 DEF Callback, OnOdometry, OnDeltaRange, OnDepthPose, OnAudioQuality, OnIqMagnitude,
    OnVehicleState, sequenceVars, timerVars, historyVars
<1>2. CASE Passing
  <2>1. UNCHANGED <<state, arrivedNow>>
    BY <1>2 DEF Passing, Expire, RuntimeLapses, ProgressLapses, HoldLapses,
      ServiceLapses, StageLapses,
                sequenceVars, historyVars
  <2>2. (rangeHold' # "off" => rangeHold # "off") /\ (arrivalHold' # "off" => arrivalHold # "off")
    BY <1>2 DEF Passing, Expire, RuntimeLapses, ProgressLapses, HoldLapses,
      ServiceLapses, StageLapses,
                Lapse, timerVars
  <2> QED
    BY <2>1, <2>2
<1>3. CASE TickTimeout \/ ProbeFail \/ TickComplete
  <2>1. state' \in Terminal
    BY <1>3 DEF TickTimeout, ProbeFail, TickComplete, Transition, Terminal
  <2> QED
    BY <2>1
<1>4. CASE TickBlocked \/ TickBegin \/ TickResume \/ TickStalled \/ TickBeyond
  BY <1>4 DEF TickBlocked, TickBegin, TickResume, TickStalled, TickBeyond, RestartHolds
<1>5. CASE TickProbe \/ ProbeNextLeg \/ ProbeConfirm \/ ProbeLock \/ ProbeRetry
  BY <1>5 DEF TickProbe, ProbeNextLeg, ProbeConfirm, ProbeLock, ProbeRetry, AtBoundary
<1>6. CASE TickAlign \/ TickForward
  <2>1. PICK usable \in BOOLEAN, inRadius \in BOOLEAN :
          /\ ~HoldComplete(usable, inRadius) /\ UpdateHolds(usable, inRadius)
          /\ arrivedNow' = Arrived(inRadius)
    BY <1>6 DEF TickAlign, TickForward, Steering, GuidedTick
  <2>2. rangeHold' # "off" => CalibratedArrival
    BY <2>1 DEF UpdateHolds, Hold
  <2>3. CalibratedArrival => arrivedNow'
    <3>1. CalibratedArrival /\ range \in 0..MaxRange => range \in 1..SuccessRange
      BY CountsAssumption DEF CalibratedArrival
    <3> QED
      BY <2>1, <3>1, CountsAssumption DEF Arrived, CalibratedArrival, TypeOK, InputsOK
  <2>4. arrivalHold' # "off" => EstimatedArrival(usable, inRadius)
    BY <2>1 DEF HoldComplete, UpdateHolds, Hold
  <2>5. EstimatedArrival(usable, inRadius) => arrivedNow'
    BY <2>1 DEF EstimatedArrival, EstimatedArrivalFallback, Arrived
  <2> QED
    BY <2>2, <2>3, <2>4, <2>5
<1>7. CASE TickTerminal \/ TickExit \/ UNCHANGED vars
  BY <1>7 DEF TickTerminal, TickExit, vars, sequenceVars, timerVars, historyVars
<1> QED
  BY <1>1, <1>2, <1>3, <1>4, <1>5, <1>6, <1>7 DEF Next, ControlTick, TickMission, Exited

\* No success hold outlives a tick that does not see the arrival.
THEOREM ArrivalHoldAlways == Spec => []ArrivalHoldUnbroken
<1>1. Init => ArrivalHoldUnbroken
  BY DEF Init, ArrivalHoldUnbroken
<1> QED
  BY <1>1, TypeCorrect, ArrivalHoldNext, PTL DEF Spec

LEMMA SuccessStep ==
  ASSUME TypeOK, GuidedHasLock, ArrivalHoldUnbroken, [Next]_vars,
         state # "COMPLETE", state' = "COMPLETE"
  PROVE  /\ state \in Guided /\ locked
         /\ arrivedNow /\ arrivedNow'
         /\ SuccessRange > 0 => range \in 1..SuccessRange
<1>1. TickComplete
  <2>1. ~Callback /\ ~Passing
    BY DEF Callback, OnOdometry, OnDeltaRange, OnDepthPose, OnAudioQuality, OnIqMagnitude,
      OnVehicleState,
           Passing, Expire, RuntimeLapses, ProgressLapses, HoldLapses, ServiceLapses,
           StageLapses, sequenceVars
  <2>2. ~TickTimeout /\ ~TickBlocked /\ ~TickBegin /\ ~TickResume /\ ~TickStalled /\ ~TickBeyond
    BY DEF TickTimeout, TickBlocked, TickBegin, TickResume, TickStalled, TickBeyond,
      Transition
  <2>3. ~TickProbe /\ ~ProbeNextLeg /\ ~ProbeConfirm /\ ~ProbeLock /\ ~ProbeRetry /\ ~ProbeFail
    BY DEF TickProbe, ProbeNextLeg, ProbeConfirm, ProbeLock, ProbeRetry, ProbeFail,
           NextLeg, Mirrored, Transition, sequenceVars
  <2>4. ~TickAlign /\ ~TickForward
    BY DEF TickAlign, TickForward, Transition
  <2>5. ~TickTerminal /\ ~TickExit /\ ~UNCHANGED vars
    BY DEF TickTerminal, TickExit, vars, sequenceVars
  <2> QED
    BY <2>1, <2>2, <2>3, <2>4, <2>5 DEF Next, ControlTick, TickMission, Exited
<1>2. PICK usable \in BOOLEAN, inRadius \in BOOLEAN :
        HoldComplete(usable,
        inRadius) /\ state \in Guided /\ arrivedNow' = Arrived(inRadius)
  BY <1>1 DEF TickComplete, GuidedTick
<1>3. locked /\ arrivedNow
  BY <1>2 DEF GuidedHasLock, ArrivalHoldUnbroken, HoldComplete, Guided, Terminal
<1>4. range \in 0..MaxRange
  BY DEF TypeOK, InputsOK
<1>5. CASE CalibratedArrival
  <2>1. range \in 1..SuccessRange /\ SuccessRange > 0
    BY <1>4, <1>5, CountsAssumption DEF CalibratedArrival
  <2> QED
    BY <1>2, <1>3, <2>1 DEF Arrived
<1>6. CASE EstimatedArrival(usable, inRadius)
  <2>1. SuccessRange = 0 /\ inRadius
    BY <1>6 DEF EstimatedArrival, EstimatedArrivalFallback
  <2>2. Arrived(inRadius)
    BY <2>1 DEF Arrived
  <2>3. ~(SuccessRange > 0)
    BY <2>1
  <2> QED
    BY <1>2, <1>3, <2>2, <2>3
<1>7. CalibratedArrival \/ EstimatedArrival(usable, inRadius)
  BY <1>2 DEF HoldComplete
<1> QED
  BY <1>5, <1>6, <1>7

\* Success takes two consecutive ticks that see the arrival, steering to a lock.
THEOREM SuccessEarned == Spec => SuccessIsEarned
<1>1. TypeOK /\ GuidedHasLock /\ ArrivalHoldUnbroken /\ [Next]_vars =>
        [state # "COMPLETE" /\ state' = "COMPLETE" =>
           /\ state \in Guided /\ locked
           /\ arrivedNow /\ arrivedNow'
           /\ SuccessRange > 0 => range \in 1..SuccessRange]_vars
  BY SuccessStep
<1> QED
  BY <1>1, TypeCorrect, GuidedHasLockAlways, ArrivalHoldAlways, PTL DEF Spec,
    SuccessIsEarned

-----------------------------------------------------------------------------
(* Legs, attempts and the lock *)

\* One more leg at the end of the timeline keeps the count ahead of the attempts.
LEMMA OneMoreOK ==
  ASSUME NEW count \in 0..MinimumLegs
  PROVE  /\ OneMore(count) >= 1 /\ count <= OneMore(count)
         /\ OneMore(count) < MinimumLegs => OneMore(count) = count + 1
BY CountsAssumption DEF OneMore

LEMMA LegsCountedNext ==
  ASSUME TypeOK, LegsCounted, [Next]_vars
  PROVE  LegsCounted'
<1> USE DEF LegsCounted
<1>0. /\ legs \in 0..MinimumLegs /\ attempt \in 0..3 /\ MinimumLegs \in 1..4
      /\ MaxAttempt = 3 /\ ProbeDone = 8
  BY CountsAssumption DEF TypeOK, HistoryOK, SequenceOK, MaxAttempt, ProbeDone
<1>1. CASE Callback
  BY <1>1 DEF Callback, OnOdometry, OnDeltaRange, OnDepthPose, OnAudioQuality, OnIqMagnitude,
    OnVehicleState,
              sequenceVars, timerVars, historyVars
<1>2. CASE Passing
  <2>1. CASE StageLapses
    <3>1. UNCHANGED <<runtime, state, attempt>> /\ stage' = stage + 1
      BY <2>1 DEF StageLapses, timerVars
    <3>2. CASE state \in Probing /\ stage' = ProbeDone
      <4>1. legs' = OneMore(legs)
        BY <2>1, <3>2 DEF StageLapses
      <4> QED
        BY <1>0, <3>1, <3>2, <4>1, OneMoreOK
    <3>3. CASE ~(state \in Probing /\ stage' = ProbeDone)
      <4>1. UNCHANGED legs
        BY <2>1, <3>3 DEF StageLapses
      <4> QED
        BY <3>1, <3>3, <4>1
    <3> QED
      BY <3>2, <3>3
  <2>2. CASE ~StageLapses
    <3>1. UNCHANGED <<state, stage, attempt, legs>>
      BY <1>2, <2>2 DEF Passing, Expire, RuntimeLapses, ProgressLapses, HoldLapses,
        ServiceLapses,
                        sequenceVars, historyVars
    <3>2. runtime' = "off" => runtime = "off"
      BY <1>2, <2>2 DEF Passing, Expire, RuntimeLapses, ProgressLapses, HoldLapses,
        ServiceLapses,
                        timerVars
    <3> QED
      BY <3>1, <3>2
  <2> QED
    BY <2>1, <2>2
<1>3. CASE TickTimeout \/ TickBlocked \/ TickBegin \/ TickResume
  <2>1. state' \in {"FAILED_TIMEOUT",
  "WAIT_VEHICLE"} \/ (state' = "PROBE" /\ stage' = 1)
    BY <1>3 DEF TickTimeout, TickBlocked, TickBegin, TickResume, Transition
  <2>2. /\ attempt' = attempt
        /\ legs' = legs \/ (legs' = 0 /\ runtime = "off")
    BY <1>3 DEF TickTimeout, TickBlocked, TickBegin, TickResume, DropLocalization
  <2>3. runtime' = "off" => runtime = "off" /\ state' = "WAIT_VEHICLE"
    BY <1>3 DEF TickTimeout, TickBlocked, TickBegin, TickResume, RuntimeExceeded,
      Transition
  <2> QED
    BY <1>0, <2>1, <2>2, <2>3 DEF Probing
<1>4. CASE TickProbe \/ TickTerminal \/ TickExit \/ UNCHANGED vars
  <2>1. UNCHANGED <<state, stage, attempt, legs, runtime>>
    BY <1>4 DEF TickProbe, TickTerminal, TickExit, vars, sequenceVars, timerVars,
      historyVars
  <2> QED
    BY <2>1
<1>5. CASE ProbeNextLeg \/ ProbeRetry
  <2>1. /\ runtime' = runtime /\ legs' = legs /\ attempt' = attempt + 1
        /\ state \in Probing /\ stage = ProbeDone
    BY <1>5 DEF ProbeNextLeg, ProbeRetry, AtBoundary, NextLeg
  <2>2. state' \in Probing /\ stage' = 1
    BY <1>5, <2>1 DEF ProbeNextLeg, ProbeRetry, NextLeg, Mirrored, Transition, Probing
  <2>3. runtime # "off"
    BY <2>1 DEF Probing
  <2> QED
    BY <1>0, <2>1, <2>2, <2>3
<1>6. CASE ProbeConfirm
  <2>1. /\ runtime' = runtime /\ legs' = legs /\ attempt = 0
        /\ state \in Probing /\ stage = ProbeDone /\ ~MoreLegsRequired
    BY <1>6 DEF ProbeConfirm, AtBoundary, FirstFitNeedsConfirmation
  <2>2. MinimumLegs = 1
    BY <1>0, <2>1 DEF MoreLegsRequired
  <2>3. runtime # "off"
    BY <2>1 DEF Probing
  <2> QED
    BY <1>0, <2>1, <2>2, <2>3
<1>7. CASE ProbeLock \/ ProbeFail \/ TickComplete \/ TickAlign \/ TickForward
  <2>1. UNCHANGED <<runtime, legs, attempt>>
    BY <1>7 DEF ProbeLock, ProbeFail, AtBoundary, TickComplete, TickAlign, TickForward,
                Steering, GuidedTick
  <2>2. state' \in Guided \cup Terminal
    BY <1>7 DEF ProbeLock, ProbeFail, TickComplete, TickAlign, TickForward, Transition,
                Guided, Terminal
  <2>3. state \in Probing \cup Guided
    BY <1>7 DEF ProbeLock, ProbeFail, AtBoundary, TickComplete, TickAlign, TickForward,
                Steering, GuidedTick
  <2> QED
    BY <2>1, <2>2, <2>3 DEF Probing, Guided, Terminal
<1>8. CASE TickStalled
  <2>1. runtime' = runtime /\ legs' = 0 /\ attempt' = 0 /\ state \in Guided
    BY <1>8 DEF TickStalled, GuidedTick, DropLocalization
  <2>2. state' = "REPROBE" /\ stage' = 1
    BY <1>8, <2>1 DEF TickStalled, Transition, Guided
  <2> QED
    BY <1>0, <2>1, <2>2 DEF Guided
<1>9. CASE TickBeyond
  <2>1. runtime' = runtime /\ legs' = legs /\ attempt' = attempt /\ state \in Guided
    BY <1>9 DEF TickBeyond, Steering, GuidedTick
  <2>2. state' = "REPROBE" /\ stage' = 1
    BY <1>9, <2>1 DEF TickBeyond, Transition, Guided
  <2> QED
    BY <1>0, <2>1, <2>2 DEF Guided
<1> QED
  BY <1>1, <1>2, <1>3, <1>4, <1>5, <1>6, <1>7, <1>8, <1>9
     DEF Next, ControlTick, TickMission, Exited

\* The attempts of the code never run ahead of the legs really driven.
THEOREM LegsCountedAlways == Spec => []LegsCounted
<1>1. Init => LegsCounted
  <2> SUFFICES ASSUME Init PROVE LegsCounted
    OBVIOUS
  <2>1. state = "WAIT_VEHICLE" /\ attempt = 0 /\ legs = 0
    BY DEF Init
  <2>2. state \notin Probing /\ attempt <= legs
    BY <2>1 DEF Probing
  <2> QED
    BY <2>1, <2>2 DEF LegsCounted
<1> QED
  BY <1>1, TypeCorrect, LegsCountedNext, PTL DEF Spec

\* Only one step sets the lock.
LEMMA LockStep ==
  ASSUME [Next]_vars, ~locked, locked'
  PROVE  ProbeLock
<1>1. ~Callback /\ ~Passing
  BY DEF Callback, OnOdometry, OnDeltaRange, OnDepthPose, OnAudioQuality, OnIqMagnitude,
    OnVehicleState,
         Passing, Expire, RuntimeLapses, ProgressLapses, HoldLapses, ServiceLapses,
         StageLapses, sourceVars
<1>2. ~TickTimeout /\ ~TickBlocked /\ ~TickBegin /\ ~TickResume /\ ~TickStalled
  BY DEF TickTimeout, TickBlocked, TickBegin, TickResume, TickStalled, DropLocalization,
         sourceVars
<1>3. ~TickProbe /\ ~ProbeNextLeg /\ ~ProbeConfirm /\ ~ProbeRetry /\ ~ProbeFail
  BY DEF TickProbe, ProbeNextLeg, ProbeConfirm, ProbeRetry, ProbeFail
<1>4. ~TickComplete /\ ~TickBeyond /\ ~TickAlign /\ ~TickForward
  BY DEF TickComplete, TickBeyond, TickAlign, TickForward, Steering
<1>5. ~TickTerminal /\ ~TickExit /\ ~UNCHANGED vars
  BY DEF TickTerminal, TickExit, vars, sourceVars
<1> QED
  BY <1>1, <1>2, <1>3, <1>4, <1>5 DEF Next, ControlTick, TickMission, Exited

\* A lock comes from the accepted fit of the tick that ends a probe leg.
THEOREM LockFromBoundary == Spec => LockFromBoundaryFit
<1>1. [Next]_vars =>
        [~locked /\ locked' => state \in Probing /\ stage = ProbeDone /\ forceAccepted']_vars
  BY LockStep DEF ProbeLock, AtBoundary, CompletedProbeFitCanLock
<1> QED
  BY <1>1, PTL DEF Spec, LockFromBoundaryFit

\* The configured number of legs was driven for every lock.
THEOREM LockLegs == Spec => LockHonoursLegs
<1>1. ASSUME TypeOK, LegsCounted, [Next]_vars, ~locked, locked'
      PROVE  legs >= MinimumLegs
  <2>1. state \in Probing /\ stage = ProbeDone /\ ~MoreLegsRequired
    BY <1>1, LockStep DEF ProbeLock, AtBoundary
  <2>2. legs \in 0..MinimumLegs /\ attempt \in 0..3 /\ MinimumLegs \in 1..4
    BY <1>1, CountsAssumption DEF TypeOK, HistoryOK, SequenceOK, MaxAttempt
  <2> QED
    BY <1>1, <2>1, <2>2 DEF LegsCounted, MoreLegsRequired
<1>2. TypeOK /\ LegsCounted /\ [Next]_vars => [~locked /\ locked' => legs >= MinimumLegs]_vars
  BY <1>1
<1> QED
  BY <1>2, TypeCorrect, LegsCountedAlways, PTL DEF Spec, LockHonoursLegs

-----------------------------------------------------------------------------
(* After the mission *)

\* The neutral command is realized as stillness or the upward recovery.
LEMMA StillOK ==
  ASSUME NEW command \in Realized(Stop)
  PROVE  /\ command.forward = 0 /\ command.lateral = 0 /\ command.yaw = 0
         /\ command.heave >= 0
<1>1. \A depth : LimitHeave(0, depth) \in {0, 1}
  BY DEF LimitHeave
<1> QED
  BY <1>1 DEF Realized, Stop

LEMMA TerminalIsStillNext ==
  ASSUME TypeOK, TerminalIsStill, [Next]_vars
  PROVE  TerminalIsStill'
<1> USE DEF TerminalIsStill
<1>1. CASE Callback
  BY <1>1 DEF Callback, OnOdometry, OnDeltaRange, OnDepthPose, OnAudioQuality, OnIqMagnitude,
    OnVehicleState, sequenceVars, outputVars
<1>2. CASE Passing
  BY <1>2 DEF Passing, Expire, RuntimeLapses, ProgressLapses, HoldLapses,
    ServiceLapses, StageLapses,
              sequenceVars, outputVars
<1>3. CASE TickTimeout \/ TickComplete \/ ProbeFail
  <2>1. lastCommand' \in Realized(Stop)
    BY <1>3 DEF TickTimeout, TickComplete, ProbeFail, AtBoundary, Publish
  <2> QED
    BY <2>1, StillOK
<1>4. CASE TickBlocked \/ TickBegin \/ TickResume \/ TickProbe \/ TickStalled \/ TickBeyond
  <2>1. state' \in {"WAIT_VEHICLE"} \cup Probing
    BY <1>4 DEF TickBlocked, TickBegin, TickResume, TickProbe, TickStalled, TickBeyond,
                Transition, Probing, sequenceVars
  <2> QED
    BY <2>1 DEF Probing, Terminal
<1>5. CASE ProbeNextLeg \/ ProbeConfirm \/ ProbeLock \/ ProbeRetry
  <2>1. state' \in {"PROBE", "REPROBE", "ALIGN"}
    BY <1>5 DEF ProbeNextLeg, ProbeConfirm, ProbeLock, ProbeRetry, NextLeg, Mirrored,
      Transition
  <2> QED
    BY <2>1 DEF Terminal
<1>6. CASE TickAlign \/ TickForward
  <2>1. state' \in Guided
    BY <1>6 DEF TickAlign, TickForward, Transition, Guided
  <2> QED
    BY <2>1 DEF Guided, Terminal
<1>7. CASE TickTerminal \/ TickExit \/ UNCHANGED vars
  <2>1. lastCommand' \in Realized(Stop) \/ UNCHANGED <<state, lastCommand>>
    BY <1>7 DEF TickTerminal, TickExit, Publish, vars, sequenceVars, outputVars
  <2>2. UNCHANGED state
    BY <1>7 DEF TickTerminal, TickExit, vars, sequenceVars
  <2> QED
    BY <2>1, <2>2, StillOK
<1> QED
  BY <1>1, <1>2, <1>3, <1>4, <1>5, <1>6, <1>7 DEF Next, ControlTick, TickMission, Exited

\* A finished mission commands nothing but the upward depth recovery.
THEOREM TerminalIsStillAlways == Spec => []TerminalIsStill
<1>1. Init => TerminalIsStill
  BY DEF Init, TerminalIsStill, Terminal
<1> QED
  BY <1>1, TypeCorrect, TerminalIsStillNext, PTL DEF Spec

\* A finished mission stays finished and sends no request any more.
THEOREM TerminalFinal == Spec => TerminalIsFinal
<1>1. ASSUME TypeOK, [Next]_vars, state \notin {"WAIT_VEHICLE"} \cup Probing \cup Guided
      PROVE  state' = state /\ requests' = requests
  <2>1. state \in Terminal
    BY <1>1 DEF TypeOK, SequenceOK, States
  <2>2. ~TickMission
    <3>1. TickMission => state \notin Terminal
      BY DEF TickMission, TickTimeout, TickBlocked, TickBegin, TickResume, TickProbe,
             ProbeNextLeg, ProbeConfirm, ProbeLock, ProbeRetry, ProbeFail, AtBoundary,
             TickComplete, TickStalled, TickBeyond, TickAlign, TickForward, Steering,
             GuidedTick, TickReady, TickRunning
    <3> QED
      BY <2>1, <3>1
  <2>3. CASE Callback
    BY <2>3 DEF Callback, OnOdometry, OnDeltaRange, OnDepthPose, OnAudioQuality, OnIqMagnitude,
      OnVehicleState, sequenceVars, outputVars
  <2>4. CASE Passing
    BY <2>4 DEF Passing, Expire, RuntimeLapses, ProgressLapses, HoldLapses,
      ServiceLapses, StageLapses,
                sequenceVars, outputVars
  <2>5. CASE TickTerminal \/ TickExit \/ UNCHANGED vars
    BY <2>5 DEF TickTerminal, TickExit, vars, sequenceVars, outputVars
  <2> QED
    BY <1>1, <2>2, <2>3, <2>4, <2>5 DEF Next, ControlTick, Exited
<1>2. TypeOK /\ [Next]_vars =>
        [(state \notin {"WAIT_VEHICLE"} \cup Probing \cup Guided)
         => state' = state /\ requests' = requests]_vars
  BY <1>1
<1> QED
  BY <1>2, TypeCorrect, PTL DEF Spec, TerminalIsFinal

-----------------------------------------------------------------------------
(* The mission it implements *)

\* A step that leaves the node's command alone at most changes the permission.
LEMMA MissionWatches ==
  ASSUME ~halted, UNCHANGED <<state, locked, lastCommand, halted>>
  PROVE  Mission!Next
<1>1. UNCHANGED <<MissionPhase, Driving>>
  BY DEF MissionPhase, Driving
<1>2. OutputEnabled' \in BOOLEAN
  BY DEF OutputEnabled, LiveControlReady
<1> QED
  BY <1>1, <1>2 DEF Mission!Next, Mission!Permission

\* The neutral command drives the vehicle nowhere, any other only with the permission.
LEMMA MissionRests ==
  ASSUME lastCommand' \in Realized(Stop)
  PROVE  Mission!Drive(FALSE) /\ Mission!Drive(TRUE)
<1>1. Driving' \in BOOLEAN
  BY DEF Driving
<1>2. ~Driving'
  BY StillOK DEF Driving
<1> QED
  BY <1>1, <1>2 DEF Mission!Drive

LEMMA MissionDrives ==
  ASSUME NEW requested, Publish(requested)
  PROVE  Mission!Drive(TRUE)
<1>1. Driving' \in BOOLEAN
  BY DEF Driving
<1>2. lastCommand' \in Realized(requested)
  BY DEF Publish
<1>3. Driving' => OutputEnabled
  BY <1>2 DEF Realized, Driving, Stop
<1> QED
  BY <1>1, <1>3 DEF Mission!Drive

LEMMA MissionNeutral ==
  ASSUME Publish(Stop)
  PROVE  Mission!Drive(FALSE) /\ Mission!Drive(TRUE)
BY MissionRests DEF Publish

LEMMA PermissionKept ==
  ASSUME UNCHANGED inputVars
  PROVE  UNCHANGED OutputEnabled
BY DEF inputVars, OutputEnabled, LiveControlReady, ModeMatches

LEMMA MissionTick ==
  ASSUME TypeOK, GuidedHasLock, ~halted, TickMission
  PROVE  Mission!Next
<1> USE DEF MissionPhase, Probing, Guided, Terminal
<1>0. /\ state \in States \ Terminal /\ UNCHANGED <<inputVars, halted>>
      /\ MissionPhase \in Mission!Running
  <2>1. state \in States
    BY DEF TypeOK, SequenceOK
  <2>2. state \notin Terminal /\ UNCHANGED <<inputVars, halted>>
    BY DEF TickMission, TickTimeout, TickBlocked, TickBegin, TickResume, TickProbe,
           ProbeNextLeg, ProbeConfirm, ProbeLock, ProbeRetry, ProbeFail, AtBoundary,
           TickComplete, TickStalled, TickBeyond, TickAlign, TickForward, Steering,
           GuidedTick, TickReady, TickRunning
  <2> QED
    BY <2>1, <2>2 DEF States, Mission!Running
<1>1. UNCHANGED OutputEnabled
  BY <1>0, PermissionKept
<1>2. CASE TickTimeout \/ ProbeFail
  <2>1. Publish(Stop) /\ UNCHANGED locked
    BY <1>2 DEF TickTimeout, ProbeFail, AtBoundary, sourceVars
  <2>2. MissionPhase' = "failed"
    BY <1>2 DEF TickTimeout, ProbeFail, Transition
  <2>3. Mission!Fail
    BY <1>0, <1>1, <2>1, <2>2, MissionNeutral DEF Mission!Fail
  <2> QED
    BY <2>3 DEF Mission!Next
<1>3. CASE TickBlocked
  <2>1. Publish(Stop) /\ UNCHANGED locked
    BY <1>3 DEF TickBlocked, sourceVars
  <2>2. MissionPhase' = "waiting"
    BY <1>3 DEF TickBlocked, Transition
  <2>3. Mission!Interrupt
    BY <1>0, <1>1, <2>1, <2>2, MissionNeutral DEF Mission!Interrupt
  <2> QED
    BY <2>3 DEF Mission!Next
<1>4. CASE \/ TickBegin \/ TickResume \/ ProbeNextLeg \/ ProbeConfirm \/ ProbeRetry
           \/ TickStalled \/ TickBeyond
  <2>1. Publish(Stop)
    BY <1>4 DEF TickBegin, TickResume, ProbeNextLeg, ProbeConfirm, ProbeRetry, AtBoundary,
                TickStalled, TickBeyond
  <2>2. locked' \in {locked, FALSE}
    BY <1>4 DEF TickBegin, TickResume, ProbeNextLeg, ProbeConfirm, ProbeRetry,
                TickStalled, TickBeyond, DropLocalization, Steering
  <2>3. MissionPhase' = "locating"
    BY <1>4 DEF TickBegin, TickResume, ProbeNextLeg, ProbeConfirm, ProbeRetry, NextLeg,
                Mirrored, TickStalled, TickBeyond, Transition
  <2>4. Mission!Drive(MissionPhase = "locating")
    BY <2>1, MissionNeutral DEF Mission!Drive
  <2>5. Mission!Locate
    BY <1>0, <1>1, <2>2, <2>3, <2>4 DEF Mission!Locate
  <2> QED
    BY <2>5 DEF Mission!Next
<1>5. CASE TickProbe
  <2>1. PICK heave \in {-1, 0, 1} : Publish(ProbeLeg(state, stage, heave))
    BY <1>5 DEF TickProbe
  <2>2. UNCHANGED locked /\ MissionPhase = "locating" /\ MissionPhase' = "locating"
    BY <1>5 DEF TickProbe, sequenceVars
  <2>3. Mission!Drive(MissionPhase = "locating")
    BY <2>1, <2>2, MissionDrives DEF Mission!Drive
  <2>4. Mission!Locate
    BY <1>0, <1>1, <2>2, <2>3 DEF Mission!Locate
  <2> QED
    BY <2>4 DEF Mission!Next
<1>6. CASE ProbeLock
  <2>1. Publish(Stop) /\ locked' /\ state \in Probing
    BY <1>6 DEF ProbeLock, AtBoundary
  <2>2. MissionPhase = "locating" /\ MissionPhase' = "steering"
    BY <1>6, <2>1 DEF ProbeLock, Transition
  <2>3. Mission!Steer
    BY <1>0, <1>1, <2>1, <2>2, MissionNeutral DEF Mission!Steer, Mission!FoundOrHeld
  <2> QED
    BY <2>3 DEF Mission!Next
<1>7. CASE TickComplete
  <2>1. Publish(Stop) /\ state \in Guided /\ UNCHANGED locked
    BY <1>7 DEF TickComplete, GuidedTick
  <2>2. MissionPhase = "steering" /\ MissionPhase' = "succeeded" /\ locked
    BY <1>7, <2>1 DEF TickComplete, Transition, GuidedHasLock
  <2>3. Mission!Drive(MissionPhase' = "braking")
    BY <2>1, MissionNeutral DEF Mission!Drive
  <2>4. Mission!Succeed
    BY <1>0, <1>1, <2>1, <2>2, <2>3 DEF Mission!Succeed, Mission!FoundOrHeld
  <2> QED
    BY <2>4 DEF Mission!Next
<1>8. CASE TickAlign \/ TickForward
  <2>1. \E requested : Publish(requested)
    BY <1>8 DEF TickAlign, TickForward
  <2>2. state \in Guided /\ locked /\ UNCHANGED locked
    BY <1>8 DEF TickAlign, TickForward, Steering, GuidedTick
  <2>3. MissionPhase = "steering" /\ MissionPhase' = "steering"
    BY <1>8, <2>2 DEF TickAlign, TickForward, Transition
  <2>4. Mission!Steer
    BY <1>0, <1>1, <2>1, <2>2, <2>3, MissionDrives DEF Mission!Steer, Mission!FoundOrHeld
  <2> QED
    BY <2>4 DEF Mission!Next
<1> QED
  BY <1>2, <1>3, <1>4, <1>5, <1>6, <1>7, <1>8 DEF TickMission

LEMMA MissionStep ==
  ASSUME TypeOK, GuidedHasLock, [Next]_vars
  PROVE  [Mission!Next]_(Mission!vars)
<1>1. CASE Callback
  <2>1. ~halted /\ UNCHANGED <<state, locked, lastCommand, halted>>
    BY <1>1 DEF Callback, OnOdometry, OnDeltaRange, OnDepthPose, OnAudioQuality,
                OnIqMagnitude, OnVehicleState, sequenceVars, sourceVars, outputVars
  <2> QED
    BY <2>1, MissionWatches
<1>2. CASE Passing
  <2>1. ~halted /\ UNCHANGED <<state, locked, lastCommand, halted>>
    BY <1>2 DEF Passing, Expire, RuntimeLapses, ProgressLapses, HoldLapses, ServiceLapses,
                StageLapses, sequenceVars, sourceVars, outputVars
  <2> QED
    BY <2>1, MissionWatches
<1>3. CASE TickMission
  <2>1. ~halted
    BY <1>3 DEF TickMission, TickTimeout, TickBlocked, TickBegin, TickResume, TickProbe,
                ProbeNextLeg, ProbeConfirm, ProbeLock, ProbeRetry, ProbeFail, AtBoundary,
                TickComplete, TickStalled, TickBeyond, TickAlign, TickForward, Steering,
                GuidedTick, TickReady, TickRunning
  <2> QED
    BY <1>3, <2>1, MissionTick
<1>4. CASE TickTerminal \/ TickExit
  <2>1. /\ ~halted /\ state \in Terminal /\ lastCommand' \in Realized(Stop)
        /\ UNCHANGED <<state, locked, inputVars>>
    BY <1>4 DEF TickTerminal, TickExit, Publish, sequenceVars, sourceVars
  <2>2. MissionPhase \in Mission!Ended /\ UNCHANGED MissionPhase
    BY <2>1 DEF MissionPhase, Terminal, Probing, Guided, Mission!Ended
  <2>3. Mission!Drive(FALSE)
    BY <2>1, MissionRests
  <2>4. halted' \in BOOLEAN
    BY <1>4 DEF TickTerminal, TickExit, TypeOK, OutputsOK
  <2>5. UNCHANGED OutputEnabled
    BY <2>1, PermissionKept
  <2>6. Mission!Linger
    BY <2>1, <2>2, <2>3, <2>4, <2>5 DEF Mission!Linger
  <2> QED
    BY <2>1, <2>6 DEF Mission!Next
<1>5. CASE UNCHANGED vars
  BY <1>5 DEF vars, inputVars, sequenceVars, sourceVars, outputVars, MissionPhase,
              OutputEnabled, LiveControlReady, ModeMatches, Driving, Mission!vars
<1> QED
  BY <1>1, <1>2, <1>3, <1>4, <1>5 DEF Next, ControlTick, Exited

\* The odometry mode keeps the promises of a homing mission, for every leg count, range
\* scale and choice of switches.
THEOREM MissionImplemented == Spec => ImplementsMission
<1>1. ASSUME Init PROVE Mission!Init
  <2>1. MissionPhase = "waiting" /\ locked = FALSE /\ halted = FALSE
    BY <1>1 DEF Init, MissionPhase
  <2>2. ~OutputEnabled
    BY <1>1 DEF Init, OutputEnabled, LiveControlReady
  <2>3. ~Driving
    BY <1>1 DEF Init, Driving, Stop
  <2> QED
    BY <2>1, <2>2, <2>3 DEF Mission!Init
<1> QED
  BY <1>1, TypeCorrect, GuidedHasLockAlways, MissionStep, PTL
     DEF Spec, ImplementsMission, Mission!Spec

-----------------------------------------------------------------------------
(* Progress *)

\* A step is a callback, the passing of time, a tick of the mission, a tick after it, or
\* no step; all but the last need the node alive.
LEMMA StepKinds ==
  ASSUME [Next]_vars
  PROVE  \/ Callback \/ Passing \/ TickMission \/ TickTerminal \/ TickExit
         \/ UNCHANGED vars
BY DEF Next, ControlTick, Exited

LEMMA CallbackKeeps ==
  ASSUME Callback
  PROVE  ~halted /\ UNCHANGED <<sequenceVars, timerVars, outputVars>>
BY DEF Callback, OnOdometry, OnDeltaRange, OnDepthPose, OnAudioQuality, OnIqMagnitude,
       OnVehicleState

LEMMA PassingKeeps ==
  ASSUME Passing
  PROVE  /\ ~halted /\ UNCHANGED <<state, attempt, outputVars>>
         /\ stage' = stage \/ (stage < LastStage(state) /\ stage' = stage + 1)
         /\ runtime' = runtime \/ (RuntimeLimited /\ runtime = "running" /\ runtime' = "due")
BY DEF Passing, Expire, RuntimeLapses, ProgressLapses, HoldLapses, ServiceLapses, StageLapses,
       sequenceVars, timerVars

LEMMA MissionTickKeeps ==
  ASSUME TickMission
  PROVE  /\ ~halted /\ state \notin Terminal /\ UNCHANGED <<inputVars, halted>>
         /\ runtime' = runtime \/ (runtime = "off" /\ runtime' = "running")
         /\ RuntimeExceeded => state' = "FAILED_TIMEOUT"
         /\ \E requested \in Command : Publish(requested)
<1>1. CASE TickTimeout
  BY <1>1, CommandsOK DEF TickTimeout, TickRunning, Transition
<1>2. CASE TickBlocked \/ TickBegin \/ TickResume \/ TickProbe
  BY <1>2, CommandsOK DEF TickBlocked, TickBegin, TickResume, TickProbe, TickReady, TickRunning
<1>3. CASE ProbeNextLeg \/ ProbeConfirm \/ ProbeLock \/ ProbeRetry \/ ProbeFail
  BY <1>3, CommandsOK DEF ProbeNextLeg, ProbeConfirm, ProbeLock, ProbeRetry, ProbeFail,
     AtBoundary, TickReady, TickRunning
<1>4. CASE TickComplete \/ TickStalled
  BY <1>4, CommandsOK DEF TickComplete, TickStalled, GuidedTick, TickReady, TickRunning
<1>5. CASE TickBeyond \/ TickAlign \/ TickForward
  BY <1>5, CommandsOK DEF TickBeyond, TickAlign, TickForward, Steering, GuidedTick,
     TickReady, TickRunning
<1> QED
  BY <1>1, <1>2, <1>3, <1>4, <1>5 DEF TickMission

\* A budget is spent only where there is one; a node that has left has released the channels
\* at the end of its mission.
BudgetAndExit ==
  /\ runtime = "due" => RuntimeLimited
  /\ halted => state \in Terminal /\ rc = "release"

LEMMA BudgetAndExitAlways == Spec => []BudgetAndExit
<1>1. Init => BudgetAndExit
  BY DEF Init, BudgetAndExit
<1>2. ASSUME BudgetAndExit, [Next]_vars
      PROVE  BudgetAndExit'
  <2> USE <1>2 DEF BudgetAndExit
  <2>1. CASE Callback
    BY <2>1, CallbackKeeps DEF sequenceVars, timerVars, outputVars
  <2>2. CASE Passing
    BY <2>2, PassingKeeps DEF outputVars
  <2>3. CASE TickMission
    BY <2>3, MissionTickKeeps
  <2>4. CASE TickTerminal \/ TickExit \/ UNCHANGED vars
    BY <2>4 DEF TickTerminal, TickExit, vars, sequenceVars, timerVars, outputVars
  <2> QED BY <2>1, <2>2, <2>3, <2>4, StepKinds
<1> QED BY <1>1, <1>2, PTL DEF Spec

\* A spent budget ends the mission, whatever the messages do, if a tick has an outcome.
THEOREM MissionEndsFair == FairSpec /\ []TickAnswers => MissionEnds
<1> DEFINE P == runtime = "due" /\ state \notin Terminal
           Q == state \in Terminal
<1>1. ASSUME P, [Next]_vars
      PROVE  (P \/ Q)'
  <2>1. CASE Callback
    BY <1>1, <2>1, CallbackKeeps DEF sequenceVars, timerVars
  <2>2. CASE Passing
    BY <1>1, <2>2, PassingKeeps
  <2>3. CASE TickMission
    BY <1>1, <2>3, MissionTickKeeps
  <2>4. CASE TickTerminal \/ TickExit \/ UNCHANGED vars
    BY <1>1, <2>4 DEF TickTerminal, TickExit, vars, sequenceVars, timerVars
  <2> QED BY <1>1, <2>1, <2>2, <2>3, <2>4, StepKinds
<1>2. ASSUME P, BudgetAndExit, <<ControlTick>>_vars
      PROVE  Q'
  <2>1. TickMission /\ RuntimeExceeded
    BY <1>2 DEF ControlTick, TickTerminal, TickExit, BudgetAndExit, RuntimeExceeded
  <2> QED BY <2>1, MissionTickKeeps DEF Terminal
<1>3. P /\ BudgetAndExit /\ TickAnswers => ENABLED <<ControlTick>>_vars
  BY DEF BudgetAndExit, TickAnswers, AwaitsTick, RuntimeExceeded
<1>4. P \/ Q <=> (runtime = "due" \/ Q)
  OBVIOUS
<1> QED
  BY <1>1, <1>2, <1>3, <1>4, BudgetAndExitAlways, PTL DEF FairSpec, Fairness, Spec, MissionEnds

\* The mission is over and the exit delay has come so far.
Over(point) == state \in Terminal /\ ~halted /\ stage = point

LEMMA OverKept ==
  ASSUME TypeOK, NEW point, Over(point), [Next]_vars
  PROVE  \/ state' \in Terminal /\ (halted' \/ stage' = stage)
         \/ Over(ExitDue)'
<1> USE DEF Over
<1>1. CASE Callback
  BY <1>1, CallbackKeeps DEF sequenceVars
<1>2. CASE Passing
  <2>1. stage \in 1..2 /\ LastStage(state) = 2
    BY DEF TypeOK, SequenceOK, LastStage, ExitDue, Terminal, Probing
  <2> QED BY <1>2, <2>1, PassingKeeps DEF outputVars, ExitDue
<1>3. CASE TickMission
  BY <1>3, MissionTickKeeps
<1>4. CASE TickTerminal \/ TickExit \/ UNCHANGED vars
  BY <1>4 DEF TickTerminal, TickExit, vars, sequenceVars
<1> QED BY <1>1, <1>2, <1>3, <1>4, StepKinds

\* A node that is to end with its mission does so with its channels released, if the clock
\* passes the exit delay and a tick has an outcome.
THEOREM ExitReleasesFair ==
  ASSUME ExitOnTerminal
  PROVE  FairSpec /\ []TickAnswers /\ []StagePasses => ExitReleases
<1> DEFINE Q == halted /\ rc = "release"
<1>1. TypeOK /\ BudgetAndExit /\ state \in Terminal => Over(1) \/ Over(2) \/ Q
  <2>1. TypeOK /\ state \in Terminal => stage \in 1..2
    BY DEF TypeOK, SequenceOK, LastStage, ExitDue, Terminal, Probing
  <2> QED BY <2>1 DEF BudgetAndExit, Over
<1>2. ASSUME TypeOK, BudgetAndExit', Over(1), [Next]_vars
      PROVE  (Over(1) \/ Over(2) \/ Q)'
  BY <1>2, OverKept DEF Over, ExitDue, BudgetAndExit
<1>3. ASSUME Over(1), <<StageLapses>>_vars
      PROVE  Over(2)'
  BY <1>3 DEF Over, StageLapses, outputVars
<1>4. Over(1) /\ StagePasses => ENABLED <<StageLapses>>_vars
  BY DEF Over, StagePasses, LastStage, ExitDue, Terminal, Probing
<1>5. ASSUME TypeOK, BudgetAndExit', Over(2), [Next]_vars
      PROVE  (Over(2) \/ Q)'
  BY <1>5, OverKept DEF Over, ExitDue, BudgetAndExit
<1>6. ASSUME Over(2), <<ControlTick>>_vars
      PROVE  Q'
  <2>1. TickExit
    BY <1>6, MissionTickKeeps DEF ControlTick, Over, TickTerminal, ShutdownDue, ExitDue
  <2> QED BY <2>1 DEF TickExit
<1>7. Over(2) /\ TickAnswers => ENABLED <<ControlTick>>_vars
  BY DEF Over, TickAnswers, AwaitsTick, ShutdownDue, ExitDue
<1> QED
  BY <1>1, <1>2, <1>3, <1>4, <1>5, <1>6, <1>7, TypeCorrect, BudgetAndExitAlways, PTL
     DEF FairSpec, Fairness, Spec, ExitReleases

\* A motion does not outlive the permission to send it, if a tick has an outcome: the next
\* one is neutral, whatever state the mission is in.
THEOREM MotionRevokedFair == FairSpec /\ []TickAnswers => MotionRevoked
<1> DEFINE P == rc = "pwm" /\ lastCommand # Stop /\ ~LiveControlReady
<1>1. ASSUME P, <<ControlTick>>_vars
      PROVE  (lastCommand = Stop)'
  <2>1. \A requested : Realized(requested) = {Stop}
    BY <1>1 DEF Realized, OutputEnabled
  <2>2. CASE TickMission
    BY <2>1, <2>2, MissionTickKeeps DEF Publish
  <2>3. CASE TickTerminal \/ TickExit
    BY <2>1, <2>3 DEF TickTerminal, TickExit, Publish
  <2> QED BY <1>1, <2>2, <2>3 DEF ControlTick
<1>2. P /\ BudgetAndExit /\ TickAnswers => ENABLED <<ControlTick>>_vars
  BY DEF BudgetAndExit, TickAnswers, AwaitsTick
<1>3. ~P <=> (rc # "pwm" \/ lastCommand = Stop \/ LiveControlReady)
  OBVIOUS
<1>4. lastCommand = Stop => ~P
  OBVIOUS
<1> QED
  BY <1>1, <1>2, <1>3, <1>4, BudgetAndExitAlways, PTL
     DEF FairSpec, Fairness, Spec, MotionRevoked

-----------------------------------------------------------------------------
(* Localization decides: the attempts and the points of a timeline only go up *)

\* An attempt is at some point of its timeline.
Leg(number, point) == state \in Probing /\ attempt = number /\ stage = point

\* A tick within the timeline leaves the attempt where it is or leaves localization; the
\* tick that ends it leaves or begins the next attempt, on a new timeline or, when it asks
\* for the leg it has just driven, at the end of the old one.
LEMMA ProbeTick ==
  ASSUME TypeOK, TypeOK', TickMission, NEW number \in 0..MaxAttempt, NEW point \in 1..ProbeDone,
         Leg(number, point)
  PROVE  IF point < ProbeDone THEN state' \notin Probing \/ Leg(number, point)'
         ELSE \/ state' \notin Probing
              \/ number < MaxAttempt
                   /\ (Leg(number + 1, 1)' \/ Leg(number + 1, ProbeDone)')
<1> USE DEF Leg
<1>1. CASE TickTimeout \/ TickBlocked
  BY <1>1 DEF TickTimeout, TickBlocked, Transition, Probing
<1>2. CASE TickProbe
  BY <1>2 DEF TickProbe, sequenceVars, ProbeDone
<1>3. CASE ProbeLock \/ ProbeFail
  <2>1. state' \notin Probing
    BY <1>3 DEF ProbeLock, ProbeFail, Transition, Probing
  <2>2. stage = ProbeDone
    BY <1>3 DEF ProbeLock, ProbeFail, AtBoundary
  <2> QED BY <2>1, <2>2 DEF ProbeDone
<1>4. CASE ProbeNextLeg \/ ProbeRetry \/ ProbeConfirm
  <2>1. point = ProbeDone /\ attempt' = attempt + 1
    BY <1>4 DEF ProbeNextLeg, ProbeRetry, ProbeConfirm, NextLeg, AtBoundary
  <2>2. number \in Int /\ attempt' \in 0..MaxAttempt
    BY DEF TypeOK, SequenceOK, MaxAttempt
  <2>3. number + 1 = attempt' /\ number < MaxAttempt
    BY <2>1, <2>2 DEF MaxAttempt
  <2>4. state' \in Probing /\ stage' \in {1, ProbeDone}
    BY <1>4, <2>1 DEF ProbeNextLeg, ProbeRetry, ProbeConfirm, NextLeg, Mirrored, Transition,
       Probing
  <2> QED BY <2>1, <2>3, <2>4 DEF ProbeDone
<1>5. CASE TickBegin \/ TickResume
  BY <1>5 DEF TickBegin, TickResume, Probing
<1>6. CASE TickComplete \/ TickStalled \/ TickBeyond \/ TickAlign \/ TickForward
  BY <1>6 DEF TickComplete, TickStalled, TickBeyond, TickAlign, TickForward, Steering,
     GuidedTick, Guided, Probing
<1> QED BY <1>1, <1>2, <1>3, <1>4, <1>5, <1>6 DEF TickMission

\* Whatever else happens, an attempt stays where it is, passes a point or is left.
LEMMA LegKept ==
  ASSUME TypeOK, TypeOK', [Next]_vars, NEW number \in 0..MaxAttempt, NEW point \in 1..ProbeDone,
         Leg(number, point)
  PROVE  \/ Leg(number, point)' \/ state' \notin Probing
         \/ point < ProbeDone /\ Leg(number, point + 1)'
         \/ point = ProbeDone /\ number < MaxAttempt
              /\ (Leg(number + 1, 1)' \/ Leg(number + 1, ProbeDone)')
<1>1. CASE Callback
  BY <1>1, CallbackKeeps DEF Leg, sequenceVars
<1>2. CASE Passing
  <2>1. LastStage(state) = ProbeDone
    BY DEF Leg, LastStage
  <2> QED BY <1>2, <2>1, PassingKeeps DEF Leg
<1>3. CASE TickMission
  BY <1>3, ProbeTick DEF ProbeDone
<1>4. CASE TickTerminal \/ TickExit \/ UNCHANGED vars
  BY <1>4 DEF Leg, TickTerminal, TickExit, vars, sequenceVars
<1> QED BY <1>1, <1>2, <1>3, <1>4, StepKinds

\* The clock passes a point of an attempt.
PointPasses(number, point, next) ==
  FairSpec /\ []StagePasses =>
    (Leg(number, point) ~> (state \notin Probing \/ Leg(number, next)))

LEMMA LegPasses ==
  ASSUME NEW number \in 0..MaxAttempt, NEW point \in 1..ProbeDone, point < ProbeDone,
         NEW next, next = point + 1
  PROVE  PointPasses(number, point, next)
<1>1. ASSUME TypeOK, TypeOK', Leg(number, point), [Next]_vars
      PROVE  (Leg(number, point) \/ state \notin Probing \/ Leg(number, next))'
  BY <1>1, LegKept
<1>2. ASSUME Leg(number, point), <<StageLapses>>_vars
      PROVE  Leg(number, next)'
  BY <1>2 DEF Leg, StageLapses
<1>3. Leg(number, point) /\ BudgetAndExit /\ StagePasses => ENABLED <<StageLapses>>_vars
  BY DEF Leg, BudgetAndExit, StagePasses, LastStage, Terminal, Probing
<1> QED
  BY <1>1, <1>2, <1>3, TypeCorrect, BudgetAndExitAlways, PTL
     DEF FairSpec, Fairness, Spec, PointPasses

Attempt(number) == state \in Probing /\ attempt = number

\* The tick that finds the timeline complete ends the attempt.
TimelineEnds(number, next) ==
  FairSpec /\ []TickAnswers =>
    (Leg(number, ProbeDone) ~> (state \notin Probing \/ Attempt(next)))

LEMMA LegEnds ==
  ASSUME NEW number \in 0..MaxAttempt, NEW next, next = number + 1
  PROVE  TimelineEnds(number, next)
<1>0. ProbeDone \in 1..ProbeDone /\ ~(ProbeDone < ProbeDone)
  BY DEF ProbeDone
<1>1. ASSUME TypeOK, TypeOK', Leg(number, ProbeDone), [Next]_vars
      PROVE  (Leg(number, ProbeDone) \/ state \notin Probing \/ Attempt(next))'
  <2>1. \/ Leg(number, ProbeDone)' \/ state' \notin Probing
        \/ Leg(number + 1, 1)' \/ Leg(number + 1, ProbeDone)'
    BY <1>0, <1>1, LegKept
  <2> QED BY <2>1 DEF Leg, Attempt
<1>2. ASSUME TypeOK, TypeOK', Leg(number, ProbeDone), <<ControlTick>>_vars
      PROVE  (state \notin Probing \/ Attempt(next))'
  <2>1. TickMission
    BY <1>2 DEF ControlTick, TickTerminal, TickExit, Leg, Terminal, Probing
  <2>2. state' \notin Probing \/ Leg(number + 1, 1)' \/ Leg(number + 1, ProbeDone)'
    BY <1>0, <1>2, <2>1, ProbeTick
  <2> QED BY <2>2 DEF Leg, Attempt
<1>3. Leg(number, ProbeDone) /\ BudgetAndExit /\ TickAnswers => ENABLED <<ControlTick>>_vars
  BY DEF Leg, BudgetAndExit, TickAnswers, AwaitsTick, Terminal, Probing
<1> QED
  BY <1>1, <1>2, <1>3, TypeCorrect, BudgetAndExitAlways, PTL
     DEF FairSpec, Fairness, Spec, TimelineEnds

\* An attempt comes to its end, from any of the eight points of its timeline.
AttemptGoesOn(number, next) ==
  FairSpec /\ []TickAnswers /\ []StagePasses =>
    (Attempt(number) ~> (state \notin Probing \/ Attempt(next)))

LEMMA AttemptEnds ==
  ASSUME NEW number \in 0..MaxAttempt, NEW next, next = number + 1
  PROVE  AttemptGoesOn(number, next)
<1> DEFINE At(point) == Leg(number, point)
<1>1. TypeOK /\ Attempt(number) =>
        At(1) \/ At(2) \/ At(3) \/ At(4) \/ At(5) \/ At(6) \/ At(7) \/ At(8)
  <2>1. TypeOK /\ Attempt(number) => stage \in 1..8
    BY DEF TypeOK, SequenceOK, Attempt, LastStage, ProbeDone
  <2> QED BY <2>1 DEF Attempt, Leg
<1>2. \A point \in 1..7 : PointPasses(number, point, point + 1)
  <2> SUFFICES ASSUME NEW point \in 1..7 PROVE PointPasses(number, point, point + 1)
    OBVIOUS
  <2>1. point \in 1..ProbeDone /\ point < ProbeDone
    BY DEF ProbeDone
  <2> QED BY <2>1, LegPasses
<1>3. /\ PointPasses(number, 1, 2) /\ PointPasses(number, 2, 3) /\ PointPasses(number, 3, 4)
      /\ PointPasses(number, 4, 5) /\ PointPasses(number, 5, 6) /\ PointPasses(number, 6, 7)
      /\ PointPasses(number, 7, 8)
  BY <1>2
<1>4. TimelineEnds(number, next)
  BY LegEnds
<1>5. Leg(number, ProbeDone) <=> At(8)
  BY DEF ProbeDone
<1> QED
  BY <1>1, <1>3, <1>4, <1>5, TypeCorrect, PTL
     DEF PointPasses, TimelineEnds, AttemptGoesOn, FairSpec

\* Localization reaches a decision, whatever the fits say and without any budget: there are
\* four attempts of eight points, and none is come to twice.
THEOREM LocalizationDecidesFair ==
  FairSpec /\ []TickAnswers /\ []StagePasses => LocalizationDecides
<1>1. AttemptGoesOn(0, 1) /\ AttemptGoesOn(1, 2) /\ AttemptGoesOn(2, 3) /\ AttemptGoesOn(3, 4)
  <2>1. 0 \in 0..MaxAttempt /\ 1 \in 0..MaxAttempt /\ 2 \in 0..MaxAttempt /\ 3 \in 0..MaxAttempt
    BY DEF MaxAttempt
  <2>2. 1 = 0 + 1 /\ 2 = 1 + 1 /\ 3 = 2 + 1 /\ 4 = 3 + 1
    OBVIOUS
  <2> QED BY <2>1, <2>2, AttemptEnds
<1>2. TypeOK => ~Attempt(4)
  BY DEF TypeOK, SequenceOK, MaxAttempt, Attempt
<1>3. TypeOK /\ state \in Probing => Attempt(0) \/ Attempt(1) \/ Attempt(2) \/ Attempt(3)
  BY DEF TypeOK, SequenceOK, MaxAttempt, Attempt
<1> QED
  BY <1>1, <1>2, <1>3, TypeCorrect, PTL DEF AttemptGoesOn, FairSpec, LocalizationDecides

-----------------------------------------------------------------------------
(* The mission starts and resumes *)

\* Once the vehicle and the inputs are there and stay, no mission waits for them any longer.
ReadyMissionRuns == <>[]Ready => <>[](state # "WAIT_VEHICLE")

\* Only a tick that finds the mission not ready sends it to WAIT_VEHICLE.
LEMMA TickLeavesWaiting ==
  ASSUME TickMission, Ready
  PROVE  state' # "WAIT_VEHICLE"
<1>1. CASE TickTimeout \/ TickBlocked \/ TickBegin \/ TickResume \/ TickProbe
  BY <1>1 DEF TickTimeout, TickBlocked, TickBegin, TickResume, TickProbe, Transition,
              sequenceVars, Probing
<1>2. CASE ProbeNextLeg \/ ProbeConfirm \/ ProbeLock \/ ProbeRetry \/ ProbeFail
  BY <1>2 DEF ProbeNextLeg, ProbeConfirm, ProbeLock, ProbeRetry, ProbeFail, NextLeg, Mirrored,
              Transition, Probing
<1>3. CASE TickComplete \/ TickStalled \/ TickBeyond \/ TickAlign \/ TickForward
  BY <1>3 DEF TickComplete, TickStalled, TickBeyond, TickAlign, TickForward, Transition
<1> QED BY <1>1, <1>2, <1>3 DEF TickMission

\* A mission that has what it needs leaves WAIT_VEHICLE, at its start and after any number of
\* outages, and does not come back, if a tick has an outcome.
THEOREM ReadyMissionRunsFair == FairSpec /\ []TickAnswers => ReadyMissionRuns
<1> DEFINE Waiting == state = "WAIT_VEHICLE"
<1>1. ASSUME Ready, ~Waiting, [Next]_vars
      PROVE  (~Waiting)'
  <2>1. CASE Callback
    BY <1>1, <2>1, CallbackKeeps DEF sequenceVars
  <2>2. CASE Passing
    BY <1>1, <2>2, PassingKeeps
  <2>3. CASE TickMission
    BY <1>1, <2>3, TickLeavesWaiting
  <2>4. CASE TickTerminal \/ TickExit \/ UNCHANGED vars
    BY <1>1, <2>4 DEF TickTerminal, TickExit, vars, sequenceVars
  <2> QED BY <1>1, <2>1, <2>2, <2>3, <2>4, StepKinds
<1>2. ASSUME Waiting, Ready, <<ControlTick>>_vars
      PROVE  (~Waiting)'
  <2>1. TickMission
    BY <1>2 DEF ControlTick, TickTerminal, TickExit, Terminal
  <2> QED BY <1>2, <2>1, TickLeavesWaiting
<1>3. Waiting /\ Ready /\ BudgetAndExit /\ TickAnswers => ENABLED <<ControlTick>>_vars
  BY DEF BudgetAndExit, TickAnswers, AwaitsTick, Terminal
<1>4. ~Waiting <=> state # "WAIT_VEHICLE"
  OBVIOUS
<1> HIDE DEF Waiting
<1> QED
  BY <1>1, <1>2, <1>3, <1>4, BudgetAndExitAlways, PTL
     DEF FairSpec, Fairness, Spec, ReadyMissionRuns

-----------------------------------------------------------------------------
(* How far the documentation holds: it says more of the program than its     *)
(* doc_ properties find true.                                                *)

\* README.md's "heartbeat alone never authorizes an approach" is true of a node that
\* does not bootstrap on the heartbeat: there every start of a forward command rests
\* on a fresh Phase delta.
THEOREM DriveOnDeltas ==
  ASSUME ~BootstrapOnQuality
  PROVE  Spec => DriveNeedsPhaseDelta
<1>1. ASSUME [Next]_vars, lastCommand.forward = 0, lastCommand'.forward = 1, state' \in Guided
      PROVE  fresh["delta"]
  <2>1. ~Callback /\ ~Passing /\ ~Exited /\ ~UNCHANGED vars
    BY <1>1 DEF Callback, OnOdometry, OnDeltaRange, OnDepthPose, OnAudioQuality, OnIqMagnitude,
      OnVehicleState, Passing, Expire, RuntimeLapses, ProgressLapses, HoldLapses,
      ServiceLapses, StageLapses, Exited, vars, outputVars
  <2>2. ~TickTimeout /\ ~TickBlocked
    BY <1>1 DEF TickTimeout, TickBlocked, Transition, Guided
  <2>3. ~TickTerminal /\ ~TickExit
    BY <1>1 DEF TickTerminal, TickExit, sequenceVars, Terminal, Guided
  <2>4. TickReady
    BY <1>1, <2>1, <2>2, <2>3
       DEF Next, ControlTick, TickMission, TickBegin, TickResume, TickProbe, ProbeNextLeg,
           ProbeConfirm, ProbeLock, ProbeRetry, ProbeFail, AtBoundary, TickComplete,
           TickStalled, TickBeyond, TickAlign, TickForward, Steering, GuidedTick
  <2> QED
    BY <2>4 DEF TickReady, Ready, AudioReadyForProbe
<1>2. [Next]_vars =>
        [lastCommand.forward = 0 /\ lastCommand'.forward = 1 /\ state' \in Guided
           => fresh["delta"]]_vars
  BY <1>1
<1> QED
  BY <1>2, PTL DEF Spec, DriveNeedsPhaseDelta

\* At the end of a probe leg a leg was driven since the latest outage; and, as long as
\* nothing is locked, a mirrored leg was asked for by an attempt before it and ends any
\* confirmation it was meant for.
ResumedDriven == state \in Probing /\ stage = ProbeDone => resumedLegs >= 1
ConfirmationDue ==
  ~locked =>
    /\ state = "REPROBE" => attempt >= 1
    /\ state \in Probing /\ stage = ProbeDone => ~confirming

\* The steps of the probe sequence as far as both are concerned.
LEMMA ProbeSteps ==
  ASSUME TypeOK, GuidedHasLock, [Next]_vars
  PROVE  \/ UNCHANGED <<state, stage, attempt, resumedLegs, confirming, locked>>
         \/ StageLapses
         \/ state' \notin Probing
         \/ state' = "PROBE" /\ stage' = 1
         \/ state' = "REPROBE" /\ stage' = 1 /\ attempt' = attempt + 1 /\ locked' = locked
         \/ state' = "REPROBE" /\ stage' = 1 /\ locked' /\ attempt' = attempt
         \/ state' = "REPROBE" /\ stage' = 1 /\ range # 0
         \/ ProbeConfirm /\ state = "REPROBE"
<1>1. CASE Callback
  BY <1>1 DEF Callback, OnOdometry, OnDeltaRange, OnDepthPose, OnAudioQuality, OnIqMagnitude,
    OnVehicleState, sequenceVars, sourceVars, historyVars
<1>2. CASE Passing
  BY <1>2 DEF Passing, Expire, RuntimeLapses, ProgressLapses, HoldLapses,
        ServiceLapses, sequenceVars, sourceVars, historyVars
<1>3. CASE TickTimeout \/ TickBlocked \/ TickBegin \/ TickResume
  BY <1>3 DEF TickTimeout, TickBlocked, TickBegin, TickResume, Transition, Probing
<1>4. CASE TickProbe \/ TickTerminal \/ TickExit \/ UNCHANGED vars
  BY <1>4 DEF TickProbe, TickTerminal, TickExit, vars, sequenceVars, sourceVars, historyVars
<1>5. CASE ProbeNextLeg \/ ProbeRetry
  <2>1. state \in Probing /\ attempt' = attempt + 1 /\ locked' = locked
    BY <1>5 DEF ProbeNextLeg, ProbeRetry, AtBoundary, NextLeg
  <2>2. state' \in Probing /\ stage' = 1
    BY <1>5, <2>1 DEF ProbeNextLeg, ProbeRetry, NextLeg, Mirrored, Transition, Probing
  <2> QED
    BY <2>1, <2>2 DEF Probing
<1>6. CASE ProbeConfirm
  <2>1. state \in Probing /\ attempt' = attempt + 1 /\ locked' = locked
    BY <1>6 DEF ProbeConfirm, AtBoundary
  <2>2. state = "PROBE" => state' = "REPROBE" /\ stage' = 1
    BY <1>6 DEF ProbeConfirm, Transition
  <2> QED
    BY <1>6, <2>1, <2>2 DEF Probing
<1>7. CASE ProbeLock \/ ProbeFail \/ TickComplete \/ TickAlign \/ TickForward
  BY <1>7 DEF ProbeLock, ProbeFail, TickComplete, TickAlign, TickForward, Transition,
              Probing
<1>8. CASE TickStalled
  <2>1. range # 0 /\ state \in Guided
    BY <1>8 DEF TickStalled, RangeStalled, GuidedTick
  <2> QED
    BY <1>8, <2>1 DEF TickStalled, Transition, Guided
<1>9. CASE TickBeyond
  <2>1. attempt' = attempt /\ locked' = locked /\ locked /\ state \in Guided
    BY <1>9 DEF TickBeyond, Steering, GuidedTick
  <2> QED
    BY <1>9, <2>1 DEF TickBeyond, Transition, Guided
<1> QED
  BY <1>1, <1>2, <1>3, <1>4, <1>5, <1>6, <1>7, <1>8, <1>9
     DEF Next, ControlTick, TickMission, Exited

\* A leg that ends is counted and confirms.
LEMMA LegCloses ==
  ASSUME TypeOK, StageLapses
  PROVE  /\ UNCHANGED <<state, attempt, locked>> /\ stage' = stage + 1
         /\ state \in Probing /\ stage' = ProbeDone => resumedLegs' >= 1 /\ ~confirming'
         /\ ~(state \in Probing /\ stage' = ProbeDone) => UNCHANGED <<resumedLegs, confirming>>
<1>1. resumedLegs \in 0..MinimumLegs
  BY DEF TypeOK, HistoryOK
<1>2. OneMore(resumedLegs) >= 1
  BY <1>1, OneMoreOK
<1> QED
  BY <1>2 DEF StageLapses, sourceVars

LEMMA ResumedNext ==
  ASSUME TypeOK, GuidedHasLock, ResumedDriven, [Next]_vars
  PROVE  ResumedDriven'
<1> USE DEF ResumedDriven
<1>0. ProbeDone = 8
  BY DEF ProbeDone
<1>1. CASE StageLapses
  BY <1>0, <1>1, LegCloses
<1>2. CASE ProbeConfirm /\ state = "REPROBE"
  <2>1. state \in Probing /\ stage = ProbeDone /\ resumedLegs' = resumedLegs
    BY <1>2 DEF ProbeConfirm, AtBoundary
  <2> QED
    BY <2>1
<1>3. CASE UNCHANGED <<state, stage, attempt, resumedLegs, confirming, locked>>
  BY <1>3
<1>4. CASE state' \notin Probing \/ stage' = 1
  BY <1>0, <1>4
<1> QED
  BY <1>1, <1>2, <1>3, <1>4, ProbeSteps

\* What is true of the fresh probe sequence after an outage, whatever number of legs is
\* asked for: a whole leg at least is driven after it before the vehicle is steered.
ResumedLegDriven ==
  [][(state \in Probing /\ state' \in Guided) => resumedLegs >= 1]_vars

\* Only one step leads from a probe leg to the steering.
LEMMA ProbeToGuided ==
  ASSUME [Next]_vars, state \in Probing, state' \in Guided
  PROVE  stage = ProbeDone
<1>1. ~Callback /\ ~Passing /\ ~Exited /\ ~UNCHANGED vars
  BY DEF Callback, OnOdometry, OnDeltaRange, OnDepthPose, OnAudioQuality, OnIqMagnitude,
    OnVehicleState, Passing, Expire, RuntimeLapses, ProgressLapses, HoldLapses,
    ServiceLapses, StageLapses, Exited, vars, sequenceVars, Probing, Guided
<1>2. ~TickTimeout /\ ~TickBlocked /\ ~TickBegin /\ ~TickResume /\ ~TickProbe
      /\ ~TickTerminal /\ ~TickExit
  BY DEF TickTimeout, TickBlocked, TickBegin, TickResume, TickProbe, TickTerminal, TickExit,
         Transition, sequenceVars, Probing, Guided, Terminal
<1>3. ~TickComplete /\ ~TickStalled /\ ~TickBeyond /\ ~TickAlign /\ ~TickForward
  BY DEF TickComplete, TickStalled, TickBeyond, TickAlign, TickForward, Steering, GuidedTick,
         Probing, Guided
<1> QED
  BY <1>1, <1>2, <1>3
     DEF Next, ControlTick, TickMission, ProbeNextLeg, ProbeConfirm, ProbeLock, ProbeRetry,
         ProbeFail, AtBoundary

LEMMA ResumedAlways == Spec => []ResumedDriven
<1>1. Init => ResumedDriven
  BY DEF Init, ResumedDriven, Probing
<1> QED
  BY <1>1, TypeCorrect, GuidedHasLockAlways, ResumedNext, PTL DEF Spec

\* The code falls short of the comment of control_tick only in the number: after an
\* outage at least one of the configured legs is driven anew, so with one leg asked for
\* the comment is right.
THEOREM ResumedProbeDrivesALeg ==
  Spec => /\ ResumedLegDriven
          /\ MinimumLegs = 1 => ResumedProbeHonoursLegs
<1>1. ResumedDriven /\ [Next]_vars =>
        [(state \in Probing /\ state' \in Guided) => resumedLegs >= 1]_vars
  BY ProbeToGuided DEF ResumedDriven
<1>2. Spec => ResumedLegDriven
  BY <1>1, ResumedAlways, PTL DEF Spec, ResumedLegDriven
<1>3. CASE MinimumLegs = 1
  <2>1. ResumedDriven /\ [Next]_vars =>
          [(state \in Probing /\ state' \in Guided) => resumedLegs >= MinimumLegs]_vars
    BY <1>3, ProbeToGuided DEF ResumedDriven
  <2>2. Spec => ResumedProbeHonoursLegs
    BY <2>1, ResumedAlways, PTL DEF Spec, ResumedProbeHonoursLegs
  <2> QED
    BY <1>2, <2>2
<1> QED
  BY <1>2, <1>3

LEMMA ConfirmationNext ==
  ASSUME MaxRange = 0, TypeOK, GuidedHasLock, ConfirmationDue, [Next]_vars
  PROVE  ConfirmationDue'
<1> USE DEF ConfirmationDue
<1>0. ProbeDone = 8 /\ attempt \in Nat /\ range = 0
  <2>1. ProbeDone = 8 /\ attempt \in 0..3
    BY DEF ProbeDone, TypeOK, SequenceOK, MaxAttempt
  <2>2. range \in 0..MaxRange
    BY DEF TypeOK, InputsOK
  <2> QED
    BY <2>1, <2>2
<1>1. CASE StageLapses
  BY <1>0, <1>1, LegCloses
<1>2. CASE ProbeConfirm /\ state = "REPROBE"
  <2>1. attempt = 0 /\ locked' = locked
    BY <1>2 DEF ProbeConfirm, FirstFitNeedsConfirmation
  <2> QED
    BY <1>2, <2>1
<1>3. CASE UNCHANGED <<state, stage, attempt, resumedLegs, confirming, locked>>
  BY <1>3
<1>4. CASE state' \notin Probing
  BY <1>0, <1>4 DEF Probing
<1>5. CASE state' = "PROBE" /\ stage' = 1
  BY <1>0, <1>5
<1>6. CASE state' = "REPROBE" /\ stage' = 1 /\ attempt' = attempt + 1 /\ locked' = locked
  BY <1>0, <1>6
<1>7. CASE state' = "REPROBE" /\ stage' = 1 /\ locked' /\ attempt' = attempt
  BY <1>7
<1> QED
  BY <1>0, <1>1, <1>2, <1>3, <1>4, <1>5, <1>6, <1>7, ProbeSteps

\* The comment of probe_command is right of a mission without amplitude ranges, the
\* one it is written for: a near first fit is confirmed by the mirrored leg it asks for
\* before anything is locked.  It fails where a stalled range starts over in REPROBE.
THEOREM UncalibratedConfirms ==
  ASSUME MaxRange = 0
  PROVE  Spec => NearFitConfirmed
<1>1. ConfirmationDue /\ [Next]_vars => [~locked /\ locked' => ~confirming]_vars
  BY LockStep DEF ConfirmationDue, ProbeLock, AtBoundary
<1>2. Init => ConfirmationDue
  BY DEF Init, ConfirmationDue, Probing
<1>3. TypeOK /\ GuidedHasLock /\ ConfirmationDue /\ [Next]_vars => ConfirmationDue'
  BY ConfirmationNext
<1> QED
  BY <1>1, <1>2, <1>3, TypeCorrect, GuidedHasLockAlways, PTL DEF Spec, NearFitConfirmed

=============================================================================
