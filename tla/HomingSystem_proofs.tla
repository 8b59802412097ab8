------------------------- MODULE HomingSystem_proofs -------------------------
(***************************************************************************)
(* Proofs about the node together with its vehicle, for every number of    *)
(* pilot moves, every set of flight modes and every choice of switches.    *)
(* What the node does on its own is taken from NoOdomHoming_proofs.        *)
(***************************************************************************)
EXTENDS HomingSystem, NoOdomHoming_proofs, FiniteSetTheorems

-----------------------------------------------------------------------------
(* The node in its system *)

\* A step of the system, as the node sees it: a step of its own, a sample taken from
\* the vehicle, the end of a call, or nothing.
LEMMA NodeSees ==
  ASSUME SystemTypeOK, [SystemNext]_systemVars
  PROVE  \/ [Next]_vars
         \/ \E isArmed \in BOOLEAN, actual \in Modes : OnVehicleState(TRUE, isArmed, actual)
         \/ /\ UNCHANGED nodeAside
            /\ \E request \in requests : requests' = requests \ {request}
<1>1. CASE NodeTick
  BY <1>1 DEF NodeTick, Next
<1>2. CASE NodeHears
  BY <1>2 DEF NodeHears, Next, Callback
<1>3. CASE Deliver
  BY <1>3 DEF Deliver, SystemTypeOK
<1>4. CASE SetMode \/ Arm
  BY <1>4 DEF SetMode, Arm
<1>5. CASE Sample \/ PilotActs \/ UNCHANGED systemVars
  BY <1>5 DEF Sample, PilotActs, systemVars, nodeVars
<1> QED
  BY <1>1, <1>2, <1>3, <1>4, <1>5 DEF SystemNext

\* What the end of a call leaves alone.
LEMMA CallEnds ==
  ASSUME UNCHANGED nodeAside
  PROVE  /\ UNCHANGED <<linkInputs, sensedVars, sequence, runtime, bearingVars, probeVars>>
         /\ UNCHANGED <<gateVars, holdVars, service, lastCommand, rc, halted>>
         /\ UNCHANGED <<fresh, connected, armed, mode, state, confirmed>>
BY DEF nodeAside, linkInputs, sequence, bearingVars

LEMMA NodeTypeNext ==
  ASSUME TypeOK, BearingCounted, SystemTypeOK, [SystemNext]_systemVars
  PROVE  TypeOK' /\ BearingCounted'
<1>1. CASE [Next]_vars
  BY <1>1, CorrectNext
<1>2. ASSUME NEW isArmed \in BOOLEAN, NEW actual \in Modes,
             OnVehicleState(TRUE, isArmed, actual)
      PROVE  TypeOK' /\ BearingCounted'
  <2>1. InputsOK'
    BY <1>2 DEF OnVehicleState, TypeOK, InputsOK, Inputs, sensedVars
  <2>2. UNCHANGED <<sequence, runtime, bearingVars, probeVars, gateVars, holdVars,
                    service, output>>
    BY <1>2 DEF OnVehicleState
  <2>3. TypeOK'
    BY TypeKept, <2>1, <2>2 DEF TypeOK, probeVars, holdVars, gateVars, bearingVars
  <2>4. BearingCounted'
    BY <2>2 DEF BearingCounted, bearingVars, probeVars, sequence
  <2> QED
    BY <2>3, <2>4
<1>3. ASSUME UNCHANGED nodeAside, NEW request \in requests, requests' = requests \ {request}
      PROVE  TypeOK' /\ BearingCounted'
  <2>1. OutputsOK'
    BY <1>3, CallEnds DEF TypeOK, OutputsOK
  <2>2. TypeOK'
    BY <1>3, <2>1, CallEnds, TypeKept DEF TypeOK, probeVars, holdVars, gateVars, bearingVars
  <2>3. BearingCounted'
    BY <1>3, CallEnds DEF BearingCounted, bearingVars, probeVars
  <2> QED
    BY <2>2, <2>3
<1> QED
  BY <1>1, <1>2, <1>3, NodeSees

LEMMA WorldNext ==
  ASSUME SystemTypeOK, [SystemNext]_systemVars
  PROVE  /\ vehicleArmed' \in BOOLEAN /\ vehicleMode' \in Modes
         /\ link' \subseteq [armed : BOOLEAN, mode : Modes] /\ Cardinality(link') <= 1
         /\ moves' \in 0..PilotMoves /\ takenOver' \in BOOLEAN
<1> USE DEF SystemTypeOK
<1>1. CASE NodeTick \/ NodeHears \/ UNCHANGED systemVars
  BY <1>1 DEF NodeTick, NodeHears, systemVars, worldVars, vehicleVars
<1>2. CASE Sample
  <2>1. link' \subseteq [armed : BOOLEAN, mode : Modes]
    BY <1>2 DEF Sample
  <2>2. Cardinality(link') = 1
    BY <1>2, FS_Singleton DEF Sample
  <2> QED
    BY <1>2, <2>1, <2>2 DEF Sample, vehicleVars
<1>3. CASE Deliver
  <2>1. Cardinality({}) = 0
    BY FS_EmptySet
  <2> QED
    BY <1>3, <2>1 DEF Deliver, vehicleVars
<1>4. CASE SetMode
  BY <1>4, ModesAssumption DEF SetMode
<1>5. CASE Arm
  BY <1>5 DEF Arm
<1>6. CASE PilotActs
  <2>1. moves' \in 0..PilotMoves
    BY <1>6, PilotAssumption DEF PilotActs
  <2>2. vehicleMode' \in Modes /\ UNCHANGED link
    BY <1>6 DEF PilotActs
  <2>3. vehicleArmed' \in BOOLEAN /\ takenOver' \in BOOLEAN
    BY <1>6, Zenon DEF PilotActs
  <2> QED
    BY <2>1, <2>2, <2>3
<1> QED
  BY <1>1, <1>2, <1>3, <1>4, <1>5, <1>6 DEF SystemNext

LEMMA SystemInitOK == SystemInit => SystemTypeOK /\ BearingCounted
<1> SUFFICES ASSUME SystemInit PROVE SystemTypeOK /\ BearingCounted
  OBVIOUS
<1>1. TypeOK /\ BearingCounted
  BY CorrectInit DEF SystemInit
<1>2. Cardinality(link) = 0
  BY FS_EmptySet DEF SystemInit
<1>3. /\ vehicleArmed \in BOOLEAN /\ vehicleMode \in Modes /\ takenOver \in BOOLEAN
      /\ link \subseteq [armed : BOOLEAN, mode : Modes]
  BY DEF SystemInit
<1>4. moves \in 0..PilotMoves
  BY PilotAssumption DEF SystemInit
<1> QED
  BY <1>1, <1>2, <1>3, <1>4 DEF SystemTypeOK

LEMMA SystemCorrect == SystemSpec => [](SystemTypeOK /\ BearingCounted)
<1>1. SystemTypeOK /\ BearingCounted /\ [SystemNext]_systemVars
        => SystemTypeOK' /\ BearingCounted'
  BY NodeTypeNext, WorldNext DEF SystemTypeOK
<1> QED
  BY <1>1, SystemInitOK, PTL DEF SystemSpec

\* The node keeps its types whatever the vehicle does and however late samples and
\* answers are; never more than one sample is on its way.
THEOREM SystemTypeCorrect == SystemSpec => []SystemTypeOK
<1>1. SystemTypeOK /\ BearingCounted => SystemTypeOK
  OBVIOUS
<1> QED
  BY <1>1, SystemCorrect, PTL

-----------------------------------------------------------------------------
(* Arming *)

\* Unless the pilot took the vehicle out of the required mode, whoever believes it to
\* be in that mode is right: the node, a sample on its way, and an arm request, which
\* the node sends only out of that belief.
BeliefsRight ==
  \/ takenOver
  \/ vehicleMode = RequiredMode
  \/ /\ mode # RequiredMode /\ "arm" \notin requests
     /\ \A sample \in link : sample.mode # RequiredMode

\* Every tick of a running mission opens with maybe_request_arm_mode.
LEMMA MissionTickAsks ==
  ASSUME TickMission
  PROVE  RequestArmMode /\ UNCHANGED linkInputs
<1>1. CASE \/ TickTimeout \/ TickBlocked \/ TickStart \/ TickProbe \/ TickReject
           \/ TickUnconfirmed
  BY <1>1 DEF TickTimeout, TickBlocked, TickStart, TickProbe, TickReject, TickUnconfirmed,
              Measured, TickAtEnd, TickReady, TickRunning
<1>2. CASE TickAlign \/ TickDepart \/ TickDrive \/ TickReestimate \/ TickSucceed
  <2>1. \E from, driven : SteeringFrom(from, driven)
    BY <1>2 DEF TickAlign, TickDepart, TickDrive, TickReestimate, TickSucceed, Steering
  <2> QED
    BY <2>1 DEF SteeringFrom, MeasuredAndConfirmed, Measured, TickAtEnd, TickReady, TickRunning
<1> QED BY <1>1, <1>2 DEF TickMission

\* A tick may ask for what is wanted, once a second, and does nothing else to the requests.
LEMMA TickAsks ==
  ASSUME ControlTick
  PROVE  /\ UNCHANGED linkInputs
         /\ \/ UNCHANGED <<service, requests>>
            \/ /\ RequestDue /\ service' = "running"
               /\ \E available \in SUBSET WantedRequest : requests' = requests \cup available
<1>1. CASE TickMission
  BY <1>1, MissionTickAsks DEF RequestArmMode
<1>2. CASE TickBrake \/ TickBrakeOver \/ TickTerminal \/ TickExit
  BY <1>2 DEF TickBrake, TickBrakeOver, TickTerminal, TickExit
<1> QED BY <1>1, <1>2 DEF ControlTick

\* A tick asks for arming only in the required mode; nothing else of the node asks.
LEMMA NodeAsksInMode ==
  ASSUME ControlTick \/ OnSensor \/ Passing
  PROVE  /\ mode' = mode
         /\ "arm" \in requests' => "arm" \in requests \/ mode = RequiredMode
<1>1. CASE OnSensor \/ Passing
  BY <1>1 DEF OnSensor, OnStamped, Stamped, Refresh, OnSpeed,
              OnDeltaRange, OnIqMagnitude, Passing, Expire, TimerLapses, Lapse,
              StageLapses, ForwardLapses, GateLapses, linkInputs, output
<1>2. CASE TickBrake \/ TickBrakeOver \/ TickTerminal \/ TickExit
  BY <1>2 DEF TickBrake, TickBrakeOver, TickTerminal, TickExit, linkInputs
<1>3. CASE TickMission
  BY <1>3, MissionTickAsks DEF RequestArmMode, WantedRequest, ModeMatches, linkInputs
<1> QED
  BY <1>1, <1>2, <1>3 DEF ControlTick

LEMMA BeliefsInit == SystemInit => BeliefsRight
<1> SUFFICES ASSUME SystemInit PROVE BeliefsRight
  OBVIOUS
<1>1. mode # RequiredMode /\ requests = {}
  BY ModesAssumption DEF SystemInit, Init
<1> QED
  BY <1>1 DEF SystemInit, BeliefsRight

LEMMA BeliefsNext ==
  ASSUME SystemTypeOK, BeliefsRight, [SystemNext]_systemVars
  PROVE  BeliefsRight'
<1> USE DEF BeliefsRight
<1>1. CASE NodeTick \/ NodeHears
  <2>1. UNCHANGED <<vehicleMode, link, takenOver>>
    BY <1>1 DEF NodeTick, NodeHears, worldVars, vehicleVars
  <2>2. ControlTick \/ OnSensor \/ Passing
    BY <1>1 DEF NodeTick, NodeHears
  <2>3. /\ mode' = mode
        /\ "arm" \in requests' => "arm" \in requests \/ mode = RequiredMode
    BY <2>2, NodeAsksInMode
  <2> QED
    BY <2>1, <2>3
<1>2. CASE Sample
  BY <1>2 DEF Sample, vehicleVars, nodeVars, vars, linkInputs, output
<1>3. CASE Deliver
  BY <1>3 DEF Deliver, OnVehicleState, vehicleVars, output
<1>4. CASE SetMode \/ Arm
  BY <1>4, CallEnds DEF SetMode, Arm
<1>5. CASE PilotActs
  <2>1. UNCHANGED <<mode, requests, link>>
    BY <1>5 DEF PilotActs, nodeVars, vars, linkInputs, output
  <2>2. CASE takenOver \/ (vehicleMode = RequiredMode /\ vehicleMode' # RequiredMode)
    <3>1. \/ vehicleMode' = vehicleMode /\ takenOver' = takenOver
          \/ takenOver' = (takenOver \/ vehicleMode = RequiredMode)
      BY <1>5 DEF PilotActs
    <3>2. takenOver'
      BY <2>2, <3>1, Zenon
    <3> QED
      BY <3>2
  <2>3. CASE vehicleMode' = RequiredMode
    BY <2>3
  <2>4. CASE ~takenOver /\ vehicleMode # RequiredMode
    BY <2>1, <2>4
  <2> QED
    BY <2>2, <2>3, <2>4
<1>6. CASE UNCHANGED systemVars
  BY <1>6 DEF systemVars, worldVars, vehicleVars, nodeVars, vars, linkInputs, output
<1> QED
  BY <1>1, <1>2, <1>3, <1>4, <1>5, <1>6 DEF SystemNext

\* Nothing but the answer to a call and the pilot arms the vehicle.
LEMMA ArmStep ==
  ASSUME BeliefsRight, [SystemNext]_systemVars
  PROVE  vehicleArmed' /\ ~vehicleArmed /\ moves' = moves
           => vehicleMode = RequiredMode \/ takenOver
<1>1. CASE Arm
  BY <1>1 DEF Arm, BeliefsRight
<1>2. CASE PilotActs
  BY <1>2 DEF PilotActs
<1>3. CASE NodeTick \/ NodeHears \/ Sample \/ Deliver \/ SetMode \/ UNCHANGED systemVars
  BY <1>3 DEF NodeTick, NodeHears, Sample, Deliver, SetMode, systemVars, worldVars,
              vehicleVars
<1> QED
  BY <1>1, <1>2, <1>3 DEF SystemNext

\* However late samples and answers are, whichever call is refused and however often
\* the pilot interferes, the node arms the vehicle in another mode only when the pilot
\* has taken it out of the required one.
THEOREM ArmsInMode == SystemSpec => ArmsInRequiredMode
<1>1. SystemTypeOK /\ BeliefsRight /\ [SystemNext]_systemVars => BeliefsRight'
  BY BeliefsNext
<1>2. BeliefsRight /\ [SystemNext]_systemVars
        => [vehicleArmed' /\ ~vehicleArmed /\ moves' = moves
              => vehicleMode = RequiredMode \/ takenOver]_systemVars
  BY ArmStep
<1> QED
  BY <1>1, <1>2, BeliefsInit, SystemTypeCorrect, PTL DEF SystemSpec, ArmsInRequiredMode

-----------------------------------------------------------------------------
(* The mission *)

LEMMA SystemMissionStep ==
  ASSUME SystemTypeOK, BearingCounted, [SystemNext]_systemVars
  PROVE  [Mission!Next]_(Mission!vars)
<1>1. CASE [Next]_vars
  BY <1>1, MissionStep DEF SystemTypeOK
<1>2. ASSUME NEW isArmed, NEW actual, OnVehicleState(TRUE, isArmed, actual)
      PROVE  Mission!Next
  <2>1. ~halted /\ UNCHANGED <<state, confirmed, lastCommand, halted>>
    BY <1>2 DEF OnVehicleState, sequence, bearingVars, output
  <2> QED
    BY <2>1, MissionWatches
<1>3. CASE UNCHANGED nodeAside
  <2>1. UNCHANGED <<OutputEnabled, state, confirmed, lastCommand, halted>>
    BY <1>3, CallEnds, PermissionKept
  <2> QED
    BY <2>1 DEF MissionPhase, Driving, Mission!vars
<1> QED
  BY <1>1, <1>2, <1>3, NodeSees

\* Among a vehicle, a pilot and calls that go their own way the node is still a homing
\* mission: permitted is what the node knows, as HomingMission says.
THEOREM SystemIsMission == SystemSpec => ImplementsMission
<1>1. SystemInit => Mission!Init
  <2> SUFFICES ASSUME Init PROVE Mission!Init
    BY DEF SystemInit
  <2>1. MissionPhase = "waiting" /\ confirmed = FALSE /\ halted = FALSE
    BY DEF Init, MissionPhase
  <2>2. ~OutputEnabled
    BY DEF Init, OutputEnabled, LiveControlReady
  <2>3. ~Driving
    BY DEF Init, Driving, Stop
  <2> QED
    BY <2>1, <2>2, <2>3 DEF Mission!Init
<1> QED
  BY <1>1, SystemCorrect, SystemMissionStep, PTL
     DEF SystemSpec, ImplementsMission, Mission!Spec

-----------------------------------------------------------------------------
(* The pilot prevails *)

\* A tick rests the vehicle it has no permission for, sends the kind of frame that fits what
\* it knows of it and leaves the process only with its channels released.
LEMMA TickRests ==
  ASSUME ControlTick
  PROVE  /\ ~halted /\ (halted' => rc' = "release") /\ (halted' \/ rc' = OutputKind)
         /\ UNCHANGED linkInputs
         /\ ~LiveControlReady => lastCommand' = Stop
<1>1. ASSUME ~LiveControlReady, NEW requested
      PROVE  Realized(requested) = {Stop}
  BY <1>1 DEF Realized, OutputEnabled
<1>2. ASSUME UNCHANGED <<linkInputs, halted>>, ~halted, NEW requested, Publish(requested)
      PROVE  /\ ~halted /\ (halted' => rc' = "release") /\ (halted' \/ rc' = OutputKind)
             /\ UNCHANGED linkInputs
             /\ ~LiveControlReady => lastCommand' = Stop
  BY <1>1, <1>2 DEF Publish
<1>3. CASE TickMission
  <2>1. UNCHANGED <<linkInputs, halted>>
    <3>1. CASE TickAlign \/ TickDepart \/ TickDrive \/ TickReestimate \/ TickSucceed
      <4>1. \E from, driven : SteeringFrom(from, driven)
        BY <3>1 DEF TickAlign, TickDepart, TickDrive, TickReestimate, TickSucceed, Steering
      <4> QED BY <4>1 DEF SteeringFrom
    <3>2. CASE \/ TickTimeout \/ TickBlocked \/ TickStart \/ TickProbe \/ TickReject
               \/ TickUnconfirmed
      BY <3>2 DEF TickTimeout, TickBlocked, TickStart, TickProbe, TickReject, TickUnconfirmed
    <3> QED BY <1>3, <3>1, <3>2 DEF TickMission
  <2>2. \E requested : Publish(requested)
    BY <1>3 DEF TickMission, TickTimeout, TickBlocked, TickStart, TickProbe, TickReject,
                TickUnconfirmed, TickAlign, TickDepart, TickDrive, TickReestimate, TickSucceed
  <2> QED BY <1>2, <1>3, <2>1, <2>2, MissionTickKeeps
<1>4. CASE TickBrake \/ TickBrakeOver \/ TickTerminal
  BY <1>2, <1>4 DEF TickBrake, TickBrakeOver, TickTerminal
<1>5. CASE TickExit
  BY <1>1, <1>5 DEF TickExit
<1> QED BY <1>3, <1>4, <1>5 DEF ControlTick

\* What the node hears on its own never makes a stale sample of the vehicle fresh.
LEMMA HearsNothingNew ==
  ASSUME fresh \in [Inputs -> BOOLEAN], OnSensor \/ Passing
  PROVE  /\ ~halted /\ UNCHANGED output /\ UNCHANGED <<connected, armed, mode>>
         /\ fresh'["vehicle"] => fresh["vehicle"]
<1>1. CASE OnSensor
  <2>1. UNCHANGED <<connected, armed, mode>> /\ ~halted /\ UNCHANGED output
    BY <1>1 DEF OnSensor, OnStamped, Stamped, Refresh, OnSpeed, OnDeltaRange, OnIqMagnitude,
                linkInputs
  <2>2. \/ fresh' = fresh
        \/ \E input \in {"imu", "depth", "quality", "speed", "delta"} :
             fresh' = [fresh EXCEPT ![input] = TRUE]
    BY <1>1 DEF OnSensor, OnStamped, Stamped, Refresh, OnSpeed, OnDeltaRange, OnIqMagnitude,
                linkInputs
  <2> QED BY <2>1, <2>2 DEF Inputs
<1>2. CASE Passing
  <2>1. UNCHANGED <<connected, armed, mode>> /\ ~halted /\ UNCHANGED output
    BY <1>2 DEF Passing, Expire, TimerLapses, StageLapses, ForwardLapses, GateLapses,
                linkInputs
  <2>2. fresh' = fresh \/ \E input \in Inputs : fresh' = [fresh EXCEPT ![input] = FALSE]
    BY <1>2 DEF Passing, Expire, TimerLapses, StageLapses, ForwardLapses, GateLapses,
                linkInputs
  <2> QED BY <2>1, <2>2 DEF Inputs
<1> QED BY <1>1, <1>2

\* What a sample on its way may say of the vehicle, what the node has last heard of it,
\* and what it has sent.
Promise == \E sample \in link : sample.armed /\ sample.mode = RequiredMode
ArmedReported == \E sample \in link : sample.armed
DisarmedReported == \E sample \in link : ~sample.armed
Heard == fresh["vehicle"]
KnownArmed == connected /\ armed
Rest == lastCommand = Stop
Released == rc = "release"
Overridden == rc = "pwm"

\* What is not on its way is not believed, what is not believed is not acted upon: each of
\* these, once so, stays so while the pilot keeps the vehicle.
LEMMA PilotKeeps ==
  ASSUME SystemTypeOK, [SystemNext]_systemVars
  PROVE  /\ ~UnderControl /\ ~Promise => ~Promise'
         /\ ~Promise /\ ~LiveControlReady => ~LiveControlReady'
         /\ ~LiveControlReady /\ Rest => Rest'
         /\ ~vehicleArmed /\ ~ArmedReported => ~ArmedReported'
         /\ ~ArmedReported /\ ~(Heard /\ KnownArmed) => ~(Heard /\ KnownArmed)'
         /\ ~(Heard /\ KnownArmed) /\ Released => Released'
         /\ vehicleArmed /\ ~DisarmedReported => ~DisarmedReported'
         /\ ~DisarmedReported /\ KnownArmed => KnownArmed'
         /\ ~DryRun /\ Heard /\ KnownArmed /\ Overridden => halted' \/ Overridden'
         /\ ~Heard => ~Heard' \/ (link = {})'
         /\ halted => halted' /\ UNCHANGED rc
         /\ ~halted /\ halted' => Released'
<1> USE DEF Promise, ArmedReported, DisarmedReported, Heard, KnownArmed, Rest, Released,
            Overridden, LiveControlReady, ModeMatches
<1>1. CASE NodeTick
  <2>1. UNCHANGED <<link, fresh, connected, armed, mode>>
    BY <1>1, TickRests DEF NodeTick, worldVars, linkInputs
  <2>2. OutputKind = IF ~DryRun /\ Heard /\ KnownArmed THEN "pwm" ELSE "release"
    BY DEF OutputKind
  <2> QED BY <1>1, <2>1, <2>2, TickRests DEF NodeTick
<1>2. CASE NodeHears
  <2>1. fresh \in [Inputs -> BOOLEAN]
    BY DEF SystemTypeOK, TypeOK, InputsOK
  <2>2. /\ UNCHANGED <<link, connected, armed, mode, lastCommand, rc, halted>>
        /\ fresh'["vehicle"] => fresh["vehicle"]
    BY <1>2, <2>1, HearsNothingNew DEF NodeHears, worldVars, output
  <2> QED BY <2>2
<1>3. CASE Sample
  BY <1>3 DEF Sample, UnderControl, nodeVars, vars, linkInputs, output
<1>4. CASE Deliver
  BY <1>4 DEF Deliver, OnVehicleState, output
<1>5. CASE SetMode \/ Arm
  <2>1. UNCHANGED <<nodeAside, link>>
    BY <1>5 DEF SetMode, Arm
  <2> QED BY <2>1, CallEnds
<1>6. CASE PilotActs
  BY <1>6 DEF PilotActs, nodeVars, vars, linkInputs, output
<1>7. CASE UNCHANGED systemVars
  BY <1>7 DEF systemVars, worldVars, nodeVars, vars, linkInputs, output
<1> QED BY <1>1, <1>2, <1>3, <1>4, <1>5, <1>6, <1>7 DEF SystemNext

\* A sample delivered, or the last one grown stale.
LEMMA NewsTells ==
  ASSUME SystemTypeOK, Learns
  PROVE  /\ (link = {})' \/ (Heard /\ ~Heard')
         /\ ~Promise => ~LiveControlReady'
         /\ ~ArmedReported => ~(Heard /\ KnownArmed)'
         /\ Heard' /\ ~DisarmedReported => KnownArmed'
<1> USE DEF Promise, ArmedReported, DisarmedReported, Heard, KnownArmed, LiveControlReady,
            ModeMatches
<1>1. CASE Deliver
  BY <1>1 DEF Deliver, OnVehicleState
<1>2. CASE UNCHANGED worldVars /\ Expire("vehicle")
  <2>1. fresh["vehicle"] /\ ~fresh'["vehicle"]
    BY <1>2 DEF Expire, SystemTypeOK, TypeOK, InputsOK, Inputs
  <2> QED BY <1>2, <2>1 DEF Expire
<1> QED BY <1>1, <1>2 DEF Learns

\* An empty link says nothing.
LEMMA NothingReported ==
  ASSUME link = {}
  PROVE  ~Promise /\ ~ArmedReported /\ ~DisarmedReported
BY DEF Promise, ArmedReported, DisarmedReported

\* Where the node can go on, and what its tick then sends.
LEMMA OutputFollows ==
  /\ NodeAnswers /\ ~halted /\ ~Rest /\ ~LiveControlReady => ENABLED <<NodeTick>>_systemVars
  /\ NodeAnswers /\ ~halted /\ ~Released /\ ~(Heard /\ KnownArmed)
       => ENABLED <<NodeTick>>_systemVars
  /\ ~DryRun /\ NodeAnswers /\ ~halted /\ ~Overridden /\ Heard /\ KnownArmed
       => ENABLED <<NodeTick>>_systemVars
  /\ NewsComes /\ ~halted /\ (link # {} \/ Heard) => ENABLED <<Learns>>_systemVars
<1>1. OutputKind = IF ~DryRun /\ Heard /\ KnownArmed THEN "pwm" ELSE "release"
  BY DEF OutputKind, Heard, KnownArmed
<1> QED
  BY <1>1 DEF NodeAnswers, NewsComes, Rest, Released, Overridden, Heard

LEMMA TickSends ==
  ASSUME NodeTick
  PROVE  /\ ~LiveControlReady => Rest'
         /\ ~(Heard /\ KnownArmed) => Released'
         /\ ~DryRun /\ Heard /\ KnownArmed => halted' \/ Overridden'
<1>1. OutputKind = IF ~DryRun /\ Heard /\ KnownArmed THEN "pwm" ELSE "release"
  BY DEF OutputKind, Heard, KnownArmed
<1> QED
  BY <1>1, TickRests DEF NodeTick, Rest, Released, Overridden

\* A disarmed vehicle gets its channels back: the samples on their way that still call it
\* armed go, then the node's belief, then the override.  A vehicle that is not heard of
\* loses the belief at once.
THEOREM ChannelsReturnedFair ==
  ASSUME "vehicle" \in Losable
  PROVE  FairSystemSpec /\ []NodeAnswers /\ []NewsComes => ChannelsReturned
<1> DEFINE Believed == Heard /\ KnownArmed
<1>1. SystemTypeOK /\ [SystemNext]_systemVars =>
        /\ ~vehicleArmed /\ ~ArmedReported => (~ArmedReported)'
        /\ ~ArmedReported /\ ~Believed => (~Believed)'
        /\ ~Believed /\ Released => Released'
        /\ ~Heard => (~Heard \/ ~ArmedReported)'
        /\ halted /\ Released => (halted /\ Released)'
        /\ ~halted => (~halted \/ Released)'
  BY PilotKeeps, NothingReported DEF ArmedReported, Released
<1>2. SystemTypeOK /\ <<Learns>>_systemVars =>
        /\ (~ArmedReported \/ ~Heard)'
        /\ ~Heard => (~ArmedReported)'
        /\ ~ArmedReported => (~Believed)'
  BY NewsTells DEF ArmedReported
<1>3. <<NodeTick>>_systemVars /\ ~Believed => Released'
  BY TickSends
<1>4. NodeAnswers /\ ~halted /\ ~Released /\ ~Believed => ENABLED <<NodeTick>>_systemVars
  BY OutputFollows
<1>5. NewsComes /\ ~halted /\ (ArmedReported \/ Believed) => ENABLED <<Learns>>_systemVars
  BY OutputFollows, NothingReported
<1>6. SystemInit => ~halted
  BY DEF SystemInit, Init
<1>7. (rc = "release" <=> Released) /\ (fresh["vehicle"] <=> Heard) /\ (Believed => Heard)
  BY DEF Released, Heard
<1> HIDE DEF Believed
<1> QED
  BY <1>1, <1>2, <1>3, <1>4, <1>5, <1>6, <1>7, SystemTypeCorrect, PTL
     DEF FairSystemSpec, SystemFairness, SystemSpec, ChannelsReturned

\* A pilot who finally keeps the vehicle, disarmed or in another mode, is not driven: the
\* promises on their way and the node's belief go, and then its command.
LEMMA PilotUndriven ==
  FairSystemSpec /\ []NodeAnswers /\ []NewsComes
    => (<>[](~UnderControl) => <>[](lastCommand = Stop \/ rc = "release"))
<1>1. SystemTypeOK /\ [SystemNext]_systemVars =>
        /\ ~UnderControl /\ ~Promise => (~Promise)'
        /\ ~Promise /\ ~LiveControlReady => (~LiveControlReady)'
        /\ ~LiveControlReady /\ Rest => Rest'
        /\ ~Heard => (~Heard \/ ~Promise)'
        /\ halted /\ Released => (halted /\ Released)'
        /\ ~halted => (~halted \/ Released)'
  BY PilotKeeps DEF Promise, Released
<1>2. SystemTypeOK /\ <<Learns>>_systemVars =>
        /\ (~Promise \/ ~Heard)'
        /\ ~Heard => (~Promise)'
        /\ ~Promise => (~LiveControlReady)'
  BY NewsTells DEF Promise
<1>3. <<NodeTick>>_systemVars /\ ~LiveControlReady => Rest'
  BY TickSends
<1>4. NodeAnswers /\ ~halted /\ ~Rest /\ ~LiveControlReady => ENABLED <<NodeTick>>_systemVars
  BY OutputFollows
<1>5. NewsComes /\ ~halted /\ (Promise \/ LiveControlReady) => ENABLED <<Learns>>_systemVars
  BY OutputFollows, NothingReported DEF LiveControlReady, Heard
<1>6. SystemInit => ~halted
  BY DEF SystemInit, Init
<1>7. lastCommand = Stop \/ rc = "release" <=> Rest \/ Released
  BY DEF Rest, Released
<1> QED
  BY <1>1, <1>2, <1>3, <1>4, <1>5, <1>6, <1>7, SystemTypeCorrect, PTL
     DEF FairSystemSpec, SystemFairness, SystemSpec

\* The armed vehicle in another mode is not driven, and while it is heard of its channels
\* stay overridden: a sample that calls it disarmed cannot come any more, so the node
\* knows it armed, sends PWM and goes on doing so.
THEOREM NeutralElsewhereFair ==
  ASSUME "vehicle" \in Losable, ~DryRun
  PROVE  FairSystemSpec /\ []NodeAnswers /\ []NewsComes => NeutralElsewhere
<1>1. SystemTypeOK /\ [SystemNext]_systemVars =>
        /\ vehicleArmed /\ ~DisarmedReported => (~DisarmedReported)'
        /\ ~DisarmedReported /\ KnownArmed => KnownArmed'
        /\ Heard /\ KnownArmed /\ Overridden => (halted \/ Overridden)'
        /\ halted => halted'
  BY PilotKeeps
<1>2. SystemTypeOK /\ <<Learns>>_systemVars =>
        /\ (~DisarmedReported \/ ~Heard)'
        /\ Heard' /\ ~DisarmedReported => KnownArmed'
  BY NewsTells DEF DisarmedReported
<1>3. <<NodeTick>>_systemVars /\ Heard /\ KnownArmed => (halted \/ Overridden)'
  BY TickSends
<1>4. NodeAnswers /\ ~halted /\ ~Overridden /\ Heard /\ KnownArmed
        => ENABLED <<NodeTick>>_systemVars
  BY OutputFollows
<1>5. NewsComes /\ ~halted /\ Heard => ENABLED <<Learns>>_systemVars
  BY OutputFollows
<1>6. vehicleArmed /\ vehicleMode # RequiredMode => vehicleArmed /\ ~UnderControl
  BY DEF UnderControl
<1>7. (rc = "pwm" <=> Overridden) /\ (fresh["vehicle"] <=> Heard)
  BY DEF Overridden, Heard
<1> QED
  BY <1>1, <1>2, <1>3, <1>4, <1>5, <1>6, <1>7, PilotUndriven, SystemTypeCorrect, PTL
     DEF FairSystemSpec, SystemFairness, SystemSpec, NeutralElsewhere

-----------------------------------------------------------------------------
(* The mission gets hold of its vehicle *)

\* The vehicle's hands, a sample on its way and the node's belief.
InMode == vehicleMode = RequiredMode
ModeReported == \E sample \in link : sample.mode = RequiredMode
OtherReported == \E sample \in link : sample.mode # RequiredMode \/ sample.armed
OtherBelieved == ~ModeMatches \/ armed
Running == service = "running"
Connected == connected
Pending == link # {}

\* The service clock stops at due until a request is due, and runs again after that.
LEMMA ServiceKeeps ==
  ASSUME SystemTypeOK, Running \/ service = "due", [SystemNext]_systemVars
  PROVE  /\ Running' \/ (service = "due")'
         /\ service = "due" /\ ~RequestDue => (service = "due")'
         /\ Connected => Connected'
<1> USE DEF Running, Connected
<1>1. CASE NodeTick
  BY <1>1, TickAsks DEF NodeTick, linkInputs
<1>2. CASE NodeHears
  <2>1. \/ UNCHANGED service
        \/ service' = Lapse(service)
    BY <1>2 DEF NodeHears, OnSensor, OnStamped, Stamped, Refresh, OnSpeed, OnDeltaRange,
                OnIqMagnitude, Passing, Expire, TimerLapses, StageLapses, ForwardLapses,
                GateLapses
  <2>2. connected' = connected
    BY <1>2 DEF NodeHears, OnSensor, OnStamped, Stamped, Refresh, OnSpeed, OnDeltaRange,
                OnIqMagnitude, Passing, Expire, TimerLapses, StageLapses, ForwardLapses,
                GateLapses, linkInputs
  <2> QED BY <2>1, <2>2 DEF Lapse
<1>3. CASE Deliver
  BY <1>3 DEF Deliver, OnVehicleState
<1>4. CASE Sample \/ PilotActs \/ UNCHANGED systemVars
  BY <1>4 DEF Sample, PilotActs, systemVars, nodeVars, vars, linkInputs
<1>5. CASE SetMode \/ Arm
  <2>1. UNCHANGED nodeAside
    BY <1>5 DEF SetMode, Arm
  <2> QED BY <2>1, CallEnds
<1> QED BY <1>1, <1>2, <1>3, <1>4, <1>5 DEF SystemNext

\* With the pilot at rest the vehicle stays in the required mode and, there, armed; what
\* samples say and the node believes of it cannot become wrong again.
LEMMA VehicleKeeps ==
  ASSUME SystemTypeOK, [SystemNext]_systemVars
  PROVE  /\ moves' = moves /\ InMode => InMode'
         /\ moves' = moves /\ vehicleArmed => vehicleArmed'
         /\ ~InMode /\ ~ModeReported => ~ModeReported'
         /\ ~ModeReported /\ ~ModeMatches => ~ModeMatches'
         /\ InMode /\ ~vehicleArmed /\ ~OtherReported => ~OtherReported'
         /\ ~OtherReported /\ ~OtherBelieved => ~OtherBelieved'
         /\ Pending => Pending' \/ <<Deliver>>_systemVars
<1> USE DEF InMode, ModeReported, OtherReported, OtherBelieved, ModeMatches, Pending
<1>1. CASE NodeTick
  BY <1>1, TickAsks DEF NodeTick, worldVars, vehicleVars, linkInputs
<1>2. CASE NodeHears
  <2>1. UNCHANGED <<armed, mode>>
    BY <1>2 DEF NodeHears, OnSensor, OnStamped, Stamped, Refresh, OnSpeed, OnDeltaRange,
                OnIqMagnitude, Passing, Expire, TimerLapses, StageLapses, ForwardLapses,
                GateLapses, linkInputs
  <2> QED BY <1>2, <2>1 DEF NodeHears, worldVars, vehicleVars
<1>3. CASE Sample
  BY <1>3 DEF Sample, nodeVars, vars, linkInputs, vehicleVars
<1>4. CASE Deliver
  <2>1. Pending => <<Deliver>>_systemVars
    BY <1>4 DEF Deliver, systemVars, worldVars
  <2> QED BY <1>4, <2>1 DEF Deliver, OnVehicleState, vehicleVars
<1>5. CASE SetMode \/ Arm
  <2>1. UNCHANGED <<nodeAside, link>>
    BY <1>5 DEF SetMode, Arm
  <2>2. UNCHANGED <<link, armed, mode>>
    BY <2>1, CallEnds
  <2>3. InMode => InMode'
    BY <1>5 DEF SetMode, Arm
  <2>4. vehicleArmed => vehicleArmed'
    BY <1>5, Zenon DEF SetMode, Arm
  <2> QED BY <2>2, <2>3, <2>4
<1>6. CASE PilotActs
  <2>1. moves' # moves
    BY <1>6 DEF PilotActs, SystemTypeOK
  <2>2. UNCHANGED <<link, armed, mode>>
    BY <1>6 DEF PilotActs, nodeVars, vars, linkInputs
  <2> QED BY <2>1, <2>2
<1>7. CASE UNCHANGED systemVars
  BY <1>7 DEF systemVars, worldVars, vehicleVars, nodeVars, vars, linkInputs
<1> QED BY <1>1, <1>2, <1>3, <1>4, <1>5, <1>6, <1>7 DEF SystemNext

\* A delivered sample is what the node then believes.
LEMMA DeliverTells ==
  ASSUME SystemTypeOK, <<Deliver>>_systemVars
  PROVE  /\ Heard' /\ Connected' /\ ~ModeReported' /\ ~OtherReported' /\ UNCHANGED service
         /\ ~ModeReported => ~ModeMatches'
         /\ ~OtherReported => ~OtherBelieved'
<1>1. fresh'["vehicle"]
  BY DEF Deliver, OnVehicleState, SystemTypeOK, TypeOK, InputsOK, Inputs
<1> QED
  BY <1>1 DEF Deliver, OnVehicleState, Heard, Connected, ModeReported, OtherReported,
              ModeMatches, OtherBelieved

\* Silent or not, MAVROS gets a sample through again and again.
Delivers ==
  FairSystemSpec /\ MavrosAnswers /\ []NewsComes /\ []UnderWay => []<><<Deliver>>_systemVars

LEMMA DeliverRecurs == Delivers
<1>1. SystemTypeOK /\ [SystemNext]_systemVars =>
        /\ Pending => Pending' \/ <<Deliver>>_systemVars
        /\ ~Heard => ~Heard' \/ <<Deliver>>_systemVars
  <2>1. SystemTypeOK /\ [SystemNext]_systemVars /\ ~Heard => ~Heard' \/ <<Deliver>>_systemVars
    <3> SUFFICES ASSUME SystemTypeOK, [SystemNext]_systemVars, ~Heard, Heard'
                 PROVE  <<Deliver>>_systemVars
      OBVIOUS
    <3>1. fresh' # fresh
      BY DEF Heard
    <3>2. Deliver
      <4>1. ~NodeTick
        BY <3>1, TickAsks DEF NodeTick, linkInputs
      <4>2. ~NodeHears
        BY HearsNothingNew DEF NodeHears, Heard, SystemTypeOK, TypeOK, InputsOK
      <4>3. ~(SetMode \/ Arm)
        <5>1. SetMode \/ Arm => UNCHANGED nodeAside
          BY DEF SetMode, Arm
        <5> QED BY <3>1, <5>1, CallEnds
      <4>4. ~(Sample \/ PilotActs \/ UNCHANGED systemVars)
        BY <3>1 DEF Sample, PilotActs, systemVars, nodeVars, vars, linkInputs
      <4> QED BY <4>1, <4>2, <4>3, <4>4 DEF SystemNext
    <3>3. systemVars' # systemVars
      BY <3>1 DEF systemVars, nodeVars, vars, linkInputs
    <3> QED BY <3>2, <3>3
  <2> QED BY <2>1, VehicleKeeps
<1>2. SystemTypeOK /\ <<Learns>>_systemVars => <<Deliver>>_systemVars \/ (Heard /\ ~Heard')
  BY DEF Learns, Expire, Heard, SystemTypeOK, TypeOK, InputsOK, Inputs
<1>3. <<Sample>>_systemVars => Pending'
  BY DEF Sample, Pending
<1>4. NewsComes /\ UnderWay /\ Pending => ENABLED <<Learns>>_systemVars
  BY DEF NewsComes, UnderWay, Pending
<1>5. NewsComes /\ ~Pending => ENABLED <<Sample>>_systemVars
  BY DEF NewsComes, Pending
<1> QED
  BY <1>1, <1>2, <1>3, <1>4, <1>5, SystemTypeCorrect, PTL
     DEF FairSystemSpec, SystemFairness, SystemSpec, MavrosAnswers, Delivers

\* Again and again a request may be made: the second has passed while the sample is fresh.
AsksRecur ==
  FairSystemSpec /\ MavrosAnswers /\ NodeAsks /\ []NewsComes /\ []RequestsPass /\ []UnderWay
    => []<>RequestDue

LEMMA RequestsRecur ==
  ASSUME AutoArm \/ AutoMode
  PROVE  AsksRecur
<1> DEFINE Due == service = "due"
<1>1. SystemInit => Due
  BY DEF SystemInit, Init
<1>2. SystemTypeOK /\ (Running \/ Due) /\ [SystemNext]_systemVars =>
        /\ (Running \/ Due)'
        /\ Due /\ ~RequestDue => Due'
        /\ Connected => Connected'
  BY ServiceKeeps
<1>3. SystemTypeOK /\ <<Deliver>>_systemVars /\ Due => (Due /\ Heard /\ Connected)'
  BY DeliverTells
<1>4. Due /\ Heard /\ Connected => RequestDue
  BY DEF Heard, Connected, RequestDue
<1>5. RequestsPass /\ UnderWay /\ Running => ENABLED <<ServiceClock>>_systemVars
  BY DEF RequestsPass, UnderWay, Running
<1>6. Running /\ <<ServiceClock>>_systemVars => Due'
  BY DEF Running, ServiceClock, TimerLapses, Lapse
<1>7. ~(Running /\ Due)
  BY DEF Running
<1> HIDE DEF Due
<1>8. SystemSpec => [](Running \/ Due)
  BY <1>1, <1>2, SystemTypeCorrect, PTL DEF SystemSpec
<1>9. SystemSpec /\ WF_systemVars(ServiceClock) /\ []RequestsPass /\ []UnderWay => []<>Due
  BY <1>5, <1>6, <1>8, PTL
<1>10. SystemSpec /\ <>[]~RequestDue /\ []<>Due => <>[]Due
  BY <1>2, <1>8, SystemTypeCorrect, PTL DEF SystemSpec
<1>11. SystemSpec /\ <>[]Due /\ []<><<Deliver>>_systemVars => []<>RequestDue
  BY <1>3, <1>4, SystemTypeCorrect, PTL DEF SystemSpec
<1> QED
  BY <1>9, <1>10, <1>11, DeliverRecurs, PTL
     DEF FairSystemSpec, NodeAsks, AsksRecur, Delivers

\* The tick that asks in another mode asks for the mode, in the required one for arming.
LEMMA AskedFor ==
  ASSUME SystemTypeOK, <<AskingTick>>_systemVars
  PROVE  /\ ~ModeMatches => ("set_mode" \in requests)'
         /\ ~OtherBelieved => ("arm" \in requests)'
<1>1. PICK available \in SUBSET WantedRequest : requests' = requests \cup available
  BY TickAsks DEF AskingTick, NodeTick
<1>2. available # {}
  BY <1>1 DEF AskingTick
<1>3. ~ModeMatches => WantedRequest \subseteq {"set_mode"}
  BY DEF WantedRequest
<1>4. ~OtherBelieved => WantedRequest \subseteq {"arm"}
  BY DEF WantedRequest, OtherBelieved
<1> QED BY <1>1, <1>2, <1>3, <1>4

\* With auto_mode the vehicle gets into the required mode once the pilot rests, and stays.
PilotRests == <>[][moves' = moves]_systemVars
ModeComes ==
  FairSystemSpec /\ MavrosAnswers /\ NodeAsks /\ PilotRests
    /\ []NewsComes /\ []RequestsPass /\ []UnderWay
    => <>[]InMode

LEMMA ModeTaken ==
  ASSUME AutoMode
  PROVE  ModeComes
<1> DEFINE Asked == "set_mode" \in requests
<1>1. SystemTypeOK /\ [SystemNext]_systemVars =>
        /\ ~InMode /\ ~ModeReported => (~ModeReported)'
        /\ ~ModeReported /\ ~ModeMatches => (~ModeMatches)'
  BY VehicleKeeps
<1>2. SystemTypeOK /\ <<Deliver>>_systemVars =>
        /\ (~ModeReported)'
        /\ ~ModeReported => (~ModeMatches)'
  BY DeliverTells
<1>3. SystemTypeOK /\ [SystemNext]_systemVars /\ [moves' = moves]_systemVars /\ InMode => InMode'
  BY VehicleKeeps DEF systemVars, worldVars
<1>4. RequestsPass /\ UnderWay /\ RequestDue /\ ~ModeMatches /\ ~Asked =>
        ENABLED <<AskingTick>>_systemVars
  BY DEF RequestsPass, WantedRequest
<1>5. SystemTypeOK /\ <<AskingTick>>_systemVars /\ ~ModeMatches => Asked'
  BY AskedFor
<1>6. RequestsPass /\ Asked => ENABLED <<AcceptMode>>_systemVars
  BY DEF RequestsPass
<1>7. <<AcceptMode>>_systemVars => InMode'
  BY DEF AcceptMode, InMode
<1> HIDE DEF Asked
<1>8. AsksRecur
  BY RequestsRecur
<1> QED
  BY <1>1, <1>2, <1>3, <1>4, <1>5, <1>6, <1>7, <1>8, DeliverRecurs, SystemTypeCorrect, PTL
     DEF FairSystemSpec, SystemSpec, NodeAsks, MavrosAnswers, AsksRecur, Delivers, PilotRests,
         ModeComes

\* With auto_arm too it gets armed there, and the mission has it.
ArmComes ==
  FairSystemSpec /\ MavrosAnswers /\ NodeAsks /\ PilotRests
    /\ []NewsComes /\ []RequestsPass /\ []UnderWay
    => (<>[]InMode => <>[]vehicleArmed)

LEMMA ArmTaken ==
  ASSUME AutoArm
  PROVE  ArmComes
<1> DEFINE Asked == "arm" \in requests
<1>1. SystemTypeOK /\ [SystemNext]_systemVars =>
        /\ InMode /\ ~vehicleArmed /\ ~OtherReported => (~OtherReported)'
        /\ ~OtherReported /\ ~OtherBelieved => (~OtherBelieved)'
  BY VehicleKeeps
<1>2. SystemTypeOK /\ <<Deliver>>_systemVars =>
        /\ (~OtherReported)'
        /\ ~OtherReported => (~OtherBelieved)'
  BY DeliverTells
<1>3. SystemTypeOK /\ [SystemNext]_systemVars /\ [moves' = moves]_systemVars /\ vehicleArmed
        => vehicleArmed'
  BY VehicleKeeps DEF systemVars, worldVars
<1>4. RequestsPass /\ UnderWay /\ RequestDue /\ ~OtherBelieved /\ ~Asked =>
        ENABLED <<AskingTick>>_systemVars
  BY DEF RequestsPass, WantedRequest, OtherBelieved
<1>5. SystemTypeOK /\ <<AskingTick>>_systemVars /\ ~OtherBelieved => Asked'
  BY AskedFor
<1>6. RequestsPass /\ Asked => ENABLED <<AcceptArm>>_systemVars
  BY DEF RequestsPass
<1>7. <<AcceptArm>>_systemVars => vehicleArmed'
  BY DEF AcceptArm
<1> HIDE DEF Asked
<1>8. AsksRecur
  BY RequestsRecur
<1> QED
  BY <1>1, <1>2, <1>3, <1>4, <1>5, <1>6, <1>7, <1>8, DeliverRecurs, SystemTypeCorrect, PTL
     DEF FairSystemSpec, SystemSpec, NodeAsks, MavrosAnswers, AsksRecur, Delivers, PilotRests,
         ArmComes

\* With auto_mode and auto_arm a mission under way gets hold of its vehicle however many
\* calls were refused before and however late samples come, once the pilot rests.
THEOREM VehicleTakenFair ==
  ASSUME AutoArm, AutoMode
  PROVE  FairSystemSpec /\ PilotRests /\ []NewsComes /\ []RequestsPass /\ []UnderWay
           => VehicleTaken
<1>1. UnderControl <=> InMode /\ vehicleArmed
  BY DEF UnderControl, InMode
<1>2. ModeComes /\ ArmComes
  BY ModeTaken, ArmTaken
<1> QED
  BY <1>1, <1>2, PTL DEF ModeComes, ArmComes, VehicleTaken

-----------------------------------------------------------------------------
(* The node's own invariants among its vehicle, pilot and calls *)

\* A sample or the end of a call touches nothing the bearing, the gates, the holds and
\* the channels are judged by.
NodeSound == GatesSound /\ MotionFitsState

LEMMA NodeSoundNext ==
  ASSUME TypeOK, SystemTypeOK, NodeSound, [SystemNext]_systemVars
  PROVE  NodeSound'
<1> USE DEF NodeSound
<1>1. CASE [Next]_vars
  BY <1>1, GatesNext, MotionNext
<1>2. ASSUME \/ \E isArmed \in BOOLEAN, actual \in Modes :
                  OnVehicleState(TRUE, isArmed, actual)
             \/ UNCHANGED nodeAside
      PROVE  UNCHANGED <<gateVars, holdVars, state, lastCommand>>
  BY <1>2, CallEnds DEF OnVehicleState, sequence, output
<1>3. ASSUME UNCHANGED <<gateVars, holdVars, state, lastCommand>>
      PROVE  NodeSound'
  BY <1>3, GatesKept DEF MotionFitsState
<1> QED
  BY <1>1, <1>2, <1>3, NodeSees

LEMMA NodeSoundAlways == SystemSpec => []NodeSound
<1>1. SystemInit => NodeSound
  <2> SUFFICES ASSUME Init PROVE NodeSound
    BY DEF SystemInit
  <2>1. lastCommand = Stop
    BY DEF Init
  <2>2. Stop.forward = 0 /\ Stop.lateral = 0 /\ Stop.yaw = 0
    BY DEF Stop
  <2> QED
    BY <2>1, <2>2, GatesInit DEF NodeSound, MotionFitsState
<1>2. SystemTypeOK /\ NodeSound /\ [SystemNext]_systemVars => NodeSound'
  BY NodeSoundNext DEF SystemTypeOK
<1> QED
  BY <1>1, <1>2, SystemTypeCorrect, PTL DEF SystemSpec

\* Whatever the pilot and MAVROS do in between: the vehicle is steered by a bearing that
\* was confirmed since the last outage, and no thrust outlives the state it was given for.
THEOREM SystemSteersEarned == SystemSpec => [](BearingEarned /\ MotionFitsState)
<1>1. SystemTypeOK /\ BearingCounted /\ NodeSound => BearingEarned /\ MotionFitsState
  BY DEF BearingCounted, BearingEarned, NodeSound
<1> QED
  BY <1>1, SystemCorrect, NodeSoundAlways, PTL

\* Nor does an outage that the pilot makes in the middle of a hold leave it running, and
\* innovation is judged on one forward segment.
THEOREM SystemHolds == SystemSpec => [](HoldsUnbroken /\ WindowOfOneSegment)
<1>1. NodeSound => HoldsUnbroken /\ WindowOfOneSegment
  BY DEF NodeSound, GatesSound
<1> QED
  BY <1>1, NodeSoundAlways, PTL

\* Success is declared in range after a steering tick in range; then it is final, and the
\* node asks for nothing more: calls in flight only end.
SuccessAmongCalls ==
  [][/\ state \notin Succeeded /\ state' \in Succeeded => inRange /\ "range" \in saw
     /\ state \in Succeeded => state' \in Succeeded /\ requests' \subseteq requests]_systemVars

LEMMA SystemSuccessStep ==
  ASSUME SystemTypeOK, NodeSound, [SystemNext]_systemVars
  PROVE  /\ state \notin Succeeded /\ state' \in Succeeded => inRange /\ "range" \in saw
         /\ state \in Succeeded => state' \in Succeeded /\ requests' \subseteq requests
<1>1. CASE [Next]_vars
  BY <1>1, SuccessStep DEF NodeSound
<1>2. CASE \E isArmed \in BOOLEAN, actual \in Modes : OnVehicleState(TRUE, isArmed, actual)
  <2>1. UNCHANGED <<state, requests>>
    BY <1>2 DEF OnVehicleState, sequence, output
  <2> QED
    BY <2>1
<1>3. ASSUME UNCHANGED nodeAside, NEW request \in requests, requests' = requests \ {request}
      PROVE  UNCHANGED state /\ requests' \subseteq requests
  BY <1>3, CallEnds
<1> QED
  BY <1>1, <1>2, <1>3, NodeSees

\* The pilot's acts, late samples and late answers neither make a success nor undo one.
THEOREM SystemSuccess == SystemSpec => SuccessAmongCalls
<1>1. SystemTypeOK /\ NodeSound /\ [SystemNext]_systemVars =>
        [/\ state \notin Succeeded /\ state' \in Succeeded => inRange /\ "range" \in saw
         /\ state \in Succeeded => state' \in Succeeded /\ requests' \subseteq requests]_systemVars
  BY SystemSuccessStep
<1> QED
  BY <1>1, SystemTypeCorrect, NodeSoundAlways, PTL DEF SystemSpec, SuccessAmongCalls

-----------------------------------------------------------------------------
(* How far the documentation holds: after the end *)

\* After the mission the node asks for nothing, calls in flight only end, and when the
\* vehicle is armed by anybody but the pilot that answers a call sent before the end.
AnswersOnly ==
  /\ requests' \subseteq requests
  /\ vehicleArmed' /\ ~vehicleArmed /\ moves' = moves => "arm" \in requests
AfterTheEnd == [][(state \in Succeeded \cup Terminal) => AnswersOnly]_systemVars

\* An ended mission asks for nothing, whatever it learns of the vehicle.
LEMMA EndedAsksNothing ==
  ASSUME [Next]_vars, state \in Succeeded \cup Terminal
  PROVE  state' \in Succeeded \cup Terminal /\ requests' = requests
<1>1. CASE Callback \/ Passing
  BY <1>1 DEF Callback, OnSensor, OnStamped, Stamped, Refresh, OnSpeed, OnDeltaRange,
              OnIqMagnitude, OnVehicleState, Passing, Expire, TimerLapses, StageLapses,
              ForwardLapses, GateLapses, sequence, output
<1>2. CASE TickBrake \/ TickBrakeOver \/ TickTerminal \/ TickExit
  BY <1>2 DEF TickBrake, TickBrakeOver, TickTerminal, TickExit, Transition, sequence, Terminal
<1>3. ~TickMission
  <2>1. ~(\E from, driven : SteeringFrom(from, driven))
    BY DEF SteeringFrom, MeasuredAndConfirmed, Measured, TickAtEnd, TickReady, TickRunning
  <2> QED
    BY <2>1 DEF TickMission, TickTimeout, TickBlocked, TickStart, TickProbe, TickReject,
                TickUnconfirmed, Measured, TickAtEnd, TickReady, TickRunning, TickAlign,
                TickDepart, TickDrive, TickReestimate, TickSucceed, Steering
<1>4. CASE Exited \/ UNCHANGED vars
  BY <1>4 DEF Exited, vars, sequence, output
<1> QED
  BY <1>1, <1>2, <1>3, <1>4 DEF Next, ControlTick

LEMMA AfterTheEndStep ==
  ASSUME SystemTypeOK, [SystemNext]_systemVars, state \in Succeeded \cup Terminal
  PROVE  AnswersOnly
<1>1. requests' \subseteq requests
  <2>1. CASE [Next]_vars
    BY <2>1, EndedAsksNothing
  <2>2. CASE \E isArmed \in BOOLEAN, actual \in Modes : OnVehicleState(TRUE, isArmed, actual)
    BY <2>2 DEF OnVehicleState, output
  <2>3. CASE \E request \in requests : requests' = requests \ {request}
    BY <2>3
  <2> QED
    BY <2>1, <2>2, <2>3, NodeSees
<1>2. vehicleArmed' /\ ~vehicleArmed /\ moves' = moves => "arm" \in requests
  <2>1. CASE Arm
    BY <2>1 DEF Arm
  <2>2. CASE PilotActs
    <3>1. moves' = moves + 1 /\ moves \in Nat
      BY <2>2, PilotAssumption DEF PilotActs, SystemTypeOK
    <3>2. moves' # moves
      BY <3>1
    <3> QED
      BY <3>2, Zenon
  <2>3. CASE NodeTick \/ NodeHears \/ Sample \/ Deliver \/ SetMode \/ UNCHANGED systemVars
    BY <2>3 DEF NodeTick, NodeHears, Sample, Deliver, SetMode, systemVars, worldVars,
                vehicleVars
  <2> QED
    BY <2>1, <2>2, <2>3 DEF SystemNext
<1> QED
  BY <1>1, <1>2 DEF AnswersOnly

\* The mission ends while no call to arm is in flight.
EndsUncalled ==
  [][state \notin Succeeded \cup Terminal /\ state' \in Succeeded \cup Terminal
       => "arm" \notin requests']_systemVars
Uncalled == state \in Succeeded \cup Terminal => "arm" \notin requests

\* The comments of maybe_request_arm_mode fail for a call that is in flight when the
\* mission ends, and for nothing else: the node itself asks no more, success or failure,
\* so that every later arming answers such a call or is the pilot's, and a mission that
\* ends without one is as the comments say.
THEOREM SystemAfterTheEnd ==
  SystemSpec => AfterTheEnd /\ (EndsUncalled => ArmsDuringMission)
<1>1. SystemTypeOK /\ [SystemNext]_systemVars =>
        [(state \in Succeeded \cup Terminal) => AnswersOnly]_systemVars
  BY AfterTheEndStep
<1>2. SystemSpec => AfterTheEnd
  BY <1>1, SystemTypeCorrect, PTL DEF SystemSpec, AfterTheEnd
<1>3. SystemInit => Uncalled
  BY DEF SystemInit, Init, Uncalled
<1>4. /\ SystemTypeOK /\ Uncalled /\ [SystemNext]_systemVars
      /\ [state \notin Succeeded \cup Terminal /\ state' \in Succeeded \cup Terminal
            => "arm" \notin requests']_systemVars
      => Uncalled'
  <2> SUFFICES ASSUME SystemTypeOK, Uncalled, [SystemNext]_systemVars,
                      [state \notin Succeeded \cup Terminal /\ state' \in Succeeded \cup Terminal
                         => "arm" \notin requests']_systemVars
               PROVE  Uncalled'
    OBVIOUS
  <2>1. CASE UNCHANGED systemVars
    BY <2>1 DEF Uncalled, systemVars, nodeVars, vars, sequence, output
  <2>2. CASE state \in Succeeded \cup Terminal
    BY <2>2, AfterTheEndStep DEF Uncalled, AnswersOnly
  <2>3. CASE state \notin Succeeded \cup Terminal /\ ~UNCHANGED systemVars
    BY <2>3 DEF Uncalled
  <2> QED
    BY <2>1, <2>2, <2>3
<1>5. SystemTypeOK /\ Uncalled /\ [SystemNext]_systemVars =>
        [vehicleArmed' /\ ~vehicleArmed /\ moves' = moves
           => state \notin Succeeded \cup Terminal]_systemVars
  BY AfterTheEndStep DEF Uncalled, AnswersOnly
<1>6. SystemSpec /\ EndsUncalled => []Uncalled
  BY <1>3, <1>4, SystemTypeCorrect, PTL DEF SystemSpec, EndsUncalled
<1>7. SystemSpec /\ EndsUncalled => ArmsDuringMission
  BY <1>5, <1>6, SystemTypeCorrect, PTL DEF SystemSpec, ArmsDuringMission
<1> QED
  BY <1>2, <1>7

=============================================================================
