---------------------------- MODULE HomingSystem ----------------------------
(***************************************************************************)
(* The controller together with what it works on: the vehicle and its      *)
(* pilot, the /mavros/state samples on their way to the node and the       *)
(* MAVROS service calls on their way back.  The node sees the vehicle as   *)
(* it was when the sample it last got was taken, and what it asks for      *)
(* happens later, is refused or is lost, so that it acts on a vehicle that *)
(* may have changed in between.                                            *)
(*                                                                         *)
(* The node is NoOdomHoming; maybe_request_arm_mode and publish_command    *)
(* are the same code in both navigation modes.  MAVROS, the autopilot and  *)
(* the pilot are not part of this repository: they do whatever the node's  *)
(* callbacks and requests leave room for.                                  *)
(***************************************************************************)
EXTENDS NoOdomHoming

CONSTANT PilotMoves  (* how often the pilot interferes: bounds a run *)

ASSUME PilotAssumption == PilotMoves \in Nat

VARIABLES
  vehicleArmed,   (* the vehicle is armed                                        *)
  vehicleMode,    (* its flight mode                                             *)
  link,           (* the newest sample not yet delivered, or {}: state_sub_ is   *)
                  (* KeepLast(1), a newer sample replaces it                     *)
  moves           (* what the pilot has done                                     *)

\* History variable: the pilot has taken the vehicle out of the required mode.
VARIABLE takenOver

nodeVars    == vars
vehicleVars == <<vehicleArmed, vehicleMode>>
worldVars   == <<vehicleVars, link, moves, takenOver>>
systemVars  == <<nodeVars, worldVars>>

\* Everything of the node but its requests in flight.
nodeAside == <<linkInputs, sensedVars, sequence, runtime, bearingVars, probeVars,
               gateVars, holdVars, service, lastCommand, rc, halted>>

-----------------------------------------------------------------------------
(* The node *)

NodeTick == UNCHANGED worldVars /\ ControlTick
NodeHears == UNCHANGED worldVars /\ (OnSensor \/ Passing)

-----------------------------------------------------------------------------
(* /mavros/state *)

\* MAVROS publishes what the vehicle is now.
Sample ==
  /\ link' = {[armed |-> vehicleArmed, mode |-> vehicleMode]}
  /\ UNCHANGED <<nodeVars, vehicleVars, moves, takenOver>>

Deliver ==
  /\ \E sample \in link : OnVehicleState(TRUE, sample.armed, sample.mode)
  /\ link' = {}
  /\ UNCHANGED <<vehicleVars, moves, takenOver>>

-----------------------------------------------------------------------------
(* MAVROS services: calls are answered in any order, at any later time, and   *)
(* may be refused                                                            *)

SetMode ==
  /\ "set_mode" \in requests /\ requests' = requests \ {"set_mode"}
  /\ vehicleMode' \in {vehicleMode, RequiredMode}
  /\ UNCHANGED <<nodeAside, vehicleArmed, link, moves, takenOver>>

Arm ==
  /\ "arm" \in requests /\ requests' = requests \ {"arm"}
  /\ vehicleArmed' \in {vehicleArmed, TRUE}
  /\ UNCHANGED <<nodeAside, vehicleMode, link, moves, takenOver>>

-----------------------------------------------------------------------------
(* The pilot *)

PilotActs ==
  /\ moves < PilotMoves /\ moves' = moves + 1
  /\ \/ vehicleMode' \in Modes \ {vehicleMode}
        /\ takenOver' = (takenOver \/ vehicleMode = RequiredMode)
        /\ UNCHANGED vehicleArmed
     \/ vehicleArmed' = ~vehicleArmed
        /\ UNCHANGED <<vehicleMode, takenOver>>
  /\ UNCHANGED <<nodeVars, link>>

-----------------------------------------------------------------------------
SystemInit ==
  /\ Init
  /\ vehicleArmed \in BOOLEAN /\ vehicleMode \in Modes
  /\ link = {} /\ moves = 0 /\ takenOver = FALSE

SystemNext ==
  NodeTick \/ NodeHears \/ Sample \/ Deliver \/ SetMode \/ Arm \/ PilotActs

SystemSpec == SystemInit /\ [][SystemNext]_systemVars

\* The node's timers fire and its clock runs: a sample is delivered, or the one it
\* holds grows stale.  MAVROS owes nothing, not even another sample.
Learns == Deliver \/ (UNCHANGED worldVars /\ Expire("vehicle"))
SystemFairness == WF_systemVars(NodeTick) /\ WF_systemVars(Learns)

FairSystemSpec == SystemSpec /\ SystemFairness

UnderControl == vehicleArmed /\ vehicleMode = RequiredMode

-----------------------------------------------------------------------------
(* Properties *)

\* Every variable is in its domain, the node's included.
SystemTypeOK ==
  /\ TypeOK
  /\ vehicleArmed \in BOOLEAN /\ vehicleMode \in Modes
  /\ link \subseteq [armed : BOOLEAN, mode : Modes] /\ Cardinality(link) <= 1
  /\ moves \in 0..PilotMoves /\ takenOver \in BOOLEAN

\* Left to itself the node arms the vehicle in the required mode only, however late
\* samples and answers are and whichever call is refused: a pilot who takes the
\* vehicle out of that mode is the one way around it.
ArmsInRequiredMode ==
  [][vehicleArmed' /\ ~vehicleArmed /\ moves' = moves
       => vehicleMode = RequiredMode \/ takenOver]_systemVars

\* A pilot who finally disarms the vehicle has all RC channels released, however late
\* samples and answers are, and so has a vehicle whose state finally stops coming.
ChannelsReturned ==
  <>[](~vehicleArmed) \/ <>[](~fresh["vehicle"]) => <>[](rc = "release")

\* A pilot who finally keeps the armed vehicle in another mode is not driven any more,
\* but does not have the channels either: as long as the node hears of the vehicle it
\* holds every one of them at neutral and releases none.  At the depth limit its exit
\* may be the last to command, but that releases the channels.
NeutralElsewhere ==
  <>[](vehicleArmed /\ vehicleMode # RequiredMode) =>
    /\ <>[](lastCommand = Stop \/ rc = "release")
    /\ <>[]fresh["vehicle"] => <>[](halted \/ rc = "pwm")

\* MAVROS goes on reporting and finally accepts a call that is made again and again.
AcceptMode == SetMode /\ vehicleMode' = RequiredMode
AcceptArm == Arm /\ vehicleArmed'
MavrosAnswers ==
  WF_systemVars(Sample) /\ SF_systemVars(AcceptMode) /\ SF_systemVars(AcceptArm)

\* The service clock runs, and a tick that has something to ask for comes while the
\* sample is fresh and the service ready.
ServiceClock == UNCHANGED worldVars /\ TimerLapses /\ service' # service
AskingTick == RequestDue /\ WantedRequest # {} /\ NodeTick /\ requests' # requests
NodeAsks == WF_systemVars(ServiceClock) /\ SF_systemVars(AskingTick)

\* With auto_mode and auto_arm a mission under way gets hold of its vehicle, whatever
\* the pilot did and however many calls were refused before.
VehicleTaken == MavrosAnswers /\ NodeAsks => []<>UnderControl

-----------------------------------------------------------------------------
(* What the progress rests on *)

\* A node that sends another kind of frame than it should, or drives a vehicle out of its
\* hands, has a tick with an outcome.
NodeAnswers ==
  ~halted /\ (rc # OutputKind \/ (lastCommand # Stop /\ ~LiveControlReady))
    => ENABLED <<NodeTick>>_systemVars

\* A sample on its way is delivered or the last one grows stale; a new one can follow.
NewsComes ==
  /\ ~halted /\ (link # {} \/ fresh["vehicle"]) => ENABLED <<Learns>>_systemVars
  /\ link = {} => ENABLED <<Sample>>_systemVars

\* A mission under way can ask for what it wants and has not asked for, a second after
\* its last request, and MAVROS can accept what has been asked for.
UnderWay == ~halted /\ state \notin Succeeded \cup Terminal
RequestsPass ==
  /\ ~halted /\ service = "running" => ENABLED <<ServiceClock>>_systemVars
  /\ UnderWay /\ RequestDue /\ ~(WantedRequest \subseteq requests)
       => ENABLED <<AskingTick>>_systemVars
  /\ "set_mode" \in requests => ENABLED <<AcceptMode>>_systemVars
  /\ "arm" \in requests => ENABLED <<AcceptArm>>_systemVars

-----------------------------------------------------------------------------
(* What the documentation says of the program *)

\* Comments of maybe_request_arm_mode: automatic arming "belongs to an active homing
\* session only", and no request may "take effect after [...] ownership has ended".
ArmsDuringMission ==
  [][vehicleArmed' /\ ~vehicleArmed /\ moves' = moves
       => state \notin Succeeded \cup Terminal]_systemVars

=============================================================================
