------------------------- MODULE VehicleLink_proofs -------------------------
(***************************************************************************)
(* What publish_command and maybe_request_arm_mode leave behind, for the   *)
(* proofs about both navigation modes.                                     *)
(***************************************************************************)
EXTENDS VehicleLink, TLAPS

\* The depth limiter changes nothing but the heave of a command.
LEMMA RealizedOK ==
  ASSUME NEW requested \in Command, NEW realized \in Realized(requested)
  PROVE  /\ realized \in Command
         /\ realized = Stop \/ (/\ realized.forward = requested.forward
                                /\ realized.lateral = requested.lateral
                                /\ realized.yaw = requested.yaw)
<1>1. \A depth \in DepthReadings : LimitHeave(requested.heave, depth) \in {-1, 0, 1}
  BY DEF LimitHeave, Command
<1>2. CASE OutputEnabled
  <2>1. PICK depth \in DepthReadings :
          realized = [requested EXCEPT !.heave = LimitHeave(requested.heave, depth)]
    BY <1>2 DEF Realized
  <2> QED
    BY <1>1, <2>1 DEF Command
<1>3. CASE ~OutputEnabled
  BY <1>3 DEF Realized, Stop, Command
<1> QED
  BY <1>2, <1>3

LEMMA PublishOK ==
  ASSUME NEW requested \in Command, Publish(requested)
  PROVE  lastCommand' \in Command /\ rc' \in {"none", "release", "pwm"}
<1>1. lastCommand' \in Command
  BY RealizedOK DEF Publish
<1>2. rc' \in {"none", "release", "pwm"}
  BY DEF Publish, OutputKind
<1> QED
  BY <1>1, <1>2

LEMMA RequestOK ==
  ASSUME service \in Timer, requests \subseteq {"set_mode", "arm"}, RequestArmMode
  PROVE  service' \in Timer /\ requests' \subseteq {"set_mode", "arm"}
BY DEF RequestArmMode, WantedRequest, Timer

=============================================================================
