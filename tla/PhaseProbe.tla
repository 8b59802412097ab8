----------------------------- MODULE PhaseProbe -----------------------------
(***************************************************************************)
(* The ABBA pattern of the no_odom_phase mode: start_no_odom_probe,        *)
(* no_odom_probe_command and the part of on_delta_range that files a Phase *)
(* delta under the body axis that is being driven.                         *)
(*                                                                         *)
(* Time is discrete: the durations are counted in control ticks, and each  *)
(* tick looks at the timeline one unit later than the one before it.       *)
(* Between two ticks any number of deltas and speeds arrive.  Whether the  *)
(* finished pattern is used or repeated is left open: NoOdomHoming says.   *)
(***************************************************************************)
EXTENDS Integers, Sequences

CONSTANTS
  Settle,          (* no_odom_probe_settle_s_                                    *)
  Leg,             (* no_odom_probe_leg_s_                                       *)
  Neutral,         (* no_odom_probe_neutral_s_                                   *)
  SampleDelay,     (* no_odom_probe_sample_delay_s_, below the leg               *)
  NeutralDelay,    (* the same in a neutral gap, at most 60 % of it              *)
  Extension,       (* motion_response_probe_extension_s_                         *)
  MaxExtension,    (* motion_response_probe_max_extension_s_                     *)
  MotionResponse,  (* motion_response_enabled_                                   *)
  HorizontalOnly   (* no_odom_horizontal_only_                                   *)

ASSUME DurationsAssumption ==
  /\ Settle \in Nat \ {0} /\ Leg \in Nat \ {0} /\ Neutral \in Nat \ {0}
  /\ SampleDelay \in 0..(Leg - 1) /\ NeutralDelay \in 0..SampleDelay
  /\ Extension \in Nat \ {0} /\ MaxExtension \in Nat
ASSUME ProbeSwitchesAssumption ==
  MotionResponse \in BOOLEAN /\ HorizontalOnly \in BOOLEAN

VARIABLES
  probing,        (* state_ = "NO_ODOM_PHASE_PROBE"                              *)
  elapsed,        (* the age of the pattern at the latest tick                   *)
  extensions,     (* no_odom_probe_leg_extensions_s_                             *)
  axis,           (* no_odom_probe_axis_: 1 forward, 2 lateral, 3 heave, signed; *)
                  (* 0 when neutral                                              *)
  active,         (* no_odom_probe_active_leg_index_, 0 before the first leg     *)
  sampling,       (* no_odom_probe_sample_enabled_                               *)
  driven,         (* the axis of last_command_, 0 for the neutral command        *)
  speedFresh,     (* motion_response_feedback_fresh()                            *)
  moving          (* the last speed reached motion_response_min_speed_mps_       *)

\* History variables: they record what happened and no action reads them.
VARIABLES
  held,           (* ticks since driven last changed, up to Leg                  *)
  ticks,          (* ticks that drove each leg of this pattern, up to Leg        *)
  misfiled,       (* a delta of this pattern was filed under another axis        *)
  rushed          (* a delta was filed before the transient of a change was over *)

timeline == <<elapsed, extensions, axis, active, sampling>>
sensed == <<speedFresh, moving>>
history == <<held, ticks, misfiled, rushed>>
vars == <<probing, timeline, driven, sensed, history>>

-----------------------------------------------------------------------------
(* The timeline *)

\* Each body axis forward, backward, backward, forward.
Axes ==
  IF HorizontalOnly THEN <<1, -1, -1, 1, 2, -2, -2, 2>>
  ELSE <<1, -1, -1, 1, 2, -2, -2, 2, 3, -3, -3, 3>>
Legs == DOMAIN Axes

\* Mutation: an extension does not delay the legs after it.
UndelayedBegin ==
  LET begin[i \in Legs] == IF i = 1 THEN Settle ELSE begin[i - 1] + Leg + Neutral
  IN begin
\* begin[i]: when leg i begins, each leg before it followed by its gap.
Begin ==
  LET begin[i \in Legs] ==
        IF i = 1 THEN Settle ELSE begin[i - 1] + Leg + extensions[i - 1] + Neutral
  IN begin
End(i) == Begin[i] + Leg + extensions[i]

Slow == MotionResponse /\ speedFresh /\ ~moving

InLeg(i, t) == Begin[i] <= t /\ t < End(i)
\* Mutation: the gap takes in the moment that ends it.
InGapToItsEnd(i, t) == End(i) <= t /\ t <= End(i) + Neutral
InGap(i, t) == End(i) <= t /\ t < End(i) + Neutral
\* The loop looks at every leg that has ended, the one under way comes last.
Overdue(i, t) == Slow /\ extensions[i] < MaxExtension /\ End(i) <= t

\* Where the loop over the legs stops.
StopsAt(i, t) == InLeg(i, t) \/ Overdue(i, t) \/ InGap(i, t)
Reached(i, t) == StopsAt(i, t) /\ \A j \in 1..(i - 1) : ~StopsAt(j, t)
Complete(t) == Settle <= t /\ \A i \in Legs : ~StopsAt(i, t)

\* Mutation: the last extension is not cut to what is left.
WholeExtension(extension) == Extension
Extend(extension) ==
  IF MaxExtension - extension < Extension THEN MaxExtension - extension ELSE Extension

-----------------------------------------------------------------------------
(* Effects *)

\* publish_command: the last command becomes the one of this axis.
Drive(next) ==
  /\ driven' = next
  /\ held' = IF next # driven THEN 0 ELSE IF held < Leg THEN held + 1 ELSE held

\* start_no_odom_probe.
StartProbe ==
  /\ probing' = TRUE
  /\ elapsed' = 0 /\ extensions' = [i \in Legs |-> 0]
  /\ axis' = 0 /\ active' = 0 /\ sampling' = FALSE
  /\ ticks' = [i \in Legs |-> 0] /\ misfiled' = FALSE /\ rushed' = FALSE

\* The tick drives leg i.
DriveLeg(i) ==
  /\ axis' = Axes[i] /\ active' = i
  /\ Drive(Axes[i])
  /\ ticks' = [ticks EXCEPT ![i] = IF @ < Leg THEN @ + 1 ELSE @]

-----------------------------------------------------------------------------
(* control_tick *)

\* The next tick of a pattern that goes on.
Goes == probing /\ elapsed' = elapsed + 1 /\ UNCHANGED <<probing, sensed>>

TickSettle ==
  /\ Goes /\ elapsed' < Settle
  /\ axis' = 0 /\ sampling' = FALSE
  /\ Drive(0)
  /\ UNCHANGED <<extensions, active, ticks, misfiled, rushed>>

TickLeg ==
  \E i \in Legs :
    /\ Goes /\ Settle <= elapsed' /\ InLeg(i, elapsed') /\ Reached(i, elapsed')
    /\ DriveLeg(i)
    /\ sampling' = (elapsed' - Begin[i] >= SampleDelay /\ ~Slow)
    /\ UNCHANGED <<extensions, misfiled, rushed>>

\* A vehicle that is slow when a leg is over drives on along it.
TickExtend ==
  \E i \in Legs :
    /\ Goes /\ Settle <= elapsed' /\ Overdue(i, elapsed') /\ Reached(i, elapsed')
    /\ extensions' = [extensions EXCEPT ![i] = @ + Extend(@)]
    /\ DriveLeg(i)
    /\ sampling' = FALSE
    /\ UNCHANGED <<misfiled, rushed>>

GapIsNeutral(i) == axis' = 0

\* Mutation: the gap is sampled from its first tick.
GapSettledAtOnce(i, t) == TRUE
GapSettled(i, t) == t - End(i) >= NeutralDelay

TickGap ==
  \E i \in Legs :
    /\ Goes /\ Settle <= elapsed' /\ InGap(i, elapsed') /\ Reached(i, elapsed')
    /\ ~Overdue(i, elapsed')
    /\ GapIsNeutral(i)
    /\ sampling' = GapSettled(i, elapsed')
    /\ Drive(0)
    /\ UNCHANGED <<extensions, active, ticks, misfiled, rushed>>

\* The pattern is over and its fit is used ...
TickAccept ==
  /\ probing /\ Complete(elapsed + 1)
  /\ probing' = FALSE /\ elapsed' = elapsed + 1
  /\ axis' = 0 /\ sampling' = FALSE
  /\ Drive(0)
  /\ UNCHANGED <<extensions, active, sensed, ticks, misfiled, rushed>>

\* ... or rejected, or not yet confirmed.
TickRepeat ==
  /\ probing /\ Complete(elapsed + 1)
  /\ StartProbe
  /\ Drive(0)
  /\ UNCHANGED sensed

\* A required input is missing: no_odom_phase_tick leaves everything but the axis.
TickBlocked ==
  /\ probing /\ probing' = FALSE
  /\ axis' = 0
  /\ Drive(0)
  /\ UNCHANGED <<elapsed, extensions, active, sampling, sensed, ticks, misfiled, rushed>>

\* A vehicle that is ready, or one of the gates of the approach, starts a pattern.
TickStart ==
  /\ ~probing
  /\ StartProbe
  /\ Drive(0)
  /\ UNCHANGED sensed

-----------------------------------------------------------------------------
(* Subscription callbacks *)

\* on_delta_range: while samples are wanted the delta is filed under the axis,
\* next to the command of the moment.
Transient(which) == IF which = 0 THEN NeutralDelay ELSE SampleDelay
OnDeltaRange ==
  /\ probing /\ sampling
  /\ misfiled' = (misfiled \/ axis # driven)
  /\ rushed' = (rushed \/ held < Transient(axis))
  /\ UNCHANGED <<probing, timeline, driven, sensed, held, ticks>>

OnSpeed ==
  /\ MotionResponse
  /\ speedFresh' = TRUE /\ moving' \in BOOLEAN
  /\ UNCHANGED <<probing, timeline, driven, history>>

SpeedExpires ==
  /\ speedFresh /\ speedFresh' = FALSE
  /\ UNCHANGED <<probing, timeline, driven, moving, history>>

-----------------------------------------------------------------------------
Init ==
  /\ probing = FALSE /\ elapsed = 0 /\ extensions = [i \in Legs |-> 0]
  /\ axis = 0 /\ active = 0 /\ sampling = FALSE /\ driven = 0
  /\ speedFresh = FALSE /\ moving = FALSE
  /\ held = 0 /\ ticks = [i \in Legs |-> 0] /\ misfiled = FALSE /\ rushed = FALSE

ControlTick ==
  \/ TickSettle \/ TickLeg \/ TickExtend \/ TickGap
  \/ TickAccept \/ TickRepeat \/ TickBlocked \/ TickStart

Next == ControlTick \/ OnDeltaRange \/ OnSpeed \/ SpeedExpires

Spec == Init /\ [][Next]_vars

-----------------------------------------------------------------------------
(* Safety *)

PatternAxes == {Axes[i] : i \in Legs} \cup {0}

\* Every variable is in its domain; above all no leg is extended past its maximum.
TypeOK ==
  /\ probing \in BOOLEAN /\ elapsed \in Nat
  /\ extensions \in [Legs -> 0..MaxExtension]
  /\ axis \in PatternAxes /\ active \in Legs \cup {0} /\ sampling \in BOOLEAN
  /\ driven \in PatternAxes /\ speedFresh \in BOOLEAN /\ moving \in BOOLEAN
  /\ held \in 0..Leg /\ ticks \in [Legs -> 0..Leg]
  /\ misfiled \in BOOLEAN /\ rushed \in BOOLEAN

\* However slow the vehicle stays, the pattern is over with its last gap: a leg that asks
\* for more time when it has had its extension does not keep it going.
PatternBounded == elapsed <= End(Len(Axes)) + Neutral

\* Every delta of the pattern is filed under the axis that was driven when it came.
FiledUnderDriven == ~misfiled

\* Unless a leg was extended, no delta is filed before the vehicle has followed the
\* latest change of the command for the sample delay.
TransientsDiscarded == (\A i \in Legs : extensions[i] = 0) => ~rushed

\* A pattern that is used or repeated drove each of its legs for its whole time,
\* whatever was extended in between: ABBA stays complete.
LegsDrivenInFull ==
  [][TickAccept \/ TickRepeat => \A i \in Legs : ticks[i] = Leg]_vars

-----------------------------------------------------------------------------
(* What the documentation says of the program *)

\* README.md of the controller: of a slow leg "that same leg is extended"; the
\* pattern never returns to a leg that it has left.
LegsAdvance == [][probing /\ probing' /\ elapsed' > elapsed => active' >= active]_vars

=============================================================================
