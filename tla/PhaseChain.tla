----------------------------- MODULE PhaseChain ------------------------------
(***************************************************************************)
(* From the water to the fit: the audio recorded while the pattern drives  *)
(* its legs, on its way to the estimator, and the deltas filed under the   *)
(* axis that is driven when they arrive.  Neither the audio nor the deltas *)
(* carry the time they were recorded, so what a delta says of an axis      *)
(* rests on the sample delays alone.                                       *)
(*                                                                         *)
(* One unit of audio is recorded between two ticks.  It reaches the        *)
(* estimator in packets, at most Latency units late, the way of the delta  *)
(* included; audio is best effort, and a packet may be lost.               *)
(***************************************************************************)
EXTENDS PhaseProbe, AudioEstimator, FiniteSets

CONSTANTS
  Latency,        (* the units that may be on their way                          *)
  SlowLegs        (* how many legs of a pattern may be extended: bounds a run    *)

ASSUME ChainAssumption == Latency \in Nat \ {0} /\ SlowLegs \in Nat

\* The deployed delays of 0.40 s in a leg and 0.21 s in a gap outlast a window of 43 ms, a
\* hop of 21 ms and what the transport takes.
ASSUME DelaysAssumption == Window + Hop + Latency <= NeutralDelay + 1

VARIABLES
  recorded,  (* the units on their way: the axis that was driven then             *)
  foreign    (* history: a delta of this pattern was filed under an axis other    *)
             (* than the one it was recorded under                                *)

chainVars == <<vars, estimatorVars, recorded, foreign>>

\* A delta that was taken from audio before and after a loss says nothing of an axis.
Unknown == 99

-----------------------------------------------------------------------------
\* A tick ends an interval: what was recorded in it sets out.
Tick ==
  /\ Len(recorded) < Latency /\ recorded' = Append(recorded, driven)
  /\ ControlTick /\ Cardinality({i \in Legs : extensions'[i] > 0}) <= SlowLegs
  /\ foreign' = (foreign /\ elapsed' # 0)
  /\ UNCHANGED estimatorVars

Recorded(span) == {span[i] : i \in DOMAIN span}

\* on_audio, and on_delta_range for each of its deltas.
Hear ==
  \E n \in 1..Len(recorded) :
    LET packet == SubSeq(recorded, 1, n) IN
      \E strong \in Strengths(packet) :
        LET axes == {Recorded(Span(packet, i)) : i \in Yields(strong)} IN
          /\ OnAudio(packet, strong)
          /\ IF axes # {} /\ probing /\ sampling
             THEN /\ OnDeltaRange
                  /\ foreign' = (foreign \/ \E s \in axes : Unknown \notin s /\ s # {axis})
             ELSE UNCHANGED <<vars, foreign>>
          /\ recorded' = SubSeq(recorded, n + 1, Len(recorded))

\* The estimator joins what comes next to the audio it has: nothing tells it of the loss.
Lose ==
  /\ \E n \in 1..Len(recorded) : recorded' = SubSeq(recorded, n + 1, Len(recorded))
  /\ samples' = [i \in DOMAIN samples |-> Unknown]
  /\ past' = [i \in DOMAIN past |-> Unknown]
  /\ UNCHANGED <<vars, carrier, carrierKnown, previous, skewed, foreign>>

Select == SelectCarrier /\ UNCHANGED <<vars, recorded, foreign>>

Speed == (OnSpeed \/ SpeedExpires) /\ UNCHANGED <<estimatorVars, recorded, foreign>>

-----------------------------------------------------------------------------
ChainInit == Init /\ EstimatorInit /\ recorded = <<>> /\ foreign = FALSE

ChainNext == Tick \/ Hear \/ Lose \/ Select \/ Speed

ChainSpec == ChainInit /\ [][ChainNext]_chainVars

-----------------------------------------------------------------------------
(* Properties *)

\* Every variable is in its domain, the pattern's and the estimator's included.
ChainTypeOK ==
  /\ TypeOK /\ EstimatorTypeOK
  /\ recorded \in Seq(PatternAxes) /\ Len(recorded) <= Latency
  /\ foreign \in BOOLEAN

\* While no leg has been extended, a delta is filed only under the axis that was driven
\* for all of the audio it was taken from: the sample delays outlast the window, the
\* hop and the latency.  A delta across a loss says nothing, and is filed as well.
RecordedUnderFiled == (\A i \in Legs : extensions[i] = 0) => ~foreign

=============================================================================
