--------------------------- MODULE AudioEstimator ----------------------------
(***************************************************************************)
(* pinger_audio_estimator.cpp: windows of the audio stream are demodulated *)
(* with the selected carrier, and the Phase difference of two windows is   *)
(* published as a delta range.                                             *)
(*                                                                         *)
(* The length of a stretch of audio is counted in units of which Window    *)
(* and Hop are multiples.  Whether the carrier stands out in a window is   *)
(* left open; the numbers are not modelled, only what they were taken from.*)
(***************************************************************************)
EXTENDS Integers, Sequences

CONSTANTS
  Window, Hop,       (* window_size_, hop_size_                                  *)
  Carriers,          (* frequencies that may be selected                         *)
  DefaultCarrier,    (* reference_frequency_hz                                   *)
  RequireSelection,  (* require_selection_                                       *)
  Silence            (* what is there before the first unit                      *)

ASSUME EstimatorAssumption ==
  /\ Window \in Nat \ {0} /\ Hop \in 1..Window
  /\ DefaultCarrier \in Carriers /\ RequireSelection \in BOOLEAN

VARIABLES
  carrier,       (* reference_frequency_                                         *)
  carrierKnown,  (* selected_frequency_                                          *)
  samples,       (* samples_                                                     *)
  previous       (* previous_iq_, NoIq when have_previous_iq_ is false; with the *)
                 (* carrier it was taken with and its distance to the next       *)
                 (* window in hops                                               *)

\* History variables.
VARIABLES
  past,    (* the last hop that has left samples_                                *)
  skewed   (* a delta compared windows more than a hop or a carrier apart        *)

estimatorVars == <<carrier, carrierKnown, samples, previous, past, skewed>>

NoIq == [carrier |-> "none", hops |-> 0]

-----------------------------------------------------------------------------
\* The selection callback.
SelectCarrier ==
  /\ \E selection \in Carriers : carrier' = selection
  /\ carrierKnown' = TRUE /\ previous' = NoIq
  /\ UNCHANGED <<samples, past, skewed>>

-----------------------------------------------------------------------------
(* on_audio *)

\* Mutation: a window waits for a unit more.
WindowsPast(length) == IF length <= Window THEN 0 ELSE (length - Window - 1) \div Hop + 1
\* The windows in so many units.
WindowsIn(length) == IF length < Window THEN 0 ELSE (length - Window) \div Hop + 1

\* Mutation: a weak window is passed over.
IqAfterAny(iq, strong) ==
  IF strong THEN [carrier |-> carrier, hops |-> 1]
  ELSE IF iq = NoIq THEN NoIq ELSE [iq EXCEPT !.hops = 2]
\* analyze_window: what the next window is compared with.
IqAfter(iq, strong) ==
  IF strong THEN [carrier |-> carrier, hops |-> 1] ELSE NoIq

\* iq[i]: what window i of a message is compared with.
IqBefore(strong) ==
  LET iq[i \in 1..(Len(strong) + 1)] ==
        IF i = 1 THEN previous ELSE IqAfter(iq[i - 1], strong[i - 1])
  IN iq

\* The windows of a message that yield a delta; before a selection none is looked at.
Yields(strong) ==
  {i \in 1..Len(strong) : carrierKnown /\ strong[i] /\ IqBefore(strong)[i] # NoIq}

\* What the delta of window i was taken from.
Span(message, i) ==
  SubSeq(past \o samples \o message, (i - 1) * Hop + 1, i * Hop + Window)

\* strong: in which of the windows of the message the carrier stands out.
Strengths(message) ==
  [1..WindowsIn(Len(samples) + Len(message)) -> BOOLEAN]

OnAudio(message, strong) ==
  LET length  == Len(samples) + Len(message)
      dropped == Len(strong) * Hop
  IN /\ samples' = SubSeq(samples \o message, dropped + 1, length)
     /\ past' = SubSeq(past \o samples \o message, dropped + 1, dropped + Hop)
     /\ previous' = IF carrierKnown THEN IqBefore(strong)[Len(strong) + 1] ELSE previous
     /\ skewed' = (skewed \/ \E i \in Yields(strong) :
                              IqBefore(strong)[i] # [carrier |-> carrier, hops |-> 1])
     /\ UNCHANGED <<carrier, carrierKnown>>

-----------------------------------------------------------------------------
EstimatorInit ==
  /\ carrier = DefaultCarrier /\ carrierKnown = ~RequireSelection
  /\ samples = <<>> /\ previous = NoIq
  /\ past = [i \in 1..Hop |-> Silence] /\ skewed = FALSE

\* Every variable is in its domain; above all less than a window waits between two
\* messages, so that no message finds old audio before it.
EstimatorTypeOK ==
  /\ carrier \in Carriers /\ carrierKnown \in BOOLEAN
  /\ Len(samples) < Window /\ Len(past) = Hop
  /\ previous \in {NoIq} \cup [carrier : Carriers, hops : {1, 2}]
  /\ skewed \in BOOLEAN

\* Every delta is the Phase difference of one carrier over one hop, whichever windows
\* were too weak and whenever the carrier was selected anew.
DeltaSpansOneHop == ~skewed

=============================================================================
