---------------------------- MODULE MCPhaseProbe ----------------------------
(***************************************************************************)
(* The pattern over the two horizontal axes, one time unit per control     *)
(* tick: legs of three ticks, two of them transient, gaps of two ticks,    *)
(* one of them transient, and room for one tick of extension on every leg, *)
(* which the vehicle asks for in steps of two.                             *)
(***************************************************************************)
EXTENDS PhaseProbe

=============================================================================
