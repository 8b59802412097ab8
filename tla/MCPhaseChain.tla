----------------------------- MODULE MCPhaseChain ----------------------------
(***************************************************************************)
(* The pattern over the two horizontal axes, one unit of audio per control *)
(* tick: legs of four ticks and gaps of five, three of them transient,     *)
(* which is as short as a window of two units, a hop of one and a latency  *)
(* of one allow; room for one tick of extension on a leg, which the        *)
(* vehicle asks for in steps of two, on any two of the legs; two carriers. *)
(***************************************************************************)
EXTENDS PhaseChain

MCCarriers == {"first", "second"}
MCSilence == Unknown

=============================================================================
