----------------------------- MODULE MCStartup -------------------------------
(***************************************************************************)
(* Two tones in a band of five frequencies.  The answers: a number that    *)
(* may or may not have its candidate, a frequency of the band without a    *)
(* tone, and one outside.  Messages of one and of three frames fill no,    *)
(* one or two windows of two frames that overlap by one.                   *)
(***************************************************************************)
EXTENDS PingerStartup

MCTones == {20, 22}
MCFrames == {1, 3}
MCAnswers == {2, 21, 30}

=============================================================================
