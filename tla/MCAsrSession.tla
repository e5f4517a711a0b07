---------------------------- MODULE MCAsrSession ----------------------------
(* AsrSession with small values for TLC. *)
EXTENDS AsrSession

SpanSet == {<<0, 1>>}
UpToTwoHops == {1, 2}
SomeSilences == {1}
=============================================================================
