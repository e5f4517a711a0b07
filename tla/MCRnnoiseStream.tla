---------------------------- MODULE MCRnnoiseStream ----------------------------
(***************************************************************************)
(* RnnoiseStream with short frames, and chunks shorter, as long as and     *)
(* longer than a frame.                                                    *)
(***************************************************************************)
EXTENDS RnnoiseStream

Chunks == {0, 1, 3, 4, 6, 9}
=============================================================================
