------------------------- MODULE MCRecognitionPipeline -------------------------
(***************************************************************************)
(* RecognitionPipeline with thresholds of a few frames: a feed of 3        *)
(* samples fills one frame or two, one of 15 can close two segments.       *)
(***************************************************************************)
EXTENDS RecognitionPipeline
=============================================================================
