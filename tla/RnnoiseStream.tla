----------------------------- MODULE RnnoiseStream -----------------------------
(***************************************************************************)
(* The streaming denoiser (src/core/rnnoise_denoise.py,                    *)
(* RnnoiseStreamProcessor): chunks of any length go in, they are cut into  *)
(* frames, every frame is processed in a window of two frames and added to *)
(* the output with an overlap of one frame, and process() returns what no  *)
(* later window will change.                                               *)
(*                                                                         *)
(* The signal processing is left out.  A sample is its position in the     *)
(* input, and a sample of the output is the sequence of the input samples  *)
(* that the windows added there, None standing for silence.                *)
(*                                                                         *)
(* A call runs in the thread pool while its session awaits it, so no two   *)
(* calls on one processor overlap and a call is one action.  The processor *)
(* has two kinds of callers: a recognition session, which ends its stream  *)
(* without flush(), and the batch code, which calls flush() at the end.    *)
(***************************************************************************)
EXTENDS Integers, Sequences, SequencesExt

CONSTANTS
    FRAME_SIZE,   \* samples of a frame, half of WINDOW_SIZE
    ChunkSizes,   \* samples a chunk may have
    MaxSamples    \* bound: samples of one stream

ASSUME FrameSizeAssumption == FRAME_SIZE \in Nat \ {0}
ASSUME ChunkSizesAssumption == ChunkSizes \subseteq Nat
ASSUME MaxSamplesAssumption == MaxSamples \in Nat

VARIABLES
    caller,     \* who owns the processor
    pc,         \* where the caller is
    processor,  \* the RnnoiseStreamProcessor
    received,   \* samples that went in
    returned    \* everything process() and flush() returned, in order

vars == <<caller, pc, processor, received, returned>>

WINDOW_SIZE == 2 * FRAME_SIZE
None == -1
Silence(n) == [i \in 1..n |-> None]

-----------------------------------------------------------------------------
\* Mutated form of Slid: the window does not move before the frame is put in.
SlidNowhere(window, frame) == SubSeq(window, 1, FRAME_SIZE) \o frame

\* The analysis window moves one frame to the left and takes the new frame.
Slid(window, frame) == SubSeq(window, FRAME_SIZE + 1, WINDOW_SIZE) \o frame

\* Overlap-add: the output grows to the end of the window, which is added.
Added(output, offset, window) ==
    [q \in 1 .. offset + WINDOW_SIZE |->
        LET before == IF q <= Len(output) THEN output[q] ELSE <<>>
        IN  IF q > offset THEN Append(before, window[q - offset]) ELSE before]

ProcessOneFrame(p, frame) ==
    LET window == Slid(p.analysis_buf, frame)
    IN  [p EXCEPT !.analysis_buf = window,
                  !.output = Added(@, p.frame_idx * FRAME_SIZE, window),
                  !.frame_idx = @ + 1]

\* Mutated form of Ready: everything that has been written.
ReadyAll(p) == Len(p.output)

\* What process() may return: the last window's second half waits for the next.
Ready(p) == p.frame_idx * FRAME_SIZE

\* Return what is ready and was not returned yet.
Return(p, ready) ==
    /\ returned' = returned \o SubSeq(p.output, p.cursor + 1, ready)
    /\ processor' = [p EXCEPT !.cursor = IF ready <= @ THEN @ ELSE ready]

Frame(chunk, k) == SubSeq(chunk, (k - 1) * FRAME_SIZE + 1, k * FRAME_SIZE)

\* The whole frames of a chunk are processed one by one, the rest is kept.
Processed(p, chunk) ==
    LET frames == Len(chunk) \div FRAME_SIZE
        after[k \in 0 .. frames] ==
            IF k = 0 THEN p ELSE ProcessOneFrame(after[k - 1], Frame(chunk, k))
    IN  [after[frames] EXCEPT !.leftover = SubSeq(chunk, frames * FRAME_SIZE + 1, Len(chunk))]

-----------------------------------------------------------------------------
Init ==
    /\ caller \in {"session", "batch"}
    /\ pc = "streaming"
    /\ processor = [analysis_buf |-> Silence(WINDOW_SIZE), output |-> <<>>,
                    frame_idx |-> 0, cursor |-> 0, leftover |-> <<>>]
    /\ received = 0
    /\ returned = <<>>

\* process() with a chunk of n samples.
Process(n) ==
    LET chunk == processor.leftover \o [i \in 1..n |-> received + i - 1]
        p     == Processed(processor, chunk)
    IN  /\ pc = "streaming"
        /\ received + n <= MaxSamples
        /\ received' = received + n
        /\ Return(p, Ready(p))
        /\ UNCHANGED <<caller, pc>>

\* Mutated form of Padded: the rest is not processed.
PaddedAway(p) == [p EXCEPT !.leftover = <<>>]

\* The last, incomplete frame is filled up with silence.
Padded(p) ==
    IF p.leftover = <<>> THEN p
    ELSE [ProcessOneFrame(p, p.leftover \o Silence(FRAME_SIZE - Len(p.leftover)))
             EXCEPT !.leftover = <<>>]

\* flush(), which only the batch code calls.
Flush ==
    /\ pc = "streaming" /\ caller = "batch"
    /\ pc' = "ended"
    /\ Return(Padded(processor), Len(Padded(processor).output))
    /\ UNCHANGED <<caller, received>>

\* A session's stream ends: the handler flushes the voice activity detector
\* and drops the processor.
StreamEnds ==
    /\ pc = "streaming" /\ caller = "session"
    /\ pc' = "ended"
    /\ UNCHANGED <<caller, processor, received, returned>>

Next == (\E n \in ChunkSizes : Process(n)) \/ Flush \/ StreamEnds

Spec == Init /\ [][Next]_vars

-----------------------------------------------------------------------------
Sample == 0 .. MaxSamples - 1 \cup {None}

\* Every variable has its type.
TypeOK ==
    /\ caller \in {"session", "batch"}
    /\ pc \in {"streaming", "ended"}
    /\ processor.analysis_buf \in [1..WINDOW_SIZE -> Sample]
    /\ processor.output \in Seq(Seq(Sample))
    /\ processor.frame_idx \in Nat
    /\ processor.cursor = Len(returned)
    /\ processor.leftover \in Seq(Sample) /\ Len(processor.leftover) < FRAME_SIZE
    /\ received \in 0..MaxSamples
    /\ returned \in Seq(Seq(Sample))

\* Whatever the chunks, the windows meet: all that was added to one sample of
\* the output comes from one sample of the input, one frame before it, and
\* every input sample keeps its place.  A running stream has returned whole
\* frames and holds back less than a frame (and every variable has its type).
WindowsMeet ==
    /\ TypeOK
    /\ \A q \in DOMAIN returned : \A k \in DOMAIN returned[q] :
          returned[q][k] = LET p == q - 1 - FRAME_SIZE
                           IN  IF p \in 0 .. received - 1 THEN p ELSE None
    /\ pc = "streaming" => received - Len(returned) \in 0 .. FRAME_SIZE - 1

HeardIsReturned ==
    \A p \in 0 .. received - 1 : \E q \in DOMAIN returned : p \in Range(returned[q])

\* After flush() nothing is held back, an incomplete last frame included.
FlushReturnsAll == caller = "batch" /\ pc = "ended" => HeardIsReturned

\* A sample is returned only when no later window will be added to it.
ReturnedIsSettled ==
    [][\A q \in DOMAIN returned : returned[q] = processor'.output[q]]_vars
=============================================================================
