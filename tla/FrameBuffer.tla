----------------------------- MODULE FrameBuffer -----------------------------
(***************************************************************************)
(* The FrameState of a session (src/api/websocket_handler.py) and what the *)
(* handler does to it between two awaits: audio is buffered, a segment the *)
(* detector closed takes the buffer along, a pause inside a segment moves  *)
(* the online cursor, and enough new audio is worth an online request.     *)
(*                                                                         *)
(* A sample is its absolute position in the session, a text the sequence   *)
(* of the online results it is made of.                                    *)
(***************************************************************************)
EXTENDS Integers, Sequences

CONSTANTS
    Trigger,       \* ONLINE_TRIGGER_SAMPLES
    OnlinePause,   \* ONLINE_VAD_PAUSE_SEC (in samples)
    SamplesPerMs   \* 16 samples make a millisecond

ASSUME TriggerAssumption == Trigger \in Nat \ {0}
ASSUME OnlinePauseAssumption == OnlinePause \in Nat \ {0}
ASSUME SamplesPerMsAssumption == SamplesPerMs \in Nat \ {0}

Token == [seg : Nat, epoch : Nat]
Text  == Seq(Token)

FrameState ==
    [online_buf : Seq(Nat), online_total : Nat, online_last_trigger : Nat,
     online_epoch : Nat, online_busy : BOOLEAN, seg_id : Nat,
     online_cut_cursor : Nat, online_last_text : Text,
     online_accumulated_text : Text, abs_samples : Nat, seg_start_abs : Nat]

\* A FrameState that is just made.
NewFrameState ==
    [online_buf |-> <<>>, online_total |-> 0, online_last_trigger |-> 0,
     online_epoch |-> 0, online_busy |-> FALSE, seg_id |-> 0,
     online_cut_cursor |-> 0, online_last_text |-> <<>>,
     online_accumulated_text |-> <<>>, abs_samples |-> 0, seg_start_abs |-> 0]

Ms(n) == n \div SamplesPerMs

\* The samples of a span, as the VAD copies them out of its own buffer.
SpanAudio(span) == [i \in 1..(span[2] - span[1]) |-> span[1] + i - 1]

\* A detector reports only spans it has heard, and no more segments than
\* samples: every segment has speech of its own.
Reported(f, spans) ==
    /\ f.seg_id + Len(spans) <= f.abs_samples
    /\ \A i \in DOMAIN spans : spans[i][1] <= spans[i][2] /\ spans[i][2] <= f.abs_samples

-----------------------------------------------------------------------------
(* Pure steps on FrameState *)

Buffered(f, n) ==
    [f EXCEPT !.online_buf = @ \o [i \in 1..n |-> f.abs_samples + i - 1],
              !.online_total = @ + n,
              !.abs_samples = @ + n]

\* Mutated form of AfterCuts: the cut forgets online_epoch += 1.
AfterCutsSameEpoch(f, count) ==
    IF count = 0 THEN f
    ELSE [f EXCEPT !.online_buf = <<>>, !.online_total = 0,
                   !.online_last_trigger = 0, !.online_busy = FALSE,
                   !.online_cut_cursor = 0, !.online_last_text = <<>>,
                   !.online_accumulated_text = <<>>, !.seg_id = @ + count,
                   !.seg_start_abs = f.abs_samples]

\* Mutated form of AfterCuts: the cut forgets online_buf.clear().
AfterCutsKeepBuffer(f, count) ==
    IF count = 0 THEN f
    ELSE [f EXCEPT !.online_last_trigger = 0, !.online_epoch = @ + count,
                   !.online_busy = FALSE, !.online_cut_cursor = 0,
                   !.online_last_text = <<>>, !.online_accumulated_text = <<>>,
                   !.seg_id = @ + count, !.seg_start_abs = f.abs_samples]

\* _do_trigger_offline, called for each of `count' segments in a row.
AfterCuts(f, count) ==
    IF count = 0 THEN f
    ELSE [f EXCEPT !.online_buf = <<>>,
                   !.online_total = 0,
                   !.online_last_trigger = 0,
                   !.online_epoch = @ + count,
                   !.online_busy = FALSE,
                   !.online_cut_cursor = 0,
                   !.online_last_text = <<>>,
                   !.online_accumulated_text = <<>>,
                   !.seg_id = @ + count,
                   !.seg_start_abs = f.abs_samples]

\* Mutated form of Job: seg_id is read one too early.
JobOffByOne(f, spans, i) ==
    [seg |-> f.seg_id + i - 2,
     audio |-> IF i = 1 /\ f.online_total > 0 THEN f.online_buf
               ELSE SpanAudio(spans[i]),
     bg |-> Ms(spans[i][1]),
     ed |-> Ms(spans[i][2])]

\* The i-th task it creates: only the first finds the online buffer filled,
\* the others fall back on the audio the VAD kept for their segment.
Job(f, spans, i) ==
    [seg |-> f.seg_id + i - 1,
     audio |-> IF i = 1 /\ f.online_total > 0 THEN f.online_buf
               ELSE SpanAudio(spans[i]),
     bg |-> Ms(spans[i][1]),
     ed |-> Ms(spans[i][2])]

\* Mutated form of OnlineCut: the cut forgets online_epoch += 1.
OnlineCutSameEpoch(f, in_speech, silence) ==
    IF in_speech /\ silence >= OnlinePause
                 /\ f.online_total - f.online_cut_cursor > silence
    THEN [f EXCEPT !.online_accumulated_text = @ \o f.online_last_text,
                   !.online_cut_cursor = f.online_total,
                   !.online_last_trigger = f.online_total,
                   !.online_busy = FALSE]
    ELSE f

\* The pause inside a segment that moves the online cursor on.
OnlineCut(f, in_speech, silence) ==
    IF in_speech /\ silence >= OnlinePause
                 /\ f.online_total - f.online_cut_cursor > silence
    THEN [f EXCEPT !.online_accumulated_text = @ \o f.online_last_text,
                   !.online_cut_cursor = f.online_total,
                   !.online_epoch = @ + 1,
                   !.online_last_trigger = f.online_total,
                   !.online_busy = FALSE]
    ELSE f

OnlineDue(f) ==
    ~f.online_busy /\ f.online_total - f.online_last_trigger >= Trigger

OnlineRequest(f) ==
    [seg |-> f.seg_id, epoch |-> f.online_epoch,
     audio |-> SubSeq(f.online_buf, f.online_cut_cursor + 1, f.online_total),
     bg |-> Ms(f.seg_start_abs), ed |-> Ms(f.abs_samples)]
=============================================================================
