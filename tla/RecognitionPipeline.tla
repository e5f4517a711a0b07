-------------------------- MODULE RecognitionPipeline --------------------------
(***************************************************************************)
(* The way of the audio through a session: the detector (TenVADSession)    *)
(* and the handler that feeds it and reads it (_process_audio_frame and    *)
(* the end of handle_websocket), with the FrameState between them.         *)
(*                                                                         *)
(* The handler buffers a frame, lets the detector hear it, and turns what  *)
(* the detector reports into offline tasks.  It names the audio twice: as  *)
(* the buffer it emptied at the last cut and as the copy the detector kept *)
(* of a segment, and the two run on different clocks.                      *)
(*                                                                         *)
(* Online requests are left to AsrSession: they read this state and write  *)
(* only online_busy, online_last_trigger and the texts, which neither the  *)
(* detector nor the offline tasks look at.  There is no denoiser here.     *)
(***************************************************************************)
EXTENDS TenVADSession, FrameBuffer

VARIABLES
    fs,         \* FrameState of the session
    jobs,       \* the offline tasks, in the order they were created
    feed_from   \* ghost: frames heard before the frame in hand was fed

pipelineVars == <<vars, fs, jobs, feed_from>>

OfflineTask == [seg : Nat, audio : Seq(Nat), bg : Nat, ed : Nat, at : Nat]

\* The samples of a detector's copy.
FrameSamples(frames) ==
    [k \in 1 .. Len(frames) * Hop |-> frames[(k - 1) \div Hop + 1] * Hop + ((k - 1) % Hop)]

Span(report) == <<report.start_sample, report.end_sample>>

\* Mutated form of TaskAudio: the detector's copy is always used.
TaskAudioOfDetector(reports, i) == FrameSamples(reports[i].audio)

\* The first of several segments finds the online buffer, which holds all that
\* came since the last cut; the others find it empty.
TaskAudio(reports, i) ==
    IF i = 1 /\ fs.online_total > 0 THEN fs.online_buf ELSE FrameSamples(reports[i].audio)

\* _do_trigger_offline for each report; `at' notes how much had been received.
Tasks(reports) ==
    [i \in DOMAIN reports |->
        LET job == Job(fs, [k \in DOMAIN reports |-> Span(reports[k])], i)
        IN  [seg |-> job.seg, audio |-> TaskAudio(reports, i),
             bg |-> job.bg, ed |-> job.ed, at |-> fs.abs_samples]]

-----------------------------------------------------------------------------
PipelineInit ==
    /\ Init
    /\ fs = NewFrameState
    /\ jobs = <<>>
    /\ feed_from = 0

\* A frame of n samples is buffered and given to the detector.
Receive(n) ==
    /\ FeedAudio(n)
    /\ fs' = Buffered(fs, n)
    /\ feed_from' = total
    /\ UNCHANGED jobs

\* The handler waits while the detector hears the frame.
Hear(is_speech) ==
    /\ ProcessFrame(is_speech)
    /\ UNCHANGED <<fs, jobs, feed_from>>

\* What the detector has reported and no task was made of.
NewReports(reports) == SubSeq(reports, fs.seg_id + 1, Len(reports))

\* The detector is done: a task for each report, then the online cut, which
\* asks the detector for its state as it is now.
FrameDone ==
    LET reports == NewReports(segments)
    IN  /\ FeedReturns
        /\ jobs' = jobs \o Tasks(reports)
        /\ fs' = OnlineCut(AfterCuts(fs, Len(reports)), vad.in_speech,
                           vad.silence_frame_count * Hop)
        /\ UNCHANGED feed_from

\* What the end of the stream leaves: the open segment, or the buffer alone,
\* from 0 to its length.
Rest == [audio |-> <<>>, start_sample |-> 0, end_sample |-> fs.online_total]

EndOfStream ==
    LET tail    == NewReports(segments')
        reports == IF tail = <<>> /\ fs.online_total > 0 THEN <<Rest>> ELSE tail
    IN  /\ Flush
        /\ jobs' = jobs \o Tasks(reports)
        /\ fs' = AfterCuts(fs, Len(reports))
        /\ UNCHANGED feed_from

PipelineNext ==
    \/ \E n \in FeedSizes : Receive(n)
    \/ \E is_speech \in BOOLEAN : Hear(is_speech)
    \/ FrameDone
    \/ EndOfStream

PipelineSpec == PipelineInit /\ [][PipelineNext]_pipelineVars

-----------------------------------------------------------------------------
(* Invariants *)

\* Every variable has its type.
PipelineTypeOK ==
    /\ TypeOK
    /\ fs \in FrameState
    /\ jobs \in Seq(OfflineTask)
    /\ feed_from \in 0 .. total

\* What AsrSession assumes of the detector is what the detector does: when
\* feed_audio returns, the spans it reports lie in the audio the handler has buffered and
\* there are no more of them than samples, whatever bursts were merged, kept
\* or forced out.
ReportsAllowed ==
    pc = "feeding" /\ chunk_total < Hop =>
        LET reports == NewReports(segments)
        IN  Reported(fs, [k \in DOMAIN reports |-> Span(reports[k])])

\* A segment's own task, or an earlier one, has every sample of the span the
\* detector reports, although the first of several segments takes the audio of
\* all, pre-rolls reach behind the last cut, and the detector's copy leaves
\* out merged bursts.
SpanIsRecognised ==
    \A k \in 1 .. Min({Len(jobs), Len(segments)}) :
        \A p \in segments[k].start_sample .. segments[k].end_sample - 1 :
            \E j \in 1 .. k : p \in Range(jobs[j].audio)

\* A sample is given to two offline tasks only if no audio came between them
\* (one frame closed both segments, or the stream ended right after a frame
\* that closed one and opened another), or as pre-roll: the second segment a
\* frame closes brings its own copy, which may begin behind the last cut.
RecognisedOnce ==
    \A i, j \in DOMAIN jobs :
        i < j => \A p \in Range(jobs[i].audio) \cap Range(jobs[j].audio) :
            \/ jobs[i].at = jobs[j].at
            \/ j <= Len(segments) /\ p < segments[j].start_sample + Pad * Hop

-----------------------------------------------------------------------------
(* Action properties *)

\* What AsrSession assumes of the flush, as ReportsAllowed says it of a frame:
\* one segment at most, whose span lies in the audio the handler has buffered,
\* though the stream ends in speech, in a pause or in a burst on probation.
TailAllowed ==
    [][pc' = "flushed" /\ pc # "flushed" =>
          LET tail == NewReports(segments')
          IN  /\ Len(tail) <= 1
              /\ Reported(fs, [k \in DOMAIN tail |-> Span(tail[k])])]_pipelineVars

CursorMoves == fs'.online_cut_cursor > fs.online_cut_cursor

\* The online cursor moves only when all the audio behind the last speech the
\* open segment has kept is at least OnlinePause long: silences, bursts that
\* were merged into them, and a burst still on probation.
CutBehindPause ==
    [][CursorMoves =>
          /\ vad.in_speech
          /\ (total - vad.last_speech_end) * Hop >= OnlinePause]_pipelineVars

\* The comment at websocket_handler.py:242: the online cursor moves while there
\* is silence.  At the least one frame of the audio just fed, or the frame
\* heard before it, is silent then.
OnlineCutInSilence ==
    [][CursorMoves =>
          \E i \in feed_from - 1 .. total - 1 : i >= 0 /\ ~IsSpeech(i)]_pipelineVars
=============================================================================
